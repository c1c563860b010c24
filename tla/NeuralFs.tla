------------------------------ MODULE NeuralFs ------------------------------
(***************************************************************************)
(* The copy-on-write volume of k_nano/src/neural_fs: superblock, B-tree of *)
(* items, block allocator with its persisted free list, journal, and the   *)
(* file API of NeuralVolume.  NeuralFsAgent holds the volume in a Mutex,   *)
(* so operations do not interleave; what interrupts them is a power cut.   *)
(*                                                                         *)
(* An operation is computed as one value: the volume's memory after it and *)
(* the sequence of device writes it issues, in order.  The step then       *)
(* either applies all of them, or a prefix and loses the memory.           *)
(***************************************************************************)
EXTENDS NeuralBTree

CONSTANTS
    TotalBlocks,    \* total_blocks of the volume
    JournalBlocks,  \* journal_blocks of the superblock (8..256 in format)
    FreeListMax,    \* FREE_LIST_MAX (510)
    Names,          \* names of directory entries, as their hashes
    MaxPages,       \* pages of the largest file written
    PageChecksums,  \* the values of page_checksums callers pass
    ZeroCrcs,       \* the transactions whose journal header has CRC zero
    MaxOps          \* bound on the calls, one that is cut off counting twice

VARIABLES
    disk,   \* [sb, hdr, fl, blk]: superblock, journal header, free list, blocks
    vol,    \* the mounted NeuralVolume: [st, sb, tx, stack]
    files,  \* history: what create and write calls acknowledged
    clean,  \* history: no operation has failed or been cut off
    stray,  \* history: files rewritten with extent and inode in two leaves
    cut,    \* history: the power has failed inside an operation
    ops     \* the calls made so far

vars == <<disk, vol, files, clean, stray, cut, ops>>

-----------------------------------------------------------------------------
(* The volume's memory inside an operation: m has the superblock copy, the *)
(* transaction number, the free stack, the blocks journaled so far (log),  *)
(* the blocks as written so far (blk), the writes issued (wr), whether the *)
(* operation is still running without error (ok), and what the last helper *)
(* returned: a block (new), or a leaf in memory and its address.           *)

RootInode == 1
FirstLeaf == 4 + JournalBlocks
Blocks == FirstLeaf..TotalBlocks - 1

Fail(m) == [m EXCEPT !.ok = FALSE]

Start ==
    [sb |-> vol.sb, tx |-> vol.tx + 1, stack |-> vol.stack, log |-> <<>>,
     blk |-> disk.blk, wr |-> <<>>, ok |-> TRUE,
     new |-> 0, leaf |-> Junk, leafAt |-> 0]

Write(m, a, x) ==
    [m EXCEPT !.blk[a] = x,
              !.wr = Append(@, [to |-> "blk", at |-> a, val |-> x])]

\* A node is logged, then written.
WriteNode(m, a, n) == Write([m EXCEPT !.log = Append(@, a)], a, n)

\* Mutant of NextBlock: the end of the volume is not checked.
NextBlockUnbounded(m) ==
    IF m.stack # <<>>
    THEN [m EXCEPT !.stack = Front(@), !.new = Last(m.stack)]
    ELSE IF m.sb.free = 0 THEN Fail(m)
    ELSE [m EXCEPT !.sb.next = @ + 1, !.sb.free = @ - 1, !.new = m.sb.next]

NextBlock(m) ==
    IF m.stack # <<>>
    THEN [m EXCEPT !.stack = Front(@), !.new = Last(m.stack)]
    ELSE IF m.sb.free = 0 \/ m.sb.next >= TotalBlocks THEN Fail(m)
    ELSE [m EXCEPT !.sb.next = @ + 1, !.sb.free = @ - 1, !.new = m.sb.next]

\* Mutant of AllocContiguous: the blocks taken off the stack are not checked
\* to be adjacent.
AllocContiguousAny(m, n) ==
    LET len == Len(m.stack)
    IN  IF len >= n
        THEN [m EXCEPT !.stack = SubSeq(@, 1, len - n), !.new = Last(m.stack),
                       !.sb.free = Max({0, @ - n})]
        ELSE IF m.sb.free < n \/ m.sb.next + n > TotalBlocks THEN Fail(m)
        ELSE [m EXCEPT !.new = m.sb.next, !.sb.next = @ + n, !.sb.free = @ - n]

\* n > 0 adjacent blocks: the last n of the stack if they happen to be
\* adjacent, else the bump pointer.
AllocContiguous(m, n) ==
    LET len == Len(m.stack)
        picked == SortSeq(SubSeq(m.stack, len - n + 1, len), <)
        rest == SubSeq(m.stack, 1, len - n)
        adjacent == \A i \in 1..n - 1 : picked[i + 1] = picked[i] + 1
        back == IF len >= n THEN [m EXCEPT !.stack = rest \o picked] ELSE m
    IN  IF len >= n /\ adjacent
        THEN [m EXCEPT !.stack = rest, !.new = picked[1],
                       !.sb.free = Max({0, @ - n})]
        ELSE IF m.sb.free < n \/ m.sb.next + n > TotalBlocks THEN Fail(back)
        ELSE [back EXCEPT !.new = m.sb.next, !.sb.next = @ + n,
                          !.sb.free = @ - n]

Reclaim(m, b) ==
    IF b = 0 \/ b >= TotalBlocks \/ Len(m.stack) >= FreeListMax THEN m
    ELSE [m EXCEPT !.stack = Append(@, b), !.sb.free = @ + 1]

\* Mutant of ReclaimRun: one block too many.
ReclaimRunPast(m, first, n) ==
    FoldLeft(Reclaim, m, [i \in 1..n + 1 |-> first + i - 1])

ReclaimRun(m, first, n) ==
    FoldLeft(Reclaim, m, [i \in 1..n |-> first + i - 1])

-----------------------------------------------------------------------------
(* Copy on write.  A helper that is given a failed operation returns it.   *)

\* The block just allocated is the root, if it took the root's place.
RootMoved(m, top) == IF top THEN [m EXCEPT !.sb.root = m.new] ELSE m

\* Rewrites the ancestors, from the parent up, after old moved to new.
RECURSIVE CowAncestors(_, _, _, _)
CowAncestors(m, anc, old, new) ==
    LET Copy(a, p) ==
            IF ~a.ok THEN a
            ELSE CowAncestors(
                     RootMoved(Reclaim(WriteNode(a, a.new, ReplaceChild(p.node, old, new)),
                                       p.at),
                               Len(anc) = 1),
                     Front(anc), p.at, a.new)
    IN  IF ~m.ok \/ anc = <<>> THEN m ELSE Copy(NextBlock(m), Last(anc))

\* cow_leaf_for_key: the leaf of key moves to a new block.  Its old block is
\* free at once, and the leaf itself is written by the caller.
CowLeaf(m, key) ==
    LET Copy(a, old, anc) ==
            IF ~a.ok THEN a
            ELSE CowAncestors(
                     RootMoved([Reclaim(a, old.at) EXCEPT !.leaf = old.node,
                                                          !.leafAt = a.new],
                               anc = <<>>),
                     anc, old.at, a.new)
        From(path) == IF Last(path).at = 0 THEN Fail(m)
                      ELSE Copy(NextBlock(m), Last(path), Front(path))
    IN  IF ~m.ok THEN m ELSE From(PathTo(m.blk, m.sb.root, key, MaxDepth))

NewRoot(m, level, left, sep, right) ==
    LET Put(a) ==
            IF ~a.ok THEN a
            ELSE RootMoved(WriteNode(a, a.new, With(Node(level, left, <<>>), sep, right)),
                           TRUE)
    IN  Put(NextBlock(m))

\* The separator of two children goes into their parent, which may split.
RECURSIVE InsertSeparator(_, _, _, _)
InsertSeparator(m, sep, left, right) ==
    LET Insert(a, anc, parent) ==
            CowAncestors(RootMoved(Reclaim(WriteNode(a, a.new, With(parent.node, sep, right)),
                                           parent.at),
                                   anc = <<>>),
                         anc, parent.at, a.new)
        Above(w, anc, parent, mid, lo, up) ==
            IF anc = <<>> THEN NewRoot(w, parent.node.level + 1, lo, mid, up)
            ELSE InsertSeparator(CowAncestors(w, anc, parent.at, lo), mid, lo, up)
        Split(r, anc, parent, mid, lo) ==
            IF ~r.ok \/ sep \in DOMAIN parent.node.items THEN Fail(r)
            ELSE Above(Reclaim(WriteNode(
                           WriteNode(r, lo, PutIf(sep < mid, LowerHalf(parent.node, mid), sep, right)),
                           r.new, PutIf(sep >= mid, UpperChildren(parent.node, mid), sep, right)),
                           parent.at),
                       anc, parent, mid, lo, r.new)
        Into(a, anc, parent) ==
            IF parent.at = 0 \/ ~a.ok THEN Fail(m)
            ELSE IF CanInsert(parent.node, sep) THEN Insert(a, anc, parent)
            ELSE Split(NextBlock(a), anc, parent, MidKey(parent.node), a.new)
        From(path) == IF path = <<>> THEN NewRoot(m, 1, left, sep, right)
                      ELSE Into(NextBlock(m), Front(path), Last(path))
    IN  IF ~m.ok THEN m ELSE From(FindParentPath(m.blk, m.sb.root, left, sep))

\* Mutant of SplitAndInsert: the separator leaves the leaf, as it leaves an
\* internal node.
SplitAndInsertPromote(m, key, val) ==
    LET Split(r, sep) ==
            IF ~r.ok \/ key \in DOMAIN m.leaf.items THEN Fail(r)
            ELSE InsertSeparator(WriteNode(
                     WriteNode(r, m.leafAt, PutIf(key < sep, LowerHalf(m.leaf, sep), key, val)),
                     r.new, PutIf(key >= sep, Without(UpperHalf(m.leaf, sep), {sep}), key, val)),
                     sep, m.leafAt, r.new)
    IN  Split(NextBlock(m), MidKey(m.leaf))

SplitAndInsert(m, key, val) ==
    LET Split(r, sep) ==
            IF ~r.ok \/ key \in DOMAIN m.leaf.items THEN Fail(r)
            ELSE InsertSeparator(WriteNode(
                     WriteNode(r, m.leafAt, PutIf(key < sep, LowerHalf(m.leaf, sep), key, val)),
                     r.new, PutIf(key >= sep, UpperHalf(m.leaf, sep), key, val)),
                     sep, m.leafAt, r.new)
    IN  Split(NextBlock(m), MidKey(m.leaf))

\* When nothing can be inserted the copy stays unwritten although the root
\* already points at it.
LeafInsert(m, key, val) ==
    LET Put(c) ==
            IF ~c.ok THEN c
            ELSE IF CanInsert(c.leaf, key)
            THEN WriteNode(c, c.leafAt, With(c.leaf, key, val))
            ELSE IF Full(c.leaf) THEN SplitAndInsert(c, key, val)
            ELSE Fail(c)
    IN  Put(CowLeaf(m, key))

\* Removes the page checksums of a file's previous version, leaf by leaf.
RECURSIVE PurgeChecksums(_, _)
PurgeChecksums(m, ino) ==
    LET IsCrc(k) == IsItem(k, ino, 5)
        Drop(c, ks) ==
            IF ~c.ok THEN c
            ELSE IF ks = {} THEN Fail(c)
            ELSE PurgeChecksums(WriteNode(c, c.leafAt, Without(c.leaf, ks)), ino)
        Copy(c) == Drop(c, {k \in DOMAIN c.leaf.items : IsCrc(k)})
        From(keys) == IF keys = {} THEN m ELSE Copy(CowLeaf(m, Min(keys)))
    IN  IF ~m.ok THEN m
        ELSE From({k \in ToSet(ScanLeaves(m.blk, m.sb.root).keys) : IsCrc(k)})

-----------------------------------------------------------------------------
(* Transactions. *)

\* Block addresses that fit in the 512 bytes of a journal header.
HeaderSlots == 61

\* Mutant of Commit: the superblock keeps its last_tx_id.
CommitStale(m) ==
    LET len == Len(m.stack)
        fl == SubSeq(m.stack, Max({1, len - FreeListMax + 1}), len)
        hdr == [tx |-> m.tx, addrs |-> m.log]
        f == [m EXCEPT !.wr = Append(@, [to |-> "fl", val |-> fl])]
    IN  IF ~m.ok THEN m
        ELSE IF Len(m.log) >= JournalBlocks \/ Len(m.log) > HeaderSlots THEN Fail(f)
        ELSE [f EXCEPT !.wr = @ \o <<[to |-> "hdr", val |-> hdr],
                                     [to |-> "sb", val |-> m.sb]>>]

\* commit_tx: free list, journal header, superblock.
Commit(m) ==
    LET len == Len(m.stack)
        fl == SubSeq(m.stack, Max({1, len - FreeListMax + 1}), len)
        hdr == [tx |-> m.tx, addrs |-> m.log]
        sb == [m.sb EXCEPT !.last = m.tx]
        f == [m EXCEPT !.wr = Append(@, [to |-> "fl", val |-> fl])]
        h == [f EXCEPT !.wr = Append(@, [to |-> "hdr", val |-> hdr])]
    IN  IF ~m.ok THEN m
        ELSE IF Len(m.log) >= JournalBlocks \/ Len(m.log) > HeaderSlots THEN Fail(f)
        ELSE [h EXCEPT !.sb = sb, !.wr = Append(@, [to |-> "sb", val |-> sb])]

\* create_file and create_dir: an inode item, a directory entry, commit.
Create(parent, name, dir) ==
    LET Entry(i, ino) == LeafInsert(i, DirKey(parent, name), ino)
        Done(d) == IF ~d.ok THEN d ELSE Commit([d EXCEPT !.sb.inodes = @ + 1])
        Numbered(ino) == Done(Entry(LeafInsert(Start, InodeKey(ino),
                                                InodeVal(dir, 0, 0, <<>>)), ino))
    IN  Numbered(vol.sb.inodes + 1)

\* The data pages of a write; short: the source ends before the last page.
WritePages(m, data, short) ==
    LET n == IF short THEN Len(data) - 1 ELSE Len(data)
        Written(w) == IF short THEN Fail(w) ELSE w
    IN  IF ~m.ok THEN m
        ELSE Written(FoldLeft(LAMBDA a, p : Write(a, m.new + p - 1, PageBlock(data[p])),
                              m, [p \in 1..n |-> p]))

\* The items of a write whose pages start at block first: inode and extent
\* in the copied leaf of the inode, then the page checksums, then commit.
PutItems(c, ino, data, first, pc) ==
    LET n == Len(data)
        Inode(leaf) == With(Without(leaf, {InodeKey(ino), ExtentKey(ino)}), InodeKey(ino),
                            InodeVal(FALSE, n, first, data))
        Extent(leaf) == PutIf(n > 0 /\ CanInsert(leaf, ExtentKey(ino)), leaf,
                              ExtentKey(ino), [start |-> first, count |-> n])
        Checksums(p) ==
            IF ~pc THEN p
            ELSE FoldLeft(LAMBDA x, b : LeafInsert(x, CrcKey(ino, b - 1), data[b]),
                          p, [b \in 1..n |-> b])
    IN  Commit(Checksums(PurgeChecksums(
            WriteNode(c, c.leafAt, Extent(Inode(c.leaf))), ino)))

OldInode(ino) == Lookup(disk.blk, vol.sb.root, InodeKey(ino))

\* Mutant of WriteFile: the blocks of the old version are free before the
\* new version is written.
WriteFileEarlyFree(ino, data, pc, short) ==
    LET n == Len(data)
        Put(c, first) == IF ~c.ok THEN c ELSE PutItems(c, ino, data, first, pc)
        Pages(a) == Put(CowLeaf(WritePages(a, data, short), InodeKey(ino)), a.new)
        Freed(old) == ReclaimRun(Start, old.db, old.bc)
        Alloc(s) == IF n = 0 THEN s ELSE AllocContiguous(s, n)
    IN  Pages(Alloc(Freed(OldInode(ino))))

\* write_file_stream_ex: the old blocks are free after the commit, the new
\* ones if a step after the copy of the leaf fails.
WriteFile(ino, data, pc, short) ==
    LET n == Len(data)
        Done(d, first, old) == IF d.ok THEN ReclaimRun(d, old.db, old.bc)
                               ELSE ReclaimRun(d, first, n)
        Put(c, first) ==
            IF ~c.ok THEN c
            ELSE Done(PutItems(c, ino, data, first, pc), first, OldInode(ino))
        Pages(a) == Put(CowLeaf(WritePages(a, data, short), InodeKey(ino)), a.new)
    IN  Pages(IF n = 0 THEN Start ELSE AllocContiguous(Start, n))

-----------------------------------------------------------------------------
(* Steps. *)

Off == [st |-> "off", sb |-> disk.sb, tx |-> 0, stack |-> <<>>]

Apply(d, w) ==
    IF w.to = "blk" THEN [d EXCEPT !.blk[w.at] = w.val]
    ELSE [d EXCEPT ![w.to] = w.val]

\* format: an empty journal and free list, and a leaf with the root inode.
Init ==
    LET sb == [root |-> FirstLeaf, next |-> FirstLeaf + 1,
               free |-> TotalBlocks - FirstLeaf - 1, inodes |-> 1, last |-> 0]
        leaf == With(Node(0, 0, <<>>), InodeKey(RootInode),
                     InodeVal(TRUE, 0, 0, <<>>))
    IN  /\ disk = [sb |-> sb, hdr |-> [tx |-> 0, addrs |-> <<>>],
                   fl |-> <<>>,
                   blk |-> [b \in Blocks |-> IF b = FirstLeaf THEN leaf ELSE Junk]]
        /\ vol = [st |-> "off", sb |-> sb, tx |-> 0, stack |-> <<>>]
        /\ files = {} /\ clean = TRUE /\ stray = {} /\ cut = FALSE /\ ops = 0

\* The operation returns: all its writes are on the disk.
Return(m, acked) ==
    /\ disk' = FoldLeft(Apply, disk, m.wr)
    /\ vol' = [st |-> "on", sb |-> m.sb, tx |-> m.tx, stack |-> m.stack]
    /\ files' = IF m.ok THEN acked ELSE files
    /\ clean' = (clean /\ m.ok)
    /\ ops' = ops + 1 /\ UNCHANGED cut

\* The power fails after k writes.  A block is eight sectors: the next one
\* may be half written.  The other writes are decided by their first sector.
PowerCut(m) ==
    /\ ops + 2 <= MaxOps /\ ops' = ops + 2 /\ cut' = TRUE
    /\ \E k \in 0..Len(m.wr) :
          LET d == FoldLeft(Apply, disk, SubSeq(m.wr, 1, k))
          IN  \/ disk' = d
              \/ /\ k < Len(m.wr) /\ m.wr[k + 1].to = "blk"
                 /\ disk' = [d EXCEPT !.blk[m.wr[k + 1].at] = Junk]
    /\ vol' = Off
    /\ clean' = FALSE
    /\ UNCHANGED files

Run(m, acked) == Return(m, acked) \/ PowerCut(m)

Dirs == {RootInode} \cup {f.ino : f \in {g \in files : g.dir}}

CanRun == vol.st = "on" /\ ops < MaxOps

IsDir(i) ==
    /\ Found(disk.blk, vol.sb.root, InodeKey(i))
    /\ Lookup(disk.blk, vol.sb.root, InodeKey(i)).dir

CreateEntry(parent, name, dir) ==
    /\ CanRun
    /\ ~Found(disk.blk, vol.sb.root, DirKey(parent, name))
    /\ Run(Create(parent, name, dir),
           files \cup {[parent |-> parent, name |-> name, dir |-> dir,
                        ino |-> vol.sb.inodes + 1, data |-> <<>>, at |-> 0]})
    /\ UNCHANGED stray

CreateFile == \E parent \in Dirs, name \in Names :
    IsDir(parent) /\ CreateEntry(parent, name, FALSE)

CreateDir == \E parent \in Dirs, name \in Names : CreateEntry(parent, name, TRUE)

\* The extent item of a file is found in another leaf than its inode.
Apart(ino) ==
    /\ Found(disk.blk, vol.sb.root, ExtentKey(ino))
    /\ LeafOf(disk.blk, vol.sb.root, ExtentKey(ino)).at
           # LeafOf(disk.blk, vol.sb.root, InodeKey(ino)).at

WriteTo(ino, data, pc, short) ==
    LET At(m) == IF ~Found(m.blk, m.sb.root, InodeKey(ino)) THEN 0
                 ELSE Lookup(m.blk, m.sb.root, InodeKey(ino)).db
        Acked(at) == {IF f.ino = ino THEN [f EXCEPT !.data = data, !.at = at] ELSE f :
                          f \in files}
        Done(m) == Run(m, Acked(At(m)))
    IN  Done(WriteFile(ino, data, pc, short))

Rewrite ==
    /\ CanRun
    /\ \E f \in files, n \in 0..MaxPages, pc \in PageChecksums,
          short \in BOOLEAN :
          /\ short => n > 0
          /\ Found(disk.blk, vol.sb.root, InodeKey(f.ino)) /\ ~IsDir(f.ino)
          /\ WriteTo(f.ino, Content(f.ino, ops + 1, n), pc, short)
          /\ stray' = IF Apart(f.ino) THEN stray \cup {f.ino} ELSE stray

PowerOff == vol.st # "off" /\ vol' = Off /\ UNCHANGED <<disk, files, clean, stray, cut, ops>>

\* The CRC of a header is computed while its CRC field is zero, and checked
\* with the field filled in: they agree only if the CRC itself is zero.
HeaderCrcOk(hdr) == hdr.tx \in ZeroCrcs

\* Journal::recover: what it leaves on the disk and whether it succeeds.
Recover(d) ==
    LET InBounds(a) == a >= d.sb.root + 2 /\ a < TotalBlocks
        bad == {i \in DOMAIN d.hdr.addrs : ~InBounds(d.hdr.addrs[i])}
        upto == IF bad = {} THEN Len(d.hdr.addrs) ELSE Min(bad) - 1
        replayed == [d EXCEPT !.blk = [b \in DOMAIN d.blk |->
                        IF \E i \in 1..upto : d.hdr.addrs[i] = b
                        THEN LoggedImage ELSE d.blk[b]]]
    IN  IF d.hdr.tx = 0 \/ d.hdr.tx <= d.sb.last THEN [ok |-> TRUE, disk |-> d]
        ELSE IF ~HeaderCrcOk(d.hdr) THEN [ok |-> FALSE, disk |-> d]
        ELSE IF bad # {} THEN [ok |-> FALSE, disk |-> replayed]
        ELSE [ok |-> TRUE, disk |-> [replayed EXCEPT
                  !.hdr = [tx |-> 0, addrs |-> <<>>]]]

Mount ==
    LET r == Recover(disk)
        valid == SelectSeq(disk.fl, LAMBDA b : b > 0 /\ b < TotalBlocks)
    IN  /\ vol.st = "off"
        /\ disk' = r.disk
        /\ vol' = IF r.ok THEN [st |-> "on", sb |-> disk.sb, tx |-> 0, stack |-> valid]
                  ELSE [Off EXCEPT !.st = "rejected"]
        /\ UNCHANGED <<files, clean, stray, cut, ops>>

Next == CreateFile \/ CreateDir \/ Rewrite \/ PowerOff \/ Mount

Spec == Init /\ [][Next]_vars

-----------------------------------------------------------------------------
(* Properties. *)

InBlocks(s) == \A i \in DOMAIN s : s[i] \in Blocks

\* Type correctness: every address the volume hands out, stores or journals
\* is a block behind the root leaf of format, the bump pointer stops at the
\* end of the volume and the free list keeps its size.
TypeOK ==
    /\ vol.st \in {"off", "on", "rejected"}
    /\ \A sb \in {disk.sb, vol.sb} :
          /\ sb.root \in Blocks /\ sb.next \in FirstLeaf..TotalBlocks
          /\ sb.free \in Nat /\ sb.inodes \in 1..MaxOps + 1 /\ sb.last \in 0..MaxOps
    /\ InBlocks(disk.fl) /\ InBlocks(vol.stack) /\ InBlocks(disk.hdr.addrs)
    /\ Len(disk.fl) <= FreeListMax /\ Len(vol.stack) <= FreeListMax
    /\ vol.tx \in 0..MaxOps

Usable == clean /\ vol.st = "on"
Root == vol.sb.root

ReadsBack(f) ==
    /\ ReadFile(disk.blk, Root, f.ino) = [ok |-> TRUE, data |-> f.data]
    /\ \A p \in DOMAIN f.data :
          ReadPage(disk.blk, Root, f.ino, p) = [ok |-> TRUE, page |-> f.data[p]]

\* What create and write acknowledged is what lookups, read_file and
\* read_range return, through splits, reuse of blocks and remounts.  Files of
\* stray are those of RewriteReads.
ReadBack == Usable =>
    \A f \in files :
        /\ Found(disk.blk, Root, DirKey(f.parent, f.name))
        /\ Lookup(disk.blk, Root, DirKey(f.parent, f.name)) = f.ino
        /\ ~f.dir /\ f.ino \notin stray => ReadsBack(f)

\* The same of every file: a rewritten file reads back wherever the splits
\* of write_file_stream_ex and create_file have put its items.
RewriteReads == Usable => \A f \in files : ~f.dir => ReadsBack(f)

\* list_dir, which scans the leaves, shows exactly the names created: the
\* splits of split_and_insert and insert_separator lose no item, keep none
\* twice and leave no leaf unreachable.
ListedIffCreated == Usable =>
    LET s == ScanLeaves(disk.blk, Root)
        entries == SelectSeq(s.keys, LAMBDA k : \E d \in Dirs : IsItem(k, d, 2))
    IN  /\ s.ok
        /\ Len(entries) = Cardinality(files)
        /\ ToSet(entries) = {DirKey(f.parent, f.name) : f \in files}

RECURSIVE TreeBlocks(_, _)
TreeBlocks(a, fuel) ==
    IF fuel = 0 \/ ~Readable(disk.blk, a) THEN {}
    ELSE IF disk.blk[a].level = 0 THEN {a}
    ELSE {a} \cup UNION {TreeBlocks(c, fuel - 1) : c \in ToSet(Children(disk.blk[a]))}

DataBlocks(f) ==
    LET i == Lookup(disk.blk, Root, InodeKey(f.ino)) IN i.db..i.db + i.bc - 1

\* A block has one use: a node of the tree, a page of one file, an entry of
\* the free stack, or not yet handed out by the bump pointer.  next_block,
\* alloc_contiguous and reclaim_block keep it so, also over the persisted
\* free list.
BlocksDisjoint == Usable =>
    LET tree == TreeBlocks(Root, MaxDepth + 1)
        free == ToSet(vol.stack)
    IN  /\ Cardinality(free) = Len(vol.stack)
        /\ tree \cap free = {}
        /\ \A b \in tree \cup free : b < vol.sb.next
        /\ \A f \in files :
              /\ DataBlocks(f) \cap (tree \cup free) = {}
              /\ \A b \in DataBlocks(f) : b < vol.sb.next
              /\ \A g \in files \ {f} : DataBlocks(f) \cap DataBlocks(g) = {}

\* Whatever failed or was cut off before, read_file returns one version of
\* the file, whole, or an error: never a mixture, never another file's data.
NoSilentCorruption == vol.st = "on" =>
    \A f \in files :
        LET r == ReadFile(disk.blk, Root, f.ino)
        IN  r.ok => \E c \in 1..MaxOps, n \in 0..MaxPages :
                        r.data = Content(f.ino, c, n)

\* A volume that never lost power inside an operation is mounted: over
\* sessions that each count transactions from zero, and over failed commits,
\* commit_tx leaves no journal header newer than the superblock.
CleanMounts == ~cut => vol.st # "rejected"

\* An operation that starts on an intact volume leaves the data pages of
\* every acknowledged file in place, except those of the file it rewrites
\* successfully: also when it fails, and wherever the power cuts it off.
OldDataIntact ==
    [][clean => \A f \in files \cap files' :
            \A p \in DOMAIN f.data : PageAt(disk'.blk, f.at + p - 1) = f.data[p]]_vars
=============================================================================
