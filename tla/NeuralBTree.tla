---------------------------- MODULE NeuralBTree ----------------------------
(***************************************************************************)
(* The items and the B-tree nodes of NeuralFS (neural_fs/btree.rs) and the *)
(* reads that walk the tree.  A node is a block; its items are a function  *)
(* from keys to values, so an insertion in key order is a change of the    *)
(* function.  blk is the function from block addresses to their contents.  *)
(***************************************************************************)
EXTENDS Integers, Sequences, FiniteSets, FiniteSetsExt, SequencesExt

CONSTANT MaxLeafItems   \* MAX_LEAF_ITEMS (84), the items a node holds

(* Items.  A key is (object_id, item_type, offset) compared in that order: *)
(* the number below keeps the order for components smaller than ten.       *)

Key(o, t, f) == 100 * o + 10 * t + f
InodeKey(i) == Key(i, 1, 0)
DirKey(parent, name) == Key(parent, 2, name)
ExtentKey(i) == Key(i, 3, 0)
CrcKey(i, page) == Key(i, 5, page)

IsItem(k, o, t) == k \div 10 = 10 * o + t

\* The pages of version c of file i; the CRC of a content is the content.
Content(i, c, n) == [p \in 1..n |-> <<i, c, p>>]
Junk == [kind |-> "junk"]
PageBlock(p) == [kind |-> "page", page |-> p]
Node(level, left, items) ==
    [kind |-> "node", level |-> level, left |-> left, items |-> items]

\* log_block copies a node before write() renews its checksum, so the image
\* in the journal carries the checksum of the node's previous contents and
\* does not verify when it is read back.
LoggedImage == Junk

\* A stored inode: mode, size in pages, first block, block count, data CRC.
InodeVal(dir, n, first, crc) ==
    [dir |-> dir, size |-> n, db |-> first, bc |-> n, crc |-> crc]

Full(n) == Cardinality(DOMAIN n.items) >= MaxLeafItems
CanInsert(n, k) == ~Full(n) /\ k \notin DOMAIN n.items
With(n, k, x) ==
    [n EXCEPT !.items =
        [j \in DOMAIN n.items \cup {k} |-> IF j = k THEN x ELSE n.items[j]]]
Without(n, ks) ==
    [n EXCEPT !.items = [j \in DOMAIN n.items \ ks |-> n.items[j]]]

PutIf(here, n, k, x) == IF here THEN With(n, k, x) ELSE n

SortedKeys(n) ==
    LET D == DOMAIN n.items
    IN  [i \in 1..Cardinality(D) |->
             CHOOSE k \in D : Cardinality({j \in D : j < k}) = i - 1]

\* The key in the middle of a full node, and the halves of the node around
\* it.  The middle key stays in the upper half of a leaf; an internal node
\* gives it up, and its child becomes the leftmost one.
MidKey(n) == SortedKeys(n)[Cardinality(DOMAIN n.items) \div 2 + 1]
LowerHalf(n, mid) == Without(n, {k \in DOMAIN n.items : k >= mid})
UpperHalf(n, mid) == Without(n, {k \in DOMAIN n.items : k < mid})
UpperChildren(n, mid) ==
    [Without(n, {k \in DOMAIN n.items : k <= mid}) EXCEPT !.left = n.items[mid]]

\* The child of an internal node a key belongs to.
ChildForKey(n, key) ==
    LET below == {k \in DOMAIN n.items : k <= key}
    IN  IF below = {} THEN n.left ELSE n.items[Max(below)]

Children(n) ==
    LET ks == SortedKeys(n)
    IN  <<n.left>> \o [i \in 1..Len(ks) |-> n.items[ks[i]]]

ReplaceChild(n, old, new) ==
    [n EXCEPT !.left = IF @ = old THEN new ELSE @,
              !.items = [k \in DOMAIN n.items |->
                  IF n.items[k] = old THEN new ELSE n.items[k]]]

\* BTreeNode::read: the block verifies against its checksum.
Readable(blk, a) == a \in DOMAIN blk /\ blk[a].kind = "node"

-----------------------------------------------------------------------------
(* Reading the tree. *)

MaxDepth == 8
NoNode == [at |-> 0, node |-> Junk]

\* The nodes from a to the leaf of key; ends in NoNode when a read fails.
RECURSIVE PathTo(_, _, _, _)
PathTo(blk, a, key, fuel) ==
    IF fuel = 0 \/ ~Readable(blk, a) THEN <<NoNode>>
    ELSE IF blk[a].level = 0 THEN <<[at |-> a, node |-> blk[a]]>>
    ELSE <<[at |-> a, node |-> blk[a]]>>
             \o PathTo(blk, ChildForKey(blk[a], key), key, fuel - 1)

LeafOf(blk, root, key) == Last(PathTo(blk, root, key, MaxDepth))

Found(blk, root, key) ==
    LET leaf == LeafOf(blk, root, key)
    IN  leaf.at # 0 /\ key \in DOMAIN leaf.node.items

Lookup(blk, root, key) == LeafOf(blk, root, key).node.items[key]

\* btree_scan_leaves: the keys in the order visited, up to the first node
\* that cannot be read.
RECURSIVE Scan(_, _, _)
Scan(blk, a, fuel) ==
    IF fuel = 0 \/ ~Readable(blk, a) THEN [ok |-> FALSE, keys |-> <<>>]
    ELSE IF blk[a].level = 0 THEN [ok |-> TRUE, keys |-> SortedKeys(blk[a])]
    ELSE FoldLeft(LAMBDA acc, c :
                      IF ~acc.ok THEN acc
                      ELSE LET s == Scan(blk, c, fuel - 1)
                           IN  [ok |-> s.ok, keys |-> acc.keys \o s.keys],
                  [ok |-> TRUE, keys |-> <<>>], Children(blk[a]))

ScanLeaves(blk, root) == Scan(blk, root, MaxDepth + 1)

\* The ancestors of child, found by walking towards hint; ends in NoNode on
\* failure and is empty when child is the root.
RECURSIVE ParentPath(_, _, _, _, _)
ParentPath(blk, a, child, hint, fuel) ==
    IF fuel = 0 \/ ~Readable(blk, a) THEN <<NoNode>>
    ELSE IF blk[a].level = 0 THEN <<NoNode>>
    ELSE LET here == [at |-> a, node |-> blk[a]]
         IN  IF child \in ToSet(Children(blk[a])) THEN <<here>>
             ELSE <<here>> \o
                  ParentPath(blk, ChildForKey(blk[a], hint), child, hint, fuel - 1)

FindParentPath(blk, root, child, hint) ==
    IF root = child THEN <<>>
    ELSE ParentPath(blk, root, child, hint, MaxDepth)

\* The page a read of block b returns; other blocks hold no page of a file.
PageAt(blk, b) ==
    IF b \in DOMAIN blk /\ blk[b].kind = "page" THEN blk[b].page ELSE <<0, 0, 0>>

\* Where the data of file ino is: its extent item, or else its inode i.
ExtentOf(blk, root, ino, i) ==
    IF Found(blk, root, ExtentKey(ino)) THEN Lookup(blk, root, ExtentKey(ino))
    ELSE [start |-> i.db, count |-> i.bc]

\* Mutant of ReadFile: the data is returned unchecked.
ReadFileUnchecked(blk, root, ino) ==
    IF ~Found(blk, root, InodeKey(ino)) THEN [ok |-> FALSE, data |-> <<>>]
    ELSE LET i == Lookup(blk, root, InodeKey(ino))
             e == ExtentOf(blk, root, ino, i)
         IN  [ok |-> ~i.dir,
              data |-> [p \in 1..Min({e.count, i.size}) |->
                            PageAt(blk, e.start + p - 1)]]

\* read_file: data that does not match the CRC of the inode is refused.
ReadFile(blk, root, ino) ==
    IF ~Found(blk, root, InodeKey(ino)) THEN [ok |-> FALSE, data |-> <<>>]
    ELSE LET i == Lookup(blk, root, InodeKey(ino))
             e == ExtentOf(blk, root, ino, i)
             data == [p \in 1..Min({e.count, i.size}) |->
                          PageAt(blk, e.start + p - 1)]
         IN  IF i.dir THEN [ok |-> FALSE, data |-> <<>>]
             ELSE IF i.size = 0 THEN [ok |-> TRUE, data |-> <<>>]
             ELSE [ok |-> data = i.crc, data |-> data]

\* read_range of one page: it is checked against the page's own checksum
\* item, if there is one.
ReadPage(blk, root, ino, p) ==
    LET i == Lookup(blk, root, InodeKey(ino))
        page == PageAt(blk, ExtentOf(blk, root, ino, i).start + p - 1)
        key == CrcKey(ino, p - 1)
    IN  IF Found(blk, root, key) /\ Lookup(blk, root, key) # page
        THEN [ok |-> FALSE, page |-> page]
        ELSE [ok |-> TRUE, page |-> page]
=============================================================================
