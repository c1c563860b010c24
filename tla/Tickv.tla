------------------------------- MODULE Tickv -------------------------------
(***************************************************************************)
(* TickvLite, the persistent key-value store of k_nano (storage/tickv.rs), *)
(* on its file backend (FileFlash of storage/flash.rs).                    *)
(*                                                                         *)
(* The store is a log of records on 512-byte sectors.  put marks the old   *)
(* record of its key invalid in place and appends a new one; delete marks  *)
(* it invalid, or appends an empty record; an idle flush appends a         *)
(* checkpoint, a record holding the index and the append offset.  mount    *)
(* rebuilds the index from the last checkpoint and the log behind it, or   *)
(* from the whole log, under a deadline; when the deadline passes the      *)
(* mount is degraded and the index is partial.                             *)
(*                                                                         *)
(* The store's mutex makes its operations sequential, so the steps here    *)
(* are the device's sector writes, and the power can go between any two.   *)
(* A record is its key, its value and its validity byte; its CRC is good   *)
(* when all of its sectors are its own.  The file backend never compacts   *)
(* by itself (gc_allowed), so compact is not an action.                    *)
(***************************************************************************)
EXTENDS Integers, Sequences, FiniteSets, FiniteSetsExt

CONSTANTS
  Keys,         \* the keys, numbers: the index is ordered
  Ckpt,         \* the key sys/tickv_ckpt
  None,         \* no offset, no value
  Small,        \* values whose record fills one sector
  Large,        \* values whose record fills two
  CkptSectors,  \* sectors of a checkpoint record
  Size,         \* sectors of the volume
  MaxBatch,     \* items of a put_batch
  Duplicates    \* a batch may name a key twice

VARIABLES
  flash,        \* the sectors
  ready,        \* the store is mounted
  degraded,     \* the mount ran out of time
  index,        \* offset of each key's record
  append_off,   \* where the next record goes
  ckpt_dirty,   \* a record was appended since the last checkpoint
  call,         \* the operation in progress
  stored        \* history: what the writes so far have made of each key

vars == <<flash, ready, degraded, index, append_off, ckpt_dirty, call, stored>>

Tomb == "tomb"
Values == Small \cup Large
Offsets == 0 .. Size - 1

ASSUME TickvConstants ==
  /\ Keys \subseteq Nat /\ IsFiniteSet(Keys) /\ Keys # {} /\ Ckpt \notin Keys
  /\ None \notin Nat
  /\ Small \cap Large = {} /\ None \notin Values /\ Tomb \notin Values
  /\ CkptSectors \in {1, 2} /\ Size \in Nat \ {0} /\ MaxBatch \in Nat \ {0}
  /\ Duplicates \in BOOLEAN

-----------------------------------------------------------------------------
(* Records *)

\* Sectors of a record, record_size.
Sectors(r) ==
  CASE r.key = Ckpt -> CkptSectors
    [] r.key # Ckpt /\ r.val \in Large -> 2
    [] OTHER -> 1

Record(k, v) == [key |-> k, val |-> v]

\* The sectors encode_record makes: the first carries the header.
Blank == [part |-> "blank"]
Header(r) == [part |-> "head", rec |-> r, valid |-> TRUE]
Body(r) == [part |-> "body", rec |-> r]
Sector(r, n) == IF n = 0 THEN Header(r) ELSE Body(r)

IsHead(o) == flash[o].part = "head"
End(o) == o + Sectors(flash[o].rec)
CrcGood(o) == \A n \in 1 .. Sectors(flash[o].rec) - 1 :
                o + n < Size /\ flash[o + n] = Body(flash[o].rec)

\* hdr_valid, and with the CRC test of get and scan_range.
HdrValid(o) == IsHead(o) /\ flash[o].valid
Intact(o) == HdrValid(o) /\ CrcGood(o)

-----------------------------------------------------------------------------
(* Scanning *)

\* Both scans stop at a blank sector, at a record that does not fit, and at
\* the end of the volume.
ScanStops(o) == o < Size => flash[o] = Blank \/ (IsHead(o) /\ End(o) > Size)

\* scan_range: an invalid record or one with a good CRC is stepped over, any
\* other sector is skipped alone.
ScanStep(o) == IF IsHead(o) /\ (~flash[o].valid \/ CrcGood(o)) THEN End(o) ELSE o + 1

\* The scan for the checkpoint reads no CRC but the checkpoint's.
CkptScanStep(o) == IF IsHead(o) THEN End(o) ELSE o + 1

ScanSteps == [o \in Offsets |-> ScanStep(o)]
CkptScanSteps == [o \in Offsets |-> CkptScanStep(o)]

\* A scan that takes these steps from start looks at the offsets in seen and is
\* then at end.
Scanned(steps, start, seen, end) ==
  /\ start \in seen \cup {end}
  /\ \A o \in seen : ~ScanStops(o) /\ steps[o] \in seen \cup {end}
  /\ \A o \in seen \ {start} : \E p \in seen : steps[p] = o

\* The index that results from meeting the records at the offsets in seen,
\* starting from base: the last record of a key wins and an empty one removes it.
Indexed(seen, base) ==
  [k \in Keys |->
     LET mine == {o \in seen : Intact(o) /\ flash[o].rec.key = k}
     IN  CASE mine = {} -> base[k]
           [] mine # {} /\ flash[Max(mine)].rec.val = Tomb -> None
           [] OTHER -> Max(mine)]

NoIndex == [k \in Keys |-> None]

\* The last checkpoint with a good CRC.
Ckpts ==
  {o \in Offsets :
     /\ \E seen \in SUBSET (0 .. o - 1) : Scanned(CkptScanSteps, 0, seen, o)
     /\ ~ScanStops(o) /\ IsHead(o) /\ flash[o].rec.key = Ckpt /\ CrcGood(o)}
LastCkpt == Max(Ckpts)

\* "ckpt stale": the first key of the snapshot has lost its record.
Listed(snap) == {k \in Keys : snap.index[k] # None}
CkptStale(snap) ==
  /\ Listed(snap) # {}
  /\ ~HdrValid(snap.index[Min(Listed(snap))])

\* Where the log behind the checkpoint starts.
TailStartSkip(snap) == Size

TailStartPast(snap) ==
  LET held == {o \in {snap.index[k] : k \in Listed(snap)} : HdrValid(o)}
  IN  Max({snap.append} \cup {End(o) : o \in held}) + 2 * CkptSectors

TailStart(snap) ==
  LET held == {o \in {snap.index[k] : k \in Listed(snap)} : HdrValid(o)}
  IN  Max({snap.append} \cup {End(o) : o \in held}) + CkptSectors

\* get: the value of k's record, whosever it is.
Get(k) ==
  CASE index[k] = None -> None
    [] index[k] # None /\ ~HdrValid(index[k]) -> None
    [] index[k] # None /\ HdrValid(index[k]) ->
         IF CrcGood(index[k]) THEN flash[index[k]].rec.val ELSE "corrupt"

-----------------------------------------------------------------------------
(* Operations *)

Idle == [kind |-> "idle", inv |-> <<>>, items |-> <<>>, part |-> 0]

Init ==
  /\ flash = [o \in Offsets |-> Blank]
  /\ ready = FALSE /\ degraded = FALSE
  /\ index = NoIndex /\ append_off = 0 /\ ckpt_dirty = FALSE
  /\ call = Idle
  /\ stored = [k \in Keys |-> None]

Start(c) ==
  /\ ready /\ call = Idle
  /\ call' = c
  /\ UNCHANGED <<flash, ready, degraded, index, append_off, ckpt_dirty, stored>>

\* put_batch; put is the batch of one.
PutBatchBlind(items) ==
  Start([kind |-> "put", inv |-> <<>>, items |-> items, part |-> 0])

PutBatch(items) ==
  Start([kind |-> "put", inv |-> [i \in DOMAIN items |-> items[i].key],
         items |-> items, part |-> 0])

\* delete: in place when the key is indexed, else an empty record.
Delete(k) ==
  IF index[k] # None
    THEN Start([kind |-> "delete", inv |-> <<k>>, items |-> <<>>, part |-> 0])
    ELSE Start([kind |-> "delete", inv |-> <<>>, items |-> <<Record(k, Tomb)>>, part |-> 0])

\* flush_opportunistic on the file backend.
FlushIdle ==
  /\ ckpt_dirty
  /\ Start([kind |-> "ckpt", inv |-> <<>>, part |-> 0,
            items |-> <<Record(Ckpt, [append |-> append_off, index |-> index])>>])

\* What is left of the call once its first inv or item is done.
Rest(c) == IF c.inv = <<>> /\ c.items = <<>> THEN Idle ELSE c

\* invalidate_key: one byte of the record's first sector, then the index.
Invalidate ==
  /\ call.inv # <<>>
  /\ LET k == Head(call.inv) IN
       /\ IF index[k] = None
            THEN UNCHANGED <<flash, stored>>
            ELSE /\ flash' = [flash EXCEPT ![index[k]].valid = FALSE]
                 /\ stored' = IF HdrValid(index[k]) THEN [stored EXCEPT ![k] = None] ELSE stored
       /\ index' = [index EXCEPT ![k] = None]
       /\ call' = Rest([call EXCEPT !.inv = Tail(@)])
  /\ UNCHANGED <<ready, degraded, append_off, ckpt_dirty>>

Appending == call.inv = <<>> /\ call.items # <<>>

\* put_raw on a volume with no room: the device refuses before it writes.
AppendOob ==
  /\ Appending /\ call.part = 0
  /\ append_off + Sectors(Head(call.items)) > Size
  /\ call' = Idle
  /\ UNCHANGED <<flash, ready, degraded, index, append_off, ckpt_dirty, stored>>

\* A sector write fails: put_raw returns with part of the record written.
AppendIo ==
  /\ Appending
  /\ append_off + Sectors(Head(call.items)) <= Size
  /\ call' = Idle
  /\ UNCHANGED <<flash, ready, degraded, index, append_off, ckpt_dirty, stored>>

\* put_raw writes the next sector; with the last one it enters the record in
\* the index, and delete takes it out again.
AppendSector ==
  /\ Appending
  /\ LET r == Head(call.items) IN
       /\ append_off + Sectors(r) <= Size
       /\ flash' = [flash EXCEPT ![append_off + call.part] = Sector(r, call.part)]
       /\ IF call.part + 1 < Sectors(r)
            THEN /\ call' = [call EXCEPT !.part = @ + 1]
                 /\ UNCHANGED <<index, append_off, ckpt_dirty, stored>>
            ELSE /\ call' = Rest([call EXCEPT !.items = Tail(@), !.part = 0])
                 /\ append_off' = append_off + Sectors(r)
                 /\ ckpt_dirty' = (r.key # Ckpt)
                 /\ IF r.key = Ckpt
                      THEN UNCHANGED <<index, stored>>
                      ELSE /\ index' = [index EXCEPT ![r.key] =
                                          IF r.val = Tomb THEN None ELSE append_off]
                           /\ stored' = [stored EXCEPT ![r.key] =
                                           IF r.val = Tomb THEN None ELSE r.val]
  /\ UNCHANGED <<ready, degraded>>

\* The power goes, or the store is dropped.
Crash ==
  /\ ready
  /\ ready' = FALSE /\ degraded' = FALSE
  /\ index' = NoIndex /\ append_off' = 0 /\ ckpt_dirty' = FALSE
  /\ call' = Idle
  /\ UNCHANGED <<flash, stored>>

\* scan_range from start over base, which the deadline may cut anywhere; an
\* incomplete scan leaves no room to append.
ScanRangeClobber(start, base) ==
  \E end \in {start} \cup start .. Size, late \in BOOLEAN :
    \E seen \in SUBSET (start .. end - 1) :
      /\ Scanned(ScanSteps, start, seen, end)
      /\ IF late THEN end < Size ELSE ScanStops(end)
      /\ degraded' = late
      /\ index' = Indexed(seen, base)
      /\ append_off' = end

ScanRange(start, base) ==
  \E end \in {start} \cup start .. Size, late \in BOOLEAN :
    \E seen \in SUBSET (start .. end - 1) :
      /\ Scanned(ScanSteps, start, seen, end)
      /\ IF late THEN end < Size ELSE ScanStops(end)
      /\ degraded' = late
      /\ index' = Indexed(seen, base)
      /\ append_off' = IF late THEN Size ELSE end

\* mount: from the last checkpoint if there is one and it is not stale.
Mount ==
  /\ ~ready
  /\ ready' = TRUE
  /\ IF Ckpts # {} /\ ~CkptStale(flash[LastCkpt].rec.val)
       THEN ScanRange(TailStart(flash[LastCkpt].rec.val), flash[LastCkpt].rec.val.index)
       ELSE ScanRange(0, NoIndex)
  /\ UNCHANGED <<flash, ckpt_dirty, call, stored>>

\* The deadline passes while mount looks for a checkpoint; recover, under the
\* same deadline, reads nothing.
MountTimeout ==
  /\ ~ready
  /\ ready' = TRUE /\ degraded' = TRUE
  /\ index' = NoIndex /\ append_off' = Size
  /\ UNCHANGED <<flash, ckpt_dirty, call, stored>>

Batches ==
  {b \in UNION {[1 .. n -> {Record(k, v) : k \in Keys, v \in Values}] : n \in 1 .. MaxBatch} :
     Duplicates \/ \A i, j \in DOMAIN b : b[i].key = b[j].key => i = j}

Next ==
  \/ \E items \in Batches : PutBatch(items)
  \/ \E k \in Keys : Delete(k)
  \/ FlushIdle \/ Invalidate \/ AppendOob \/ AppendIo \/ AppendSector
  \/ Crash \/ Mount \/ MountTimeout

Spec == Init /\ [][Next]_vars

-----------------------------------------------------------------------------
(* Properties *)

\* The types: in particular the append offset and the indexed offsets of
\* TickvLite stay inside the volume.
TypeOK ==
  /\ DOMAIN flash = Offsets
  /\ \A o \in Offsets : flash[o].part \in {"blank", "head", "body"}
  /\ ready \in BOOLEAN /\ degraded \in BOOLEAN /\ ckpt_dirty \in BOOLEAN
  /\ index \in [Keys -> Offsets \cup {None}]
  /\ append_off \in 0 .. Size
  /\ call.kind \in {"idle", "put", "delete", "ckpt"} /\ call.part \in 0 .. 1
  /\ stored \in [Keys -> Values \cup {None}]

\* After any crashes, torn records, failed writes and mounts, by checkpoint
\* or by full scan, a complete mount shows for every key exactly what the
\* writes that completed made of it: no completed put is lost, no deleted or
\* overwritten value comes back, and get never returns another key's value.
Durable == ready /\ ~degraded => \A k \in Keys : Get(k) = stored[k]

\* A mount cut short by its deadline may miss keys, but what get returns is
\* still the current value, never an older one.
DegradedHonest == ready /\ degraded => \A k \in Keys : Get(k) \in {stored[k], None}

\* No write lands on an intact record, of a key or of a checkpoint, indexed
\* or not; the only change to one is the validity byte of the key that put
\* or delete is working on.
NoClobber ==
  [][\A o \in Offsets : Intact(o) =>
       \/ Intact(o)' /\ flash'[o] = flash[o]
       \/ call.inv # <<>> /\ index[Head(call.inv)] = o]_vars

=============================================================================
