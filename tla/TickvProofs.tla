---------------------------- MODULE TickvProofs ----------------------------
(***************************************************************************)
(* TickvLite: what the log looks like on the flash, where the append       *)
(* offset is, and what every key's records say about it, through crashes,  *)
(* torn records, failed writes, and mounts by full scan or by checkpoint,  *)
(* for any keys, values, volume size and length of batches.                *)
(***************************************************************************)
EXTENDS Tickv, WellFoundedInduction, TLAPS

-----------------------------------------------------------------------------
(* The types. *)

\* What a checkpoint holds, the records, and the two kinds of written sector.
Snaps == [append : Nat, index : [Keys -> Offsets \cup {None}]]
Recs == [key : Keys, val : Values \cup {Tomb}] \cup [key : {Ckpt}, val : Snaps]
Heads == [part : {"head"}, rec : Recs, valid : BOOLEAN]
Bodies == [part : {"body"}, rec : Recs]

\* The volume, the mounted state with its history, and the operation in progress.
FlashTypes == flash \in [Offsets -> {Blank} \cup Heads \cup Bodies]
MountTypes ==
  /\ ready \in BOOLEAN /\ degraded \in BOOLEAN /\ ckpt_dirty \in BOOLEAN
  /\ index \in [Keys -> Offsets \cup {None}] /\ append_off \in 0 .. Size
  /\ stored \in [Keys -> Values \cup {None}]
Calls == [kind : {"idle", "put", "delete", "ckpt"}, inv : Seq(Keys), items : Seq(Recs),
          part : 0 .. 1]
CallTypes == call \in Calls
Types == FlashTypes /\ MountTypes /\ CallTypes

-----------------------------------------------------------------------------
(* The log. *)

\* A record that has all of its sectors; one that has not is torn.
Whole(o) == IsHead(o) /\ CrcGood(o)
\* A record that gives k a value; the valid ones, and the valid empty records.
ValueOf(o, k) == Whole(o) /\ flash[o].rec.key = k /\ flash[o].rec.val # Tomb
Live(o, k) == ValueOf(o, k) /\ flash[o].valid
TombOf(o, k) == Intact(o) /\ flash[o].rec.key = k /\ flash[o].rec.val = Tomb

\* The log has no holes, every record fits on the volume, only whole records are
\* ever invalidated, and a sector that is no header belongs to the one before it.
Log ==
  /\ \A o, p \in Offsets : o < p /\ flash[p] # Blank => flash[o] # Blank
  /\ \A o \in Offsets : IsHead(o) => End(o) <= Size /\ (~flash[o].valid => CrcGood(o))
  /\ \A o \in Offsets : flash[o].part = "body" =>
       o >= 1 /\ IsHead(o - 1) /\ flash[o - 1].rec = flash[o].rec

\* The append offset is where the log ends, on a blank sector or on the header
\* of a torn record; a degraded mount leaves no room.
Frontier ==
  /\ ~ready => call = Idle /\ index = NoIndex
  /\ ready /\ degraded => append_off = Size
  /\ ready => \A o \in Offsets : o > append_off => flash[o] = Blank
  /\ ready /\ append_off < Size =>
       /\ \A o \in Offsets : o < append_off => flash[o] # Blank
       /\ flash[append_off] = Blank \/ (IsHead(append_off) /\ ~CrcGood(append_off))
  /\ call.part = 1 =>
       /\ Appending /\ Sectors(Head(call.items)) = 2 /\ append_off + 2 <= Size
       /\ flash[append_off] = Header(Head(call.items))

\* The index points at whole records of its keys, and so does the snapshot of a
\* checkpoint, at records before the checkpoint itself.
Snapshot(s, o) ==
  s.append = o /\ \A k \in Keys, p \in Offsets : s.index[k] = p => p < o /\ ValueOf(p, k)
Pointers ==
  /\ \A k \in Keys, o \in Offsets : index[k] = o => ValueOf(o, k)
  /\ \A o \in Offsets : Whole(o) /\ flash[o].rec.key = Ckpt => Snapshot(flash[o].rec.val, o)
  /\ \A i \in 1 .. Len(call.items) : call.items[i].key = Ckpt =>
       /\ call.inv = <<>> /\ Len(call.items) = 1
       /\ call.items[i].val = [append |-> append_off, index |-> index]

\* The inductive invariant of the log, whatever the batches name.
LogInv == Types /\ Log /\ Frontier /\ Pointers

-----------------------------------------------------------------------------
(* The keys. *)

\* A key has at most one live record, after all of its empty ones, and it holds
\* what was stored; without one nothing is stored.
KeyRecords ==
  /\ \A k \in Keys : \A o, p \in Offsets : Live(o, k) /\ Live(p, k) => o = p
  /\ \A k \in Keys : \A o, p \in Offsets : Live(o, k) /\ TombOf(p, k) => p < o
  /\ \A k \in Keys : \A o \in Offsets : Live(o, k) => stored[k] = flash[o].rec.val
  /\ \A k \in Keys : (\A o \in Offsets : ~Live(o, k)) => stored[k] = None

\* A complete mount indexes every live record, and a checkpoint lists those
\* before it.
KeyIndex ==
  /\ ready /\ ~degraded => \A k \in Keys : \A o \in Offsets : Live(o, k) => index[k] = o
  /\ \A o \in Offsets : Whole(o) /\ flash[o].rec.key = Ckpt =>
       \A k \in Keys : \A p \in Offsets : Live(p, k) /\ p < o => flash[o].rec.val.index[k] = p

\* The keys of a call are different, and each is invalidated before it is written.
KeyCall ==
  /\ \A i, j \in 1 .. Len(call.items) : call.items[i].key = call.items[j].key => i = j
  /\ \A i \in 1 .. Len(call.items) : call.items[i].key \in Keys =>
       \/ index[call.items[i].key] = None
       \/ \E j \in 1 .. Len(call.inv) : call.inv[j] = call.items[i].key

\* Inductive together with LogInv, when no batch names a key twice.
KeyInv == KeyRecords /\ KeyIndex /\ KeyCall

-----------------------------------------------------------------------------
(* Sectors and records. *)

\* A nonempty set of offsets has a last one.
LEMMA LastOf ==
  ASSUME NEW n \in Nat, NEW S \in SUBSET (0 .. n), S # {}
  PROVE  Max(S) \in S /\ \A y \in S : y <= Max(S)
<1> DEFINE R == OpToRel(<, Nat)
           T == {m \in Nat : \E x \in S : m = n - x}
<1>1. \A m, l \in Nat : m < l => <<m, l>> \in R
  BY DEF OpToRel
<1>2. T \subseteq Nat /\ T # {}
  <2>1. PICK x \in S : TRUE
    BY Zenon
  <2>2. n - x \in T
    BY <2>1
  <2> QED BY <2>2, Zenon
<1>3. IsWellFoundedOn(R, Nat)
  BY NatLessThanWellFounded, Zenon
<1> HIDE DEF R
<1>4. PICK m \in T : \A l \in T : ~(<<l, m>> \in R)
  BY <1>2, <1>3, WFMin, Zenon
<1>5. PICK x \in S : m = n - x
  BY <1>4
<1>6. \A y \in S : x >= y
  <2> SUFFICES ASSUME NEW y \in S PROVE x >= y
    OBVIOUS
  <2>1. n - y \in T
    OBVIOUS
  <2>2. ~(n - y < m)
    BY <1>1, <1>4, <2>1, Zenon
  <2> QED BY <1>5, <2>2
<1>7. Max(S) \in S /\ \A y \in S : Max(S) >= y
  BY <1>6, Zenon DEF Max
<1> QED BY <1>7

\* A record has one or two sectors.
LEMMA SectorsTwo == \A r : Sectors(r) \in {1, 2}
  BY TickvConstants, Zenon DEF Sectors

\* A record is whole when its second sector, if it has one, is its own.
LEMMA Crc ==
  ASSUME NEW o \in Int
  PROVE  CrcGood(o) <=> \/ Sectors(flash[o].rec) = 1
                        \/ o + 1 < Size /\ flash[o + 1] = Body(flash[o].rec)
<1>1. CASE Sectors(flash[o].rec) = 1
  BY <1>1 DEF CrcGood
<1>2. CASE Sectors(flash[o].rec) = 2
  BY <1>2 DEF CrcGood
<1> QED BY <1>1, <1>2, SectorsTwo

\* The same of the next state.
LEMMA CrcNext ==
  ASSUME NEW o \in Int
  PROVE  CrcGood(o)' <=> \/ Sectors(flash'[o].rec) = 1
                         \/ o + 1 < Size /\ flash'[o + 1] = Body(flash'[o].rec)
<1>1. CASE Sectors(flash'[o].rec) = 1
  BY <1>1 DEF CrcGood
<1>2. CASE Sectors(flash'[o].rec) = 2
  BY <1>2 DEF CrcGood
<1> QED BY <1>1, <1>2, SectorsTwo

\* The parts of a record's sectors.
LEMMA Parts ==
  /\ \A r : Header(r).part = "head" /\ Header(r).rec = r /\ Header(r).valid = TRUE
  /\ \A r : Body(r).part = "body" /\ Body(r).rec = r
  /\ Blank.part = "blank"
  /\ \A r, q : Header(r) # Body(q) /\ Header(r) # Blank /\ Body(r) # Blank
<1>1. \A r : Header(r).part = "head" /\ Header(r).rec = r /\ Header(r).valid = TRUE
  BY DEF Header
<1>2. \A r : Body(r).part = "body" /\ Body(r).rec = r
  BY DEF Body
<1>3. Blank.part = "blank"
  BY DEF Blank
<1>4. \A r, q : Header(r).part # Body(q).part /\ Header(r).part # Blank.part /\ Body(r).part # Blank.part
  BY <1>1, <1>2, <1>3
<1>5. \A r, q : Header(r) # Body(q) /\ Header(r) # Blank /\ Body(r) # Blank
  BY <1>4, Zenon
<1> QED BY <1>1, <1>2, <1>3, <1>5, Zenon

\* Where a sector is written, and what is there before.
LEMMA AppendPlace ==
  ASSUME LogInv, AppendSector
  PROVE  /\ ready /\ append_off \in Nat /\ append_off < Size /\ call.part \in {0, 1}
         /\ append_off + call.part \in Offsets /\ call.part < Sectors(Head(call.items))
         /\ append_off + Sectors(Head(call.items)) <= Size
         /\ Head(call.items) \in Recs /\ Appending
         /\ flash' = [flash EXCEPT ![append_off + call.part] = Sector(Head(call.items), call.part)]
         /\ call.part = 1 => flash[append_off] = Header(Head(call.items))
                             /\ Sectors(Head(call.items)) = 2
         /\ \A o \in Offsets : o > append_off => flash[o] = Blank
         /\ \A o \in Offsets : o < append_off => flash[o] # Blank
         /\ flash[append_off] = Blank \/ (IsHead(append_off) /\ ~CrcGood(append_off))
<1> DEFINE r == Head(call.items)
<1>1. Size \in Nat /\ append_off \in Nat /\ append_off <= Size /\ call.part \in {0, 1}
  BY TickvConstants DEF LogInv, Types, MountTypes, CallTypes, Calls
<1>2. Sectors(r) \in {1, 2} /\ append_off + Sectors(r) <= Size
  BY SectorsTwo DEF AppendSector
<1>3. append_off < Size
  BY <1>1, <1>2
<1>4. Appending /\ r \in Recs
  BY DEF AppendSector, Appending, LogInv, Types, CallTypes, Calls
<1>5. ready
  BY <1>4 DEF LogInv, Frontier, Appending, Idle
<1>6. call.part = 1 => flash[append_off] = Header(r) /\ Sectors(r) = 2
  BY DEF LogInv, Frontier
<1>7. call.part < Sectors(r) /\ append_off + call.part \in Offsets
  BY <1>1, <1>2, <1>6 DEF Offsets
<1>8. flash' = [flash EXCEPT ![append_off + call.part] = Sector(r, call.part)]
  BY DEF AppendSector
<1> HIDE DEF r
<1> QED BY <1>1, <1>2, <1>3, <1>4, <1>5, <1>6, <1>7, <1>8 DEF LogInv, Frontier, r

\* What the write leaves: the sectors before the append offset, and blanks after
\* the one written.
LEMMA AppendSectors ==
  ASSUME LogInv, AppendSector
  PROVE  /\ \A o \in Offsets : o < append_off => flash'[o] = flash[o]
         /\ flash'[append_off] = Header(Head(call.items))
         /\ append_off + 1 < Size =>
              flash'[append_off + 1] = IF call.part = 1 THEN Body(Head(call.items)) ELSE Blank
         /\ \A o \in Offsets : o > append_off + 1 => flash'[o] = Blank
<1> DEFINE r == Head(call.items)
<1>1. flash \in [Offsets -> {Blank} \cup Heads \cup Bodies] /\ Size \in Nat
  BY TickvConstants DEF LogInv, Types, FlashTypes
<1>2. append_off \in Offsets /\ (append_off + 1 < Size => append_off + 1 \in Offsets)
  BY <1>1, AppendPlace DEF Offsets
<1>3. CASE call.part = 0
  <2>1. flash' = [flash EXCEPT ![append_off] = Header(r)]
    BY <1>3, AppendPlace DEF Sector
  <2> HIDE DEF r
  <2>2. \A o \in Offsets : o # append_off => flash'[o] = flash[o]
    BY <1>1, <1>2, <2>1
  <2>3. flash'[append_off] = Header(r)
    BY <1>1, <1>2, <2>1
  <2> QED BY <1>1, <1>2, <1>3, <2>2, <2>3, AppendPlace DEF r, Offsets
<1>4. CASE call.part = 1
  <2>1. append_off + 1 \in Offsets /\ flash' = [flash EXCEPT ![append_off + 1] = Body(r)]
    BY <1>4, AppendPlace DEF Sector
  <2> HIDE DEF r
  <2>2. \A o \in Offsets : o # append_off + 1 => flash'[o] = flash[o]
    BY <1>1, <1>2, <2>1
  <2>3. flash'[append_off + 1] = Body(r)
    BY <1>1, <1>2, <2>1
  <2> QED BY <1>1, <1>2, <1>4, <2>2, <2>3, AppendPlace DEF r, Offsets
<1> QED BY <1>3, <1>4, AppendPlace

\* No record that is whole is touched.
LEMMA AppendKeeps ==
  ASSUME LogInv, AppendSector, NEW o \in Offsets, Whole(o)
  PROVE  o < append_off /\ Whole(o)' /\ flash'[o] = flash[o]
<1>1. Size \in Nat /\ o \in Nat /\ append_off \in Nat /\ append_off < Size
  BY TickvConstants, AppendPlace DEF Offsets
<1>2. o < append_off
  <2>1. o # append_off
    BY AppendPlace, Parts DEF Whole, IsHead
  <2>2. ~(o > append_off)
    BY AppendPlace, Parts DEF Whole, IsHead
  <2> QED BY <1>1, <2>1, <2>2
<1>3. flash'[o] = flash[o]
  BY <1>2, AppendSectors
<1>4. CASE Sectors(flash[o].rec) = 1
  BY <1>1, <1>2, <1>3, <1>4, CrcNext DEF Whole, IsHead
<1>5. CASE o + 1 < Size /\ flash[o + 1] = Body(flash[o].rec)
  <2>0. flash[o + 1].part = "body" /\ flash[o + 1] # Blank
    BY <1>5, Parts
  <2>1. o + 1 \in Offsets /\ o + 1 # append_off
    BY <1>1, <1>5, <2>0, AppendPlace DEF Offsets, IsHead
  <2>2. flash'[o + 1] = flash[o + 1]
    BY <1>1, <1>2, <2>1, AppendSectors
  <2> QED BY <1>1, <1>2, <1>3, <1>5, <2>2, CrcNext DEF Whole, IsHead
<1> QED BY <1>1, <1>4, <1>5, Crc DEF Whole

\* Only the record whose last sector is written becomes whole.
LEMMA AppendWhole ==
  ASSUME LogInv, AppendSector, NEW o \in Offsets, Whole(o)', ~Whole(o)
  PROVE  o = append_off /\ call.part + 1 = Sectors(Head(call.items))
<1>1. Size \in Nat /\ o \in Nat /\ append_off \in Nat /\ append_off < Size
  BY TickvConstants, AppendPlace DEF Offsets
<1>2. flash'[o].part = "head"
  BY DEF Whole, IsHead
<1>3. o <= append_off
  <2>1. ~(o > append_off + 1)
    BY <1>2, AppendSectors, Parts
  <2>2. o # append_off + 1
    <3> SUFFICES ASSUME o = append_off + 1 PROVE FALSE
      OBVIOUS
    <3>1. flash'[o] = IF call.part = 1 THEN Body(Head(call.items)) ELSE Blank
      BY <1>1, AppendSectors DEF Offsets
    <3> QED BY <1>2, <3>1, Parts
  <2> QED BY <1>1, <2>1, <2>2
<1>4. CASE o < append_off
  <2>1. flash'[o] = flash[o]
    BY <1>4, AppendSectors
  <2>2. ~CrcGood(o)
    BY <1>2, <2>1 DEF Whole, IsHead
  <2>3. o + 1 < Size /\ flash'[o + 1] = Body(flash[o].rec) /\ flash[o + 1] # Body(flash[o].rec)
    BY <1>1, <2>1, <2>2, Crc, CrcNext DEF Whole
  <2>4. o + 1 \in Offsets /\ o + 1 <= append_off
    BY <1>1, <1>4, <2>3 DEF Offsets
  <2>5. CASE o + 1 < append_off
    BY <2>3, <2>4, <2>5, AppendSectors
  <2>6. CASE o + 1 = append_off
    <3>1. flash'[append_off] = Body(flash[o].rec) /\ flash'[append_off] = Header(Head(call.items))
      BY <2>3, <2>6, AppendSectors
    <3> QED BY <3>1, Parts, Zenon
  <2> QED BY <1>1, <2>4, <2>5, <2>6
<1>5. CASE o = append_off
  <2>1. flash'[o] = Header(Head(call.items)) /\ flash'[o].rec = Head(call.items)
    BY <1>5, AppendSectors, Parts
  <2>2. CASE Sectors(Head(call.items)) = 1
    BY <1>5, <2>2, AppendPlace
  <2>3. CASE o + 1 < Size /\ flash'[o + 1] = Body(Head(call.items))
    <3>1. call.part = 1
      <4>1. flash'[append_off + 1] = IF call.part = 1 THEN Body(Head(call.items)) ELSE Blank
        BY <1>5, <2>3, AppendSectors
      <4> QED BY <1>5, <2>3, <4>1, Parts, Zenon
    <3> QED BY <1>5, <3>1, AppendPlace
  <2> QED BY <1>1, <2>1, <2>2, <2>3, CrcNext DEF Whole
<1> QED BY <1>1, <1>3, <1>4, <1>5

-----------------------------------------------------------------------------
(* A sector is appended. *)

\* An idle store has no work left.
LEMMA IdleCall ==
  Idle \in Calls /\ Idle.inv = <<>> /\ Idle.items = <<>> /\ Len(Idle.items) = 0 /\ Idle.part = 0
BY DEF Idle, Calls

\* The call of a delete, and the first element of a sequence.
LEMMA DeleteCall ==
  ASSUME NEW a \in Seq(Keys), NEW b \in Seq(Recs)
  PROVE  [kind |-> "delete", inv |-> a, items |-> b, part |-> 0] \in Calls
  BY DEF Calls

LEMMA HeadFirst ==
  ASSUME NEW S, NEW q \in Seq(S), q # <<>>
  PROVE  Head(q) = q[1]
  OBVIOUS

\* Rest leaves the work that is left as it is.
LEMMA RestOf ==
  ASSUME NEW c \in Calls, c.part = 0
  PROVE  Rest(c) \in Calls /\ Rest(c).inv = c.inv /\ Rest(c).items = c.items /\ Rest(c).part = 0
BY IdleCall DEF Rest

\* A call with other records to append, from the first sector.
LEMMA NextItem ==
  ASSUME NEW c \in Calls, NEW t \in Seq(Recs)
  PROVE  LET d == [c EXCEPT !.items = t, !.part = 0]
         IN  d \in Calls /\ d.inv = c.inv /\ d.items = t /\ d.part = 0
<1> DEFINE e == [c EXCEPT !.items = t]
           d == [c EXCEPT !.items = t, !.part = 0]
<1>1. e \in Calls
  BY DEF Calls
<1>2. d = [e EXCEPT !.part = 0] /\ d.inv = c.inv /\ d.items = t /\ d.part = 0
  BY DEF Calls
<1> HIDE DEF e, d
<1>3. 0 \in 0 .. 1
  OBVIOUS
<1>4. [e EXCEPT !.part = 0] \in Calls
  BY <1>1, <1>3, Zenon DEF Calls
<1> QED BY <1>2, <1>4 DEF d

\* What becomes of the call: the next sector of the record, or the next record.
LEMMA AppendCall ==
  ASSUME LogInv, AppendSector
  PROVE  /\ call' \in Calls /\ call'.inv = <<>>
         /\ call.part + 1 < Sectors(Head(call.items)) =>
              /\ call.part = 0 /\ call'.part = 1 /\ call'.items = call.items
              /\ Sectors(Head(call.items)) = 2
              /\ UNCHANGED <<index, append_off, ckpt_dirty, stored>>
         /\ ~(call.part + 1 < Sectors(Head(call.items))) =>
              /\ call.part + 1 = Sectors(Head(call.items))
              /\ call'.part = 0 /\ call'.items = Tail(call.items)
              /\ append_off' = append_off + Sectors(Head(call.items))
<1> DEFINE r == Head(call.items)
<1>1. call \in Calls /\ call.inv = <<>> /\ call.items # <<>> /\ Sectors(r) \in {1, 2}
      /\ call.part \in {0, 1} /\ call.part < Sectors(r)
  BY AppendPlace, SectorsTwo DEF Appending, LogInv, Types, CallTypes
<1>2. CASE call.part + 1 < Sectors(r)
  <2>1. call' = [call EXCEPT !.part = @ + 1] /\ UNCHANGED <<index, append_off, ckpt_dirty, stored>>
    BY <1>2 DEF AppendSector
  <2>2. call.part = 0 /\ Sectors(r) = 2
    BY <1>1, <1>2
  <2> HIDE DEF r
  <2>3. call' \in Calls /\ call'.inv = call.inv /\ call'.items = call.items /\ call'.part = 1
    BY <1>1, <2>1, <2>2 DEF Calls
  <2> QED BY <1>1, <1>2, <2>1, <2>2, <2>3 DEF r
<1>3. CASE ~(call.part + 1 < Sectors(r))
  <2>1. call' = Rest([call EXCEPT !.items = Tail(@), !.part = 0])
        /\ append_off' = append_off + Sectors(r)
    BY <1>3 DEF AppendSector
  <2>2. call.part + 1 = Sectors(r)
    BY <1>1, <1>3
  <2>3. Tail(call.items) \in Seq(Recs)
    BY <1>1 DEF Calls
  <2> DEFINE c == [call EXCEPT !.items = Tail(@), !.part = 0]
  <2>4. c \in Calls /\ c.inv = <<>> /\ c.items = Tail(call.items) /\ c.part = 0
    BY <1>1, <2>3, NextItem, Zenon
  <2> HIDE DEF c, r
  <2>5. call' \in Calls /\ call'.inv = <<>> /\ call'.items = Tail(call.items) /\ call'.part = 0
    BY <2>1, <2>4, RestOf, Zenon DEF c
  <2> QED BY <1>3, <2>1, <2>2, <2>5 DEF r
<1> QED BY <1>2, <1>3

\* The types are kept.
LEMMA AppendTypes ==
  ASSUME LogInv, AppendSector
  PROVE  Types'
<1> DEFINE r == Head(call.items)
<1>1. r \in Recs /\ r \in [key : Keys, val : Values \cup {Tomb}] \cup [key : {Ckpt}, val : Snaps]
  BY AppendPlace DEF Recs
<1>2. FlashTypes'
  <2>1. Header(r) \in Heads /\ Body(r) \in Bodies
    BY <1>1 DEF Header, Body, Heads, Bodies
  <2>2. Sector(r, call.part) \in {Blank} \cup Heads \cup Bodies
    BY <2>1 DEF Sector
  <2> HIDE DEF r
  <2> QED BY <2>2, AppendPlace DEF r, FlashTypes, LogInv, Types
<1>3. MountTypes'
  <2>1. ready' = ready /\ degraded' = degraded
    BY DEF AppendSector
  <2>2. CASE call.part + 1 < Sectors(r)
    BY <2>1, <2>2, AppendCall DEF LogInv, Types, MountTypes
  <2>3. CASE ~(call.part + 1 < Sectors(r))
    <3>1. append_off' \in 0 .. Size
      BY <2>3, AppendCall, AppendPlace, SectorsTwo, TickvConstants
    <3>2. ckpt_dirty' = (r.key # Ckpt)
      BY <2>3 DEF AppendSector
    <3>3. ckpt_dirty' \in BOOLEAN
      BY <3>2
    <3>4. CASE r.key = Ckpt
      <4>1. index' = index /\ stored' = stored
        BY <2>3, <3>4 DEF AppendSector
      <4> QED BY <2>1, <3>1, <3>3, <4>1 DEF LogInv, Types, MountTypes
    <3>5. CASE r.key # Ckpt
      <4>1. r.key \in Keys /\ r.val \in Values \cup {Tomb}
        BY <1>1, <3>5
      <4>2. index' = [index EXCEPT ![r.key] = IF r.val = Tomb THEN None ELSE append_off]
            /\ stored' = [stored EXCEPT ![r.key] = IF r.val = Tomb THEN None ELSE r.val]
        BY <2>3, <3>5 DEF AppendSector
      <4>3. append_off \in Offsets
        BY AppendPlace, TickvConstants DEF Offsets
      <4> HIDE DEF r
      <4>4. index' \in [Keys -> Offsets \cup {None}]
        BY <4>2, <4>3, Zenon DEF LogInv, Types, MountTypes
      <4>5. stored' \in [Keys -> Values \cup {None}]
        BY <4>1, <4>2 DEF LogInv, Types, MountTypes
      <4> QED BY <2>1, <3>1, <3>3, <4>4, <4>5 DEF LogInv, Types, MountTypes
    <3> QED BY <3>4, <3>5
  <2> QED BY <2>2, <2>3
<1>4. CallTypes'
  BY AppendCall DEF CallTypes
<1> QED BY <1>2, <1>3, <1>4 DEF Types

\* The log stays well-formed.
LEMMA AppendLog ==
  ASSUME LogInv, AppendSector
  PROVE  Log'
<1> DEFINE r == Head(call.items)
<1>1. Size \in Nat /\ append_off \in Nat /\ append_off < Size /\ append_off \in Offsets
  BY TickvConstants, AppendPlace DEF Offsets
<1>2. \A o \in Offsets : o \in Nat /\ o < Size
  BY <1>1 DEF Offsets
<1>3. \A o \in Offsets : o = append_off + 1 =>
        flash'[o] = IF call.part = 1 THEN Body(r) ELSE Blank
  BY <1>1, <1>2, AppendSectors
<1>4. flash'[append_off] = Header(r)
  BY AppendSectors
<1> HIDE DEF r
<1>5. ASSUME NEW o \in Offsets, NEW p \in Offsets, o < p, flash'[p] # Blank
      PROVE  flash'[o] # Blank
  <2>1. p <= append_off + 1
    BY <1>1, <1>2, <1>5, AppendSectors
  <2>2. CASE o = append_off
    BY <1>4, <2>2, Parts
  <2>3. CASE o < append_off
    BY <2>3, AppendPlace, AppendSectors
  <2> QED BY <1>1, <1>2, <1>5, <2>1, <2>2, <2>3
<1>6. ASSUME NEW o \in Offsets, IsHead(o)'
      PROVE  End(o)' <= Size /\ (~flash'[o].valid => CrcGood(o)')
  <2>0. flash'[o].part = "head"
    BY <1>6 DEF IsHead
  <2>1. CASE o = append_off
    <3>1. flash'[o].rec = r /\ flash'[o].valid = TRUE
      BY <1>4, <2>1, Parts
    <3>2. append_off + Sectors(r) <= Size
      BY AppendPlace DEF r
    <3> QED BY <2>1, <3>1, <3>2 DEF End
  <2>2. CASE o < append_off
    <3>1. flash'[o] = flash[o]
      BY <2>2, AppendSectors
    <3>2. IsHead(o)
      BY <2>0, <3>1 DEF IsHead
    <3>3. End(o) <= Size /\ (~flash[o].valid => CrcGood(o))
      BY <3>2 DEF LogInv, Log
    <3>4. End(o)' <= Size
      BY <3>1, <3>3 DEF End
    <3>5. ~flash[o].valid => CrcGood(o)'
      BY <3>2, <3>3, AppendKeeps DEF Whole
    <3> QED BY <3>1, <3>4, <3>5
  <2>3. CASE o = append_off + 1
    BY <1>3, <2>0, <2>3, Parts
  <2>4. CASE o > append_off + 1
    BY <2>0, <2>4, AppendSectors, Parts
  <2> QED BY <1>1, <1>2, <2>1, <2>2, <2>3, <2>4
<1>7. ASSUME NEW o \in Offsets, flash'[o].part = "body"
      PROVE  o >= 1 /\ IsHead(o - 1)' /\ flash'[o - 1].rec = flash'[o].rec
  <2>1. CASE o = append_off
    BY <1>4, <1>7, <2>1, Parts
  <2>2. CASE o < append_off
    <3>1. flash'[o] = flash[o]
      BY <2>2, AppendSectors
    <3>2. o >= 1 /\ flash[o - 1].part = "head" /\ flash[o - 1].rec = flash[o].rec
      BY <1>7, <3>1 DEF LogInv, Log, IsHead
    <3>3. o - 1 \in Offsets /\ o - 1 < append_off
      BY <1>1, <1>2, <2>2, <3>2 DEF Offsets
    <3>4. flash'[o - 1] = flash[o - 1]
      BY <3>3, AppendSectors
    <3> QED BY <3>1, <3>2, <3>4 DEF IsHead
  <2>3. CASE o = append_off + 1
    <3>1. flash'[o] = Body(r)
      BY <1>3, <1>7, <2>3, Parts
    <3>2. o - 1 = append_off /\ o >= 1
      BY <1>1, <2>3
    <3>3. flash'[o - 1].part = "head" /\ flash'[o - 1].rec = r /\ flash'[o].rec = r
      BY <1>4, <3>1, <3>2, Parts
    <3> QED BY <3>2, <3>3 DEF IsHead
  <2>4. CASE o > append_off + 1
    BY <1>7, <2>4, AppendSectors, Parts
  <2> QED BY <1>1, <1>2, <2>1, <2>2, <2>3, <2>4
<1> QED BY <1>5, <1>6, <1>7 DEF Log

\* The append offset stays at the end of the log.
LEMMA AppendFrontier ==
  ASSUME LogInv, AppendSector
  PROVE  Frontier'
<1> DEFINE r == Head(call.items)
<1>1. Size \in Nat /\ append_off \in Nat /\ append_off < Size /\ append_off \in Offsets
      /\ call.part \in {0, 1} /\ Sectors(r) \in {1, 2} /\ append_off + Sectors(r) <= Size
  BY TickvConstants, AppendPlace, SectorsTwo DEF Offsets
<1>2. \A o \in Offsets : o \in Nat /\ o < Size
  BY <1>1 DEF Offsets
<1>3. ready' = TRUE /\ degraded' = FALSE
  BY <1>1, AppendPlace DEF AppendSector, LogInv, Types, MountTypes, Frontier
<1>4. flash'[append_off] = Header(r) /\ flash'[append_off] # Blank
  BY AppendSectors, Parts
<1>5. \A o \in Offsets : o < append_off => flash'[o] # Blank
  BY AppendSectors, AppendPlace
<1>6. append_off + 1 < Size =>
        flash'[append_off + 1] = IF call.part = 1 THEN Body(r) ELSE Blank
  BY AppendSectors
<1>7. CASE call.part + 1 < Sectors(r)
  <2>1. call.part = 0 /\ call'.part = 1 /\ call'.items = call.items /\ call'.inv = <<>>
        /\ Sectors(r) = 2 /\ append_off' = append_off
    BY <1>7, AppendCall
  <2>2. Appending' /\ Head(call'.items) = r
    BY <2>1, AppendPlace DEF Appending
  <2> HIDE DEF r
  <2>3. flash'[append_off + 1] = Blank /\ append_off + 1 < Size
    BY <1>1, <1>6, <2>1
  <2>4. \A o \in Offsets : o > append_off => flash'[o] = Blank
    BY <1>1, <1>2, <2>3, AppendSectors
  <2>5. flash'[append_off].rec = r /\ flash'[append_off].part = "head"
    BY <1>4, Parts
  <2>6. ~CrcGood(append_off)'
    <3> SUFFICES ASSUME NEW o \in Nat, o = append_off PROVE ~CrcGood(o)'
      BY <1>1, <2>1 DEF CrcGood
    <3>1. flash'[o + 1] # Body(flash'[o].rec) /\ Sectors(flash'[o].rec) # 1
      BY <2>1, <2>3, <2>5, Parts
    <3> QED BY <3>1, CrcNext
  <2>7. IsHead(append_off)'
    BY <2>1, <2>5 DEF IsHead
  <2> QED BY <1>1, <1>3, <1>4, <1>5, <2>1, <2>2, <2>4, <2>6, <2>7, Zenon DEF Frontier
<1>8. CASE ~(call.part + 1 < Sectors(r))
  <2>1. call.part + 1 = Sectors(r) /\ call'.part = 0 /\ append_off' = append_off + Sectors(r)
    BY <1>8, AppendCall
  <2> HIDE DEF r
  <2>2. \A o \in Offsets : o >= append_off' => flash'[o] = Blank
    <3> SUFFICES ASSUME NEW o \in Offsets, o >= append_off' PROVE flash'[o] = Blank
      OBVIOUS
    <3>1. CASE o > append_off + 1
      BY <3>1, AppendSectors
    <3>2. CASE o = append_off + 1
      <4>1. call.part = 0
        BY <1>1, <2>1, <3>2
      <4> QED BY <1>2, <1>6, <3>2, <4>1
    <3> QED BY <1>1, <1>2, <2>1, <3>1, <3>2
  <2>3. \A o \in Offsets : o < append_off' => flash'[o] # Blank
    <3> SUFFICES ASSUME NEW o \in Offsets, o < append_off' PROVE flash'[o] # Blank
      OBVIOUS
    <3>1. CASE o = append_off + 1
      <4>1. call.part = 1
        BY <1>1, <2>1, <3>1
      <4> QED BY <1>2, <1>6, <3>1, <4>1, Parts
    <3> QED BY <1>1, <1>2, <1>4, <1>5, <2>1, <3>1
  <2>4. append_off' < Size => append_off' \in Offsets
    BY <1>1, <2>1 DEF Offsets
  <2>5. \A o \in Offsets : o > append_off' => o >= append_off'
    BY <1>1, <1>2, <2>1
  <2>6. append_off' < Size => flash'[append_off'] = Blank
    BY <1>1, <2>1, <2>2, <2>4
  <2> QED BY <1>3, <2>1, <2>2, <2>3, <2>5, <2>6 DEF Frontier
<1> QED BY <1>7, <1>8

\* A record of a key or of a checkpoint stays what it is.
LEMMA AppendValue ==
  ASSUME LogInv, AppendSector, NEW o \in Offsets, NEW k, ValueOf(o, k)
  PROVE  o < append_off /\ ValueOf(o, k)'
<1>1. o < append_off /\ Whole(o)' /\ flash'[o] = flash[o]
  BY AppendKeeps DEF ValueOf
<1> QED BY <1>1 DEF ValueOf

\* The record whose last sector is written is whole.
LEMMA AppendDone ==
  ASSUME LogInv, AppendSector, call.part + 1 = Sectors(Head(call.items)),
         NEW o \in Offsets, o = append_off
  PROVE  Whole(o)' /\ flash'[o] = Header(Head(call.items)) /\ flash'[o].rec = Head(call.items)
<1>1. flash'[o] = Header(Head(call.items)) /\ flash'[o].rec = Head(call.items) /\ flash'[o].part = "head"
  BY AppendSectors, Parts
<1>2. Size \in Nat /\ o \in Nat /\ Sectors(Head(call.items)) \in {1, 2} /\ call.part \in {0, 1}
      /\ o + Sectors(Head(call.items)) <= Size
  BY TickvConstants, AppendPlace, SectorsTwo DEF Offsets
<1>3. CASE Sectors(Head(call.items)) = 1
  BY <1>1, <1>2, <1>3, CrcNext DEF Whole, IsHead
<1>4. CASE Sectors(Head(call.items)) = 2
  <2>1. call.part = 1 /\ o + 1 < Size
    BY <1>2, <1>4
  <2>2. flash'[o + 1] = Body(Head(call.items))
    BY <2>1, AppendSectors
  <2> QED BY <1>1, <1>2, <2>1, <2>2, CrcNext DEF Whole, IsHead
<1> QED BY <1>2, <1>3, <1>4

\* A record being appended that is a checkpoint holds the present index.
LEMMA CkptItem ==
  ASSUME LogInv, Appending, Head(call.items).key = Ckpt
  PROVE  Head(call.items).val = [append |-> append_off, index |-> index] /\ Len(call.items) = 1
<1>1. call.items \in Seq(Recs) /\ call.items # <<>>
  BY DEF Appending, LogInv, Types, CallTypes, Calls
<1>2. 1 \in 1 .. Len(call.items) /\ Head(call.items) = call.items[1]
  BY <1>1
<1> QED BY <1>2 DEF LogInv, Pointers

\* The index and the checkpoints still point at whole records.
LEMMA AppendPointers ==
  ASSUME LogInv, AppendSector
  PROVE  Pointers'
<1> DEFINE r == Head(call.items)
<1>1. call.items \in Seq(Recs) /\ call.items # <<>> /\ r \in Recs
  BY AppendPlace DEF Appending, LogInv, Types, CallTypes, Calls
<1>2. Size \in Nat /\ append_off \in Nat /\ append_off \in Offsets
  BY TickvConstants, AppendPlace DEF Offsets
<1>3. ASSUME NEW k \in Keys, NEW o \in Offsets, index'[k] = o
      PROVE  ValueOf(o, k)'
  <2>1. CASE index[k] = o
    BY <2>1, AppendValue DEF LogInv, Pointers
  <2>2. CASE index[k] # o
    <3>1. ~(call.part + 1 < Sectors(r))
      BY <1>3, <2>2, AppendCall
    <3>2. r.key # Ckpt /\ index' = [index EXCEPT ![r.key] = IF r.val = Tomb THEN None ELSE append_off]
      BY <1>3, <2>2, <3>1 DEF AppendSector
    <3>3. index \in [Keys -> Offsets \cup {None}] /\ None \notin Offsets
      BY TickvConstants DEF Offsets, LogInv, Types, MountTypes
    <3>4. k = r.key /\ r.val # Tomb /\ o = append_off
      <4> HIDE DEF r
      <4> QED BY <1>3, <2>2, <3>2, <3>3
    <3>5. Whole(o)' /\ flash'[o].rec = r
      BY <3>1, <3>4, AppendCall, AppendDone
    <3> QED BY <3>4, <3>5 DEF ValueOf
  <2> QED BY <2>1, <2>2
<1>4. ASSUME NEW o \in Offsets, Whole(o)', flash'[o].rec.key = Ckpt
      PROVE  Snapshot(flash[o].rec.val, o)'
  <2>1. CASE Whole(o)
    <3>1. flash'[o] = flash[o]
      BY <2>1, AppendKeeps
    <3>2. Snapshot(flash[o].rec.val, o)
      BY <1>4, <2>1, <3>1 DEF LogInv, Pointers
    <3>3. \A k \in Keys, p \in Offsets : flash'[o].rec.val.index[k] = p => p < o /\ ValueOf(p, k)'
      BY <3>1, <3>2, AppendValue DEF Snapshot
    <3> QED BY <3>1, <3>2, <3>3 DEF Snapshot
  <2>2. CASE ~Whole(o)
    <3>1. o = append_off /\ call.part + 1 = Sectors(r)
      BY <1>4, <2>2, AppendWhole
    <3>2. flash'[o].rec = r
      BY <3>1, AppendDone
    <3>3. r.val = [append |-> append_off, index |-> index]
      BY <1>4, <3>2, AppendPlace, CkptItem
    <3> HIDE DEF r
    <3>4. flash'[o].rec.val.append = o /\ flash'[o].rec.val.index = index
      BY <3>1, <3>2, <3>3
    <3>5. \A k \in Keys, p \in Offsets : index[k] = p => p < o /\ ValueOf(p, k)'
      BY <3>1, AppendValue DEF LogInv, Pointers
    <3> QED BY <3>4, <3>5 DEF Snapshot
  <2> QED BY <2>1, <2>2
<1>5. ASSUME NEW i \in 1 .. Len(call'.items), call'.items[i].key = Ckpt
      PROVE  /\ call'.inv = <<>> /\ Len(call'.items) = 1
             /\ call'.items[i].val = [append |-> append_off', index |-> index']
  <2>1. CASE call.part + 1 < Sectors(r)
    <3>1. call'.items = call.items /\ call'.inv = <<>> /\ append_off' = append_off /\ index' = index
      BY <2>1, AppendCall
    <3> QED BY <1>5, <3>1 DEF LogInv, Pointers
  <2>2. CASE ~(call.part + 1 < Sectors(r))
    <3>1. call'.items = Tail(call.items)
      BY <2>2, AppendCall
    <3>2. i + 1 \in 1 .. Len(call.items) /\ call'.items[i] = call.items[i + 1]
      BY <1>1, <1>5, <3>1
    <3>3. Len(call.items) = 1
      BY <1>5, <3>2 DEF LogInv, Pointers
    <3> QED BY <3>2, <3>3
  <2> QED BY <2>1, <2>2
<1> QED BY <1>3, <1>4, <1>5 DEF Pointers

\* Appending a sector keeps the inductive invariant of the log.
LEMMA AppendInv ==
  ASSUME LogInv, AppendSector
  PROVE  LogInv'
BY AppendTypes, AppendLog, AppendFrontier, AppendPointers DEF LogInv

-----------------------------------------------------------------------------
(* The steps that write no record. *)

\* No sector changes but for the validity byte of a header.
Kept == \A o \in Offsets : /\ flash'[o].part = flash[o].part /\ flash'[o].rec = flash[o].rec
                           /\ flash[o].part # "head" => flash'[o] = flash[o]

\* Then the same sectors are blank and the same records are whole.
LEMMA KeptRecords ==
  ASSUME Kept, NEW o \in Offsets
  PROVE  /\ flash'[o] = Blank <=> flash[o] = Blank
         /\ IsHead(o)' <=> IsHead(o)
         /\ End(o)' = End(o)
         /\ CrcGood(o)' <=> CrcGood(o)
         /\ Whole(o)' <=> Whole(o)
         /\ \A k : ValueOf(o, k)' <=> ValueOf(o, k)
<1>1. flash'[o] = Blank <=> flash[o] = Blank
  BY Parts DEF Kept
<1>2. flash'[o].part = flash[o].part /\ flash'[o].rec = flash[o].rec
  BY DEF Kept
<1>3. (IsHead(o)' <=> IsHead(o)) /\ End(o)' = End(o)
  BY <1>2 DEF IsHead, End
<1>4. CrcGood(o)' <=> CrcGood(o)
  <2>1. Size \in Nat /\ o \in Int
    BY TickvConstants DEF Offsets
  <2>2. ASSUME o + 1 < Size
        PROVE  flash'[o + 1] = Body(flash[o].rec) <=> flash[o + 1] = Body(flash[o].rec)
    <3>1. o + 1 \in Offsets
      BY <2>1, <2>2 DEF Offsets
    <3>2. flash'[o + 1].part = flash[o + 1].part
          /\ (flash[o + 1].part # "head" => flash'[o + 1] = flash[o + 1])
      BY <3>1 DEF Kept
    <3>3. Body(flash[o].rec).part # "head"
      BY Parts
    <3> QED BY <3>2, <3>3, Zenon
  <2> QED BY <1>2, <2>1, <2>2, Crc, CrcNext
<1>5. Whole(o)' <=> Whole(o)
  BY <1>3, <1>4 DEF Whole
<1>6. \A k : ValueOf(o, k)' <=> ValueOf(o, k)
  BY <1>2, <1>5 DEF ValueOf
<1> QED BY <1>1, <1>3, <1>4, <1>5, <1>6

\* The log stays well-formed when only whole records lose their validity.
LEMMA KeptLog ==
  ASSUME LogInv, Kept,
         \A o \in Offsets : flash'[o].valid = flash[o].valid \/ Whole(o)
  PROVE  Log'
<1>1. ASSUME NEW o \in Offsets, NEW p \in Offsets, o < p, flash'[p] # Blank
      PROVE  flash'[o] # Blank
  BY <1>1, KeptRecords DEF LogInv, Log
<1>2. ASSUME NEW o \in Offsets, IsHead(o)'
      PROVE  End(o)' <= Size /\ (~flash'[o].valid => CrcGood(o)')
  <2>1. IsHead(o) /\ End(o)' = End(o) /\ (CrcGood(o)' <=> CrcGood(o))
    BY <1>2, KeptRecords
  <2>2. End(o) <= Size /\ (~flash[o].valid => CrcGood(o))
    BY <2>1 DEF LogInv, Log
  <2>3. flash'[o].valid = flash[o].valid \/ CrcGood(o)
    BY DEF Whole
  <2> QED BY <2>1, <2>2, <2>3
<1>3. ASSUME NEW o \in Offsets, flash'[o].part = "body"
      PROVE  o >= 1 /\ IsHead(o - 1)' /\ flash'[o - 1].rec = flash'[o].rec
  <2>1. flash[o].part = "body" /\ flash'[o].rec = flash[o].rec
    BY <1>3 DEF Kept
  <2>2. o >= 1 /\ IsHead(o - 1) /\ flash[o - 1].rec = flash[o].rec
    BY <2>1 DEF LogInv, Log
  <2>3. o - 1 \in Offsets
    BY <2>2, TickvConstants DEF Offsets
  <2>4. flash'[o - 1].part = flash[o - 1].part /\ flash'[o - 1].rec = flash[o - 1].rec
    BY <2>3 DEF Kept
  <2> QED BY <2>1, <2>2, <2>4 DEF IsHead
<1> QED BY <1>1, <1>2, <1>3 DEF Log

\* So does the end of the log, for a call that is between two records.
LEMMA KeptFrontier ==
  ASSUME LogInv, Kept, ready, UNCHANGED <<ready, degraded, append_off>>, call'.part = 0
  PROVE  Frontier'
<1>1. \A o \in Offsets : o > append_off' => flash'[o] = Blank
  BY KeptRecords DEF LogInv, Frontier
<1>2. ASSUME append_off < Size
      PROVE  /\ \A o \in Offsets : o < append_off => flash'[o] # Blank
             /\ flash'[append_off'] = Blank \/ (IsHead(append_off) /\ ~CrcGood(append_off))'
  <2>1. \A o \in Offsets : o < append_off => flash'[o] # Blank
    BY <1>2, KeptRecords DEF LogInv, Frontier
  <2>2. PICK o \in Offsets : o = append_off
    BY <1>2, TickvConstants DEF LogInv, Types, MountTypes, Offsets
  <2>3. flash[o] = Blank \/ (IsHead(o) /\ ~CrcGood(o))
    BY <1>2, <2>2 DEF LogInv, Frontier
  <2>4. flash'[o] = Blank \/ (IsHead(o)' /\ ~CrcGood(o)')
    BY <2>3, KeptRecords
  <2>5. flash'[append_off'] = Blank \/ (IsHead(append_off) /\ ~CrcGood(append_off))'
    BY <2>2, <2>4 DEF IsHead, CrcGood
  <2> QED BY <2>1, <2>5
<1> QED BY <1>1, <1>2 DEF LogInv, Frontier

\* The records that the index and the checkpoints point at stay whole.
LEMMA KeptPointers ==
  ASSUME LogInv, Kept, \A k \in Keys : index'[k] \in {index[k], None}
  PROVE  /\ \A k \in Keys, o \in Offsets : index'[k] = o => ValueOf(o, k)'
         /\ \A o \in Offsets : Whole(o)' /\ flash'[o].rec.key = Ckpt =>
              Snapshot(flash[o].rec.val, o)'
<1>1. \A k \in Keys, o \in Offsets : index'[k] = o => ValueOf(o, k)'
  <2> SUFFICES ASSUME NEW k \in Keys, NEW o \in Offsets, index'[k] = o PROVE ValueOf(o, k)'
    OBVIOUS
  <2>1. o # None
    BY TickvConstants DEF Offsets
  <2>2. index[k] = o
    BY <2>1
  <2> QED BY <2>2, KeptRecords DEF LogInv, Pointers
<1>2. ASSUME NEW o \in Offsets, Whole(o)', flash'[o].rec.key = Ckpt
      PROVE  Snapshot(flash[o].rec.val, o)'
  <2>1. Whole(o) /\ flash'[o].rec = flash[o].rec
    BY <1>2, KeptRecords DEF Kept
  <2>2. Snapshot(flash[o].rec.val, o)
    BY <1>2, <2>1 DEF LogInv, Pointers
  <2>3. \A k \in Keys, p \in Offsets : flash'[o].rec.val.index[k] = p => p < o /\ ValueOf(p, k)'
    BY <2>1, <2>2, KeptRecords DEF Snapshot
  <2> QED BY <2>1, <2>2, <2>3 DEF Snapshot
<1> QED BY <1>1, <1>2

\* A step that only changes the call, to one between two records.
LEMMA CallInv ==
  ASSUME LogInv, ready, call' \in Calls, call'.part = 0,
         UNCHANGED <<flash, ready, degraded, index, append_off, ckpt_dirty, stored>>,
         \A i \in 1 .. Len(call'.items) : call'.items[i].key = Ckpt =>
           /\ call'.inv = <<>> /\ Len(call'.items) = 1
           /\ call'.items[i].val = [append |-> append_off, index |-> index]
  PROVE  LogInv'
<1>1. Kept
  BY DEF Kept
<1>2. Types'
  BY DEF LogInv, Types, FlashTypes, MountTypes, CallTypes
<1>3. Log'
  BY <1>1, KeptLog
<1>4. Frontier'
  BY <1>1, KeptFrontier
<1>5. Pointers'
  BY <1>1, KeptPointers DEF Pointers
<1> QED BY <1>2, <1>3, <1>4, <1>5 DEF LogInv

\* The items of a batch are records of keys.
LEMMA BatchItems ==
  ASSUME NEW items \in Batches
  PROVE  /\ items \in Seq(Recs) /\ [i \in DOMAIN items |-> items[i].key] \in Seq(Keys)
         /\ DOMAIN items = 1 .. Len(items)
         /\ \A i \in 1 .. Len(items) : items[i].key \in Keys /\ items[i].val \in Values
<1>1. PICK n \in 1 .. MaxBatch : items \in [1 .. n -> {Record(k, v) : k \in Keys, v \in Values}]
  BY DEF Batches
<1>2. n \in Nat
  BY TickvConstants
<1>3. \A k \in Keys, v \in Values : Record(k, v) \in Recs /\ Record(k, v).key = k /\ Record(k, v).val = v
  BY DEF Record, Recs
<1>4. \A i \in 1 .. n : items[i] \in Recs /\ items[i].key \in Keys /\ items[i].val \in Values
  BY <1>1, <1>3
<1>5. items \in [1 .. n -> Recs] /\ DOMAIN items = 1 .. n
  BY <1>1, <1>4
<1>6. items \in Seq(Recs) /\ Len(items) = n
  BY <1>2, <1>5
<1>7. [i \in DOMAIN items |-> items[i].key] \in [1 .. n -> Keys]
  BY <1>4, <1>5
<1>8. [i \in DOMAIN items |-> items[i].key] \in Seq(Keys)
  BY <1>2, <1>7
<1> QED BY <1>4, <1>5, <1>6, <1>8

\* Its keys are different, unless batches may repeat one.
LEMMA BatchKeys ==
  ASSUME NEW items \in Batches
  PROVE  Duplicates \/ \A i, j \in DOMAIN items : items[i].key = items[j].key => i = j
BY SMT DEF Batches

\* A put starts.
LEMMA PutInv ==
  ASSUME LogInv, NEW items \in Batches, PutBatch(items)
  PROVE  LogInv'
<1>1. call'.part = 0 /\ call'.items = items /\ call' \in Calls
  BY BatchItems DEF PutBatch, Start, Calls
<1>2. \A i \in 1 .. Len(call'.items) : call'.items[i].key # Ckpt
  <2>1. Ckpt \notin Keys
    BY TickvConstants
  <2>2. \A i \in 1 .. Len(items) : items[i].key \in Keys
    BY BatchItems, Zenon
  <2> QED BY <1>1, <2>1, <2>2, Zenon
<1> QED BY <1>1, <1>2, CallInv DEF PutBatch, Start

\* A delete starts.
LEMMA DeleteInv ==
  ASSUME LogInv, NEW k \in Keys, Delete(k)
  PROVE  LogInv'
<1>1. Record(k, Tomb) \in Recs /\ Record(k, Tomb).key = k
  BY DEF Record, Recs
<1>2. CASE index[k] # None
  <2>1. call' = [kind |-> "delete", inv |-> <<k>>, items |-> <<>>, part |-> 0]
    BY <1>2 DEF Delete, Start
  <2>2. call' \in Calls /\ call'.part = 0 /\ Len(call'.items) = 0
    BY <2>1 DEF Calls
  <2>3. \A i \in 1 .. Len(call'.items) : FALSE
    BY <2>2
  <2>4. ready /\ UNCHANGED <<flash, ready, degraded, index, append_off, ckpt_dirty, stored>>
    BY <1>2 DEF Delete, Start
  <2> QED BY <2>2, <2>3, <2>4, CallInv
<1>3. CASE index[k] = None
  <2>1. call' = [kind |-> "delete", inv |-> <<>>, items |-> <<Record(k, Tomb)>>, part |-> 0]
    BY <1>3 DEF Delete, Start
  <2>2. <<Record(k, Tomb)>> \in Seq(Recs) /\ <<>> \in Seq(Keys)
    BY <1>1
  <2>3. call' \in Calls /\ call'.part = 0 /\ call'.items = <<Record(k, Tomb)>>
    <3>1. call'.part = 0 /\ call'.items = <<Record(k, Tomb)>>
      BY <2>1, Zenon
    <3>2. call' \in Calls
      <4> DEFINE b == <<Record(k, Tomb)>>
      <4>1. b \in Seq(Recs) /\ call' = [kind |-> "delete", inv |-> <<>>, items |-> b, part |-> 0]
        BY <2>1, <2>2, Zenon
      <4> HIDE DEF b
      <4> QED BY <2>2, <4>1, DeleteCall, Zenon
    <3> QED BY <3>1, <3>2
  <2>4. \A i \in 1 .. Len(call'.items) : call'.items[i].key # Ckpt
    BY <1>1, <2>3, TickvConstants
  <2> QED BY <1>3, <2>3, <2>4, CallInv DEF Delete, Start
<1> QED BY <1>2, <1>3

\* A checkpoint starts.
LEMMA FlushInv ==
  ASSUME LogInv, FlushIdle
  PROVE  LogInv'
<1> DEFINE s == [append |-> append_off, index |-> index]
           r == Record(Ckpt, s)
<1>1. s \in Snaps
  BY TickvConstants DEF Snaps, LogInv, Types, MountTypes
<1> HIDE DEF s
<1>2. r \in Recs /\ r.key = Ckpt /\ r.val = s
  BY <1>1 DEF Record, Recs
<1>3. call' = [kind |-> "ckpt", inv |-> <<>>, part |-> 0, items |-> <<r>>]
  BY DEF FlushIdle, Start, s
<1> HIDE DEF r
<1>4. call' \in Calls /\ call'.part = 0 /\ call'.inv = <<>> /\ call'.items = <<r>>
  BY <1>2, <1>3 DEF Calls
<1>5. \A i \in 1 .. Len(call'.items) :
        call'.inv = <<>> /\ Len(call'.items) = 1 /\ call'.items[i].val = s
  BY <1>2, <1>4
<1> QED BY <1>4, <1>5, CallInv DEF FlushIdle, Start, s

\* An append that the device refuses, or that fails part of the way.
LEMMA AbandonInv ==
  ASSUME LogInv, AppendOob \/ AppendIo
  PROVE  LogInv'
<1>1. call' = Idle /\ UNCHANGED <<flash, ready, degraded, index, append_off, ckpt_dirty, stored>>
  BY DEF AppendOob, AppendIo
<1>2. ready
  BY DEF AppendOob, AppendIo, Appending, Idle, LogInv, Types, MountTypes, Frontier
<1>3. \A i \in 1 .. Len(call'.items) : FALSE
  BY <1>1, IdleCall
<1> QED BY <1>1, <1>2, <1>3, IdleCall, CallInv

\* The power goes.
LEMMA CrashInv ==
  ASSUME LogInv, Crash
  PROVE  LogInv'
<1>1. Kept
  BY DEF Crash, Kept
<1>2. Types'
  <2>1. CallTypes'
    BY IdleCall DEF Crash, CallTypes
  <2>2. index' \in [Keys -> Offsets \cup {None}] /\ append_off' \in 0 .. Size
    BY TickvConstants DEF Crash, NoIndex
  <2>3. MountTypes'
    BY <2>2, Zenon DEF Crash, LogInv, Types, MountTypes
  <2> QED BY <2>1, <2>3 DEF Crash, LogInv, Types, FlashTypes
<1>3. Log'
  BY <1>1, KeptLog DEF Crash
<1>4. Frontier'
  BY DEF Crash, Frontier, Idle
<1>5. Pointers'
  <2>1. \A k \in Keys : index'[k] \in {index[k], None}
    BY DEF Crash, NoIndex
  <2>2. \A i \in 1 .. Len(call'.items) : FALSE
    BY IdleCall DEF Crash
  <2> QED BY <1>1, <2>1, <2>2, KeptPointers DEF Pointers
<1> QED BY <1>2, <1>3, <1>4, <1>5 DEF LogInv

\* What invalidate_key does: at most one whole record, the indexed one of the
\* key, loses its validity byte, and the key leaves the index.
LEMMA InvalidateSectors ==
  ASSUME LogInv, Invalidate
  PROVE  /\ Head(call.inv) \in Keys /\ ready /\ call.part = 0
         /\ \A o \in Offsets :
              \/ flash'[o] = flash[o]
              \/ /\ index[Head(call.inv)] = o /\ ValueOf(o, Head(call.inv))
                 /\ flash'[o] = [flash[o] EXCEPT !.valid = FALSE]
         /\ \A k \in Keys : index'[k] = IF k = Head(call.inv) THEN None ELSE index[k]
         /\ call' \in Calls /\ call'.inv = Tail(call.inv) /\ call'.items = call.items
         /\ call'.part = 0
<1> DEFINE k == Head(call.inv)
<1>1. call \in Calls /\ call.inv \in Seq(Keys) /\ call.inv # <<>>
  BY DEF Invalidate, LogInv, Types, CallTypes, Calls
<1>2. k \in Keys /\ Tail(call.inv) \in Seq(Keys)
  BY <1>1
<1>3. ready
  BY <1>1 DEF LogInv, Types, MountTypes, Frontier, Idle
<1>4. call.part = 0
  BY <1>1 DEF LogInv, Frontier, Appending, Calls
<1>5. index \in [Keys -> Offsets \cup {None}] /\ flash \in [Offsets -> {Blank} \cup Heads \cup Bodies]
  BY DEF LogInv, Types, FlashTypes, MountTypes
<1>6. index' = [index EXCEPT ![k] = None]
  BY DEF Invalidate
<1>7. call' = Rest([call EXCEPT !.inv = Tail(@)])
  BY DEF Invalidate
<1>8. index[k] = None => flash' = flash
  BY DEF Invalidate
<1>9. index[k] # None => flash' = [flash EXCEPT ![index[k]].valid = FALSE]
  BY DEF Invalidate
<1>10. \A o \in Offsets : index[k] = o => ValueOf(o, k)
  BY <1>2 DEF LogInv, Pointers
<1> HIDE DEF k
<1>11. \A j \in Keys : index'[j] = IF j = k THEN None ELSE index[j]
  BY <1>5, <1>6
<1>12. ASSUME NEW o \in Offsets
       PROVE  \/ flash'[o] = flash[o]
              \/ index[k] = o /\ ValueOf(o, k) /\ flash'[o] = [flash[o] EXCEPT !.valid = FALSE]
  <2>1. CASE index[k] = None
    BY <1>8, <2>1
  <2>2. CASE index[k] # None
    BY <1>2, <1>5, <1>9, <1>10, <2>2
  <2> QED BY <2>1, <2>2
<1>13. call' \in Calls /\ call'.inv = Tail(call.inv) /\ call'.items = call.items /\ call'.part = 0
  <2> DEFINE c == [call EXCEPT !.inv = Tail(@)]
  <2>1. c \in Calls /\ c.inv = Tail(call.inv) /\ c.items = call.items /\ c.part = 0
    BY <1>1, <1>2, <1>4, Zenon DEF Calls
  <2> HIDE DEF c
  <2> QED BY <1>7, <2>1, RestOf, Zenon DEF c
<1> QED BY <1>2, <1>3, <1>4, <1>11, <1>12, <1>13 DEF k

\* It changes a header into a header, and leaves the record.
LEMMA InvalidateKept ==
  ASSUME LogInv, Invalidate
  PROVE  Kept /\ FlashTypes'
<1> DEFINE k == Head(call.inv)
<1>1. flash \in [Offsets -> {Blank} \cup Heads \cup Bodies]
  BY DEF LogInv, Types, FlashTypes
<1>2. ASSUME NEW o \in Offsets, ValueOf(o, k), flash'[o] = [flash[o] EXCEPT !.valid = FALSE]
      PROVE  /\ flash'[o] \in Heads /\ flash'[o].part = flash[o].part
             /\ flash'[o].rec = flash[o].rec /\ flash[o].part = "head"
  <2>1. flash[o].part = "head"
    BY <1>2 DEF ValueOf, Whole, IsHead
  <2>2. flash[o] \in Heads
    BY <1>1, <2>1, Parts DEF Bodies
  <2> QED BY <1>2, <2>1, <2>2, Zenon DEF Heads
<1> HIDE DEF k
<1>3. Kept
  BY <1>2, InvalidateSectors, Zenon DEF Kept, k
<1>4. \A o \in Offsets : flash'[o] \in {Blank} \cup Heads \cup Bodies
  BY <1>1, <1>2, InvalidateSectors, Zenon DEF k
<1>5. flash' \in [Offsets -> {Blank} \cup Heads \cup Bodies]
  <2>1. flash' = flash \/ flash' = [flash EXCEPT ![index[k]].valid = FALSE]
    BY DEF Invalidate, k
  <2>2. DOMAIN flash' = Offsets /\ flash' = [o \in Offsets |-> flash'[o]]
    BY <1>1, <2>1
  <2> QED BY <1>4, <2>2
<1> QED BY <1>3, <1>5 DEF FlashTypes

\* invalidate_key keeps the invariant of the log.
LEMMA InvalidateInv ==
  ASSUME LogInv, Invalidate
  PROVE  LogInv'
<1>1. Kept /\ FlashTypes'
  BY InvalidateKept
<1>2. Types'
  <2>1. stored' \in [Keys -> Values \cup {None}]
    BY InvalidateSectors DEF Invalidate, LogInv, Types, MountTypes
  <2>2. index' \in [Keys -> Offsets \cup {None}]
    BY InvalidateSectors DEF Invalidate, LogInv, Types, MountTypes
  <2> QED BY <1>1, <2>1, <2>2, InvalidateSectors DEF Invalidate, LogInv, Types, MountTypes, CallTypes
<1>3. Log'
  <2>1. \A o \in Offsets : flash'[o].valid = flash[o].valid \/ Whole(o)
    BY InvalidateSectors, Zenon DEF ValueOf
  <2> QED BY <1>1, <2>1, KeptLog
<1>4. Frontier'
  BY <1>1, InvalidateSectors, KeptFrontier DEF Invalidate
<1>5. Pointers'
  <2>1. \A j \in Keys : index'[j] \in {index[j], None}
    BY InvalidateSectors
  <2>2. \A i \in 1 .. Len(call'.items) : call'.items[i].key # Ckpt
    BY InvalidateSectors DEF Invalidate, LogInv, Pointers
  <2> QED BY <1>1, <2>1, <2>2, KeptPointers DEF Pointers
<1> QED BY <1>2, <1>3, <1>4, <1>5 DEF LogInv

-----------------------------------------------------------------------------
(* Mounting. *)

\* A scan steps over one sector, or over both sectors of a whole record.
LEMMA StepOf ==
  ASSUME LogInv, NEW o \in Offsets
  PROVE  /\ o \in Nat /\ ScanSteps[o] \in {o + 1, o + 2}
         /\ ScanSteps[o] = o + 2 => o + 1 < Size /\ flash[o + 1] = Body(flash[o].rec)
<1>1. o \in Nat /\ Size \in Nat /\ Sectors(flash[o].rec) \in {1, 2}
  BY TickvConstants, SectorsTwo DEF Offsets
<1>2. ScanSteps[o] = ScanStep(o)
  BY DEF ScanSteps
<1>3. CASE IsHead(o) /\ (~flash[o].valid \/ CrcGood(o))
  <2>1. CrcGood(o)
    BY <1>3 DEF LogInv, Log
  <2>2. ScanStep(o) = o + Sectors(flash[o].rec)
    BY <1>3 DEF ScanStep, End
  <2> QED BY <1>1, <1>2, <2>1, <2>2, Crc
<1>4. CASE ~(IsHead(o) /\ (~flash[o].valid \/ CrcGood(o)))
  <2>1. ScanStep(o) = o + 1
    BY <1>4 DEF ScanStep
  <2> QED BY <1>1, <1>2, <2>1
<1> QED BY <1>3, <1>4

\* The last sector that a scan looks at comes before the one where it is then.
LEMMA ScanEnd ==
  ASSUME LogInv, NEW start \in 0 .. Size, NEW end \in start .. Size, start < end,
         NEW seen \in SUBSET (start .. end - 1), Scanned(ScanSteps, start, seen, end)
  PROVE  flash[end - 1] # Blank
<1>1. Size \in Nat /\ start \in Nat /\ end \in Nat /\ start \in seen
  BY TickvConstants DEF Scanned
<1>2. seen \in SUBSET (0 .. Size) /\ seen # {} /\ seen \subseteq Offsets
  BY <1>1 DEF Offsets
<1> DEFINE m == Max(seen)
<1>3. m \in seen /\ \A y \in seen : y <= m
  BY <1>1, <1>2, LastOf, Zenon
<1> HIDE DEF m
<1>4. m \in Offsets /\ m \in Nat /\ ScanSteps[m] \in {m + 1, m + 2}
  BY <1>2, <1>3, StepOf
<1>5. ScanSteps[m] = end
  <2>1. ScanSteps[m] \in seen \cup {end}
    BY <1>3 DEF Scanned
  <2> QED BY <1>3, <1>4, <2>1
<1>6. flash[m] # Blank
  <2>1. ~ScanStops(m)
    BY <1>3 DEF Scanned
  <2> QED BY <1>1, <1>4, <2>1 DEF ScanStops, Offsets
<1>7. CASE end = m + 1
  BY <1>4, <1>6, <1>7
<1>8. CASE end = m + 2
  <2>1. flash[m + 1] = Body(flash[m].rec) /\ end - 1 = m + 1
    BY <1>4, <1>5, <1>8, StepOf
  <2> QED BY <2>1, Parts
<1> QED BY <1>4, <1>5, <1>7, <1>8

\* A scan meets every whole record on its way.
LEMMA ScanMeets ==
  ASSUME LogInv, NEW start \in 0 .. Size, NEW end \in start .. Size,
         NEW seen \in SUBSET (start .. end - 1), Scanned(ScanSteps, start, seen, end),
         NEW o \in Offsets, start <= o, o < end, Whole(o)
  PROVE  o \in seen
<1>1. Size \in Nat /\ start \in Nat /\ end \in Nat /\ o \in Nat /\ start \in seen
  BY TickvConstants DEF Scanned, Offsets
<1> DEFINE S == {q \in seen : q <= o}
           p == Max(S)
<1>2. S \in SUBSET (0 .. Size) /\ S # {} /\ seen \subseteq Offsets
  <2>1. start \in S /\ S \subseteq seen
    BY <1>1
  <2>2. \A q \in seen : q \in 0 .. Size /\ q \in Offsets
    BY <1>1 DEF Offsets
  <2> HIDE DEF S
  <2> QED BY <2>1, <2>2
<1>3. p \in S /\ \A y \in S : y <= p
  <2> HIDE DEF S
  <2> QED BY <1>1, <1>2, LastOf, Zenon
<1> HIDE DEF p
<1>4. p \in seen /\ p <= o /\ \A y \in seen : y <= o => y <= p
  BY <1>3
<1> HIDE DEF S
<1>5. p \in Offsets /\ p \in Nat /\ ScanSteps[p] \in {p + 1, p + 2}
      /\ ScanSteps[p] \in seen \cup {end}
  BY <1>2, <1>4, StepOf DEF Scanned
<1>6. o < ScanSteps[p]
  BY <1>1, <1>4, <1>5
<1>7. CASE o = p
  BY <1>4, <1>7
<1>8. CASE o # p
  <2>1. o = p + 1 /\ ScanSteps[p] = p + 2
    BY <1>1, <1>4, <1>5, <1>6, <1>8
  <2>2. flash[o] = Body(flash[p].rec)
    BY <1>5, <2>1, StepOf
  <2>3. flash[o].part = "body" /\ flash[o].part = "head"
    BY <2>2, Parts DEF Whole, IsHead
  <2> QED BY <2>3
<1> QED BY <1>7, <1>8

\* The intact records of a key at these offsets.
Met(seen, k) == {o \in seen : Intact(o) /\ flash[o].rec.key = k}

\* The index that a scan makes of records it meets, and of a base.
LEMMA IndexOf ==
  ASSUME LogInv, NEW seen \in SUBSET Offsets, NEW k \in Keys, NEW base
  PROVE  LET mine == Met(seen, k) IN
         /\ mine = {} => Indexed(seen, base)[k] = base[k]
         /\ mine # {} => /\ Max(mine) \in mine /\ \A y \in mine : y <= Max(mine)
                         /\ flash[Max(mine)].rec.val = Tomb => Indexed(seen, base)[k] = None
                         /\ flash[Max(mine)].rec.val # Tomb => Indexed(seen, base)[k] = Max(mine)
<1> DEFINE mine == Met(seen, k)
<1>1. Size \in Nat /\ mine \in SUBSET (0 .. Size)
  <2>1. \A q \in Offsets : q \in 0 .. Size
    BY TickvConstants DEF Offsets
  <2>2. mine \subseteq seen
    BY DEF Met
  <2> HIDE DEF mine
  <2> QED BY <2>1, <2>2, TickvConstants
<1> HIDE DEF mine
<1>2. mine # {} => Max(mine) \in mine /\ \A y \in mine : y <= Max(mine)
  BY <1>1, LastOf, Zenon
<1>3. Indexed(seen, base)[k] = CASE mine = {} -> base[k]
           [] mine # {} /\ flash[Max(mine)].rec.val = Tomb -> None
           [] OTHER -> Max(mine)
  BY Zenon DEF Indexed, Met, mine
<1>4. mine = {} => Indexed(seen, base)[k] = base[k]
  BY <1>3, Zenon
<1>5. mine # {} /\ flash[Max(mine)].rec.val = Tomb => Indexed(seen, base)[k] = None
  BY <1>3, Zenon
<1>6. mine # {} /\ flash[Max(mine)].rec.val # Tomb => Indexed(seen, base)[k] = Max(mine)
  BY <1>3, Zenon
<1> QED BY <1>2, <1>4, <1>5, <1>6 DEF mine

\* The new index points at whole records of its keys.
LEMMA IndexedPoints ==
  ASSUME LogInv, NEW seen \in SUBSET Offsets, NEW base,
         \A k \in Keys : base[k] \in Offsets \cup {None},
         \A k \in Keys, o \in Offsets : base[k] = o => ValueOf(o, k)
  PROVE  /\ Indexed(seen, base) \in [Keys -> Offsets \cup {None}]
         /\ \A k \in Keys, o \in Offsets : Indexed(seen, base)[k] = o => ValueOf(o, k)
<1>1. ASSUME NEW k \in Keys
      PROVE  /\ Indexed(seen, base)[k] \in Offsets \cup {None}
             /\ \A o \in Offsets : Indexed(seen, base)[k] = o => ValueOf(o, k)
  <2>0. None \notin Offsets
    BY TickvConstants DEF Offsets
  <2> DEFINE mine == Met(seen, k)
  <2>1. \A o \in mine : o \in Offsets /\ Whole(o) /\ flash[o].rec.key = k
    BY DEF Met, Intact, HdrValid, Whole
  <2>2. /\ mine = {} => Indexed(seen, base)[k] = base[k]
        /\ mine # {} => /\ Max(mine) \in mine
                        /\ flash[Max(mine)].rec.val = Tomb => Indexed(seen, base)[k] = None
                        /\ flash[Max(mine)].rec.val # Tomb => Indexed(seen, base)[k] = Max(mine)
    BY IndexOf, Zenon
  <2> HIDE DEF mine
  <2>3. CASE mine = {}
    BY <2>2, <2>3
  <2>4. CASE mine # {} /\ flash[Max(mine)].rec.val = Tomb
    BY <2>0, <2>2, <2>4
  <2>5. CASE mine # {} /\ flash[Max(mine)].rec.val # Tomb
    <3>1. Max(mine) \in mine /\ Indexed(seen, base)[k] = Max(mine)
      BY <2>2, <2>5, Zenon
    <3>2. Max(mine) \in Offsets /\ ValueOf(Max(mine), k)
      BY <2>1, <2>5, <3>1, Zenon DEF ValueOf
    <3> QED BY <3>1, <3>2, Zenon
  <2> QED BY <2>3, <2>4, <2>5
<1>2. Indexed(seen, base) = [k \in Keys |-> Indexed(seen, base)[k]]
  BY Zenon DEF Indexed
<1> QED BY <1>1, <1>2

\* The sectors of a checkpoint record.
LEMMA CkptSize == \A r : r.key = Ckpt => Sectors(r) = CkptSectors
BY Zenon DEF Sectors

\* A whole record ends before the next record starts.
LEMMA WholeApart ==
  ASSUME LogInv, NEW p \in Offsets, NEW o \in Offsets, Whole(p), IsHead(o), p < o
  PROVE  End(p) <= o
<1>1. p \in Nat /\ o \in Nat /\ Sectors(flash[p].rec) \in {1, 2} /\ End(p) = p + Sectors(flash[p].rec)
  BY SectorsTwo DEF Offsets, End
<1>2. CASE Sectors(flash[p].rec) = 1
  BY <1>1, <1>2
<1>3. CASE Sectors(flash[p].rec) = 2
  <2>1. flash[p + 1] = Body(flash[p].rec)
    BY <1>1, <1>3, Crc DEF Whole
  <2>2. flash[p + 1].part = "body"
    BY <2>1, Parts
  <2>3. o # p + 1
    BY <2>2 DEF IsHead
  <2> QED BY <1>1, <1>3, <2>3
<1> QED BY <1>1, <1>2, <1>3

\* The last checkpoint is a whole record, and the log behind it starts where it ends.
LEMMA LastCheckpoint ==
  ASSUME LogInv, Ckpts # {}
  PROVE  /\ LastCkpt \in Offsets /\ Whole(LastCkpt) /\ flash[LastCkpt].rec.key = Ckpt
         /\ flash[LastCkpt].rec.val \in Snaps /\ Snapshot(flash[LastCkpt].rec.val, LastCkpt)
         /\ TailStart(flash[LastCkpt].rec.val) = End(LastCkpt)
         /\ End(LastCkpt) \in 1 .. Size /\ flash[End(LastCkpt) - 1] # Blank
<1> DEFINE o == LastCkpt
           s == flash[LastCkpt].rec.val
<1>1. Size \in Nat /\ Ckpts \in SUBSET (0 .. Size) /\ Ckpts \subseteq Offsets
  BY TickvConstants DEF Ckpts, Offsets
<1>2. o \in Ckpts
  BY <1>1, LastOf, Zenon DEF LastCkpt
<1>3. o \in Offsets /\ o \in Nat /\ o < Size /\ Whole(o) /\ IsHead(o) /\ flash[o].rec.key = Ckpt
  <2> HIDE DEF o
  <2> QED BY <1>1, <1>2 DEF Ckpts, Whole, Offsets
<1> HIDE DEF o
<1>4. s = flash[o].rec.val
  BY DEF o
<1> HIDE DEF s
<1>5. s \in Snaps
  <2>1. flash[o] \in {Blank} \cup Heads \cup Bodies /\ flash[o].part = "head"
    BY <1>3 DEF LogInv, Types, FlashTypes, IsHead
  <2>2. flash[o] \in Heads
    BY <2>1, Parts DEF Bodies
  <2>3. flash[o].rec \in [key : Keys, val : Values \cup {Tomb}] \cup [key : {Ckpt}, val : Snaps]
    BY <2>2 DEF Heads, Recs
  <2> QED BY <1>3, <1>4, <2>3, TickvConstants
<1>6. Snapshot(s, o)
  BY <1>3, <1>4 DEF LogInv, Pointers
<1>7. End(o) = o + CkptSectors /\ End(o) <= Size
  BY <1>3, CkptSize DEF End, LogInv, Log
<1>8. flash[End(o) - 1] # Blank
  <2>1. CASE CkptSectors = 1
    <3>1. End(o) - 1 = o
      BY <1>3, <1>7, <2>1
    <3> QED BY <1>3, <3>1, Parts DEF IsHead
  <2>2. CASE CkptSectors = 2
    <3>1. End(o) - 1 = o + 1 /\ Sectors(flash[o].rec) = 2
      BY <1>3, <1>7, <2>2, CkptSize
    <3>2. flash[o + 1] = Body(flash[o].rec)
      BY <1>3, <3>1, Crc DEF Whole
    <3> QED BY <3>1, <3>2, Parts
  <2> QED BY <2>1, <2>2, TickvConstants
<1>9. TailStart(s) = o + CkptSectors
  <2> DEFINE held == {p \in {s.index[k] : k \in Listed(s)} : HdrValid(p)}
             S == {s.append} \cup {End(p) : p \in held}
  <2>1. ASSUME NEW p \in held
        PROVE  End(p) \in Nat /\ End(p) <= o
    <3>1. PICK k \in Listed(s) : p = s.index[k]
      OBVIOUS
    <3>2. k \in Keys /\ p \in Offsets
      BY <1>5, <3>1 DEF Listed, Snaps
    <3>3. p < o /\ Whole(p)
      BY <1>6, <3>1, <3>2 DEF Snapshot, ValueOf
    <3>4. p \in Nat /\ End(p) = p + Sectors(flash[p].rec)
      BY <3>2 DEF Offsets, End
    <3> HIDE DEF held
    <3> QED BY <1>3, <3>2, <3>3, <3>4, WholeApart, SectorsTwo
  <2>2. s.append = o
    BY <1>6 DEF Snapshot
  <2> HIDE DEF held
  <2>3. o \in S /\ \A x \in S : x \in Nat /\ x <= o
    BY <1>3, <2>1, <2>2
  <2> HIDE DEF S
  <2>4. S \in SUBSET (0 .. Size) /\ S # {}
    BY <1>1, <1>3, <2>3
  <2>5. Max(S) \in S /\ \A x \in S : x <= Max(S)
    BY <1>1, <2>4, LastOf
  <2>6. Max(S) = o
    <3>1. Max(S) \in Nat /\ Max(S) <= o /\ o <= Max(S)
      BY <2>3, <2>5
    <3> QED BY <1>3, <3>1
  <2>7. TailStart(s) = Max(S) + CkptSectors
    BY DEF TailStart, S, held
  <2> QED BY <2>6, <2>7
<1>10. End(o) \in 1 .. Size
  BY <1>1, <1>3, <1>7, TickvConstants
<1> QED BY <1>3, <1>5, <1>6, <1>7, <1>8, <1>9, <1>10 DEF o, s

\* A mount that scans from a record's end, over an index of whole records.
LEMMA RangeInv ==
  ASSUME LogInv, ~ready, ready' = TRUE, UNCHANGED <<flash, ckpt_dirty, call, stored>>,
         NEW start \in 0 .. Size, start = 0 \/ flash[start - 1] # Blank,
         NEW base, \A k \in Keys : base[k] \in Offsets \cup {None},
         \A k \in Keys, o \in Offsets : base[k] = o => ValueOf(o, k),
         ScanRange(start, base)
  PROVE  LogInv'
<1>1. Size \in Nat /\ start \in Nat
  BY TickvConstants
<1>2. PICK end \in {start} \cup start .. Size, late \in BOOLEAN :
        \E seen \in SUBSET (start .. end - 1) :
          /\ Scanned(ScanSteps, start, seen, end)
          /\ IF late THEN end < Size ELSE ScanStops(end)
          /\ degraded' = late
          /\ index' = Indexed(seen, base)
          /\ append_off' = IF late THEN Size ELSE end
  BY DEF ScanRange
<1>3. PICK seen \in SUBSET (start .. end - 1) :
          /\ Scanned(ScanSteps, start, seen, end)
          /\ IF late THEN end < Size ELSE ScanStops(end)
          /\ degraded' = late
          /\ index' = Indexed(seen, base)
          /\ append_off' = IF late THEN Size ELSE end
  BY <1>2
<1>4. end \in start .. Size /\ end \in Nat /\ seen \in SUBSET Offsets
  BY <1>1 DEF Offsets
<1>5. index' \in [Keys -> Offsets \cup {None}]
      /\ \A k \in Keys, o \in Offsets : index'[k] = o => ValueOf(o, k)
  BY <1>3, <1>4, IndexedPoints
<1>6. Kept
  BY DEF Kept
<1>7. Types'
  <2>1. append_off' \in 0 .. Size
    BY <1>1, <1>3, <1>4
  <2>2. MountTypes'
    BY <1>3, <1>5, <2>1 DEF LogInv, Types, MountTypes
  <2> QED BY <2>2 DEF LogInv, Types, FlashTypes, CallTypes
<1>8. Log'
  BY <1>6, KeptLog
<1>9. call' = Idle /\ call'.part = 0 /\ \A i \in 1 .. Len(call'.items) : FALSE
  BY IdleCall DEF LogInv, Frontier
<1>10. Frontier'
  <2>1. CASE late
    <3>1. degraded' = TRUE /\ append_off' = Size
      BY <1>3, <2>1
    <3>2. \A o \in Offsets : ~(o > append_off')
      BY <1>1, <3>1 DEF Offsets
    <3> QED BY <1>1, <1>9, <3>1, <3>2 DEF Frontier
  <2>2. CASE ~late
    <3>1. degraded' = FALSE /\ append_off' = end /\ ScanStops(end)
      BY <1>3, <2>2
    <3>2. end < Size => end \in Offsets /\ flash[end] = Blank
      <4>1. end < Size => end \in Offsets
        BY <1>1, <1>4 DEF Offsets
      <4>2. end < Size => flash[end] = Blank \/ (IsHead(end) /\ End(end) > Size)
        BY <3>1 DEF ScanStops
      <4>3. end < Size /\ IsHead(end) => End(end) <= Size /\ End(end) = end + Sectors(flash[end].rec)
        BY <4>1 DEF LogInv, Log, End
      <4> QED BY <1>1, <1>4, <4>1, <4>2, <4>3, SectorsTwo
    <3>3. \A o \in Offsets : o > end => flash[o] = Blank
      <4> SUFFICES ASSUME NEW o \in Offsets, o > end PROVE flash[o] = Blank
        OBVIOUS
      <4>1. end \in Offsets /\ flash[end] = Blank /\ end < o
        BY <1>1, <1>4, <3>2 DEF Offsets
      <4> QED BY <4>1 DEF LogInv, Log
    <3>4. \A o \in Offsets : o < end => flash[o] # Blank
      <4>1. end = 0 \/ flash[end - 1] # Blank
        BY <1>1, <1>3, <1>4, ScanEnd
      <4>2. end # 0 => end - 1 \in Offsets
        BY <1>1, <1>4 DEF Offsets
      <4> SUFFICES ASSUME NEW o \in Offsets, o < end PROVE flash[o] # Blank
        OBVIOUS
      <4>3. o \in Nat
        BY DEF Offsets
      <4>4. CASE o = end - 1
        BY <1>4, <4>1, <4>3, <4>4
      <4>5. CASE o < end - 1
        BY <1>4, <4>1, <4>2, <4>3, <4>5 DEF LogInv, Log
      <4> QED BY <1>4, <4>3, <4>4, <4>5
    <3> QED BY <1>9, <3>1, <3>2, <3>3, <3>4 DEF Frontier
  <2> QED BY <2>1, <2>2
<1>11. Pointers'
  <2>1. \A k \in Keys, o \in Offsets : index'[k] = o => ValueOf(o, k)'
    BY <1>5, <1>6, KeptRecords
  <2>2. ASSUME NEW o \in Offsets, Whole(o)', flash'[o].rec.key = Ckpt
        PROVE  Snapshot(flash[o].rec.val, o)'
    BY <1>6, <2>2, KeptRecords, Zenon DEF LogInv, Pointers, Snapshot
  <2> QED BY <1>9, <2>1, <2>2, Zenon DEF Pointers
<1> QED BY <1>7, <1>8, <1>10, <1>11 DEF LogInv

\* A mount keeps the invariant of the log, by checkpoint or by full scan.
LEMMA MountInv ==
  ASSUME LogInv, Mount
  PROVE  LogInv'
<1>1. CASE Ckpts # {} /\ ~CkptStale(flash[LastCkpt].rec.val)
  <2> DEFINE s == flash[LastCkpt].rec.val
  <2>1. ScanRange(TailStart(s), s.index)
    BY <1>1 DEF Mount
  <2>2. TailStart(s) \in 0 .. Size /\ flash[TailStart(s) - 1] # Blank
    <3>1. TailStart(s) = End(LastCkpt) /\ End(LastCkpt) \in 1 .. Size
          /\ flash[End(LastCkpt) - 1] # Blank
      BY <1>1, LastCheckpoint, Zenon
    <3> HIDE DEF s
    <3> QED BY <3>1, TickvConstants
  <2>3. \A k \in Keys : s.index[k] \in Offsets \cup {None}
    BY <1>1, LastCheckpoint DEF Snaps
  <2>4. \A k \in Keys, o \in Offsets : s.index[k] = o => ValueOf(o, k)
    BY <1>1, LastCheckpoint DEF Snapshot
  <2>5. ~ready /\ ready' = TRUE /\ UNCHANGED <<flash, ckpt_dirty, call, stored>>
    BY DEF Mount
  <2> HIDE DEF s
  <2> QED BY <2>1, <2>2, <2>3, <2>4, <2>5, RangeInv
<1>2. CASE ~(Ckpts # {} /\ ~CkptStale(flash[LastCkpt].rec.val))
  <2>1. ScanRange(0, NoIndex) /\ ~ready /\ ready' = TRUE
        /\ UNCHANGED <<flash, ckpt_dirty, call, stored>>
    BY <1>2 DEF Mount
  <2>2. None \notin Offsets /\ 0 \in 0 .. Size
    BY TickvConstants DEF Offsets
  <2>3. \A k \in Keys : NoIndex[k] = None
    BY DEF NoIndex
  <2> QED BY <2>1, <2>2, <2>3, RangeInv
<1> QED BY <1>1, <1>2

\* So does one that ran out of time before it read a record.
LEMMA MountTimeoutInv ==
  ASSUME LogInv, MountTimeout
  PROVE  LogInv'
<1>1. Kept
  BY DEF MountTimeout, Kept
<1>2. call' = Idle /\ call'.part = 0 /\ \A i \in 1 .. Len(call'.items) : FALSE
  BY IdleCall DEF MountTimeout, LogInv, Frontier
<1>3. Types'
  <2>1. index' \in [Keys -> Offsets \cup {None}] /\ append_off' \in 0 .. Size
    BY TickvConstants DEF MountTimeout, NoIndex
  <2>2. MountTypes'
    BY <2>1 DEF MountTimeout, LogInv, Types, MountTypes
  <2> QED BY <2>2 DEF MountTimeout, LogInv, Types, FlashTypes, CallTypes
<1>4. Log'
  BY <1>1, KeptLog DEF MountTimeout
<1>5. Frontier'
  <2>1. Size \in Nat /\ \A o \in Offsets : ~(o > Size)
    BY TickvConstants DEF Offsets
  <2> QED BY <1>2, <2>1 DEF MountTimeout, Frontier
<1>6. Pointers'
  <2>1. \A k \in Keys : index'[k] \in {index[k], None}
    BY DEF MountTimeout, NoIndex
  <2> QED BY <1>1, <1>2, <2>1, KeptPointers DEF Pointers
<1> QED BY <1>3, <1>4, <1>5, <1>6 DEF LogInv

-----------------------------------------------------------------------------
(* The log. *)

\* An empty volume, not mounted.
LEMMA InitInv == Init => LogInv
<1> SUFFICES ASSUME Init PROVE LogInv
  OBVIOUS
<1>1. \A o \in Offsets : flash[o] = Blank /\ ~IsHead(o) /\ flash[o].part # "body"
  BY Parts DEF Init, IsHead
<1>2. Types
  <2>1. CallTypes
    BY IdleCall DEF Init, CallTypes
  <2>2. MountTypes
    <3>1. append_off \in 0 .. Size
      BY TickvConstants DEF Init
    <3>2. index \in [Keys -> Offsets \cup {None}] /\ stored \in [Keys -> Values \cup {None}]
      BY DEF Init, NoIndex
    <3> QED BY <3>1, <3>2, Zenon DEF Init, MountTypes
  <2> QED BY <2>1, <2>2 DEF Init, Types, FlashTypes
<1>3. Log
  BY <1>1 DEF Log
<1>4. Frontier
  <2>1. ~ready /\ call.part = 0
    BY IdleCall, Zenon DEF Init
  <2> QED BY <2>1 DEF Init, Frontier
<1>5. Pointers
  <2>1. \A k \in Keys, o \in Offsets : index[k] # o
    BY TickvConstants DEF Init, NoIndex, Offsets
  <2>2. \A i \in 1 .. Len(call.items) : FALSE
    <3>1. Len(call.items) = 0
      BY IdleCall, Zenon DEF Init
    <3> QED BY <3>1
  <2> QED BY <1>1, <2>1, <2>2 DEF Pointers, Whole
<1> QED BY <1>2, <1>3, <1>4, <1>5 DEF LogInv

\* Every step keeps the invariant of the log.
LEMMA StepInv == LogInv /\ [Next]_vars => LogInv'
<1> SUFFICES ASSUME LogInv, [Next]_vars PROVE LogInv'
  OBVIOUS
<1>1. CASE \E items \in Batches : PutBatch(items)
  BY <1>1, PutInv
<1>2. CASE \E k \in Keys : Delete(k)
  BY <1>2, DeleteInv
<1>3. CASE FlushIdle
  BY <1>3, FlushInv
<1>4. CASE Invalidate
  BY <1>4, InvalidateInv
<1>5. CASE AppendOob \/ AppendIo
  BY <1>5, AbandonInv
<1>6. CASE AppendSector
  BY <1>6, AppendInv
<1>7. CASE Crash
  BY <1>7, CrashInv
<1>8. CASE Mount
  BY <1>8, MountInv
<1>9. CASE MountTimeout
  BY <1>9, MountTimeoutInv
<1>10. CASE UNCHANGED vars
  <2>1. Types'
    BY <1>10 DEF vars, LogInv, Types, FlashTypes, MountTypes, CallTypes
  <2>2. Kept /\ flash' = flash
    BY <1>10 DEF vars, Kept
  <2>3. Log'
    BY <2>2, KeptLog
  <2>4. Frontier'
    BY <1>10 DEF vars, LogInv, Frontier, IsHead, CrcGood, Appending
  <2>5. \A k \in Keys : index'[k] \in {index[k], None}
    BY <1>10 DEF vars
  <2>6. \A i \in 1 .. Len(call'.items) : call'.items[i].key = Ckpt =>
          /\ call'.inv = <<>> /\ Len(call'.items) = 1
          /\ call'.items[i].val = [append |-> append_off', index |-> index']
    BY <1>10 DEF vars, LogInv, Pointers
  <2>7. Pointers'
    BY <2>2, <2>5, <2>6, KeptPointers DEF Pointers
  <2> QED BY <2>1, <2>3, <2>4, <2>7 DEF LogInv
<1> QED BY <1>1, <1>2, <1>3, <1>4, <1>5, <1>6, <1>7, <1>8, <1>9, <1>10 DEF Next

\* The log has no holes, its records fit, only whole ones are ever invalidated,
\* the append offset is at its end, and the index and every checkpoint point at
\* whole records, through crashes, failed writes and every way to mount.
THEOREM LogInvariance == Spec => []LogInv
<1>1. Init => LogInv
  BY InitInv
<1>2. LogInv /\ [Next]_vars => LogInv'
  BY StepInv
<1> QED BY <1>1, <1>2, PTL DEF Spec

\* Type correctness: the offsets that TickvLite keeps stay inside the volume.
THEOREM TypeCorrect == Spec => []TypeOK
<1>1. LogInv => TypeOK
  <2> SUFFICES ASSUME LogInv PROVE TypeOK
    OBVIOUS
  <2>1. flash \in [Offsets -> {Blank} \cup Heads \cup Bodies]
    BY DEF LogInv, Types, FlashTypes
  <2>2. \A o \in Offsets : flash[o].part \in {"blank", "head", "body"}
    <3> SUFFICES ASSUME NEW o \in Offsets PROVE flash[o].part \in {"blank", "head", "body"}
      OBVIOUS
    <3>1. flash[o] \in Heads => flash[o].part = "head"
      BY DEF Heads
    <3>2. flash[o] \in Bodies => flash[o].part = "body"
      BY DEF Bodies
    <3> QED BY <2>1, <3>1, <3>2, Parts
  <2>3. call.kind \in {"idle", "put", "delete", "ckpt"} /\ call.part \in 0 .. 1
    BY DEF LogInv, Types, CallTypes, Calls
  <2> QED BY <2>1, <2>2, <2>3 DEF TypeOK, LogInv, Types, MountTypes
<1> QED BY <1>1, LogInvariance, PTL

\* A write or an invalidation spares every intact record but the one of the key
\* that the call is about.
LEMMA StepSpares ==
  ASSUME LogInv, Next, NEW o \in Offsets, Intact(o)
  PROVE  \/ Intact(o)' /\ flash'[o] = flash[o]
         \/ call.inv # <<>> /\ index[Head(call.inv)] = o
<1>1. Whole(o) /\ flash[o].valid
  BY DEF Intact, HdrValid, Whole
<1>2. CASE AppendSector
  BY <1>1, <1>2, AppendKeeps DEF Intact, HdrValid, Whole
<1>3. CASE Invalidate
  <2>1. flash'[o] = flash[o] \/ index[Head(call.inv)] = o
    BY <1>3, InvalidateSectors, Zenon
  <2>2. Whole(o)'
    BY <1>1, <1>3, InvalidateKept, KeptRecords, Zenon
  <2>3. call.inv # <<>>
    BY <1>3 DEF Invalidate
  <2> QED BY <1>1, <2>1, <2>2, <2>3 DEF Intact, HdrValid, Whole
<1>4. CASE flash' = flash
  BY <1>4 DEF Intact, HdrValid, IsHead, CrcGood
<1>5. flash' = flash \/ AppendSector \/ Invalidate
  BY Zenon DEF Next, PutBatch, Delete, FlushIdle, Start, AppendOob, AppendIo, Crash, Mount, MountTimeout
<1> QED BY <1>2, <1>3, <1>4, <1>5

\* No write lands on an intact record, whether or not the index knows it: put_raw
\* only writes behind the log, wherever a mount left the append offset, and
\* invalidate_key only touches the record of its key.
THEOREM SparesRecords == Spec => NoClobber
<1>1. LogInv /\ [Next]_vars =>
        [\A o \in Offsets : Intact(o) =>
           \/ Intact(o)' /\ flash'[o] = flash[o]
           \/ call.inv # <<>> /\ index[Head(call.inv)] = o]_vars
  BY StepSpares
<1> QED BY <1>1, LogInvariance, PTL DEF Spec, NoClobber

-----------------------------------------------------------------------------
(* The keys, when no batch names a key twice. *)

\* A live record is whole, holds a value of its key, and is in the log.
LEMMA LiveOf ==
  ASSUME NEW o \in Offsets, NEW k \in Keys, Live(o, k)
  PROVE  Whole(o) /\ ValueOf(o, k) /\ flash[o].rec.key = k /\ flash[o].rec.key # Ckpt
         /\ flash[o].rec.val # Tomb /\ flash[o].valid /\ Intact(o)
<1>1. ValueOf(o, k) /\ Whole(o) /\ flash[o].rec.key = k /\ flash[o].rec.val # Tomb /\ flash[o].valid
  BY Zenon DEF Live, ValueOf
<1>2. k # Ckpt
  BY TickvConstants
<1>3. Intact(o)
  BY <1>1, Zenon DEF Intact, HdrValid, Whole
<1> QED BY <1>1, <1>2, <1>3, Zenon

\* What an append makes live: the record it completes, if it holds a value.
LEMMA AppendLive ==
  ASSUME LogInv, AppendSector, NEW o \in Offsets, NEW k \in Keys
  PROVE  /\ Live(o, k) => Live(o, k)' /\ o < append_off /\ flash'[o] = flash[o]
         /\ TombOf(o, k) => TombOf(o, k)' /\ o < append_off
         /\ Live(o, k)' => \/ Live(o, k)
                           \/ /\ o = append_off /\ call.part + 1 = Sectors(Head(call.items))
                              /\ Head(call.items).key = k /\ Head(call.items).val # Tomb
                              /\ flash'[o].rec = Head(call.items)
         /\ TombOf(o, k)' => \/ TombOf(o, k)
                             \/ /\ o = append_off /\ call.part + 1 = Sectors(Head(call.items))
                                /\ Head(call.items).key = k /\ Head(call.items).val = Tomb
<1>1. Whole(o) => o < append_off /\ Whole(o)' /\ flash'[o] = flash[o]
  BY AppendKeeps
<1>2. Whole(o)' /\ ~Whole(o) => o = append_off /\ call.part + 1 = Sectors(Head(call.items))
                               /\ flash'[o].rec = Head(call.items)
  BY AppendWhole, AppendDone
<1>3. Live(o, k) => Live(o, k)' /\ o < append_off /\ flash'[o] = flash[o]
  BY <1>1 DEF Live, ValueOf
<1>4. TombOf(o, k) => TombOf(o, k)' /\ o < append_off
  BY <1>1 DEF TombOf, Intact, HdrValid, Whole
<1>5. Live(o, k)' => \/ Live(o, k)
                     \/ /\ o = append_off /\ call.part + 1 = Sectors(Head(call.items))
                        /\ Head(call.items).key = k /\ Head(call.items).val # Tomb
                        /\ flash'[o].rec = Head(call.items)
  BY <1>1, <1>2 DEF Live, ValueOf
<1>6. TombOf(o, k)' => \/ TombOf(o, k)
                       \/ /\ o = append_off /\ call.part + 1 = Sectors(Head(call.items))
                          /\ Head(call.items).key = k /\ Head(call.items).val = Tomb
  BY <1>1, <1>2 DEF TombOf, Intact, HdrValid, Whole
<1> QED BY <1>3, <1>4, <1>5, <1>6

\* The key whose record is appended has no live record.
LEMMA AppendFresh ==
  ASSUME LogInv, KeyInv, AppendSector, Head(call.items).key \in Keys
  PROVE  /\ index[Head(call.items).key] = None
         /\ \A o \in Offsets : ~Live(o, Head(call.items).key)
<1>1. call.items \in Seq(Recs) /\ call.items # <<>> /\ call.inv = <<>>
  BY AppendPlace DEF Appending, LogInv, Types, CallTypes, Calls
<1>2. 1 \in 1 .. Len(call.items) /\ Head(call.items) = call.items[1] /\ Len(call.inv) = 0
  BY <1>1
<1>3. index[Head(call.items).key] = None
  BY <1>2 DEF KeyInv, KeyCall
<1>4. ready /\ ~degraded
  <2>1. ready /\ append_off \in Nat /\ append_off < Size
    BY AppendPlace, Zenon
  <2>2. degraded => append_off = Size
    BY <2>1, Zenon DEF LogInv, Frontier
  <2>3. append_off # Size
    BY <2>1
  <2> QED BY <2>1, <2>2, <2>3, Zenon
<1>5. None \notin Offsets
  BY TickvConstants DEF Offsets
<1> QED BY <1>3, <1>4, <1>5 DEF KeyInv, KeyIndex

\* What an append does to the index and to what is stored.
LEMMA AppendMaps ==
  ASSUME LogInv, AppendSector, NEW k \in Keys
  PROVE  LET r == Head(call.items) IN
         IF call.part + 1 = Sectors(r) /\ r.key = k
           THEN /\ index'[k] = IF r.val = Tomb THEN None ELSE append_off
                /\ stored'[k] = IF r.val = Tomb THEN None ELSE r.val
           ELSE index'[k] = index[k] /\ stored'[k] = stored[k]
<1> DEFINE r == Head(call.items)
<1>1. index \in [Keys -> Offsets \cup {None}] /\ stored \in [Keys -> Values \cup {None}]
  BY DEF LogInv, Types, MountTypes
<1>2. CASE call.part + 1 < Sectors(r)
  <2>1. index' = index /\ stored' = stored
    BY <1>2, AppendCall
  <2>2. call.part + 1 # Sectors(r)
    BY <1>2, AppendPlace, SectorsTwo
  <2> QED BY <2>1, <2>2
<1>3. CASE ~(call.part + 1 < Sectors(r))
  <2>1. call.part + 1 = Sectors(r)
    BY <1>3, AppendCall
  <2>2. CASE r.key = Ckpt
    <3>1. index' = index /\ stored' = stored /\ r.key # k
      BY <1>3, <2>2, TickvConstants DEF AppendSector
    <3> QED BY <3>1
  <2>3. CASE r.key # Ckpt
    <3>1. index' = [index EXCEPT ![r.key] = IF r.val = Tomb THEN None ELSE append_off]
          /\ stored' = [stored EXCEPT ![r.key] = IF r.val = Tomb THEN None ELSE r.val]
      BY <1>3, <2>3 DEF AppendSector
    <3> HIDE DEF r
    <3>2. r.key = k => /\ index'[k] = IF r.val = Tomb THEN None ELSE append_off
                       /\ stored'[k] = IF r.val = Tomb THEN None ELSE r.val
      BY <1>1, <3>1
    <3>3. r.key # k => index'[k] = index[k] /\ stored'[k] = stored[k]
      BY <1>1, <3>1
    <3> QED BY <2>1, <3>2, <3>3 DEF r
  <2> QED BY <2>2, <2>3
<1> QED BY <1>2, <1>3, Zenon

\* An append keeps what the records of every key say.
LEMMA AppendKeyRecords ==
  ASSUME LogInv, KeyInv, AppendSector
  PROVE  KeyRecords'
<1> DEFINE r == Head(call.items)
           Done(k) == call.part + 1 = Sectors(r) /\ r.key = k
<1>1. append_off \in Offsets /\ append_off \in Nat
  BY AppendPlace, TickvConstants DEF Offsets
<1>2. \A o \in Offsets : o \in Nat
  BY DEF Offsets
<1>3. \A k \in Keys : Done(k) => \A o \in Offsets : ~Live(o, k)
  BY AppendFresh
<1>4. \A k \in Keys, o \in Offsets : Live(o, k)' => Live(o, k) \/ (Done(k) /\ o = append_off /\ r.val # Tomb)
  BY AppendLive
<1>5. \A k \in Keys, o \in Offsets : TombOf(o, k)' => o < append_off \/ (Done(k) /\ r.val = Tomb)
  BY AppendLive
<1>6. \A k \in Keys, o \in Offsets : TombOf(o, k)' => TombOf(o, k) \/ (Done(k) /\ r.val = Tomb)
  BY AppendLive
<1>7. \A k \in Keys, o \in Offsets : Live(o, k) => Live(o, k)' /\ flash'[o] = flash[o]
  BY AppendLive
<1>8. \A k \in Keys : ~Done(k) => stored'[k] = stored[k]
  BY AppendMaps
<1>9. \A k \in Keys : Done(k) => stored'[k] = IF r.val = Tomb THEN None ELSE r.val
  BY AppendMaps
<1>10. \A k \in Keys, o \in Offsets : Done(k) /\ o = append_off /\ r.val # Tomb =>
          Live(o, k)' /\ flash'[o].rec.val = r.val
  BY AppendDone, Parts DEF Live, ValueOf
<1> HIDE DEF r, Done
<1>11. ASSUME NEW k \in Keys, NEW o \in Offsets, NEW p \in Offsets, Live(o, k)', Live(p, k)'
       PROVE  o = p
  BY <1>3, <1>4, <1>11 DEF KeyInv, KeyRecords
<1>12. ASSUME NEW k \in Keys, NEW o \in Offsets, NEW p \in Offsets, Live(o, k)', TombOf(p, k)'
       PROVE  p < o
  <2>1. CASE Live(o, k)
    BY <1>3, <1>6, <1>12, <2>1 DEF KeyInv, KeyRecords
  <2>2. CASE Done(k) /\ o = append_off /\ r.val # Tomb
    BY <1>5, <1>12, <2>2
  <2> QED BY <1>4, <1>12, <2>1, <2>2
<1>13. ASSUME NEW k \in Keys, NEW o \in Offsets, Live(o, k)'
       PROVE  stored'[k] = flash'[o].rec.val
  <2>1. CASE Live(o, k)
    BY <1>3, <1>7, <1>8, <2>1 DEF KeyInv, KeyRecords
  <2>2. CASE Done(k) /\ o = append_off /\ r.val # Tomb
    BY <1>9, <1>10, <2>2
  <2> QED BY <1>4, <1>13, <2>1, <2>2
<1>14. ASSUME NEW k \in Keys, \A o \in Offsets : ~Live(o, k)'
       PROVE  stored'[k] = None
  <2>1. CASE Done(k)
    BY <1>1, <1>9, <1>10, <1>14, <2>1
  <2>2. CASE ~Done(k)
    BY <1>7, <1>8, <1>14, <2>2 DEF KeyInv, KeyRecords
  <2> QED BY <2>1, <2>2
<1> QED BY <1>11, <1>12, <1>13, <1>14 DEF KeyRecords

\* It enters the record in the index, and a checkpoint lists the index.
LEMMA AppendKeyIndex ==
  ASSUME LogInv, KeyInv, AppendSector
  PROVE  KeyIndex'
<1> DEFINE r == Head(call.items)
<1>1. ready /\ ~degraded /\ append_off \in Nat
  <2>1. ready /\ append_off \in Nat /\ append_off < Size
    BY AppendPlace, Zenon
  <2>2. Size \in Nat /\ (ready /\ degraded => append_off = Size)
    BY TickvConstants DEF LogInv, Frontier
  <2> QED BY <2>1, <2>2
<1>2. ASSUME NEW k \in Keys, NEW o \in Offsets, Live(o, k)'
      PROVE  index'[k] = o
  <2>1. CASE Live(o, k)
    <3>1. ~(call.part + 1 = Sectors(r) /\ r.key = k)
      BY <2>1, AppendFresh
    <3>2. index'[k] = index[k]
      BY <3>1, AppendMaps
    <3> QED BY <1>1, <2>1, <3>2 DEF KeyInv, KeyIndex
  <2>2. CASE ~Live(o, k)
    <3>1. o = append_off /\ call.part + 1 = Sectors(r) /\ r.key = k /\ r.val # Tomb
      BY <1>2, <2>2, AppendLive, Zenon
    <3> QED BY <3>1, AppendMaps
  <2> QED BY <2>1, <2>2
<1>3. ASSUME NEW o \in Offsets, Whole(o)', flash'[o].rec.key = Ckpt,
             NEW k \in Keys, NEW p \in Offsets, Live(p, k)', p < o
      PROVE  flash'[o].rec.val.index[k] = p
  <2>1. CASE Whole(o)
    <3>1. o < append_off /\ flash'[o] = flash[o]
      BY <2>1, AppendKeeps
    <3>2. p # append_off
      BY <1>1, <1>3, <3>1 DEF Offsets
    <3>3. Live(p, k)
      BY <1>3, <3>2, AppendLive, Zenon
    <3>4. flash[o].rec.key = Ckpt => flash[o].rec.val.index[k] = p
      BY <1>3, <2>1, <3>3, Zenon DEF KeyInv, KeyIndex
    <3> QED BY <1>3, <3>1, <3>4
  <2>2. CASE ~Whole(o)
    <3>1. o = append_off /\ call.part + 1 = Sectors(r)
      BY <1>3, <2>2, AppendWhole
    <3>2. flash'[o].rec = r
      BY <3>1, AppendDone
    <3>3. r.val = [append |-> append_off, index |-> index]
      BY <1>3, <3>2, AppendPlace, CkptItem
    <3>4. Live(p, k)
      <4>1. p # append_off
        BY <1>1, <1>3, <3>1 DEF Offsets
      <4> QED BY <1>3, <4>1, AppendLive, Zenon
    <3>5. index[k] = p
      BY <1>1, <3>4 DEF KeyInv, KeyIndex
    <3> HIDE DEF r
    <3>6. flash'[o].rec.val.index = index
      BY <3>2, <3>3
    <3> QED BY <3>5, <3>6
  <2> QED BY <2>1, <2>2
<1> QED BY <1>2, <1>3 DEF KeyIndex

\* The records left to append still have keys that are not in the index.
LEMMA AppendKeyCall ==
  ASSUME LogInv, KeyInv, AppendSector
  PROVE  KeyCall'
<1> DEFINE r == Head(call.items)
<1>1. call.items \in Seq(Recs) /\ call.items # <<>> /\ call.inv = <<>> /\ call'.inv = <<>>
  BY AppendPlace, AppendCall DEF Appending, LogInv, Types, CallTypes, Calls
<1>2. \A i \in 1 .. Len(call.items) : call.items[i].key \in Keys => index[call.items[i].key] = None
  <2>1. \A j \in 1 .. Len(call.inv) : FALSE
    BY <1>1
  <2> QED BY <2>1 DEF KeyInv, KeyCall
<1>3. CASE call.part + 1 < Sectors(r)
  <2>1. call'.items = call.items /\ call'.inv = call.inv /\ index' = index
    BY <1>1, <1>3, AppendCall
  <2> QED BY <2>1 DEF KeyInv, KeyCall
<1>4. CASE ~(call.part + 1 < Sectors(r))
  <2>1. call'.items = Tail(call.items)
    BY <1>4, AppendCall
  <2>2. \A i \in 1 .. Len(call'.items) :
          i + 1 \in 1 .. Len(call.items) /\ call'.items[i] = call.items[i + 1]
    BY <1>1, <2>1
  <2>3. \A i, j \in 1 .. Len(call'.items) : call'.items[i].key = call'.items[j].key => i = j
    <3> SUFFICES ASSUME NEW i \in 1 .. Len(call'.items), NEW j \in 1 .. Len(call'.items),
                        call'.items[i].key = call'.items[j].key
                 PROVE  i = j
      OBVIOUS
    <3>1. i + 1 \in 1 .. Len(call.items) /\ j + 1 \in 1 .. Len(call.items)
          /\ call.items[i + 1].key = call.items[j + 1].key
      BY <2>2
    <3>2. i + 1 = j + 1
      BY <3>1 DEF KeyInv, KeyCall
    <3> QED BY <3>2
  <2>4. ASSUME NEW i \in 1 .. Len(call'.items), call'.items[i].key \in Keys
        PROVE  index'[call'.items[i].key] = None
    <3>1. i + 1 \in 1 .. Len(call.items) /\ call'.items[i] = call.items[i + 1] /\ i + 1 # 1
      BY <2>2
    <3>2. 1 \in 1 .. Len(call.items) /\ r = call.items[1]
      BY <1>1
    <3>3. r.key # call.items[i + 1].key
      BY <3>1, <3>2 DEF KeyInv, KeyCall
    <3>4. index'[call.items[i + 1].key] = index[call.items[i + 1].key]
      BY <2>4, <3>1, <3>3, AppendMaps
    <3> QED BY <1>2, <2>4, <3>1, <3>4
  <2> QED BY <2>3, <2>4 DEF KeyCall
<1> QED BY <1>3, <1>4

\* What invalidate_key leaves live, and what it does to what is stored.
LEMMA InvalidateLive ==
  ASSUME LogInv, Invalidate, NEW o \in Offsets, NEW k \in Keys
  PROVE  /\ Live(o, k)' <=> Live(o, k) /\ ~(k = Head(call.inv) /\ index[k] = o)
         /\ TombOf(o, k)' <=> TombOf(o, k)
<1>1. (Whole(o)' <=> Whole(o)) /\ (ValueOf(o, k)' <=> ValueOf(o, k)) /\ flash'[o].rec = flash[o].rec
  BY InvalidateKept, KeptRecords DEF Kept
<1>2. CASE flash'[o] = flash[o]
  <2>1. (Live(o, k)' <=> Live(o, k)) /\ (TombOf(o, k)' <=> TombOf(o, k))
    BY <1>1, <1>2 DEF Live, TombOf, Intact, HdrValid, Whole
  <2>2. ASSUME Live(o, k), k = Head(call.inv), index[k] = o
        PROVE  FALSE
    <3>1. flash[o] \in Heads
      BY <2>2, Parts DEF Live, ValueOf, Whole, IsHead, LogInv, Types, FlashTypes, Bodies
    <3>2. flash' = [flash EXCEPT ![o].valid = FALSE]
      BY <2>2, TickvConstants DEF Invalidate, Offsets
    <3>3. flash'[o].valid = FALSE
      BY <3>1, <3>2 DEF LogInv, Types, FlashTypes, Heads
    <3> QED BY <1>2, <2>2, <3>3 DEF Live
  <2> QED BY <2>1, <2>2
<1>3. CASE flash'[o] # flash[o]
  <2>1. index[Head(call.inv)] = o /\ ValueOf(o, Head(call.inv))
        /\ flash'[o] = [flash[o] EXCEPT !.valid = FALSE]
    BY <1>3, InvalidateSectors
  <2>2. flash[o] \in Heads
    BY <2>1, Parts DEF ValueOf, Whole, IsHead, LogInv, Types, FlashTypes, Bodies
  <2>3. flash'[o].valid = FALSE
    BY <2>1, <2>2 DEF Heads
  <2>4. ~Live(o, k)' /\ ~TombOf(o, k)'
    BY <2>3 DEF Live, TombOf, Intact, HdrValid
  <2>5. ~TombOf(o, k) /\ (Live(o, k) => k = Head(call.inv))
    BY <2>1 DEF TombOf, Live, ValueOf
  <2> QED BY <2>1, <2>4, <2>5
<1> QED BY <1>2, <1>3

\* What it does to what is stored.
LEMMA InvalidateStored ==
  ASSUME LogInv, KeyInv, Invalidate, NEW k \in Keys
  PROVE  /\ k # Head(call.inv) => stored'[k] = stored[k]
         /\ stored'[k] # stored[k] => stored'[k] = None /\ \E o \in Offsets : index[k] = o /\ Live(o, k)
         /\ \A o \in Offsets : k = Head(call.inv) /\ index[k] = o /\ Live(o, k) => stored'[k] = None
<1> DEFINE h == Head(call.inv)
<1>1. h \in Keys /\ stored \in [Keys -> Values \cup {None}]
      /\ index[h] \in Offsets \cup {None} /\ None \notin Offsets
  BY InvalidateSectors, TickvConstants DEF LogInv, Types, MountTypes, Offsets
<1>2. CASE index[h] = None
  <2>1. stored' = stored
    BY <1>2 DEF Invalidate
  <2> HIDE DEF h
  <2>2. \A o \in Offsets : ~(k = h /\ index[k] = o)
    BY <1>1, <1>2
  <2> QED BY <2>1, <2>2 DEF h
<1>3. CASE index[h] # None
  <2>1. PICK o \in Offsets : index[h] = o
    BY <1>1, <1>3
  <2>2. ValueOf(o, h)
    BY <1>1, <2>1 DEF LogInv, Pointers
  <2>3. stored' = IF HdrValid(o) THEN [stored EXCEPT ![h] = None] ELSE stored
    BY <1>3, <2>1 DEF Invalidate
  <2>4. Live(o, h) <=> HdrValid(o)
    BY <2>2 DEF Live, ValueOf, Whole, HdrValid
  <2> HIDE DEF h
  <2> QED BY <1>1, <2>1, <2>3, <2>4 DEF h
<1> QED BY <1>2, <1>3

\* invalidate_key keeps the invariant of the keys.
LEMMA InvalidateKeys ==
  ASSUME LogInv, KeyInv, Invalidate
  PROVE  KeyInv'
<1> DEFINE h == Head(call.inv)
<1>1. \A k \in Keys, o \in Offsets : Live(o, k)' => Live(o, k) /\ ~(k = h /\ index[k] = o)
  BY InvalidateLive
<1>2. \A k \in Keys, o \in Offsets : Live(o, k) /\ ~Live(o, k)' => k = h /\ index[k] = o
  BY InvalidateLive
<1>3. \A k \in Keys, o \in Offsets : TombOf(o, k)' => TombOf(o, k)
  BY InvalidateLive
<1>4. \A o \in Offsets : flash'[o].rec = flash[o].rec /\ (Whole(o)' => Whole(o))
  BY InvalidateKept, KeptRecords DEF Kept
<1>5. \A k \in Keys : k # h => index'[k] = index[k]
  BY InvalidateSectors
<1>6. h \in Keys /\ index'[h] = None
  BY InvalidateSectors
<1>7. KeyRecords'
  <2>1. ASSUME NEW k \in Keys, NEW o \in Offsets, Live(o, k)'
        PROVE  stored'[k] = flash'[o].rec.val
    <3>1. stored'[k] = stored[k]
      <4> SUFFICES ASSUME stored'[k] # stored[k] PROVE FALSE
        OBVIOUS
      <4>1. PICK p \in Offsets : index[k] = p /\ Live(p, k)
        BY InvalidateStored
      <4>2. k = h
        BY InvalidateStored
      <4>3. o = p
        BY <1>1, <2>1, <4>1 DEF KeyInv, KeyRecords
      <4> QED BY <1>1, <2>1, <4>1, <4>2, <4>3
    <3>2. Live(o, k) /\ flash'[o].rec = flash[o].rec
      BY <1>1, <1>4, <2>1, Zenon
    <3>3. stored[k] = flash[o].rec.val
      BY <3>2, Zenon DEF KeyInv, KeyRecords
    <3> QED BY <3>1, <3>2, <3>3, Zenon
  <2>2. ASSUME NEW k \in Keys, \A o \in Offsets : ~Live(o, k)'
        PROVE  stored'[k] = None
    <3>1. CASE \E o \in Offsets : Live(o, k)
      <4>1. PICK o \in Offsets : Live(o, k)
        BY <3>1
      <4> QED BY <1>2, <2>2, <4>1, InvalidateStored
    <3>2. CASE \A o \in Offsets : ~Live(o, k)
      BY <3>2, InvalidateStored DEF KeyInv, KeyRecords
    <3> QED BY <3>1, <3>2
  <2> HIDE DEF h
  <2> QED BY <1>1, <1>3, <2>1, <2>2 DEF KeyInv, KeyRecords
<1>8. KeyIndex'
  <2>1. ASSUME ready', ~degraded', NEW k \in Keys, NEW o \in Offsets, Live(o, k)'
        PROVE  index'[k] = o
    <3>1. index[k] = o
      BY <1>1, <2>1 DEF Invalidate, KeyInv, KeyIndex
    <3> QED BY <1>1, <1>5, <2>1, <3>1
  <2>2. ASSUME NEW o \in Offsets, Whole(o)', flash'[o].rec.key = Ckpt,
               NEW k \in Keys, NEW p \in Offsets, Live(p, k)', p < o
        PROVE  flash'[o].rec.val.index[k] = p
    BY <1>1, <1>4, <2>2 DEF KeyInv, KeyIndex
  <2> QED BY <2>1, <2>2 DEF KeyIndex
<1>9. KeyCall'
  <2>1. call'.items = call.items /\ call'.inv = Tail(call.inv) /\ call.inv \in Seq(Keys) /\ call.inv # <<>>
    BY InvalidateSectors, Zenon DEF Invalidate, LogInv, Types, CallTypes, Calls
  <2>2. ASSUME NEW i \in 1 .. Len(call.items), call.items[i].key \in Keys
        PROVE  \/ index'[call.items[i].key] = None
               \/ \E j \in 1 .. Len(call'.inv) : call'.inv[j] = call.items[i].key
    <3>1. CASE call.items[i].key = h \/ index[call.items[i].key] = None
      BY <1>5, <1>6, <2>2, <3>1
    <3>2. CASE call.items[i].key # h /\ index[call.items[i].key] # None
      <4>1. PICK j \in 1 .. Len(call.inv) : call.inv[j] = call.items[i].key
        BY <2>2, <3>2 DEF KeyInv, KeyCall
      <4>2. h = call.inv[1] /\ j # 1
        BY <2>1, <3>2, <4>1, HeadFirst, Zenon
      <4>3. j - 1 \in 1 .. Len(call'.inv) /\ call'.inv[j - 1] = call.inv[j]
        BY <2>1, <4>1, <4>2
      <4> QED BY <4>1, <4>3
    <3> QED BY <3>1, <3>2
  <2>3. \A i, j \in 1 .. Len(call'.items) : call'.items[i].key = call'.items[j].key => i = j
    BY <2>1, Zenon DEF KeyInv, KeyCall
  <2> QED BY <2>1, <2>2, <2>3, Zenon DEF KeyCall
<1> QED BY <1>7, <1>8, <1>9 DEF KeyInv

\* A step that leaves the flash leaves what its records say.
LEMMA SameRecords ==
  ASSUME flash' = flash, NEW o, NEW k
  PROVE  (Whole(o)' <=> Whole(o)) /\ (Live(o, k)' <=> Live(o, k)) /\ (TombOf(o, k)' <=> TombOf(o, k))
BY DEF Live, TombOf, ValueOf, Whole, Intact, HdrValid, IsHead, CrcGood

\* With the same values stored, the records agree with them as before.
LEMMA SameKeyRecords ==
  ASSUME KeyInv, flash' = flash, stored' = stored
  PROVE  /\ KeyRecords'
         /\ \A o \in Offsets : Whole(o)' /\ flash'[o].rec.key = Ckpt =>
              \A k \in Keys, p \in Offsets : Live(p, k)' /\ p < o => flash'[o].rec.val.index[k] = p
<1>1. KeyRecords'
  BY SameRecords DEF KeyInv, KeyRecords
<1>2. \A o \in Offsets : Whole(o)' /\ flash'[o].rec.key = Ckpt =>
        \A k \in Keys, p \in Offsets : Live(p, k)' /\ p < o => flash'[o].rec.val.index[k] = p
  BY SameRecords, Zenon DEF KeyInv, KeyIndex
<1> QED BY <1>1, <1>2

\* A step that only changes the call, to one whose records are not indexed.
LEMMA CallKeys ==
  ASSUME KeyInv, KeyCall',
         UNCHANGED <<flash, ready, degraded, index, append_off, ckpt_dirty, stored>>
  PROVE  KeyInv'
<1>1. ready' /\ ~degraded' => \A k \in Keys, o \in Offsets : Live(o, k)' => index'[k] = o
  BY SameRecords DEF KeyInv, KeyIndex
<1>2. KeyIndex'
  BY <1>1, SameKeyRecords DEF KeyIndex
<1> QED BY <1>2, SameKeyRecords DEF KeyInv

\* The calls that put, delete and flush start, and the end of a failed one.
LEMMA StartKeys ==
  ASSUME LogInv, KeyInv, ~Duplicates,
         \/ \E items \in Batches : PutBatch(items)
         \/ \E k \in Keys : Delete(k)
         \/ FlushIdle \/ AppendOob \/ AppendIo
  PROVE  KeyInv'
<1>1. CASE \E items \in Batches : PutBatch(items)
  <2>1. PICK items \in Batches : PutBatch(items)
    BY <1>1
  <2>2. call'.items = items /\ call'.inv = [i \in DOMAIN items |-> items[i].key]
        /\ DOMAIN items = 1 .. Len(items)
    BY <2>1, BatchItems DEF PutBatch, Start
  <2>3. Len(call'.inv) = Len(items)
    BY <2>2, BatchItems
  <2>4. \A i, j \in 1 .. Len(items) : items[i].key = items[j].key => i = j
    <3>1. \A i, j \in DOMAIN items : items[i].key = items[j].key => i = j
      BY BatchKeys, Zenon
    <3> QED BY <2>2, <3>1, Zenon
  <2>5. \A i \in 1 .. Len(items) : \E j \in 1 .. Len(call'.inv) : call'.inv[j] = items[i].key
    BY <2>2, <2>3
  <2>6. KeyCall'
    BY <2>2, <2>4, <2>5 DEF KeyCall
  <2> QED BY <2>1, <2>6, CallKeys DEF PutBatch, Start
<1>2. CASE \E k \in Keys : Delete(k)
  <2>1. PICK k \in Keys : Delete(k)
    BY <1>2
  <2>2. UNCHANGED <<flash, ready, degraded, index, append_off, ckpt_dirty, stored>>
    BY <2>1 DEF Delete, Start
  <2>3. CASE index[k] # None
    <3>1. call'.items = <<>>
      BY <2>1, <2>3 DEF Delete, Start
    <3>2. \A i \in 1 .. Len(call'.items) : FALSE
      BY <3>1
    <3>3. KeyCall'
      BY <3>2 DEF KeyCall
    <3> QED BY <2>2, <3>3, CallKeys
  <2>4. CASE index[k] = None
    <3>1. call'.items = <<Record(k, Tomb)>> /\ Record(k, Tomb).key = k
      <4>1. call' = [kind |-> "delete", inv |-> <<>>, items |-> <<Record(k, Tomb)>>, part |-> 0]
        BY <2>1, <2>4 DEF Delete, Start
      <4> QED BY <4>1 DEF Record
    <3>2. \A i \in 1 .. Len(call'.items) : i = 1 /\ call'.items[i].key = k
      BY <3>1
    <3>3. KeyCall'
      BY <2>2, <2>4, <3>2 DEF KeyCall
    <3> QED BY <2>2, <3>3, CallKeys
  <2> QED BY <2>3, <2>4
<1>3. CASE FlushIdle
  <2> DEFINE r == Record(Ckpt, [append |-> append_off, index |-> index])
  <2>1. call'.items = <<r>> /\ r.key = Ckpt
    BY <1>3 DEF FlushIdle, Start, Record
  <2> HIDE DEF r
  <2>2. \A i \in 1 .. Len(call'.items) : i = 1 /\ call'.items[i].key \notin Keys
    BY <2>1, TickvConstants
  <2>3. KeyCall'
    BY <2>2 DEF KeyCall
  <2> QED BY <1>3, <2>3, CallKeys DEF FlushIdle, Start
<1>4. CASE AppendOob \/ AppendIo
  <2>1. call' = Idle /\ UNCHANGED <<flash, ready, degraded, index, append_off, ckpt_dirty, stored>>
    BY <1>4 DEF AppendOob, AppendIo
  <2>2. \A i \in 1 .. Len(call'.items) : FALSE
    BY <2>1, IdleCall
  <2>3. KeyCall'
    BY <2>2 DEF KeyCall
  <2> QED BY <2>1, <2>3, CallKeys
<1> QED BY <1>1, <1>2, <1>3, <1>4

\* A scan from start, over a base that lists the live records before start,
\* indexes every live record.
LEMMA RangeKeys ==
  ASSUME LogInv, LogInv', KeyInv, ready' = TRUE, flash' = flash,
         NEW start \in 0 .. Size, NEW base,
         \A k \in Keys, o \in Offsets : Live(o, k) /\ o < start => base[k] = o,
         ScanRange(start, base), ~degraded',
         NEW k \in Keys, NEW o \in Offsets, Live(o, k)
  PROVE  index'[k] = o
<1>1. Size \in Nat /\ start \in Nat /\ o \in Nat
  BY TickvConstants DEF Offsets
<1>2. PICK end \in {start} \cup start .. Size, late \in BOOLEAN :
        \E seen \in SUBSET (start .. end - 1) :
          /\ Scanned(ScanSteps, start, seen, end)
          /\ degraded' = late
          /\ index' = Indexed(seen, base)
          /\ append_off' = IF late THEN Size ELSE end
  BY DEF ScanRange
<1>3. PICK seen \in SUBSET (start .. end - 1) :
          /\ Scanned(ScanSteps, start, seen, end)
          /\ index' = Indexed(seen, base)
          /\ append_off' = end
  BY <1>2
<1>4. end \in start .. Size /\ end \in Nat /\ seen \in SUBSET Offsets
  BY <1>1 DEF Offsets
<1> DEFINE mine == Met(seen, k)
<1>5. \A m \in mine : m \in Offsets /\ start <= m /\ (Live(m, k) \/ TombOf(m, k))
  <2> SUFFICES ASSUME NEW m \in mine
               PROVE  m \in Offsets /\ start <= m /\ (Live(m, k) \/ TombOf(m, k))
    OBVIOUS
  <2>1. m \in seen /\ Intact(m) /\ flash[m].rec.key = k
    BY DEF Met
  <2> HIDE DEF mine
  <2>2. m \in Offsets /\ start <= m
    BY <1>1, <1>4, <2>1
  <2>3. Live(m, k) \/ TombOf(m, k)
    BY <2>1, Zenon DEF Live, ValueOf, TombOf, Intact, HdrValid, Whole
  <2> QED BY <2>2, <2>3
<1>6. \A m \in mine : m <= o /\ (m = o \/ flash[m].rec.val = Tomb)
  <2> SUFFICES ASSUME NEW m \in mine PROVE m <= o /\ (m = o \/ flash[m].rec.val = Tomb)
    OBVIOUS
  <2> HIDE DEF mine
  <2>1. m \in Nat /\ m \in Offsets /\ (Live(m, k) \/ TombOf(m, k))
    BY <1>5 DEF Offsets
  <2>2. Live(m, k) => m = o
    BY <2>1, Zenon DEF KeyInv, KeyRecords
  <2>3. TombOf(m, k) => m < o /\ flash[m].rec.val = Tomb
    BY <2>1, Zenon DEF KeyInv, KeyRecords, TombOf
  <2> QED BY <1>1, <2>1, <2>2, <2>3
<1>7. /\ mine = {} => index'[k] = base[k]
      /\ mine # {} => /\ Max(mine) \in mine /\ \A y \in mine : y <= Max(mine)
                      /\ flash[Max(mine)].rec.val # Tomb => index'[k] = Max(mine)
  BY <1>3, <1>4, IndexOf, Zenon
<1>8. flash[o].rec.val # Tomb /\ Whole(o) /\ Intact(o) /\ flash[o].rec.key = k
  BY LiveOf, Zenon
<1>9. CASE start <= o
  <2>1. o < end
    <3>1. Whole(o)'
      BY <1>8, SameRecords, Zenon
    <3>2. flash'[o] # Blank /\ CrcGood(o)'
      <4>1. flash'[o].part = "head" /\ CrcGood(o)'
        BY <3>1, Zenon DEF Whole, IsHead
      <4> QED BY <4>1, Parts
    <3>3. ~(o > append_off')
      BY <3>2, Zenon DEF LogInv, Frontier
    <3>4. o # append_off'
      <4> SUFFICES ASSUME o = append_off' PROVE FALSE
        OBVIOUS
      <4>1. append_off' < Size
        BY <1>1 DEF Offsets
      <4>2. flash'[append_off'] = Blank \/ ~CrcGood(append_off)'
        BY <4>1, Zenon DEF LogInv, Frontier
      <4>3. flash'[o] = Blank \/ ~CrcGood(o)'
        BY <4>2 DEF CrcGood
      <4> QED BY <3>2, <4>3, Zenon
    <3> QED BY <1>1, <1>3, <1>4, <3>3, <3>4
  <2>2. o \in mine
    <3>1. o \in seen
      BY <1>3, <1>4, <1>8, <1>9, <2>1, ScanMeets
    <3>2. Intact(o) /\ flash[o].rec.key = k
      BY <1>8
    <3> QED BY <3>1, <3>2, Zenon DEF Met
  <2> HIDE DEF mine
  <2>3. Max(mine) \in mine /\ o <= Max(mine)
    BY <1>7, <2>2
  <2>4. Max(mine) = o
    BY <1>1, <1>5, <1>6, <2>3 DEF Offsets
  <2> QED BY <1>7, <1>8, <2>2, <2>4
<1>10. CASE o < start
  <2> HIDE DEF mine
  <2>1. mine = {}
    <3> SUFFICES ASSUME NEW m \in mine PROVE FALSE
      OBVIOUS
    <3>1. m \in Offsets /\ start <= m /\ m <= o
      BY <1>5, <1>6
    <3> QED BY <1>1, <1>10, <3>1 DEF Offsets
  <2> QED BY <1>7, <1>10, <2>1
<1>11. start <= o \/ o < start
  BY <1>1 DEF Offsets
<1> QED BY <1>9, <1>10, <1>11, Zenon

\* A mount, by checkpoint or by full scan, keeps the invariant of the keys.
LEMMA MountKeys ==
  ASSUME LogInv, LogInv', KeyInv, Mount
  PROVE  KeyInv'
<1>1. flash' = flash /\ stored' = stored /\ ready' = TRUE /\ call' = Idle
  BY DEF Mount, LogInv, Frontier
<1>2. ASSUME ~degraded', NEW k \in Keys, NEW o \in Offsets, Live(o, k)
      PROVE  index'[k] = o
  <2>1. CASE Ckpts # {} /\ ~CkptStale(flash[LastCkpt].rec.val)
    <3> DEFINE c == LastCkpt
               s == flash[LastCkpt].rec.val
    <3>1. ScanRange(TailStart(s), s.index)
      BY <2>1 DEF Mount
    <3>2. c \in Offsets /\ Whole(c) /\ flash[c].rec.key = Ckpt /\ s = flash[c].rec.val
          /\ TailStart(s) = End(c) /\ End(c) \in 1 .. Size
      BY <2>1, LastCheckpoint
    <3> HIDE DEF c, s
    <3>3. ASSUME NEW j \in Keys, NEW p \in Offsets, Live(p, j), p < TailStart(s)
          PROVE  s.index[j] = p
      <4>1. IsHead(p) /\ p # c
        BY <3>2, <3>3, LiveOf DEF Whole
      <4>2. ~(c < p)
        BY <3>2, <3>3, <4>1, WholeApart DEF Offsets
      <4>3. p < c
        BY <3>2, <4>1, <4>2 DEF Offsets
      <4> QED BY <3>2, <3>3, <4>3 DEF KeyInv, KeyIndex
    <3>4. TailStart(s) \in 0 .. Size
      BY <3>2, TickvConstants
    <3> QED BY <1>1, <1>2, <3>1, <3>3, <3>4, RangeKeys
  <2>2. CASE ~(Ckpts # {} /\ ~CkptStale(flash[LastCkpt].rec.val))
    <3>1. ScanRange(0, NoIndex)
      BY <2>2 DEF Mount
    <3>2. 0 \in 0 .. Size /\ \A p \in Offsets : ~(p < 0)
      BY TickvConstants DEF Offsets
    <3> QED BY <1>1, <1>2, <3>1, <3>2, RangeKeys
  <2> QED BY <2>1, <2>2
<1>3. KeyIndex'
  <2>1. ready' /\ ~degraded' => \A k \in Keys, o \in Offsets : Live(o, k)' => index'[k] = o
    BY <1>1, <1>2, SameRecords
  <2> QED BY <1>1, <2>1, SameKeyRecords DEF KeyIndex
<1>4. KeyCall'
  <2>1. \A i \in 1 .. Len(call'.items) : FALSE
    BY <1>1, IdleCall
  <2> QED BY <2>1 DEF KeyCall
<1> QED BY <1>1, <1>3, <1>4, SameKeyRecords DEF KeyInv

\* So do a crash, and a mount that runs out of time at once.
LEMMA CrashKeys ==
  ASSUME LogInv, KeyInv, Crash \/ MountTimeout
  PROVE  KeyInv'
<1>1. flash' = flash /\ stored' = stored /\ call' = Idle /\ ~(ready' /\ ~degraded')
  BY DEF Crash, MountTimeout, LogInv, Frontier
<1>2. KeyIndex'
  BY <1>1, SameKeyRecords DEF KeyIndex
<1>3. KeyCall'
  <2>1. \A i \in 1 .. Len(call'.items) : FALSE
    BY <1>1, IdleCall
  <2> QED BY <2>1 DEF KeyCall
<1> QED BY <1>1, <1>2, <1>3, SameKeyRecords DEF KeyInv

\* Every step keeps the invariant of the keys.
LEMMA StepKeys ==
  ASSUME ~Duplicates, LogInv, LogInv', KeyInv, [Next]_vars
  PROVE  KeyInv'
<1>1. CASE \/ \E items \in Batches : PutBatch(items)
           \/ \E k \in Keys : Delete(k)
           \/ FlushIdle \/ AppendOob \/ AppendIo
  BY <1>1, StartKeys
<1>2. CASE Invalidate
  BY <1>2, InvalidateKeys
<1>3. CASE AppendSector
  BY <1>3, AppendKeyRecords, AppendKeyIndex, AppendKeyCall DEF KeyInv
<1>4. CASE Mount
  BY <1>4, MountKeys
<1>5. CASE Crash \/ MountTimeout
  BY <1>5, CrashKeys
<1>6. CASE UNCHANGED vars
  <2>1. KeyCall'
    BY <1>6 DEF vars, KeyInv, KeyCall
  <2> QED BY <1>6, <2>1, CallKeys DEF vars
<1> QED BY <1>1, <1>2, <1>3, <1>4, <1>5, <1>6 DEF Next

\* An empty volume stores nothing.
LEMMA InitKeys == Init => KeyInv
<1> SUFFICES ASSUME Init PROVE KeyInv
  OBVIOUS
<1>1. \A o \in Offsets : ~IsHead(o)
  BY Parts DEF Init, IsHead
<1>2. \A k \in Keys, o \in Offsets : ~Live(o, k) /\ ~TombOf(o, k) /\ ~Whole(o)
  BY <1>1 DEF Live, ValueOf, TombOf, Intact, HdrValid, Whole
<1>3. \A i \in 1 .. Len(call.items) : FALSE
  BY IdleCall DEF Init
<1>4. \A k \in Keys : stored[k] = None
  BY DEF Init
<1>5. \A o \in Offsets : ~Whole(o)
  BY <1>1 DEF Whole
<1> QED BY <1>2, <1>3, <1>4, <1>5 DEF KeyInv, KeyRecords, KeyIndex, KeyCall

\* When no batch names a key twice, every key has at most one live record, which
\* holds what was stored and comes after the key's empty records, and a complete
\* mount indexes it.
THEOREM KeyInvariance ==
  ASSUME ~Duplicates
  PROVE  Spec => []KeyInv
<1>1. Init => KeyInv
  BY InitKeys
<1>2. LogInv /\ LogInv' /\ KeyInv /\ [Next]_vars => KeyInv'
  BY StepKeys
<1> QED BY <1>1, <1>2, LogInvariance, PTL DEF Spec

\* What get returns.
LEMMA GetOf ==
  ASSUME LogInv, NEW k \in Keys
  PROVE  /\ index[k] = None => Get(k) = None
         /\ \A o \in Offsets : index[k] = o =>
              IF Live(o, k) THEN Get(k) = flash[o].rec.val ELSE Get(k) = None
<1>1. index[k] = None => Get(k) = None
  BY Zenon DEF Get
<1>2. ASSUME NEW o \in Offsets, index[k] = o
      PROVE  IF Live(o, k) THEN Get(k) = flash[o].rec.val ELSE Get(k) = None
  <2>1. ValueOf(o, k) /\ o # None
    <3>1. ValueOf(o, k)
      BY <1>2, Zenon DEF LogInv, Pointers
    <3>2. o # None
      BY TickvConstants DEF Offsets
    <3> QED BY <3>1, <3>2
  <2>2. CrcGood(o) /\ (Live(o, k) <=> HdrValid(o))
    BY <2>1 DEF Live, ValueOf, Whole, HdrValid
  <2>3. HdrValid(o) => Get(k) = flash[o].rec.val
    BY <1>2, <2>1, <2>2, Zenon DEF Get
  <2>4. ~HdrValid(o) => Get(k) = None
    BY <1>2, <2>1, Zenon DEF Get
  <2> QED BY <2>2, <2>3, <2>4
<1> QED BY <1>1, <1>2

\* Durability: after any crashes, torn records, failed writes and mounts, what get
\* returns from a complete mount is what the completed writes made of the key.
THEOREM Durability ==
  ASSUME ~Duplicates
  PROVE  Spec => []Durable
<1>1. LogInv /\ KeyInv => Durable
  <2> SUFFICES ASSUME LogInv, KeyInv, ready, ~degraded, NEW k \in Keys
               PROVE  Get(k) = stored[k]
    BY DEF Durable
  <2>1. \A o \in Offsets : Live(o, k) => index[k] = o /\ stored[k] = flash[o].rec.val
    BY DEF KeyInv, KeyIndex, KeyRecords
  <2>2. (\A o \in Offsets : ~Live(o, k)) => stored[k] = None
    BY DEF KeyInv, KeyRecords
  <2>3. index[k] \in Offsets \cup {None} /\ None \notin Offsets
    BY TickvConstants DEF LogInv, Types, MountTypes, Offsets
  <2>4. CASE index[k] = None
    BY <2>1, <2>2, <2>3, <2>4, GetOf
  <2>5. CASE index[k] # None
    <3>1. PICK o \in Offsets : index[k] = o
      BY <2>3, <2>5
    <3>2. CASE Live(o, k)
      BY <2>1, <3>1, <3>2, GetOf
    <3>3. CASE ~Live(o, k)
      <4>1. stored[k] = None
        BY <2>1, <2>2, <3>1, <3>3
      <4> QED BY <3>1, <3>3, <4>1, GetOf
    <3> QED BY <3>2, <3>3
  <2> QED BY <2>4, <2>5
<1> QED BY <1>1, LogInvariance, KeyInvariance, PTL

\* A mount cut short by its deadline may miss keys, but what get returns is the
\* current value.
THEOREM Honesty ==
  ASSUME ~Duplicates
  PROVE  Spec => []DegradedHonest
<1>1. LogInv /\ KeyInv => DegradedHonest
  <2> SUFFICES ASSUME LogInv, KeyInv, NEW k \in Keys
               PROVE  Get(k) \in {stored[k], None}
    BY DEF DegradedHonest
  <2>1. index[k] \in Offsets \cup {None}
    BY DEF LogInv, Types, MountTypes
  <2>2. ASSUME NEW o \in Offsets, index[k] = o
        PROVE  Get(k) \in {stored[k], None}
    BY <2>2, GetOf DEF KeyInv, KeyRecords
  <2> QED BY <2>1, <2>2, GetOf
<1> QED BY <1>1, LogInvariance, KeyInvariance, PTL

=============================================================================
