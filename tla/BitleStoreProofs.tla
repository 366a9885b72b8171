--------------------------- MODULE BitleStoreProofs ---------------------------
(* Proofs about BitleStore, for every value of its constants.              *)
EXTENDS BitleStore, TLAPS

USE ZenonT(30)

\* The units the store writes are units, and none of them reads as erased.
LEMMA UnitTypes ==
  /\ Blank \in Unit
  /\ Dirty \in Unit /\ Dirty # Blank
  /\ \A v \in 0 .. MaxPuts : Data(v) \in Unit /\ Data(v) # Blank /\ Data(v).kind # "rec"
  /\ \A r \in Request : RecHdr(r) \in Unit /\ RecHdr(r).kind = "rec"
                         /\ RecHdr(r).len = r.len /\ RecHdr(r).ver = r.ver
<1>1. Blank \in Unit
  BY StoreAssumption, SMTT(30) DEF Unit, Blank
<1>2. Dirty \in Unit /\ Dirty.kind = "dirty"
  BY <1>1 DEF Unit, Dirty
<1>3. \A v \in 0 .. MaxPuts : Data(v) \in Unit /\ Data(v).kind = "data"
  BY <1>1 DEF Unit, Data
<1>4. \A r \in Request : RecHdr(r) \in Unit
  BY StoreAssumption, SMTT(30) DEF Unit, RecHdr, Request, Versions
<1>5. Blank.kind = "blank"
  BY DEF Blank
<1> QED
  BY <1>1, <1>2, <1>3, <1>4, <1>5 DEF RecHdr

\* Clearing a field of a unit leaves a unit.
LEMMA UnitUpdates ==
  ASSUME NEW u \in Unit
  PROVE  /\ [u EXCEPT !.alive = FALSE] \in Unit
         /\ [u EXCEPT !.alive = FALSE] # Blank
         /\ [u EXCEPT !.alive = FALSE].kind = u.kind
         /\ [u EXCEPT !.alive = FALSE].len = u.len
         /\ \A l \in 0 .. u.len : /\ Garbled(u, l) \in Unit
                                  /\ Garbled(u, l).kind = u.kind
                                  /\ Garbled(u, l).len = l
<1>1. /\ [u EXCEPT !.alive = FALSE] \in Unit
      /\ [u EXCEPT !.alive = FALSE].kind = u.kind
      /\ [u EXCEPT !.alive = FALSE].len = u.len
  BY DEF Unit
<1>2. [u EXCEPT !.alive = FALSE] # Blank
  BY DEF Unit, Blank
<1>3. ASSUME NEW l \in 0 .. u.len
      PROVE  Garbled(u, l) \in Unit /\ Garbled(u, l).kind = u.kind /\ Garbled(u, l).len = l
  <2>1. u.len \in 0 .. MaxLen
    BY DEF Unit
  <2>2. l \in 0 .. MaxLen
    BY <2>1, StoreAssumption, SMTT(30)
  <2> QED
    BY <2>2 DEF Unit, Garbled
<1> QED
  BY <1>1, <1>2, <1>3

\* Programming a header yields a unit that is not erased, whose length is at
\* most that of the header written.
LEMMA ProgramHdrOutcome ==
  ASSUME NEW old \in Unit, NEW r \in Request, NEW w \in ProgramHdr(old, RecHdr(r))
  PROVE  w \in Unit /\ w # Blank /\ w.len <= r.len
<1>1. RecHdr(r) \in Unit /\ RecHdr(r).kind = "rec" /\ RecHdr(r).len = r.len
  BY UnitTypes
<1>2. r.len \in Nat
  BY StoreAssumption, SMTT(30) DEF Request
<1>3. CASE w = RecHdr(r)
  BY <1>1, <1>2, <1>3, SMTT(30) DEF Blank
<1>4. CASE \E l \in 0 .. RecHdr(r).len : w = Garbled(RecHdr(r), l)
  <2>1. PICK l \in 0 .. RecHdr(r).len : w = Garbled(RecHdr(r), l)
    BY <1>4
  <2>2. w \in Unit /\ w.kind = "rec" /\ w.len = l
    BY <1>1, <2>1, UnitUpdates
  <2>3. l <= r.len
    BY <1>1, <1>2, <2>1, SMTT(30)
  <2> QED
    BY <2>2, <2>3, SMTT(30) DEF Blank
<1>5. CASE w = Dirty
  <2>1. Dirty.len = 0
    BY DEF Dirty, Blank
  <2> QED
    BY <1>2, <1>5, <2>1, UnitTypes, SMTT(30)
<1> QED
  BY <1>3, <1>4, <1>5 DEF ProgramHdr

\* Programming a payload leaves every unit outside it alone and erases none.
LEMMA ProgramPayloadOutcome ==
  ASSUME NEW units \in [Positions -> Unit], NEW p \in Positions, NEW l \in 0 .. MaxLen,
         NEW v \in 0 .. MaxPuts
  PROVE  /\ ProgramPayload(units, p, l, v) \in [Positions -> Unit]
         /\ ProgramPayload(units, p, l, v)[p] = units[p]
         /\ \A q \in Positions :
              /\ units[q] # Blank => ProgramPayload(units, p, l, v)[q] # Blank
              /\ ProgramPayload(units, p, l, v)[q].kind = "rec" =>
                   ProgramPayload(units, p, l, v)[q] = units[q]
<1>1. Data(v) \in Unit /\ Data(v) # Blank /\ Data(v).kind # "rec"
  BY UnitTypes
<1>2. p \notin PayloadAt(p, l)
  BY StoreAssumption, SMTT(30) DEF PayloadAt, Positions
<1> QED
  BY <1>1, <1>2 DEF ProgramPayload

\* A walk step stays inside the sector.
LEMMA CursorStep ==
  ASSUME NEW c \in [sec : 0 .. NSectors, pos : 0 .. SectorSize], NEW l \in 1 .. MaxLen,
         c.pos + l < SectorSize
  PROVE  /\ [c EXCEPT !.pos = @ + (1 + l)] \in [sec : 0 .. NSectors, pos : 0 .. SectorSize]
         /\ [c EXCEPT !.pos = @ + (1 + l)].sec = c.sec
         /\ [c EXCEPT !.pos = @ + (1 + l)].pos # 0
<1>1. c.pos + (1 + l) \in 1 .. SectorSize
  BY StoreAssumption, SMTT(30)
<1> QED
  BY <1>1, SMTT(30)

\* A cursor short of the partition's end is in a sector.
LEMMA CursorSector ==
  ASSUME NEW c \in [sec : 0 .. NSectors, pos : 0 .. SectorSize], c.sec < NSectors
  PROVE  c.sec \in Sectors
  BY StoreAssumption, SMTT(30) DEF Sectors

-----------------------------------------------------------------------------
(* The invariant.                                                          *)

\* What the proofs use about finite sets: StoreKeptProofs proves it from
\* the library's theorems.
SetFacts ==
  /\ IsFiniteSet({}) /\ Cardinality({}) = 0
  /\ \A S : IsFiniteSet(S) => Cardinality(S) \in Nat /\ (Cardinality(S) = 0 => S = {})
  /\ \A S : \A T \in SUBSET S : IsFiniteSet(S) => IsFiniteSet(T) /\ Cardinality(T) <= Cardinality(S)
  /\ \A S, x : IsFiniteSet(S) =>
       /\ IsFiniteSet(S \cup {x})
       /\ Cardinality(S \cup {x}) = IF x \in S THEN Cardinality(S) ELSE Cardinality(S) + 1
       /\ x \in S => Cardinality(S \ {x}) = Cardinality(S) - 1
  /\ IsFiniteSet(Sectors)

IInv == SetFacts /\ TypeOK /\ StoreInv

\* One more element keeps a set below its budget within it.
LEMMA AddWithinBudget ==
  ASSUME SetFacts, NEW S, IsFiniteSet(S), NEW T \in SUBSET S, NEW x, Cardinality(S) < MaxRecords
  PROVE  IsFiniteSet(T \cup {x}) /\ Cardinality(T \cup {x}) <= MaxRecords
<1>1. IsFiniteSet(T) /\ Cardinality(T) <= Cardinality(S)
  BY DEF SetFacts
<1>2. Cardinality(T) \in Nat /\ Cardinality(S) \in Nat
  BY <1>1 DEF SetFacts
<1>3. /\ IsFiniteSet(T \cup {x})
      /\ Cardinality(T \cup {x}) = IF x \in T THEN Cardinality(T) ELSE Cardinality(T) + 1
  BY <1>1 DEF SetFacts
<1> QED
  BY <1>1, <1>2, <1>3, StoreAssumption, SMTT(30)

-----------------------------------------------------------------------------
(* The invariant holds initially.                                          *)

\* A fresh chip, erased and switched off, satisfies the invariant.
LEMMA InitInv == SetFacts /\ Init => IInv
<1> SUFFICES ASSUME SetFacts, Init PROVE IInv
  OBVIOUS
<1>1. Blank \in Unit
  BY UnitTypes
<1>2. Blank.kind # "rec"
  BY DEF Blank
<1>3. TypeOK
  BY <1>1, StoreAssumption, SMTT(30)
  DEF Init, TypeOK, ErasedSector, Sectors, Positions, Off, NoSector, NoReq
<1>4. IsFiniteSet(index) /\ Cardinality(index) = 0
  BY DEF Init, SetFacts
<1>5. IndexSound
  BY <1>4, StoreAssumption, SMTT(30) DEF Init, IndexSound
<1> QED
  BY <1>2, <1>3, <1>4, <1>5, StoreAssumption
  DEF Init, IInv, StoreInv, ErasedSector, Sectors, Off, NoSector

-----------------------------------------------------------------------------
(* One lemma per action.                                                   *)

USE DEF ram, bounds, hist, boots

\* What holds of the index, the records and the write head stays true of steps
\* that touch none of them.
LEMMA SameStore ==
  ASSUME IInv, UNCHANGED <<flash, index, write_off>>
  PROVE  /\ IndexSound' /\ IsFiniteSet(index')
         /\ \A s \in Sectors, p \in Positions :
              flash'[s].units[p].kind = "rec" => p + flash'[s].units[p].len < SectorSize
         /\ write_off'.pos # 0 => write_off'.sec < NSectors /\ flash'[write_off'.sec].seq # 0
  BY DEF IInv, StoreInv, IndexSound, UnitAt

\* bitle_store_init: an empty index is sound, whatever the clock says.
LEMMA BootInv == IInv /\ Boot => IInv'
<1> SUFFICES ASSUME IInv, Boot PROVE IInv'
  OBVIOUS
<1> SetFacts /\ TypeOK /\ StoreInv
  BY DEF IInv
<1>1. TypeOK'
  BY StoreAssumption, SMTT(30) DEF TypeOK, Boot, NoSector, Sectors
<1>2. IsFiniteSet({}) /\ Cardinality({}) = 0
  BY DEF SetFacts
<1>3. StoreInv'
  BY <1>2, StoreAssumption, SMTT(30) DEF StoreInv, IndexSound, Boot, UnitAt, NoSector
<1> QED
  BY <1>1, <1>3 DEF IInv

\* The boot scan reading a sector header preserves the invariant.
LEMMA ScanSectorInv == IInv /\ ScanSector => IInv'
<1> SUFFICES ASSUME IInv, ScanSector PROVE IInv'
  OBVIOUS
<1> SetFacts /\ TypeOK /\ StoreInv
  BY DEF IInv
<1>a. /\ cur \in [sec : 0 .. NSectors, pos : 0 .. SectorSize]
      /\ flash \in [Sectors -> [seq : Nat, units : [Positions -> Unit]]]
      /\ newest \in [seq : Nat, base : Sectors \cup {NoSector}]
  BY DEF TypeOK
<1>0. cur.sec \in Sectors /\ flash[cur.sec].seq \in Nat
  BY <1>a, StoreAssumption, SMTT(30) DEF ScanSector, Sectors
<1>b. cur' \in [sec : 0 .. NSectors, pos : 0 .. SectorSize]
  BY <1>a, StoreAssumption, SMTT(30) DEF ScanSector, NextSector
<1>c. newest' \in [seq : Nat, base : Sectors \cup {NoSector}]
  BY <1>a, <1>0 DEF ScanSector
<1>1. TypeOK'
  BY <1>b, <1>c DEF TypeOK, ScanSector
<1>2. UNCHANGED <<flash, index, write_off>>
  BY DEF ScanSector
<1>3. StoreInv'
  BY <1>0, <1>2, SameStore, StoreAssumption, SMTT(30)
  DEF StoreInv, ScanSector, NoSector, NextSector, EntriesOf, Sectors
<1> QED
  BY <1>1, <1>3 DEF IInv

\* The end of the boot scan preserves the invariant.
LEMMA ScanDoneInv == IInv /\ ScanDone => IInv'
<1> SUFFICES ASSUME IInv, ScanDone PROVE IInv'
  OBVIOUS
<1> SetFacts /\ TypeOK /\ StoreInv
  BY DEF IInv
<1>a. newest \in [seq : Nat, base : Sectors \cup {NoSector}]
  BY DEF TypeOK
<1>b. cur' \in [sec : 0 .. NSectors, pos : 0 .. SectorSize]
  BY <1>a, StoreAssumption, SMTT(30) DEF ScanDone, NoSector, Sectors
<1>c. next_seq' \in Nat /\ head_seq' \in Nat
  BY <1>a, SMTT(30) DEF TypeOK, ScanDone
<1>1. TypeOK'
  BY <1>b, <1>c DEF TypeOK, ScanDone
<1>2. UNCHANGED <<flash, index, write_off>>
  BY DEF ScanDone
<1>3. StoreInv'
  BY <1>a, <1>2, SameStore, StoreAssumption, SMTT(30) DEF StoreInv, ScanDone, NoSector, EntriesOf, Sectors
<1> QED
  BY <1>1, <1>3 DEF IInv

\* A put that finds the quota met preserves the invariant.
LEMMA QuotaMetInv == IInv /\ QuotaMet => IInv'
<1> SUFFICES ASSUME IInv, QuotaMet PROVE IInv'
  OBVIOUS
<1> SetFacts /\ TypeOK /\ StoreInv
  BY DEF IInv
<1>1. TypeOK'
  BY DEF TypeOK, QuotaMet
<1>2. Cardinality(index) \in Nat
  BY DEF StoreInv, SetFacts
<1>3. UNCHANGED <<flash, index, write_off>>
  BY DEF QuotaMet
<1>4. StoreInv'
  BY <1>2, <1>3, SameStore, StoreAssumption, SMTT(30) DEF StoreInv, QuotaMet, QuotaFull, EntriesOf
<1> QED
  BY <1>1, <1>4 DEF IInv

\* A put looking for room preserves the invariant.
LEMMA FindRoomInv == IInv /\ FindRoom => IInv'
<1> SUFFICES ASSUME IInv, FindRoom PROVE IInv'
  OBVIOUS
<1> SetFacts /\ TypeOK /\ StoreInv
  BY DEF IInv
<1>1. TypeOK'
  BY StoreAssumption, SMTT(30) DEF TypeOK, FindRoom, SectorToOpen
<1>2. UNCHANGED <<flash, index, write_off>>
  BY DEF FindRoom
<1>3. StoreInv'
  <2>1. write_off \in [sec : 0 .. NSectors, pos : 0 .. SectorSize - 1] /\ NSectors \in Nat \ {0, 1}
    BY StoreAssumption DEF TypeOK
  <2>2. CASE Fits /\ pc' = "hdr" /\ UNCHANGED cur
    BY <1>2, <2>2, SameStore DEF StoreInv, FindRoom, Fits, EntriesOf
  <2>3. CASE ~ Fits /\ pc' = "open" /\ cur' = [sec |-> SectorToOpen, pos |-> 0]
    <3>1. cur'.sec < NSectors /\ (write_off.pos # 0 => cur'.sec # write_off.sec)
      BY <2>1, <2>3, SMTT(30) DEF SectorToOpen
    <3> QED
      BY <1>2, <2>3, <3>1, SameStore DEF StoreInv, FindRoom, EntriesOf
  <2> QED
    BY <2>2, <2>3 DEF FindRoom
<1> QED
  BY <1>1, <1>3 DEF IInv

\* A reclaim whose erase fails preserves the invariant.
LEMMA ReclaimFailsInv == IInv /\ ReclaimFails => IInv'
<1> SUFFICES ASSUME IInv, ReclaimFails PROVE IInv'
  OBVIOUS
<1> SetFacts /\ TypeOK /\ StoreInv
  BY DEF IInv
<1>1. TypeOK'
  BY StoreAssumption DEF TypeOK, ReclaimFails, Return
<1>3. StoreInv'
  BY StoreAssumption DEF TypeOK, StoreInv, IndexSound, ReclaimFails, Return, UnitAt, NoSector, EntriesOf, EntriesIn, Fits, HeadUnits, Sectors
<1> QED
  BY <1>1, <1>3 DEF IInv

\* A step of the clock preserves the invariant.
LEMMA TickInv == IInv /\ Tick => IInv'
<1> SUFFICES ASSUME IInv, Tick PROVE IInv'
  OBVIOUS
<1> SetFacts /\ TypeOK /\ StoreInv
  BY DEF IInv
<1>1. TypeOK'
  BY StoreAssumption DEF TypeOK, Tick
<1>3. StoreInv'
  BY StoreAssumption DEF TypeOK, StoreInv, IndexSound, Tick, UnitAt, EntriesOf, EntriesIn, Fits, HeadUnits, Sectors
<1> QED
  BY <1>1, <1>3 DEF IInv

\* The boot scan indexing or skipping a record preserves the invariant:
\* what it indexes is alive on flash and behind the scan's position.
LEMMA ScanRecordInv == IInv /\ ScanRecord => IInv'
<1> SUFFICES ASSUME IInv, ScanRecord PROVE IInv'
  OBVIOUS
<1> SetFacts /\ TypeOK /\ StoreInv
  BY DEF IInv
<1> DEFINE units == flash[cur.sec].units
           u == units[cur.pos]
           e == [key |-> u.key, sec |-> cur.sec, pos |-> cur.pos,
                 exp |-> u.exp, seq |-> flash[cur.sec].seq]
<1>1. /\ cur \in [sec : 0 .. NSectors, pos : 0 .. SectorSize]
      /\ flash \in [Sectors -> [seq : Nat, units : [Positions -> Unit]]]
      /\ index \subseteq Entry
  BY DEF TypeOK
<1>2. cur.sec \in Sectors /\ flash[cur.sec].seq \in Nat \ {0}
  <2>1. pc = "scan" /\ cur.sec < NSectors /\ cur.pos > 0
    BY DEF ScanRecord
  <2>2. cur.sec \in Sectors
    BY <1>1, <2>1, CursorSector
  <2>3. cur.pos # 0
    BY <1>1, <2>1, SMTT(30)
  <2> QED
    BY <1>1, <2>1, <2>2, <2>3 DEF StoreInv
<1>u. /\ pc = "scan" /\ UNCHANGED <<flash, write_off, next_seq, head_seq, pc, req, newest, now, ret>>
      /\ UNCHANGED <<nputs, crashes, faults, latest, gone>>
  BY DEF ScanRecord
<1>3. CASE WalkStops(units, cur.pos)
  <2>1. cur' = NextSector /\ UNCHANGED <<index, passed, revived>>
    BY <1>3 DEF ScanRecord
  <2>2. cur' \in [sec : 0 .. NSectors, pos : 0 .. SectorSize] /\ cur'.pos = 0
    BY <1>1, <2>1, StoreAssumption, SMTT(30) DEF ScanRecord, NextSector
  <2>3. TypeOK'
    BY <1>u, <2>1, <2>2 DEF TypeOK
  <2>4. StoreInv'
    BY <1>u, <2>1, <2>2 DEF StoreInv, IndexSound, UnitAt, EntriesOf
  <2> QED
    BY <2>3, <2>4 DEF IInv
<1>4. CASE ~ WalkStops(units, cur.pos)
  <2>1. cur.pos \in Positions /\ u \in Unit
    <3>1. cur.pos \in Positions
      <4>1. cur.pos > 0
        BY DEF ScanRecord
      <4>2. cur.pos + 1 <= SectorSize
        BY <1>4 DEF WalkStops, HdrFits
      <4> QED
        BY <1>1, <4>1, <4>2, StoreAssumption, SMTT(30) DEF Positions
    <3> QED
      BY <1>1, <1>2, <3>1
  <2>2. u.kind = "rec" /\ u.len \in 1 .. MaxLen /\ cur.pos + u.len < SectorSize
    <3>1. u.kind = "rec" /\ u.len > 0
      BY <1>4 DEF WalkStops, HdrOk
    <3>2. u.len \in 0 .. MaxLen
      BY <2>1 DEF Unit
    <3> QED
      BY <1>2, <2>1, <3>1, <3>2, StoreAssumption, SMTT(30) DEF StoreInv
  <2>3. e \in Entry /\ UnitAt(e) # Blank
    <3>1. u.key \in Keys \cup {NoKey} /\ u.exp \in Expiries \cup {0}
      BY <2>1 DEF Unit
    <3> QED
      BY <1>2, <2>1, <2>2, <3>1, SMTT(30) DEF Entry, UnitAt, Blank
  <2>4. cur' = [cur EXCEPT !.pos = @ + (1 + u.len)]
        /\ (index' = index \/ (Cardinality(index) < MaxRecords /\ index' = Indexed(e)))
    BY <1>4 DEF ScanRecord, RecSize
  <2>5. cur' \in [sec : 0 .. NSectors, pos : 0 .. SectorSize] /\ cur'.sec = cur.sec
    BY <1>1, <2>2, <2>4, CursorStep
  <2>6. IsFiniteSet(index) /\ Cardinality(index) \in Nat
    BY DEF StoreInv, SetFacts
  <2>7. /\ index' \subseteq index \cup {e}
        /\ \A f, g \in index' : f.key = g.key => f = g
        /\ IsFiniteSet(index') /\ Cardinality(index') <= MaxRecords
    <3> HIDE DEF e, u, units
    <3>1. CASE index' = index
      BY <2>6, <3>1 DEF StoreInv, IndexSound
    <3>2. CASE Cardinality(index) < MaxRecords /\ index' = Indexed(e)
      <4>1. index' = index \/ (index' = (index \ EntriesOf(e.key)) \cup {e})
        BY <3>2 DEF Indexed, EntriesOf
      <4>3. /\ IsFiniteSet((index \ EntriesOf(e.key)) \cup {e})
            /\ Cardinality((index \ EntriesOf(e.key)) \cup {e}) <= MaxRecords
        BY <2>6, <3>2, AddWithinBudget
      <4>4. \A f, g \in (index \ EntriesOf(e.key)) \cup {e} : f.key = g.key => f = g
        BY DEF EntriesOf, StoreInv, IndexSound
      <4>5. CASE index' = index
        BY <2>6, <4>5 DEF StoreInv, IndexSound
      <4>6. CASE index' = (index \ EntriesOf(e.key)) \cup {e}
        BY <4>3, <4>4, <4>6
      <4> QED
        BY <4>1, <4>5, <4>6
    <3> QED
      BY <2>4, <3>1, <3>2
  <2>p. passed' \subseteq 0 .. MaxPuts /\ revived' \subseteq 0 .. MaxPuts
    <3>1. passed' \subseteq passed \cup {u.ver} /\ revived' \subseteq revived \cup {u.ver}
      BY <1>4 DEF ScanRecord
    <3>2. u.ver \in 0 .. MaxPuts
      BY <2>1 DEF Unit
    <3>3. passed \subseteq 0 .. MaxPuts /\ revived \subseteq 0 .. MaxPuts
      BY DEF TypeOK
    <3> QED
      BY <3>1, <3>2, <3>3
  <2>8. TypeOK'
    BY <1>u, <2>3, <2>5, <2>7, <2>p DEF TypeOK
  <2>9. IndexSound'
    <3>1. IndexSound /\ flash' = flash
      BY <1>u DEF StoreInv
    <3>2. \A f \in index \cup {e} : flash[f.sec].seq # 0 /\ UnitAt(f) # Blank
      <4>1. e.sec = cur.sec
        OBVIOUS
      <4> HIDE DEF e
      <4> QED
        BY <1>2, <2>3, <3>1, <4>1 DEF IndexSound
    <3>3. \A f \in index' : flash'[f.sec].seq # 0 /\ flash'[f.sec].units[f.pos] # Blank
      <4> HIDE DEF e
      <4> QED
        BY <2>7, <3>1, <3>2 DEF UnitAt
    <3> QED
      BY <2>7, <3>3 DEF IndexSound, UnitAt
  <2>10. StoreInv'
    BY <1>2, <1>u, <2>5, <2>7, <2>9 DEF StoreInv, EntriesOf
  <2> QED
    BY <2>8, <2>10 DEF IInv
<1> QED
  BY <1>3, <1>4

\* The scan of the newest sector for its write position preserves the
\* invariant: the head it finds is behind every record.
LEMMA ResumeInv == IInv /\ Resume => IInv'
<1> SUFFICES ASSUME IInv, Resume PROVE IInv'
  OBVIOUS
<1> SetFacts /\ TypeOK /\ StoreInv
  BY DEF IInv
<1> DEFINE units == flash[cur.sec].units
           u == units[cur.pos]
<1>1. /\ cur \in [sec : 0 .. NSectors, pos : 0 .. SectorSize]
      /\ flash \in [Sectors -> [seq : Nat, units : [Positions -> Unit]]]
      /\ newest \in [seq : Nat, base : Sectors \cup {NoSector}]
  BY DEF TypeOK
<1>2. cur.sec \in Sectors /\ flash[cur.sec].seq # 0 /\ cur.pos # 0
  BY <1>1 DEF Resume, StoreInv
<1>3. CASE ResumeStops(units, cur.pos)
  <2>1. write_off' = Off(cur.sec, cur.pos) /\ pc' = "idle" /\ cur' = cur
    BY <1>3 DEF Resume
  <2>2. /\ write_off' \in [sec : 0 .. NSectors, pos : 0 .. SectorSize - 1]
        /\ write_off'.pos # 0 => write_off'.sec = cur.sec
    BY <1>1, <1>2, <2>1, StoreAssumption, SMTT(30) DEF Off, Sectors
  <2>3. TypeOK'
    BY <2>1, <2>2 DEF TypeOK, Resume
  <2>4. StoreInv'
    BY <1>2, <2>1, <2>2, StoreAssumption, SMTT(30) DEF StoreInv, IndexSound, Resume, UnitAt, EntriesOf, Sectors
  <2> QED
    BY <2>3, <2>4 DEF IInv
<1>4. CASE ~ ResumeStops(units, cur.pos)
  <2>1. cur.pos \in Positions /\ u \in Unit
    <3>1. cur.pos \in Positions
      BY <1>1, <1>2, <1>4, StoreAssumption, SMTT(30) DEF ResumeStops, HdrFits, Positions
    <3> QED
      BY <1>1, <1>2, <3>1
  <2>2. u.len \in 1 .. MaxLen /\ cur.pos + u.len < SectorSize
    <3>1. u.kind = "rec" /\ u.len > 0
      BY <1>4 DEF ResumeStops, HdrOk
    <3>2. u.len \in 0 .. MaxLen
      BY <2>1 DEF Unit
    <3> QED
      BY <1>2, <2>1, <3>1, <3>2, StoreAssumption, SMTT(30) DEF StoreInv
  <2>3. cur' = [cur EXCEPT !.pos = @ + (1 + u.len)] /\ write_off' = write_off /\ pc' = pc
    BY <1>4 DEF Resume, RecSize
  <2>4. /\ cur' \in [sec : 0 .. NSectors, pos : 0 .. SectorSize]
        /\ cur'.sec = cur.sec /\ cur'.pos # 0
    BY <1>1, <2>2, <2>3, CursorStep
  <2>5. TypeOK'
    BY <2>3, <2>4 DEF TypeOK, Resume
  <2>6. StoreInv'
    BY <2>3, <2>4 DEF StoreInv, IndexSound, Resume, UnitAt, EntriesOf
  <2> QED
    BY <2>5, <2>6 DEF IInv
<1> QED
  BY <1>3, <1>4

FlashType == [Sectors -> [seq : Nat, units : [Positions -> Unit]]]

\* A step that erases nothing: sector headers stay, programmed units stay
\* programmed, records stay inside their sector.
Kept ==
  \A s \in Sectors :
    /\ flash'[s].seq = flash[s].seq
    /\ \A p \in Positions :
         /\ flash[s].units[p] # Blank => flash'[s].units[p] # Blank
         /\ flash'[s].units[p].kind = "rec" => p + flash'[s].units[p].len < SectorSize

\* An unchanged flash keeps its records.
LEMMA UnchangedKept ==
  ASSUME IInv, flash' = flash
  PROVE  flash' \in FlashType /\ Kept
  BY DEF IInv, TypeOK, StoreInv, FlashType, Kept

\* Clearing alive marks, whether or not the flash obeys, moves no record.
LEMMA TombstoneKept ==
  ASSUME IInv, NEW es \in SUBSET index, Tombstone(es)
  PROVE  flash' \in FlashType /\ Kept /\ faults' \in 0 .. MaxFaults
<1> SetFacts /\ TypeOK /\ StoreInv
  BY DEF IInv
<1>1. flash \in FlashType /\ faults \in 0 .. MaxFaults
  BY DEF TypeOK, FlashType
<1>2. PICK failed \in SUBSET es :
        /\ faults + Cardinality(failed) <= MaxFaults
        /\ faults' = faults + Cardinality(failed)
        /\ flash' = TombstoneAll(es \ failed)
  BY DEF Tombstone
<1>3. faults' \in 0 .. MaxFaults
  <2>0. IsFiniteSet(index) /\ failed \in SUBSET index
    BY <1>2 DEF StoreInv
  <2>1. IsFiniteSet(failed)
    BY <2>0 DEF SetFacts
  <2>2. Cardinality(failed) \in Nat
    BY <2>1 DEF SetFacts
  <2> QED
    BY <1>1, <1>2, <2>2, StoreAssumption, SMTT(30)
<1>4. flash' \in FlashType /\ Kept
  <2> DEFINE T(s, p) == IF \E e \in es \ failed : e.sec = s /\ e.pos = p
                        THEN [flash[s].units[p] EXCEPT !.alive = FALSE]
                        ELSE flash[s].units[p]
  <2>1. ASSUME NEW s \in Sectors, NEW p \in Positions
        PROVE  /\ T(s, p) \in Unit
               /\ flash[s].units[p] # Blank => T(s, p) # Blank
               /\ T(s, p).kind = flash[s].units[p].kind
               /\ T(s, p).len = flash[s].units[p].len
    <3>1. flash[s].units[p] \in Unit
      BY <1>1 DEF FlashType
    <3> QED
      BY <3>1, UnitUpdates
  <2>2. ASSUME NEW s \in Sectors
        PROVE  /\ flash'[s] = [flash[s] EXCEPT !.units = [p \in Positions |-> T(s, p)]]
               /\ flash'[s].seq = flash[s].seq
               /\ flash'[s].units = [p \in Positions |-> T(s, p)]
    <3>1. flash[s] \in [seq : Nat, units : [Positions -> Unit]]
      BY <1>1 DEF FlashType
    <3>2. flash'[s] = [flash[s] EXCEPT !.units = [p \in Positions |-> T(s, p)]]
      BY <1>2 DEF TombstoneAll
    <3> HIDE DEF T
    <3> QED
      BY <3>1, <3>2
  <2>3. flash' \in FlashType
    <3>1. \A s \in Sectors : [p \in Positions |-> T(s, p)] \in [Positions -> Unit]
      BY <2>1
    <3>2. \A s \in Sectors : flash'[s] \in [seq : Nat, units : [Positions -> Unit]]
      BY <1>1, <2>2, <3>1 DEF FlashType
    <3>3. flash' = [s \in Sectors |-> flash'[s]]
      BY <1>2 DEF TombstoneAll
    <3> QED
      BY <3>2, <3>3 DEF FlashType
  <2>4. Kept
    <3> SUFFICES ASSUME NEW s \in Sectors, NEW p \in Positions
                 PROVE  /\ flash'[s].seq = flash[s].seq
                        /\ flash[s].units[p] # Blank => flash'[s].units[p] # Blank
                        /\ flash'[s].units[p].kind = "rec" =>
                             p + flash'[s].units[p].len < SectorSize
      BY <2>2 DEF Kept
    <3>1. flash'[s].units[p] = T(s, p)
      BY <2>2, ZenonT(30)
    <3>2. flash[s].units[p].kind = "rec" => p + flash[s].units[p].len < SectorSize
      BY DEF StoreInv
    <3>3. /\ flash[s].units[p] # Blank => flash'[s].units[p] # Blank
          /\ flash'[s].units[p].kind = flash[s].units[p].kind
          /\ flash'[s].units[p].len = flash[s].units[p].len
      <4>1. /\ flash[s].units[p] # Blank => T(s, p) # Blank
            /\ T(s, p).kind = flash[s].units[p].kind
            /\ T(s, p).len = flash[s].units[p].len
        BY <2>1
      <4> HIDE DEF T
      <4> QED
        BY <3>1, <4>1
    <3>4. flash'[s].seq = flash[s].seq
      BY <2>2
    <3> QED
      BY <3>2, <3>3, <3>4
  <2> QED
    BY <2>3, <2>4
<1> QED
  BY <1>3, <1>4

\* What the invariant says of the index survives every step that erases
\* nothing and indexes nothing new.
LEMMA KeptIndex ==
  ASSUME IInv, Kept, index' \subseteq index
  PROVE  /\ index' \subseteq Entry
         /\ IndexSound' /\ IsFiniteSet(index')
         /\ Cardinality(index') <= Cardinality(index)
<1> SetFacts /\ TypeOK /\ StoreInv
  BY DEF IInv
<1>1. index \subseteq Entry /\ IndexSound /\ IsFiniteSet(index)
  BY DEF TypeOK, StoreInv
<1>2. IsFiniteSet(index') /\ Cardinality(index') <= Cardinality(index)
  BY <1>1 DEF SetFacts
<1>3. Cardinality(index) \in Nat /\ Cardinality(index') \in Nat
  BY <1>1, <1>2 DEF SetFacts
<1>4. Cardinality(index') <= MaxRecords
  BY <1>1, <1>2, <1>3, StoreAssumption, SMTT(30) DEF IndexSound
<1>5. \A e \in index' : flash'[e.sec].seq # 0 /\ flash'[e.sec].units[e.pos] # Blank
  BY <1>1 DEF IndexSound, Kept, Entry, UnitAt
<1> QED
  BY <1>1, <1>2, <1>4, <1>5 DEF IndexSound, UnitAt

\* Records marked deleted and dropped from the index: bitle_store_put's first
\* step, bitle_store_delete, bitle_store_iterate.
LEMMA ForgetTypes ==
  ASSUME IInv, NEW es \in SUBSET index, Forget(es)
  PROVE  index' \subseteq index /\ gone' \subseteq 0 .. MaxPuts
<1> SetFacts /\ TypeOK /\ StoreInv
  BY DEF IInv
<1>1. flash \in FlashType /\ index \subseteq Entry /\ gone \subseteq 0 .. MaxPuts
  BY DEF TypeOK, FlashType
<1>2. \A e \in index : VerOf(e) \in 0 .. MaxPuts
  BY <1>1, SMTT(30) DEF FlashType, Entry, VerOf, UnitAt, Unit
<1> QED
  BY <1>1, <1>2 DEF Forget

\* bitle_store_put dropping the old record of its key preserves the invariant.
LEMMA PutStartInv ==
  ASSUME NEW k \in Keys, NEW l \in 1 .. MaxLen, NEW x \in Expiries
  PROVE  IInv /\ PutStart(k, l, x) => IInv'
<1> SUFFICES ASSUME IInv, PutStart(k, l, x) PROVE IInv'
  OBVIOUS
<1> SetFacts /\ TypeOK /\ StoreInv
  BY DEF IInv
<1>1. flash' \in FlashType /\ Kept /\ faults' \in 0 .. MaxFaults
  BY TombstoneKept DEF PutStart, EntriesOf
<1>2. index' = index \ EntriesOf(k) /\ gone' \subseteq 0 .. MaxPuts
  BY ForgetTypes DEF PutStart, EntriesOf, Forget
<1>3. index' \subseteq Entry /\ IndexSound' /\ IsFiniteSet(index')
  BY <1>1, <1>2, KeptIndex
<1>4. nputs' \in 0 .. MaxPuts /\ req' \in Request /\ req'.key = k /\ req' # NoReq
  <2>1. nputs + 1 \in 1 .. MaxPuts
    BY StoreAssumption, SMTT(30) DEF TypeOK, PutStart
  <2> QED
    BY <2>1, StoreAssumption, SMTT(30) DEF PutStart, Request, Versions, NoReq
<1>5. TypeOK'
  BY <1>1, <1>2, <1>3, <1>4 DEF TypeOK, FlashType, PutStart
<1>6. {e \in index' : e.key = k} = {}
  BY <1>2 DEF EntriesOf
<1>7. write_off'.pos # 0 => write_off'.sec < NSectors /\ flash'[write_off'.sec].seq # 0
  <2>1. write_off \in [sec : 0 .. NSectors, pos : 0 .. SectorSize - 1]
    BY DEF TypeOK
  <2>2. write_off.sec < NSectors => write_off.sec \in Sectors
    BY <2>1, StoreAssumption, SMTT(30) DEF Sectors
  <2> QED
    BY <1>1, <2>2 DEF StoreInv, Kept, PutStart
<1>8. StoreInv'
  BY <1>1, <1>3, <1>4, <1>6, <1>7 DEF StoreInv, Kept, EntriesOf, PutStart
<1> QED
  BY <1>5, <1>8 DEF IInv

\* Delete and Iterate leave everything but flash, index, gone and faults.
LEMMA ForgetInv ==
  ASSUME IInv, pc = "idle", NEW es \in SUBSET index, NEW ts \in SUBSET index,
         Tombstone(ts), Forget(es),
         UNCHANGED <<write_off, next_seq, head_seq, pc, req, cur, newest, now, ret,
                     nputs, crashes, latest, boots>>
  PROVE  IInv'
<1> SetFacts /\ TypeOK /\ StoreInv
  BY DEF IInv
<1>1. flash' \in FlashType /\ Kept /\ faults' \in 0 .. MaxFaults
  BY TombstoneKept
<1>2. index' \subseteq index /\ gone' \subseteq 0 .. MaxPuts
  BY ForgetTypes
<1>3. index' \subseteq Entry /\ IndexSound' /\ IsFiniteSet(index')
  BY <1>1, <1>2, KeptIndex
<1>5. TypeOK'
  BY <1>1, <1>2, <1>3 DEF TypeOK, FlashType
<1>7. write_off'.pos # 0 => write_off'.sec < NSectors /\ flash'[write_off'.sec].seq # 0
  <2>1. write_off \in [sec : 0 .. NSectors, pos : 0 .. SectorSize - 1]
    BY DEF TypeOK
  <2>2. write_off.sec < NSectors => write_off.sec \in Sectors
    BY <2>1, StoreAssumption, SMTT(30) DEF Sectors
  <2>3. write_off.pos # 0 => write_off.sec < NSectors /\ flash[write_off.sec].seq # 0
    BY DEF StoreInv
  <2> QED
    BY <1>1, <2>2, <2>3 DEF Kept
<1>8. StoreInv'
  <2>1. pc' = "idle" /\ req' = NoReq /\ next_seq' # 0
    BY DEF StoreInv
  <2>2. \A s \in Sectors, p \in Positions :
          flash'[s].units[p].kind = "rec" => p + flash'[s].units[p].len < SectorSize
    BY <1>1 DEF StoreInv, Kept
  <2> QED
    BY <1>3, <1>7, <2>1, <2>2 DEF StoreInv
<1> QED
  BY <1>5, <1>8 DEF IInv

\* bitle_store_delete preserves the invariant.
LEMMA DeleteInv == ASSUME NEW k \in Keys PROVE IInv /\ Delete(k) => IInv'
  BY ForgetInv DEF Delete, EntriesOf

\* bitle_store_iterate dropping expired and unreadable records preserves
\* the invariant.
LEMMA IterateInv ==
  ASSUME NEW seen \in SUBSET index PROVE IInv /\ Iterate(seen) => IInv'
<1> SUFFICES ASSUME IInv, Iterate(seen) PROVE IInv'
  OBVIOUS
<1> DEFINE expired == {e \in seen : Expired(e.exp)}
           unreadable == {e \in seen \ expired : UnitAt(e).kind # "rec"}
<1>1. expired \cup unreadable \in SUBSET index /\ expired \in SUBSET index
  OBVIOUS
<1>2. Tombstone(expired) /\ Forget(expired \cup unreadable) /\ pc = "idle"
      /\ UNCHANGED <<write_off, next_seq, head_seq, pc, req, cur, newest, now, ret,
                     nputs, crashes, latest, boots>>
  BY DEF Iterate
<1> HIDE DEF expired, unreadable
<1> QED
  BY <1>1, <1>2, ForgetInv

\* Erasing a sector whose records leave the index in the same step.
LEMMA ErasedIndex ==
  ASSUME IInv, NEW s \in Sectors, flash' = [flash EXCEPT ![s] = ErasedSector],
         index' = index \ EntriesIn(s)
  PROVE  /\ flash' \in FlashType
         /\ \A t \in Sectors : t # s => flash'[t] = flash[t]
         /\ \A t \in Sectors, p \in Positions :
              flash'[t].units[p].kind = "rec" => p + flash'[t].units[p].len < SectorSize
         /\ index' \subseteq Entry /\ IndexSound' /\ IsFiniteSet(index')
         /\ Cardinality(index') <= Cardinality(index)
<1> SetFacts /\ TypeOK /\ StoreInv
  BY DEF IInv
<1>1. flash \in FlashType /\ index \subseteq Entry /\ IndexSound /\ IsFiniteSet(index)
  BY DEF TypeOK, FlashType, StoreInv
<1>2. ErasedSector \in [seq : Nat, units : [Positions -> Unit]]
  BY UnitTypes DEF ErasedSector
<1>3. /\ flash' \in FlashType
      /\ \A t \in Sectors : t # s => flash'[t] = flash[t]
      /\ flash'[s] = ErasedSector
  BY <1>1, <1>2 DEF FlashType
<1>4. \A p \in Positions : ErasedSector.units[p].kind # "rec"
  BY DEF ErasedSector, Blank
<1>5. \A t \in Sectors, p \in Positions :
        flash'[t].units[p].kind = "rec" => p + flash'[t].units[p].len < SectorSize
  BY <1>3, <1>4, SMTT(30) DEF StoreInv
<1>6. IsFiniteSet(index') /\ Cardinality(index') <= Cardinality(index)
  BY <1>1 DEF SetFacts
<1>7. Cardinality(index) \in Nat /\ Cardinality(index') \in Nat
  BY <1>1, <1>6 DEF SetFacts
<1>8. Cardinality(index') <= MaxRecords
  BY <1>1, <1>6, <1>7, StoreAssumption, SMTT(30) DEF IndexSound
<1>9. \A e \in index' : flash'[e.sec].seq # 0 /\ flash'[e.sec].units[e.pos] # Blank
  BY <1>1, <1>3 DEF IndexSound, Entry, UnitAt, EntriesIn
<1> QED
  BY <1>1, <1>3, <1>5, <1>6, <1>8, <1>9 DEF IndexSound, UnitAt

\* The records of a sector are puts that were made.
LEMMA VersionsInType ==
  ASSUME IInv, NEW s \in Sectors PROVE VersionsIn(s) \subseteq 0 .. MaxPuts
  BY SMTT(30) DEF IInv, TypeOK, VersionsIn, Unit

\* Erasing the oldest sector for the quota preserves the invariant: its
\* entries leave the index with it.
LEMMA ReclaimInv == IInv /\ Reclaim => IInv'
<1> SUFFICES ASSUME IInv, Reclaim PROVE IInv'
  OBVIOUS
<1> SetFacts /\ TypeOK /\ StoreInv
  BY DEF IInv
<1>1. PICK s \in OldestOf(Reclaimable) :
        /\ DropSector(s)
        /\ \/ flash' = [flash EXCEPT ![s] = ErasedSector] /\ UNCHANGED faults
           \/ FaultLeft /\ faults' = faults + 1 /\ UNCHANGED flash
  BY DEF Reclaim
<1>2. s \in Sectors /\ s # write_off.sec
  BY DEF OldestOf, Reclaimable
<1>3. index' = index \ EntriesIn(s) /\ gone' \subseteq 0 .. MaxPuts
  BY <1>1, <1>2, VersionsInType DEF DropSector, TypeOK
<1>4. /\ flash' \in FlashType
      /\ \A t \in Sectors : t # s => flash'[t].seq = flash[t].seq
      /\ \A t \in Sectors, p \in Positions :
           flash'[t].units[p].kind = "rec" => p + flash'[t].units[p].len < SectorSize
      /\ index' \subseteq Entry /\ IndexSound' /\ IsFiniteSet(index')
      /\ faults' \in 0 .. MaxFaults
  <2>1. faults \in 0 .. MaxFaults
    BY DEF TypeOK
  <2>2. CASE flash' = [flash EXCEPT ![s] = ErasedSector] /\ UNCHANGED faults
    BY <1>2, <1>3, <2>1, <2>2, ErasedIndex
  <2>3. CASE FaultLeft /\ faults' = faults + 1 /\ UNCHANGED flash
    <3>1. index' \subseteq index
      BY <1>3
    <3>2. flash' \in FlashType /\ Kept
      BY <2>3, UnchangedKept
    <3>3. faults' \in 0 .. MaxFaults
      BY <2>1, <2>3, StoreAssumption, SMTT(30) DEF FaultLeft
    <3> QED
      BY <3>1, <3>2, <3>3, KeptIndex DEF Kept
  <2> QED
    BY <1>1, <2>2, <2>3
<1>5. TypeOK'
  BY <1>3, <1>4 DEF TypeOK, FlashType, Reclaim
<1>7. write_off'.pos # 0 => write_off'.sec < NSectors /\ flash'[write_off'.sec].seq # 0
  <2>1. write_off \in [sec : 0 .. NSectors, pos : 0 .. SectorSize - 1]
    BY DEF TypeOK
  <2>2. write_off.sec < NSectors => write_off.sec \in Sectors
    BY <2>1, StoreAssumption, SMTT(30) DEF Sectors
  <2> QED
    BY <1>2, <1>4, <2>2 DEF StoreInv, Reclaim
<1>8. StoreInv'
  BY <1>3, <1>4, <1>7 DEF StoreInv, Reclaim, EntriesOf
<1> QED
  BY <1>5, <1>8 DEF IInv

\* Erasing the next sector of the ring preserves the invariant.
LEMMA OpenEraseInv == IInv /\ OpenErase => IInv'
<1> SUFFICES ASSUME IInv, OpenErase PROVE IInv'
  OBVIOUS
<1> SetFacts /\ TypeOK /\ StoreInv
  BY DEF IInv
<1> DEFINE s == cur.sec
<1>1. /\ cur \in [sec : 0 .. NSectors, pos : 0 .. SectorSize]
      /\ write_off \in [sec : 0 .. NSectors, pos : 0 .. SectorSize - 1]
      /\ faults \in 0 .. MaxFaults /\ IndexSound
  BY DEF TypeOK, StoreInv
<1>2. s \in Sectors /\ (write_off.pos # 0 => s # write_off.sec)
  <2>1. pc = "open" /\ StoreInv
    BY DEF OpenErase
  <2>2. cur.sec < NSectors /\ (write_off.pos # 0 => cur.sec # write_off.sec)
    BY <2>1 DEF StoreInv
  <2> QED
    BY <1>1, <2>2, StoreAssumption, SMTT(30) DEF Sectors
<1>3. index' = index \ EntriesIn(s) /\ gone' \subseteq 0 .. MaxPuts
  <2>1. flash[s].seq = 0 => EntriesIn(s) = {}
    BY <1>1 DEF IndexSound, EntriesIn
  <2> QED
    BY <1>2, <2>1, VersionsInType DEF OpenErase, TypeOK
<1>4. index' \subseteq index /\ {e \in index' : e.sec = s} = {}
  BY <1>3 DEF EntriesIn
<1>5. \/ /\ flash' = [flash EXCEPT ![s] = ErasedSector]
         /\ pc' = "sechdr" /\ req' = req /\ ret' = ret /\ faults' = faults
      \/ /\ FaultLeft /\ faults' = faults + 1
         /\ Return("err") /\ flash' = flash
  BY DEF OpenErase
<1>6. /\ flash' \in FlashType
      /\ \A t \in Sectors : t # s => flash'[t].seq = flash[t].seq
      /\ \A t \in Sectors, p \in Positions :
           flash'[t].units[p].kind = "rec" => p + flash'[t].units[p].len < SectorSize
      /\ index' \subseteq Entry /\ IndexSound' /\ IsFiniteSet(index')
      /\ Cardinality(index') <= Cardinality(index)
      /\ faults' \in 0 .. MaxFaults
  <2>2. CASE flash' = [flash EXCEPT ![s] = ErasedSector] /\ faults' = faults
    BY <1>1, <1>2, <1>3, <2>2, ErasedIndex, ZenonT(30)
  <2>3. CASE FaultLeft /\ faults' = faults + 1 /\ flash' = flash
    <3>2. flash' \in FlashType /\ Kept
      BY <2>3, UnchangedKept
    <3>3. faults' \in 0 .. MaxFaults
      BY <1>1, <2>3, StoreAssumption, SMTT(30) DEF FaultLeft
    <3> QED
      BY <1>4, <3>2, <3>3, KeptIndex DEF Kept
  <2> QED
    BY <1>5, <2>2, <2>3
<1>7. TypeOK'
  BY <1>3, <1>5, <1>6 DEF TypeOK, FlashType, OpenErase, Return
<1>8. write_off'.pos # 0 => write_off'.sec < NSectors /\ flash'[write_off'.sec].seq # 0
  <2>2. write_off.sec < NSectors => write_off.sec \in Sectors
    BY <1>1, StoreAssumption, SMTT(30) DEF Sectors
  <2> QED
    BY <1>2, <1>6, <2>2 DEF StoreInv, OpenErase
<1>9. req # NoReq => Cardinality(index') < MaxRecords
  <2>1. Cardinality(index) \in Nat /\ Cardinality(index') \in Nat
    <3>1. IsFiniteSet(index)
      BY DEF StoreInv
    <3> QED
      BY <1>6, <3>1 DEF SetFacts
  <2>2. req # NoReq => Cardinality(index) < MaxRecords
    BY DEF StoreInv, OpenErase
  <2> QED
    BY <1>6, <2>1, <2>2, StoreAssumption, SMTT(30)
<1>10. StoreInv'
  BY <1>4, <1>5, <1>6, <1>8, <1>9
  DEF StoreInv, OpenErase, Return, EntriesOf, EntriesIn
<1> QED
  BY <1>7, <1>10 DEF IInv

\* Writing the header of a fresh sector preserves the invariant.
LEMMA OpenHeaderInv == IInv /\ OpenHeader => IInv'
<1> SUFFICES ASSUME IInv, OpenHeader PROVE IInv'
  OBVIOUS
<1> SetFacts /\ TypeOK /\ StoreInv
  BY DEF IInv
<1> DEFINE s == cur.sec
<1>1. /\ cur \in [sec : 0 .. NSectors, pos : 0 .. SectorSize]
      /\ write_off \in [sec : 0 .. NSectors, pos : 0 .. SectorSize - 1]
      /\ flash \in FlashType
      /\ next_seq \in Nat /\ next_seq # 0
      /\ faults \in 0 .. MaxFaults
      /\ IndexSound /\ index \subseteq Entry
  BY DEF TypeOK, StoreInv, OpenHeader, FlashType
<1>2. s \in Sectors /\ s < NSectors /\ EntriesIn(s) = {}
  BY <1>1, StoreAssumption, SMTT(30) DEF OpenHeader, StoreInv, Sectors
<1>3. CASE /\ flash' = [flash EXCEPT ![s].seq = next_seq]
           /\ write_off' = [sec |-> s, pos |-> 1]
           /\ pc' = IF req = NoReq THEN "idle" ELSE "room"
           /\ UNCHANGED <<req, ret, faults>>
  <2>1. /\ flash' \in FlashType
        /\ flash'[s].seq = next_seq
        /\ \A t \in Sectors : /\ t # s => flash'[t] = flash[t]
                              /\ flash'[t].units = flash[t].units
    BY <1>1, <1>2, <1>3 DEF FlashType
  <2>2. write_off' \in [sec : 0 .. NSectors, pos : 0 .. SectorSize - 1]
    BY <1>1, <1>2, <1>3, StoreAssumption, SMTT(30)
  <2>3. TypeOK'
    <3>1. /\ next_seq' \in Nat /\ head_seq' \in Nat
      BY <1>1, SMTT(30) DEF OpenHeader
    <3>2. UNCHANGED <<index, cur, newest, now, nputs, crashes, hist>>
      BY DEF OpenHeader
    <3>3. pc' \in {"idle", "room"}
      BY <1>3
    <3> QED
      BY <1>3, <2>1, <2>2, <3>1, <3>2, <3>3 DEF TypeOK, FlashType
  <2>4. \A e \in index : flash'[e.sec].seq # 0 /\ flash'[e.sec].units[e.pos] # Blank
    BY <1>1, <1>2, <2>1 DEF IndexSound, EntriesIn, Entry, UnitAt
  <2>5. IndexSound'
    BY <1>1, <2>4 DEF IndexSound, UnitAt, OpenHeader
  <2>6. StoreInv'
    BY <1>1, <1>2, <1>3, <2>1, <2>5, SMTT(30) DEF StoreInv, OpenHeader, EntriesOf
  <2> QED
    BY <2>3, <2>6 DEF IInv
<1>4. CASE FaultLeft /\ faults' = faults + 1 /\ Return("err") /\ UNCHANGED <<flash, write_off>>
  <2>1. faults' \in 0 .. MaxFaults
    BY <1>1, <1>4, StoreAssumption, SMTT(30) DEF FaultLeft
  <2>2. TypeOK'
    BY <1>1, <1>4, <2>1, SMTT(30) DEF TypeOK, OpenHeader, Return
  <2>3. StoreInv'
    BY <1>1, <1>4, SMTT(30) DEF StoreInv, IndexSound, UnitAt, OpenHeader, Return, EntriesOf
  <2> QED
    BY <2>2, <2>3 DEF IInv
<1> QED
  BY <1>3, <1>4 DEF OpenHeader, OpenedHead

\* What the sector of the write head may hold after a write to it.
HeadOk(us) ==
  /\ us \in [Positions -> Unit]
  /\ \A p \in Positions : /\ HeadUnits[p] # Blank => us[p] # Blank
                          /\ us[p].kind = "rec" => p + us[p].len < SectorSize

\* While a record is being written, the write position is inside a started
\* sector and the record fits behind it.
LEMMA HeadTypes ==
  ASSUME IInv, pc \in {"hdr", "payload"}
  PROVE  /\ write_off.sec \in Sectors /\ write_off.pos \in Positions
         /\ req \in Request /\ req.len \in 1 .. MaxLen
         /\ write_off.pos + 1 + req.len <= SectorSize
         /\ HeadOk(HeadUnits) /\ flash[write_off.sec].seq # 0
<1> SetFacts /\ TypeOK /\ StoreInv
  BY DEF IInv
<1>1. /\ flash \in FlashType
      /\ write_off \in [sec : 0 .. NSectors, pos : 0 .. SectorSize - 1]
      /\ Fits /\ req \in Request
  BY DEF TypeOK, FlashType, StoreInv
<1>2. write_off.sec \in Sectors /\ write_off.pos \in Positions
  BY <1>1, StoreAssumption, SMTT(30) DEF Fits, Sectors, Positions
<1>3. HeadUnits \in [Positions -> Unit]
  BY <1>1, <1>2 DEF HeadUnits, FlashType
<1>4. HeadOk(HeadUnits)
  BY <1>2, <1>3 DEF HeadOk, HeadUnits, StoreInv
<1>5. flash[write_off.sec].seq # 0
  BY <1>1 DEF Fits, StoreInv
<1> QED
  BY <1>1, <1>2, <1>4, <1>5 DEF Fits, Request

\* Programming a record header onto erased flash leaves a well-formed sector.
LEMMA HeadHdrOk ==
  ASSUME IInv, pc \in {"hdr", "payload"}, NEW u \in Unit, u # Blank, u.len <= req.len
  PROVE  HeadOk(HeadHdr(u)) /\ HeadHdr(u)[write_off.pos] = u
<1>1. /\ write_off.pos \in Positions /\ req.len \in 1 .. MaxLen
      /\ write_off.pos + 1 + req.len <= SectorSize
      /\ HeadOk(HeadUnits)
  BY HeadTypes
<1>2. u.len \in 0 .. MaxLen
  BY DEF Unit
<1>3. write_off.pos + u.len < SectorSize
  BY <1>1, <1>2, StoreAssumption, SMTT(30) DEF Positions
<1> QED
  BY <1>1, <1>3 DEF HeadHdr, HeadOk

\* So does a record header that a power loss cut short.
LEMMA CutHdrOk ==
  ASSUME IInv, pc = "hdr"
  PROVE  /\ \A us \in CutHdr : HeadOk(us)
         /\ \A u \in ProgramHdr(HeadUnits[write_off.pos], RecHdr(req)) :
              HeadOk(HeadHdr(u)) /\ HeadHdr(u)[write_off.pos] # Blank
<1>1. /\ write_off.pos \in Positions /\ req \in Request /\ req.len \in 1 .. MaxLen
      /\ HeadOk(HeadUnits)
  BY HeadTypes
<1>2. HeadUnits[write_off.pos] \in Unit
  BY <1>1 DEF HeadOk
<1>3. \A u \in ProgramHdr(HeadUnits[write_off.pos], RecHdr(req)) :
        HeadOk(HeadHdr(u)) /\ HeadHdr(u)[write_off.pos] # Blank
  BY <1>1, <1>2, ProgramHdrOutcome, HeadHdrOk
<1>4. HeadOk(HeadHdr(Dirty))
  <2>1. Dirty.len = 0
    BY DEF Dirty, Blank
  <2> QED
    BY <1>1, <2>1, UnitTypes, HeadHdrOk, SMTT(30)
<1> QED
  BY <1>1, <1>3, <1>4 DEF CutHdr

\* So does a payload that a power loss cut short.
LEMMA CutPayloadOk ==
  ASSUME IInv, pc = "payload"
  PROVE  /\ \A us \in CutPayload : HeadOk(us) /\ us[write_off.pos] # Blank
         /\ PayloadOutcomes(HeadUnits, write_off.pos, req.len, req.ver) \subseteq CutPayload
<1> SetFacts /\ TypeOK /\ StoreInv
  BY DEF IInv
<1>1. /\ write_off.pos \in Positions /\ req \in Request /\ req.len \in 1 .. MaxLen
      /\ HeadOk(HeadUnits) /\ HeadUnits[write_off.pos] # Blank
  <2>1. HeadUnits[write_off.pos] # Blank
    BY DEF StoreInv
  <2> QED
    BY <2>1, HeadTypes
<1>2. req.ver \in 0 .. MaxPuts /\ 0 \in 0 .. MaxPuts /\ req.len \in 0 .. MaxLen
  BY <1>1, StoreAssumption, SMTT(30) DEF Request, Versions
<1>3. \A v \in 0 .. MaxPuts :
        LET us == ProgramPayload(HeadUnits, write_off.pos, req.len, v)
        IN  HeadOk(us) /\ us[write_off.pos] # Blank
  <2> SUFFICES ASSUME NEW v \in 0 .. MaxPuts
               PROVE  LET us == ProgramPayload(HeadUnits, write_off.pos, req.len, v)
                      IN  HeadOk(us) /\ us[write_off.pos] # Blank
    OBVIOUS
  <2> DEFINE us == ProgramPayload(HeadUnits, write_off.pos, req.len, v)
  <2>1. HeadUnits \in [Positions -> Unit]
    BY <1>1 DEF HeadOk
  <2>2. /\ us \in [Positions -> Unit] /\ us[write_off.pos] = HeadUnits[write_off.pos]
        /\ \A q \in Positions : /\ HeadUnits[q] # Blank => us[q] # Blank
                                /\ us[q].kind = "rec" => us[q] = HeadUnits[q]
    BY <1>1, <1>2, <2>1, ProgramPayloadOutcome, SMTT(30)
  <2> HIDE DEF us
  <2>3. HeadOk(us) /\ us[write_off.pos] # Blank
    BY <1>1, <2>2 DEF HeadOk
  <2> QED
    BY <2>3 DEF us
<1>4. \A us \in PayloadOutcomes(HeadUnits, write_off.pos, req.len, req.ver) :
        HeadOk(us) /\ us[write_off.pos] # Blank
  BY <1>2, <1>3 DEF PayloadOutcomes
<1> QED
  BY <1>1, <1>2, <1>3, <1>4 DEF CutPayload

\* A write to the sector of the head erases nothing.
LEMMA SetHeadKept ==
  ASSUME IInv, pc \in {"hdr", "payload"}, NEW us, HeadOk(us), SetHead(us)
  PROVE  flash' \in FlashType /\ Kept /\ flash'[write_off.sec].units = us
<1> SetFacts /\ TypeOK /\ StoreInv
  BY DEF IInv
<1>0. flash \in FlashType
  BY DEF TypeOK, FlashType
<1>1. flash \in FlashType /\ write_off.sec \in Sectors
  BY <1>0, HeadTypes
<1>2. us \in [Positions -> Unit]
  BY DEF HeadOk
<1>4. \A p \in Positions : HeadUnits[p] # Blank => us[p] # Blank
  BY DEF HeadOk
<1>5. \A p \in Positions : us[p].kind = "rec" => p + us[p].len < SectorSize
  BY DEF HeadOk
<1>3. /\ flash' \in FlashType
      /\ flash'[write_off.sec].units = us
      /\ flash'[write_off.sec].seq = flash[write_off.sec].seq
      /\ \A s \in Sectors : s # write_off.sec => flash'[s] = flash[s]
  BY <1>1, <1>2 DEF SetHead, FlashType
<1> QED
  BY <1>1, <1>3, <1>4, <1>5 DEF Kept, HeadUnits, StoreInv

\* Programming the record header preserves the invariant.
LEMMA WriteHeaderInv == IInv /\ WriteHeader => IInv'
<1> SUFFICES ASSUME IInv, WriteHeader PROVE IInv'
  OBVIOUS
<1> SetFacts /\ TypeOK /\ StoreInv
  BY DEF IInv
<1>1. pc = "hdr" /\ index' = index /\ write_off' = write_off /\ faults \in 0 .. MaxFaults
  BY DEF WriteHeader, TypeOK
<1>2. write_off.sec \in Sectors /\ flash[write_off.sec].seq # 0 /\ Fits
  BY <1>1, HeadTypes DEF StoreInv
<1>3. CASE /\ \E u \in ProgramHdr(HeadUnits[write_off.pos], RecHdr(req)) : SetHead(HeadHdr(u))
           /\ pc' = "payload" /\ UNCHANGED <<req, ret, faults>>
  <2>1. PICK u \in ProgramHdr(HeadUnits[write_off.pos], RecHdr(req)) : SetHead(HeadHdr(u))
    BY <1>3
  <2>2. HeadOk(HeadHdr(u)) /\ HeadHdr(u)[write_off.pos] # Blank
    BY <1>1, CutHdrOk
  <2>3. flash' \in FlashType /\ Kept /\ flash'[write_off.sec].units[write_off.pos] # Blank
    BY <1>1, <2>1, <2>2, SetHeadKept
  <2>4. IndexSound'
    BY <1>1, <2>3, KeptIndex
  <2>5. TypeOK'
    BY <1>3, <2>3 DEF TypeOK, FlashType, WriteHeader
  <2>6. StoreInv'
    BY <1>1, <1>2, <1>3, <2>3, <2>4
    DEF StoreInv, WriteHeader, Kept, EntriesOf, Fits, HeadUnits
  <2> QED
    BY <2>5, <2>6 DEF IInv
<1>4. CASE FaultLeft /\ faults' = faults + 1 /\ (\E us \in CutHdr : SetHead(us)) /\ Return("err")
  <2>1. PICK us \in CutHdr : SetHead(us)
    BY <1>4
  <2>2. flash' \in FlashType /\ Kept
    BY <1>1, <2>1, CutHdrOk, SetHeadKept
  <2>3. faults' \in 0 .. MaxFaults
    BY <1>1, <1>4, StoreAssumption, SMTT(30) DEF FaultLeft
  <2>4. IndexSound'
    BY <1>1, <2>2, KeptIndex
  <2>5. TypeOK'
    BY <1>4, <2>2, <2>3 DEF TypeOK, FlashType, WriteHeader, Return
  <2>6. StoreInv'
    BY <1>1, <1>2, <1>4, <2>2, <2>4 DEF StoreInv, WriteHeader, Return, Kept, EntriesOf
  <2> QED
    BY <2>5, <2>6 DEF IInv
<1> QED
  BY <1>3, <1>4 DEF WriteHeader

\* Programming the payload and indexing the record preserves the invariant.
LEMMA WritePayloadInv == IInv /\ WritePayload => IInv'
<1> SUFFICES ASSUME IInv, WritePayload PROVE IInv'
  OBVIOUS
<1> SetFacts /\ TypeOK /\ StoreInv
  BY DEF IInv
<1>1. pc = "payload" /\ faults \in 0 .. MaxFaults /\ index \subseteq Entry /\ head_seq \in Nat
      /\ IsFiniteSet(index)
  BY DEF WritePayload, TypeOK, StoreInv
<1>2. /\ write_off.sec \in Sectors /\ write_off.pos \in Positions
      /\ req \in Request /\ req.len \in 1 .. MaxLen
      /\ write_off.pos + 1 + req.len <= SectorSize
      /\ flash[write_off.sec].seq # 0
  BY <1>1, HeadTypes
<1>3. \A us \in CutPayload : SetHead(us) =>
        flash' \in FlashType /\ Kept /\ flash'[write_off.sec].units[write_off.pos] # Blank
  BY <1>1, CutPayloadOk, SetHeadKept
<1>4. CASE /\ \E us \in PayloadOutcomes(HeadUnits, write_off.pos, req.len, req.ver) : SetHead(us)
           /\ write_off' = Off(write_off.sec, write_off.pos + 1 + req.len)
           /\ index' = index \cup {NewEntry}
           /\ latest' = [latest EXCEPT ![req.key] = req]
           /\ Return("ok") /\ UNCHANGED faults
  <2>1. flash' \in FlashType /\ Kept /\ flash'[write_off.sec].units[write_off.pos] # Blank
    BY <1>1, <1>3, <1>4, CutPayloadOk
  <2>2. /\ write_off' \in [sec : 0 .. NSectors, pos : 0 .. SectorSize - 1]
        /\ write_off'.pos # 0 => write_off'.sec = write_off.sec
    BY <1>2, <1>4, StoreAssumption, SMTT(30) DEF Off, Sectors, Positions
  <2>3. NewEntry \in Entry /\ NewEntry.key = req.key
    BY <1>1, <1>2 DEF NewEntry, Entry, Request
  <2>4. req # NoReq /\ EntriesOf(req.key) = {} /\ Cardinality(index) < MaxRecords
    BY <1>1 DEF StoreInv
  <2>5. IsFiniteSet(index') /\ Cardinality(index') <= MaxRecords
    BY <1>1, <1>4, <2>4, AddWithinBudget, ZenonT(30)
  <2>6. \A e, f \in index' : e.key = f.key => e = f
    <3>1. IndexSound
      BY DEF StoreInv
    <3> QED
      BY <1>4, <2>3, <2>4, <3>1 DEF EntriesOf, IndexSound
  <2>7. \A e \in index' : flash'[e.sec].seq # 0 /\ flash'[e.sec].units[e.pos] # Blank
    <3>1. \A e \in index : flash'[e.sec].seq # 0 /\ flash'[e.sec].units[e.pos] # Blank
      BY <1>1, <2>1, ZenonT(30) DEF StoreInv, IndexSound, Entry, UnitAt, Kept
    <3>2. flash'[NewEntry.sec].seq # 0 /\ flash'[NewEntry.sec].units[NewEntry.pos] # Blank
      BY <1>2, <2>1 DEF NewEntry, Kept
    <3> QED
      BY <1>4, <3>1, <3>2
  <2>8. IndexSound'
    BY <2>5, <2>6, <2>7 DEF IndexSound, UnitAt
  <2>9. latest' \in [Keys -> Request \cup {NoReq}]
    BY <1>2, <1>4 DEF TypeOK
  <2>10. TypeOK'
    BY <1>1, <1>4, <2>1, <2>2, <2>3, <2>9, ZenonT(30) DEF TypeOK, FlashType, WritePayload, Return
  <2>11. write_off'.pos # 0 => write_off'.sec < NSectors /\ flash'[write_off'.sec].seq # 0
    BY <1>2, <2>1, <2>2, StoreAssumption, SMTT(30) DEF Kept, Sectors
  <2>12. StoreInv'
    BY <1>1, <1>4, <2>1, <2>5, <2>8, <2>11 DEF StoreInv, WritePayload, Return, Kept
  <2> QED
    BY <2>10, <2>12 DEF IInv
<1>5. CASE FaultLeft /\ faults' = faults + 1 /\ (\E us \in CutPayload : SetHead(us))
           /\ Return("err") /\ UNCHANGED <<write_off, index, latest>>
  <2>1. flash' \in FlashType /\ Kept
    BY <1>3, <1>5
  <2>2. faults' \in 0 .. MaxFaults
    BY <1>1, <1>5, StoreAssumption, SMTT(30) DEF FaultLeft
  <2>3. IndexSound' /\ IsFiniteSet(index')
    BY <1>5, <2>1, KeptIndex
  <2>4. TypeOK'
    BY <1>5, <2>1, <2>2 DEF TypeOK, FlashType, WritePayload, Return
  <2>5. StoreInv'
    BY <1>1, <1>2, <1>5, <2>1, <2>3 DEF StoreInv, WritePayload, Return, Kept
  <2> QED
    BY <2>4, <2>5 DEF IInv
<1> QED
  BY <1>4, <1>5 DEF WritePayload

\* A power loss at any point, in the middle of a write included, preserves
\* the invariant.
LEMMA CrashInv == IInv /\ Crash => IInv'
<1> SUFFICES ASSUME IInv, Crash PROVE IInv'
  OBVIOUS
<1> SetFacts /\ TypeOK /\ StoreInv
  BY DEF IInv
<1>1. flash' \in FlashType /\ Kept
  <2>1. CASE UNCHANGED flash
    BY <2>1, UnchangedKept
  <2>2. CASE pc = "hdr" /\ \E us \in CutHdr : SetHead(us)
    BY <2>2, CutHdrOk, SetHeadKept
  <2>3. CASE pc = "payload" /\ \E us \in CutPayload : SetHead(us)
    BY <2>3, CutPayloadOk, SetHeadKept
  <2> QED
    BY <2>1, <2>2, <2>3 DEF Crash
<1>2. index' = {} /\ IsFiniteSet({}) /\ Cardinality({}) = 0
  BY DEF Crash, SetFacts
<1>3. crashes' \in 0 .. MaxCrashes /\ faults' \in 0 .. MaxFaults
  BY StoreAssumption, SMTT(30) DEF Crash, FaultLeft, TypeOK
<1>4. write_off' \in [sec : 0 .. NSectors, pos : 0 .. SectorSize - 1] /\ write_off'.pos = 0
  BY StoreAssumption, SMTT(30) DEF Crash
<1>5. TypeOK'
  BY <1>1, <1>2, <1>3, <1>4 DEF Crash, TypeOK, FlashType
<1>6. IndexSound'
  BY <1>2, StoreAssumption, SMTT(30) DEF IndexSound
<1>7. StoreInv'
  BY <1>1, <1>2, <1>4, <1>6 DEF Crash, StoreInv, Kept
<1> QED
  BY <1>5, <1>7 DEF IInv

\* Every step preserves the invariant.
LEMMA NextInv == IInv /\ [Next]_vars => IInv'
<1> SUFFICES ASSUME IInv, [Next]_vars PROVE IInv'
  OBVIOUS
<1> SetFacts /\ TypeOK /\ StoreInv
  BY DEF IInv
<1>1. CASE BootStep
  BY <1>1, BootInv, ScanSectorInv, ScanRecordInv, ScanDoneInv, ResumeInv DEF BootStep
<1>2. CASE PutStep
  BY <1>2, ReclaimInv, ReclaimFailsInv, QuotaMetInv, FindRoomInv, OpenEraseInv,
     OpenHeaderInv, WriteHeaderInv, WritePayloadInv DEF PutStep
<1>3. CASE \E k \in Keys, l \in 1 .. MaxLen, x \in Expiries : PutStart(k, l, x)
  BY <1>3, PutStartInv
<1>4. CASE \E k \in Keys : Delete(k)
  BY <1>4, DeleteInv
<1>5. CASE (\E seen \in SUBSET index : Iterate(seen)) \/ Tick \/ Crash
  BY <1>5, IterateInv, TickInv, CrashInv
<1>6. CASE UNCHANGED vars
  <2>1. TypeOK'
    BY <1>6 DEF vars, TypeOK
  <2>2. IndexSound'
    BY <1>6, ZenonT(30) DEF vars, StoreInv, IndexSound, UnitAt
  <2>3. StoreInv'
    BY <1>6, <2>2 DEF vars, StoreInv, EntriesOf, EntriesIn, Fits, HeadUnits
  <2> QED
    BY <2>1, <2>3 DEF IInv
<1> QED
  BY <1>1, <1>2, <1>3, <1>4, <1>5, <1>6 DEF Next

-----------------------------------------------------------------------------
(* The ring.                                                               *)

\* Starting at sector n, the open sectors come in the order they were opened.
Before(n, s, t) == IF (s >= n) = (t >= n) THEN s < t ELSE s >= n
RingFrom(n) ==
  \A s, t \in Sectors :
    flash[s].seq # 0 /\ flash[t].seq # 0 /\ Before(n, s, t) => flash[s].seq < flash[t].seq
After(s) == IF s + 1 >= NSectors THEN 0 ELSE s + 1

\* The boot scan has read the header of sector s.
HeaderRead(s) == s < cur.sec \/ (s = cur.sec /\ cur.pos # 0)

\* The inductive strengthening of RingTakesOldest: the ring starts at the sector
\* opened next, and the boot scan finds the one opened last.
RingState ==
  /\ pc \in {"off", "scan"} => write_off.sec = 0 /\ \E n \in Sectors : RingFrom(n)
  /\ pc = "scan" =>
       /\ newest.base = NoSector => newest.seq = 0
       /\ newest.base # NoSector => newest.seq = flash[newest.base].seq
       /\ \A s \in Sectors : HeaderRead(s) => flash[s].seq <= newest.seq
       /\ cur.sec = NSectors => cur.pos = 0
  /\ pc = "resume" => write_off.pos = 0 /\ RingFrom(After(newest.base))
  /\ pc \notin {"off", "scan", "resume"} => RingFrom(SectorToOpen)
  /\ pc \notin {"off", "scan"} => \A s \in Sectors : flash[s].seq < next_seq
  /\ pc \in {"open", "sechdr"} => cur.sec = SectorToOpen
RingInv == RingState

\* The fields of a unit on flash.
LEMMA UnitFields ==
  ASSUME IInv, NEW s \in Sectors, NEW p \in Positions
  PROVE  /\ flash[s].units[p] \in Unit /\ flash[s].units[p].len \in 0 .. MaxLen
         /\ flash[s].units[p].ver \in 0 .. MaxPuts /\ s \in Nat /\ p \in Nat \ {0}
<1> SetFacts /\ TypeOK /\ StoreInv
  BY DEF IInv
<1>1. flash \in [Sectors -> [seq : Nat, units : [Positions -> Unit]]]
  BY DEF TypeOK
<1>2. flash[s].units[p] \in Unit
  BY <1>1
<1>3. s \in Nat /\ p \in Nat \ {0}
  BY StoreAssumption, SMTT(30) DEF Sectors, Positions
<1> QED
  BY <1>2, <1>3 DEF Unit

\* The sector to open is one of the partition, and the one after the head's.
LEMMA SectorToOpenIs ==
  ASSUME IInv
  PROVE  /\ SectorToOpen \in Sectors
         /\ write_off.pos # 0 => write_off.sec \in Sectors /\ SectorToOpen = After(write_off.sec)
<1> SetFacts /\ TypeOK /\ StoreInv
  BY DEF IInv
<1>1. write_off \in [sec : 0 .. NSectors, pos : 0 .. SectorSize - 1]
  BY DEF TypeOK
<1>2. write_off.pos # 0 => write_off.sec < NSectors
  BY DEF StoreInv
<1> QED
  BY <1>1, <1>2, StoreAssumption, SMTT(30) DEF SectorToOpen, After, Sectors

\* An offset behind a record, in the sector or at its end: the sector opened
\* next is the one after it.
LEMMA OpenAfter ==
  ASSUME NEW s \in Sectors, NEW p \in Nat \ {0}, write_off' = Off(s, p)
  PROVE  SectorToOpen' = After(s)
<1>1. s \in Nat /\ s < NSectors /\ NSectors \in Nat
  BY StoreAssumption, SMTT(30) DEF Sectors
<1>2. CASE p >= SectorSize
  <2>1. write_off'.sec = s + 1 /\ write_off'.pos = 0
    BY <1>2 DEF Off
  <2> QED
    BY <1>1, <2>1 DEF SectorToOpen, After
<1>3. CASE ~ (p >= SectorSize)
  <2>1. write_off'.sec = s /\ write_off'.pos = p
    BY <1>3 DEF Off
  <2> QED
    BY <1>1, <2>1, SMTT(30) DEF SectorToOpen, After
<1> QED
  BY <1>2, <1>3

\* Closing sectors leaves the others in their order.
LEMMA RingShrinks ==
  ASSUME NEW n, RingFrom(n), \A s \in Sectors : flash'[s].seq \in {0, flash[s].seq}
  PROVE  RingFrom(n)'
  BY DEF RingFrom

\* Turning the ring: from the sector after m, m comes last, and the order of the
\* others is that of a ring in which they all come before m.
LEMMA Turned ==
  ASSUME NEW n \in Sectors, NEW m \in Sectors, NEW s \in Sectors, NEW t \in Sectors,
         Before(After(m), s, t)
  PROVE  /\ s # m
         /\ Before(n, s, m) \/ Before(n, m, s)
         /\ Before(n, s, m) /\ Before(n, t, m) => Before(n, s, t)
<1>1. /\ n \in Nat /\ m \in Nat /\ s \in Nat /\ t \in Nat
      /\ n < NSectors /\ m < NSectors /\ s < NSectors /\ t < NSectors /\ NSectors \in Nat
  BY StoreAssumption, SMTT(30) DEF Sectors
<1> QED
  BY <1>1, SMTT(30) DEF Before, After

\* When m is the sector with the highest sequence number, the ring starts behind it.
LEMMA NewestLast ==
  ASSUME NEW n \in Sectors, NEW m \in Sectors, RingFrom(n), flash[m].seq # 0,
         \A s \in Sectors : flash[s].seq \in Nat /\ flash[s].seq <= flash[m].seq
  PROVE  RingFrom(After(m))
<1> SUFFICES ASSUME NEW s \in Sectors, NEW t \in Sectors, flash[s].seq # 0, flash[t].seq # 0,
                    Before(After(m), s, t)
             PROVE  flash[s].seq < flash[t].seq
  BY DEF RingFrom
<1>1. /\ s # m /\ (Before(n, s, m) \/ Before(n, m, s))
      /\ Before(n, s, m) /\ Before(n, t, m) => Before(n, s, t)
  BY Turned
<1>2. ASSUME NEW q \in Sectors, flash[q].seq # 0 PROVE ~ Before(n, m, q)
  BY <1>2, SMTT(30) DEF RingFrom
<1>3. Before(n, s, m) /\ flash[s].seq < flash[m].seq
  BY <1>1, <1>2 DEF RingFrom
<1>4. CASE t = m
  BY <1>3, <1>4
<1>5. CASE t # m
  <2>1. Before(n, t, m) \/ Before(n, m, t)
    BY <1>5, StoreAssumption, SMTT(30) DEF Before, Sectors
  <2> QED
    BY <1>1, <1>2, <1>3, <2>1 DEF RingFrom
<1> QED
  BY <1>4, <1>5

\* The types RingInv speaks of.
LEMMA RingTypes ==
  ASSUME IInv
  PROVE  /\ \A s \in Sectors : flash[s].seq \in Nat /\ s \in Nat /\ s < NSectors
         /\ cur.sec \in 0 .. NSectors /\ cur.pos \in 0 .. SectorSize /\ cur = [sec |-> cur.sec, pos |-> cur.pos]
         /\ newest.seq \in Nat /\ newest.base \in Sectors \cup {NoSector}
         /\ next_seq \in Nat
  BY StoreAssumption, SMTT(30) DEF IInv, TypeOK, Sectors

\* A fresh chip has no sector open.
LEMMA InitRing == Init => RingInv
<1> SUFFICES ASSUME Init PROVE RingInv
  OBVIOUS
<1>1. \A s \in Sectors : flash[s].seq = 0
  BY DEF Init, ErasedSector
<1>2. RingFrom(0) /\ 0 \in Sectors
  BY <1>1, StoreAssumption, SMTT(30) DEF RingFrom, Sectors
<1> QED
  BY <1>2, StoreAssumption, SMTT(30) DEF RingInv, RingState, Init, Off

\* A boot has read nothing yet.
LEMMA BootRing == ASSUME IInv, RingInv, Boot PROVE RingInv'
<1> SUFFICES ASSUME RingState PROVE RingState'
  BY DEF RingInv
<1>1. PICK n \in Sectors : RingFrom(n)
  BY DEF Boot, RingState
<1>2. RingFrom(n)' /\ write_off'.sec = 0 /\ pc' = "scan"
  BY <1>1 DEF Boot, RingState, RingFrom
<1>3. \A s \in Sectors : ~ HeaderRead(s)'
  BY StoreAssumption, SMTT(30) DEF Boot, HeaderRead, Sectors
<1> QED
  BY <1>2, <1>3, StoreAssumption DEF RingState, Boot, NoSector

\* A header read: the newest so far is kept.
LEMMA ScanSectorRing == ASSUME IInv, RingInv, ScanSector PROVE RingInv'
<1> SUFFICES ASSUME RingState PROVE RingState'
  BY DEF RingInv
<1>1. PICK n \in Sectors : RingFrom(n)
  BY DEF ScanSector, RingState
<1>2. RingFrom(n)' /\ write_off'.sec = 0 /\ pc' = "scan" /\ pc = "scan" /\ flash' = flash
  BY <1>1 DEF ScanSector, RingState, RingFrom
<1>3. cur.sec \in Sectors /\ cur.sec # NoSector /\ cur.pos = 0
  BY RingTypes, StoreAssumption, SMTT(30) DEF ScanSector, Sectors, NoSector
<1>4. \A s \in Sectors : HeaderRead(s)' <=> HeaderRead(s) \/ s = cur.sec
  BY <1>3, RingTypes, StoreAssumption, SMTT(30) DEF ScanSector, NextSector, HeaderRead
<1>5. \A s \in Sectors : HeaderRead(s)' => flash'[s].seq <= newest'.seq
  BY <1>2, <1>3, <1>4, RingTypes, SMTT(30) DEF ScanSector, RingState
<1>6. /\ newest'.base = NoSector => newest'.seq = 0
      /\ newest'.base # NoSector => newest'.seq = flash'[newest'.base].seq
  BY <1>2, <1>3 DEF ScanSector, RingState
<1>7. cur'.sec = NSectors => cur'.pos = 0
  BY <1>3, RingTypes, StoreAssumption, SMTT(30) DEF ScanSector, NextSector, Sectors
<1> QED
  BY <1>2, <1>5, <1>6, <1>7 DEF RingState

\* The records of a sector do not matter to the ring.
LEMMA ScanRecordRing == ASSUME IInv, RingInv, ScanRecord PROVE RingInv'
<1> SetFacts /\ TypeOK /\ StoreInv
  BY DEF IInv
<1> SUFFICES ASSUME RingState PROVE RingState'
  BY DEF RingInv
<1>1. PICK n \in Sectors : RingFrom(n)
  BY DEF ScanRecord, RingState
<1>u. /\ pc = "scan" /\ UNCHANGED <<flash, pc, write_off, newest>> /\ cur.pos > 0 /\ cur.sec < NSectors
      /\ \/ cur' = NextSector
         \/ HdrFits(cur.pos) /\ cur' = [cur EXCEPT !.pos = @ + RecSize(flash[cur.sec].units[cur.pos])]
  BY DEF ScanRecord, WalkStops
<1>2. RingFrom(n)' /\ write_off'.sec = 0
  BY <1>1, <1>u DEF RingState, RingFrom
<1>4. cur'.sec = cur.sec => cur'.pos # 0
  <2>1. \/ cur'.sec = cur.sec + 1
        \/ HdrFits(cur.pos) /\ cur'.pos = cur.pos + RecSize(flash[cur.sec].units[cur.pos])
    BY <1>u, RingTypes, SMTT(30) DEF NextSector
  <2>2. ASSUME HdrFits(cur.pos) PROVE flash[cur.sec].units[cur.pos].len \in Nat
    <3>1. cur.sec \in Sectors /\ cur.pos \in Positions
      BY <1>u, <2>2, RingTypes, StoreAssumption, SMTT(30) DEF HdrFits, Sectors, Positions
    <3>2. flash[cur.sec].units[cur.pos] \in Unit
      BY <3>1, SMTT(30) DEF TypeOK
    <3> QED
      BY <3>2, SMTT(30) DEF Unit
  <2> QED
    BY <1>u, <2>1, <2>2, RingTypes, SMTT(30) DEF RecSize
<1>5. \A s \in Sectors : HeaderRead(s)' <=> HeaderRead(s)
  BY <1>u, <1>4, RingTypes, StoreAssumption, SMTT(30) DEF NextSector, HeaderRead
<1>7. cur'.sec = NSectors => cur'.pos = 0
  BY <1>u, RingTypes, StoreAssumption, SMTT(30) DEF NextSector
<1> QED
  BY <1>u, <1>1, <1>2, <1>5, <1>7 DEF RingState

\* The end of the scan: the newest sector is the last of the ring.
LEMMA ScanDoneRing == ASSUME IInv, RingInv, ScanDone PROVE RingInv'
<1> SetFacts /\ TypeOK /\ StoreInv
  BY DEF IInv
<1> SUFFICES ASSUME RingState PROVE RingState'
  BY DEF RingInv
<1>1. PICK n \in Sectors : RingFrom(n)
  BY DEF ScanDone, RingState
<1>u. /\ pc = "scan" /\ UNCHANGED <<flash, write_off, newest>> /\ next_seq' = newest.seq + 1
      /\ cur.sec = NSectors /\ write_off.sec = 0 /\ write_off.pos = 0
  BY DEF ScanDone, StoreInv, RingState
<1>2. \A s \in Sectors : flash[s].seq <= newest.seq
  BY <1>u, RingTypes DEF HeaderRead, RingState
<1>3. \A s \in Sectors : flash'[s].seq < next_seq'
  BY <1>u, <1>2, RingTypes, SMTT(30)
<1>4. CASE newest.base = NoSector
  <2>1. pc' = "open" /\ cur' = [sec |-> 0, pos |-> 0] /\ newest.seq = 0
    BY <1>4, <1>u DEF ScanDone, RingState
  <2>2. \A s \in Sectors : flash[s].seq = 0
    BY <1>2, <2>1, RingTypes, SMTT(30)
  <2>3. SectorToOpen' = 0
    BY <1>u, StoreAssumption DEF SectorToOpen
  <2>4. RingFrom(SectorToOpen)'
    BY <1>u, <2>2 DEF RingFrom
  <2> QED
    BY <1>3, <2>1, <2>3, <2>4 DEF RingState
<1>5. CASE newest.base # NoSector
  <2>1. pc' = "resume" /\ newest.base \in Sectors /\ flash[newest.base].seq = newest.seq
    BY <1>5, <1>u, RingTypes DEF ScanDone, RingState
  <2>2. flash[newest.base].seq # 0
    BY <1>5, <1>u DEF StoreInv
  <2>3. RingFrom(After(newest.base))
    BY <1>1, <1>2, <2>1, <2>2, NewestLast, RingTypes
  <2>4. RingFrom(After(newest.base))'
    BY <1>u, <2>3 DEF RingFrom, After
  <2> QED
    BY <1>u, <1>3, <2>1, <2>4 DEF RingState
<1> QED
  BY <1>4, <1>5

\* Resuming behind the last record of the newest sector: the next one follows it.
LEMMA ResumeRing == ASSUME IInv, RingInv, Resume PROVE RingInv'
<1> SetFacts /\ TypeOK /\ StoreInv
  BY DEF IInv
<1> SUFFICES ASSUME RingState PROVE RingState'
  BY DEF RingInv
<1>u. /\ pc = "resume" /\ UNCHANGED <<flash, newest, next_seq>>
      /\ cur.sec = newest.base /\ newest.base \in Sectors /\ cur.pos \in Nat \ {0}
      /\ write_off.pos = 0 /\ RingFrom(After(newest.base))
  BY RingTypes, StoreAssumption, SMTT(30) DEF Resume, StoreInv, RingState
<1>1. \A s \in Sectors : flash'[s].seq < next_seq'
  BY <1>u DEF RingState
<1>2. PICK n : n = After(newest.base)
  OBVIOUS
<1>3. RingFrom(n)' /\ After(newest.base)' = n
  BY <1>u, <1>2 DEF RingFrom, After
<1>4. CASE ResumeStops(flash[cur.sec].units, cur.pos)
  <2>1. pc' = "idle" /\ write_off' = Off(cur.sec, cur.pos)
    BY <1>4 DEF Resume
  <2>2. SectorToOpen' = n
    BY <1>u, <1>2, <2>1, OpenAfter
  <2> QED
    BY <1>1, <1>3, <2>1, <2>2 DEF RingState
<1>5. CASE ~ ResumeStops(flash[cur.sec].units, cur.pos)
  <2>1. pc' = "resume" /\ UNCHANGED write_off
    BY <1>u, <1>5 DEF Resume
  <2> QED
    BY <1>u, <1>1, <1>3, <2>1 DEF RingState
<1> QED
  BY <1>4, <1>5

\* Steps of a call that open and close nothing and leave the head where it is.
LEMMA SameRing ==
  ASSUME IInv, RingInv, pc \notin {"off", "scan", "resume"}, pc' \notin {"off", "scan", "resume"},
         \A s \in Sectors : flash'[s].seq \in {0, flash[s].seq},
         UNCHANGED <<write_off, next_seq>>,
         pc' \in {"open", "sechdr"} => cur'.sec = SectorToOpen
  PROVE  RingInv'
<1> SetFacts /\ TypeOK /\ StoreInv
  BY DEF IInv
<1> SUFFICES ASSUME RingState PROVE RingState'
  BY DEF RingInv
<1>1. PICK n : n = SectorToOpen
  OBVIOUS
<1>2. SectorToOpen' = n
  BY <1>1 DEF SectorToOpen
<1>3. RingFrom(n)'
  BY <1>1, RingShrinks DEF RingState
<1>4. \A s \in Sectors : flash'[s].seq < next_seq'
  BY RingTypes, SMTT(30) DEF RingState, StoreInv
<1> QED
  BY <1>1, <1>2, <1>3, <1>4 DEF RingState

\* The steps of a put that only look: the ring stays.
LEMMA WaitRing ==
  ASSUME IInv, RingInv, QuotaMet \/ FindRoom \/ ReclaimFails \/ Tick
  PROVE  RingInv'
<1>1. /\ pc \notin {"off", "scan", "resume"} /\ pc' \notin {"off", "scan", "resume"}
      /\ pc' \in {"open", "sechdr"} => cur'.sec = SectorToOpen
  BY SMTT(30) DEF QuotaMet, FindRoom, ReclaimFails, Tick, Return
<1>2. flash' = flash /\ UNCHANGED <<write_off, next_seq>>
  BY DEF QuotaMet, FindRoom, ReclaimFails, Tick
<1>3. \A s \in Sectors : flash'[s].seq \in {0, flash[s].seq}
  BY <1>2
<1> QED
  BY <1>1, <1>2, <1>3, SameRing

\* Tombstones leave the sector headers alone.
LEMMA CallRing ==
  ASSUME IInv, RingInv, pc = "idle", pc' \in {"idle", "quota"},
         NEW es \in SUBSET index, Tombstone(es), UNCHANGED <<write_off, next_seq>>
  PROVE  RingInv'
<1>1. Kept
  BY TombstoneKept
<1>2. \A s \in Sectors : flash'[s].seq \in {0, flash[s].seq}
  BY <1>1 DEF Kept
<1> QED
  BY <1>2, SameRing

\* So the three calls that tombstone keep the ring.
LEMMA PutStartRing ==
  ASSUME IInv, RingInv, NEW k \in Keys, NEW l \in 1 .. MaxLen, NEW x \in Expiries, PutStart(k, l, x)
  PROVE  RingInv'
<1>1. EntriesOf(k) \in SUBSET index
  BY DEF EntriesOf
<1> QED
  BY <1>1, CallRing DEF PutStart

LEMMA DeleteRing == ASSUME IInv, RingInv, NEW k \in Keys, Delete(k) PROVE RingInv'
<1>1. EntriesOf(k) \in SUBSET index
  BY DEF EntriesOf
<1> QED
  BY <1>1, CallRing DEF Delete

LEMMA IterateRing == ASSUME IInv, RingInv, NEW seen \in SUBSET index, Iterate(seen) PROVE RingInv'
<1>1. {e \in seen : Expired(e.exp)} \in SUBSET index
  OBVIOUS
<1> QED
  BY <1>1, CallRing DEF Iterate

\* Erasing a sector closes it, and moves no other.
LEMMA EraseRing == ASSUME IInv, RingInv, Reclaim \/ OpenErase PROVE RingInv'
<1> SetFacts /\ TypeOK /\ StoreInv
  BY DEF IInv
<1> SUFFICES ASSUME RingState PROVE RingState'
  BY DEF RingInv
<1>1. \A s \in Sectors : flash'[s].seq \in {0, flash[s].seq}
  <2>1. CASE flash' = flash
    BY <2>1
  <2>2. ASSUME NEW t, flash' = [flash EXCEPT ![t] = ErasedSector]
        PROVE  \A s \in Sectors : flash'[s].seq \in {0, flash[s].seq}
    BY <2>2 DEF ErasedSector, TypeOK
  <2> QED
    BY <2>1, <2>2 DEF Reclaim, OpenErase
<1>2. /\ pc \notin {"off", "scan", "resume"} /\ pc' \notin {"off", "scan", "resume"}
      /\ UNCHANGED <<write_off, next_seq>>
      /\ pc' \in {"open", "sechdr"} => pc = "open" /\ cur' = cur
  BY DEF Reclaim, OpenErase, Return
<1>3. pc' \in {"open", "sechdr"} => cur'.sec = SectorToOpen
  BY <1>2, SMTT(30) DEF RingState
<1>4. RingInv'
  BY <1>1, <1>2, <1>3, SameRing
<1> QED
  BY <1>4 DEF RingInv

\* Opening the sector the ring starts at gives it the highest sequence number:
\* the ring now starts behind it.
LEMMA OpenHeaderRing == ASSUME IInv, RingInv, OpenHeader PROVE RingInv'
<1> SetFacts /\ TypeOK /\ StoreInv
  BY DEF IInv
<1> SUFFICES ASSUME RingState PROVE RingState'
  BY DEF RingInv
<1>u. /\ pc = "sechdr" /\ next_seq' = next_seq + 1 /\ cur.sec = SectorToOpen /\ next_seq # 0
      /\ RingFrom(SectorToOpen) /\ \A s \in Sectors : flash[s].seq < next_seq
  BY DEF OpenHeader, RingState, StoreInv
<1>t. cur.sec \in Sectors
  BY <1>u, SectorToOpenIs
<1>1. CASE flash' = [flash EXCEPT ![cur.sec].seq = next_seq] /\ write_off' = OpenedHead
  <2>1. /\ flash'[cur.sec].seq = next_seq
        /\ \A s \in Sectors : s # cur.sec => flash'[s].seq = flash[s].seq
    BY <1>1, <1>t DEF TypeOK
  <2>2. PICK x : x = cur.sec
    OBVIOUS
  <2>3. SectorToOpen' = After(x)
    <3>1. write_off'.sec = x /\ write_off'.pos = 1
      BY <1>1, <2>2 DEF OpenedHead
    <3> QED
      BY <1>t, <2>2, <3>1, StoreAssumption, SMTT(30) DEF SectorToOpen, After, Sectors
  <2>4. RingFrom(After(x))'
    <3> SUFFICES ASSUME NEW s \in Sectors, NEW t \in Sectors, flash'[s].seq # 0, flash'[t].seq # 0,
                        Before(After(x), s, t)
                 PROVE  flash'[s].seq < flash'[t].seq
      BY DEF RingFrom, Before, After
    <3>1. /\ s # x /\ (Before(x, s, x) \/ Before(x, x, s))
          /\ Before(x, s, x) /\ Before(x, t, x) => Before(x, s, t)
      BY <1>t, <2>2, Turned
    <3>2. t # x => Before(x, s, t)
      BY <1>t, <2>2, <3>1, StoreAssumption, SMTT(30) DEF Before, After, Sectors
    <3>3. CASE t = x
      BY <1>u, <2>1, <2>2, <3>1, <3>3
    <3>4. CASE t # x
      BY <1>u, <2>1, <2>2, <3>1, <3>2, <3>4 DEF RingFrom
    <3> QED
      BY <3>3, <3>4
  <2>5. \A s \in Sectors : flash'[s].seq < next_seq'
    BY <1>u, <2>1, RingTypes, SMTT(30)
  <2>6. pc' \in {"idle", "room"}
    BY <1>1 DEF OpenHeader, Return
  <2> QED
    BY <2>3, <2>4, <2>5, <2>6 DEF RingState
<1>2. CASE UNCHANGED <<flash, write_off>> /\ pc' = "idle"
  <2>1. PICK n : n = SectorToOpen
    OBVIOUS
  <2>2. SectorToOpen' = n
    BY <1>2, <2>1 DEF SectorToOpen
  <2>3. RingFrom(n)'
    BY <1>2, <1>u, <2>1 DEF RingFrom
  <2>4. \A s \in Sectors : flash'[s].seq < next_seq'
    BY <1>2, <1>u, RingTypes, SMTT(30)
  <2> QED
    BY <1>2, <2>2, <2>3, <2>4 DEF RingState
<1> QED
  BY <1>1, <1>2 DEF OpenHeader, Return

\* Programming a record leaves the sector headers alone.
LEMMA HeadRing ==
  ASSUME IInv, pc \in {"hdr", "payload"}, NEW us, SetHead(us)
  PROVE  \A s \in Sectors : flash'[s].seq = flash[s].seq
<1> SetFacts /\ TypeOK /\ StoreInv
  BY DEF IInv
<1>1. write_off.sec \in Sectors /\ flash \in FlashType
  BY HeadTypes DEF TypeOK, FlashType
<1> QED
  BY <1>1 DEF SetHead, FlashType

\* The header of a record: the head stays.
LEMMA WriteHeaderRing == ASSUME IInv, RingInv, WriteHeader PROVE RingInv'
<1>1. PICK us : SetHead(us)
  BY DEF WriteHeader
<1>2. pc = "hdr" /\ pc' \in {"payload", "idle"} /\ UNCHANGED <<write_off, next_seq>>
  BY DEF WriteHeader, Return
<1>3. \A s \in Sectors : flash'[s].seq \in {0, flash[s].seq}
  BY <1>1, <1>2, HeadRing
<1> QED
  BY <1>2, <1>3, SameRing

\* Its payload: the head moves on behind the record, or to the sector's end.
LEMMA WritePayloadRing == ASSUME IInv, RingInv, WritePayload PROVE RingInv'
<1> SUFFICES ASSUME RingState PROVE RingState'
  BY DEF RingInv
<1>1. PICK us : SetHead(us)
  BY DEF WritePayload
<1>2. pc = "payload" /\ pc' = "idle" /\ UNCHANGED next_seq
  BY DEF WritePayload, Return
<1>3. \A s \in Sectors : flash'[s].seq = flash[s].seq
  BY <1>1, <1>2, HeadRing
<1>4. CASE UNCHANGED write_off
  <2>1. RingInv'
    BY <1>2, <1>3, <1>4, SameRing, SMTT(30)
  <2> QED
    BY <2>1 DEF RingInv
<1>5. CASE write_off' = Off(write_off.sec, write_off.pos + 1 + req.len)
  <2>1. /\ write_off.sec \in Sectors /\ write_off.pos \in Nat \ {0}
        /\ write_off.pos + 1 + req.len \in Nat \ {0}
    BY <1>2, HeadTypes, StoreAssumption, SMTT(30) DEF Positions
  <2>2. PICK n : n = After(write_off.sec)
    OBVIOUS
  <2>3. n = SectorToOpen
    BY <2>1, <2>2, SectorToOpenIs
  <2>4. SectorToOpen' = n
    BY <1>5, <2>1, <2>2, OpenAfter
  <2>5. RingFrom(n)'
    BY <1>2, <1>3, <2>3 DEF RingFrom, RingState
  <2>6. \A s \in Sectors : flash'[s].seq < next_seq'
    BY <1>2, <1>3 DEF RingState
  <2> QED
    BY <1>2, <2>4, <2>5, <2>6 DEF RingState
<1> QED
  BY <1>4, <1>5 DEF WritePayload

\* A power loss leaves the sector headers alone.
LEMMA CrashRing == ASSUME IInv, RingInv, Crash PROVE RingInv'
<1> SetFacts /\ TypeOK /\ StoreInv
  BY DEF IInv
<1> SUFFICES ASSUME RingState PROVE RingState'
  BY DEF RingInv
<1>1. \A s \in Sectors : flash'[s].seq = flash[s].seq
  <2>1. CASE flash' = flash
    BY <2>1
  <2>2. CASE \E us : pc \in {"hdr", "payload"} /\ SetHead(us)
    BY <2>2, HeadRing
  <2> QED
    BY <2>1, <2>2, SMTT(30) DEF Crash
<1>2. \E n \in Sectors : RingFrom(n)
  <2>1. CASE pc = "resume"
    <3>1. After(newest.base) \in Sectors
      BY <2>1, RingTypes, StoreAssumption, SMTT(30) DEF After, Sectors, StoreInv
    <3> QED
      BY <2>1, <3>1 DEF RingState
  <2>2. CASE pc \in {"off", "scan"}
    BY <2>2 DEF RingState
  <2>3. CASE pc \notin {"off", "scan", "resume"}
    BY <2>3, SectorToOpenIs DEF RingState
  <2> QED
    BY <2>1, <2>2, <2>3
<1>3. PICK n \in Sectors : RingFrom(n)
  BY <1>2
<1>4. RingFrom(n)'
  BY <1>1, <1>3 DEF RingFrom
<1> QED
  BY <1>4 DEF RingState, Crash

\* A step in which nothing happens.
LEMMA StutterRing == ASSUME RingInv, UNCHANGED vars PROVE RingInv'
<1> SUFFICES ASSUME RingState PROVE RingState'
  BY DEF RingInv
<1>v. /\ flash' = flash /\ write_off' = write_off /\ next_seq' = next_seq
      /\ pc' = pc /\ cur' = cur /\ newest' = newest
  BY DEF vars
<1>1. \A n : RingFrom(n)' <=> RingFrom(n)
  BY <1>v DEF RingFrom
<1>2. /\ SectorToOpen' = SectorToOpen
      /\ \A s : HeaderRead(s)' <=> HeaderRead(s)
  BY <1>v DEF SectorToOpen, HeaderRead
<1>3. pc \in {"off", "scan"} => write_off'.sec = 0 /\ \E n \in Sectors : RingFrom(n)'
  BY <1>v, <1>1 DEF RingState
<1>4. pc = "resume" => write_off'.pos = 0 /\ RingFrom(After(newest.base))'
  BY <1>v DEF RingState, RingFrom, After
<1>5. pc \notin {"off", "scan", "resume"} => RingFrom(SectorToOpen)'
  BY <1>v, <1>2 DEF RingState, RingFrom
<1> QED
  BY <1>v, <1>2, <1>3, <1>4, <1>5 DEF RingState

\* Every step keeps the order of the ring.
LEMMA NextRing == ASSUME IInv, RingInv, [Next]_vars PROVE RingInv'
<1>1. CASE BootStep
  BY <1>1, BootRing, ScanSectorRing, ScanRecordRing, ScanDoneRing, ResumeRing DEF BootStep
<1>2. CASE PutStep
  BY <1>2, EraseRing, WaitRing, OpenHeaderRing, WriteHeaderRing, WritePayloadRing DEF PutStep
<1>3. CASE \E k \in Keys, l \in 1 .. MaxLen, x \in Expiries : PutStart(k, l, x)
  BY <1>3, PutStartRing
<1>4. CASE (\E k \in Keys : Delete(k)) \/ (\E seen \in SUBSET index : Iterate(seen))
  BY <1>4, DeleteRing, IterateRing
<1>5. CASE Tick \/ Crash
  BY <1>5, WaitRing, CrashRing
<1>6. CASE UNCHANGED vars
  BY <1>6, StutterRing
<1> QED
  BY <1>1, <1>2, <1>3, <1>4, <1>5, <1>6 DEF Next

\* The state invariant and the order of the ring together.
TurnInv == IInv /\ RingInv

\* They hold of a fresh chip, and every step keeps them.
LEMMA InitTurn == SetFacts /\ Init => TurnInv
  BY InitInv, InitRing DEF TurnInv

LEMMA NextTurn == TurnInv /\ [Next]_vars => TurnInv'
  BY NextInv, NextRing DEF TurnInv
=============================================================================
