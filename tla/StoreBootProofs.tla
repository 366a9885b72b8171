--------------------------- MODULE StoreBootProofs ----------------------------
(***************************************************************************)
(* Proofs about the calls of bitle_store.c: each comes to its end, and the *)
(* boot scan, the deletions and the index keep every record.               *)
(***************************************************************************)
EXTENDS BitleStoreProofs

USE ZenonT(30)
USE DEF ram, bounds, hist, boots

-----------------------------------------------------------------------------
(* Calls end.                                                              *)

StepsLeftIs ==
  /\ pc = "scan" => StepsLeft = SectorSize + 8 + (NSectors - cur.sec) * (SectorSize + 1) - cur.pos
  /\ pc = "resume" => StepsLeft = SectorSize + 1 - cur.pos
  /\ pc = "quota" => StepsLeft = 7 + (MaxFaults - faults) * (NSectors + 1)
                                    + Cardinality({s \in Sectors : flash[s].seq # 0})
  /\ pc = "room" => StepsLeft = IF Fits THEN 3 ELSE 6
  /\ pc = "open" => StepsLeft = 5
  /\ pc = "sechdr" => StepsLeft = 4
  /\ pc = "hdr" => StepsLeft = 2
  /\ pc = "payload" => StepsLeft = 1

\* The bound by the step the call is at, in this state and the next.
LEMMA StepsLeftHere == StepsLeftIs
<1>1. pc = "scan" => StepsLeft = SectorSize + 8 + (NSectors - cur.sec) * (SectorSize + 1) - cur.pos
  BY DEF StepsLeft
<1>2. pc = "resume" => StepsLeft = SectorSize + 1 - cur.pos
  BY DEF StepsLeft
<1>3. pc = "quota" => StepsLeft = 7 + (MaxFaults - faults) * (NSectors + 1)
                                    + Cardinality({s \in Sectors : flash[s].seq # 0})
  BY DEF StepsLeft
<1>4. pc = "room" => StepsLeft = IF Fits THEN 3 ELSE 6
  BY DEF StepsLeft
<1>5. /\ pc = "open" => StepsLeft = 5
      /\ pc = "sechdr" => StepsLeft = 4
      /\ pc = "hdr" => StepsLeft = 2
      /\ pc = "payload" => StepsLeft = 1
  BY DEF StepsLeft
<1> QED
  BY <1>1, <1>2, <1>3, <1>4, <1>5 DEF StepsLeftIs

LEMMA StepsLeftNext == StepsLeftIs'
  BY StepsLeftHere, PTL

\* One row fewer.
LEMMA OneLess ==
  ASSUME NEW n \in Int, NEW a \in Int, NEW b \in Int
  PROVE  /\ n * b \in Int /\ (n - a) * b \in Int
         /\ (n - (a + 1)) * b = (n - a) * b - b
  BY SMTT(30)

\* The boot scan: from header to header and from record to record.
LEMMA ScanEnds ==
  ASSUME IInv, RingInv, ScanSector \/ ScanRecord \/ ScanDone
  PROVE  StepsLeft' < StepsLeft
<1> RingState
  BY DEF RingInv
<1>s. pc = "scan"
  BY DEF ScanSector, ScanRecord, ScanDone
<1>0. /\ pc = "scan" /\ NSectors \in Int /\ SectorSize + 1 \in Int /\ SectorSize \in Nat
      /\ cur.sec \in Int /\ cur.pos \in 0 .. SectorSize
  BY <1>s, RingTypes, StoreAssumption, SMTT(30)
<1>1. PICK rows : rows = (NSectors - cur.sec) * (SectorSize + 1)
  OBVIOUS
<1>2. rows \in Int /\ (NSectors - (cur.sec + 1)) * (SectorSize + 1) = rows - (SectorSize + 1)
  BY <1>0, <1>1, OneLess, SMTT(30)
<1>3. StepsLeft = SectorSize + 8 + rows - cur.pos
  BY <1>0, <1>1, StepsLeftHere DEF StepsLeftIs
<1>4. CASE pc' = "scan" /\ cur' = NextSector
  <2>1. StepsLeft' = SectorSize + 8 + (NSectors - (cur.sec + 1)) * (SectorSize + 1) - 0
    BY <1>4, StepsLeftNext DEF StepsLeftIs, NextSector
  <2> QED
    BY <1>0, <1>2, <1>3, <2>1, SMTT(30)
<1>5. ASSUME pc' = "scan", cur'.sec = cur.sec, cur'.pos \in Nat, cur'.pos > cur.pos
      PROVE  StepsLeft' < StepsLeft
  <2>1. StepsLeft' = SectorSize + 8 + rows - cur'.pos
    BY <1>1, <1>5, StepsLeftNext DEF StepsLeftIs
  <2> QED
    BY <1>0, <1>2, <1>3, <1>5, <2>1, SMTT(30)
<1>6. CASE ScanSector
  <2>1. pc' = "scan" /\ cur.pos = 0 /\ (cur' = NextSector \/ cur' = [cur EXCEPT !.pos = 1])
    BY <1>0, <1>6 DEF ScanSector
  <2>2. cur' = [cur EXCEPT !.pos = 1] => cur'.sec = cur.sec /\ cur'.pos = 1
    BY RingTypes
  <2> QED
    BY <1>4, <1>5, <2>1, <2>2, SMTT(30)
<1>7. CASE ScanRecord
  <2>1. /\ pc' = "scan" /\ cur.sec < NSectors /\ cur.pos > 0
        /\ \/ cur' = NextSector
           \/ HdrFits(cur.pos) /\ cur' = [cur EXCEPT !.pos = @ + RecSize(flash[cur.sec].units[cur.pos])]
    BY <1>7 DEF ScanRecord, WalkStops
  <2>2. ASSUME HdrFits(cur.pos), cur' = [cur EXCEPT !.pos = @ + RecSize(flash[cur.sec].units[cur.pos])]
        PROVE  cur'.sec = cur.sec /\ cur'.pos \in Nat /\ cur'.pos > cur.pos
    <3>1. cur.sec \in Sectors /\ cur.pos \in Positions
      BY <2>1, <2>2, RingTypes, StoreAssumption, SMTT(30) DEF HdrFits, Sectors, Positions
    <3>2. flash[cur.sec].units[cur.pos].len \in Nat
      BY <3>1, UnitFields, SMTT(30)
    <3>3. cur'.sec = cur.sec /\ cur'.pos = cur.pos + RecSize(flash[cur.sec].units[cur.pos])
      BY <2>2, RingTypes
    <3> QED
      BY <1>0, <3>2, <3>3, SMTT(30) DEF RecSize
  <2> QED
    BY <1>4, <1>5, <2>1, <2>2
<1>8. CASE ScanDone
  <2>1. cur.sec = NSectors /\ cur.pos = 0
    BY <1>8 DEF ScanDone, RingState
  <2>2. rows = 0
    BY <1>0, <1>1, <2>1, SMTT(30)
  <2>3. \/ pc' = "open"
        \/ pc' = "resume" /\ cur'.pos = 1
    BY <1>8, SMTT(30) DEF ScanDone
  <2>4. StepsLeft' \in {5, SectorSize + 1 - 1}
    BY <2>3, StepsLeftNext DEF StepsLeftIs
  <2> QED
    BY <1>0, <1>3, <2>1, <2>2, <2>4, SMTT(30)
<1> QED
  BY <1>6, <1>7, <1>8

\* The resume walk: from record to record.
LEMMA ResumeEnds == ASSUME IInv, Resume, pc' # "idle" PROVE StepsLeft' < StepsLeft
<1> SetFacts /\ TypeOK /\ StoreInv
  BY DEF IInv
<1>1. /\ pc = "resume" /\ pc' = "resume" /\ HdrFits(cur.pos)
      /\ cur' = [cur EXCEPT !.pos = @ + RecSize(flash[cur.sec].units[cur.pos])]
  BY DEF Resume, ResumeStops
<1>2. cur.sec \in Sectors /\ cur.pos \in Positions
  BY <1>1, RingTypes, StoreAssumption, SMTT(30) DEF HdrFits, Sectors, Positions, StoreInv
<1>3. flash[cur.sec].units[cur.pos].len \in Nat
  BY <1>2, UnitFields, SMTT(30)
<1>4. cur'.pos = cur.pos + RecSize(flash[cur.sec].units[cur.pos])
  BY <1>1, RingTypes
<1>5. StepsLeft = SectorSize + 1 - cur.pos /\ StepsLeft' = SectorSize + 1 - cur'.pos
  BY <1>1, StepsLeftHere, StepsLeftNext DEF StepsLeftIs
<1> QED
  BY <1>3, <1>4, <1>5, RingTypes, StoreAssumption, SMTT(30) DEF RecSize

\* The quota loop: each turn closes a sector, or spends a flash error.
LEMMA QuotaEnds == ASSUME IInv, Reclaim \/ QuotaMet PROVE StepsLeft' < StepsLeft
<1> SetFacts /\ TypeOK /\ StoreInv
  BY DEF IInv
<1> DEFINE Opened == {s \in Sectors : flash[s].seq # 0}
<1>1. IsFiniteSet(Opened) /\ Cardinality(Opened) \in Nat
  <2>1. IsFiniteSet(Sectors)
    BY DEF SetFacts
  <2>2. Opened \in SUBSET Sectors
    OBVIOUS
  <2>3. IsFiniteSet(Opened)
    BY <2>1, <2>2 DEF SetFacts
  <2> QED
    BY <2>3 DEF SetFacts
<1>0. /\ pc = "quota" /\ MaxFaults \in Int /\ faults \in Int /\ NSectors + 1 \in Int
      /\ MaxFaults - faults \in Nat /\ NSectors \in Nat
  BY StoreAssumption, SMTT(30) DEF Reclaim, QuotaMet, TypeOK
<1>2. PICK spare : spare = (MaxFaults - faults) * (NSectors + 1)
  OBVIOUS
<1>3. spare \in Nat /\ (MaxFaults - (faults + 1)) * (NSectors + 1) = spare - (NSectors + 1)
  BY <1>0, <1>2, OneLess, SMTT(30)
<1>4. PICK n : n = Cardinality(Opened)
  OBVIOUS
<1>5. StepsLeft = 7 + spare + n
  BY <1>0, <1>2, <1>4, StepsLeftHere DEF StepsLeftIs
<1>6. CASE QuotaMet
  <2>1. pc' = "room"
    BY <1>6 DEF QuotaMet
  <2>2. StepsLeft' \in {3, 6}
    BY <2>1, StepsLeftNext DEF StepsLeftIs
  <2> QED
    BY <1>1, <1>3, <1>4, <1>5, <2>2, SMTT(30)
<1>7. CASE Reclaim
  <2>0. pc' = "quota"
    BY <1>0, <1>7 DEF Reclaim
  <2>1. StepsLeft' = 7 + (MaxFaults - faults') * (NSectors + 1) + Cardinality(Opened')
    BY <2>0, StepsLeftNext DEF StepsLeftIs
  <2>2. CASE faults' = faults + 1 /\ UNCHANGED flash
    <3>1. Opened' = Opened
      BY <2>2
    <3> QED
      BY <1>0, <1>1, <1>3, <1>4, <1>5, <2>1, <2>2, <3>1, SMTT(30)
  <2>3. ASSUME NEW t \in Reclaimable, flash' = [flash EXCEPT ![t] = ErasedSector], faults' = faults
        PROVE  StepsLeft' < StepsLeft
    <3>1. t \in Opened
      BY DEF Reclaimable
    <3>2. Opened' = Opened \ {t}
      BY <2>3, <3>1 DEF ErasedSector, TypeOK
    <3>3. Cardinality(Opened \ {t}) = n - 1
      <4> HIDE DEF Opened
      <4> QED
        BY <1>1, <1>4, <3>1 DEF SetFacts
    <3> HIDE DEF Opened
    <3>4. StepsLeft' = 7 + spare + (n - 1)
      BY <1>2, <2>1, <2>3, <3>2, <3>3
    <3> QED
      BY <1>1, <1>3, <1>4, <1>5, <3>4, SMTT(30)
  <2> QED
    BY <1>7, <2>2, <2>3 DEF Reclaim, OldestOf
<1> QED
  BY <1>6, <1>7

\* The rest of a put: a sector is opened at most once, as a record fits into a
\* new one.
LEMMA WriteEnds ==
  ASSUME IInv, FindRoom \/ OpenErase \/ OpenHeader \/ WriteHeader, pc' # "idle"
  PROVE  StepsLeft' < StepsLeft
<1> SetFacts /\ TypeOK /\ StoreInv
  BY DEF IInv
<1>1. CASE FindRoom
  <2>1. pc = "room" /\ pc' = IF Fits THEN "hdr" ELSE "open"
    BY <1>1 DEF FindRoom
  <2>2. StepsLeft = IF Fits THEN 3 ELSE 6
    BY <2>1, StepsLeftHere DEF StepsLeftIs
  <2>3. StepsLeft' = IF Fits THEN 2 ELSE 5
    BY <2>1, StepsLeftNext DEF StepsLeftIs
  <2> QED
    BY <2>2, <2>3, SMTT(30)
<1>2. CASE OpenErase
  <2>1. pc = "open" /\ pc' = "sechdr"
    BY <1>2 DEF OpenErase, Return
  <2> QED
    BY <2>1, StepsLeftHere, StepsLeftNext, SMTT(30) DEF StepsLeftIs
<1>3. CASE OpenHeader
  <2>1. pc = "sechdr" /\ pc' = "room" /\ write_off' = OpenedHead /\ req # NoReq /\ req' = req
    BY <1>3 DEF OpenHeader, Return
  <2>2. cur.sec < NSectors
    BY <2>1 DEF StoreInv
  <2>3. req.len \in 1 .. MaxLen
    BY <2>1 DEF TypeOK, Request
  <2>4. Fits'
    BY <2>1, <2>2, <2>3, StoreAssumption, SMTT(30) DEF Fits, OpenedHead
  <2> QED
    BY <2>1, <2>4, StepsLeftHere, StepsLeftNext, SMTT(30) DEF StepsLeftIs
<1>4. CASE WriteHeader
  <2>1. pc = "hdr" /\ pc' = "payload"
    BY <1>4 DEF WriteHeader, Return
  <2> QED
    BY <2>1, StepsLeftHere, StepsLeftNext, SMTT(30) DEF StepsLeftIs
<1> QED
  BY <1>1, <1>2, <1>3, <1>4

StepCloser == {pc, pc'} \cap {"idle", "off"} = {} => StepsLeft' < StepsLeft

\* Every step of a boot or of a put brings it closer to its end, and a put is
\* refused for lack of room only when the index lies in the sector being written.
LEMMA CallCloser == TurnInv /\ [Next]_vars => [StepCloser /\ QuotaReclaims]_vars
<1>1. ASSUME TurnInv, Next PROVE StepCloser
  <2> SUFFICES ASSUME pc \notin {"idle", "off"}, pc' \notin {"idle", "off"}
               PROVE  StepsLeft' < StepsLeft
    BY DEF StepCloser
  <2>0. IInv /\ RingInv
    BY <1>1 DEF TurnInv
  <2>1. ~ Boot /\ ~ Tick /\ ~ Crash /\ ~ ReclaimFails /\ ~ WritePayload
    BY DEF Boot, Tick, Crash, ReclaimFails, WritePayload, Return
  <2>2. /\ \A k, l, x : ~ PutStart(k, l, x)
        /\ \A k : ~ Delete(k)
        /\ \A seen : ~ Iterate(seen)
    BY DEF PutStart, Delete, Iterate
  <2> QED
    BY <1>1, <2>0, <2>1, <2>2, ScanEnds, ResumeEnds, QuotaEnds, WriteEnds DEF Next, BootStep, PutStep
<1>2. ASSUME TurnInv, Next PROVE QuotaReclaims
  <2> SUFFICES ASSUME pc = "quota", pc' = "idle", ret' = "nomem", NEW e \in index
               PROVE  e.sec = write_off.sec
    BY DEF QuotaReclaims
  <2>1. ReclaimFails
    <3>1. ~ Boot /\ ~ ScanSector /\ ~ ScanRecord /\ ~ ScanDone /\ ~ Resume /\ ~ Tick /\ ~ Crash
      BY DEF Boot, ScanSector, ScanRecord, ScanDone, Resume, Tick, Crash
    <3>2. ~ Reclaim /\ ~ QuotaMet /\ ~ FindRoom /\ ~ OpenErase /\ ~ OpenHeader /\ ~ WriteHeader /\ ~ WritePayload
      BY DEF Reclaim, QuotaMet, FindRoom, OpenErase, OpenHeader, WriteHeader, WritePayload
    <3>3. /\ \A k, l, x : ~ PutStart(k, l, x)
          /\ \A k : ~ Delete(k)
          /\ \A seen : ~ Iterate(seen)
      BY DEF PutStart, Delete, Iterate
    <3> QED
      BY <1>2, <3>1, <3>2, <3>3 DEF Next, BootStep, PutStep
  <2>2. e.sec \in Sectors /\ flash[e.sec].seq # 0
    BY <1>2 DEF TurnInv, IInv, TypeOK, Entry, StoreInv, IndexSound
  <2> QED
    BY <2>1, <2>2 DEF ReclaimFails, Reclaimable
<1> QED
  BY <1>1, <1>2

-----------------------------------------------------------------------------
(* Flash without faults.                                                   *)

Rec(s, p) == flash[s].units[p].kind = "rec"
Live(s, p) == Rec(s, p) /\ flash[s].units[p].alive

\* The record whose payload is still to be written.
Half(s, p) == pc = "payload" /\ s = write_off.sec /\ p = write_off.pos

\* A sector is a run of whole records, then erased units to its end.
FirstUnit == \A s \in Sectors : flash[s].units[1].kind \in {"rec", "blank"}
BlankOn ==
  \A s \in Sectors, p, q \in Positions :
    p <= q /\ flash[s].units[p].kind = "blank" => flash[s].units[q] = Blank
WholeRecord(s, p) ==
  LET u == flash[s].units[p] IN
  /\ u.len > 0 /\ u.good /\ u.ver \in 1 .. nputs
  /\ \A q \in Positions : q = p + u.len + 1 => flash[s].units[q].kind \in {"rec", "blank"}
  /\ \A q \in PayloadAt(p, u.len) :
       flash[s].units[q] = IF Half(s, p) THEN Blank ELSE Data(u.ver)
WholeRecords == \A s \in Sectors, p \in Positions : Rec(s, p) => WholeRecord(s, p)
ClosedErased == \A s \in Sectors, p \in Positions : flash[s].seq = 0 => flash[s].units[p] = Blank
TidyInv == FirstUnit /\ BlankOn /\ WholeRecords /\ ClosedErased

\* Every put is on flash at most once, alive only while it is not gone, and the
\* put in progress is only where its header was just written.
VersionsOnce ==
  \A s, t \in Sectors, p, q \in Positions :
    Rec(s, p) /\ Rec(t, q) /\ flash[s].units[p].ver = flash[t].units[q].ver => s = t /\ p = q
AliveKept == \A s \in Sectors, p \in Positions : Live(s, p) => flash[s].units[p].ver \notin gone
PutIsNew ==
  req # NoReq =>
    /\ req.ver = nputs /\ nputs \notin gone
    /\ \A s \in Sectors, p \in Positions : Rec(s, p) /\ flash[s].units[p].ver = nputs => Half(s, p)
VersionInv == VersionsOnce /\ AliveKept /\ gone \subseteq 1 .. nputs /\ PutIsNew
PassedOld == passed \subseteq 1 .. nputs /\ (req # NoReq => nputs \notin passed)

\* The write head is where erased flash begins, the cursors of the boot walks on the
\* first unit of a record or behind the last one.
HeadClean ==
  write_off.pos # 0 =>
    /\ head_seq = flash[write_off.sec].seq
    /\ \A p \in Positions : p + 1 = write_off.pos => HeadUnits[p].kind # "blank"
    /\ pc # "payload" => \A p \in Positions : p >= write_off.pos => HeadUnits[p] = Blank
HeadInv ==
  /\ HeadClean
  /\ pc = "payload" => HeadUnits[write_off.pos] = RecHdr(req)
  /\ pc = "sechdr" => flash[cur.sec].seq = 0
  /\ pc = "resume" =>
       /\ head_seq = flash[cur.sec].seq
       /\ \A p \in Positions : p + 1 = cur.pos => flash[cur.sec].units[p].kind # "blank"
  /\ pc \in {"scan", "resume"} /\ cur.sec \in Sectors /\ cur.pos \in Positions =>
       flash[cur.sec].units[cur.pos].kind \in {"rec", "blank"}

\* An index entry is that of a live record, and the last put of a key that is
\* not gone is one.
EntryAt(s, p) ==
  [key |-> flash[s].units[p].key, sec |-> s, pos |-> p, exp |-> flash[s].units[p].exp,
   seq |-> flash[s].seq]
IndexTrue == \A e \in index : Live(e.sec, e.pos) /\ ~ Half(e.sec, e.pos) /\ e = EntryAt(e.sec, e.pos)
LatestThere ==
  \A k \in Keys : latest[k] # NoReq =>
    /\ latest[k].ver \in 1 .. nputs
    /\ latest[k].ver \notin gone =>
         \E s \in Sectors, p \in Positions :
           /\ Live(s, p) /\ ~ Half(s, p)
           /\ flash[s].units[p].ver = latest[k].ver /\ flash[s].units[p].key = k
RecordInv == IndexTrue /\ LatestThere

FlashInv == TidyInv /\ VersionInv /\ PassedOld /\ HeadInv /\ RecordInv

-----------------------------------------------------------------------------
(* The index when no expired record was taken back.                        *)

\* A live record that no boot has passed over.
Listable(s, p) == Live(s, p) /\ ~ Half(s, p) /\ flash[s].units[p].ver \notin passed
Listed == {EntryAt(l[1], l[2]) : l \in {m \in Sectors \X Positions : Listable(m[1], m[2])}}

\* The boot scan has been there.
Scanned(e) == e.sec < cur.sec \/ (e.sec = cur.sec /\ e.pos < cur.pos)

\* Such records have different keys, are the latest of their key and no more
\* than the index can hold.
ListSound ==
  /\ \A e, f \in Listed : e.key = f.key => e = f
  /\ \A e \in Listed : e.key \in Keys /\ VerOf(e) >= latest[e.key].ver
  /\ IsFiniteSet(Listed) /\ Cardinality(Listed) <= MaxRecords

\* It holds them all, or those already scanned.
IndexFull ==
  /\ pc \notin {"off", "scan"} => index = Listed
  /\ pc = "scan" => index = {e \in Listed : Scanned(e)}
ListInv == ListSound /\ IndexFull

\* The inductive strengthening of RecordsKept and HeadErased.
KeptInv == faults = 0 => FlashInv /\ (revived = {} => ListInv)

-----------------------------------------------------------------------------
(* Steps that leave flash alone.                                           *)

\* A fresh chip has no record, and nothing to index.
LEMMA InitKept == SetFacts /\ Init => KeptInv
<1> SUFFICES ASSUME SetFacts, Init PROVE KeptInv
  OBVIOUS
<1>1. \A s \in Sectors, p \in Positions : flash[s].seq = 0 /\ flash[s].units[p] = Blank
  BY DEF Init, ErasedSector
<1>2. Blank.kind = "blank"
  BY DEF Blank
<1>3. \A s \in Sectors, p \in Positions : ~ Rec(s, p)
  BY <1>1, <1>2 DEF Rec
<1>4. 1 \in Positions
  BY StoreAssumption, SMTT(30) DEF Positions
<1>5. TidyInv
  BY <1>1, <1>2, <1>3, <1>4 DEF TidyInv, FirstUnit, BlankOn, WholeRecords, ClosedErased
<1>6. VersionInv /\ PassedOld
  BY <1>3 DEF Init, PassedOld, VersionInv, VersionsOnce, AliveKept, PutIsNew, Live
<1>7. HeadInv
  BY StoreAssumption DEF Init, HeadInv, HeadClean, Off
<1>8. RecordInv
  BY DEF Init, RecordInv, IndexTrue, LatestThere
<1>9. Listed = {}
  BY <1>3 DEF Listed, Listable, Live
<1>10. ListInv
  BY <1>9, StoreAssumption, SMTT(30) DEF ListInv, ListSound, IndexFull, Init, SetFacts
<1> QED
  BY <1>5, <1>6, <1>7, <1>8, <1>10 DEF KeptInv, FlashInv

\* What flash holds stays true of steps that write nothing, while no record is
\* half written.
LEMMA QuietFlash ==
  ASSUME FlashInv, UNCHANGED <<flash, gone, nputs, latest>>, pc # "payload", pc' # "payload",
         req' \in {req, NoReq}
  PROVE  /\ TidyInv' /\ VersionInv' /\ LatestThere'
         /\ UNCHANGED passed => PassedOld'
<1>1. \A s, p : ~ Half(s, p) /\ ~ Half(s, p)' /\ (Rec(s, p)' <=> Rec(s, p)) /\ (Live(s, p)' <=> Live(s, p))
  BY DEF Half, Rec, Live
<1>2. TidyInv'
  BY <1>1, SMTT(30) DEF FlashInv, TidyInv, FirstUnit, BlankOn, WholeRecords, WholeRecord, ClosedErased
<1>3. VersionInv'
  BY <1>1 DEF FlashInv, VersionInv, VersionsOnce, AliveKept, PutIsNew
<1>4. LatestThere'
  BY <1>1, SMTT(30) DEF FlashInv, RecordInv, LatestThere
<1>5. UNCHANGED passed => PassedOld'
  BY DEF FlashInv, PassedOld
<1> QED
  BY <1>2, <1>3, <1>4, <1>5

\* Nor does such a step change what is there to be indexed.
LEMMA QuietList ==
  ASSUME UNCHANGED <<flash, passed>>, pc # "payload", pc' # "payload"
  PROVE  /\ Listed' = Listed
         /\ \A e : VerOf(e)' = VerOf(e)
  BY DEF Listed, Listable, Live, Rec, Half, EntryAt, VerOf, UnitAt

\* A step that leaves flash, index and history alone keeps what the index says.
LEMMA QuietIndex ==
  ASSUME ListInv, UNCHANGED <<flash, index, latest, passed>>, pc # "payload", pc' # "payload",
         pc \notin {"off", "scan"}, pc' \notin {"off", "scan"}
  PROVE  ListInv'
<1>1. index = Listed
  BY DEF ListInv, IndexFull
<1>2. Listed' = Listed /\ \A e : VerOf(e)' = VerOf(e)
  BY QuietList
<1>3. ListSound'
  BY <1>2 DEF ListInv, ListSound
<1> QED
  BY <1>1, <1>2, <1>3 DEF ListInv, IndexFull

\* A put that meets the quota, finds its room or is refused writes nothing.
LEMMA WaitKept ==
  ASSUME IInv, KeptInv, QuotaMet \/ FindRoom \/ ReclaimFails \/ Tick
  PROVE  KeptInv'
<1> SUFFICES ASSUME faults' = 0 PROVE FlashInv' /\ (revived' = {} => ListInv')
  BY DEF KeptInv
<1>1. /\ UNCHANGED <<flash, index, write_off, next_seq, head_seq, nputs, faults, latest, gone, passed, revived>>
      /\ pc \in {"quota", "room", "idle"} /\ pc' \in {"room", "hdr", "open", "idle"}
      /\ req' \in {req, NoReq}
  BY DEF QuotaMet, FindRoom, ReclaimFails, Tick, Return
<1>2. FlashInv /\ (revived = {} => ListInv)
  BY <1>1 DEF KeptInv
<1>3. TidyInv' /\ VersionInv' /\ LatestThere' /\ PassedOld'
  BY <1>1, <1>2, QuietFlash
<1>4. HeadInv'
  BY <1>1, <1>2 DEF FlashInv, HeadInv, HeadClean, HeadUnits
<1>5. IndexTrue'
  BY <1>1, <1>2 DEF FlashInv, RecordInv, IndexTrue, Live, Rec, Half, EntryAt
<1>6. revived' = {} => ListInv'
  BY <1>1, <1>2, QuietIndex
<1> QED
  BY <1>3, <1>4, <1>5, <1>6 DEF FlashInv, RecordInv

\* The entries of the records there are, and nothing else.
ListedExactly ==
  /\ \A e \in Listed : /\ e.sec \in Sectors /\ e.pos \in Positions
                        /\ Listable(e.sec, e.pos) /\ e = EntryAt(e.sec, e.pos)
  /\ \A s \in Sectors, p \in Positions : Listable(s, p) => EntryAt(s, p) \in Listed

\* Listed is the set of the entries of the listable records.
LEMMA ListedIs == ListedExactly
<1>1. ASSUME NEW e \in Listed
      PROVE  /\ e.sec \in Sectors /\ e.pos \in Positions
             /\ Listable(e.sec, e.pos) /\ e = EntryAt(e.sec, e.pos)
  <2>1. PICK l \in Sectors \X Positions : Listable(l[1], l[2]) /\ e = EntryAt(l[1], l[2])
    BY DEF Listed
  <2>2. e.sec = l[1] /\ e.pos = l[2]
    BY <2>1 DEF EntryAt
  <2> QED
    BY <2>1, <2>2
<1>2. ASSUME NEW s \in Sectors, NEW p \in Positions, Listable(s, p)
      PROVE  EntryAt(s, p) \in Listed
  <2>1. <<s, p>> \in {m \in Sectors \X Positions : Listable(m[1], m[2])}
    BY <1>2
  <2>2. <<s, p>>[1] = s /\ <<s, p>>[2] = p
    OBVIOUS
  <2> QED
    BY <2>1, <2>2 DEF Listed
<1> QED
  BY <1>1, <1>2 DEF ListedExactly

\* So it is after a step.
LEMMA ListedIsNext == ListedExactly'
  BY ListedIs, PTL

\* Fewer records to index stay sound.
LEMMA ListShrinks ==
  ASSUME SetFacts, ListSound, Listed' \subseteq Listed, UNCHANGED latest,
         \A e \in Listed' : VerOf(e)' = VerOf(e)
  PROVE  ListSound'
<1>1. IsFiniteSet(Listed) /\ Cardinality(Listed) <= MaxRecords
  BY DEF ListSound
<1>2. IsFiniteSet(Listed') /\ Cardinality(Listed') <= Cardinality(Listed)
  BY <1>1 DEF SetFacts
<1>3. Cardinality(Listed') \in Nat /\ Cardinality(Listed) \in Nat
  BY <1>1, <1>2 DEF SetFacts
<1>4. Cardinality(Listed') <= MaxRecords
  BY <1>1, <1>2, <1>3, StoreAssumption, SMTT(30)
<1>5. \A e, f \in Listed' : e.key = f.key => e = f
  BY DEF ListSound
<1>6. \A e \in Listed' : e.key \in Keys /\ VerOf(e)' >= latest'[e.key].ver
  BY DEF ListSound
<1> QED
  BY <1>2, <1>4, <1>5, <1>6 DEF ListSound

\* A power loss outside a record's two writes leaves flash as it is.
LEMMA CrashKept == ASSUME IInv, KeptInv, Crash PROVE KeptInv'
<1> SUFFICES ASSUME faults' = 0 PROVE FlashInv' /\ (revived' = {} => ListInv')
  BY DEF KeptInv
<1> SetFacts /\ TypeOK /\ StoreInv
  BY DEF IInv
<1>0. faults \in Nat
  BY SMTT(30) DEF TypeOK
<1>1. /\ UNCHANGED <<flash, nputs, faults, latest, gone, passed, revived>>
      /\ pc # "payload" /\ pc' = "off" /\ req' = NoReq /\ index' = {} /\ write_off'.pos = 0
  BY <1>0, SMTT(30) DEF Crash
<1>2. FlashInv /\ (revived = {} => ListInv)
  BY <1>1 DEF KeptInv
<1>3. TidyInv' /\ VersionInv' /\ LatestThere' /\ PassedOld'
  BY <1>1, <1>2, QuietFlash
<1>4. HeadInv' /\ IndexTrue'
  BY <1>1 DEF HeadInv, HeadClean, IndexTrue
<1>5. ASSUME ListInv PROVE ListInv'
  <2>1. Listed' = Listed /\ \A e : VerOf(e)' = VerOf(e)
    BY <1>1, QuietList
  <2>2. ListSound'
    BY <1>1, <1>5, <2>1 DEF ListInv, ListSound
  <2> QED
    BY <1>1, <2>2 DEF ListInv, IndexFull
<1> QED
  BY <1>1, <1>2, <1>3, <1>4, <1>5 DEF FlashInv, RecordInv

\* A boot starts its scan with nothing read and nothing indexed.
LEMMA BootKept == ASSUME IInv, KeptInv, Boot PROVE KeptInv'
<1> SUFFICES ASSUME faults' = 0 PROVE FlashInv' /\ (revived' = {} => ListInv')
  BY DEF KeptInv
<1> SetFacts /\ TypeOK /\ StoreInv
  BY DEF IInv
<1>1. /\ UNCHANGED <<flash, write_off, req, nputs, faults, latest, gone, passed, revived>>
      /\ pc = "off" /\ pc' = "scan" /\ index' = {} /\ cur' = [sec |-> 0, pos |-> 0]
  BY DEF Boot
<1>2. FlashInv /\ (revived = {} => ListInv)
  BY <1>1 DEF KeptInv
<1>3. TidyInv' /\ VersionInv' /\ LatestThere' /\ PassedOld'
  BY <1>1, <1>2, QuietFlash
<1>4. HeadInv' /\ IndexTrue'
  BY <1>1, SMTT(30) DEF StoreInv, HeadInv, HeadClean, IndexTrue, Positions
<1>5. ASSUME ListInv PROVE ListInv'
  <2>1. Listed' = Listed /\ \A e : VerOf(e)' = VerOf(e)
    BY <1>1, QuietList
  <2>2. ListSound'
    BY <1>1, <1>5, <2>1 DEF ListInv, ListSound
  <2>3. \A e \in Listed : ~ Scanned(e)'
    BY <1>1, ListedIs, SMTT(30) DEF ListedExactly, Scanned, Sectors, Positions
  <2> QED
    BY <1>1, <2>1, <2>2, <2>3 DEF ListInv, IndexFull
<1> QED
  BY <1>1, <1>2, <1>3, <1>4, <1>5 DEF FlashInv, RecordInv

\* A sector header of the scan: a sector without one holds no record.
LEMMA ScanSectorKept == ASSUME IInv, KeptInv, ScanSector PROVE KeptInv'
<1> SUFFICES ASSUME faults' = 0 PROVE FlashInv' /\ (revived' = {} => ListInv')
  BY DEF KeptInv
<1> SetFacts /\ TypeOK /\ StoreInv
  BY DEF IInv
<1>0. cur \in [sec : 0 .. NSectors, pos : 0 .. SectorSize] /\ cur.sec \in Sectors
  BY CursorSector DEF TypeOK, ScanSector
<1>1. /\ UNCHANGED <<flash, index, write_off, req, nputs, faults, latest, gone, passed, revived>>
      /\ pc = "scan" /\ pc' = "scan" /\ cur.pos = 0
      /\ cur' = IF flash[cur.sec].seq = 0 THEN [sec |-> cur.sec + 1, pos |-> 0] ELSE [cur EXCEPT !.pos = 1]
  BY DEF ScanSector, NextSector
<1>2. FlashInv /\ (revived = {} => ListInv)
  BY <1>1 DEF KeptInv
<1>3. TidyInv' /\ VersionInv' /\ LatestThere' /\ PassedOld'
  BY <1>1, <1>2, QuietFlash
<1>4. HeadInv'
  BY <1>0, <1>1, <1>2, SMTT(30) DEF StoreInv, FlashInv, TidyInv, FirstUnit, HeadInv, HeadClean, Positions
<1>5. IndexTrue'
  BY <1>1, <1>2 DEF FlashInv, RecordInv, IndexTrue, Live, Rec, Half, EntryAt
<1>6. ASSUME ListInv PROVE ListInv'
  <2>1. Listed' = Listed /\ \A e : VerOf(e)' = VerOf(e)
    BY <1>1, QuietList
  <2>2. ListSound'
    BY <1>1, <1>6, <2>1 DEF ListInv, ListSound
  <2>3. ASSUME NEW e \in Listed PROVE Scanned(e)' <=> Scanned(e)
    <3>1. e.sec \in Sectors /\ e.pos \in Positions /\ Rec(e.sec, e.pos)
      BY ListedIs DEF ListedExactly, Listable, Live
    <3>2. flash[e.sec].seq # 0
      BY <1>2, <3>1, SMTT(30) DEF FlashInv, TidyInv, ClosedErased, Rec, Blank
    <3> QED
      BY <1>0, <1>1, <3>1, <3>2, StoreAssumption, SMTT(30) DEF Scanned, Sectors, Positions
  <2> QED
    BY <1>1, <1>6, <2>1, <2>2, <2>3 DEF ListInv, IndexFull
<1> QED
  BY <1>1, <1>2, <1>3, <1>4, <1>5, <1>6 DEF FlashInv, RecordInv

\* At the end of the scan every record has been read.
LEMMA ScanDoneKept == ASSUME IInv, RingInv, KeptInv, ScanDone PROVE KeptInv'
<1> SUFFICES ASSUME faults' = 0 PROVE FlashInv' /\ (revived' = {} => ListInv')
  BY DEF KeptInv
<1> SetFacts /\ TypeOK /\ StoreInv
  BY DEF IInv
<1> RingState
  BY DEF RingInv
<1>1. /\ UNCHANGED <<flash, index, write_off, req, nputs, faults, latest, gone, passed, revived>>
      /\ pc = "scan" /\ cur.sec = NSectors
      /\ \/ pc' = "open"
         \/ /\ pc' = "resume" /\ cur' = [sec |-> newest.base, pos |-> 1]
            /\ newest.base # NoSector /\ head_seq' = newest.seq
  BY DEF ScanDone
<1>2. FlashInv /\ (revived = {} => ListInv)
  BY <1>1 DEF KeptInv
<1>3. TidyInv' /\ VersionInv' /\ LatestThere' /\ PassedOld'
  BY <1>1, <1>2, QuietFlash
<1>4. HeadInv'
  <2>1. HeadClean'
    BY <1>1 DEF StoreInv, HeadClean
  <2>2. CASE pc' = "open"
    BY <2>1, <2>2 DEF HeadInv
  <2>3. CASE pc' = "resume"
    <3>1. newest.base \in Sectors /\ head_seq' = flash[newest.base].seq
      BY <1>1, <2>3 DEF TypeOK, RingState
    <3>2. flash[newest.base].units[1].kind \in {"rec", "blank"}
      BY <1>2, <3>1 DEF FlashInv, TidyInv, FirstUnit
    <3>3. \A p \in Positions : p + 1 # 1
      BY StoreAssumption, SMTT(30) DEF Positions
    <3>4. cur'.sec = newest.base /\ cur'.pos = 1
      BY <1>1, <2>3, SMTT(30)
    <3> QED
      BY <1>1, <2>1, <2>3, <3>1, <3>2, <3>3, <3>4 DEF HeadInv
  <2> QED
    BY <1>1, <2>2, <2>3
<1>5. IndexTrue'
  BY <1>1, <1>2 DEF FlashInv, RecordInv, IndexTrue, Live, Rec, Half, EntryAt
<1>6. ASSUME ListInv PROVE ListInv'
  <2>1. Listed' = Listed /\ \A e : VerOf(e)' = VerOf(e)
    BY <1>1, QuietList
  <2>2. ListSound'
    BY <1>1, <1>6, <2>1 DEF ListInv, ListSound
  <2>3. \A e \in Listed : Scanned(e)
    BY <1>1, ListedIs, StoreAssumption, SMTT(30) DEF ListedExactly, Scanned, Sectors
  <2>4. index = Listed
    BY <1>1, <1>6, <2>3 DEF ListInv, IndexFull
  <2> QED
    BY <1>1, <2>1, <2>2, <2>4 DEF ListInv, IndexFull
<1> QED
  BY <1>1, <1>2, <1>3, <1>4, <1>5, <1>6 DEF FlashInv, RecordInv

\* A walk over intact flash: at a cursor on a record, the whole record is there
\* and the next unit is a record's first or erased; otherwise only erased units
\* follow.
LEMMA WalkStep ==
  ASSUME IInv, FlashInv, pc # "payload", NEW s \in Sectors, NEW p \in Positions,
         flash[s].units[p].kind \in {"rec", "blank"}
  PROVE  LET u == flash[s].units[p] IN
         /\ Rec(s, p) =>
              /\ HdrOk(u) /\ CrcOk(flash[s].units, p) /\ u.len \in 1 .. MaxLen
              /\ \A q \in Positions : q > p /\ q <= p + u.len => ~ Rec(s, q)
              /\ \A q \in Positions : q = p + (1 + u.len) => flash[s].units[q].kind \in {"rec", "blank"}
         /\ ~ Rec(s, p) => /\ ~ HdrOk(u)
                           /\ \A q \in Positions : q >= p => flash[s].units[q] = Blank
<1> DEFINE u == flash[s].units[p]
<1>0. u \in Unit /\ u.len \in 0 .. MaxLen /\ u.ver \in 0 .. MaxPuts /\ p \in Nat
  BY UnitFields
<1>1. ASSUME Rec(s, p)
      PROVE  /\ HdrOk(u) /\ CrcOk(flash[s].units, p) /\ u.len \in 1 .. MaxLen
             /\ \A q \in Positions : q > p /\ q <= p + u.len => ~ Rec(s, q)
             /\ \A q \in Positions : q = p + (1 + u.len) => flash[s].units[q].kind \in {"rec", "blank"}
  <2>1. WholeRecord(s, p) /\ ~ Half(s, p)
    BY <1>1 DEF FlashInv, TidyInv, WholeRecords, Half
  <2>2. u.len > 0 /\ u.good /\ \A q \in PayloadAt(p, u.len) : flash[s].units[q] = Data(u.ver)
    BY <2>1 DEF WholeRecord
  <2>3. Data(u.ver).kind = "data"
    BY DEF Data, Blank
  <2>4. \A q \in Positions : q > p /\ q <= p + u.len => q \in PayloadAt(p, u.len)
    BY <1>0, StoreAssumption, SMTT(30) DEF Positions, PayloadAt
  <2>5. \A q \in Positions : q = p + (1 + u.len) => flash[s].units[q].kind \in {"rec", "blank"}
    <3>1. \A q \in Positions : q = p + u.len + 1 => flash[s].units[q].kind \in {"rec", "blank"}
      BY <2>1 DEF WholeRecord
    <3>2. p + (1 + u.len) = p + u.len + 1
      BY <1>0, StoreAssumption, SMTT(30) DEF Positions
    <3> QED
      BY <3>1, <3>2
  <2> QED
    BY <1>0, <1>1, <2>2, <2>3, <2>4, <2>5, StoreAssumption, SMTT(30) DEF HdrOk, CrcOk, Rec
<1>2. ASSUME ~ Rec(s, p)
      PROVE  ~ HdrOk(u) /\ \A q \in Positions : q >= p => flash[s].units[q] = Blank
  BY <1>0, <1>2 DEF Rec, HdrOk, FlashInv, TidyInv, BlankOn, Positions
<1> QED
  BY <1>1, <1>2

\* The resume walk stops behind the last record of the newest sector: the write
\* head it sets is in erased flash.
LEMMA ResumeKept == ASSUME IInv, KeptInv, Resume PROVE KeptInv'
<1> SUFFICES ASSUME faults' = 0 PROVE FlashInv' /\ (revived' = {} => ListInv')
  BY DEF KeptInv
<1> SetFacts /\ TypeOK /\ StoreInv
  BY DEF IInv
<1> DEFINE u == flash[cur.sec].units[cur.pos]
<1>1. /\ UNCHANGED <<flash, index, next_seq, head_seq, req, nputs, faults, latest, gone, passed, revived>>
      /\ pc = "resume" /\ pc' \in {"resume", "idle"}
  BY DEF Resume
<1>2. FlashInv /\ (revived = {} => ListInv)
  BY <1>1 DEF KeptInv
<1>3. TidyInv' /\ VersionInv' /\ LatestThere' /\ PassedOld'
  BY <1>1, <1>2, QuietFlash
<1>a. /\ cur \in [sec : 0 .. NSectors, pos : 0 .. SectorSize] /\ cur.sec \in Sectors /\ cur.pos # 0
      /\ write_off \in [sec : 0 .. NSectors, pos : 0 .. SectorSize - 1]
  BY <1>1, StoreAssumption DEF TypeOK, StoreInv, NoSector
<1>b. cur.pos \in Positions => u.kind \in {"rec", "blank"}
  BY <1>1, <1>2, <1>a DEF FlashInv, HeadInv
<1>c. head_seq = flash[cur.sec].seq
  BY <1>1, <1>2 DEF FlashInv, HeadInv
<1>f. \A p \in Positions : p + 1 = cur.pos => flash[cur.sec].units[p].kind # "blank"
  BY <1>1, <1>2 DEF FlashInv, HeadInv
<1>d. cur.pos \in Nat /\ (cur.pos \in Positions <=> HdrFits(cur.pos))
  BY <1>a, StoreAssumption, SMTT(30) DEF HdrFits, Positions
<1>4. HeadInv'
  <2>1. CASE ResumeStops(flash[cur.sec].units, cur.pos)
    <3>1. pc' = "idle" /\ write_off' = Off(cur.sec, cur.pos)
      BY <2>1 DEF Resume
    <3>2. CASE cur.pos \in Positions
      <4>1. \A q \in Positions : q >= cur.pos => flash[cur.sec].units[q] = Blank
        BY <1>1, <1>2, <1>a, <1>b, <1>d, <2>1, <3>2, WalkStep DEF ResumeStops
      <4>2. write_off' = [sec |-> cur.sec, pos |-> cur.pos]
        BY <3>1, <3>2, StoreAssumption, SMTT(30) DEF Off, Positions
      <4>3. HeadClean'
        BY <1>1, <1>c, <1>f, <3>1, <4>1, <4>2, SMTT(30) DEF HeadClean, HeadUnits
      <4> QED
        BY <3>1, <4>3 DEF HeadInv
    <3>3. CASE cur.pos \notin Positions
      <4>1. write_off'.pos = 0
        BY <1>a, <3>1, <3>3, StoreAssumption, SMTT(30) DEF Off, Positions
      <4> QED
        BY <3>1, <4>1 DEF HeadInv, HeadClean
    <3> QED
      BY <3>2, <3>3
  <2>2. CASE ~ ResumeStops(flash[cur.sec].units, cur.pos)
    <3>1. /\ pc' = "resume" /\ UNCHANGED write_off
          /\ cur' = [cur EXCEPT !.pos = @ + (1 + u.len)]
      BY <1>1, <2>2 DEF Resume, RecSize
    <3>2. cur.pos \in Positions /\ Rec(cur.sec, cur.pos)
      BY <1>d, <2>2 DEF ResumeStops, HdrOk, Rec
    <3>3. \A q \in Positions : q = cur.pos + (1 + u.len) => flash[cur.sec].units[q].kind \in {"rec", "blank"}
      BY <1>1, <1>2, <1>a, <1>b, <3>2, WalkStep
    <3>4. cur'.sec = cur.sec /\ cur'.pos = cur.pos + (1 + u.len)
      BY <1>a, <3>1
    <3>5. cur'.pos \in Positions => flash'[cur'.sec].units[cur'.pos].kind \in {"rec", "blank"}
      BY <1>1, <3>3, <3>4
    <3>6. HeadClean'
      BY <1>1, <1>2, <3>1 DEF FlashInv, HeadInv, HeadClean, HeadUnits
    <3>7. head_seq' = flash'[cur'.sec].seq
      BY <1>1, <1>c, <3>4
    <3>8. ASSUME NEW p \in Positions, p + 1 = cur'.pos
          PROVE  flash'[cur'.sec].units[p].kind # "blank"
      <4>1. u.len \in 1 .. MaxLen /\ CrcOk(flash[cur.sec].units, cur.pos)
        BY <1>1, <1>2, <1>a, <1>b, <3>2, WalkStep
      <4>2. p \in PayloadAt(cur.pos, u.len)
        BY <1>d, <3>4, <3>8, <4>1, StoreAssumption, SMTT(30) DEF PayloadAt, Positions
      <4>3. flash[cur.sec].units[p].kind = "data"
        <5>1. flash[cur.sec].units[p] = Data(u.ver)
          BY <4>1, <4>2 DEF CrcOk
        <5> QED
          BY <5>1 DEF Data, Blank
      <4> QED
        BY <1>1, <3>4, <4>3
    <3> QED
      BY <3>1, <3>5, <3>6, <3>7, <3>8 DEF HeadInv
  <2> QED
    BY <2>1, <2>2
<1>5. IndexTrue'
  BY <1>1, <1>2 DEF FlashInv, RecordInv, IndexTrue, Live, Rec, Half, EntryAt
<1>6. revived' = {} => ListInv'
  BY <1>1, <1>2, QuietIndex
<1> QED
  BY <1>3, <1>4, <1>5, <1>6 DEF FlashInv, RecordInv

\* The scan reads every record of a sector up to its erased end: what it has
\* passed and not indexed is dead or expired, and what it indexes has neither a
\* second copy nor to wait for a free entry.
LEMMA ScanRecordKept == ASSUME IInv, KeptInv, ScanRecord PROVE KeptInv'
<1> SUFFICES ASSUME faults' = 0 PROVE FlashInv' /\ (revived' = {} => ListInv')
  BY DEF KeptInv
<1> SetFacts /\ TypeOK /\ StoreInv
  BY DEF IInv
<1> DEFINE units == flash[cur.sec].units
           u == units[cur.pos]
<1>e. PICK e : e = EntryAt(cur.sec, cur.pos)
  OBVIOUS
<1>1. /\ UNCHANGED <<flash, write_off, head_seq, req, nputs, faults, latest, gone, pc>>
      /\ pc = "scan" /\ cur.pos > 0
  BY DEF ScanRecord
<1>2. FlashInv /\ (revived = {} => ListInv)
  BY <1>1 DEF KeptInv, ScanRecord
<1>3. TidyInv' /\ VersionInv' /\ LatestThere' /\ (UNCHANGED passed => PassedOld')
  BY <1>1, <1>2, QuietFlash
<1>t. cur \in [sec : 0 .. NSectors, pos : 0 .. SectorSize] /\ cur.sec < NSectors
  BY DEF TypeOK, ScanRecord
<1>a. /\ cur \in [sec : 0 .. NSectors, pos : 0 .. SectorSize] /\ cur.sec \in Sectors
      /\ cur.pos \in Nat /\ cur.sec \in Nat
      /\ (cur.pos \in Positions <=> HdrFits(cur.pos))
  BY <1>1, <1>t, StoreAssumption, SMTT(30) DEF Sectors, HdrFits, Positions
<1>b. cur.pos \in Positions => u.kind \in {"rec", "blank"}
  BY <1>1, <1>2, <1>a DEF FlashInv, HeadInv
<1>c. \A s, p : ~ Half(s, p) /\ ~ Half(s, p)'
  BY <1>1 DEF Half
<1>4. CASE WalkStops(units, cur.pos)
  <2>1. cur' = [sec |-> cur.sec + 1, pos |-> 0] /\ UNCHANGED <<index, passed, revived>>
    BY <1>4 DEF ScanRecord, NextSector
  <2>2. \A q \in Positions : q >= cur.pos => ~ Rec(cur.sec, q)
    <3>1. CASE cur.pos \in Positions
      <4>1. ~ Rec(cur.sec, cur.pos)
        BY <1>1, <1>2, <1>4, <1>a, <1>b, <3>1, WalkStep DEF WalkStops
      <4>2. \A q \in Positions : q >= cur.pos => units[q] = Blank
        BY <1>1, <1>2, <1>a, <1>b, <3>1, <4>1, WalkStep
      <4> QED
        BY <4>2, SMTT(30) DEF Rec, Blank
    <3>2. CASE cur.pos \notin Positions
      BY <1>1, <1>a, <3>2, StoreAssumption, SMTT(30) DEF Positions
    <3> QED
      BY <3>1, <3>2
  <2>3. HeadInv'
    BY <1>1, <2>1, SMTT(30) DEF StoreInv, HeadInv, HeadClean, Positions
  <2>4. IndexTrue'
    BY <1>1, <1>2, <1>c, <2>1 DEF FlashInv, RecordInv, IndexTrue, Live, Rec, EntryAt
  <2>5. ASSUME ListInv PROVE ListInv'
    <3>1. Listed' = Listed /\ \A f : VerOf(f)' = VerOf(f)
      BY <1>1, <2>1, QuietList
    <3>2. ListSound'
      BY <1>1, <2>5, <3>1 DEF ListInv, ListSound
    <3>3. ASSUME NEW f \in Listed PROVE Scanned(f)' <=> Scanned(f)
      <4>1. f.sec \in Sectors /\ f.pos \in Positions /\ Rec(f.sec, f.pos)
        BY ListedIs DEF ListedExactly, Listable, Live
      <4> QED
        BY <1>a, <2>1, <2>2, <4>1, StoreAssumption, SMTT(30) DEF Scanned, Sectors, Positions
    <3> QED
      BY <1>1, <2>1, <2>5, <3>1, <3>2, <3>3 DEF ListInv, IndexFull
  <2> QED
    BY <1>1, <1>2, <1>3, <2>1, <2>3, <2>4, <2>5 DEF FlashInv, RecordInv
<1>5. CASE ~ WalkStops(units, cur.pos)
  <2>1. cur.pos \in Positions /\ Rec(cur.sec, cur.pos)
    BY <1>5, <1>a DEF WalkStops, HdrOk, Rec
  <2>2. /\ u.len \in 1 .. MaxLen
        /\ \A q \in Positions : q > cur.pos /\ q <= cur.pos + u.len => ~ Rec(cur.sec, q)
        /\ \A q \in Positions : q = cur.pos + (1 + u.len) => units[q].kind \in {"rec", "blank"}
    BY <1>1, <1>2, <1>a, <1>b, <2>1, WalkStep
  <2>3. /\ cur' = [cur EXCEPT !.pos = @ + (1 + u.len)]
        /\ index' = IF u.alive /\ ~ Expired(u.exp) /\ Cardinality(index) < MaxRecords
                    THEN Indexed(e) ELSE index
        /\ passed' = IF u.alive /\ Expired(u.exp) THEN passed \cup {u.ver} ELSE passed
        /\ revived' = IF u.alive /\ ~ Expired(u.exp) THEN revived \cup ({u.ver} \cap passed) ELSE revived
    BY <1>5, <1>e DEF ScanRecord, RecSize, EntryAt
  <2>4. cur'.sec = cur.sec /\ cur'.pos = cur.pos + (1 + u.len)
    BY <1>a, <2>3
  <2>5. HeadInv'
    <3>0. cur'.pos \in Positions => units[cur'.pos].kind \in {"rec", "blank"}
      BY <2>2, <2>4
    <3>1. cur'.pos \in Positions => flash'[cur'.sec].units[cur'.pos].kind \in {"rec", "blank"}
      BY <1>1, <2>4, <3>0
    <3>2. HeadClean'
      BY <1>1 DEF StoreInv, HeadClean
    <3> QED
      BY <1>1, <3>1, <3>2 DEF HeadInv
  <2>6. e.sec = cur.sec /\ e.pos = cur.pos /\ e.key = u.key
    BY <1>e DEF EntryAt
  <2>7. IndexTrue'
    <3>1. \A f \in index' : f \in index \/ (f = e /\ u.alive)
      BY <2>3 DEF Indexed
    <3>2. u.alive => Live(cur.sec, cur.pos)
      BY <2>1 DEF Live
    <3>3. \A s, p : (Live(s, p)' <=> Live(s, p)) /\ EntryAt(s, p)' = EntryAt(s, p)
      BY <1>1 DEF Live, Rec, EntryAt
    <3>4. \A f \in index' : Live(f.sec, f.pos) /\ f = EntryAt(f.sec, f.pos)
      BY <1>2, <1>e, <2>6, <3>1, <3>2 DEF FlashInv, RecordInv, IndexTrue
    <3> QED
      BY <1>c, <3>3, <3>4 DEF IndexTrue
  <2>9. PassedOld'
    <3>1. u.ver \in 1 .. nputs /\ req = NoReq
      BY <1>1, <1>2, <1>a, <2>1 DEF FlashInv, TidyInv, WholeRecords, WholeRecord, StoreInv
    <3>2. passed \subseteq 1 .. nputs
      BY <1>2 DEF FlashInv, PassedOld
    <3>3. passed' \subseteq 1 .. nputs
      BY <2>3, <3>1, <3>2
    <3> QED
      BY <1>1, <3>1, <3>3 DEF PassedOld
  <2>8. ASSUME revived' = {} PROVE ListInv'
    <3>1. revived = {} /\ ListInv
      BY <1>2, <2>3, <2>8
    <3>2. index = {f \in Listed : Scanned(f)}
      BY <1>1, <3>1 DEF ListInv, IndexFull
    <3>3. ~ Scanned(e) /\ Scanned(e)'
      BY <1>a, <2>2, <2>4, <2>6, SMTT(30) DEF Scanned
    <3>4. ASSUME NEW f \in Listed, f # e PROVE Scanned(f)' <=> Scanned(f)
      <4>1. f.sec \in Sectors /\ f.pos \in Positions /\ Rec(f.sec, f.pos) /\ f = EntryAt(f.sec, f.pos)
        BY ListedIs DEF ListedExactly, Listable, Live
      <4>2. ~ (f.sec = cur.sec /\ f.pos = cur.pos)
        BY <1>e, <3>4, <4>1
      <4>3. ~ (f.sec = cur.sec /\ f.pos > cur.pos /\ f.pos <= cur.pos + u.len)
        BY <2>2, <4>1
      <4>4. f.sec \in Nat /\ f.pos \in Nat
        BY <4>1, UnitFields
      <4> QED
        BY <1>a, <2>2, <2>4, <4>2, <4>3, <4>4, SMTT(30) DEF Scanned
    <3>5. CASE ~ u.alive \/ Expired(u.exp)
      <4>1. index' = index /\ passed' = IF u.alive THEN passed \cup {u.ver} ELSE passed
        BY <2>3, <3>5
      <4>2. ASSUME NEW s \in Sectors, NEW p \in Positions
            PROVE  Listable(s, p)' <=> Listable(s, p) /\ EntryAt(s, p) # e
        <5>1. EntryAt(s, p) = e <=> s = cur.sec /\ p = cur.pos
          BY <1>e DEF EntryAt
        <5>2. Listable(s, p)' <=> Live(s, p) /\ flash[s].units[p].ver \notin passed'
          BY <1>1, <1>c DEF Listable, Live, Rec
        <5>3. Listable(s, p) <=> Live(s, p) /\ flash[s].units[p].ver \notin passed
          BY <1>c DEF Listable
        <5>4. Rec(s, p) /\ flash[s].units[p].ver = u.ver => s = cur.sec /\ p = cur.pos
          BY <1>2, <1>a, <2>1 DEF FlashInv, VersionInv, VersionsOnce
        <5> QED
          BY <4>1, <5>1, <5>2, <5>3, <5>4 DEF Live
      <4>3. \A s, p : EntryAt(s, p)' = EntryAt(s, p)
        BY <1>1 DEF EntryAt
      <4>4. Listed' = Listed \ {e}
        <5>2. \A f \in Listed' : f \in Listed /\ f # e
          BY <4>2, <4>3, ListedIs, ListedIsNext DEF ListedExactly
        <5>3. \A f \in Listed : f # e => f \in Listed'
          BY <4>2, <4>3, ListedIs, ListedIsNext DEF ListedExactly
        <5> QED
          BY <5>2, <5>3
      <4>5. \A f : VerOf(f)' = VerOf(f)
        BY <1>1 DEF VerOf, UnitAt
      <4>6. ListSound'
        BY <1>1, <3>1, <4>4, <4>5, ListShrinks DEF ListInv
      <4>7. index' = {f \in Listed' : Scanned(f)'}
        BY <3>2, <3>3, <3>4, <4>1, <4>4
      <4> QED
        BY <1>1, <4>6, <4>7 DEF ListInv, IndexFull
    <3>6. CASE u.alive /\ ~ Expired(u.exp)
      <4>1. passed' = passed /\ u.ver \notin passed
        BY <2>3, <2>8, <3>6
      <4>2. Listed' = Listed /\ \A f : VerOf(f)' = VerOf(f)
        BY <1>1, <4>1, QuietList
      <4>3. e \in Listed
        BY <1>a, <1>c, <2>1, <3>6, <4>1, <1>e, ListedIs DEF ListedExactly, Listable, Live
      <4>4. ListSound'
        BY <1>1, <3>1, <4>2, ListShrinks DEF ListInv
      <4>5. Cardinality(index) < MaxRecords
        <5>1. index \in SUBSET Listed /\ e \in Listed /\ e \notin index
          BY <3>2, <3>3, <4>3
        <5>2. IsFiniteSet(Listed) /\ Cardinality(Listed) <= MaxRecords
          BY <3>1 DEF ListInv, ListSound
        <5>3. IsFiniteSet(Listed \ {e}) /\ Cardinality(Listed \ {e}) = Cardinality(Listed) - 1
          <6>1. Listed \ {e} \in SUBSET Listed
            OBVIOUS
          <6> QED
            BY <5>1, <5>2, <6>1 DEF SetFacts
        <5>4. IsFiniteSet(index) /\ Cardinality(index) <= Cardinality(Listed \ {e})
          <6>1. index \in SUBSET (Listed \ {e})
            BY <5>1
          <6> QED
            BY <5>3, <6>1 DEF SetFacts
        <5>5. Cardinality(index) \in Nat /\ Cardinality(Listed) \in Nat
          BY <5>2, <5>4 DEF SetFacts
        <5> QED
          BY <5>2, <5>3, <5>4, <5>5, StoreAssumption, SMTT(30)
      <4>6. {d \in index : d.key = e.key} = {}
        BY <3>1, <3>2, <3>3, <4>3 DEF ListInv, ListSound
      <4>7. index' = index \cup {e}
        BY <2>3, <3>6, <4>5, <4>6 DEF Indexed
      <4>8. index' = {f \in Listed' : Scanned(f)'}
        BY <3>2, <3>3, <3>4, <4>2, <4>3, <4>7
      <4> QED
        BY <1>1, <4>4, <4>8 DEF ListInv, IndexFull
    <3> QED
      BY <3>5, <3>6
  <2> QED
    BY <1>3, <2>5, <2>7, <2>8, <2>9 DEF FlashInv, RecordInv
<1> QED
  BY <1>4, <1>5

-----------------------------------------------------------------------------
(* Tombstones.                                                             *)

\* Without a flash error every tombstone is written.
LEMMA TombstonesWritten ==
  ASSUME IInv, NEW es \in SUBSET index, Tombstone(es), faults' = 0
  PROVE  faults = 0 /\ flash' = TombstoneAll(es)
<1> SetFacts /\ TypeOK /\ StoreInv
  BY DEF IInv
<1>1. PICK failed \in SUBSET es :
        faults' = faults + Cardinality(failed) /\ flash' = TombstoneAll(es \ failed)
  BY DEF Tombstone
<1>2. IsFiniteSet(failed)
  BY DEF StoreInv, SetFacts
<1>3. Cardinality(failed) \in Nat /\ faults \in Nat
  BY <1>2, SMTT(30) DEF TypeOK, SetFacts
<1>4. faults = 0 /\ Cardinality(failed) = 0
  BY <1>1, <1>3, SMTT(30)
<1>5. failed = {}
  BY <1>2, <1>4 DEF SetFacts
<1>6. es \ failed = es
  BY <1>5
<1> QED
  BY <1>1, <1>4, <1>6

\* A tombstone clears the live flag of its record and changes nothing else.
LEMMA TombstoneFlash ==
  ASSUME IInv, FlashInv, NEW es \in SUBSET index, flash' = TombstoneAll(es),
         NEW s \in Sectors, NEW p \in Positions
  PROVE  LET u == flash[s].units[p]  w == flash'[s].units[p] IN
         /\ flash'[s].seq = flash[s].seq
         /\ w.kind = u.kind /\ w.len = u.len /\ w.ver = u.ver /\ w.key = u.key /\ w.exp = u.exp
         /\ w.good = u.good
         /\ EntryAt(s, p) \in es => ~ w.alive
         /\ EntryAt(s, p) \notin es => w = u
         /\ ~ Rec(s, p) => w = u
<1> SetFacts /\ TypeOK /\ StoreInv
  BY DEF IInv
<1> DEFINE u == flash[s].units[p]
           w == flash'[s].units[p]
<1>1. u \in Unit
  BY UnitFields
<1>2. (\E e \in es : e.sec = s /\ e.pos = p) <=> EntryAt(s, p) \in es
  BY DEF FlashInv, RecordInv, IndexTrue, EntryAt
<1>3. EntryAt(s, p) \in es => Rec(s, p)
  BY <1>2 DEF FlashInv, RecordInv, IndexTrue, Live
<1>4. /\ flash'[s].seq = flash[s].seq
      /\ w = IF \E e \in es : e.sec = s /\ e.pos = p THEN [u EXCEPT !.alive = FALSE] ELSE u
  <2>1. flash \in [Sectors -> [seq : Nat, units : [Positions -> Unit]]]
    BY DEF TypeOK
  <2> DEFINE T(q) == IF \E e \in es : e.sec = s /\ e.pos = q
                     THEN [flash[s].units[q] EXCEPT !.alive = FALSE] ELSE flash[s].units[q]
  <2>2. flash'[s] = [flash[s] EXCEPT !.units = [q \in Positions |-> T(q)]]
    BY DEF TombstoneAll
  <2>3. w = T(p)
    <3> HIDE DEF T
    <3> QED
      BY <2>1, <2>2, SMTT(30)
  <2>4. flash'[s].seq = flash[s].seq
    <3> HIDE DEF T
    <3> QED
      BY <2>1, <2>2
  <2> QED
    BY <2>3, <2>4
<1>5. LET x == [u EXCEPT !.alive = FALSE] IN
      /\ x.kind = u.kind /\ x.len = u.len /\ x.ver = u.ver /\ x.key = u.key /\ x.exp = u.exp
      /\ x.good = u.good /\ ~ x.alive
  BY <1>1 DEF Unit
<1> QED
  BY <1>2, <1>3, <1>4, <1>5

\* Forgetting entries together with their tombstones keeps every other record,
\* and what is forgotten does not come back.
LEMMA ForgetKept ==
  ASSUME IInv, FlashInv, NEW es \in SUBSET index, flash' = TombstoneAll(es), Forget(es),
         pc = "idle", pc' \in {"idle", "quota"}, UNCHANGED <<write_off, head_seq, latest, passed>>,
         \/ nputs' = nputs /\ req' = NoReq
         \/ nputs' = nputs + 1 /\ req'.ver = nputs + 1
  PROVE  FlashInv' /\ (ListInv => ListInv')
<1> SetFacts /\ TypeOK /\ StoreInv
  BY DEF IInv
<1>0. nputs \in Nat /\ nputs' \in Nat /\ nputs' >= nputs
  BY SMTT(30) DEF TypeOK
<1>1. \A s, p : ~ Half(s, p) /\ ~ Half(s, p)'
  BY DEF Half
<1>2. \A s \in Sectors, p \in Positions :
        /\ flash'[s].seq = flash[s].seq
        /\ flash'[s].units[p].kind = flash[s].units[p].kind
        /\ flash'[s].units[p].len = flash[s].units[p].len
        /\ flash'[s].units[p].ver = flash[s].units[p].ver
        /\ flash'[s].units[p].good = flash[s].units[p].good
        /\ ~ Rec(s, p) => flash'[s].units[p] = flash[s].units[p]
  BY TombstoneFlash, SMTT(30)
<1>b. Blank.kind = "blank" /\ \A v : Data(v).kind = "data"
  BY DEF Blank, Data
<1>c. \A s \in Sectors, p \in Positions : flash[s].units[p] = Blank => flash'[s].units[p] = Blank
  BY <1>2, <1>b DEF Rec
<1>3. \A s \in Sectors, p \in Positions :
        /\ Rec(s, p)' <=> Rec(s, p)
        /\ EntryAt(s, p)' = EntryAt(s, p)
        /\ Live(s, p)' <=> Live(s, p) /\ EntryAt(s, p) \notin es
  BY TombstoneFlash, SMTT(30) DEF Rec, EntryAt, Live
<1>4. \A s \in Sectors, p \in Positions : Rec(s, p) => flash[s].units[p].ver \in 1 .. nputs
  BY DEF FlashInv, TidyInv, WholeRecords, WholeRecord
<1>5. ASSUME NEW e \in es
      PROVE  /\ e.sec \in Sectors /\ e.pos \in Positions /\ Rec(e.sec, e.pos)
             /\ e = EntryAt(e.sec, e.pos) /\ VerOf(e) = flash[e.sec].units[e.pos].ver
  BY DEF TypeOK, Entry, FlashInv, RecordInv, IndexTrue, Live, VerOf, UnitAt
<1>6. ASSUME NEW s \in Sectors, NEW p \in Positions, Rec(s, p)
      PROVE  flash[s].units[p].ver \in gone' <=> flash[s].units[p].ver \in gone \/ EntryAt(s, p) \in es
  <2>1. flash[s].units[p].ver \in 1 .. nputs
    BY <1>4, <1>6
  <2>2. \A e \in es : VerOf(e) = flash[s].units[p].ver => e = EntryAt(s, p)
    BY <1>5, <1>6, SMTT(30) DEF FlashInv, VersionInv, VersionsOnce
  <2>3. EntryAt(s, p) \in es => VerOf(EntryAt(s, p)) = flash[s].units[p].ver
    BY DEF VerOf, UnitAt, EntryAt
  <2> QED
    BY <1>0, <2>1, <2>2, <2>3, SMTT(30) DEF Forget
<1>7. TidyInv'
  <2>1. FirstUnit'
    BY <1>2, StoreAssumption, SMTT(30) DEF FlashInv, TidyInv, FirstUnit, Positions
  <2>2. BlankOn'
    BY <1>2, <1>c, SMTT(30) DEF FlashInv, TidyInv, BlankOn
  <2>3. ASSUME NEW s \in Sectors, NEW p \in Positions, Rec(s, p) PROVE WholeRecord(s, p)'
    <3> DEFINE u == flash[s].units[p]
    <3>1. WholeRecord(s, p) /\ u.len \in 0 .. MaxLen /\ p \in Nat \ {0} /\ p + u.len < SectorSize
      BY <2>3, UnitFields DEF FlashInv, TidyInv, WholeRecords, StoreInv, Rec
    <3>2. \A q \in PayloadAt(p, u.len) : q \in Positions /\ flash[s].units[q] = Data(u.ver)
      BY <1>1, <3>1, StoreAssumption, SMTT(30) DEF WholeRecord, PayloadAt, Positions
    <3>3. \A q \in PayloadAt(p, u.len) : flash'[s].units[q] = Data(u.ver)
      BY <1>2, <1>b, <3>2 DEF Rec
    <3>4. /\ flash'[s].units[p].len = u.len /\ flash'[s].units[p].ver = u.ver
          /\ flash'[s].units[p].good = u.good
      BY <1>2
    <3>5. \A q \in Positions : q = p + u.len + 1 => flash'[s].units[q].kind \in {"rec", "blank"}
      <4>1. \A q \in Positions : q = p + u.len + 1 => flash[s].units[q].kind \in {"rec", "blank"}
        BY <3>1 DEF WholeRecord
      <4> QED
        BY <1>2, <4>1
    <3>6. u.len > 0 /\ u.good /\ u.ver \in 1 .. nputs'
      BY <1>0, <3>1, SMTT(30) DEF WholeRecord
    <3> QED
      BY <1>1, <3>3, <3>4, <3>5, <3>6 DEF WholeRecord
  <2>4. WholeRecords'
    BY <1>3, <2>3 DEF WholeRecords
  <2>5. ClosedErased'
    BY <1>2, <1>c, SMTT(30) DEF FlashInv, TidyInv, ClosedErased
  <2> QED
    BY <2>1, <2>2, <2>4, <2>5 DEF TidyInv
<1>8. VersionInv'
  <2>1. VersionsOnce'
    BY <1>2, <1>3 DEF FlashInv, VersionInv, VersionsOnce
  <2>2. AliveKept'
    BY <1>2, <1>3, <1>6 DEF FlashInv, VersionInv, AliveKept, Live
  <2>3. gone' \subseteq 1 .. nputs
    <3>1. \A e \in es : VerOf(e) \in 1 .. nputs
      BY <1>4, <1>5
    <3>2. gone \subseteq 1 .. nputs
      BY DEF FlashInv, VersionInv
    <3>3. gone' = gone \cup ({VerOf(e) : e \in es} \ {0})
      BY DEF Forget
    <3> QED
      BY <3>1, <3>2, <3>3
  <2>4. PutIsNew'
    BY <1>0, <1>2, <1>3, <1>4, <2>3, SMTT(30) DEF PutIsNew
  <2>5. gone' \subseteq 1 .. nputs'
    BY <1>0, <2>3, SMTT(30)
  <2> QED
    BY <2>1, <2>2, <2>4, <2>5 DEF VersionInv
<1>12. PassedOld'
  BY <1>0, SMTT(30) DEF FlashInv, PassedOld
<1>9. HeadInv'
  <2>1. ASSUME write_off.pos # 0
        PROVE  /\ head_seq = flash'[write_off.sec].seq
               /\ \A p \in Positions : p + 1 = write_off.pos => flash'[write_off.sec].units[p].kind # "blank"
               /\ \A p \in Positions : p >= write_off.pos => flash'[write_off.sec].units[p] = Blank
    <3>1. write_off.sec \in Sectors
      BY <2>1, StoreAssumption, SMTT(30) DEF TypeOK, StoreInv, Sectors
    <3>2. /\ head_seq = flash[write_off.sec].seq
          /\ \A p \in Positions : p + 1 = write_off.pos => flash[write_off.sec].units[p].kind # "blank"
          /\ \A p \in Positions : p >= write_off.pos => flash[write_off.sec].units[p] = Blank
      BY <2>1 DEF FlashInv, HeadInv, HeadClean, HeadUnits
    <3>3. head_seq = flash'[write_off.sec].seq
      <4>1. 1 \in Positions
        BY StoreAssumption, SMTT(30) DEF Positions
      <4> QED
        BY <1>2, <3>1, <3>2, <4>1
    <3>4. \A p \in Positions : flash'[write_off.sec].units[p].kind = flash[write_off.sec].units[p].kind
      BY <1>2, <3>1
    <3> QED
      BY <1>c, <3>1, <3>2, <3>3, <3>4
  <2> QED
    BY <2>1 DEF HeadInv, HeadClean, HeadUnits
<1>10. RecordInv'
  <2>1. IndexTrue'
    <3>1. \A e \in index' : e \in index /\ e \notin es
      BY DEF Forget
    <3>2. \A e \in index : /\ e.sec \in Sectors /\ e.pos \in Positions
                           /\ Live(e.sec, e.pos) /\ e = EntryAt(e.sec, e.pos)
      BY DEF TypeOK, Entry, FlashInv, RecordInv, IndexTrue
    <3> QED
      BY <1>1, <1>3, <3>1, <3>2, SMTT(30) DEF IndexTrue
  <2>2. LatestThere'
    <3>1. ASSUME NEW k \in Keys, latest[k] # NoReq, latest[k].ver \notin gone'
          PROVE  \E s \in Sectors, p \in Positions :
                   /\ Live(s, p)' /\ flash'[s].units[p].ver = latest[k].ver
                   /\ flash'[s].units[p].key = k
      <4>1. latest[k].ver \notin gone
        BY <3>1 DEF Forget
      <4>2. PICK s \in Sectors, p \in Positions :
              Live(s, p) /\ flash[s].units[p].ver = latest[k].ver /\ flash[s].units[p].key = k
        BY <3>1, <4>1 DEF FlashInv, RecordInv, LatestThere
      <4>3. EntryAt(s, p) \notin es
        BY <1>6, <3>1, <4>2 DEF Live
      <4>4. Live(s, p)' /\ flash'[s].units[p] = flash[s].units[p]
        BY <1>3, <4>2, <4>3, TombstoneFlash
      <4> QED
        BY <4>2, <4>4
    <3>2. \A k \in Keys : latest[k] # NoReq => latest[k].ver \in 1 .. nputs'
      BY <1>0, SMTT(30) DEF FlashInv, RecordInv, LatestThere
    <3> QED
      BY <1>1, <3>1, <3>2 DEF LatestThere
  <2> QED
    BY <2>1, <2>2 DEF RecordInv
<1>11. ASSUME ListInv PROVE ListInv'
  <2>1. \A s \in Sectors, p \in Positions : Listable(s, p)' <=> Listable(s, p) /\ EntryAt(s, p) \notin es
    BY <1>1, <1>2, <1>3 DEF Listable
  <2>2. Listed' = Listed \ es
    <3>1. \A e \in Listed' : e \in Listed /\ e \notin es
      BY <1>3, <2>1, ListedIs, ListedIsNext, SMTT(30) DEF ListedExactly
    <3>2. \A e \in Listed : e \notin es => e \in Listed'
      BY <1>3, <2>1, ListedIs, ListedIsNext, SMTT(30) DEF ListedExactly
    <3> QED
      BY <3>1, <3>2
  <2>3. \A e \in Listed' : VerOf(e)' = VerOf(e)
    BY <1>2, ListedIsNext DEF ListedExactly, VerOf, UnitAt
  <2>4. ListSound'
    BY <1>11, <2>2, <2>3, ListShrinks DEF ListInv
  <2>5. index' = Listed'
    BY <1>11, <2>2 DEF ListInv, IndexFull, Forget
  <2> QED
    BY <2>4, <2>5 DEF ListInv, IndexFull
<1> QED
  BY <1>7, <1>8, <1>9, <1>10, <1>11, <1>12 DEF FlashInv

\* A put replaces the copy of its key.
LEMMA PutStartKept ==
  ASSUME IInv, KeptInv, NEW k \in Keys, NEW l \in 1 .. MaxLen, NEW x \in Expiries, PutStart(k, l, x)
  PROVE  KeptInv'
<1> SUFFICES ASSUME faults' = 0 PROVE FlashInv' /\ (revived' = {} => ListInv')
  BY DEF KeptInv
<1>1. EntriesOf(k) \in SUBSET index
  BY DEF EntriesOf
<1>2. faults = 0 /\ flash' = TombstoneAll(EntriesOf(k)) /\ Forget(EntriesOf(k))
  BY <1>1, TombstonesWritten DEF PutStart
<1>3. FlashInv /\ (revived = {} => ListInv)
  BY <1>2 DEF KeptInv
<1>4. /\ UNCHANGED <<write_off, head_seq, latest, passed, revived>>
      /\ pc = "idle" /\ pc' = "quota" /\ nputs' = nputs + 1 /\ req'.ver = nputs + 1
  BY DEF PutStart
<1> QED
  BY <1>1, <1>2, <1>3, <1>4, ForgetKept

\* A delete removes the record of its key.
LEMMA DeleteKept == ASSUME IInv, KeptInv, NEW k \in Keys, Delete(k) PROVE KeptInv'
<1> SUFFICES ASSUME faults' = 0 PROVE FlashInv' /\ (revived' = {} => ListInv')
  BY DEF KeptInv
<1> SetFacts /\ TypeOK /\ StoreInv
  BY DEF IInv
<1>1. EntriesOf(k) \in SUBSET index
  BY DEF EntriesOf
<1>2. faults = 0 /\ flash' = TombstoneAll(EntriesOf(k)) /\ Forget(EntriesOf(k))
  BY <1>1, TombstonesWritten DEF Delete
<1>3. FlashInv /\ (revived = {} => ListInv)
  BY <1>2 DEF KeptInv
<1>4. /\ UNCHANGED <<write_off, head_seq, latest, passed, revived, nputs>>
      /\ pc = "idle" /\ pc' = "idle" /\ req' = NoReq
  BY DEF Delete, StoreInv
<1> QED
  BY <1>1, <1>2, <1>3, <1>4, ForgetKept

\* An iteration removes expired records only: without damage every entry reads
\* back as a record.
LEMMA IterateKept == ASSUME IInv, KeptInv, NEW seen \in SUBSET index, Iterate(seen) PROVE KeptInv'
<1> SUFFICES ASSUME faults' = 0 PROVE FlashInv' /\ (revived' = {} => ListInv')
  BY DEF KeptInv
<1> SetFacts /\ TypeOK /\ StoreInv
  BY DEF IInv
<1> DEFINE expired == {e \in seen : Expired(e.exp)}
           unreadable == {e \in seen \ expired : UnitAt(e).kind # "rec"}
<1>1. expired \in SUBSET index
  OBVIOUS
<1>2. Tombstone(expired) /\ Forget(expired \cup unreadable)
  BY DEF Iterate
<1>3. faults = 0 /\ flash' = TombstoneAll(expired)
  BY <1>1, <1>2, TombstonesWritten
<1>4. FlashInv /\ (revived = {} => ListInv)
  BY <1>3 DEF KeptInv
<1>5. unreadable = {}
  BY <1>4 DEF FlashInv, RecordInv, IndexTrue, Live, Rec, UnitAt
<1>6. Forget(expired)
  <2>1. expired \cup unreadable = expired
    BY <1>5
  <2> QED
    BY <1>2, <2>1
<1>7. /\ UNCHANGED <<write_off, head_seq, latest, passed, revived, nputs>>
      /\ pc = "idle" /\ pc' = "idle" /\ req' = NoReq
  BY DEF Iterate, StoreInv
<1> HIDE DEF expired
<1> QED
  BY <1>1, <1>3, <1>4, <1>6, <1>7, ForgetKept
=============================================================================
