--------------------------- MODULE StoreKeptProofs ----------------------------
(***************************************************************************)
(* What bitle_store.c keeps, for every geometry of the partition, every    *)
(* record budget, every number of puts, power losses and flash errors and  *)
(* every clock.                                                            *)
(***************************************************************************)
EXTENDS StoreBootProofs

USE ZenonT(30)
USE DEF ram, bounds, hist, boots

-----------------------------------------------------------------------------
(* Erasing and opening sectors.                                            *)

\* Erasing a sector and forgetting its records keeps the records of the others.
LEMMA EraseKept ==
  ASSUME IInv, FlashInv, NEW x \in Sectors, flash' = [flash EXCEPT ![x] = ErasedSector],
         index' = index \ EntriesIn(x), gone' = gone \cup VersionsIn(x),
         write_off.pos # 0 => write_off.sec # x,
         UNCHANGED <<write_off, head_seq, cur, req, nputs, latest, passed>>,
         \/ pc = "quota" /\ pc' = "quota"
         \/ pc = "open" /\ pc' = "sechdr" /\ cur.sec = x
  PROVE  FlashInv' /\ (ListInv => ListInv')
<1> SetFacts /\ TypeOK /\ StoreInv
  BY DEF IInv
<1>1. \A s, p : ~ Half(s, p) /\ ~ Half(s, p)'
  BY DEF Half
<1>b. Blank.kind = "blank"
  BY DEF Blank
<1>2. /\ flash'[x].seq = 0 /\ \A p \in Positions : flash'[x].units[p] = Blank
      /\ \A s \in Sectors : s # x => flash'[s] = flash[s]
  <2>1. flash \in [Sectors -> [seq : Nat, units : [Positions -> Unit]]]
    BY DEF TypeOK
  <2> QED
    BY <2>1 DEF ErasedSector
<1>3. \A s \in Sectors, p \in Positions :
        /\ Rec(s, p)' <=> Rec(s, p) /\ s # x
        /\ Live(s, p)' <=> Live(s, p) /\ s # x
        /\ s # x => EntryAt(s, p)' = EntryAt(s, p)
  BY <1>2, <1>b DEF Rec, Live, EntryAt
<1>4. VersionsIn(x) = {flash[x].units[p].ver : p \in {q \in Positions : Rec(x, q)}}
  BY DEF VersionsIn, Rec
<1>5. \A s \in Sectors, p \in Positions :
        Rec(s, p) => (flash[s].units[p].ver \in VersionsIn(x) <=> s = x)
  BY <1>4, SMTT(30) DEF FlashInv, VersionInv, VersionsOnce
<1>6. VersionsIn(x) \subseteq 1 .. nputs
  BY <1>4 DEF FlashInv, TidyInv, WholeRecords, WholeRecord
<1>7. TidyInv'
  <2>1. FirstUnit'
    BY <1>2, <1>b, StoreAssumption, SMTT(30) DEF FlashInv, TidyInv, FirstUnit, Positions
  <2>2. BlankOn'
    BY <1>2, SMTT(30) DEF FlashInv, TidyInv, BlankOn
  <2>3. WholeRecords'
    <3>1. ASSUME NEW s \in Sectors, NEW p \in Positions, Rec(s, p)' PROVE WholeRecord(s, p)'
      <4>1. s # x /\ WholeRecord(s, p) /\ flash'[s] = flash[s]
        BY <1>2, <1>3, <3>1 DEF FlashInv, TidyInv, WholeRecords
      <4> QED
        BY <1>1, <4>1 DEF WholeRecord
    <3> QED
      BY <3>1 DEF WholeRecords
  <2>4. ClosedErased'
    BY <1>2, SMTT(30) DEF FlashInv, TidyInv, ClosedErased
  <2> QED
    BY <2>1, <2>2, <2>3, <2>4 DEF TidyInv
<1>8. VersionInv'
  <2>1. VersionsOnce'
    BY <1>2, <1>3, SMTT(30) DEF FlashInv, VersionInv, VersionsOnce
  <2>2. AliveKept'
    BY <1>2, <1>3, <1>5, SMTT(30) DEF FlashInv, VersionInv, AliveKept, Live
  <2>3. gone' \subseteq 1 .. nputs'
    <3>1. gone \subseteq 1 .. nputs
      BY DEF FlashInv, VersionInv
    <3>2. nputs' = nputs
      OBVIOUS
    <3> QED
      BY <1>6, <3>1, <3>2
  <2>4. PutIsNew'
    <3>1. req # NoReq => nputs \notin VersionsIn(x)
      BY <1>1, <1>4 DEF FlashInv, VersionInv, PutIsNew
    <3> QED
      BY <1>1, <1>2, <1>3, <3>1, SMTT(30) DEF FlashInv, VersionInv, PutIsNew
  <2> QED
    BY <2>1, <2>2, <2>3, <2>4 DEF VersionInv
<1>9. PassedOld'
  BY DEF FlashInv, PassedOld
<1>10. HeadInv'
  <2>1. HeadClean'
    <3>1. write_off.pos # 0 => flash'[write_off.sec] = flash[write_off.sec]
      BY <1>2, StoreAssumption, SMTT(30) DEF TypeOK, StoreInv, Sectors
    <3> QED
      BY <3>1 DEF FlashInv, HeadInv, HeadClean, HeadUnits
  <2> QED
    BY <1>2, <2>1 DEF HeadInv
<1>11. RecordInv'
  <2>1. IndexTrue'
    <3>1. \A e \in index' : e \in index /\ e.sec # x
      BY DEF EntriesIn
    <3>2. \A e \in index : /\ e.sec \in Sectors /\ e.pos \in Positions
                           /\ Live(e.sec, e.pos) /\ e = EntryAt(e.sec, e.pos)
      BY DEF TypeOK, Entry, FlashInv, RecordInv, IndexTrue
    <3> QED
      BY <1>1, <1>3, <3>1, <3>2 DEF IndexTrue
  <2>2. LatestThere'
    <3>1. ASSUME NEW k \in Keys, latest[k] # NoReq, latest[k].ver \notin gone'
          PROVE  \E s \in Sectors, p \in Positions :
                   /\ Live(s, p)' /\ flash'[s].units[p].ver = latest[k].ver
                   /\ flash'[s].units[p].key = k
      <4>1. PICK s \in Sectors, p \in Positions :
              Live(s, p) /\ flash[s].units[p].ver = latest[k].ver /\ flash[s].units[p].key = k
        BY <3>1 DEF FlashInv, RecordInv, LatestThere
      <4>2. s # x
        BY <1>5, <3>1, <4>1 DEF Live
      <4> QED
        BY <1>2, <1>3, <4>1, <4>2
    <3>2. \A k \in Keys : latest[k] # NoReq => latest[k].ver \in 1 .. nputs'
      BY DEF FlashInv, RecordInv, LatestThere
    <3> QED
      BY <1>1, <3>1, <3>2, SMTT(30) DEF LatestThere
  <2> QED
    BY <2>1, <2>2 DEF RecordInv
<1>12. ASSUME ListInv PROVE ListInv'
  <2>1. \A s \in Sectors, p \in Positions : Listable(s, p)' <=> Listable(s, p) /\ s # x
    BY <1>1, <1>2, <1>3, SMTT(30) DEF Listable
  <2>2. Listed' = Listed \ {e \in Listed : e.sec = x}
    <3>1. \A e \in Listed' : e \in Listed /\ e.sec # x
      BY <1>3, <2>1, ListedIs, ListedIsNext, SMTT(30) DEF ListedExactly
    <3>2. \A e \in Listed : e.sec # x => e \in Listed'
      BY <1>3, <2>1, ListedIs, ListedIsNext, SMTT(30) DEF ListedExactly
    <3> QED
      BY <3>1, <3>2
  <2>3. \A e \in Listed' : VerOf(e)' = VerOf(e)
    BY <1>2, <2>1, ListedIsNext DEF ListedExactly, VerOf, UnitAt
  <2>4. ListSound'
    BY <1>12, <2>2, <2>3, ListShrinks DEF ListInv
  <2>5. index' = Listed'
    BY <1>12, <2>2 DEF ListInv, IndexFull, EntriesIn
  <2> QED
    BY <2>4, <2>5 DEF ListInv, IndexFull
<1> QED
  BY <1>7, <1>8, <1>9, <1>10, <1>11, <1>12 DEF FlashInv

\* The quota loop gives up a sector with its records.
LEMMA ReclaimKept == ASSUME IInv, KeptInv, Reclaim PROVE KeptInv'
<1> SUFFICES ASSUME faults' = 0 PROVE FlashInv' /\ (revived' = {} => ListInv')
  BY DEF KeptInv
<1> SetFacts /\ TypeOK /\ StoreInv
  BY DEF IInv
<1>0. faults \in Nat
  BY SMTT(30) DEF TypeOK
<1>1. PICK s \in OldestOf(Reclaimable) :
        /\ DropSector(s)
        /\ flash' = [flash EXCEPT ![s] = ErasedSector] /\ faults' = faults
  BY <1>0, SMTT(30) DEF Reclaim
<1>2. s \in Sectors /\ s # write_off.sec
  BY DEF OldestOf, Reclaimable
<1>3. FlashInv /\ (revived = {} => ListInv)
  BY <1>1 DEF KeptInv
<1>4. /\ UNCHANGED <<write_off, head_seq, cur, req, nputs, latest, passed, revived>>
      /\ pc = "quota" /\ pc' = "quota"
  BY DEF Reclaim
<1>5. index' = index \ EntriesIn(s) /\ gone' = gone \cup VersionsIn(s)
  BY <1>1 DEF DropSector
<1> QED
  BY <1>1, <1>2, <1>3, <1>4, <1>5, EraseKept

\* open_sector forgets what the sector holds and erases it.
LEMMA OpenEraseKept == ASSUME IInv, KeptInv, OpenErase PROVE KeptInv'
<1> SUFFICES ASSUME faults' = 0 PROVE FlashInv' /\ (revived' = {} => ListInv')
  BY DEF KeptInv
<1> SetFacts /\ TypeOK /\ StoreInv
  BY DEF IInv
<1>0. faults \in Nat /\ cur.sec \in Sectors /\ (write_off.pos # 0 => write_off.sec # cur.sec)
  BY StoreAssumption, SMTT(30) DEF TypeOK, StoreInv, OpenErase, Sectors
<1>1. /\ flash' = [flash EXCEPT ![cur.sec] = ErasedSector] /\ faults' = faults
      /\ pc = "open" /\ pc' = "sechdr" /\ gone' = gone \cup VersionsIn(cur.sec)
      /\ UNCHANGED <<write_off, head_seq, cur, req, nputs, latest, passed, revived>>
  BY <1>0, SMTT(30) DEF OpenErase
<1>2. index' = index \ EntriesIn(cur.sec)
  <2>1. flash[cur.sec].seq = 0 => EntriesIn(cur.sec) = {}
    BY DEF StoreInv, IndexSound, EntriesIn
  <2> QED
    BY <2>1 DEF OpenErase
<1>3. FlashInv /\ (revived = {} => ListInv)
  BY <1>1 DEF KeptInv
<1> QED
  BY <1>0, <1>1, <1>2, <1>3, EraseKept

\* The header of a sector that was just erased: its units stay erased, and the
\* write head moves to its first one.
LEMMA OpenHeaderKept == ASSUME IInv, KeptInv, OpenHeader PROVE KeptInv'
<1> SUFFICES ASSUME faults' = 0 PROVE FlashInv' /\ (revived' = {} => ListInv')
  BY DEF KeptInv
<1> SetFacts /\ TypeOK /\ StoreInv
  BY DEF IInv
<1>0. /\ faults \in Nat /\ cur.sec \in Sectors
      /\ flash \in [Sectors -> [seq : Nat, units : [Positions -> Unit]]]
  <2>1. cur.sec \in 0 .. NSectors /\ cur.sec < NSectors
    BY DEF TypeOK, StoreInv, OpenHeader
  <2>2. cur.sec \in Sectors
    BY <2>1, StoreAssumption, SMTT(30) DEF Sectors
  <2>3. faults \in 0 .. MaxFaults
    BY DEF TypeOK
  <2>4. faults \in Nat
    BY <2>3, StoreAssumption, SMTT(30)
  <2> QED
    BY <2>2, <2>4 DEF TypeOK
<1>1. /\ flash' = [flash EXCEPT ![cur.sec].seq = next_seq] /\ faults' = faults
      /\ pc = "sechdr" /\ pc' \in {"idle", "room"} /\ write_off' = [sec |-> cur.sec, pos |-> 1]
      /\ head_seq' = next_seq
      /\ UNCHANGED <<index, req, nputs, latest, gone, passed, revived>>
  BY <1>0, SMTT(30) DEF OpenHeader, OpenedHead
<1>2. FlashInv /\ (revived = {} => ListInv)
  BY <1>1 DEF KeptInv
<1>3. /\ \A s \in Sectors : flash'[s].units = flash[s].units
      /\ \A s \in Sectors : s # cur.sec => flash'[s].seq = flash[s].seq
      /\ flash'[cur.sec].seq = next_seq
  BY <1>0, <1>1
<1>4. \A p \in Positions : flash[cur.sec].units[p] = Blank
  BY <1>0, <1>1, <1>2 DEF FlashInv, HeadInv, TidyInv, ClosedErased
<1>5. \A s, p : ~ Half(s, p) /\ ~ Half(s, p)'
  BY <1>1 DEF Half
<1>b. Blank.kind = "blank"
  BY DEF Blank
<1>6. \A s \in Sectors, p \in Positions :
        /\ Rec(s, p)' <=> Rec(s, p)
        /\ Live(s, p)' <=> Live(s, p)
        /\ Rec(s, p) => EntryAt(s, p)' = EntryAt(s, p)
  BY <1>3, <1>4, <1>b DEF Rec, Live, EntryAt
<1>7. TidyInv'
  <2>1. FirstUnit' /\ BlankOn'
    BY <1>2, <1>3 DEF FlashInv, TidyInv, FirstUnit, BlankOn
  <2>2. WholeRecords'
    BY <1>1, <1>2, <1>3, <1>5, <1>6, SMTT(30) DEF FlashInv, TidyInv, WholeRecords, WholeRecord
  <2>3. ClosedErased'
    BY <1>2, <1>3, <1>4 DEF FlashInv, TidyInv, ClosedErased
  <2> QED
    BY <2>1, <2>2, <2>3 DEF TidyInv
<1>8. VersionInv' /\ PassedOld'
  BY <1>1, <1>2, <1>3, <1>5, <1>6, SMTT(30)
  DEF FlashInv, VersionInv, VersionsOnce, AliveKept, PutIsNew, PassedOld, Live
<1>9. HeadInv'
  <2>1. \A p \in Positions : p + 1 # 1
    BY StoreAssumption, SMTT(30) DEF Positions
  <2>2. HeadClean'
    BY <1>0, <1>1, <1>3, <1>4, <2>1 DEF HeadClean, HeadUnits
  <2> QED
    BY <1>1, <2>2 DEF HeadInv
<1>10. RecordInv'
  <2>1. IndexTrue'
    <3>1. \A e \in index : /\ e.sec \in Sectors /\ e.pos \in Positions /\ Rec(e.sec, e.pos)
                           /\ Live(e.sec, e.pos) /\ e = EntryAt(e.sec, e.pos)
      BY <1>2 DEF TypeOK, Entry, FlashInv, RecordInv, IndexTrue, Live
    <3> QED
      BY <1>1, <1>5, <1>6, <3>1 DEF IndexTrue
  <2>2. LatestThere'
    BY <1>1, <1>2, <1>3, <1>5, <1>6, SMTT(30) DEF FlashInv, RecordInv, LatestThere
  <2> QED
    BY <2>1, <2>2 DEF RecordInv
<1>11. ASSUME ListInv PROVE ListInv'
  <2>1. \A s \in Sectors, p \in Positions :
          /\ Listable(s, p)' <=> Listable(s, p)
          /\ Listable(s, p) => EntryAt(s, p)' = EntryAt(s, p)
    BY <1>1, <1>3, <1>5, <1>6, SMTT(30) DEF Listable, Live
  <2>2. Listed' = Listed
    <3>1. \A e \in Listed' : e \in Listed
      BY <2>1, ListedIs, ListedIsNext, SMTT(30) DEF ListedExactly
    <3>2. \A e \in Listed : e \in Listed'
      BY <2>1, ListedIs, ListedIsNext, SMTT(30) DEF ListedExactly
    <3> QED
      BY <3>1, <3>2
  <2>3. \A e \in Listed' : VerOf(e)' = VerOf(e)
    BY <1>3, ListedIsNext DEF ListedExactly, VerOf, UnitAt
  <2>4. ListSound'
    BY <1>1, <1>11, <2>2, <2>3, ListShrinks DEF ListInv
  <2>5. index' = Listed'
    BY <1>1, <1>11, <2>2 DEF ListInv, IndexFull
  <2> QED
    BY <1>1, <2>4, <2>5 DEF ListInv, IndexFull
<1> QED
  BY <1>1, <1>2, <1>7, <1>8, <1>9, <1>10, <1>11 DEF FlashInv

-----------------------------------------------------------------------------
(* Writing a record.                                                       *)

\* Where a record goes: erased units behind the last record of the head sector.
LEMMA HeadRoom ==
  ASSUME IInv, FlashInv, pc \in {"hdr", "payload"}
  PROVE  /\ write_off.sec \in Sectors /\ write_off.pos \in Positions /\ req \in Request
         /\ write_off.pos + req.len < SectorSize
         /\ head_seq = flash[write_off.sec].seq
         /\ \A p \in Positions : p < write_off.pos => HeadUnits[p].kind # "blank"
         /\ \A p \in Positions : p > write_off.pos => HeadUnits[p] = Blank
         /\ pc = "hdr" => HeadUnits[write_off.pos] = Blank
<1> SetFacts /\ TypeOK /\ StoreInv
  BY DEF IInv
<1>1. /\ write_off \in [sec : 0 .. NSectors, pos : 0 .. SectorSize - 1]
      /\ req \in Request \cup {NoReq} /\ req # NoReq /\ Fits
  BY DEF TypeOK, StoreInv
<1>2. /\ write_off.sec \in Sectors /\ write_off.pos \in Positions /\ req \in Request
      /\ req.len \in 1 .. MaxLen
  BY <1>1, StoreAssumption, SMTT(30) DEF Fits, Sectors, Positions, Request
<1>3. write_off.pos + req.len < SectorSize
  BY <1>1, <1>2, StoreAssumption, SMTT(30) DEF Fits, Positions
<1>4. /\ head_seq = flash[write_off.sec].seq
      /\ \A p \in Positions : p + 1 = write_off.pos => HeadUnits[p].kind # "blank"
      /\ pc # "payload" => \A p \in Positions : p >= write_off.pos => HeadUnits[p] = Blank
  BY <1>1 DEF FlashInv, HeadInv, HeadClean, Fits
<1>b. Blank.kind = "blank"
  BY DEF Blank
<1>5. ASSUME NEW p \in Positions, p < write_off.pos PROVE HeadUnits[p].kind # "blank"
  <2>1. write_off.pos - 1 \in Positions /\ p <= write_off.pos - 1 /\ (write_off.pos - 1) + 1 = write_off.pos
    BY <1>2, <1>5, StoreAssumption, SMTT(30) DEF Positions
  <2>2. HeadUnits[write_off.pos - 1].kind # "blank"
    BY <1>4, <2>1
  <2>3. HeadUnits[p].kind = "blank" => HeadUnits[write_off.pos - 1] = Blank
    BY <1>2, <2>1 DEF FlashInv, TidyInv, BlankOn, HeadUnits
  <2> QED
    BY <1>b, <2>2, <2>3
<1>6. ASSUME NEW p \in Positions, p > write_off.pos PROVE HeadUnits[p] = Blank
  <2>1. CASE pc # "payload"
    BY <1>2, <1>4, <1>6, <2>1, SMTT(30) DEF Positions
  <2>2. CASE pc = "payload"
    <3>1. HeadUnits[write_off.pos] = RecHdr(req)
      BY <2>2 DEF FlashInv, HeadInv
    <3>2. Rec(write_off.sec, write_off.pos) /\ Half(write_off.sec, write_off.pos)
      BY <2>2, <3>1, SMTT(30) DEF Rec, Half, HeadUnits, RecHdr
    <3>3. write_off.pos + 1 \in Positions /\ write_off.pos + 1 <= p
      BY <1>2, <1>3, <1>6, StoreAssumption, SMTT(30) DEF Positions
    <3>4. HeadUnits[write_off.pos].len = req.len
      BY <3>1, SMTT(30) DEF RecHdr
    <3>5. write_off.pos + 1 \in PayloadAt(write_off.pos, HeadUnits[write_off.pos].len)
      BY <1>2, <3>4, StoreAssumption, SMTT(30) DEF PayloadAt, Positions
    <3>6. WholeRecord(write_off.sec, write_off.pos)
      BY <1>2, <3>2 DEF FlashInv, TidyInv, WholeRecords
    <3>7. HeadUnits[write_off.pos + 1] = Blank
      BY <3>2, <3>5, <3>6 DEF WholeRecord, HeadUnits
    <3> QED
      BY <1>2, <1>b, <3>3, <3>7 DEF FlashInv, TidyInv, BlankOn, HeadUnits
  <2> QED
    BY <2>1, <2>2
<1>7. pc = "hdr" => HeadUnits[write_off.pos] = Blank
  BY <1>2, <1>4, SMTT(30) DEF Positions
<1> QED
  BY <1>2, <1>3, <1>4, <1>5, <1>6, <1>7

\* The header goes onto an erased unit, which makes it the one half written
\* record.
LEMMA WriteHeaderKept == ASSUME IInv, KeptInv, WriteHeader PROVE KeptInv'
<1> SUFFICES ASSUME faults' = 0 PROVE FlashInv' /\ (revived' = {} => ListInv')
  BY DEF KeptInv
<1> SetFacts /\ TypeOK /\ StoreInv
  BY DEF IInv
<1>x. PICK x : x = write_off.sec
  OBVIOUS
<1>h. PICK h : h = write_off.pos
  OBVIOUS
<1>0. /\ faults \in Nat
      /\ flash \in [Sectors -> [seq : Nat, units : [Positions -> Unit]]]
  BY SMTT(30) DEF TypeOK
<1>1. PICK u \in ProgramHdr(HeadUnits[write_off.pos], RecHdr(req)) :
        /\ SetHead(HeadHdr(u)) /\ faults' = faults
        /\ pc = "hdr" /\ pc' = "payload"
        /\ UNCHANGED <<index, write_off, head_seq, cur, req, nputs, latest, gone, passed, revived>>
  BY <1>0, SMTT(30) DEF WriteHeader
<1>2. FlashInv /\ (revived = {} => ListInv)
  BY <1>1 DEF KeptInv
<1>3. /\ x \in Sectors /\ h \in Positions /\ req \in Request /\ h + req.len < SectorSize
      /\ \A p \in Positions : p < h => flash[x].units[p].kind # "blank"
      /\ \A p \in Positions : p >= h => flash[x].units[p] = Blank
  BY <1>1, <1>2, <1>x, <1>h, HeadRoom, SMTT(30) DEF HeadUnits, Positions
<1>4. u = RecHdr(req)
  <2>1. HeadUnits[write_off.pos] = Blank
    BY <1>1, <1>2, HeadRoom
  <2> QED
    BY <2>1 DEF ProgramHdr
<1>5. /\ flash'[x].units[h] = RecHdr(req) /\ \A s \in Sectors : flash'[s].seq = flash[s].seq
      /\ \A s \in Sectors, p \in Positions : ~ (s = x /\ p = h) => flash'[s].units[p] = flash[s].units[p]
  BY <1>0, <1>1, <1>3, <1>4, <1>x, <1>h DEF SetHead, HeadHdr, HeadUnits
<1>6. \A s, p : ~ Half(s, p) /\ (Half(s, p)' <=> s = x /\ p = h)
  BY <1>1, <1>x, <1>h DEF Half
<1>b. Blank.kind = "blank" /\ \A v : Data(v).kind = "data"
  BY DEF Blank, Data
<1>r. /\ RecHdr(req).kind = "rec" /\ RecHdr(req).ver = req.ver /\ RecHdr(req).len = req.len
      /\ RecHdr(req).good /\ req.len \in 1 .. MaxLen
  BY <1>3 DEF RecHdr, Request
<1>n. req.ver = nputs /\ nputs \notin gone /\ nputs \in 1 .. nputs
      /\ \A s \in Sectors, p \in Positions : Rec(s, p) => flash[s].units[p].ver # nputs
  <2>1. req # NoReq /\ req.ver \in Nat \ {0}
    BY <1>3, StoreAssumption, SMTT(30) DEF Request, NoReq, Versions
  <2>2. /\ req.ver = nputs /\ nputs \notin gone
        /\ \A s \in Sectors, p \in Positions : Rec(s, p) => flash[s].units[p].ver # nputs
    BY <1>2, <1>6, <2>1 DEF FlashInv, VersionInv, PutIsNew
  <2>3. nputs \in 1 .. nputs
    BY <2>1, <2>2, SMTT(30)
  <2> QED
    BY <2>2, <2>3
<1>7. /\ ~ Rec(x, h)
      /\ \A s \in Sectors, p \in Positions :
        /\ Rec(s, p)' <=> Rec(s, p) \/ (s = x /\ p = h)
        /\ Rec(s, p) => EntryAt(s, p)' = EntryAt(s, p) /\ (Live(s, p)' <=> Live(s, p))
  BY <1>3, <1>5, <1>b, <1>r, SMTT(30) DEF Rec, Live, EntryAt, Positions
<1>8. TidyInv'
  <2>1. FirstUnit'
    BY <1>2, <1>5, <1>r, StoreAssumption, SMTT(30) DEF FlashInv, TidyInv, FirstUnit, Positions
  <2>2. BlankOn'
    <3>1. ASSUME NEW s \in Sectors, NEW p \in Positions, NEW q \in Positions, p <= q,
                 flash'[s].units[p].kind = "blank"
          PROVE  flash'[s].units[q] = Blank
      <4>1. ~ (s = x /\ p = h) /\ flash[s].units[p].kind = "blank"
        BY <1>5, <1>r, <3>1
      <4>2. ~ (s = x /\ q = h)
        BY <1>3, <3>1, <4>1, SMTT(30) DEF Positions
      <4>3. flash[s].units[q] = Blank
        BY <1>2, <3>1, <4>1 DEF FlashInv, TidyInv, BlankOn
      <4> QED
        BY <1>5, <4>2, <4>3
    <3> QED
      BY <3>1 DEF BlankOn
  <2>3. WholeRecords'
    <3>1. ASSUME NEW s \in Sectors, NEW p \in Positions, Rec(s, p) PROVE WholeRecord(s, p)'
      <4> DEFINE w == flash[s].units[p]
      <4>1. /\ w.len \in 0 .. MaxLen /\ p \in Nat \ {0} /\ p + w.len < SectorSize
            /\ ~ (s = x /\ p = h) /\ WholeRecord(s, p)
        BY <1>2, <1>7, <3>1, UnitFields DEF FlashInv, TidyInv, WholeRecords, StoreInv, Rec
      <4>2. flash'[s].units[p] = w
        BY <1>5, <4>1
      <4>3. \A q \in PayloadAt(p, w.len) : q \in Positions /\ flash[s].units[q] = Data(w.ver)
        BY <1>6, <4>1, StoreAssumption, SMTT(30) DEF WholeRecord, PayloadAt, Positions
      <4>4. \A q \in PayloadAt(p, w.len) : flash'[s].units[q] = Data(w.ver)
        <5>1. flash[x].units[h].kind = "blank"
          BY <1>3, <1>b, SMTT(30) DEF Positions
        <5> QED
          BY <1>5, <1>b, <4>3, <5>1
      <4>5. \A q \in Positions : q = p + w.len + 1 => flash[s].units[q].kind \in {"rec", "blank"}
        BY <4>1 DEF WholeRecord
      <4>6. \A q \in Positions : q = p + w.len + 1 => flash'[s].units[q].kind \in {"rec", "blank"}
        BY <1>5, <1>r, <4>5
      <4>7. w.len > 0 /\ w.good /\ w.ver \in 1 .. nputs'
        BY <1>1, <4>1 DEF WholeRecord
      <4> QED
        BY <1>6, <4>1, <4>2, <4>4, <4>6, <4>7 DEF WholeRecord
    <3>2. WholeRecord(x, h)'
      <4>1. \A q \in PayloadAt(h, req.len) : q \in Positions /\ q > h
        BY <1>3, <1>r, StoreAssumption, SMTT(30) DEF PayloadAt, Positions
      <4>2. \A q \in PayloadAt(h, req.len) : flash'[x].units[q] = Blank
        BY <1>3, <1>5, <4>1, SMTT(30) DEF Positions
      <4>3. \A q \in Positions : q = h + req.len + 1 => flash'[x].units[q] = Blank
        BY <1>3, <1>5, <1>r, StoreAssumption, SMTT(30) DEF Positions
      <4> QED
        BY <1>1, <1>5, <1>6, <1>b, <1>r, <1>n, <4>2, <4>3, SMTT(30) DEF WholeRecord
    <3> QED
      BY <1>7, <3>1, <3>2 DEF WholeRecords
  <2>4. ClosedErased'
    <3>1. flash[x].seq # 0
      BY <1>1, <1>x DEF StoreInv, Fits
    <3> QED
      BY <1>2, <1>5, <3>1, SMTT(30) DEF FlashInv, TidyInv, ClosedErased
  <2> QED
    BY <2>1, <2>2, <2>3, <2>4 DEF TidyInv
<1>v. \A s \in Sectors, p \in Positions :
        Rec(s, p)' => IF s = x /\ p = h THEN flash'[s].units[p].ver = nputs
                      ELSE Rec(s, p) /\ flash'[s].units[p] = flash[s].units[p]
  BY <1>5, <1>7, <1>r, <1>n
<1>9. VersionInv' /\ PassedOld'
  <2>1. VersionsOnce'
    <3>1. \A s, t \in Sectors, p, q \in Positions :
            Rec(s, p) /\ Rec(t, q) /\ flash[s].units[p].ver = flash[t].units[q].ver => s = t /\ p = q
      BY <1>2 DEF FlashInv, VersionInv, VersionsOnce
    <3>2. \A s \in Sectors, p \in Positions : Rec(s, p) => flash[s].units[p].ver # nputs
      BY <1>n
    <3> SUFFICES ASSUME NEW s \in Sectors, NEW t \in Sectors, NEW p \in Positions, NEW q \in Positions,
                        Rec(s, p)', Rec(t, q)', flash'[s].units[p].ver = flash'[t].units[q].ver
                 PROVE  s = t /\ p = q
      BY DEF VersionsOnce
    <3>a. IF s = x /\ p = h THEN flash'[s].units[p].ver = nputs
          ELSE Rec(s, p) /\ flash'[s].units[p] = flash[s].units[p]
      BY <1>v
    <3>b. IF t = x /\ q = h THEN flash'[t].units[q].ver = nputs
          ELSE Rec(t, q) /\ flash'[t].units[q] = flash[t].units[q]
      BY <1>v
    <3>3. CASE s = x /\ p = h
      BY <3>2, <3>3, <3>a, <3>b
    <3>4. CASE t = x /\ q = h
      BY <3>2, <3>4, <3>a, <3>b
    <3>5. CASE ~ (s = x /\ p = h) /\ ~ (t = x /\ q = h)
      <4>1. flash[s].units[p].ver = flash[t].units[q].ver
        BY <3>5, <3>a, <3>b
      <4> QED
        BY <3>1, <3>5, <3>a, <3>b, <4>1
    <3> QED
      BY <3>3, <3>4, <3>5
  <2>2. AliveKept'
    <3>1. \A s \in Sectors, p \in Positions : Live(s, p)' => Rec(s, p)'
      BY DEF Live
    <3> QED
      BY <1>1, <1>2, <1>7, <1>n, <1>v, <3>1 DEF FlashInv, VersionInv, AliveKept
  <2>3. PutIsNew' /\ PassedOld' /\ gone' \subseteq 1 .. nputs'
    BY <1>1, <1>2, <1>6, <1>n, <1>v, SMTT(30) DEF FlashInv, VersionInv, PutIsNew, PassedOld
  <2> QED
    BY <2>1, <2>2, <2>3 DEF VersionInv
<1>10. HeadInv'
  <2>1. head_seq = flash[x].seq
    BY <1>1, <1>2, <1>x, HeadRoom
  <2>2. \A p \in Positions : p + 1 = h => flash'[x].units[p].kind # "blank"
    BY <1>3, <1>5, SMTT(30) DEF Positions
  <2>3. HeadClean'
    BY <1>1, <1>3, <1>5, <1>x, <1>h, <2>1, <2>2 DEF HeadClean, HeadUnits
  <2> QED
    BY <1>1, <1>5, <1>x, <1>h, <2>3 DEF HeadInv, HeadUnits
<1>11. RecordInv'
  <2>1. IndexTrue'
    <3>1. \A e \in index : /\ e.sec \in Sectors /\ e.pos \in Positions /\ Rec(e.sec, e.pos)
                           /\ Live(e.sec, e.pos) /\ e = EntryAt(e.sec, e.pos)
      BY <1>2 DEF TypeOK, Entry, FlashInv, RecordInv, IndexTrue, Live
    <3> QED
      BY <1>1, <1>6, <1>7, <3>1, SMTT(30) DEF IndexTrue
  <2>2. LatestThere'
    <3>1. ASSUME NEW k \in Keys, latest[k] # NoReq, latest[k].ver \notin gone
          PROVE  \E s \in Sectors, p \in Positions :
                   /\ Live(s, p)' /\ ~ Half(s, p)' /\ flash'[s].units[p].ver = latest[k].ver
                   /\ flash'[s].units[p].key = k
      <4>1. PICK s \in Sectors, p \in Positions :
              Live(s, p) /\ flash[s].units[p].ver = latest[k].ver /\ flash[s].units[p].key = k
        BY <1>2, <3>1 DEF FlashInv, RecordInv, LatestThere
      <4>2. Rec(s, p) /\ ~ (s = x /\ p = h)
        BY <1>7, <4>1 DEF Live
      <4> QED
        BY <1>5, <1>6, <1>7, <4>1, <4>2
    <3> QED
      BY <1>1, <1>2, <3>1, SMTT(30) DEF FlashInv, RecordInv, LatestThere
  <2> QED
    BY <2>1, <2>2 DEF RecordInv
<1>12. ASSUME ListInv PROVE ListInv'
  <2>1. \A s \in Sectors, p \in Positions :
          /\ Listable(s, p)' <=> Listable(s, p)
          /\ Listable(s, p) => EntryAt(s, p)' = EntryAt(s, p)
    BY <1>1, <1>5, <1>6, <1>7, SMTT(30) DEF Listable, Live
  <2>2. Listed' = Listed
    <3>1. \A e \in Listed' : e \in Listed
      BY <2>1, ListedIs, ListedIsNext, SMTT(30) DEF ListedExactly
    <3>2. \A e \in Listed : e \in Listed'
      BY <2>1, ListedIs, ListedIsNext, SMTT(30) DEF ListedExactly
    <3> QED
      BY <3>1, <3>2
  <2>3. \A e \in Listed' : VerOf(e)' = VerOf(e)
    <3>1. \A e \in Listed : e.sec \in Sectors /\ e.pos \in Positions /\ Rec(e.sec, e.pos)
      BY ListedIs DEF ListedExactly, Listable, Live
    <3> QED
      BY <1>5, <1>7, <2>2, <3>1 DEF VerOf, UnitAt
  <2>4. ListSound'
    BY <1>1, <1>12, <2>2, <2>3, ListShrinks DEF ListInv
  <2>5. index' = Listed'
    BY <1>1, <1>12, <2>2 DEF ListInv, IndexFull
  <2> QED
    BY <1>1, <2>4, <2>5 DEF ListInv, IndexFull
<1> QED
  BY <1>1, <1>2, <1>8, <1>9, <1>10, <1>11, <1>12 DEF FlashInv

\* The payload completes the record: it is indexed, it is the latest of its key,
\* and the write head moves behind it.
LEMMA WritePayloadKept == ASSUME IInv, KeptInv, WritePayload PROVE KeptInv'
<1> SUFFICES ASSUME faults' = 0 PROVE FlashInv' /\ (revived' = {} => ListInv')
  BY DEF KeptInv
<1> SetFacts /\ TypeOK /\ StoreInv
  BY DEF IInv
<1>x. PICK x : x = write_off.sec
  OBVIOUS
<1>h. PICK h : h = write_off.pos
  OBVIOUS
<1>r. PICK r : r = req
  OBVIOUS
<1>0. /\ faults \in Nat
      /\ flash \in [Sectors -> [seq : Nat, units : [Positions -> Unit]]]
      /\ latest \in [Keys -> Request \cup {NoReq}]
  BY SMTT(30) DEF TypeOK
<1>1. PICK us \in PayloadOutcomes(HeadUnits, write_off.pos, req.len, req.ver) :
        /\ SetHead(us) /\ faults' = faults
        /\ write_off' = Off(x, h + 1 + r.len)
        /\ index' = index \cup {NewEntry}
        /\ latest' = [latest EXCEPT ![r.key] = r]
        /\ pc = "payload" /\ pc' = "idle" /\ req' = NoReq
        /\ UNCHANGED <<head_seq, cur, nputs, gone, passed, revived>>
  BY <1>0, <1>x, <1>h, <1>r, SMTT(30) DEF WritePayload, Return
<1>2. FlashInv /\ (revived = {} => ListInv)
  BY <1>1 DEF KeptInv
<1>3. /\ x \in Sectors /\ h \in Positions /\ r \in Request /\ h + r.len < SectorSize
      /\ \A p \in Positions : p < h => flash[x].units[p].kind # "blank"
      /\ \A p \in Positions : p > h => flash[x].units[p] = Blank
      /\ flash[x].units[h] = RecHdr(r) /\ head_seq = flash[x].seq
  BY <1>1, <1>2, <1>x, <1>h, <1>r, HeadRoom DEF HeadUnits, FlashInv, HeadInv
<1>b. Blank.kind = "blank" /\ \A v : Data(v).kind = "data"
  BY DEF Blank, Data
<1>q. /\ r.len \in 1 .. MaxLen /\ r.key \in Keys /\ r.ver \in Nat \ {0} /\ r # NoReq
      /\ RecHdr(r).kind = "rec" /\ RecHdr(r).ver = r.ver /\ RecHdr(r).len = r.len
      /\ RecHdr(r).good /\ RecHdr(r).alive /\ RecHdr(r).key = r.key /\ RecHdr(r).exp = r.exp
  BY <1>3, StoreAssumption, SMTT(30) DEF RecHdr, Request, NoReq, Versions
<1>p. \A q : q \in PayloadAt(h, r.len) => q \in Positions /\ q > h /\ flash[x].units[q] = Blank
  BY <1>3, <1>q, StoreAssumption, SMTT(30) DEF PayloadAt, Positions
<1>4. us = ProgramPayload(flash[x].units, h, r.len, r.ver)
  BY <1>p, <1>x, <1>h, <1>r DEF PayloadOutcomes, HeadUnits
<1>5. /\ \A s \in Sectors : flash'[s].seq = flash[s].seq
      /\ \A q \in PayloadAt(h, r.len) : flash'[x].units[q] = Data(r.ver)
      /\ \A s \in Sectors, p \in Positions :
           ~ (s = x /\ p \in PayloadAt(h, r.len)) => flash'[s].units[p] = flash[s].units[p]
  <2>1. flash' = [flash EXCEPT ![x].units = ProgramPayload(flash[x].units, h, r.len, r.ver)]
    BY <1>1, <1>4, <1>x DEF SetHead
  <2>2. \A p \in Positions : ProgramPayload(flash[x].units, h, r.len, r.ver)[p] =
          IF p \in PayloadAt(h, r.len) THEN Data(r.ver) ELSE flash[x].units[p]
    BY DEF ProgramPayload
  <2>3. /\ flash'[x].units = ProgramPayload(flash[x].units, h, r.len, r.ver)
        /\ flash'[x].seq = flash[x].seq
        /\ \A s \in Sectors : s # x => flash'[s] = flash[s]
    BY <1>0, <1>3, <2>1
  <2> QED
    BY <1>p, <2>2, <2>3
<1>6. \A s, p : ~ Half(s, p)' /\ (Half(s, p) <=> s = x /\ p = h)
  BY <1>1, <1>x, <1>h DEF Half
<1>7. /\ Rec(x, h) /\ Live(x, h)
      /\ \A s \in Sectors, p \in Positions :
           /\ Rec(s, p)' <=> Rec(s, p)
           /\ Rec(s, p) => flash'[s].units[p] = flash[s].units[p]
  BY <1>3, <1>5, <1>b, <1>p, <1>q, SMTT(30) DEF Rec, Live
<1>e. \A s \in Sectors, p \in Positions :
        /\ Live(s, p)' <=> Live(s, p)
        /\ Rec(s, p) => EntryAt(s, p)' = EntryAt(s, p)
  BY <1>5, <1>7 DEF Live, EntryAt
<1>n. /\ r.ver = nputs /\ nputs \notin gone /\ nputs \notin passed /\ nputs \in 1 .. nputs
      /\ NewEntry = EntryAt(x, h)
  <2>1. r.ver = nputs /\ nputs \notin gone /\ nputs \notin passed
    BY <1>2, <1>r, <1>q DEF FlashInv, VersionInv, PutIsNew, PassedOld
  <2>2. NewEntry = EntryAt(x, h)
    BY <1>3, <1>q, <1>x, <1>h, <1>r DEF NewEntry, EntryAt
  <2> QED
    BY <1>q, <2>1, <2>2, SMTT(30)
<1>8. TidyInv'
  <2>1. FirstUnit'
    BY <1>2, <1>5, <1>p, <1>3, StoreAssumption, SMTT(30) DEF FlashInv, TidyInv, FirstUnit, Positions
  <2>2. BlankOn'
    <3>1. ASSUME NEW s \in Sectors, NEW p \in Positions, NEW q \in Positions, p <= q,
                 flash'[s].units[p].kind = "blank"
          PROVE  flash'[s].units[q] = Blank
      <4>1. ~ (s = x /\ p \in PayloadAt(h, r.len)) /\ flash[s].units[p].kind = "blank"
        BY <1>5, <1>b, <3>1
      <4>2. ~ (s = x /\ p <= h)
        BY <1>3, <1>q, <4>1, SMTT(30) DEF Positions
      <4>3. ~ (s = x /\ q \in PayloadAt(h, r.len))
        BY <1>3, <1>q, <3>1, <4>1, <4>2, SMTT(30) DEF Positions, PayloadAt
      <4>4. flash[s].units[q] = Blank
        BY <1>2, <3>1, <4>1 DEF FlashInv, TidyInv, BlankOn
      <4> QED
        BY <1>5, <4>3, <4>4
    <3> QED
      BY <3>1 DEF BlankOn
  <2>3. WholeRecords'
    <3>1. ASSUME NEW s \in Sectors, NEW p \in Positions, Rec(s, p), ~ (s = x /\ p = h)
          PROVE  WholeRecord(s, p)'
      <4> DEFINE w == flash[s].units[p]
      <4>1. /\ w.len \in 0 .. MaxLen /\ p \in Nat \ {0} /\ p + w.len < SectorSize /\ WholeRecord(s, p)
        BY <1>2, <3>1, UnitFields DEF FlashInv, TidyInv, WholeRecords, StoreInv, Rec
      <4>2. flash'[s].units[p] = w
        BY <1>7, <3>1
      <4>3. \A q \in PayloadAt(p, w.len) : q \in Positions /\ flash[s].units[q] = Data(w.ver)
        BY <1>6, <3>1, <4>1, StoreAssumption, SMTT(30) DEF WholeRecord, PayloadAt, Positions
      <4>4. \A q \in PayloadAt(p, w.len) : flash'[s].units[q] = Data(w.ver)
        BY <1>5, <1>b, <1>p, <4>3, SMTT(30)
      <4>5. \A q \in Positions : q = p + w.len + 1 => flash[s].units[q].kind \in {"rec", "blank"}
        BY <4>1 DEF WholeRecord
      <4>6. ASSUME NEW q \in Positions, q = p + w.len + 1 PROVE ~ (s = x /\ q \in PayloadAt(h, r.len))
        <5> SUFFICES ASSUME s = x, q \in PayloadAt(h, r.len) PROVE FALSE
          OBVIOUS
        <5>1. p < h
          <6>1. p > h => flash[x].units[p].kind = "blank"
            BY <1>3, <1>b
          <6> QED
            BY <1>3, <3>1, <6>1, SMTT(30) DEF Rec, Positions
        <5>2. h \in PayloadAt(p, w.len)
          BY <1>3, <1>p, <4>1, <4>6, <5>1, StoreAssumption, SMTT(30) DEF PayloadAt, Positions
        <5> QED
          BY <1>3, <1>b, <1>q, <4>3, <5>2
      <4>7. \A q \in Positions : q = p + w.len + 1 => flash'[s].units[q].kind \in {"rec", "blank"}
        BY <1>5, <4>5, <4>6
      <4>8. w.len > 0 /\ w.good /\ w.ver \in 1 .. nputs'
        BY <1>1, <4>1 DEF WholeRecord
      <4> QED
        BY <1>6, <4>2, <4>4, <4>7, <4>8 DEF WholeRecord
    <3>2. WholeRecord(x, h)'
      <4>1. flash'[x].units[h] = RecHdr(r)
        BY <1>3, <1>7
      <4>2. \A q \in PayloadAt(h, r.len) : flash'[x].units[q] = Data(r.ver)
        BY <1>5
      <4>3. \A q \in Positions : q = h + r.len + 1 => flash'[x].units[q] = Blank
        <5>1. \A q \in Positions : q = h + r.len + 1 => q > h /\ q \notin PayloadAt(h, r.len)
          BY <1>3, <1>q, StoreAssumption, SMTT(30) DEF PayloadAt, Positions
        <5> QED
          BY <1>3, <1>5, <5>1
      <4> QED
        BY <1>1, <1>6, <1>b, <1>q, <1>n, <4>1, <4>2, <4>3, SMTT(30) DEF WholeRecord
    <3> QED
      BY <1>7, <3>1, <3>2 DEF WholeRecords
  <2>4. ClosedErased'
    <3>1. flash[x].seq # 0
      BY <1>1, <1>x DEF StoreInv, Fits
    <3> QED
      BY <1>2, <1>5, <3>1, SMTT(30) DEF FlashInv, TidyInv, ClosedErased
  <2> QED
    BY <2>1, <2>2, <2>3, <2>4 DEF TidyInv
<1>9. VersionInv' /\ PassedOld'
  <2>1. VersionsOnce'
    BY <1>2, <1>7 DEF FlashInv, VersionInv, VersionsOnce
  <2>2. AliveKept'
    BY <1>1, <1>2, <1>7, <1>e DEF FlashInv, VersionInv, AliveKept, Live
  <2>3. PutIsNew' /\ PassedOld' /\ gone' \subseteq 1 .. nputs'
    BY <1>1, <1>2 DEF FlashInv, VersionInv, PutIsNew, PassedOld
  <2> QED
    BY <2>1, <2>2, <2>3 DEF VersionInv
<1>10. HeadInv'
  <2>1. CASE h + 1 + r.len >= SectorSize
    <3>1. write_off'.pos = 0
      BY <1>1, <2>1 DEF Off
    <3> QED
      BY <1>1, <3>1 DEF HeadInv, HeadClean
  <2>2. CASE ~ (h + 1 + r.len >= SectorSize)
    <3>1. write_off' = [sec |-> x, pos |-> h + 1 + r.len]
      BY <1>1, <2>2 DEF Off
    <3>2. \A p \in Positions : p + 1 = h + 1 + r.len => flash'[x].units[p].kind # "blank"
      <4>1. \A p \in Positions : p + 1 = h + 1 + r.len => p \in PayloadAt(h, r.len)
        BY <1>3, <1>q, StoreAssumption, SMTT(30) DEF PayloadAt, Positions
      <4> QED
        BY <1>5, <1>b, <4>1
    <3>3. \A p \in Positions : p >= h + 1 + r.len => flash'[x].units[p] = Blank
      <4>1. \A p \in Positions : p >= h + 1 + r.len => p > h /\ p \notin PayloadAt(h, r.len)
        BY <1>3, <1>q, StoreAssumption, SMTT(30) DEF PayloadAt, Positions
      <4> QED
        BY <1>3, <1>5, <4>1
    <3>4. head_seq' = flash'[x].seq
      BY <1>1, <1>3, <1>5
    <3>5. HeadClean'
      BY <3>1, <3>2, <3>3, <3>4 DEF HeadClean, HeadUnits
    <3> QED
      BY <1>1, <3>5 DEF HeadInv
  <2> QED
    BY <2>1, <2>2
<1>11. RecordInv'
  <2>1. IndexTrue'
    <3>1. \A e \in index : /\ e.sec \in Sectors /\ e.pos \in Positions /\ Rec(e.sec, e.pos)
                           /\ Live(e.sec, e.pos) /\ e = EntryAt(e.sec, e.pos)
      BY <1>2 DEF TypeOK, Entry, FlashInv, RecordInv, IndexTrue, Live
    <3>2. EntryAt(x, h).sec = x /\ EntryAt(x, h).pos = h
      BY DEF EntryAt
    <3>3. \A e \in index' : /\ e.sec \in Sectors /\ e.pos \in Positions /\ Rec(e.sec, e.pos)
                            /\ Live(e.sec, e.pos) /\ e = EntryAt(e.sec, e.pos)
      BY <1>1, <1>3, <1>7, <1>n, <3>1, <3>2
    <3> QED
      BY <1>6, <1>e, <3>3 DEF IndexTrue
  <2>2. LatestThere'
    <3>1. ASSUME NEW k \in Keys, k # r.key PROVE latest'[k] = latest[k]
      BY <1>0, <1>1, <3>1
    <3>2. latest'[r.key] = r
      BY <1>0, <1>1, <1>q
    <3>3. ASSUME NEW k \in Keys, k # r.key, latest[k] # NoReq, latest[k].ver \notin gone
          PROVE  \E s \in Sectors, p \in Positions :
                   /\ Live(s, p)' /\ flash'[s].units[p].ver = latest[k].ver
                   /\ flash'[s].units[p].key = k
      <4>1. PICK s \in Sectors, p \in Positions :
              Live(s, p) /\ flash[s].units[p].ver = latest[k].ver /\ flash[s].units[p].key = k
        BY <1>2, <3>3 DEF FlashInv, RecordInv, LatestThere
      <4> QED
        BY <1>7, <1>e, <4>1 DEF Live
    <3>4. /\ Live(x, h)' /\ flash'[x].units[h].ver = r.ver /\ flash'[x].units[h].key = r.key
      BY <1>3, <1>7, <1>e, <1>q
    <3>5. \A k \in Keys : latest'[k] # NoReq => latest'[k].ver \in 1 .. nputs'
      BY <1>1, <1>2, <1>n, <3>1, <3>2 DEF FlashInv, RecordInv, LatestThere
    <3>6. ASSUME NEW k \in Keys, latest'[k] # NoReq, latest'[k].ver \notin gone'
          PROVE  \E s \in Sectors, p \in Positions :
                   /\ Live(s, p)' /\ flash'[s].units[p].ver = latest'[k].ver
                   /\ flash'[s].units[p].key = k
      <4>1. CASE k = r.key
        BY <1>3, <3>2, <3>4, <4>1
      <4>2. CASE k # r.key
        BY <1>1, <3>1, <3>3, <3>6, <4>2, SMTT(30)
      <4> QED
        BY <4>1, <4>2
    <3> QED
      BY <1>6, <3>5, <3>6 DEF LatestThere
  <2> QED
    BY <2>1, <2>2 DEF RecordInv
<1>12. ASSUME ListInv PROVE ListInv'
  <2>f. PICK f : f = EntryAt(x, h)
    OBVIOUS
  <2>1. \A s \in Sectors, p \in Positions : Listable(s, p)' <=> Listable(s, p) \/ (s = x /\ p = h)
    <3>1. \A s \in Sectors, p \in Positions :
            Listable(s, p)' <=> Live(s, p) /\ flash[s].units[p].ver \notin passed
      BY <1>1, <1>6, <1>7, <1>e DEF Listable, Live
    <3>2. \A s \in Sectors, p \in Positions :
            Listable(s, p) <=> /\ Live(s, p) /\ ~ (s = x /\ p = h)
                               /\ flash[s].units[p].ver \notin passed
      BY <1>6 DEF Listable
    <3>3. Live(x, h) /\ flash[x].units[h].ver \notin passed
      BY <1>3, <1>7, <1>n, <1>q
    <3> QED
      BY <3>1, <3>2, <3>3
  <2>2. Listed' = Listed \cup {f}
    <3>1. \A s \in Sectors, p \in Positions : Listable(s, p)' => EntryAt(s, p)' = EntryAt(s, p)
      BY <1>e DEF Listable, Live
    <3>2. EntryAt(x, h)' = f /\ Listable(x, h)'
      BY <1>3, <1>7, <1>e, <2>1, <2>f
    <3>3. \A e \in Listed' : e \in Listed \/ e = f
      BY <2>1, <2>f, <3>1, ListedIs, ListedIsNext, SMTT(30) DEF ListedExactly
    <3>4. \A e \in Listed : e \in Listed'
      BY <2>1, <3>1, ListedIs, ListedIsNext, SMTT(30) DEF ListedExactly
    <3>5. f \in Listed'
      BY <1>3, <3>2, ListedIsNext DEF ListedExactly
    <3> QED
      BY <3>3, <3>4, <3>5
  <2>3. index = Listed
    BY <1>1, <1>12 DEF ListInv, IndexFull
  <2>4. f.key = r.key /\ f.sec = x /\ f.pos = h
    BY <1>3, <1>q, <2>f DEF EntryAt
  <2>5. \A e \in Listed : e.key # r.key
    BY <1>1, <1>q, <1>r, <2>3 DEF StoreInv, EntriesOf
  <2>6. \A e \in Listed : e.key \in Keys /\ VerOf(e) >= latest[e.key].ver
    BY <1>12 DEF ListInv, ListSound
  <2>7. \A e \in Listed : VerOf(e)' = VerOf(e)
    <3>1. \A e \in Listed : e.sec \in Sectors /\ e.pos \in Positions /\ Rec(e.sec, e.pos)
      BY ListedIs DEF ListedExactly, Listable, Live
    <3> QED
      BY <1>7, <3>1 DEF VerOf, UnitAt
  <2>8. VerOf(f)' = r.ver /\ r.ver >= r.ver
    <3>1. flash'[x].units[h] = RecHdr(r)
      BY <1>3, <1>7
    <3> QED
      BY <1>q, <2>4, <3>1, SMTT(30) DEF VerOf, UnitAt
  <2>9. latest'[r.key] = r /\ \A k \in Keys : k # r.key => latest'[k] = latest[k]
    BY <1>0, <1>1, <1>q
  <2>10. \A e \in Listed' : e.key \in Keys /\ VerOf(e)' >= latest'[e.key].ver
    <3>1. ASSUME NEW e \in Listed' PROVE e.key \in Keys /\ VerOf(e)' >= latest'[e.key].ver
      <4>1. CASE e \in Listed
        BY <2>5, <2>6, <2>7, <2>9, <4>1
      <4>2. CASE e = f
        BY <1>q, <2>4, <2>8, <2>9, <4>2
      <4> QED
        BY <2>2, <4>1, <4>2
    <3> QED
      BY <3>1
  <2>11. \A d, e \in Listed' : d.key = e.key => d = e
    <3>1. \A d, e \in Listed : d.key = e.key => d = e
      BY <1>12 DEF ListInv, ListSound
    <3> QED
      BY <2>2, <2>4, <2>5, <3>1
  <2>12. IsFiniteSet(Listed') /\ Cardinality(Listed') <= MaxRecords
    <3>1. IsFiniteSet(Listed) /\ Cardinality(Listed) < MaxRecords
      BY <1>1, <1>q, <1>r, <2>3 DEF StoreInv
    <3>2. Listed \in SUBSET Listed
      OBVIOUS
    <3>3. IsFiniteSet(Listed \cup {f}) /\ Cardinality(Listed \cup {f}) <= MaxRecords
      BY <3>1, <3>2, AddWithinBudget
    <3> QED
      BY <2>2, <3>3
  <2>13. index' = Listed'
    BY <1>1, <1>n, <2>2, <2>3, <2>f
  <2> QED
    BY <1>1, <2>10, <2>11, <2>12, <2>13 DEF ListInv, ListSound, IndexFull
<1> QED
  BY <1>1, <1>2, <1>8, <1>9, <1>10, <1>11, <1>12 DEF FlashInv

-----------------------------------------------------------------------------
(* The induction.                                                          *)

AllInv == TurnInv /\ KeptInv

\* The fresh chip.
LEMMA InitAll == SetFacts /\ Init => AllInv
  BY InitTurn, InitKept DEF AllInv

\* A step in which nothing happens.
LEMMA StutterKept == ASSUME KeptInv, UNCHANGED vars PROVE KeptInv'
<1>v. /\ flash' = flash /\ index' = index /\ write_off' = write_off /\ next_seq' = next_seq
      /\ head_seq' = head_seq /\ pc' = pc /\ req' = req /\ cur' = cur /\ newest' = newest
      /\ nputs' = nputs /\ faults' = faults /\ latest' = latest /\ gone' = gone
      /\ passed' = passed /\ revived' = revived
  BY DEF vars
<1>2. \A s, p : /\ Rec(s, p)' <=> Rec(s, p)
                /\ Live(s, p)' <=> Live(s, p)
                /\ Half(s, p)' <=> Half(s, p)
                /\ EntryAt(s, p)' = EntryAt(s, p)
  BY <1>v DEF Rec, Live, Half, EntryAt
<1>3. ASSUME FlashInv PROVE FlashInv'
  <2>1. TidyInv'
    <3>1. FirstUnit' /\ BlankOn' /\ ClosedErased'
      BY <1>v, <1>3 DEF FlashInv, TidyInv, FirstUnit, BlankOn, ClosedErased
    <3>2. ASSUME NEW s \in Sectors, NEW p \in Positions, WholeRecord(s, p)
          PROVE WholeRecord(s, p)'
      BY <1>v, <1>2, <3>2 DEF WholeRecord
    <3> QED
      BY <1>2, <1>3, <3>1, <3>2 DEF FlashInv, TidyInv, WholeRecords
  <2>2. VersionInv' /\ PassedOld'
    BY <1>v, <1>2, <1>3 DEF FlashInv, VersionInv, PassedOld, VersionsOnce, AliveKept, PutIsNew
  <2>3. HeadInv'
    BY <1>v, <1>3 DEF FlashInv, HeadInv, HeadClean, HeadUnits
  <2>4. IndexTrue'
    BY <1>v, <1>2, <1>3 DEF FlashInv, RecordInv, IndexTrue
  <2>5. LatestThere'
    BY <1>v, <1>2, <1>3, SMTT(30) DEF FlashInv, RecordInv, LatestThere
  <2> QED
    BY <2>1, <2>2, <2>3, <2>4, <2>5 DEF FlashInv, RecordInv
<1>4. ASSUME ListInv PROVE ListInv'
  <2>1. Listed' = Listed
    BY <1>v, <1>2 DEF Listed, Listable
  <2>2. \A e : VerOf(e)' = VerOf(e) /\ (Scanned(e)' <=> Scanned(e))
    BY <1>v DEF VerOf, UnitAt, Scanned
  <2> QED
    BY <1>v, <1>4, <2>1, <2>2 DEF ListInv, ListSound, IndexFull
<1> QED
  BY <1>3, <1>4, <1>v DEF KeptInv

\* Every step keeps the invariants.
LEMMA NextAll == AllInv /\ [Next]_vars => AllInv'
<1> SUFFICES ASSUME IInv, RingInv, KeptInv, [Next]_vars PROVE KeptInv'
  BY NextTurn DEF AllInv, TurnInv
<1>1. CASE BootStep
  BY <1>1, BootKept, ScanSectorKept, ScanRecordKept, ScanDoneKept, ResumeKept DEF BootStep
<1>2. CASE PutStep
  BY <1>2, ReclaimKept, WaitKept, OpenEraseKept, OpenHeaderKept, WriteHeaderKept,
     WritePayloadKept DEF PutStep
<1>3. CASE \E k \in Keys, l \in 1 .. MaxLen, x \in Expiries : PutStart(k, l, x)
  BY <1>3, PutStartKept
<1>4. CASE \E k \in Keys : Delete(k)
  BY <1>4, DeleteKept
<1>5. CASE \E seen \in SUBSET index : Iterate(seen)
  BY <1>5, IterateKept
<1>6. CASE Tick \/ Crash
  BY <1>6, WaitKept, CrashKept
<1>7. CASE UNCHANGED vars
  BY <1>7, StutterKept
<1> QED
  BY <1>1, <1>2, <1>3, <1>4, <1>5, <1>6, <1>7 DEF Next

-----------------------------------------------------------------------------
(* The theorems.                                                           *)

\* What the index lists while no call is running.
LEMMA KeptFound == ASSUME AllInv PROVE RecordsKept
<1>1. ASSUME faults = 0, revived = {}, pc = "idle", NEW k \in Keys,
             latest[k] # NoReq, latest[k].ver \notin gone \cup passed
      PROVE  \E e \in EntriesOf(k) : VerOf(e) = latest[k].ver /\ CrcOk(flash[e.sec].units, e.pos)
  <2>0. IInv /\ FlashInv /\ index = Listed
    BY <1>1 DEF AllInv, TurnInv, KeptInv, ListInv, IndexFull
  <2>1. PICK s \in Sectors, p \in Positions :
          /\ Live(s, p) /\ ~ Half(s, p)
          /\ flash[s].units[p].ver = latest[k].ver /\ flash[s].units[p].key = k
    BY <1>1, <2>0 DEF FlashInv, RecordInv, LatestThere
  <2>2. EntryAt(s, p) \in index
    <3>1. Listable(s, p)
      BY <1>1, <2>1 DEF Listable
    <3> QED
      BY <2>0, <3>1, ListedIs DEF ListedExactly
  <2>3. EntryAt(s, p).key = k /\ EntryAt(s, p).sec = s /\ EntryAt(s, p).pos = p
    BY <2>1 DEF EntryAt
  <2>4. CrcOk(flash[s].units, p)
    BY <1>1, <2>0, <2>1, WalkStep DEF Live, Rec
  <2>5. EntryAt(s, p) \in EntriesOf(k)
    BY <2>2, <2>3 DEF EntriesOf
  <2> WITNESS EntryAt(s, p) \in EntriesOf(k)
  <2> QED
    BY <2>1, <2>2, <2>3, <2>4 DEF VerOf, UnitAt
<1>2. Durable
  BY <1>1 DEF Durable, Undamaged, RecordsFound
<1>3. NoResurrection
  <2> SUFFICES ASSUME pc = "idle", faults = 0, NEW e \in index PROVE VerOf(e) \notin gone
    BY DEF NoResurrection
  <2>1. FlashInv /\ e.sec \in Sectors /\ e.pos \in Positions
    BY DEF AllInv, TurnInv, KeptInv, IInv, TypeOK, Entry
  <2> QED
    BY <2>1 DEF FlashInv, RecordInv, IndexTrue, VersionInv, AliveKept, VerOf, UnitAt
<1>4. Undamaged => NewestWins
  BY DEF Undamaged, NewestWins, AllInv, TurnInv, KeptInv, ListInv, IndexFull, ListSound
<1> QED
  BY <1>2, <1>3, <1>4 DEF RecordsKept

\* What the ring does when the store is written.
LEMMA RingFound == ASSUME AllInv PROVE RingKept
<1>1. TypeOK /\ IInv
  BY DEF AllInv, TurnInv, IInv
<1>2. HeadErased
  <2> SUFFICES ASSUME faults = 0, pc \in {"idle", "hdr"}, write_off.sec < NSectors,
                      write_off.pos # 0, NEW p \in write_off.pos .. SectorSize - 1
               PROVE  HeadUnits[p] = Blank
    BY DEF HeadErased
  <2>1. p \in Positions /\ p >= write_off.pos
    BY <1>1, StoreAssumption, SMTT(30) DEF TypeOK, Positions
  <2> QED
    BY <2>1 DEF AllInv, TurnInv, KeptInv, FlashInv, HeadInv, HeadClean
<1>3. RingTakesOldest
  <2> SUFFICES ASSUME pc = "open", NEW s \in Sectors, flash[s].seq # 0
               PROVE  flash[cur.sec].seq <= flash[s].seq
    BY DEF RingTakesOldest
  <2>1. cur.sec \in Sectors /\ RingFrom(cur.sec)
    <3>1. cur.sec = SectorToOpen /\ RingFrom(SectorToOpen)
      BY SMTT(30) DEF AllInv, TurnInv, RingInv, RingState
    <3>2. SectorToOpen \in Sectors
      BY <1>1, SectorToOpenIs
    <3> QED
      BY <3>1, <3>2
  <2>2. s # cur.sec => Before(cur.sec, cur.sec, s)
    BY <2>1, StoreAssumption, SMTT(30) DEF Before, Sectors
  <2> QED
    BY <1>1, <2>1, <2>2, RingTypes, SMTT(30) DEF RingFrom
<1> QED
  BY <1>1, <1>2, <1>3 DEF RingKept

-----------------------------------------------------------------------------
(* The theorems.                                                           *)

INSTANCE FiniteSetTheorems

\* The library's theorems give what the proofs use about finite sets.
LEMMA SetFactsHold == SetFacts
<1>1. IsFiniteSet({}) /\ Cardinality({}) = 0
  BY FS_EmptySet
<1>2. ASSUME NEW S, IsFiniteSet(S)
      PROVE  Cardinality(S) \in Nat /\ (Cardinality(S) = 0 => S = {})
  BY <1>2, FS_EmptySet, FS_CardinalityType
<1>3. ASSUME NEW S, NEW T \in SUBSET S, IsFiniteSet(S)
      PROVE  IsFiniteSet(T) /\ Cardinality(T) <= Cardinality(S)
  BY <1>3, FS_Subset
<1>4. ASSUME NEW S, NEW x, IsFiniteSet(S)
      PROVE  /\ IsFiniteSet(S \cup {x})
             /\ Cardinality(S \cup {x}) = IF x \in S THEN Cardinality(S) ELSE Cardinality(S) + 1
             /\ x \in S => Cardinality(S \ {x}) = Cardinality(S) - 1
  <2>1. /\ IsFiniteSet(S \cup {x})
        /\ Cardinality(S \cup {x}) = IF x \in S THEN Cardinality(S) ELSE Cardinality(S) + 1
    BY <1>4, FS_AddElement
  <2>2. x \in S => Cardinality(S \ {x}) = Cardinality(S) - 1
    BY <1>4, FS_RemoveElement
  <2> QED
    BY <2>1, <2>2
<1>5. IsFiniteSet(Sectors)
  BY FS_Interval, StoreAssumption, SMTT(30) DEF Sectors
<1> QED
  BY <1>1, <1>2, <1>3, <1>4, <1>5 DEF SetFacts

\* The invariants hold in every reachable state.
LEMMA AlwaysAll == Spec => []AllInv
<1>1. Init => AllInv
  BY SetFactsHold, InitAll
<1> QED
  BY <1>1, NextAll, PTL DEF Spec

\* The state of the store keeps its types: in particular a write head and a
\* scan cursor never leave the partition, whatever the flash holds.
THEOREM TypeCorrect == Spec => []TypeOK
<1>1. AllInv => TypeOK
  BY DEF AllInv, TurnInv, IInv
<1> QED
  BY <1>1, AlwaysAll, PTL

\* The inductive invariant behind the index holds in every reachable state.
THEOREM StoreInvariant == Spec => []StoreInv
<1>1. AllInv => StoreInv
  BY DEF AllInv, TurnInv, IInv
<1> QED
  BY <1>1, AlwaysAll, PTL

\* For any number of sectors, keys and records, with power losses and flash
\* errors anywhere: what the RAM index lists is on programmed flash in an open
\* sector, no key is listed twice, and the record budget is never exceeded.
THEOREM IndexIsSound == Spec => []IndexSound
<1>1. StoreInv => IndexSound
  BY DEF StoreInv
<1> QED
  BY <1>1, StoreInvariant, PTL

\* For every geometry of the partition, every sequence of puts, deletions and
\* reboots and every clock: without flash errors, torn writes and expired records
\* that come back, a record that bitle_store_put took is found intact until it is
\* deleted, replaced, evicted or expired; without flash errors, nothing that was
\* given up is listed again; and of two copies of a key the newer one is listed.
THEOREM PutsAreKept == Spec => []RecordsKept
<1>1. AllInv => RecordsKept
  BY KeptFound
<1> QED
  BY <1>1, AlwaysAll, PTL

\* For every geometry of the partition: s_write_off, the cursors and the index
\* stay inside it; records are only programmed onto erased flash unless a write
\* failed or was cut short; and open_sector never erases a sector while an older
\* one stays, whatever failed and wherever the power was lost.
THEOREM RingIsKept == Spec => []RingKept
<1>1. AllInv => RingKept
  BY RingFound
<1> QED
  BY <1>1, AlwaysAll, PTL

\* For every geometry and budget, every step of a boot or of a put brings it
\* closer to its end, whatever the flash holds and whichever operations fail; and
\* a put refused for lack of room leaves an index that lies wholly in the sector
\* being written.
THEOREM EveryCallEnds == Spec => CallsEnd
<1>1. AllInv => TurnInv
  BY DEF AllInv
<1>2. TurnInv /\ [Next]_vars =>
        [/\ {pc, pc'} \cap {"idle", "off"} = {} => StepsLeft' < StepsLeft
         /\ QuotaReclaims]_vars
  BY CallCloser DEF StepCloser
<1> QED
  BY <1>1, <1>2, AlwaysAll, PTL DEF Spec, CallsEnd
=============================================================================
