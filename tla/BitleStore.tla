------------------------------ MODULE BitleStore ------------------------------
(***************************************************************************)
(* The flash mailbox of main/bitle_store.c: a ring of erase sectors, each  *)
(* a header with a sequence number followed by records, and the RAM index  *)
(* rebuilt from it at boot.                                                *)
(*                                                                         *)
(* Flash is counted in units.  Unit 0 of a sector is its header, a record  *)
(* is one header unit followed by `len' payload units.  Every flash        *)
(* operation (tombstone, erase, header, payload) is a step of its own, so  *)
(* that a power loss can fall between any two of them; the store's lock    *)
(* keeps other callers out of the steps in between.  The payload of the    *)
(* n-th put is represented by the number n.                                *)
(***************************************************************************)
EXTENDS Integers, FiniteSets

CONSTANTS
  Keys,          (* record keys                                            *)
  NoKey,         (* the key field of a unit that is not a record header    *)
  NSectors,      (* sectors of the msgstore partition                      *)
  SectorSize,    (* units per sector, the header unit included             *)
  MaxLen,        (* BITLE_STORE_PAYLOAD_MAX, in units                      *)
  MaxRecords,    (* BITLE_STORE_MAX_RECORDS                                *)
  Expiries,      (* expiry times callers pass; 0 is "never"                *)
  Times,         (* bound: what the wall clock can read                    *)
  MaxPuts,       (* bound: calls of bitle_store_put                        *)
  MaxCrashes,    (* bound: power losses                                    *)
  MaxFaults      (* bound: flash operations that return an error, or record *)
                 (* writes that a power loss cuts short                    *)

ASSUME StoreAssumption ==
  /\ Keys # {} /\ NoKey \notin Keys
  /\ NSectors \in Nat \ {0, 1}
  /\ MaxLen \in Nat \ {0} /\ SectorSize \in Nat /\ SectorSize >= MaxLen + 2
  /\ MaxRecords \in Nat \ {0}
  /\ Expiries \subseteq Nat
  /\ Times \subseteq Nat /\ 0 \in Times /\ MaxPuts \in Nat /\ MaxCrashes \in Nat /\ MaxFaults \in Nat

VARIABLES
  flash,         (* the partition, sector by sector                        *)
  index,         (* s_index[0 .. s_index_count)                            *)
  write_off,     (* s_write_off                                            *)
  next_seq,      (* s_next_seq                                             *)
  head_seq,      (* s_head_seq                                             *)
  pc,            (* the step the lock holder is at                         *)
  req,           (* the arguments of the put in progress                   *)
  cur,           (* init's cursor; the sector being opened                 *)
  newest,        (* init's newest_seq and newest_base                      *)
  now,           (* now_unix_s()                                           *)
  ret,           (* what the last put returned                             *)
  nputs, crashes, faults,   (* counters of the bounded events              *)
  latest,        (* history: per key, the last put that returned ESP_OK    *)
  gone,          (* history: puts deleted, superseded, expired or evicted  *)
  passed,        (* history: puts a boot left out of the index as expired  *)
  revived        (* history: those that a later boot, its clock further    *)
                 (* back, did not take for expired any more                *)

ram  == <<index, write_off, next_seq, head_seq>>
bounds == <<nputs, crashes, faults>>
boots == <<passed, revived>>
hist == <<latest, gone, boots>>
vars == <<flash, index, write_off, next_seq, head_seq, pc, req, cur, newest,
          now, ret, nputs, crashes, faults, latest, gone, passed, revived>>

Sectors   == 0 .. NSectors - 1
Positions == 1 .. SectorSize - 1
Versions  == 1 .. MaxPuts
NoSector  == NSectors

Unit == [kind : {"blank", "dirty", "rec", "data"}, key : Keys \cup {NoKey},
         len : 0 .. MaxLen, alive : BOOLEAN, exp : Expiries \cup {0},
         ver : 0 .. MaxPuts, good : BOOLEAN]

Blank == [kind |-> "blank", key |-> NoKey, len |-> 0, alive |-> TRUE,
          exp |-> 0, ver |-> 0, good |-> FALSE]
\* A header cut short: neither walk takes it for a record.
Dirty == [Blank EXCEPT !.kind = "dirty"]
Data(v) == [Blank EXCEPT !.kind = "data", !.ver = v]
RecHdr(r) == [kind |-> "rec", key |-> r.key, len |-> r.len, alive |-> TRUE,
              exp |-> r.exp, ver |-> r.ver, good |-> TRUE]

Request == [key : Keys, len : 1 .. MaxLen, exp : Expiries, ver : Versions]
NoReq   == [key |-> NoKey, len |-> 0, exp |-> 0, ver |-> 0]
Entry   == [key : Keys \cup {NoKey}, sec : Sectors, pos : Positions,
            exp : Expiries \cup {0}, seq : Nat]
-----------------------------------------------------------------------------
(* Flash as esp_partition_* shows it.                                      *)

ErasedSector == [seq |-> 0, units |-> [p \in Positions |-> Blank]]

UnitAt(o) == flash[o.sec].units[o.pos]

\* Programming only clears bits: on erased units the write is exact, on
\* units already programmed the header may come out garbled.
Garbled(u, l) == [u EXCEPT !.len = l, !.good = FALSE]
ProgramHdr(old, u) ==
  IF old = Blank THEN {u}
  ELSE {u} \cup {Garbled(u, l) : l \in 0 .. u.len}
           \cup (IF old.kind = "rec" THEN {} ELSE {Dirty})

PayloadAt(p, l) == p + 1 .. p + l
ProgramPayload(units, p, l, v) ==
  [q \in Positions |-> IF q \in PayloadAt(p, l) THEN Data(v) ELSE units[q]]
PayloadOutcomes(units, p, l, v) ==
  {ProgramPayload(units, p, l, w) :
     w \in IF \A q \in PayloadAt(p, l) : units[q] = Blank THEN {v} ELSE {v, 0}}

\* record_crc(&hdr, payload) == hdr.crc
CrcOk(units, p) ==
  /\ units[p].good
  /\ \A q \in PayloadAt(p, units[p].len) : units[q] = Data(units[p].ver)

\* hdr.magic, payload_len in range
HdrOk(u) == u.kind = "rec" /\ u.len > 0

\* off + sizeof(store_record_hdr_t) <= base + STORE_SECTOR_SIZE
HdrFits(p) == p + 1 <= SectorSize

VersionsIn(sec) ==
  {flash[sec].units[p].ver : p \in {q \in Positions : flash[sec].units[q].kind = "rec"}}

\* A partition offset that is a sector's end is the next sector's start.
Off(sec, pos) == IF pos >= SectorSize THEN [sec |-> sec + 1, pos |-> 0]
                                      ELSE [sec |-> sec, pos |-> pos]

Expired(exp) == exp # 0 /\ now > exp
FaultLeft == faults < MaxFaults
-----------------------------------------------------------------------------
(* Boot: bitle_store_init().                                               *)

Init ==
  /\ flash = [s \in Sectors |-> ErasedSector]
  /\ index = {} /\ write_off = Off(0, 0) /\ next_seq = 0 /\ head_seq = 0
  /\ pc = "off" /\ req = NoReq /\ cur = Off(0, 0)
  /\ newest = [seq |-> 0, base |-> NoSector]
  /\ now = 0 /\ ret = "none"
  /\ nputs = 0 /\ crashes = 0 /\ faults = 0
  /\ latest = [k \in Keys |-> NoReq] /\ gone = {} /\ passed = {} /\ revived = {}

\* The clock restarts from an estimate that may be wrong either way.
Boot ==
  /\ pc = "off"
  /\ now' \in Times
  /\ pc' = "scan" /\ cur' = [sec |-> 0, pos |-> 0]
  /\ index' = {} /\ newest' = [seq |-> 0, base |-> NoSector]
  /\ UNCHANGED <<flash, write_off, next_seq, head_seq, req, ret, bounds, hist>>

NextSector == [sec |-> cur.sec + 1, pos |-> 0]

\* One sector header of the scan: only sectors with the magic are walked.
ScanSector ==
  /\ pc = "scan" /\ cur.sec < NSectors /\ cur.pos = 0
  /\ LET seq == flash[cur.sec].seq IN
     /\ cur' = IF seq = 0 THEN NextSector ELSE [cur EXCEPT !.pos = 1]
     /\ newest' = IF seq # 0 /\ seq >= newest.seq
                  THEN [seq |-> seq, base |-> cur.sec] ELSE newest
  /\ UNCHANGED <<flash, ram, pc, req, now, ret, bounds, hist>>

\* off += sizeof(store_record_hdr_t) + hdr.payload_len
RecSize(u) == 1 + u.len

WalkStops(units, p) == ~ HdrFits(p) \/ ~ HdrOk(units[p]) \/ ~ CrcOk(units, p)

\* Dedup by key: an indexed copy in a sector at least as new is kept.
Indexed(e) ==
  LET dups == {d \in index : d.key = e.key}
  IN  IF dups = {} THEN index \cup {e}
      ELSE IF \E d \in dups : e.seq <= d.seq THEN index
      ELSE (index \ dups) \cup {e}

\* One record of the scan.
ScanRecord ==
  /\ pc = "scan" /\ cur.sec < NSectors /\ cur.pos > 0
  /\ LET units == flash[cur.sec].units
         u == units[cur.pos]
         e == [key |-> u.key, sec |-> cur.sec, pos |-> cur.pos,
               exp |-> u.exp, seq |-> flash[cur.sec].seq]
     IN  IF WalkStops(units, cur.pos)
         THEN cur' = NextSector /\ UNCHANGED <<index, boots>>
         ELSE /\ cur' = [cur EXCEPT !.pos = @ + RecSize(u)]
              /\ index' = IF u.alive /\ ~ Expired(u.exp)
                             /\ Cardinality(index) < MaxRecords
                          THEN Indexed(e) ELSE index
              /\ passed' = IF u.alive /\ Expired(u.exp) THEN passed \cup {u.ver} ELSE passed
              /\ revived' = IF u.alive /\ ~ Expired(u.exp) THEN revived \cup ({u.ver} \cap passed) ELSE revived
  /\ UNCHANGED <<flash, write_off, next_seq, head_seq, pc, req, newest, now, ret,
                 bounds, latest, gone>>

\* End of the scan: an empty partition gets its first sector, otherwise the
\* write head is looked for in the newest one.
ScanDone ==
  /\ pc = "scan" /\ cur.sec = NSectors
  /\ next_seq' = newest.seq + 1
  /\ IF newest.base = NoSector
     THEN pc' = "open" /\ cur' = [sec |-> 0, pos |-> 0] /\ UNCHANGED head_seq
     ELSE /\ pc' = "resume" /\ cur' = [sec |-> newest.base, pos |-> 1]
          /\ head_seq' = newest.seq
  /\ UNCHANGED <<flash, index, write_off, req, newest, now, ret, bounds, hist>>

\* Resume appending after the last record of the newest sector: this walk
\* looks at the magic and the length, not at the CRC.
ResumeStops(units, p) == ~ HdrFits(p) \/ ~ HdrOk(units[p])

Resume ==
  /\ pc = "resume"
  /\ LET units == flash[cur.sec].units IN
     IF ResumeStops(units, cur.pos)
     THEN /\ write_off' = Off(cur.sec, cur.pos)
          /\ pc' = "idle" /\ UNCHANGED cur
     ELSE /\ cur' = [cur EXCEPT !.pos = @ + RecSize(units[cur.pos])]
          /\ UNCHANGED <<write_off, pc>>
  /\ UNCHANGED <<flash, index, next_seq, head_seq, req, newest, now, ret, bounds, hist>>
-----------------------------------------------------------------------------
(* bitle_store_put().                                                      *)

EntriesOf(k) == {e \in index : e.key = k}
VerOf(e) == UnitAt(e).ver

\* Mutant: the tombstone never reaches flash.
TombstoneAllMutant(es) == flash
\* tombstone_at(): a write error is only logged.  The chosen outcome is the
\* flash after the attempt.
TombstoneAll(es) ==
  [s \in Sectors |-> [flash[s] EXCEPT !.units =
     [p \in Positions |->
        IF \E e \in es : e.sec = s /\ e.pos = p
        THEN [flash[s].units[p] EXCEPT !.alive = FALSE]
        ELSE flash[s].units[p]]]]
Tombstone(es) ==
  \E failed \in SUBSET es :
    /\ faults + Cardinality(failed) <= MaxFaults
    /\ faults' = faults + Cardinality(failed)
    /\ flash' = TombstoneAll(es \ failed)

Forget(es) == index' = index \ es /\ gone' = gone \cup ({VerOf(e) : e \in es} \ {0})

PutStart(k, l, x) ==
  /\ pc = "idle" /\ nputs < MaxPuts
  /\ nputs' = nputs + 1
  /\ req' = [key |-> k, len |-> l, exp |-> x, ver |-> nputs + 1]
  /\ Tombstone(EntriesOf(k)) /\ Forget(EntriesOf(k))
  /\ pc' = "quota"
  /\ UNCHANGED <<write_off, next_seq, head_seq, cur, newest, now, ret, crashes, latest, boots>>

\* reclaim_oldest_sector() skips the sector the write head is in.
Reclaimable == {s \in Sectors : flash[s].seq # 0 /\ s # write_off.sec}
OldestOf(S) == {s \in S : \A t \in S : flash[s].seq <= flash[t].seq}

\* Mutant: erasing a sector leaves its records indexed.
EntriesInMutant(s) == {}
EntriesIn(s) == {e \in index : e.sec = s}
DropSector(s) == index' = index \ EntriesIn(s) /\ gone' = gone \cup VersionsIn(s)

\* while (s_index_count >= BITLE_STORE_MAX_RECORDS): the oldest sector goes,
\* whether or not the erase reports an error.
QuotaFull == Cardinality(index) >= MaxRecords

Reclaim ==
  /\ pc = "quota" /\ QuotaFull
  /\ \E s \in OldestOf(Reclaimable) :
       /\ DropSector(s)
       /\ \/ flash' = [flash EXCEPT ![s] = ErasedSector] /\ UNCHANGED faults
          \/ FaultLeft /\ faults' = faults + 1 /\ UNCHANGED flash
  /\ UNCHANGED <<write_off, next_seq, head_seq, pc, req, cur, newest, now, ret,
                 nputs, crashes, latest, boots>>

Return(r) == pc' = "idle" /\ req' = NoReq /\ ret' = r

ReclaimFails ==
  /\ pc = "quota" /\ QuotaFull /\ Reclaimable = {}
  /\ Return("nomem")
  /\ UNCHANGED <<flash, ram, cur, newest, now, bounds, hist>>

QuotaMet ==
  /\ pc = "quota" /\ ~ QuotaFull
  /\ pc' = "room"
  /\ UNCHANGED <<flash, ram, req, cur, newest, now, ret, bounds, hist>>

\* Mutant: the ring wraps to the second sector.
SectorToOpenMutant ==
  IF write_off.sec >= NSectors THEN 1
  ELSE IF write_off.pos = 0 THEN write_off.sec
  ELSE IF write_off.sec + 1 >= NSectors THEN 1
  ELSE write_off.sec + 1

\* The write head must sit inside an open sector with room for the record.
Fits == /\ write_off.sec < NSectors /\ write_off.pos # 0
        /\ write_off.pos + 1 + req.len <= SectorSize
SectorToOpen ==
  IF write_off.sec >= NSectors THEN 0
  ELSE IF write_off.pos = 0 THEN write_off.sec
  ELSE IF write_off.sec + 1 >= NSectors THEN 0
  ELSE write_off.sec + 1

FindRoom ==
  /\ pc = "room"
  /\ IF Fits THEN pc' = "hdr" /\ UNCHANGED cur
     ELSE pc' = "open" /\ cur' = [sec |-> SectorToOpen, pos |-> 0]
  /\ UNCHANGED <<flash, ram, req, newest, now, ret, bounds, hist>>

\* open_sector(), first half: forget what a used sector holds and erase it.
\* A failed erase fails the put (or the boot).
OpenErase ==
  /\ pc = "open"
  /\ index' = IF flash[cur.sec].seq # 0 THEN index \ EntriesIn(cur.sec) ELSE index
  /\ gone' = gone \cup VersionsIn(cur.sec)
  /\ \/ /\ flash' = [flash EXCEPT ![cur.sec] = ErasedSector]
        /\ pc' = "sechdr" /\ UNCHANGED <<req, ret, faults>>
     \/ /\ FaultLeft /\ faults' = faults + 1
        /\ Return("err") /\ UNCHANGED flash
  /\ UNCHANGED <<write_off, next_seq, head_seq, cur, newest, now, nputs, crashes, latest, boots>>

\* Mutant: the write head is not moved into the sector just opened.
OpenedHeadMutant == write_off
\* s_write_off = base + sizeof(store_sector_hdr_t)
OpenedHead == [sec |-> cur.sec, pos |-> 1]

\* open_sector(), second half: the new header; the sequence number is spent
\* even when its write fails.
OpenHeader ==
  /\ pc = "sechdr"
  /\ next_seq' = next_seq + 1 /\ head_seq' = next_seq
  /\ \/ /\ flash' = [flash EXCEPT ![cur.sec].seq = next_seq]
        /\ write_off' = OpenedHead
        /\ pc' = IF req = NoReq THEN "idle" ELSE "room"
        /\ UNCHANGED <<req, ret, faults>>
     \/ /\ FaultLeft /\ faults' = faults + 1
        /\ Return("err") /\ UNCHANGED <<flash, write_off>>
  /\ UNCHANGED <<index, cur, newest, now, nputs, crashes, hist>>

HeadUnits == flash[write_off.sec].units
SetHead(units) == flash' = [flash EXCEPT ![write_off.sec].units = units]
HeadHdr(u) == [HeadUnits EXCEPT ![write_off.pos] = u]

\* What a header or payload write can leave behind when it does not finish.
CutHdr == {HeadUnits, HeadHdr(Dirty)}
            \cup {HeadHdr(u) : u \in ProgramHdr(HeadUnits[write_off.pos], RecHdr(req))}
CutPayload == {HeadUnits, ProgramPayload(HeadUnits, write_off.pos, req.len, 0)}
                \cup PayloadOutcomes(HeadUnits, write_off.pos, req.len, req.ver)

WriteHeader ==
  /\ pc = "hdr"
  /\ \/ /\ \E u \in ProgramHdr(HeadUnits[write_off.pos], RecHdr(req)) : SetHead(HeadHdr(u))
        /\ pc' = "payload" /\ UNCHANGED <<req, ret, faults>>
     \/ /\ FaultLeft /\ faults' = faults + 1
        /\ \E us \in CutHdr : SetHead(us)
        /\ Return("err")
  /\ UNCHANGED <<ram, cur, newest, now, nputs, crashes, hist>>

NewEntry == [key |-> req.key, sec |-> write_off.sec, pos |-> write_off.pos,
             exp |-> req.exp, seq |-> head_seq]

WritePayload ==
  /\ pc = "payload"
  /\ \/ /\ \E us \in PayloadOutcomes(HeadUnits, write_off.pos, req.len, req.ver) : SetHead(us)
        /\ write_off' = Off(write_off.sec, write_off.pos + 1 + req.len)
        /\ index' = index \cup {NewEntry}
        /\ latest' = [latest EXCEPT ![req.key] = req]
        /\ Return("ok") /\ UNCHANGED faults
     \/ /\ FaultLeft /\ faults' = faults + 1
        /\ \E us \in CutPayload : SetHead(us)
        /\ Return("err") /\ UNCHANGED <<write_off, index, latest>>
  /\ UNCHANGED <<next_seq, head_seq, cur, newest, now, nputs, crashes, gone, boots>>
-----------------------------------------------------------------------------
(* The other entry points, and the world around them.                      *)

\* bitle_store_delete()
Delete(k) ==
  /\ pc = "idle" /\ EntriesOf(k) # {}
  /\ Tombstone(EntriesOf(k)) /\ Forget(EntriesOf(k))
  /\ UNCHANGED <<write_off, next_seq, head_seq, pc, req, cur, newest, now, ret,
                 nputs, crashes, latest, boots>>

\* bitle_store_iterate(): expired entries are tombstoned, entries whose header
\* does not read back as a record are dropped; the rest go to the callback,
\* which may stop the loop before it has seen every entry.
Iterate(seen) ==
  LET expired == {e \in seen : Expired(e.exp)}
      unreadable == {e \in seen \ expired : UnitAt(e).kind # "rec"}
  IN  /\ pc = "idle" /\ expired \cup unreadable # {}
      /\ Tombstone(expired) /\ Forget(expired \cup unreadable)
      /\ UNCHANGED <<write_off, next_seq, head_seq, pc, req, cur, newest, now, ret,
                     nputs, crashes, latest, boots>>

\* Time passes, or a peer corrects the clock, forward or back.
Tick ==
  /\ pc = "idle" /\ now' \in Times \ {now}
  /\ UNCHANGED <<flash, ram, pc, req, cur, newest, ret, bounds, hist>>

\* Power loss: RAM goes.  In the middle of a record's two writes it leaves the
\* record partial, which counts as a fault.
Crash ==
  /\ pc # "off" /\ crashes < MaxCrashes
  /\ \/ pc # "payload" /\ UNCHANGED <<flash, faults>>
     \/ /\ FaultLeft /\ faults' = faults + 1
        /\ \/ pc = "hdr" /\ \E us \in CutHdr : SetHead(us)
           \/ pc = "payload" /\ \E us \in CutPayload : SetHead(us)
  /\ crashes' = crashes + 1
  /\ pc' = "off" /\ req' = NoReq /\ ret' = "none"
  /\ index' = {} /\ write_off' = [sec |-> 0, pos |-> 0]
  /\ next_seq' = 0 /\ head_seq' = 0
  /\ UNCHANGED <<cur, newest, now, nputs, hist>>

PutStep == \/ Reclaim \/ ReclaimFails \/ QuotaMet \/ FindRoom
           \/ OpenErase \/ OpenHeader \/ WriteHeader \/ WritePayload
BootStep == Boot \/ ScanSector \/ ScanRecord \/ ScanDone \/ Resume

Next ==
  \/ BootStep
  \/ PutStep
  \/ \E k \in Keys, l \in 1 .. MaxLen, x \in Expiries : PutStart(k, l, x)
  \/ \E k \in Keys : Delete(k)
  \/ \E seen \in SUBSET index : Iterate(seen)
  \/ Tick
  \/ Crash

Spec == Init /\ [][Next]_vars
-----------------------------------------------------------------------------
(* Properties.                                                             *)

\* The types of the state.
TypeOK ==
  /\ flash \in [Sectors -> [seq : Nat, units : [Positions -> Unit]]]
  /\ index \subseteq Entry
  /\ write_off \in [sec : 0 .. NSectors, pos : 0 .. SectorSize - 1]
  /\ next_seq \in Nat /\ head_seq \in Nat
  /\ pc \in {"off", "scan", "resume", "idle", "quota", "room", "open", "sechdr",
             "hdr", "payload"}
  /\ req \in Request \cup {NoReq}
  /\ cur \in [sec : 0 .. NSectors, pos : 0 .. SectorSize]
  /\ newest \in [seq : Nat, base : Sectors \cup {NoSector}]
  /\ now \in Times /\ ret \in {"none", "ok", "err", "nomem"}
  /\ nputs \in 0 .. MaxPuts /\ crashes \in 0 .. MaxCrashes /\ faults \in 0 .. MaxFaults
  /\ latest \in [Keys -> Request \cup {NoReq}]
  /\ gone \subseteq 0 .. MaxPuts
  /\ passed \subseteq 0 .. MaxPuts /\ revived \subseteq 0 .. MaxPuts

\* Every indexed record lies in an open sector on programmed flash, no key is
\* indexed twice, and the record budget holds: whatever fails or is cut short,
\* erasing a sector and forgetting its records never come apart.
IndexSound ==
  /\ \A e \in index : flash[e.sec].seq # 0 /\ UnitAt(e) # Blank
  /\ \A e, f \in index : e.key = f.key => e = f
  /\ Cardinality(index) <= MaxRecords

\* The inductive strengthening of IndexSound: records lie inside their sector,
\* the write head is inside an open sector whenever a record goes there, the
\* sector being opened is never the one the head is in, the key being put is
\* not indexed, and the index has a free slot once the quota loop is left.
StoreInv ==
  /\ IndexSound /\ IsFiniteSet(index)
  /\ \A s \in Sectors, p \in Positions :
       flash[s].units[p].kind = "rec" => p + flash[s].units[p].len < SectorSize
  /\ write_off.pos # 0 => write_off.sec < NSectors /\ flash[write_off.sec].seq # 0
  /\ pc \in {"off", "scan"} => write_off.pos = 0 /\ req = NoReq
  /\ newest.base # NoSector /\ pc \in {"scan", "resume"} => flash[newest.base].seq # 0
  /\ pc = "scan" /\ cur.sec < NSectors /\ cur.pos # 0 => flash[cur.sec].seq # 0
  /\ pc = "resume" => req = NoReq /\ cur.sec = newest.base
                      /\ newest.base # NoSector /\ cur.pos # 0
  /\ pc \notin {"off", "scan"} => next_seq # 0
  /\ pc = "idle" => req = NoReq
  /\ pc \in {"quota", "room", "hdr", "payload"} => req # NoReq
  /\ req # NoReq => EntriesOf(req.key) = {}
  /\ req # NoReq /\ pc # "quota" => Cardinality(index) < MaxRecords
  /\ pc \in {"open", "sechdr"} =>
       cur.sec < NSectors /\ (write_off.pos # 0 => cur.sec # write_off.sec)
  /\ pc = "sechdr" => EntriesIn(cur.sec) = {}
  /\ pc \in {"hdr", "payload"} => Fits
  /\ pc = "payload" => HeadUnits[write_off.pos] # Blank

\* A put that returned ESP_OK and has not been deleted, replaced or evicted is
\* found, intact, by every later caller - across reboots - unless a boot took
\* it for expired.
RecordsFound ==
  pc = "idle" =>
    \A k \in Keys :
      LET put == latest[k] IN
      put # NoReq /\ put.ver \notin gone \cup passed =>
        \E e \in EntriesOf(k) : VerOf(e) = put.ver /\ CrcOk(flash[e.sec].units, e.pos)

\* No flash operation failed, no power loss hit the two writes of a record, and
\* no record that one boot took for expired was taken back by a later one: it
\* was never tombstoned, so that it would hide a newer copy of its key in the
\* same sector, or use up an index entry.
Undamaged == faults = 0 /\ revived = {}

\* Every other reboot keeps what bitle_store_put took.
Durable == Undamaged => RecordsFound

\* The boot rebuild "dedups by key (newest wins) so it cannot resurrect a
\* superseded copy" (tombstone_at): no indexed copy is older than the last
\* put of its key that returned ESP_OK.
NewestWins ==
  pc = "idle" =>
    \A e \in index : UnitAt(e).kind = "rec" => VerOf(e) >= latest[e.key].ver

\* A deleted, replaced, evicted or expired record never comes back, as long as
\* flash has not refused to write a tombstone.
NoResurrection == pc = "idle" /\ faults = 0 => \A e \in index : VerOf(e) \notin gone

\* bitle_store_put only ever programs records onto erased flash, unless an
\* earlier write was cut short or failed.
HeadErased ==
  faults = 0 /\ pc \in {"idle", "hdr"} /\ write_off.sec < NSectors /\ write_off.pos # 0 =>
    \A p \in write_off.pos .. SectorSize - 1 : HeadUnits[p] = Blank

\* The ring advances over the oldest data: open_sector never erases a sector
\* while one with an older header stays.
RingTakesOldest ==
  pc = "open" =>
    \A s \in Sectors : flash[s].seq # 0 => flash[cur.sec].seq <= flash[s].seq

\* Quota eviction drops the oldest sector ("Erases the oldest sector (lowest
\* seq)", reclaim_oldest_sector): no record goes while an older one stays.
QuotaTakesOldest ==
  [][pc = "quota" => \A e \in index \ index', f \in index' : e.seq <= f.seq]_vars

\* A full mailbox refuses a record (ESP_ERR_NO_MEM) only when it has no sector
\* to give up: every record it holds is in the sector being written.
QuotaReclaims ==
  pc = "quota" /\ pc' = "idle" /\ ret' = "nomem" =>
    \A e \in index : e.sec = write_off.sec

\* How many more steps the call in progress can take: the boot scan and the
\* resume walk move their cursor, the quota loop closes sectors or meets flash
\* errors, and the loop that finds room opens at most one sector.
StepsLeft ==
  CASE pc = "scan"   -> SectorSize + 8 + (NSectors - cur.sec) * (SectorSize + 1) - cur.pos
    [] pc = "resume" -> SectorSize + 1 - cur.pos
    [] pc = "quota"  -> 7 + (MaxFaults - faults) * (NSectors + 1)
                          + Cardinality({s \in Sectors : flash[s].seq # 0})
    [] pc = "room"    -> IF Fits THEN 3 ELSE 6
    [] pc = "open"    -> 5
    [] pc = "sechdr"  -> 4
    [] pc = "hdr"     -> 2
    [] pc = "payload" -> 1
    [] OTHER          -> 0

\* Every put and every boot comes to an end, after a number of flash operations
\* bounded by the geometry and the errors met: each step brings it closer.
\* And a put that ends with a refusal had nothing to give up.
CallsEnd ==
  [][/\ {pc, pc'} \cap {"idle", "off"} = {} => StepsLeft' < StepsLeft
     /\ QuotaReclaims]_vars

\* bitle_store_put's promise over reboots: what it took is found, nothing that
\* was deleted, replaced or evicted is, and of two copies the newer wins.
RecordsKept == Durable /\ NoResurrection /\ (Undamaged => NewestWins)

\* The ring stays in the partition, programs erased flash only and advances
\* over its oldest sector.
RingKept == TypeOK /\ HeadErased /\ RingTakesOldest
=============================================================================
