-------------------------- MODULE BitleCourierProofs --------------------------
(***************************************************************************)
(* Proofs about what passes through a Bitle: the courier's mail, for every *)
(* set of keys, peers and clock readings, every limit and any number of    *)
(* resets and failed writes, and the packets of the mesh, for every        *)
(* topology, ring size and set of packets.                                 *)
(***************************************************************************)
EXTENDS BitleCourier, BitleMesh, FiniteSetTheorems, TLAPS

USE ZenonT(30)

\* The rewrites that an announce has still to apply, and the keys they are for.
Pending     == spray \cup writing
PendingKeys == {op.key : op \in Pending}

\* The keys of the records on flash and of the rewrites.
AllKeys == Held \cup PendingKeys \cup {c.key : c \in skipped}

\* What counts against the mailbox and against a depositor: mail that no boot
\* left out, and such mail to be rewritten.
Own == {k \in Held : ~ mail[k].back}
         \cup {op.key : op \in {o \in Pending : ~ o.rec.back}}
Belongs(dep) ==
  {k \in Held : mail[k].dep = dep /\ ~ mail[k].back}
    \cup {op.key : op \in {o \in Pending : o.rec.dep = dep /\ ~ o.rec.back}}

Accounted(r) == r.given + r.copies <= r.budget

Types == TypeOK /\ crashes \in Nat /\ faults \in Nat

\* Where the worker is says what its lists may hold.
Places ==
  /\ pc = "idle" => deliver = {} /\ spray = {}
  /\ pc \in {"idle", "apply", "put"} => todo = {}
  /\ pc # "put" => writing = {}
  /\ \A o1, o2 \in writing : o1 = o2 /\ o1.key \notin Held
  /\ \A k \in deliver : Owner[k] = peer /\ direct
  /\ pc = "iterate" => peer \in Peers

\* An envelope to visit is stored and not to be rewritten; a rewrite is for mail
\* of the same depositor.  What a boot left out is marked.
Ops ==
  /\ todo \subseteq Held
  /\ \A op \in Pending :
       /\ op.key \notin todo
       /\ op.key \in Held => /\ mail[op.key].dep = op.rec.dep
                             /\ mail[op.key].back = op.rec.back
       /\ \A o \in Pending : o.key = op.key => o.rec.dep = op.rec.dep /\ o.rec.back = op.rec.back
  /\ \A c \in skipped : c.rec.back

\* The budgets hold of the mail and the rewrites together: a rewrite drops the
\* old record and writes the new one, and is never refused for want of room.
Room ==
  /\ IsFiniteSet(AllKeys)
  /\ Cardinality(Own) <= MaxEnvelopes
  /\ \A dep \in Peers : Cardinality(Belongs(dep)) <= MaxPerDepositor

\* Between a hand-over and its rewrite it is the rewrite that accounts for the
\* copies.
Conserved ==
  crashes = 0 => /\ \A k \in Held \ PendingKeys : Accounted(mail[k])
                 /\ \A op \in Pending : Accounted(op.rec)

CourierInv == Types /\ Places /\ Ops /\ Room /\ Conserved
-----------------------------------------------------------------------------
(* Lemmas.                                                                 *)

\* The clock is a natural number that last_remote_s holds.
LEMMA ClockRange == Times \subseteq Nat /\ \A t \in Times : t \in 0 .. Wrap - 1
BY CourierAssumption, SMTT(30)

\* Budgets are kept when nothing is added.
LEMMA RoomShrinks ==
  ASSUME Room, AllKeys' \subseteq AllKeys, Own' \subseteq Own,
         \A dep \in Peers : Belongs(dep)' \subseteq Belongs(dep)
  PROVE  Room'
<1>1. IsFiniteSet(AllKeys') /\ Own \subseteq AllKeys
  BY FS_Subset DEF Room, Own, AllKeys, PendingKeys
<1>2. IsFiniteSet(Own) /\ IsFiniteSet(Own') /\ Cardinality(Own') <= Cardinality(Own)
  <2>1. IsFiniteSet(Own)
    BY <1>1, FS_Subset DEF Room
  <2> QED
    BY <2>1, FS_Subset
<1>3. Cardinality(Own') <= MaxEnvelopes
  <2>1. Cardinality(Own') \in Nat /\ Cardinality(Own) \in Nat
    BY <1>2, FS_CardinalityType
  <2> QED
    BY <1>2, <2>1, CourierAssumption, SMTT(30) DEF Room
<1>4. ASSUME NEW dep \in Peers PROVE Cardinality(Belongs(dep)') <= MaxPerDepositor
  <2>1. Belongs(dep) \subseteq AllKeys
    BY DEF Belongs, AllKeys, PendingKeys
  <2>2. IsFiniteSet(Belongs(dep)) /\ IsFiniteSet(Belongs(dep)')
    BY <2>1, FS_Subset DEF Room
  <2>3. Cardinality(Belongs(dep)') <= Cardinality(Belongs(dep))
    BY <2>2, FS_Subset
  <2>4. Cardinality(Belongs(dep)') \in Nat /\ Cardinality(Belongs(dep)) \in Nat
    BY <2>2, FS_CardinalityType
  <2> QED
    BY <2>3, <2>4, CourierAssumption, SMTT(30) DEF Room
<1> QED
  BY <1>1, <1>3, <1>4 DEF Room

\* So they are when the mail left is as it was and no rewrite is new.
LEMMA MailShrinks ==
  ASSUME Room, Held' \subseteq Held, \A k \in Held' : mail'[k] = mail[k],
         Pending' \subseteq Pending, skipped' \subseteq skipped
  PROVE  Room'
<1>1. PendingKeys' \subseteq PendingKeys
  BY DEF PendingKeys
<1>2. AllKeys' \subseteq AllKeys /\ Own' \subseteq Own
  BY <1>1 DEF AllKeys, Own
<1>3. \A dep \in Peers : Belongs(dep)' \subseteq Belongs(dep)
  BY DEF Belongs
<1> QED
  BY <1>2, <1>3, RoomShrinks

\* A step that leaves the mail and the rewrites alone.
LEMMA SameMail ==
  ASSUME CourierInv, Types', Places', todo' \subseteq todo,
         UNCHANGED <<mail, skipped, spray, writing, crashes>>
  PROVE  CourierInv'
<1>1. Pending' = Pending /\ PendingKeys' = PendingKeys /\ Held' = Held
  BY DEF Pending, PendingKeys, Held
<1>2. Ops'
  BY <1>1 DEF CourierInv, Ops
<1>3. Room'
  BY <1>1, MailShrinks DEF CourierInv
<1>4. Conserved'
  BY <1>1 DEF CourierInv, Conserved
<1> QED
  BY <1>2, <1>3, <1>4 DEF CourierInv

\* A record on flash is in the mailbox or was left out.
LEMMA FlashRecord ==
  ASSUME NEW c \in Flash
  PROVE  c \in skipped \/ (c.key \in Held /\ c.rec = mail[c.key])
<1>1. \A k \in Held : Stored(k).key = k /\ Stored(k).rec = mail[k]
  BY DEF Stored
<1>2. c \in skipped \/ \E k \in Held : c = Stored(k)
  BY DEF Flash
<1> QED
  BY <1>1, <1>2

\* A put writes the record, and the ring may drop others for it, or it fails.
LEMMA PutOutcome ==
  ASSUME NEW kept, NEW k, NEW r, Put(kept, k, r), k \notin DOMAIN kept
  PROVE  /\ DOMAIN mail' \subseteq DOMAIN kept \cup {k}
         /\ \A x \in DOMAIN mail' : (x # k /\ mail'[x] = kept[x]) \/ (x = k /\ mail'[x] = r)
         /\ skipped' \subseteq skipped
         /\ \/ faults' = faults /\ DOMAIN kept \subseteq DOMAIN mail' /\ k \in DOMAIN mail'
            \/ faults' = faults + 1
<1>1. CASE mail' = kept /\ UNCHANGED skipped /\ faults' = faults + 1
  BY <1>1
<1>2. ASSUME NEW dropped \in Overwritten,
             mail' = [x \in {x \in DOMAIN kept : Stored(x) \notin dropped} \cup {k} |->
                        IF x = k THEN r ELSE kept[x]],
             skipped' = skipped \ dropped,
             faults' = IF dropped = {} THEN faults ELSE faults + 1
      PROVE  /\ DOMAIN mail' \subseteq DOMAIN kept \cup {k}
             /\ \A x \in DOMAIN mail' : (x # k /\ mail'[x] = kept[x]) \/ (x = k /\ mail'[x] = r)
             /\ skipped' \subseteq skipped
             /\ \/ faults' = faults /\ DOMAIN kept \subseteq DOMAIN mail' /\ k \in DOMAIN mail'
                \/ faults' = faults + 1
  BY <1>2
<1> QED
  BY <1>1, <1>2 DEF Put

\* The depositor's share of one more envelope.
LEMMA OneMore ==
  ASSUME NEW S, NEW T, NEW x, IsFiniteSet(S), T \subseteq S \cup {x}, NEW m \in Nat,
         ~ (Cardinality(S) >= m)
  PROVE  IsFiniteSet(T) /\ Cardinality(T) <= m
<1>1. IsFiniteSet(S \cup {x}) /\ Cardinality(S \cup {x}) <= Cardinality(S) + 1
  <2>1. /\ IsFiniteSet(S \cup {x})
        /\ Cardinality(S \cup {x}) = IF x \in S THEN Cardinality(S) ELSE Cardinality(S) + 1
    BY FS_AddElement
  <2>2. Cardinality(S) \in Nat
    BY FS_CardinalityType
  <2> QED
    BY <2>1, <2>2, SMTT(30)
<1>2. IsFiniteSet(T) /\ Cardinality(T) <= Cardinality(S \cup {x})
  BY <1>1, FS_Subset
<1>3. Cardinality(S) \in Nat /\ Cardinality(T) \in Nat /\ Cardinality(S \cup {x}) \in Nat
  BY <1>1, <1>2, FS_CardinalityType
<1> QED
  BY <1>1, <1>2, <1>3, SMTT(30)
-----------------------------------------------------------------------------
(* The steps.                                                              *)

LEMMA CourierInit == ASSUME Init PROVE CourierInv
<1>1. Held = {} /\ Pending = {} /\ PendingKeys = {} /\ DOMAIN side = {} /\ skipped = {}
  BY SMTT(30) DEF Init, Held, Pending, PendingKeys
<1>2. Types
  BY <1>1 DEF Init, Types, TypeOK
<1>3. Places /\ Ops /\ Conserved
  BY <1>1 DEF Init, Places, Ops, Conserved
<1>4. AllKeys = {} /\ Own = {} /\ \A dep \in Peers : Belongs(dep) = {}
  BY <1>1 DEF AllKeys, Own, Belongs
<1>5. IsFiniteSet({}) /\ Cardinality({}) = 0
  BY FS_EmptySet
<1>6. 0 <= MaxEnvelopes /\ 0 <= MaxPerDepositor
  BY CourierAssumption, SMTT(30)
<1>7. Room
  BY <1>4, <1>5, <1>6 DEF Room
<1> QED
  BY <1>2, <1>3, <1>7 DEF CourierInv

\* The clock moves, either way, between announces.
LEMMA TickStep == ASSUME CourierInv, Tick PROVE CourierInv'
<1>1. /\ UNCHANGED <<mail, skipped, side, pc, peer, direct, todo, deliver, spray, writing, crashes, faults>>
      /\ now' \in Times
  BY DEF Tick, ctx, counts
<1>2. Types' /\ Places'
  BY <1>1 DEF CourierInv, Types, TypeOK, Places, Held
<1> QED
  BY <1>1, <1>2, SameMail

\* A reset loses the rewrites that were not applied, and may lose the record
\* that one of them was about to write; the boot leaves out what its clock finds
\* expired, and may have back what an earlier one left out.
LEMMA CrashStep == ASSUME CourierInv, Crash PROVE CourierInv'
<1> DEFINE live == {c \in Flash : now' <= c.rec.exp}
<1>1. PICK found \in [{c.key : c \in live} -> live] :
        /\ \A k \in DOMAIN found : found[k].key = k
        /\ mail' = [k \in DOMAIN found |-> found[k].rec]
        /\ skipped' = {[c EXCEPT !.rec.back = TRUE] : c \in Flash \ Range(found)}
  BY DEF Crash
<1>2. /\ now' \in Times /\ UNCHANGED faults /\ crashes' = crashes + 1 /\ pc' = "idle"
      /\ todo' = {} /\ deliver' = {} /\ spray' = {} /\ writing' = {}
      /\ side' = <<>> /\ peer' = Nobody /\ direct' = FALSE
  BY DEF Crash
<1>3. Flash \subseteq Op
  <2>1. \A k \in Held : Stored(k) \in Op
    BY DEF CourierInv, Types, TypeOK, Stored, Op
  <2> QED
    BY <2>1 DEF CourierInv, Types, TypeOK, Flash
<1>4. ASSUME NEW c \in Flash PROVE c.key \in AllKeys
  BY FlashRecord DEF AllKeys
<1>5. /\ Held' = DOMAIN found
      /\ \A k \in Held' : found[k] \in Flash /\ found[k].key = k /\ mail'[k] = found[k].rec
  BY <1>1 DEF Held
<1>6. \A d \in skipped' : \E c \in Flash : d = [c EXCEPT !.rec.back = TRUE]
  BY <1>1
<1> HIDE DEF live
<1>7. ASSUME NEW c \in Flash
      PROVE  /\ [c EXCEPT !.rec.back = TRUE] \in Op
             /\ [c EXCEPT !.rec.back = TRUE].key = c.key
             /\ [c EXCEPT !.rec.back = TRUE].rec.back = TRUE
  <2> DEFINE m == [c.rec EXCEPT !.back = TRUE]
  <2>1. c \in Op /\ c.rec \in Record
    BY <1>3 DEF Op
  <2>2. m \in Record /\ m.back = TRUE
    BY <2>1 DEF Record
  <2> HIDE DEF m
  <2>3. [c EXCEPT !.rec = m] \in Op /\ [c EXCEPT !.rec = m].key = c.key /\ [c EXCEPT !.rec = m].rec = m
    BY <2>1, <2>2 DEF Op
  <2>4. [c EXCEPT !.rec.back = TRUE] = [c EXCEPT !.rec = m]
    BY <2>1 DEF m
  <2> QED
    BY <2>2, <2>3, <2>4
<1>8. Pending' = {} /\ PendingKeys' = {} /\ DOMAIN side' = {}
  BY <1>2, SMTT(30) DEF Pending, PendingKeys
<1>9. Types'
  <2>1. Held' \subseteq Keys /\ \A k \in Held' : mail'[k] \in Record
    BY <1>3, <1>5 DEF Op
  <2>2. skipped' \subseteq Op
    BY <1>6, <1>7
  <2>3. crashes' \in Nat /\ faults' \in Nat
    BY <1>2, SMTT(30) DEF CourierInv, Types
  <2>4. peer' \in Peers \cup {Nobody} /\ direct' \in BOOLEAN /\ pc' \in {"idle"}
    BY <1>2
  <2> QED
    BY <1>2, <1>8, <2>1, <2>2, <2>3, <2>4 DEF Types, TypeOK
<1>10. Places'
  BY <1>2 DEF Places
<1>11. Ops'
  BY <1>2, <1>6, <1>7, <1>8 DEF Ops
<1>12. Room'
  <2>1. AllKeys' \subseteq AllKeys
    <3>1. Held' \subseteq AllKeys
      BY <1>4, <1>5
    <3>2. ASSUME NEW d \in skipped' PROVE d.key \in AllKeys
      <4>1. PICK c \in Flash : d = [c EXCEPT !.rec.back = TRUE]
        BY <1>6
      <4> QED
        BY <1>4, <1>7, <4>1
    <3> QED
      BY <1>8, <3>1, <3>2 DEF AllKeys
  <2>2. ASSUME NEW k \in Held', ~ mail'[k].back PROVE k \in Held /\ mail'[k] = mail[k]
    <3>1. found[k] \notin skipped
      BY <1>5, <2>2 DEF CourierInv, Ops
    <3> QED
      BY <1>5, <3>1, FlashRecord
  <2>3. Own' \subseteq Own
    BY <1>8, <2>2 DEF Own
  <2>4. \A dep \in Peers : Belongs(dep)' \subseteq Belongs(dep)
    BY <1>8, <2>2 DEF Belongs
  <2> QED
    BY <2>1, <2>3, <2>4, RoomShrinks DEF CourierInv
<1>13. Conserved'
  BY <1>2, SMTT(30) DEF CourierInv, Types, Conserved
<1> QED
  BY <1>9, <1>10, <1>11, <1>12, <1>13 DEF CourierInv

\* bitle_courier_accept: a new envelope within both budgets, or none.
LEMMA AcceptStep == ASSUME CourierInv, NEW e \in Deposits, Accept(e) PROVE CourierInv'
<1> DEFINE k    == e.key
           kept == Restrict(mail, Held \ Expired)
           r    == [dep |-> e.dep, made |-> e.made, exp |-> e.made + e.life, copies |-> e.copies,
                    budget |-> e.copies, given |-> 0, back |-> FALSE]
<1>1. /\ UNCHANGED <<now, side, pc, peer, direct, todo, deliver, spray, writing, crashes>>
      /\ pc = "idle" /\ ~ MailboxFull /\ k \notin Held /\ todo = {} /\ spray = {} /\ writing = {}
  BY DEF Accept, ctx, CourierInv, Places
<1>2. Pending' = {} /\ Pending = {} /\ PendingKeys' = {} /\ PendingKeys = {}
  BY <1>1 DEF Pending, PendingKeys
<1>3. /\ DOMAIN kept = Held \ Expired
      /\ \A x \in DOMAIN kept : x \in Held /\ kept[x] = mail[x]
  BY DEF Restrict, Expired
<1>4. /\ e.dep \in Peers /\ k \in Keys /\ e.made \in Nat /\ e.life \in Nat /\ e.copies \in 1 .. MaxCopies
      /\ MaxCopies \in Nat
  BY CourierAssumption
<1>5. r \in Record /\ Accounted(r) /\ r.dep = e.dep /\ r.back = FALSE
  BY <1>4, SMTT(30) DEF Record, Accounted
<1>6. /\ Held \subseteq Keys
      /\ \A x \in Held : mail[x] \in Record /\ (crashes = 0 => Accounted(mail[x]))
  BY <1>2 DEF CourierInv, Types, TypeOK, Conserved
<1>7. CASE mail' = kept /\ UNCHANGED skipped /\ (faults' = faults \/ faults' = faults + 1)
  <2>1. Held' \subseteq Held /\ \A x \in Held' : mail'[x] = mail[x]
    BY <1>3, <1>7 DEF Held
  <2>2. Types'
    <3>1. Held' \subseteq Keys /\ \A x \in Held' : mail'[x] \in Record
      BY <1>6, <2>1
    <3>2. faults' \in Nat
      BY <1>7, SMTT(30) DEF CourierInv, Types
    <3> QED
      BY <1>1, <1>7, <3>1, <3>2 DEF CourierInv, Types, TypeOK
  <2>3. Places' /\ Conserved'
    BY <1>1, <1>2, <1>6, <2>1 DEF CourierInv, Places, Conserved
  <2>4. Ops'
    BY <1>1, <1>2, <1>7 DEF CourierInv, Ops
  <2>5. Room'
    BY <1>2, <1>7, <2>1, MailShrinks DEF CourierInv
  <2> QED
    BY <2>2, <2>3, <2>4, <2>5 DEF CourierInv
<1>8. ASSUME ~ QuotaReached(e.dep), DOMAIN mail' \subseteq DOMAIN kept \cup {k},
             \A x \in DOMAIN mail' : (x # k /\ mail'[x] = kept[x]) \/ (x = k /\ mail'[x] = r),
             skipped' \subseteq skipped, faults' = faults \/ faults' = faults + 1
      PROVE  CourierInv'
  <2>1. /\ Held' \subseteq Held \cup {k}
        /\ \A x \in Held' : \/ x \in Held /\ x \in DOMAIN kept /\ mail'[x] = mail[x]
                            \/ x = k /\ mail'[x] = r
    BY <1>3, <1>8 DEF Held
  <2> HIDE DEF r, kept, k
  <2>2. Types'
    <3>1. Held' \subseteq Keys /\ \A x \in Held' : mail'[x] \in Record
      BY <1>4, <1>5, <1>6, <2>1
    <3>2. faults' \in Nat
      BY <1>8, SMTT(30) DEF CourierInv, Types
    <3>3. skipped' \subseteq Op
      BY <1>8 DEF CourierInv, Types, TypeOK
    <3> QED
      BY <1>1, <3>1, <3>2, <3>3 DEF CourierInv, Types, TypeOK
  <2>3. Places'
    BY <1>1 DEF CourierInv, Places
  <2>4. Ops'
    BY <1>1, <1>2, <1>8 DEF CourierInv, Ops
  <2>5. Conserved'
    <3>1. ASSUME NEW x \in Held', crashes = 0 PROVE Accounted(mail'[x])
      BY <1>5, <1>6, <2>1, <3>1
    <3> QED
      BY <1>1, <1>2, <3>1 DEF Conserved, Accounted
  <2>6. IsFiniteSet(AllKeys) /\ IsFiniteSet(Held) /\ ~ (Cardinality(Held) >= MaxEnvelopes)
    <3>1. IsFiniteSet(AllKeys) /\ Held \subseteq AllKeys
      BY DEF CourierInv, Room, AllKeys
    <3> QED
      BY <1>1, <3>1, FS_Subset DEF MailboxFull
  <2>7. IsFiniteSet(AllKeys')
    <3>1. AllKeys' \subseteq AllKeys \cup {k}
      BY <1>2, <1>8, <2>1 DEF AllKeys
    <3>2. IsFiniteSet(AllKeys \cup {k})
      BY <2>6, FS_AddElement
    <3> QED
      BY <3>1, <3>2, FS_Subset
  <2>8. Cardinality(Own') <= MaxEnvelopes
    <3>1. Own' \subseteq Held \cup {k}
      BY <1>2, <2>1 DEF Own
    <3> QED
      BY <2>6, <3>1, OneMore, CourierAssumption
  <2>9. ASSUME NEW dep \in Peers PROVE Cardinality(Belongs(dep)') <= MaxPerDepositor
    <3>1. CASE dep = e.dep
      <4>1. FromDepositor(dep) \subseteq Held /\ ~ (Cardinality(FromDepositor(dep)) >= MaxPerDepositor)
        BY <1>8, <3>1 DEF FromDepositor, QuotaReached
      <4>2. IsFiniteSet(FromDepositor(dep))
        BY <2>6, <4>1, FS_Subset
      <4>3. Belongs(dep)' \subseteq FromDepositor(dep) \cup {k}
        BY <1>2, <1>3, <2>1 DEF Belongs, FromDepositor
      <4> QED
        BY <4>1, <4>2, <4>3, OneMore, CourierAssumption
    <3>2. CASE dep # e.dep
      <4>1. Belongs(dep)' \subseteq Belongs(dep)
        BY <1>2, <1>5, <2>1, <3>2 DEF Belongs
      <4>2. Belongs(dep) \subseteq Held
        BY <1>2 DEF Belongs
      <4>3. IsFiniteSet(Belongs(dep)) /\ Cardinality(Belongs(dep)) \in Nat
        BY <2>6, <4>2, FS_Subset, FS_CardinalityType
      <4>4. /\ IsFiniteSet(Belongs(dep)') /\ Cardinality(Belongs(dep)') <= Cardinality(Belongs(dep))
        BY <4>1, <4>3, FS_Subset
      <4>5. Cardinality(Belongs(dep)') \in Nat
        BY <4>4, FS_CardinalityType
      <4> QED
        BY <4>3, <4>4, <4>5, CourierAssumption, SMTT(30) DEF CourierInv, Room
    <3> QED
      BY <3>1, <3>2
  <2> QED
    BY <2>2, <2>3, <2>4, <2>5, <2>7, <2>8, <2>9 DEF CourierInv, Room
<1>9. \/ mail' = kept /\ UNCHANGED <<skipped, faults>>
      \/ ~ QuotaReached(e.dep) /\ Put(kept, k, r)
  BY DEF Accept
<1>10. CASE mail' = kept /\ UNCHANGED <<skipped, faults>>
  BY <1>7, <1>10
<1>11. CASE ~ QuotaReached(e.dep) /\ Put(kept, k, r)
  <2> HIDE DEF r, kept, k
  <2> QED
    <3>1. k \notin DOMAIN kept
      BY <1>1, <1>3
    <3> QED
      BY <1>8, <1>11, <3>1, PutOutcome
<1> QED
  BY <1>9, <1>10, <1>11

\* bitle_courier_peer_announced begins: expired mail goes, the rest is visited.
LEMMA AnnouncedStep ==
  ASSUME CourierInv, NEW p \in Peers, NEW d \in BOOLEAN, Announced(p, d)
  PROVE  CourierInv'
<1>1. /\ UNCHANGED <<now, skipped, side, crashes, faults>> /\ peer' = p /\ direct' = d /\ pc' = "iterate"
      /\ deliver' = {} /\ spray' = {} /\ writing' = {} /\ todo' = Held \ Expired
      /\ mail' = Restrict(mail, Held \ Expired) /\ spray = {} /\ writing = {}
  BY DEF Announced, counts, CourierInv, Places, Drop
<1>2. Pending' = {} /\ Pending = {} /\ PendingKeys' = {} /\ PendingKeys = {}
  BY <1>1 DEF Pending, PendingKeys
<1>3. Held' = Held \ Expired /\ (\A x \in Held' : mail'[x] = mail[x]) /\ todo' = Held'
  BY <1>1 DEF Restrict, Held
<1>4. Types'
  BY <1>1, <1>3 DEF CourierInv, Types, TypeOK
<1>5. Places'
  BY <1>1 DEF Places
<1>6. Ops'
  BY <1>1, <1>2, <1>3 DEF CourierInv, Ops
<1>7. Conserved'
  BY <1>1, <1>2, <1>3 DEF CourierInv, Conserved
<1>8. Room'
  BY <1>1, <1>2, <1>3, MailShrinks DEF CourierInv
<1> QED
  BY <1>4, <1>5, <1>6, <1>7, <1>8 DEF CourierInv

\* The visits that leave the mail alone, and the end of the iteration and of
\* the announce.
LEMMA QuietStep ==
  ASSUME CourierInv, NEW k \in todo,
         VisitDeliver(k) \/ VisitFlood(k) \/ VisitNothing(k) \/ VisitNoSlot(k)
  PROVE  CourierInv'
<1> USE DEF CourierInv
<1>1. /\ UNCHANGED <<now, mail, skipped, spray, writing, crashes, peer, direct>> /\ todo' \subseteq todo
      /\ pc = "iterate" /\ pc' \in {"iterate", "waiting"}
      /\ \/ UNCHANGED deliver
         \/ deliver' = deliver \cup {k} /\ Owner[k] = peer /\ direct
      /\ faults' = faults \/ faults' = faults + 1
  BY DEF VisitDeliver, VisitFlood, VisitNothing, VisitNoSlot, Visited, ctx, counts, CanDeliver, TagMatches
<1>2. Places'
  BY <1>1 DEF Places
<1>3. k \in Keys /\ now \in 0 .. Wrap - 1 /\ 0 \in 0 .. Wrap - 1
  BY ClockRange, CourierAssumption, SMTT(30) DEF Types, TypeOK
<1>4. SideOf(k) \in Side
  BY <1>3 DEF Types, TypeOK, SideOf, Fresh, Side
<1>5. ASSUME NEW s \in Side, side' = SetSide(k, s)
      PROVE  DOMAIN side' \subseteq Keys /\ \A x \in DOMAIN side' : side'[x] \in Side
  BY <1>3, <1>5 DEF SetSide, Types, TypeOK
<1>6. side' = side \/ \E s \in Side : side' = SetSide(k, s)
  <2>1. CASE VisitFlood(k)
    <3> DEFINE s == [SideOf(k) EXCEPT !.last = IF (now - @) % Wrap >= Cooldown THEN now ELSE @]
    <3>1. s \in Side
      BY <1>3, <1>4 DEF Side
    <3> QED
      BY <2>1, <3>1 DEF VisitFlood
  <2>2. CASE VisitNothing(k)
    BY <1>4, <2>2 DEF VisitNothing
  <2> QED
    BY <2>1, <2>2 DEF VisitDeliver, VisitNoSlot
<1>7. DOMAIN side' \subseteq Keys /\ \A x \in DOMAIN side' : side'[x] \in Side
  BY <1>5, <1>6 DEF Types, TypeOK
<1>8. Types'
  BY <1>1, <1>3, <1>7, SMTT(30) DEF Types, TypeOK, Held
<1> QED
  BY <1>1, <1>2, <1>8, SameMail

LEMMA EndStep == ASSUME CourierInv, Iterated \/ Return PROVE CourierInv'
<1> USE DEF CourierInv
<1>1. /\ UNCHANGED <<now, mail, skipped, side, spray, writing, crashes, faults, todo, deliver>>
      /\ \/ pc = "iterate" /\ todo = {} /\ pc' = "apply" /\ UNCHANGED <<peer, direct>>
         \/ pc = "apply" /\ deliver = {} /\ spray = {} /\ pc' = "idle" /\ peer' = Nobody /\ direct' \in {FALSE}
  BY DEF Iterated, Return, ctx, counts
<1>2. Places'
  <2>1. CASE pc = "iterate" /\ todo = {} /\ pc' = "apply" /\ UNCHANGED <<peer, direct>>
    BY <1>1, <2>1 DEF Places
  <2>2. CASE pc = "apply" /\ deliver = {} /\ spray = {} /\ pc' = "idle"
    BY <1>1, <2>2 DEF Places
  <2> QED
    BY <1>1, <2>1, <2>2
<1>3. direct' \in BOOLEAN /\ peer' \in Peers \cup {Nobody}
  BY <1>1 DEF Types, TypeOK
<1>4. Types'
  BY <1>1, <1>3 DEF Types, TypeOK, Held
<1> QED
  BY <1>1, <1>2, <1>4, SameMail

\* A hand-over to a carrier: the copies given are recorded, and the rewrite that
\* will halve ours is put on the list.
LEMMA SprayStep == ASSUME CourierInv, NEW k \in todo, VisitSpray(k) PROVE CourierInv'
<1> DEFINE r  == [mail[k] EXCEPT !.given = @ + Give(mail[k].copies)]
           op == [key |-> k, rec |-> [r EXCEPT !.copies = Keep(@)]]
<1>1. /\ UNCHANGED <<now, skipped, peer, direct, deliver, writing, crashes, faults>>
      /\ pc = "iterate" /\ pc' = "iterate" /\ todo' = todo \ {k}
      /\ spray' = spray \cup {op} /\ mail' = [mail EXCEPT ![k] = r]
      /\ side' = SetSide(k, [SideOf(k) EXCEPT !.mask = @ \cup {Bit[peer]}])
  BY DEF VisitSpray, Visited, counts
<1>2. k \in Keys /\ k \in Held /\ mail[k] \in Record /\ k \notin PendingKeys
  BY DEF CourierInv, Types, TypeOK, Ops, PendingKeys
<1>3. /\ mail[k].copies \in 1 .. MaxCopies /\ mail[k].given \in Nat /\ MaxCopies \in Nat
      /\ mail[k].budget \in Nat
  BY <1>2, CourierAssumption, SMTT(30) DEF Record
<1>4. /\ Give(mail[k].copies) \in Nat /\ Keep(mail[k].copies) \in 1 .. MaxCopies
      /\ Give(mail[k].copies) + Keep(mail[k].copies) = mail[k].copies
  BY <1>3, SMTT(30) DEF Give, Keep
<1>5. /\ r \in Record /\ r.dep = mail[k].dep /\ r.back = mail[k].back
      /\ r.given = mail[k].given + Give(mail[k].copies) /\ r.copies = mail[k].copies
      /\ r.budget = mail[k].budget
  BY <1>2, <1>3, <1>4, SMTT(30) DEF Record
<1> HIDE DEF r
<1>6. /\ op.rec \in Record /\ op.key = k /\ op.rec.dep = mail[k].dep /\ op.rec.back = mail[k].back
      /\ op.rec.given = mail[k].given + Give(mail[k].copies) /\ op.rec.copies = Keep(mail[k].copies)
      /\ op.rec.budget = mail[k].budget
  BY <1>4, <1>5 DEF Record
<1>7. op \in Op
  BY <1>2, <1>6 DEF Op
<1>8. Accounted(mail[k]) => Accounted(op.rec)
  BY <1>3, <1>4, <1>6, SMTT(30) DEF Accounted
<1> HIDE DEF op
<1>9. /\ Held' = Held /\ mail'[k] = r /\ \A x \in Held : x # k => mail'[x] = mail[x]
      /\ Pending' = Pending \cup {op} /\ PendingKeys' = PendingKeys \cup {k}
  <2>1. Held' = Held /\ mail'[k] = r /\ \A x \in Held : x # k => mail'[x] = mail[x]
    BY <1>1, <1>2 DEF Held
  <2>2. Pending' = Pending \cup {op}
    BY <1>1 DEF Pending
  <2> QED
    BY <1>6, <2>1, <2>2 DEF PendingKeys
<1>10. Types'
  <2>1. \A x \in Held' : mail'[x] \in Record
    BY <1>5, <1>9 DEF CourierInv, Types, TypeOK
  <2>2. Bit[peer] \in Range(Bit)
    BY <1>1, CourierAssumption DEF CourierInv, Places, Range
  <2>3. SideOf(k) \in Side
    BY <1>2, ClockRange, CourierAssumption, SMTT(30) DEF CourierInv, Types, TypeOK, SideOf, Fresh, Side
  <2>4. [SideOf(k) EXCEPT !.mask = @ \cup {Bit[peer]}] \in Side
    BY <2>2, <2>3 DEF Side
  <2>5. DOMAIN side' \subseteq Keys /\ \A x \in DOMAIN side' : side'[x] \in Side
    BY <1>1, <1>2, <2>4 DEF SetSide, CourierInv, Types, TypeOK
  <2> QED
    BY <1>1, <1>7, <1>9, <2>1, <2>5 DEF CourierInv, Types, TypeOK
<1>11. Places'
  BY <1>1 DEF CourierInv, Places
<1>12. Ops'
  <2>1. todo' \subseteq Held' /\ \A c \in skipped' : c.rec.back
    BY <1>1, <1>9 DEF CourierInv, Ops
  <2>3. ASSUME NEW o \in Pending'
        PROVE  /\ o.key \notin todo'
               /\ o.key \in Held' => mail'[o.key].dep = o.rec.dep /\ mail'[o.key].back = o.rec.back
    <3>1. CASE o = op
      BY <1>1, <1>2, <1>5, <1>6, <1>9, <3>1
    <3>2. CASE o \in Pending
      <4>1. o.key # k
        BY <1>2, <3>2 DEF PendingKeys
      <4> QED
        BY <1>1, <1>9, <3>2, <4>1 DEF CourierInv, Ops
    <3> QED
      BY <1>9, <2>3, <3>1, <3>2
  <2>4. ASSUME NEW o \in Pending', NEW o2 \in Pending', o2.key = o.key
        PROVE  o2.rec.dep = o.rec.dep /\ o2.rec.back = o.rec.back
    <3>1. \A q \in Pending : q.key # op.key
      BY <1>2, <1>6 DEF PendingKeys
    <3> QED
      BY <1>9, <2>4, <3>1 DEF CourierInv, Ops
  <2> QED
    BY <2>1, <2>3, <2>4 DEF Ops
<1>13. Room'
  <2>1. AllKeys' \subseteq AllKeys
    BY <1>1, <1>2, <1>9 DEF AllKeys
  <2>2. Own' \subseteq Own
    <3>1. {x \in Held' : ~ mail'[x].back} \subseteq Own
      BY <1>5, <1>9 DEF Own
    <3>2. ASSUME NEW o \in Pending', ~ o.rec.back PROVE o.key \in Own
      BY <1>2, <1>6, <1>9, <3>2 DEF Own
    <3> QED
      BY <3>1, <3>2 DEF Own
  <2>3. ASSUME NEW dep \in Peers PROVE Belongs(dep)' \subseteq Belongs(dep)
    <3>1. {x \in Held' : mail'[x].dep = dep /\ ~ mail'[x].back} \subseteq Belongs(dep)
      BY <1>5, <1>9 DEF Belongs
    <3>2. ASSUME NEW o \in Pending', o.rec.dep = dep, ~ o.rec.back PROVE o.key \in Belongs(dep)
      BY <1>2, <1>6, <1>9, <3>2 DEF Belongs
    <3> QED
      BY <3>1, <3>2 DEF Belongs
  <2> QED
    BY <2>1, <2>2, <2>3, RoomShrinks DEF CourierInv
<1>14. Conserved'
  <2>1. ASSUME crashes = 0, NEW x \in Held' \ PendingKeys' PROVE Accounted(mail'[x])
    BY <1>9, <2>1 DEF CourierInv, Conserved
  <2>2. ASSUME crashes = 0, NEW o \in Pending' PROVE Accounted(o.rec)
    BY <1>2, <1>8, <1>9, <2>2 DEF CourierInv, Conserved
  <2> QED
    BY <1>1, <2>1, <2>2 DEF Conserved, Accounted
<1> QED
  BY <1>10, <1>11, <1>12, <1>13, <1>14 DEF CourierInv

\* bitle_store_delete of a delivered envelope.
LEMMA DeleteStep == ASSUME CourierInv, NEW k \in deliver, ApplyDelete(k) PROVE CourierInv'
<1>1. /\ UNCHANGED <<now, skipped, side, pc, peer, direct, todo, spray, writing, crashes, faults>>
      /\ deliver' = deliver \ {k} /\ mail' = Restrict(mail, Held \ {k}) /\ pc = "apply" /\ todo = {}
  BY DEF ApplyDelete, counts, Drop, CourierInv, Places
<1>2. Held' \subseteq Held /\ \A x \in Held' : mail'[x] = mail[x]
  BY <1>1 DEF Restrict, Held
<1>3. Pending' = Pending /\ PendingKeys' = PendingKeys
  BY <1>1 DEF Pending, PendingKeys
<1>4. Types'
  BY <1>1, <1>2 DEF CourierInv, Types, TypeOK
<1>5. Places'
  BY <1>1 DEF CourierInv, Places
<1>6. Ops'
  BY <1>1, <1>2, <1>3 DEF CourierInv, Ops
<1>7. Conserved'
  BY <1>1, <1>2, <1>3 DEF CourierInv, Conserved
<1>8. Room'
  BY <1>1, <1>2, <1>3, MailShrinks DEF CourierInv
<1> QED
  BY <1>4, <1>5, <1>6, <1>7, <1>8 DEF CourierInv

\* bitle_store_put of an envelope already stored drops the old record ...
LEMMA DropStep == ASSUME CourierInv, NEW op \in spray, ApplyDrop(op) PROVE CourierInv'
<1>1. /\ UNCHANGED <<now, skipped, side, peer, direct, todo, deliver, crashes, faults>>
      /\ mail' = Restrict(mail, Held \ {op.key}) /\ spray' = spray \ {op} /\ writing' = {op}
      /\ pc = "apply" /\ pc' = "put" /\ todo = {} /\ writing = {}
  BY DEF ApplyDrop, counts, Drop, CourierInv, Places
<1>2. Held' = Held \ {op.key} /\ \A x \in Held' : mail'[x] = mail[x]
  BY <1>1 DEF Restrict, Held
<1>3. Pending' = Pending /\ PendingKeys' = PendingKeys /\ op \in Pending /\ op \in Op
  <2>1. Pending' = Pending /\ op \in Pending
    BY <1>1 DEF Pending
  <2> QED
    BY <2>1 DEF PendingKeys, CourierInv, Types, TypeOK
<1>4. Types'
  <2>1. spray' \subseteq Op /\ writing' \subseteq Op
    BY <1>1, <1>3 DEF CourierInv, Types, TypeOK
  <2> QED
    BY <1>1, <1>2, <2>1 DEF CourierInv, Types, TypeOK
<1>5. Places'
  BY <1>1, <1>2 DEF CourierInv, Places
<1>6. Ops'
  BY <1>1, <1>2, <1>3 DEF CourierInv, Ops
<1>7. Conserved'
  BY <1>1, <1>2, <1>3 DEF CourierInv, Conserved
<1>8. Room'
  BY <1>1, <1>2, <1>3, MailShrinks DEF CourierInv
<1> QED
  BY <1>4, <1>5, <1>6, <1>7, <1>8 DEF CourierInv

\* ... and writes the new one, or fails with the old one gone.
LEMMA WriteStep == ASSUME CourierInv, NEW op \in writing, ApplyWrite(op) PROVE CourierInv'
<1>1. /\ UNCHANGED <<now, side, peer, direct, todo, deliver, spray, crashes>>
      /\ writing' = {} /\ pc = "put" /\ pc' = "apply" /\ todo = {} /\ writing = {op}
      /\ Put(mail, op.key, op.rec)
  BY DEF ApplyWrite, CourierInv, Places
<1>2. /\ Pending' = spray /\ Pending = spray \cup {op} /\ op \in Op
      /\ op.key \in PendingKeys /\ PendingKeys' \subseteq PendingKeys
      /\ PendingKeys \subseteq PendingKeys' \cup {op.key}
  <2>1. Pending' = spray /\ Pending = spray \cup {op}
    BY <1>1 DEF Pending
  <2> QED
    BY <2>1 DEF PendingKeys, CourierInv, Types, TypeOK
<1>3. op.rec \in Record /\ op.key \in Keys
  BY <1>2 DEF Op
<1>4. op.key \notin Held
  BY DEF CourierInv, Places
<1>5. /\ Held' \subseteq Held \cup {op.key}
      /\ \A x \in Held' : (x # op.key /\ mail'[x] = mail[x]) \/ (x = op.key /\ mail'[x] = op.rec)
      /\ faults' = faults \/ faults' = faults + 1
      /\ skipped' \subseteq skipped
  <2>1. Put(mail, op.key, op.rec) /\ op.key \notin DOMAIN mail
    BY <1>1, <1>4 DEF Held
  <2>2. (faults' = faults \/ faults' = faults + 1) /\ skipped' \subseteq skipped
    BY <2>1, PutOutcome
  <2>3. ASSUME NEW x \in DOMAIN mail' PROVE x \in DOMAIN mail \cup {op.key}
    BY <2>1, PutOutcome
  <2>4. ASSUME NEW x \in DOMAIN mail'
        PROVE  (x # op.key /\ mail'[x] = mail[x]) \/ (x = op.key /\ mail'[x] = op.rec)
    BY <2>1, PutOutcome, SMTT(30)
  <2> QED
    BY <2>2, <2>3, <2>4 DEF Held
<1>6. Types'
  <2>1. Held' \subseteq Keys /\ \A x \in Held' : mail'[x] \in Record
    BY <1>3, <1>5 DEF CourierInv, Types, TypeOK
  <2>2. faults' \in Nat /\ skipped' \subseteq Op
    <3>1. faults' \in Nat
      BY <1>5, SMTT(30) DEF CourierInv, Types
    <3> QED
      BY <1>5, <3>1 DEF CourierInv, Types, TypeOK
  <2> QED
    BY <1>1, <2>1, <2>2 DEF CourierInv, Types, TypeOK
<1>7. Places'
  BY <1>1 DEF CourierInv, Places
<1>8. Ops'
  <2>1. ASSUME NEW o \in Pending', o.key \in Held'
        PROVE  mail'[o.key].dep = o.rec.dep /\ mail'[o.key].back = o.rec.back
    <3>1. o \in Pending /\ op \in Pending
      BY <1>2
    <3>2. CASE o.key = op.key
      <4>1. mail'[o.key] = op.rec
        BY <1>5, <2>1, <3>2
      <4>2. op.rec.dep = o.rec.dep /\ op.rec.back = o.rec.back
        BY <3>1, <3>2 DEF CourierInv, Ops
      <4> QED
        BY <4>1, <4>2
    <3>3. CASE o.key # op.key
      BY <1>5, <2>1, <3>1, <3>3 DEF CourierInv, Ops
    <3> QED
      BY <3>2, <3>3
  <2>2. todo' = {} /\ \A c \in skipped' : c.rec.back
    BY <1>1, <1>5 DEF CourierInv, Ops
  <2>3. \A o, o2 \in Pending' : o2.key = o.key => o2.rec.dep = o.rec.dep /\ o2.rec.back = o.rec.back
    BY <1>2 DEF CourierInv, Ops
  <2> QED
    BY <2>1, <2>2, <2>3 DEF Ops
<1>9. Conserved'
  <2>1. ASSUME crashes = 0, NEW x \in Held' \ PendingKeys' PROVE Accounted(mail'[x])
    BY <1>2, <1>5, <2>1 DEF CourierInv, Conserved
  <2>2. ASSUME crashes = 0, NEW o \in Pending' PROVE Accounted(o.rec)
    BY <1>2, <2>2 DEF CourierInv, Conserved
  <2> QED
    BY <1>1, <2>1, <2>2 DEF Conserved, Accounted
<1>10. ASSUME NEW dep \in Peers PROVE Belongs(dep)' \subseteq Belongs(dep)
  <2>1. {x \in Held' : mail'[x].dep = dep /\ ~ mail'[x].back} \subseteq Belongs(dep)
    BY <1>2, <1>5 DEF Belongs
  <2>2. ASSUME NEW o \in Pending', o.rec.dep = dep, ~ o.rec.back PROVE o.key \in Belongs(dep)
    BY <1>2, <2>2 DEF Belongs
  <2> QED
    BY <2>1, <2>2 DEF Belongs
<1>11. Own' \subseteq Own
  <2>1. {x \in Held' : ~ mail'[x].back} \subseteq Own
    BY <1>2, <1>5 DEF Own
  <2>2. ASSUME NEW o \in Pending', ~ o.rec.back PROVE o.key \in Own
    BY <1>2, <2>2 DEF Own
  <2> QED
    BY <2>1, <2>2 DEF Own
<1>12. Room'
  <2>1. AllKeys' \subseteq AllKeys
    BY <1>2, <1>5 DEF AllKeys
  <2> QED
    BY <1>10, <1>11, <2>1, RoomShrinks DEF CourierInv
<1> QED
  BY <1>6, <1>7, <1>8, <1>9, <1>12 DEF CourierInv

\* Every step of the worker, the clock and the power keeps the invariant.
LEMMA CourierStep == ASSUME CourierInv, [Next]_vars PROVE CourierInv'
<1>1. CASE UNCHANGED vars
  <2>1. Types' /\ Places'
    BY <1>1 DEF vars, CourierInv, Types, TypeOK, Places, Held
  <2> QED
    BY <1>1, <2>1, SameMail DEF vars
<1>2. CASE Tick \/ Crash
  BY <1>2, TickStep, CrashStep
<1>3. CASE Step
  BY <1>3, QuietStep, SprayStep, EndStep, DeleteStep, DropStep, WriteStep DEF Step
<1>4. CASE \E e \in Deposits : Accept(e)
  BY <1>4, AcceptStep
<1>5. CASE \E p \in Peers, d \in BOOLEAN : Announced(p, d)
  BY <1>5, AnnouncedStep
<1> QED
  BY <1>1, <1>2, <1>3, <1>4, <1>5 DEF Next

\* Two instants no more than a day apart fall on the same day or on adjacent ones.
LEMMA AdjacentDays ==
  ASSUME NEW b \in Nat, NEW t \in Nat, b <= t + Day, t <= b + Day
  PROVE  DayOf(b) - DayOf(t) \in {-1, 0, 1}
<1>1. Day \in Nat /\ Day > 0
  BY CourierAssumption, SMTT(30)
<1> DEFINE q == DayOf(b)
           s == DayOf(t)
<1>2. q \in Int /\ s \in Int /\ b = Day * q + (b % Day) /\ t = Day * s + (t % Day)
      /\ b % Day \in 0 .. Day - 1 /\ t % Day \in 0 .. Day - 1
  BY <1>1, SMTT(30) DEF DayOf
<1> HIDE DEF q, s
<1>3. Day * s - Day * q < 2 * Day /\ Day * q - Day * s < 2 * Day
  BY <1>1, <1>2, SMTT(30)
<1>4. ~ (s >= q + 2)
  BY <1>1, <1>2, <1>3, SMTT(30)
<1>5. ~ (q >= s + 2)
  BY <1>1, <1>2, <1>3, SMTT(30)
<1> QED
  BY <1>2, <1>4, <1>5, SMTT(30) DEF q, s

\* The mailbox never holds more than its 128 envelopes nor more than 8 of one
\* depositor, but for records that a boot left out and a later one has back;
\* gives away no copy that was not deposited; and recognises the owner of a
\* day's mail until it expires, and of mail that uses the 25 h cap until less
\* than an hour before: through failed puts, records the flash ring overwrites,
\* resets, and a clock that steps either way.
THEOREM MailboxAccounts == Spec => []MailAccounted
<1>1. Init => CourierInv
  BY CourierInit
<1>2. CourierInv /\ [Next]_vars => CourierInv'
  BY CourierStep
<1>3. CourierInv => MailAccounted
  <2> SUFFICES ASSUME CourierInv PROVE MailAccounted
    OBVIOUS
  <2>1. Budgets
    <3>1. IsFiniteSet(AllKeys) /\ Own \subseteq AllKeys
      BY DEF CourierInv, Room, Own, AllKeys, PendingKeys
    <3> DEFINE all == {k \in Held : ~ mail[k].back}
    <3>2. IsFiniteSet(Own) /\ all \subseteq Own
      BY <3>1, FS_Subset DEF Own
    <3> HIDE DEF all
    <3>3. Cardinality(all) <= Cardinality(Own) /\ Cardinality(all) \in Nat /\ Cardinality(Own) \in Nat
      BY <3>2, FS_Subset, FS_CardinalityType
    <3>4. Cardinality(all) <= MaxEnvelopes
      BY <3>3, CourierAssumption, SMTT(30) DEF CourierInv, Room
    <3>5. ASSUME NEW dep \in Peers
          PROVE  Cardinality({k \in Held : mail[k].dep = dep /\ ~ mail[k].back}) <= MaxPerDepositor
      <4> DEFINE live == {k \in Held : mail[k].dep = dep /\ ~ mail[k].back}
      <4>1. live \subseteq Belongs(dep) /\ Belongs(dep) \subseteq AllKeys
        BY DEF Belongs, AllKeys, PendingKeys
      <4> HIDE DEF live
      <4>2. IsFiniteSet(Belongs(dep))
        BY <3>1, <4>1, FS_Subset
      <4>3. IsFiniteSet(live) /\ Cardinality(live) <= Cardinality(Belongs(dep))
        BY <4>1, <4>2, FS_Subset
      <4>4. Cardinality(live) \in Nat /\ Cardinality(Belongs(dep)) \in Nat
        BY <4>2, <4>3, FS_CardinalityType
      <4>5. Cardinality(live) <= MaxPerDepositor
        BY <4>3, <4>4, CourierAssumption, SMTT(30) DEF CourierInv, Room
      <4> QED
        BY <4>5 DEF live
    <3> QED
      BY <3>4, <3>5 DEF Budgets, all
  <2>2. TagCoversLifetime
    <3> SUFFICES ASSUME NEW k \in Held \ Expired, ~ TagMatches(k, Owner[k]),
                        now >= mail[k].made - Day, mail[k].exp - mail[k].made <= MaxLifetime
                 PROVE  mail[k].exp - mail[k].made > Day /\ mail[k].exp - now < MaxLifetime - Day
      BY DEF TagCoversLifetime
    <3>1. /\ mail[k].exp \in Nat /\ mail[k].made \in Nat /\ now \in Nat
          /\ Day \in Nat /\ MaxLifetime \in Nat
      BY ClockRange, CourierAssumption DEF CourierInv, Types, TypeOK, Record
    <3>2. now <= mail[k].exp
      BY <3>1, SMTT(30) DEF Expired
    <3>3. ~ (now <= mail[k].made + Day)
      <4>1. mail[k].made <= now + Day
        BY <3>1, SMTT(30)
      <4> QED
        BY <3>1, <4>1, AdjacentDays DEF TagMatches
    <3> QED
      BY <3>1, <3>2, <3>3, SMTT(30)
  <2>3. CopiesConserved
    BY DEF CourierInv, Places, Conserved, CopiesConserved, PendingKeys, Pending, Accounted
  <2> QED
    BY <2>1, <2>2, <2>3 DEF MailAccounted, CourierInv, Types
<1> QED
  BY <1>1, <1>2, <1>3, PTL DEF Spec

\* An envelope leaves only to its owner on a direct link, by expiry, at a boot
\* whose clock finds it expired, by a failed or overwriting put, or between the two halves of its own rewrite,
\* which puts it back unless the put fails or the power does.
THEOREM MailLeavesForCause == Spec => MailLeaves
<1> DEFINE Cause(k) == \/ now > mail[k].exp \/ faults' > faults
                       \/ now' > mail[k].exp /\ crashes' > crashes
                       \/ k \in deliver /\ Owner[k] = peer /\ direct
                       \/ \E op \in writing' : op.key = k /\ op.rec.dep = mail[k].dep
           Leaves   == /\ \A k \in Held \ DOMAIN mail' : Cause(k)
                       /\ \A op \in writing : op.key \in DOMAIN mail' \/ faults' > faults \/ crashes' > crashes
<1>1. Init => CourierInv
  BY CourierInit
<1>2. CourierInv /\ [Next]_vars => CourierInv'
  BY CourierStep
<1>3. CourierInv /\ [Next]_vars => [Leaves]_vars
  <2> SUFFICES ASSUME CourierInv, Next PROVE Leaves
    OBVIOUS
  <2>1. crashes \in Nat /\ faults \in Nat
    BY DEF CourierInv, Types
  <2>2. CASE UNCHANGED mail /\ writing = {}
    BY <2>2 DEF Held
  <2>3. CASE Crash
    <3> DEFINE live == {c \in Flash : now' <= c.rec.exp}
    <3>1. DOMAIN mail' = {c.key : c \in live}
      BY <2>3 DEF Crash
    <3>2. crashes' > crashes /\ now' \in Nat /\ \A k \in Held : mail[k].exp \in Nat
      <4>1. crashes' = crashes + 1 /\ now' \in Nat
        BY <2>3, ClockRange DEF Crash
      <4> QED
        BY <2>1, <4>1, SMTT(30) DEF CourierInv, Types, TypeOK, Record
    <3>3. ASSUME NEW k \in Held, k \notin DOMAIN mail' PROVE now' > mail[k].exp
      <4>1. Stored(k) \in Flash /\ Stored(k).key = k /\ Stored(k).rec = mail[k]
        BY DEF Flash, Stored
      <4>2. ~ (now' <= mail[k].exp)
        BY <3>1, <3>3, <4>1
      <4> QED
        BY <3>2, <4>2, SMTT(30)
    <3> QED
      BY <3>2, <3>3
  <2>4. ASSUME NEW e \in Deposits, Accept(e) PROVE Leaves
    <3>1. writing = {}
      BY <2>4 DEF Accept, CourierInv, Places
    <3> DEFINE kept == Restrict(mail, Held \ Expired)
    <3>2. DOMAIN kept = Held \ Expired
      BY DEF Restrict
    <3>3. mail' = kept \/ \E r : Put(kept, e.key, r)
      BY <2>4 DEF Accept
    <3>4. e.key \notin DOMAIN kept
      BY <2>4, <3>2 DEF Accept
    <3> HIDE DEF kept
    <3>6. DOMAIN kept \subseteq DOMAIN mail' \/ faults' > faults
      <4>1. CASE mail' = kept
        BY <4>1
      <4>2. ASSUME NEW r, Put(kept, e.key, r)
            PROVE  DOMAIN kept \subseteq DOMAIN mail' \/ faults' = faults + 1
        BY <3>4, <4>2, PutOutcome
      <4>3. faults' = faults + 1 => faults' > faults
        BY <2>1, SMTT(30)
      <4> QED
        BY <3>3, <4>1, <4>2, <4>3
    <3>5. \A x \in Expired : now > mail[x].exp
      BY DEF Expired
    <3> QED
      BY <3>1, <3>2, <3>5, <3>6
  <2>5. ASSUME NEW p \in Peers, NEW d \in BOOLEAN, Announced(p, d) PROVE Leaves
    BY <2>5 DEF Announced, Drop, Restrict, Expired, CourierInv, Places
  <2>6. ASSUME NEW k \in todo, VisitSpray(k) PROVE Leaves
    BY <2>6 DEF VisitSpray, CourierInv, Places, Held
  <2>7. ASSUME NEW k \in deliver, ApplyDelete(k) PROVE Leaves
    BY <2>7 DEF ApplyDelete, Drop, Restrict, CourierInv, Places
  <2>8. ASSUME NEW op \in spray, ApplyDrop(op) PROVE Leaves
    BY <2>8 DEF ApplyDrop, Drop, Restrict, CourierInv, Places, Ops, Pending
  <2>9. ASSUME NEW op \in writing, ApplyWrite(op) PROVE Leaves
    <3>1. \A o \in writing : o = op
      BY DEF CourierInv, Places
    <3>2. Put(mail, op.key, op.rec)
      BY <2>9 DEF ApplyWrite
    <3>3. faults' = faults + 1 => faults' > faults
      BY <2>1, SMTT(30)
    <3>4. op.key \notin DOMAIN mail
      BY DEF CourierInv, Places, Held
    <3>5. faults' = faults + 1 \/ (Held \subseteq DOMAIN mail' /\ op.key \in DOMAIN mail')
      BY <3>2, <3>4, PutOutcome DEF Held
    <3> QED
      BY <3>1, <3>3, <3>5
  <2>10. Tick \/ Iterated \/ Return => UNCHANGED mail /\ writing = {}
    BY DEF Tick, Iterated, Return, CourierInv, Places
  <2>11. ASSUME NEW k \in todo, VisitDeliver(k) \/ VisitFlood(k) \/ VisitNothing(k) \/ VisitNoSlot(k)
         PROVE  UNCHANGED mail /\ writing = {}
    BY <2>11 DEF VisitDeliver, VisitFlood, VisitNothing, VisitNoSlot, CourierInv, Places
  <2> QED
    BY <2>2, <2>3, <2>4, <2>5, <2>6, <2>7, <2>8, <2>9, <2>10, <2>11 DEF Next, Step
<1> QED
  BY <1>1, <1>2, <1>3, PTL DEF Spec, MailLeaves

-----------------------------------------------------------------------------
(* The mesh relay.                                                         *)

\* The inductive strengthening of ActsOnce.  A ring holds no packet twice and
\* only packets that were sent, so that it cannot overflow before more are sent
\* than it holds; what was acted upon is then still in it.  Link-local packets
\* in flight are on a link of their sender.
RingInv ==
  /\ IsFiniteSet(sent)
  /\ DOMAIN seen = Bitles
  /\ \A n \in Bitles : IsInjective(seen[n]) /\ Range(seen[n]) \subseteq sent
  /\ \A n \in Bitles, p \in Packets : processed[n][p] > 0 => p \in sent
  /\ Cardinality(sent) <= RingSize =>
       \A n \in Bitles, p \in Packets : processed[n][p] > 0 => p \in Range(seen[n])

ActedInv ==
  \A n \in Bitles, p \in Packets : processed[n][p] > 0 =>
    /\ Dest[p] \in {n, Everyone}
    /\ LinkLocal(p) => Adjacent(n, Origin[p])

CopyOk(m, s) ==
  /\ m \in Copy /\ m.pkt \in s
  /\ LinkLocal(m.pkt) => {m.to, Origin[m.pkt]} \subseteq Members[m.link]
  /\ m.ttl < OriginTTL /\ m.ttl > 0 =>
       /\ ~ LinkLocal(m.pkt)
       /\ \E n \in Nodes \ {Dest[m.pkt], m.to} :
            (n \in Bitles => n # Origin[m.pkt]) /\ n \in Members[m.link]

FlightInv == \A m \in net : CopyOk(m, sent)

MeshInv == MeshTypeOK /\ RingInv /\ ProcessedOnce /\ ActedInv /\ FlightInv

-----------------------------------------------------------------------------
(* The operators of the mesh.                                              *)

\* bitle_link_broadcast puts one copy on each link of the node, for the others
\* on it.
LEMMA BroadcastCopies ==
  ASSUME NEW n \in Nodes, NEW except, NEW p \in Packets, NEW ttl \in 0 .. OriginTTL,
         NEW m \in Broadcast(n, except, p, ttl)
  PROVE  /\ m \in Copy /\ m.pkt = p /\ m.ttl = ttl /\ m.to # n
         /\ n \in Members[m.link] /\ m.to \in Members[m.link] /\ m.link \in Links
<1>1. PICK lm \in (LinksOf(n) \ except) \X Nodes :
        /\ lm[2] \in Members[lm[1]] \ {n}
        /\ m = [pkt |-> p, ttl |-> ttl, to |-> lm[2], link |-> lm[1]]
  BY DEF Broadcast
<1>2. lm[1] \in Links /\ n \in Members[lm[1]] /\ lm[2] \in Nodes
  BY <1>1 DEF LinksOf
<1>3. m.pkt = p /\ m.ttl = ttl /\ m.to = lm[2] /\ m.link = lm[1]
  BY <1>1
<1>4. m \in Copy
  BY <1>1, <1>2 DEF Copy
<1> QED
  BY <1>1, <1>2, <1>3, <1>4

\* relay_seen_before's ring after a packet it did not hold: no packet twice,
\* the new one among them, none lost while there is room.
LEMMA RememberRing ==
  ASSUME NEW ring \in Seq(Packets), Len(ring) <= RingSize, IsInjective(ring),
         NEW p \in Packets, p \notin Range(ring)
  PROVE  /\ Remember(ring, p) \in Seq(Packets) /\ Len(Remember(ring, p)) <= RingSize
         /\ IsInjective(Remember(ring, p))
         /\ Range(Remember(ring, p)) \subseteq Range(ring) \cup {p}
         /\ Len(ring) < RingSize => Range(ring) \cup {p} \subseteq Range(Remember(ring, p))
<1> DEFINE all == Append(ring, p)
<1>1. /\ Len(ring) \in Nat /\ DOMAIN ring = 1 .. Len(ring) /\ RingSize \in Nat \ {0}
  BY MeshAssumption, SMTT(30)
<1>2. /\ all \in Seq(Packets) /\ all # <<>> /\ Len(all) = Len(ring) + 1
      /\ \A i \in 1 .. Len(ring) : all[i] = ring[i]
      /\ all[Len(ring) + 1] = p
  BY SMTT(30)
<1>3. DOMAIN all = 1 .. Len(ring) + 1
  BY <1>2, SMTT(30)
<1> HIDE DEF all
<1>4. IsInjective(all)
  <2> SUFFICES ASSUME NEW a \in 1 .. Len(ring) + 1, NEW b \in 1 .. Len(ring) + 1, all[a] = all[b]
               PROVE  a = b
    BY <1>3 DEF IsInjective
  <2>1. CASE a \in 1 .. Len(ring) /\ b \in 1 .. Len(ring)
    BY <1>1, <1>2, <2>1 DEF IsInjective
  <2>2. CASE a = Len(ring) + 1 /\ b \in 1 .. Len(ring)
    BY <1>1, <1>2, <2>2 DEF Range
  <2>3. CASE a \in 1 .. Len(ring) /\ b = Len(ring) + 1
    BY <1>1, <1>2, <2>3 DEF Range
  <2> QED
    BY <1>1, <2>1, <2>2, <2>3, SMTT(30)
<1>5. Range(all) = Range(ring) \cup {p}
  BY <1>1, <1>2, <1>3, SMTT(30) DEF Range
<1>6. CASE Len(all) > RingSize
  <2>1. Remember(ring, p) = Tail(all)
    BY <1>6 DEF Remember, all
  <2>2. /\ Tail(all) \in Seq(Packets) /\ Len(Tail(all)) = Len(ring)
        /\ \A i \in 1 .. Len(ring) : Tail(all)[i] = all[i + 1]
    BY <1>1, <1>2, SMTT(30)
  <2>3. DOMAIN Tail(all) = 1 .. Len(ring)
    BY <2>2, SMTT(30)
  <2>4. IsInjective(Tail(all))
    <3> SUFFICES ASSUME NEW a \in 1 .. Len(ring), NEW b \in 1 .. Len(ring), Tail(all)[a] = Tail(all)[b]
                 PROVE  a = b
      BY <2>3 DEF IsInjective
    <3>1. all[a + 1] = all[b + 1] /\ a + 1 \in DOMAIN all /\ b + 1 \in DOMAIN all
      BY <1>1, <1>3, <2>2, SMTT(30)
    <3> QED
      BY <1>4, <3>1, SMTT(30) DEF IsInjective
  <2>5. Range(Tail(all)) \subseteq Range(all)
    <3> SUFFICES ASSUME NEW i \in 1 .. Len(ring) PROVE Tail(all)[i] \in Range(all)
      BY <2>3 DEF Range
    <3>1. i + 1 \in DOMAIN all
      BY <1>1, <1>3, SMTT(30)
    <3> QED
      BY <2>2, <3>1 DEF Range
  <2> QED
    BY <1>1, <1>2, <1>5, <1>6, <2>1, <2>2, <2>4, <2>5, SMTT(30)
<1>7. CASE ~ (Len(all) > RingSize)
  <2>1. Remember(ring, p) = all
    BY <1>7 DEF Remember, all
  <2> QED
    BY <1>1, <1>2, <1>4, <1>5, <1>7, <2>1, SMTT(30)
<1> QED
  BY <1>6, <1>7

\* A ring without duplicates is no longer than the set it draws from.
LEMMA RingFits ==
  ASSUME NEW ring \in Seq(Packets), IsInjective(ring), NEW S, IsFiniteSet(S),
         Range(ring) \subseteq S, NEW p \in S, p \notin Range(ring)
  PROVE  Len(ring) < Cardinality(S)
<1>1. Len(ring) \in Nat /\ DOMAIN ring = 1 .. Len(ring)
  BY SMTT(30)
<1>2. IsFiniteSet(S \ {p}) /\ Cardinality(S \ {p}) = Cardinality(S) - 1
  BY FS_RemoveElement
<1>3. ring \in [1 .. Len(ring) -> S \ {p}]
  BY <1>1, SMTT(30) DEF Range
<1>4. ring \in Injection(1 .. Len(ring), S \ {p})
  BY <1>3 DEF Injection
<1>5. Cardinality(1 .. Len(ring)) <= Cardinality(S \ {p})
  BY <1>2, <1>4, FS_Injection
<1>6. Cardinality(1 .. Len(ring)) = Len(ring)
  BY <1>1, FS_Interval, SMTT(30)
<1>7. Cardinality(S) \in Nat
  BY FS_CardinalityType
<1> QED
  BY <1>1, <1>2, <1>5, <1>6, <1>7, SMTT(30)

\* Copies a node relays, echoes or replays are in bounds.
LEMMA PassedOn ==
  ASSUME NEW n \in Nodes, NEW except, NEW p \in Packets, NEW s, p \in s,
         NEW ttl \in 0 .. OriginTTL, ~ LinkLocal(p),
         ttl > 0 => n # Dest[p] /\ (n \in Bitles => n # Origin[p]),
         NEW m \in Broadcast(n, except, p, ttl)
  PROVE  CopyOk(m, s)
<1>1. /\ m \in Copy /\ m.pkt = p /\ m.ttl = ttl /\ m.to # n
      /\ n \in Members[m.link] /\ m.to \in Members[m.link]
  BY BroadcastCopies, SMTT(30)
<1> QED
  BY <1>1 DEF CopyOk

\* More packets sent, fewer copies in flight: those left are still in bounds.
LEMMA StillInFlight ==
  ASSUME NEW m, NEW s, NEW t, s \subseteq t, CopyOk(m, s)
  PROVE  CopyOk(m, t)
  BY DEF CopyOk

-----------------------------------------------------------------------------
(* The steps.                                                              *)

\* A quiet mesh.
LEMMA MeshStarts == MeshInit => MeshInv
<1> SUFFICES ASSUME MeshInit PROVE MeshInv
  OBVIOUS
<1>1. <<>> \in Seq(Packets) /\ Len(<<>>) = 0 /\ DOMAIN <<>> = {}
  BY SMTT(30)
<1>2. MeshTypeOK
  BY <1>1, MeshAssumption, SMTT(30) DEF MeshInit, MeshTypeOK
<1>3. IsFiniteSet({})
  BY FS_EmptySet
<1>4. IsInjective(<<>>) /\ Range(<<>>) = {}
  BY <1>1 DEF IsInjective, Range
<1>5. RingInv /\ ProcessedOnce /\ ActedInv /\ FlightInv
  BY <1>3, <1>4, SMTT(30) DEF MeshInit, RingInv, ProcessedOnce, ActedInv, FlightInv
<1> QED
  BY <1>2, <1>5 DEF MeshInv

\* What the steps that touch no ring leave alone.
LEMMA RingsKept ==
  ASSUME MeshInv, UNCHANGED <<seen, processed>>, echoed' \in [Phones -> SUBSET Packets],
         sent \subseteq sent', sent' \subseteq Packets, IsFiniteSet(sent'),
         \A m \in net' : CopyOk(m, sent')
  PROVE  MeshInv'
<1>1. MeshTypeOK'
  BY DEF MeshInv, MeshTypeOK, CopyOk
<1>2. IsFiniteSet(sent) /\ Cardinality(sent) <= Cardinality(sent')
  BY FS_Subset
<1>3. Cardinality(sent) \in Nat /\ Cardinality(sent') \in Nat /\ RingSize \in Nat
  BY <1>2, FS_CardinalityType, MeshAssumption
<1>4. RingInv'
  BY <1>2, <1>3, SMTT(30) DEF MeshInv, RingInv
<1>5. ProcessedOnce'
  BY <1>2, <1>3, SMTT(30) DEF MeshInv, ProcessedOnce
<1>6. ActedInv' /\ FlightInv'
  BY DEF MeshInv, ActedInv, FlightInv
<1> QED
  BY <1>1, <1>4, <1>5, <1>6 DEF MeshInv

\* A packet is sent for the first time.
LEMMA OriginateStep ==
  ASSUME MeshInv, NEW p \in Packets, Originate(p)
  PROVE  MeshInv'
<1>1. sent' = sent \cup {p} /\ UNCHANGED <<seen, processed, echoed>>
      /\ net' = net \cup Broadcast(Origin[p], {}, p, OriginTTL)
  BY DEF Originate
<1>2. IsFiniteSet(sent') /\ sent' \subseteq Packets
  BY <1>1, FS_AddElement DEF MeshInv, RingInv, MeshTypeOK
<1>3. ASSUME NEW m \in Broadcast(Origin[p], {}, p, OriginTTL) PROVE CopyOk(m, sent')
  <2>1. Origin[p] \in Nodes /\ OriginTTL \in 0 .. OriginTTL
    BY MeshAssumption, SMTT(30)
  <2>2. /\ m \in Copy /\ m.pkt = p /\ m.ttl = OriginTTL
        /\ Origin[p] \in Members[m.link] /\ m.to \in Members[m.link]
    BY <1>3, <2>1, BroadcastCopies, SMTT(30)
  <2> QED
    BY <1>1, <2>2, MeshAssumption, SMTT(30) DEF CopyOk
<1>4. \A m \in net : CopyOk(m, sent')
  BY <1>1, StillInFlight DEF MeshInv, FlightInv
<1>5. \A m \in net' : CopyOk(m, sent')
  BY <1>1, <1>3, <1>4
<1> QED
  BY <1>1, <1>2, <1>5, RingsKept DEF MeshInv, MeshTypeOK

\* A phone hears a packet, and may echo it.
LEMMA PhoneStep ==
  ASSUME MeshInv, NEW m \in net, PhoneInbound(m)
  PROVE  MeshInv'
<1>1. CopyOk(m, sent) /\ m \in Copy
  BY DEF MeshInv, FlightInv, CopyOk
<1>2. m.pkt \in Packets /\ m.ttl \in 0 .. OriginTTL /\ m.to \in Phones /\ m.to \in Nodes
  BY <1>1 DEF Copy, PhoneInbound, Nodes
<1>3. echoed' \in [Phones -> SUBSET Packets]
  BY <1>2 DEF PhoneInbound, MeshInv, MeshTypeOK
<1>4. UNCHANGED <<sent, seen, processed>>
  BY DEF PhoneInbound
<1>5. ASSUME NEW x \in net' PROVE CopyOk(x, sent)
  <2>1. CASE x \in net
    BY <2>1 DEF MeshInv, FlightInv
  <2>2. CASE x \notin net
    <3>1. /\ x \in Broadcast(m.to, {}, m.pkt, m.ttl - 1)
          /\ m.ttl > 1 /\ m.to \notin {Origin[m.pkt], Dest[m.pkt]} /\ ~ LinkLocal(m.pkt)
      BY <1>5, <2>2 DEF PhoneInbound
    <3>2. m.ttl - 1 \in 0 .. OriginTTL
      BY <1>2, <3>1, MeshAssumption, SMTT(30)
    <3> QED
      BY <1>1, <1>2, <3>1, <3>2, PassedOn, SMTT(30) DEF CopyOk
  <2> QED
    BY <2>1, <2>2
<1> QED
  BY <1>3, <1>4, <1>5, RingsKept DEF MeshInv, MeshTypeOK, RingInv

\* A sync replay.
LEMMA ReplayStep ==
  ASSUME MeshInv, NEW n \in Bitles, NEW p \in Packets, NEW l \in Links, Replay(n, p, l)
  PROVE  MeshInv'
<1>1. /\ Type[p] = "public" /\ processed[n][p] > 0
      /\ net' = net \cup Broadcast(n, Links \ {l}, p, 0)
      /\ UNCHANGED <<sent, seen, processed, echoed>>
  BY DEF Replay
<1>2. p \in sent /\ ~ LinkLocal(p) /\ n \in Nodes /\ 0 \in 0 .. OriginTTL
  BY <1>1, MeshAssumption, SMTT(30) DEF MeshInv, RingInv, LinkLocal, Nodes
<1>3. \A x \in Broadcast(n, Links \ {l}, p, 0) : CopyOk(x, sent)
  BY <1>2, PassedOn, SMTT(30)
<1>4. \A x \in net' : CopyOk(x, sent')
  BY <1>1, <1>3 DEF MeshInv, FlightInv
<1> QED
  BY <1>1, <1>4, RingsKept DEF MeshInv, MeshTypeOK, RingInv

\* A lost copy.
LEMMA LoseStep ==
  ASSUME MeshInv, NEW m \in net, Lose(m)
  PROVE  MeshInv'
<1>1. UNCHANGED <<sent, seen, processed, echoed>> /\ net' \subseteq net
  BY DEF Lose
<1> QED
  BY <1>1, RingsKept DEF MeshInv, MeshTypeOK, RingInv, FlightInv

\* bitle_mesh_inbound: what was not in the ring was never acted upon, as long
\* as the ring holds all that was sent.
LEMMA InboundStep ==
  ASSUME MeshInv, NEW m \in net, Inbound(m)
  PROVE  MeshInv'
<1> DEFINE n == m.to
           p == m.pkt
           ring == seen[n]
<1>1. CopyOk(m, sent) /\ m \in Copy /\ n \in Bitles /\ n \in Nodes
  BY DEF MeshInv, FlightInv, CopyOk, Inbound, Nodes
<1>2. p \in Packets /\ p \in sent /\ m.ttl \in 0 .. OriginTTL /\ m.link \in Links
  BY <1>1 DEF CopyOk, Copy
<1>3. UNCHANGED <<sent, echoed>>
  BY DEF Inbound
<1>4. CASE SeenBefore(n, p)
  <2>1. net' \subseteq net /\ UNCHANGED <<seen, processed>>
    BY <1>4 DEF Inbound
  <2> QED
    BY <1>3, <2>1, RingsKept DEF MeshInv, MeshTypeOK, RingInv, FlightInv
<1>5. CASE ~ SeenBefore(n, p)
  <2>1. /\ seen' = [seen EXCEPT ![n] = Remember(ring, p)]
        /\ processed' = IF ForMe(n, p) THEN [processed EXCEPT ![n][p] = More(@)] ELSE processed
        /\ net' = (net \ {m}) \cup
                    (IF Relays(n, p, m.ttl) THEN Broadcast(n, {m.link}, p, NextTtl(m.ttl)) ELSE {})
    BY <1>5 DEF Inbound
  <2>2. /\ ring \in Seq(Packets) /\ Len(ring) <= RingSize /\ IsInjective(ring)
        /\ Range(ring) \subseteq sent /\ p \notin Range(ring) /\ IsFiniteSet(sent)
        /\ DOMAIN seen = Bitles
    BY <1>1, <1>5 DEF MeshInv, MeshTypeOK, RingInv, SeenBefore
  <2>3. /\ Remember(ring, p) \in Seq(Packets) /\ Len(Remember(ring, p)) <= RingSize
        /\ IsInjective(Remember(ring, p))
        /\ Range(Remember(ring, p)) \subseteq Range(ring) \cup {p}
        /\ Len(ring) < RingSize => Range(ring) \cup {p} \subseteq Range(Remember(ring, p))
    BY <1>2, <2>2, RememberRing
  <2>4. Cardinality(sent) <= RingSize => Len(ring) < RingSize
    <3>1. Len(ring) < Cardinality(sent)
      BY <1>2, <2>2, RingFits
    <3>2. Len(ring) \in Nat /\ Cardinality(sent) \in Nat /\ RingSize \in Nat
      BY <2>2, FS_CardinalityType, MeshAssumption, SMTT(30)
    <3> QED
      BY <3>1, <3>2, SMTT(30)
  <2>5. /\ \A k \in Bitles \ {n} : seen'[k] = seen[k]
        /\ seen'[n] = Remember(ring, p) /\ DOMAIN seen' = Bitles
    BY <1>1, <2>1, <2>2
  <2>6. processed \in [Bitles -> [Packets -> 0 .. 2]]
    BY DEF MeshInv, MeshTypeOK
  <2>7. /\ processed' \in [Bitles -> [Packets -> 0 .. 2]]
        /\ \A k \in Bitles, x \in Packets :
             processed'[k][x] # processed[k][x] =>
               k = n /\ x = p /\ ForMe(n, p) /\ processed'[n][p] = More(processed[n][p])
    BY <1>1, <1>2, <2>1, <2>6, SMTT(30) DEF More
  <2>8. ASSUME Cardinality(sent) <= RingSize
        PROVE  /\ \A k \in Bitles, x \in Packets : processed'[k][x] <= 1
               /\ \A k \in Bitles, x \in Packets : processed'[k][x] > 0 => x \in Range(seen'[k])
    <3>1. processed[n][p] = 0
      BY <1>1, <1>2, <2>2, <2>6, <2>8, SMTT(30) DEF MeshInv, RingInv
    <3>2. \A k \in Bitles, x \in Packets : processed'[k][x] <= 1
      BY <2>7, <2>8, <3>1, SMTT(30) DEF MeshInv, ProcessedOnce, More
    <3>3. \A k \in Bitles : Range(seen[k]) \subseteq Range(seen'[k])
      BY <2>3, <2>4, <2>5, <2>8
    <3>4. \A k \in Bitles, x \in Packets : processed'[k][x] > 0 => x \in Range(seen'[k])
      BY <2>3, <2>4, <2>5, <2>7, <2>8, <3>3, SMTT(30) DEF MeshInv, RingInv
    <3> QED
      BY <3>2, <3>4
  <2>9. ASSUME NEW x \in net' PROVE CopyOk(x, sent')
    <3>1. CASE x \in net
      BY <1>3, <3>1 DEF MeshInv, FlightInv
    <3>2. CASE x \notin net
      <4>1. Relays(n, p, m.ttl) /\ x \in Broadcast(n, {m.link}, p, m.ttl - 1)
        BY <2>1, <2>9, <3>2 DEF NextTtl
      <4>2. m.ttl - 1 \in 0 .. OriginTTL /\ ~ LinkLocal(p) /\ Origin[p] # n /\ Dest[p] # n
        BY <1>2, <4>1, MeshAssumption, SMTT(30) DEF Relays, TtlSpent
      <4> QED
        BY <1>1, <1>2, <1>3, <4>1, <4>2, PassedOn
    <3> QED
      BY <3>1, <3>2
  <2>10. MeshTypeOK'
    BY <1>3, <2>3, <2>5, <2>7, <2>9 DEF MeshInv, MeshTypeOK, CopyOk
  <2>11. \A k \in Bitles, x \in Packets : processed'[k][x] > 0 => x \in sent
    BY <1>2, <2>7, SMTT(30) DEF MeshInv, RingInv
  <2>12. RingInv'
    BY <1>2, <1>3, <2>2, <2>3, <2>5, <2>8, <2>11, SMTT(30) DEF MeshInv, RingInv
  <2>13. ProcessedOnce'
    BY <1>3, <2>8 DEF ProcessedOnce
  <2>14. ForMe(n, p) => Dest[p] \in {n, Everyone} /\ (LinkLocal(p) => Adjacent(n, Origin[p]))
    BY <1>1, <1>2 DEF ForMe, CopyOk, Adjacent
  <2>15. ActedInv'
    BY <2>7, <2>14 DEF MeshInv, ActedInv
  <2>16. FlightInv'
    BY <2>9 DEF FlightInv
  <2> QED
    BY <2>10, <2>12, <2>13, <2>15, <2>16 DEF MeshInv
<1> QED
  BY <1>4, <1>5

\* Every step keeps the invariant.
LEMMA MeshStep == MeshInv /\ [MeshNext]_meshVars => MeshInv'
<1> SUFFICES ASSUME MeshInv, [MeshNext]_meshVars PROVE MeshInv'
  OBVIOUS
<1>1. CASE UNCHANGED meshVars
  BY <1>1, RingsKept DEF meshVars, MeshInv, MeshTypeOK, RingInv, FlightInv
<1> QED
  BY <1>1, OriginateStep, InboundStep, PhoneStep, ReplayStep, LoseStep DEF MeshNext, Receive

\* "Process each unique packet exactly once, no matter how many paths deliver
\* it", and only where it is meant to go: on every mesh, with every ring size,
\* through echoes, losses and replays.
THEOREM EachActsOnce == MeshSpec => []ActsOnce
<1>1. MeshInv => ActsOnce
  <2> SUFFICES ASSUME MeshInv PROVE ActsOnce
    OBVIOUS
  <2>1. StaysInBounds
    BY DEF MeshInv, ActedInv, FlightInv, CopyOk, StaysInBounds
  <2> QED
    BY <2>1 DEF MeshInv, ActsOnce
<1> QED
  BY <1>1, MeshStarts, MeshStep, PTL DEF MeshSpec
=============================================================================
