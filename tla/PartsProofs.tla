------------------------------ MODULE PartsProofs ------------------------------
(***************************************************************************)
(* Proofs about four parts of MCParts: reassembly, for any streams, slots  *)
(* and timeout, the key objects, under any calls, start-up, over any boots *)
(* and power cuts, and the table of links, for any connections.            *)
(***************************************************************************)
EXTENDS BitleFragments, KeyObjects, BitleBoot, LinkTable, WellFoundedInduction, TLAPS

USE ZenonT(30)

-----------------------------------------------------------------------------
(* Reassembly.                                                             *)

\* The inductive strengthening of ReassemblySound.  The chunks of a slot have
\* its key and count, one to an index, and come from streams still in progress;
\* no two slots have the same key; an undisturbed stream in progress has a slot
\* with all it got; and a packet's fingerprint is as deep in the ring as it is
\* old.
SlotState ==
  [used : BOOLEAN, key : Range(Key) \cup {NoKey}, total : 0 .. MaxParts, start : Nat,
   parts : SUBSET ((0 .. MaxParts - 1) \X Streams)]

FragTypes ==
  /\ now \in 0 .. MaxNow
  /\ slots \in [Slot -> SlotState] /\ \A i \in Slot : slots[i].start <= now
  /\ got \in [Streams -> SUBSET Nat]
  /\ first \in [Streams -> Nat] /\ last \in [Streams -> Nat]
  /\ \A s \in Streams : first[s] <= last[s] /\ last[s] <= now

ChunkOk(h, c) ==
  /\ c[2] \in Streams /\ Key[c[2]] = h.key /\ Total[c[2]] = h.total
  /\ c[1] \in got[c[2]] /\ c[1] \in 0 .. h.total - 1
  /\ h.start <= last[c[2]] /\ c[2] \notin done

OnePerIndex(parts) == \A c, d \in parts : c[1] = d[1] => c = d

SlotsOk ==
  \A i \in Slot : slots[i].used =>
    /\ slots[i].parts # {} /\ OnePerIndex(slots[i].parts)
    /\ \A c \in slots[i].parts : ChunkOk(slots[i], c)

OwnKeys == \A i, j \in Slot : slots[i].used /\ slots[j].used /\ slots[i].key = slots[j].key => i = j

BuiltOk == BuiltWhole /\ \A t \in done : Whole(t) \in built

Ages == [Packet -> 0 .. RingSize]
RingHolds(fps, ages) == \A p \in Packet : ages[p] < RingSize => fps[ages[p] + 1] = p
RingOk == age \in Ages /\ RingHolds(seen, age) /\ again = {}

Undisturbed(s) ==
  /\ Total[s] <= MaxParts /\ s \notin crowded /\ got[s] # {}
  /\ \A t \in Streams \ {s} : Key[t] = Key[s] => got[t] = {}
  /\ last[s] - first[s] <= Timeout /\ Whole(s) \notin built

InSlot(s, i) ==
  /\ slots[i].used /\ slots[i].key = Key[s] /\ slots[i].total = Total[s]
  /\ slots[i].start = first[s] /\ slots[i].parts = {<<j, s>> : j \in got[s]}

ProgressOk ==
  \A s \in Streams : Undisturbed(s) =>
    /\ got[s] # 0 .. Total[s] - 1
    /\ now - first[s] <= Timeout => \E i \in Slot : InSlot(s, i)

GotOk == \A s \in Streams : got[s] \subseteq 0 .. Total[s] - 1

FragInv == FragTypes /\ GotOk /\ SlotsOk /\ OwnKeys /\ BuiltOk /\ RingOk /\ ProgressOk

\* A set of numbers that is not empty has a least one.
LEMMA LeastNumber ==
  ASSUME NEW S, S \subseteq Nat, S # {}
  PROVE  \E i \in S : \A j \in S : i <= j
<1> DEFINE below == {ss \in Nat \X Nat : ss[1] < ss[2]}
<1>1. IsWellFoundedOn(below, Nat)
  BY NatLessThanWellFounded DEF OpToRel
<1> HIDE DEF below
<1>2. PICK i \in S : \A j \in S : ~ (<<j, i>> \in below)
  BY <1>1, WFMin
<1>3. ASSUME NEW j \in S, j < i PROVE FALSE
  <2>1. <<j, i>> \in Nat \X Nat /\ <<j, i>>[1] < <<j, i>>[2]
    BY <1>3
  <2> QED
    BY <1>2, <2>1 DEF below
<1> QED
  BY <1>3, SMTT(30)

\* FirstOf picks the first of some slots.
LEMMA FirstSlot ==
  ASSUME NEW S, S \subseteq Slot, S # {}
  PROVE  FirstOf(S) \in S
<1>1. S \subseteq Nat
  BY FragAssumption, SMTT(30) DEF Slot
<1>2. \E i \in S : \A j \in S : i <= j
  BY <1>1, LeastNumber
<1> QED
  BY <1>2 DEF FirstOf

\* A fragment's slot is its own if there is one, else a free one if any.
LEMMA TargetSlot ==
  ASSUME FragTypes, NEW s \in Streams
  PROVE  /\ Target(s) \in Slot
         /\ Matches(s) # {} => Target(s) \in Matches(s)
         /\ Matches(s) = {} /\ Free # {} => Target(s) \in Free
<1>1. Matches(s) \subseteq Slot /\ Free \subseteq Slot /\ Oldest \subseteq Slot
  BY DEF Matches, Free, Oldest
<1>2. Oldest # {}
  <2> DEFINE starts == {slots[i].start : i \in Slot}
  <2>1. starts \subseteq Nat
    BY DEF FragTypes, SlotState
  <2>2. 1 \in Slot
    BY FragAssumption, SMTT(30) DEF Slot
  <2>3. starts # {}
    BY <2>2
  <2> HIDE DEF starts
  <2>4. PICK x \in starts : \A y \in starts : x <= y
    BY <2>1, <2>3, LeastNumber
  <2> QED
    BY <2>4, SMTT(30) DEF starts, Oldest
<1> QED
  BY <1>1, <1>2, FirstSlot DEF Target

\* What a fragment's slot holds with it.
After(s, i) == With(Holder(s), s, i)

\* A chunk that may lie with those of a stream.
ChunkLike(s, c) == c[1] \in 0 .. Total[s] - 1 /\ c[2] \in Alike(s) /\ c = <<c[1], c[2]>>

\* A fragment that has the right count joins the others of its key and count,
\* in place of one with its index, or starts a slot.
LEMMA Joins ==
  ASSUME FragInv, NEW s \in Streams, NEW i \in 0 .. Total[s] - 1,
         Total[s] <= MaxParts, Holder(s).total = Total[s]
  PROVE  /\ After(s, i) \in SlotState /\ After(s, i).used
         /\ After(s, i).key = Key[s] /\ After(s, i).total = Total[s]
         /\ After(s, i).start <= now /\ <<i, s>> \in After(s, i).parts
         /\ \A c \in After(s, i).parts :
              /\ c = <<i, s>> \/ (c[1] # i /\ Matches(s) # {} /\ c \in slots[Target(s)].parts)
              /\ ChunkLike(s, c)
         /\ OnePerIndex(After(s, i).parts)
         /\ Matches(s) = {} => After(s, i).start = now /\ After(s, i).parts = {<<i, s>>}
         /\ Matches(s) # {} =>
              /\ After(s, i).start = slots[Target(s)].start
              /\ After(s, i).parts = {c \in slots[Target(s)].parts : c[1] # i} \cup {<<i, s>>}
<1>1. /\ Total[s] \in Nat \ {0} /\ MaxParts \in Nat /\ i \in 0 .. MaxParts - 1 /\ i \in Nat
      /\ Key[s] \in Range(Key) /\ now \in Nat
  BY FragAssumption, SMTT(30) DEF Range, FragInv, FragTypes
<1>0. s \in Alike(s) /\ <<i, s>>[1] = i /\ <<i, s>>[2] = s
  BY DEF Alike
<1> DEFINE h == Holder(s)
<1>2. CASE Matches(s) = {}
  <2>1. h = [used |-> TRUE, key |-> Key[s], total |-> Total[s], start |-> now, parts |-> {}]
    BY <1>2 DEF Holder, Opened
  <2>2. /\ h \in SlotState /\ h.used /\ h.key = Key[s] /\ h.total = Total[s] /\ h.start = now
        /\ h.parts = {}
    BY <1>1, <2>1, SMTT(30) DEF SlotState
  <2> HIDE DEF h
  <2>3. {c \in h.parts : c[1] # i} \cup {<<i, s>>} = {<<i, s>>}
    BY <2>2
  <2>4. After(s, i) = [h EXCEPT !.parts = {<<i, s>>}]
    BY <2>3 DEF After, With, h
  <2>5. {<<i, s>>} \subseteq (0 .. MaxParts - 1) \X Streams
    BY <1>1, SMTT(30)
  <2>6. /\ After(s, i) \in SlotState /\ After(s, i).used /\ After(s, i).key = Key[s]
        /\ After(s, i).total = Total[s] /\ After(s, i).start = now
        /\ After(s, i).parts = {<<i, s>>}
    BY <2>2, <2>4, <2>5, SMTT(30) DEF SlotState
  <2>7. OnePerIndex({<<i, s>>})
    BY DEF OnePerIndex
  <2>8. now <= now
    BY <1>1, SMTT(30)
  <2> QED
    BY <1>0, <1>2, <2>6, <2>7, <2>8 DEF ChunkLike
<1>3. CASE Matches(s) # {}
  <2> DEFINE k == Target(s)
             ps == {c \in h.parts : c[1] # i} \cup {<<i, s>>}
  <2>1. k \in Slot /\ k \in Matches(s) /\ h = slots[k]
    BY <1>3, TargetSlot DEF FragInv, Holder
  <2>2. h \in SlotState /\ h.used /\ h.key = Key[s] /\ h.total = Total[s] /\ h.start <= now
    BY <2>1 DEF FragInv, FragTypes, Matches, Live
  <2>3. OnePerIndex(h.parts) /\ \A c \in h.parts : ChunkOk(h, c)
    BY <2>1, <2>2 DEF FragInv, SlotsOk
  <2> HIDE DEF h, k
  <2>4. ASSUME NEW c \in h.parts
        PROVE  ChunkLike(s, c)
    <3>1. ChunkOk(h, c) /\ c \in (0 .. MaxParts - 1) \X Streams
      BY <2>2, <2>3, <2>4 DEF SlotState
    <3>2. c = <<c[1], c[2]>>
      BY <3>1, SMTT(30)
    <3> QED
      BY <2>2, <3>1, <3>2 DEF ChunkOk, Alike, ChunkLike
  <2>6. After(s, i) = [h EXCEPT !.parts = ps]
    BY DEF After, With, h
  <2>7. ps \subseteq (0 .. MaxParts - 1) \X Streams
    BY <1>1, <2>2, SMTT(30) DEF SlotState
  <2>5. OnePerIndex(ps)
    BY <1>0, <2>3 DEF OnePerIndex
  <2>9. \A c \in ps : /\ c = <<i, s>> \/ (c[1] # i /\ c \in h.parts)
                      /\ ChunkLike(s, c)
    BY <1>0, <2>4 DEF ChunkLike
  <2>10. <<i, s>> \in ps
    OBVIOUS
  <2> HIDE DEF ps
  <2>8. /\ After(s, i) \in SlotState /\ After(s, i).used = h.used /\ After(s, i).key = h.key
        /\ After(s, i).total = h.total /\ After(s, i).start = h.start
        /\ After(s, i).parts = ps
    BY <2>2, <2>6, <2>7 DEF SlotState
  <2> QED
    BY <1>3, <2>1, <2>2, <2>5, <2>8, <2>9, <2>10 DEF k, ps
<1> QED
  BY <1>2, <1>3

\* A slot with all the parts holds one chunk of each index, of streams that
\* cannot be told apart.
Cut(b) == \E s \in Streams : \E f \in [0 .. Total[s] - 1 -> Alike(s)] :
            b = {<<i, f[i]>> : i \in 0 .. Total[s] - 1}

LEMMA CompleteIsCut ==
  ASSUME FragInv, NEW s \in Streams, NEW i \in 0 .. Total[s] - 1,
         Total[s] <= MaxParts, Holder(s).total = Total[s], Complete(After(s, i))
  PROVE  Cut(After(s, i).parts)
<1> DEFINE h == After(s, i)
           chunk(j) == CHOOSE c \in h.parts : c[1] = j
           f == [j \in 0 .. Total[s] - 1 |-> chunk(j)[2]]
<1>1. /\ h.total = Total[s] /\ OnePerIndex(h.parts)
      /\ \A c \in h.parts : c[1] \in 0 .. Total[s] - 1 /\ c[2] \in Alike(s) /\ c = <<c[1], c[2]>>
  <2>1. h.total = Total[s] /\ OnePerIndex(h.parts) /\ \A c \in h.parts : ChunkLike(s, c)
    BY Joins
  <2> QED
    BY <2>1 DEF ChunkLike
<1> HIDE DEF h
<1>2. ASSUME NEW j \in 0 .. Total[s] - 1
      PROVE  chunk(j) \in h.parts /\ chunk(j)[1] = j
  <2>1. \E c \in h.parts : c[1] = j
    BY <1>1, <1>2 DEF Complete, h
  <2> QED
    BY <2>1
<1> HIDE DEF chunk
<1>3. f \in [0 .. Total[s] - 1 -> Alike(s)]
  BY <1>1, <1>2
<1>4. ASSUME NEW j \in 0 .. Total[s] - 1 PROVE f[j] = chunk(j)[2] /\ <<j, f[j]>> \in h.parts
  <2>1. f[j] = chunk(j)[2]
    BY <1>4
  <2> HIDE DEF f
  <2>2. chunk(j) = <<j, f[j]>>
    BY <1>1, <1>2, <1>4, <2>1
  <2> QED
    BY <1>2, <1>4, <2>1, <2>2
<1>5. ASSUME NEW c \in h.parts PROVE c[1] \in 0 .. Total[s] - 1 /\ c = <<c[1], f[c[1]]>>
  <2>1. c[1] \in 0 .. Total[s] - 1 /\ c = <<c[1], c[2]>>
    BY <1>1, <1>5
  <2>2. chunk(c[1]) = c
    BY <1>1, <1>2, <1>5, <2>1 DEF OnePerIndex
  <2>3. f[c[1]] = c[2]
    BY <1>4, <2>1, <2>2
  <2> QED
    BY <2>1, <2>3
<1> HIDE DEF f
<1>6. h.parts = {<<j, f[j]>> : j \in 0 .. Total[s] - 1}
  BY <1>4, <1>5
<1> QED
  BY <1>3, <1>6 DEF Cut, h

\* A stream's slot, while it lives, is where its fragments go.
LEMMA OwnSlot ==
  ASSUME FragInv, NEW s \in Streams, NEW k \in Slot, Live(k), slots[k].key = Key[s]
  PROVE  Matches(s) # {} /\ Target(s) = k
<1>1. k \in Matches(s)
  BY DEF Matches
<1>2. Target(s) \in Matches(s)
  BY <1>1, TargetSlot DEF FragInv
<1> QED
  BY <1>1, <1>2 DEF Matches, Live, FragInv, OwnKeys

\* When a stream that has no slot finds none free, more streams are in
\* progress than there are slots.
LEMMA NoneFree ==
  ASSUME FragInv, NEW s \in Streams, Total[s] <= MaxParts, Matches(s) = {}, Free = {}
  PROVE  MoreThan(FragSlots, Pending(s))
<1> DEFINE owner(k) == (CHOOSE c \in slots[k].parts : TRUE)[2]
           f == [k \in 0 .. FragSlots |-> IF k = 0 THEN s ELSE owner(k)]
<1>1. \A k \in Slot : Live(k)
  BY DEF Free
<1>2. ASSUME NEW k \in Slot
      PROVE  owner(k) \in Pending(s) /\ Key[owner(k)] = slots[k].key /\ owner(k) # s
  <2>1. PICK c \in slots[k].parts : owner(k) = c[2]
    BY <1>1, <1>2 DEF FragInv, SlotsOk, Live
  <2>2. ChunkOk(slots[k], c) /\ slots[k] \in SlotState
    BY <1>1, <1>2, <2>1 DEF FragInv, FragTypes, SlotsOk, Live
  <2> HIDE DEF owner
  <2> DEFINE t == c[2]
  <2>3. t \in Streams /\ Key[t] = slots[k].key /\ Total[t] = slots[k].total /\ got[t] # {}
        /\ slots[k].start <= last[t] /\ t \notin done
    BY <2>2 DEF ChunkOk
  <2>4. Total[t] <= MaxParts
    BY <2>2, <2>3, FragAssumption, SMTT(30) DEF SlotState
  <2>5. now - slots[k].start <= Timeout
    BY <1>1, <1>2 DEF Live
  <2>6. now - last[t] <= Timeout
    <3>1. now \in Nat /\ slots[k].start \in Nat /\ last[t] \in Nat /\ Timeout \in Nat
      BY <2>2, <2>3, FragAssumption, SMTT(30) DEF SlotState, FragInv, FragTypes
    <3> QED
      BY <2>3, <2>5, <3>1, SMTT(30)
  <2>7. t # s
    BY <1>1, <1>2, <2>3 DEF Matches
  <2> QED
    BY <2>1, <2>3, <2>4, <2>6, <2>7 DEF Pending
<1> HIDE DEF owner
<1>3. s \in Pending(s)
  BY DEF Pending
<1>4. FragSlots \in Nat /\ Slot = 1 .. FragSlots
  BY FragAssumption DEF Slot
<1>5. \A k \in 0 .. FragSlots : k # 0 => k \in Slot
  BY <1>4, SMTT(30)
<1>6. f \in [0 .. FragSlots -> Pending(s)]
  BY <1>2, <1>3, <1>5
<1>7. ASSUME NEW j \in 0 .. FragSlots, NEW k \in 0 .. FragSlots, j # k PROVE f[j] # f[k]
  <2>1. CASE j = 0 \/ k = 0
    BY <1>2, <1>5, <1>7, <2>1
  <2>2. CASE j # 0 /\ k # 0
    <3>1. j \in Slot /\ k \in Slot /\ slots[j].used /\ slots[k].used
      BY <1>1, <1>5, <2>2 DEF Live
    <3>2. slots[j].key # slots[k].key
      BY <1>7, <3>1 DEF FragInv, OwnKeys
    <3> QED
      BY <1>2, <2>2, <3>1, <3>2
  <2> QED
    BY <2>1, <2>2
<1> HIDE DEF f
<1> QED
  BY <1>6, <1>7 DEF MoreThan

\* The search of handle_fragment changes no slot that lives.
LEMMA ReleasedSlots ==
  ASSUME FragTypes
  PROVE  /\ Released \in [Slot -> SlotState]
         /\ \A k \in Slot : /\ Released[k].used = Live(k) /\ Released[k].start <= now
                            /\ Live(k) => Released[k] = slots[k]
<1>1. ASSUME NEW k \in Slot
      PROVE  /\ Released[k] \in SlotState /\ Released[k].used = Live(k)
             /\ Released[k].start <= now /\ (Live(k) => Released[k] = slots[k])
  <2>1. slots[k] \in SlotState /\ slots[k].start <= now
    BY <1>1 DEF FragTypes
  <2>2. Released[k] = [slots[k] EXCEPT !.used = Live(k)]
    BY <1>1 DEF Released
  <2>3. Live(k) \in BOOLEAN
    BY DEF Live
  <2>4. Released[k] \in SlotState /\ Released[k].used = Live(k) /\ Released[k].start = slots[k].start
    BY <2>1, <2>2, <2>3 DEF SlotState
  <2>5. ASSUME Live(k) PROVE Released[k] = slots[k]
    <3>1. slots[k].used = TRUE
      BY <2>1, <2>5 DEF Live, SlotState
    <3> QED
      BY <2>1, <2>2, <2>5, <3>1 DEF SlotState
  <2> QED
    BY <2>1, <2>4, <2>5
<1>2. Released = [k \in Slot |-> Released[k]]
  BY DEF Released
<1> QED
  BY <1>1, <1>2

\* What a fragment that is not too many does to the slots.
Joined(s, i) == Holder(s).total = Total[s] /\ ~ Complete(After(s, i))
Built(s, i) == Holder(s).total = Total[s] /\ Complete(After(s, i))

LEMMA FragmentSlots ==
  ASSUME FragInv, NEW s \in Streams, NEW i \in 0 .. Total[s] - 1, Fragment(s, i),
         Total[s] <= MaxParts
  PROVE  /\ slots' \in [Slot -> SlotState] /\ \A k \in Slot : slots'[k].start <= now
         /\ \A k \in Slot : slots'[k].used =>
              \/ Live(k) /\ slots'[k] = slots[k] /\ (k = Target(s) => Holder(s).total # Total[s])
              \/ k = Target(s) /\ slots'[k] = After(s, i) /\ Joined(s, i)
         /\ \A k \in Slot : Live(k) /\ k # Target(s) => slots'[k] = slots[k]
         /\ Joined(s, i) => slots'[Target(s)] = After(s, i)
         /\ built' = IF Built(s, i) THEN built \cup {After(s, i).parts} ELSE built
         /\ done' = IF Built(s, i) /\ After(s, i).parts = Whole(s) THEN done \cup {s} ELSE done \ {s}
<1> DEFINE T == Target(s)
           h == After(s, i)
<1>1. /\ Released \in [Slot -> SlotState] /\ T \in Slot
      /\ \A k \in Slot : /\ Released[k].used = Live(k) /\ Released[k].start <= now
                         /\ Live(k) => Released[k] = slots[k]
  BY ReleasedSlots, TargetSlot DEF FragInv
<1>0. done' = IF Built(s, i) /\ h.parts = Whole(s) THEN done \cup {s} ELSE done \ {s}
  BY DEF Fragment, Built, After
<1>3. CASE Holder(s).total # Total[s]
  <2>1. slots' = Released /\ built' = built
    BY <1>3 DEF Fragment
  <2> QED
    BY <1>0, <1>1, <1>3, <2>1 DEF Joined, Built
<1>4. CASE Joined(s, i)
  <2>2. h \in SlotState /\ h.start <= now /\ h.used
    BY <1>4, Joins DEF Joined
  <2>5. slots' = [Released EXCEPT ![T] = [h EXCEPT !.used = TRUE]] /\ built' = built
    BY <1>4 DEF Fragment, Joined, After
  <2>6. h.used = TRUE
    BY <2>2 DEF SlotState
  <2>1. slots' = [Released EXCEPT ![T] = h] /\ built' = built
    <3> HIDE DEF T, h
    <3>1. [h EXCEPT !.used = TRUE] = h
      BY <2>2, <2>6 DEF SlotState
    <3> QED
      BY <2>5, <3>1
  <2> HIDE DEF T, h
  <2>3. /\ slots' \in [Slot -> SlotState] /\ slots'[T] = h
        /\ \A k \in Slot \ {T} : slots'[k] = Released[k]
    BY <1>1, <2>1, <2>2
  <2>4. Holder(s).total = Total[s] /\ ~ Built(s, i)
    BY <1>4 DEF Joined, Built
  <2> QED
    BY <1>0, <1>1, <1>4, <2>1, <2>2, <2>3, <2>4 DEF T, h
<1>5. CASE Built(s, i)
  <2>1. slots' = [Released EXCEPT ![T] = [h EXCEPT !.used = FALSE]] /\ built' = built \cup {h.parts}
    BY <1>5 DEF Fragment, Built, After
  <2>2. h \in SlotState /\ h.start <= now
    BY <1>5, Joins DEF Built
  <2> HIDE DEF T, h
  <2> DEFINE g == [h EXCEPT !.used = FALSE]
  <2>3. g \in SlotState /\ ~ g.used /\ g.start = h.start
    BY <2>2 DEF SlotState
  <2> HIDE DEF g
  <2>4. /\ slots' \in [Slot -> SlotState] /\ slots'[T] = g
        /\ \A k \in Slot \ {T} : slots'[k] = Released[k]
    BY <1>1, <2>1, <2>3 DEF g
  <2>5. ~ Joined(s, i)
    BY <1>5 DEF Joined, Built
  <2> QED
    BY <1>0, <1>1, <1>5, <2>1, <2>2, <2>3, <2>4, <2>5 DEF T, h
<1> QED
  BY <1>3, <1>4, <1>5 DEF Joined, Built

\* The histories of arrivals.
LEMMA FragmentArrives ==
  ASSUME FragInv, NEW s \in Streams, NEW i \in 0 .. Total[s] - 1, Fragment(s, i)
  PROVE  /\ now' = now /\ i \in Nat /\ crowded \subseteq crowded'
         /\ got' \in [Streams -> SUBSET Nat] /\ got'[s] = got[s] \cup {i}
         /\ first' \in [Streams -> Nat] /\ last' \in [Streams -> Nat]
         /\ \A t \in Streams \ {s} : got'[t] = got[t] /\ first'[t] = first[t] /\ last'[t] = last[t]
         /\ Total[s] <= MaxParts => last'[s] = now
         /\ Total[s] <= MaxParts /\ got[s] = {} => first'[s] = now
         /\ Total[s] > MaxParts => last'[s] = last[s]
         /\ Total[s] > MaxParts \/ got[s] # {} => first'[s] = first[s]
         /\ \A t \in Streams : first'[t] <= last'[t] /\ last'[t] <= now /\ last[t] <= last'[t]
<1>1. /\ now \in Nat /\ i \in Nat /\ got \in [Streams -> SUBSET Nat]
      /\ first \in [Streams -> Nat] /\ last \in [Streams -> Nat]
      /\ \A t \in Streams : first[t] <= last[t] /\ last[t] <= now
      /\ Total[s] \in Nat /\ MaxParts \in Nat
  BY FragAssumption, SMTT(30) DEF FragInv, FragTypes
<1>2. now' = now /\ crowded \subseteq crowded'
  BY DEF Fragment
<1>3. /\ got' \in [Streams -> SUBSET Nat] /\ got'[s] = got[s] \cup {i}
      /\ \A t \in Streams \ {s} : got'[t] = got[t]
  BY <1>1 DEF Fragment
<1>4. /\ first' \in [Streams -> Nat]
      /\ \A t \in Streams \ {s} : first'[t] = first[t]
      /\ Total[s] <= MaxParts /\ got[s] = {} => first'[s] = now
      /\ Total[s] > MaxParts \/ got[s] # {} => first'[s] = first[s]
  BY <1>1, SMTT(30) DEF Fragment
<1>5. /\ last' \in [Streams -> Nat]
      /\ \A t \in Streams \ {s} : last'[t] = last[t]
      /\ Total[s] <= MaxParts => last'[s] = now
      /\ Total[s] > MaxParts => last'[s] = last[s]
  BY <1>1, SMTT(30) DEF Fragment
<1>6. \A t \in Streams : first'[t] <= last'[t] /\ last'[t] <= now /\ last[t] <= last'[t]
  <2> SUFFICES ASSUME NEW t \in Streams
               PROVE  first'[t] <= last'[t] /\ last'[t] <= now /\ last[t] <= last'[t]
    OBVIOUS
  <2>1. first[t] \in Nat /\ last[t] \in Nat /\ first[t] <= last[t] /\ last[t] <= now
    BY <1>1
  <2> QED
    BY <1>1, <1>4, <1>5, <2>1, SMTT(30)
<1> QED
  BY <1>1, <1>2, <1>3, <1>4, <1>5, <1>6

\* A fingerprint recorded pushes the others one place down ...
LEMMA RingMoves ==
  ASSUME NEW fps, NEW ages \in Ages, RingHolds(fps, ages), NEW fp
  PROVE  Older(ages) \in Ages /\ RingHolds(Record(fps, fp), Older(ages))
<1>1. RingSize \in Nat \ {0}
  BY FragAssumption
<1>2. ASSUME NEW p \in Packet
      PROVE  /\ Older(ages)[p] \in 0 .. RingSize
             /\ Older(ages)[p] < RingSize => Record(fps, fp)[Older(ages)[p] + 1] = p
  <2>1. ages[p] \in 0 .. RingSize /\ (ages[p] < RingSize => fps[ages[p] + 1] = p)
    BY <1>2 DEF Ages, RingHolds
  <2>2. Older(ages)[p] = IF ages[p] < RingSize THEN ages[p] + 1 ELSE RingSize
    BY <1>2 DEF Older
  <2>3. ASSUME ages[p] + 1 < RingSize
        PROVE  Record(fps, fp)[ages[p] + 1 + 1] = fps[ages[p] + 1]
    <3> DEFINE x == ages[p] + 1 + 1
    <3>1. x \in 1 .. RingSize /\ x # 1 /\ x - 1 = ages[p] + 1
      BY <1>1, <2>1, <2>3, SMTT(30)
    <3> HIDE DEF x
    <3>2. Record(fps, fp)[x] = fps[x - 1]
      BY <3>1 DEF Record
    <3> QED
      BY <3>1, <3>2 DEF x
  <2> QED
    BY <1>1, <2>1, <2>2, <2>3, SMTT(30)
<1> QED
  BY <1>2 DEF Ages, RingHolds, Older

\* ... and a packet the ring does not hold is as old as the ring is long.
LEMMA RingForgets ==
  ASSUME NEW fps, NEW ages \in Ages, RingHolds(fps, ages), NEW p \in Packet, ~ Duplicate(fps, p)
  PROVE  ~ (ages[p] < RingSize)
<1>1. ages[p] \in 0 .. RingSize /\ RingSize \in Nat
  BY FragAssumption DEF Ages
<1>2. ages[p] < RingSize => ages[p] + 1 \in 1 .. RingSize
  BY <1>1, SMTT(30)
<1> QED
  BY <1>2 DEF RingHolds, Duplicate

\* A packet the ring does not hold is dispatched.
LEMMA RingDispatch ==
  ASSUME NEW fps, NEW ages \in Ages, RingHolds(fps, ages), NEW p \in Packet,
         ~ Duplicate(fps, p), seen' = Record(fps, p), Dispatched(ages, p), again = {}
  PROVE  RingOk'
<1>1. Older(ages) \in Ages /\ RingHolds(Record(fps, p), Older(ages))
  BY RingMoves
<1>2. age' = [Older(ages) EXCEPT ![p] = 0] /\ again' = {}
  BY RingForgets DEF Dispatched
<1>3. RingSize \in Nat \ {0}
  BY FragAssumption
<1>4. age' \in Ages /\ age'[p] = 0 /\ \A x \in Packet \ {p} : age'[x] = Older(ages)[x]
  <2> DEFINE old == Older(ages)
  <2>1. old \in Ages /\ age' = [old EXCEPT ![p] = 0]
    BY <1>1, <1>2
  <2> HIDE DEF old
  <2>2. 0 \in 0 .. RingSize
    BY <1>3, SMTT(30)
  <2>3. age' \in Ages /\ age'[p] = 0 /\ \A x \in Packet \ {p} : age'[x] = old[x]
    BY <2>1, <2>2 DEF Ages
  <2> QED
    BY <2>3 DEF old
<1>5. Record(fps, p)[0 + 1] = p
  BY <1>3, SMTT(30) DEF Record
<1> QED
  BY <1>1, <1>2, <1>4, <1>5 DEF RingOk, RingHolds

\* A fragment records itself and, when it completes a packet the ring does not
\* hold, that packet.
LEMMA FragmentRings ==
  ASSUME RingOk, NEW s \in Streams, NEW i \in 0 .. Total[s] - 1, Fragment(s, i)
  PROVE  RingOk'
<1> DEFINE fps == Record(seen, <<i, s>>)
           h == With(Holder(s), s, i)
<1>1. age \in Ages /\ RingHolds(seen, age) /\ again = {}
  BY DEF RingOk
<1>2. Older(age) \in Ages /\ RingHolds(fps, Older(age))
  BY <1>1, RingMoves
<1>3. Deliver(h, s, fps) \/ (seen' = fps /\ age' = Older(age) /\ again' = again)
  BY DEF Fragment
<1>4. Inner[s] \in Packet
  BY FragAssumption DEF Packet, Range
<1> HIDE DEF fps, h
<1>5. CASE seen' = fps /\ age' = Older(age) /\ again' = again
  BY <1>1, <1>2, <1>5 DEF RingOk
<1>6. CASE seen' = Record(fps, Other) /\ age' = Older(Older(age)) /\ again' = again
  <2>1. Older(Older(age)) \in Ages /\ RingHolds(Record(fps, Other), Older(Older(age)))
    BY <1>2, RingMoves
  <2> QED
    BY <1>1, <1>6, <2>1 DEF RingOk
<1>7. CASE ~ Duplicate(fps, Inner[s]) /\ seen' = Record(fps, Inner[s]) /\ Dispatched(Older(age), Inner[s])
  BY <1>1, <1>2, <1>4, <1>7, RingDispatch
<1> QED
  BY <1>3, <1>5, <1>6, <1>7 DEF Deliver

\* What is put together was cut so.
LEMMA FragmentBuilds ==
  ASSUME FragInv, NEW s \in Streams, NEW i \in 0 .. Total[s] - 1, Fragment(s, i)
  PROVE  /\ BuiltOk' /\ built \subseteq built' /\ done' \ {s} = done \ {s}
         /\ Total[s] > MaxParts => s \notin done'
<1>1. Total[s] \in Nat /\ MaxParts \in Nat
  BY FragAssumption
<1>2. BuiltOk
  BY DEF FragInv
<1>3. CASE Total[s] > MaxParts
  <2>1. built' = built /\ done' = done \ {s}
    BY <1>1, <1>3, SMTT(30) DEF Fragment
  <2> QED
    BY <1>2, <2>1 DEF BuiltOk, BuiltWhole
<1>4. CASE Total[s] <= MaxParts
  <2> DEFINE b == After(s, i).parts
  <2>1. /\ built' = IF Built(s, i) THEN built \cup {b} ELSE built
        /\ done' = IF Built(s, i) /\ b = Whole(s) THEN done \cup {s} ELSE done \ {s}
    BY <1>4, FragmentSlots
  <2>2. Built(s, i) => Cut(b)
    BY <1>4, CompleteIsCut DEF Built
  <2> HIDE DEF b
  <2>3. BuiltWhole'
    <3>1. BuiltWhole => \A x \in built : Cut(x)
      BY DEF BuiltWhole, Cut
    <3>2. \A x \in built' : Cut(x)
      BY <1>2, <2>1, <2>2, <3>1 DEF BuiltOk
    <3> QED
      BY <3>2 DEF BuiltWhole, Cut
  <2>4. \A t \in done' : Whole(t) \in built'
    BY <1>2, <2>1 DEF BuiltOk
  <2>5. ~ (Total[s] > MaxParts)
    BY <1>1, <1>4, SMTT(30)
  <2> QED
    BY <2>1, <2>3, <2>4, <2>5 DEF BuiltOk
<1> QED
  BY <1>1, <1>3, <1>4, SMTT(30)

\* The slots stay with the chunks of their key and count, one slot to a key.
LEMMA FragmentOwners ==
  ASSUME FragInv, NEW s \in Streams, NEW i \in 0 .. Total[s] - 1, Fragment(s, i)
  PROVE  SlotsOk' /\ OwnKeys'
<1>1. /\ now' = now /\ got'[s] = got[s] \cup {i}
      /\ \A t \in Streams : got[t] \subseteq got'[t]
      /\ \A t \in Streams : last[t] \in Nat /\ last'[t] \in Nat /\ last[t] <= last'[t]
      /\ Total[s] <= MaxParts => last'[s] = now
      /\ Total[s] \in Nat /\ MaxParts \in Nat /\ now \in Nat
  BY FragmentArrives, FragAssumption, SMTT(30) DEF FragInv, FragTypes
<1>2. \A t \in Streams \ {s} : t \notin done => t \notin done'
  BY FragmentBuilds
<1>3. ASSUME NEW k \in Slot, slots[k].used, NEW c \in slots[k].parts, c[2] # s \/ s \notin done',
             slots'[k] = slots[k]
      PROVE  ChunkOk(slots[k], c)'
  <2>1. slots[k] \in SlotState /\ ChunkOk(slots[k], c)
    BY <1>3 DEF FragInv, FragTypes, SlotsOk
  <2>2. c[2] \notin done'
    BY <1>2, <1>3, <2>1 DEF ChunkOk
  <2>3. slots[k].start \in Nat /\ slots[k].start <= last'[c[2]]
    BY <1>1, <2>1, SMTT(30) DEF ChunkOk, SlotState
  <2> QED
    BY <1>1, <1>3, <2>1, <2>2, <2>3 DEF ChunkOk
<1>4. CASE Total[s] > MaxParts
  <2>0. slots' = slots
    BY <1>1, <1>4, SMTT(30) DEF Fragment
  <2>1. slots' = slots /\ s \notin done'
    BY <1>4, <2>0, FragmentBuilds
  <2>2. ASSUME NEW k \in Slot, slots[k].used, NEW c \in slots[k].parts
        PROVE  ChunkOk(slots[k], c)'
    BY <1>3, <2>1, <2>2
  <2> QED
    BY <2>1, <2>2 DEF FragInv, SlotsOk, OwnKeys
<1>5. CASE Total[s] <= MaxParts
  <2> DEFINE T == Target(s)
  <2>1. /\ \A k \in Slot : slots'[k].used =>
             \/ Live(k) /\ slots'[k] = slots[k] /\ (k = T => Holder(s).total # Total[s])
             \/ k = T /\ slots'[k] = After(s, i) /\ Joined(s, i)
        /\ T \in Slot
    BY <1>5, FragmentSlots, TargetSlot DEF FragInv
  <2>2. ASSUME NEW k \in Slot, Live(k), slots'[k] = slots[k], k = T => Holder(s).total # Total[s]
        PROVE  /\ slots'[k].parts # {} /\ OnePerIndex(slots'[k].parts)
               /\ \A c \in slots'[k].parts : ChunkOk(slots[k], c)'
    <3>1. slots[k].used /\ slots[k].parts # {} /\ OnePerIndex(slots[k].parts)
      BY <2>2 DEF FragInv, SlotsOk, Live
    <3>2. ASSUME NEW c \in slots[k].parts, c[2] = s PROVE FALSE
      <4>1. ChunkOk(slots[k], c)
        BY <3>1, <3>2 DEF FragInv, SlotsOk
      <4>2. slots[k].key = Key[s] /\ slots[k].total = Total[s]
        BY <3>2, <4>1 DEF ChunkOk
      <4>3. T = k /\ Matches(s) # {}
        BY <2>2, <4>2, OwnSlot
      <4> QED
        BY <2>2, <4>2, <4>3 DEF Holder
    <3>3. \A c \in slots[k].parts : ChunkOk(slots[k], c)'
      BY <1>3, <2>2, <3>1, <3>2
    <3> QED
      BY <2>2, <3>1, <3>3
  <2>3. ASSUME NEW k \in Slot, k = T, Joined(s, i), slots'[k] = After(s, i)
        PROVE  /\ slots'[k].parts # {} /\ OnePerIndex(slots'[k].parts)
               /\ \A c \in slots'[k].parts : ChunkOk(slots[k], c)'
               /\ slots'[k].key = Key[s]
    <3> DEFINE h == After(s, i)
    <3>1. /\ h.key = Key[s] /\ h.total = Total[s] /\ h.start <= now
          /\ <<i, s>> \in h.parts /\ OnePerIndex(h.parts)
          /\ \A c \in h.parts :
               /\ c = <<i, s>> \/ (Matches(s) # {} /\ c \in slots[T].parts)
               /\ c[1] \in 0 .. Total[s] - 1 /\ c[2] \in Alike(s)
          /\ Matches(s) # {} => h.start = slots[T].start
      BY <1>5, <2>3, Joins, SMTT(30) DEF Joined, ChunkLike
    <3>2. s \notin done'
      BY <1>5, <2>3, FragmentSlots DEF Joined, Built
    <3>3. slots'[k] = h
      BY <2>3 DEF h
    <3> HIDE DEF h
    <3>4. ASSUME NEW c \in h.parts PROVE ChunkOk(slots[k], c)'
      <4>1. c[2] \in Streams /\ Key[c[2]] = h.key /\ Total[c[2]] = h.total /\ c[1] \in 0 .. h.total - 1
        BY <3>1, <3>4 DEF Alike
      <4>2. CASE c = <<i, s>>
        <5>1. c[1] = i /\ c[2] = s
          BY <4>2
        <5> QED
          BY <1>1, <1>5, <3>1, <3>2, <3>3, <4>1, <5>1 DEF ChunkOk
      <4>3. CASE Matches(s) # {} /\ c \in slots[T].parts
        <5>1. T \in Slot /\ Live(T)
          BY <4>3, TargetSlot DEF FragInv, Matches
        <5>2. ChunkOk(slots[T], c) /\ slots[T] \in SlotState
          BY <4>3, <5>1 DEF FragInv, FragTypes, SlotsOk, Live
        <5>3. c[1] \in got'[c[2]] /\ c[2] \notin done'
          BY <1>1, <1>2, <3>2, <4>1, <5>2 DEF ChunkOk
        <5>4. h.start <= last'[c[2]]
          <6>1. slots[T].start \in Nat /\ slots[T].start <= last[c[2]] /\ h.start = slots[T].start
            BY <3>1, <4>3, <5>2 DEF ChunkOk, SlotState
          <6> QED
            BY <1>1, <4>1, <6>1, SMTT(30)
        <5> QED
          BY <3>3, <4>1, <5>3, <5>4 DEF ChunkOk
      <4> QED
        BY <3>1, <3>4, <4>2, <4>3
    <3> QED
      BY <3>1, <3>3, <3>4
  <2>4. SlotsOk'
    BY <2>1, <2>2, <2>3 DEF SlotsOk
  <2>5. ASSUME NEW j \in Slot, NEW k \in Slot, slots'[j].used, slots'[k].used,
               slots'[j].key = slots'[k].key, j # k
        PROVE  FALSE
    <3>1. ASSUME NEW m \in Slot, Live(m), m # T, slots[m].key = Key[s] PROVE FALSE
      BY <3>1, OwnSlot
    <3>2. CASE Live(j) /\ Live(k) /\ slots'[j] = slots[j] /\ slots'[k] = slots[k]
      BY <2>5, <3>2 DEF FragInv, OwnKeys, Live
    <3>3. CASE j = T /\ slots'[j] = After(s, i) /\ Joined(s, i)
      BY <2>1, <2>3, <2>5, <3>1, <3>3
    <3>4. CASE k = T /\ slots'[k] = After(s, i) /\ Joined(s, i)
      BY <2>1, <2>3, <2>5, <3>1, <3>4
    <3> QED
      BY <2>1, <2>5, <3>2, <3>3, <3>4
  <2> QED
    BY <2>4, <2>5 DEF OwnKeys
<1> QED
  BY <1>1, <1>4, <1>5, SMTT(30)

\* An undisturbed stream goes on in its slot when its next fragment comes ...
LEMMA ProgressOfOne ==
  ASSUME FragInv, NEW s \in Streams, NEW i \in 0 .. Total[s] - 1, Fragment(s, i), Undisturbed(s)'
  PROVE  /\ got'[s] # 0 .. Total[s] - 1
         /\ \E k \in Slot : InSlot(s, k)'
<1>1. /\ Total[s] <= MaxParts /\ s \notin crowded' /\ Whole(s) \notin built'
      /\ \A t \in Streams \ {s} : Key[t] = Key[s] => got'[t] = {}
      /\ last'[s] - first'[s] <= Timeout
  BY DEF Undisturbed
<1>2. /\ now' = now /\ got'[s] = got[s] \cup {i} /\ crowded \subseteq crowded'
      /\ \A t \in Streams \ {s} : got'[t] = got[t]
      /\ last'[s] = now /\ (got[s] = {} => first'[s] = now) /\ (got[s] # {} => first'[s] = first[s])
      /\ built \subseteq built'
  BY <1>1, FragmentArrives, FragmentBuilds
<1>3. /\ now \in Nat /\ first[s] \in Nat /\ last[s] \in Nat /\ Timeout \in Nat
      /\ first[s] <= last[s] /\ last[s] <= now /\ Target(s) \in Slot
  BY FragAssumption, TargetSlot, SMTT(30) DEF FragInv, FragTypes
<1>4. ASSUME Holder(s).total = Total[s], After(s, i).start = first'[s],
             After(s, i).parts = {<<j, s>> : j \in got[s] \cup {i}}
      PROVE  /\ got'[s] # 0 .. Total[s] - 1
             /\ \E k \in Slot : InSlot(s, k)'
  <2> DEFINE h == After(s, i)
  <2>0. /\ h.used /\ h.key = Key[s] /\ h.total = Total[s]
    BY <1>1, <1>4, Joins
  <2>3. h.used /\ h.key = Key[s] /\ h.total = Total[s]
    BY <2>0
  <2>1. ASSUME Complete(h) PROVE FALSE
    <3>1. \A j \in 0 .. Total[s] - 1 : \E c \in h.parts : c[1] = j
      BY <2>0, <2>1 DEF Complete
    <3>2. h.parts = {<<j, s>> : j \in got[s] \cup {i}}
      BY <1>4
    <3> HIDE DEF h
    <3>3. ASSUME NEW j \in 0 .. Total[s] - 1 PROVE j \in got[s] \cup {i}
      <4>1. PICK c \in h.parts : c[1] = j
        BY <3>1
      <4>2. PICK n \in got[s] \cup {i} : c = <<n, s>>
        BY <3>2
      <4>3. c[1] = n
        BY <4>2
      <4> QED
        BY <4>1, <4>2, <4>3
    <3>4. got[s] \cup {i} \subseteq 0 .. Total[s] - 1
      BY DEF FragInv, GotOk
    <3>5. h.parts = Whole(s)
      BY <3>2, <3>3, <3>4 DEF Whole
    <3> QED
      BY <1>1, <1>4, <2>1, <3>5, FragmentSlots DEF Built, h
  <2>2. slots'[Target(s)] = h
    BY <1>1, <1>4, <2>1, FragmentSlots DEF Joined
  <2>5. got'[s] # 0 .. Total[s] - 1
    <3>1. ASSUME got'[s] = 0 .. Total[s] - 1, NEW j \in 0 .. Total[s] - 1
          PROVE  \E c \in h.parts : c[1] = j
      <4>1. <<j, s>> \in {<<n, s>> : n \in got[s] \cup {i}} /\ <<j, s>>[1] = j
        BY <1>2, <3>1
      <4> QED
        BY <1>4, <4>1
    <3> QED
      BY <2>0, <2>1, <3>1 DEF Complete
  <2>6. ASSUME NEW k \in Slot, k = Target(s) PROVE InSlot(s, k)'
    BY <1>2, <1>4, <2>2, <2>3, <2>6 DEF InSlot
  <2> QED
    BY <1>3, <2>5, <2>6
<1>5. CASE got[s] = {}
  <2>1. ASSUME NEW k \in Slot, Live(k), slots[k].key = Key[s] PROVE FALSE
    <3>1. PICK c \in slots[k].parts : ChunkOk(slots[k], c)
      BY <2>1 DEF FragInv, SlotsOk, Live
    <3>2. c[2] \in Streams /\ Key[c[2]] = Key[s] /\ got[c[2]] # {}
      BY <2>1, <3>1 DEF ChunkOk
    <3> QED
      BY <1>1, <1>2, <1>5, <3>2
  <2>2. Matches(s) = {}
    BY <2>1 DEF Matches
  <2>3. Holder(s).total = Total[s]
    BY <2>2 DEF Holder, Opened
  <2>4. After(s, i).start = now /\ After(s, i).parts = {<<i, s>>}
    BY <1>1, <2>2, <2>3, Joins
  <2>5. {<<i, s>>} = {<<j, s>> : j \in got[s] \cup {i}}
    BY <1>5
  <2> QED
    BY <1>2, <1>4, <1>5, <2>3, <2>4, <2>5
<1>6. CASE got[s] # {}
  <2>1. Undisturbed(s)
    BY <1>1, <1>2, <1>3, <1>6, SMTT(30) DEF Undisturbed
  <2>2. now - first[s] <= Timeout
    BY <1>1, <1>2, <1>6
  <2>3. PICK k \in Slot : InSlot(s, k)
    BY <2>1, <2>2 DEF FragInv, ProgressOk
  <2>4. Live(k) /\ slots[k].key = Key[s] /\ slots[k].total = Total[s] /\ slots[k].start = first[s]
        /\ slots[k].parts = {<<j, s>> : j \in got[s]}
    BY <2>2, <2>3 DEF InSlot, Live
  <2>5. Matches(s) # {} /\ Target(s) = k
    BY <2>4, OwnSlot
  <2>6. Holder(s).total = Total[s]
    BY <2>4, <2>5 DEF Holder
  <2>7. /\ After(s, i).start = first[s]
        /\ After(s, i).parts = {c \in slots[k].parts : c[1] # i} \cup {<<i, s>>}
    BY <1>1, <2>4, <2>5, <2>6, Joins
  <2>8. After(s, i).parts = {<<j, s>> : j \in got[s] \cup {i}}
    <3> DEFINE ps == slots[k].parts
    <3>1. ps = {<<j, s>> : j \in got[s]}
      BY <2>4
    <3> HIDE DEF ps
    <3>2. ASSUME NEW j \in got[s] PROVE <<j, s>> \in {c \in ps : c[1] # i} \cup {<<i, s>>}
      <4>1. <<j, s>> \in ps /\ <<j, s>>[1] = j
        BY <3>1
      <4> QED
        BY <4>1
    <3>3. ps \subseteq {<<j, s>> : j \in got[s] \cup {i}}
      BY <3>1
    <3>4. {c \in ps : c[1] # i} \cup {<<i, s>>} = {<<j, s>> : j \in got[s] \cup {i}}
      BY <3>2, <3>3
    <3> QED
      BY <2>7, <3>4 DEF ps
  <2> QED
    BY <1>2, <1>4, <1>6, <2>6, <2>7, <2>8
<1> QED
  BY <1>5, <1>6

\* ... and keeps it when a fragment of another stream comes, unless it was one
\* of too many.
LEMMA ProgressOfOthers ==
  ASSUME FragInv, NEW s \in Streams, NEW i \in 0 .. Total[s] - 1, Fragment(s, i),
         NEW t \in Streams \ {s}, Undisturbed(t)'
  PROVE  /\ got'[t] # 0 .. Total[t] - 1
         /\ now - first'[t] <= Timeout => \E k \in Slot : InSlot(t, k)'
<1>1. /\ got'[t] = got[t] /\ first'[t] = first[t] /\ last'[t] = last[t]
      /\ crowded \subseteq crowded' /\ built \subseteq built' /\ got'[s] # {}
      /\ \A u \in Streams : got[u] \subseteq got'[u]
  BY FragmentArrives, FragmentBuilds, SMTT(30)
<1>2. /\ Total[t] <= MaxParts /\ t \notin crowded' /\ got'[t] # {} /\ Whole(t) \notin built'
      /\ \A u \in Streams \ {t} : Key[u] = Key[t] => got'[u] = {}
      /\ last'[t] - first'[t] <= Timeout
  BY DEF Undisturbed
<1>3. Undisturbed(t)
  BY <1>1, <1>2 DEF Undisturbed
<1>4. Key[s] # Key[t]
  BY <1>1, <1>2
<1>5. got[t] # 0 .. Total[t] - 1
  BY <1>3 DEF FragInv, ProgressOk
<1>6. ASSUME now - first[t] <= Timeout PROVE \E k \in Slot : InSlot(t, k)'
  <2>1. PICK k \in Slot : InSlot(t, k)
    BY <1>3, <1>6 DEF FragInv, ProgressOk
  <2>2. Live(k)
    BY <1>6, <2>1 DEF InSlot, Live
  <2>3. slots'[k] = slots[k]
    <3>1. CASE Total[s] > MaxParts
      BY <3>1, FragAssumption, SMTT(30) DEF Fragment
    <3>2. CASE Total[s] <= MaxParts /\ k # Target(s)
      BY <2>2, <3>2, FragmentSlots
    <3>3. CASE Total[s] <= MaxParts /\ k = Target(s)
      <4>1. Matches(s) = {}
        <5>1. k \notin Matches(s)
          BY <1>4, <2>1 DEF InSlot, Matches
        <5> QED
          BY <3>3, <5>1, TargetSlot DEF FragInv
      <4>2. Free = {}
        <5>1. k \notin Free
          BY <2>2 DEF Free
        <5> QED
          BY <3>3, <4>1, <5>1, TargetSlot DEF FragInv
      <4>3. MoreThan(FragSlots, Pending(s))
        BY <3>3, <4>1, <4>2, NoneFree
      <4>4. now - last[t] <= Timeout
        <5>1. now \in Nat /\ first[t] \in Nat /\ last[t] \in Nat /\ Timeout \in Nat /\ first[t] <= last[t]
          BY FragAssumption, SMTT(30) DEF FragInv, FragTypes
        <5> QED
          BY <1>6, <5>1, SMTT(30)
      <4>5. t \in Pending(s)
        BY <1>1, <1>2, <1>3, <4>4 DEF Pending, Undisturbed, FragInv, BuiltOk
      <4>6. crowded' = crowded \cup Pending(s)
        BY <4>3 DEF Fragment
      <4> QED
        BY <1>2, <4>5, <4>6
    <3> QED
      BY <3>1, <3>2, <3>3, FragAssumption, SMTT(30)
  <2>4. InSlot(t, k)'
    BY <1>1, <2>1, <2>3 DEF InSlot
  <2> QED
    BY <2>4
<1> QED
  BY <1>1, <1>5, <1>6

\* handle_fragment keeps the invariant.
LEMMA FragmentStep ==
  ASSUME FragInv, NEW s \in Streams, NEW i \in 0 .. Total[s] - 1, Fragment(s, i)
  PROVE  FragInv'
<1>1. /\ slots' \in [Slot -> SlotState] /\ \A k \in Slot : slots'[k].start <= now
  <2>1. CASE Total[s] <= MaxParts
    BY <2>1, FragmentSlots
  <2>2. CASE Total[s] > MaxParts
    <3>1. slots' = slots
      BY <2>2, FragAssumption, SMTT(30) DEF Fragment
    <3> QED
      BY <3>1 DEF FragInv, FragTypes
  <2> QED
    BY <2>1, <2>2, FragAssumption, SMTT(30)
<1>2. FragTypes'
  BY <1>1, FragmentArrives, SMTT(30) DEF FragTypes, FragInv
<1>3. GotOk'
  BY FragmentArrives, SMTT(30) DEF GotOk, FragInv
<1>4. ProgressOk'
  <2> SUFFICES ASSUME NEW t \in Streams, Undisturbed(t)'
               PROVE  /\ got'[t] # 0 .. Total[t] - 1
                      /\ now' - first'[t] <= Timeout => \E k \in Slot : InSlot(t, k)'
    BY DEF ProgressOk
  <2>1. now' = now
    BY DEF Fragment
  <2>2. CASE t = s
    BY <2>2, ProgressOfOne
  <2>3. CASE t # s
    BY <2>1, <2>3, ProgressOfOthers
  <2> QED
    BY <2>2, <2>3
<1> QED
  BY <1>2, <1>3, <1>4, FragmentOwners, FragmentBuilds, FragmentRings DEF FragInv

\* Time passing keeps the invariant.
LEMMA FragTick == ASSUME FragInv, Tick PROVE FragInv'
<1>1. now' = now + 1 /\ now' \in 0 .. MaxNow /\ now \in Nat /\ Timeout \in Nat
      /\ UNCHANGED <<slots, seen, age, again, built, done, got, first, last, crowded>>
  BY FragAssumption, SMTT(30) DEF Tick, FragInv, FragTypes, ring, arrivals
<1>2. \A k \in Slot : slots[k].start <= now'
  BY <1>1, SMTT(30) DEF FragInv, FragTypes, SlotState
<1>3. \A s \in Streams : last[s] <= now'
  BY <1>1, SMTT(30) DEF FragInv, FragTypes
<1>4. FragTypes'
  BY <1>1, <1>2, <1>3 DEF FragInv, FragTypes
<1>5. SlotsOk' /\ OwnKeys' /\ BuiltOk' /\ RingOk' /\ GotOk'
  BY <1>1 DEF FragInv, SlotsOk, ChunkOk, OwnKeys, BuiltOk, BuiltWhole, RingOk, GotOk
<1>6. ASSUME NEW s \in Streams, Undisturbed(s)'
      PROVE  /\ got'[s] # 0 .. Total[s] - 1
             /\ now' - first'[s] <= Timeout => \E k \in Slot : InSlot(s, k)'
  <2>1. Undisturbed(s) /\ first[s] \in Nat
    BY <1>1, <1>6 DEF Undisturbed, FragInv, FragTypes
  <2>2. now' - first'[s] <= Timeout => now - first[s] <= Timeout
    BY <1>1, <2>1, SMTT(30)
  <2>3. \A k \in Slot : InSlot(s, k) => InSlot(s, k)'
    BY <1>1 DEF InSlot
  <2> QED
    BY <1>1, <2>1, <2>2, <2>3 DEF FragInv, ProgressOk
<1>7. ProgressOk'
  BY <1>6 DEF ProgressOk
<1> QED
  BY <1>4, <1>5, <1>7 DEF FragInv

\* A packet in one piece is recorded, and dispatched if the ring does not hold
\* it; the slots are not concerned.
LEMMA FragInbound ==
  ASSUME FragInv, NEW p \in Packet \cup {Other}, Inbound(p)
  PROVE  FragInv'
<1>1. UNCHANGED <<now, slots, built, done, got, first, last, crowded>>
  BY DEF Inbound, arrivals
<1>2. age \in Ages /\ RingHolds(seen, age) /\ again = {}
  BY DEF FragInv, RingOk
<1>3. RingOk'
  <2>1. CASE p = Other
    <3>1. Older(age) \in Ages /\ RingHolds(Record(seen, Other), Older(age))
      BY <1>2, RingMoves
    <3> QED
      BY <1>2, <2>1, <3>1 DEF Inbound, RingOk
  <2>2. CASE p # Other
    <3>1. ~ Duplicate(seen, p) /\ seen' = Record(seen, p) /\ Dispatched(age, p) /\ p \in Packet
      BY <2>2 DEF Inbound
    <3> QED
      BY <1>2, <3>1, RingDispatch
  <2> QED
    BY <2>1, <2>2
<1>4. FragTypes' /\ GotOk' /\ BuiltOk' /\ SlotsOk' /\ OwnKeys'
  BY <1>1 DEF FragInv, FragTypes, GotOk, BuiltOk, BuiltWhole, SlotsOk, ChunkOk, OwnKeys
<1>5. ProgressOk'
  BY <1>1 DEF FragInv, ProgressOk, Undisturbed, InSlot
<1> QED
  BY <1>3, <1>4, <1>5 DEF FragInv

\* Reassembly with any number of slots, any ring, any timeout and any streams,
\* their fragments repeated or not: what handle_fragment puts together has one
\* chunk of each index, all of one ID, sender and count; a packet is dispatched
\* again only after the ring took as many other fingerprints as it is long; and
\* a stream is put together if its fragments came in time, slots sufficed and
\* nobody else used its ID.
THEOREM ReassemblyIsSound == Spec => []ReassemblySound
<1>1. Init => FragInv
  <2> SUFFICES ASSUME Init PROVE FragInv
    OBVIOUS
  <2>1. Blank \in SlotState /\ Blank.start = 0 /\ ~ Blank.used
    BY FragAssumption, SMTT(30) DEF Blank, SlotState
  <2>2. FragTypes
    BY <2>1, FragAssumption, SMTT(30) DEF Init, FragTypes
  <2>3. SlotsOk /\ OwnKeys
    BY <2>1 DEF Init, SlotsOk, OwnKeys
  <2>4. BuiltOk /\ GotOk /\ ProgressOk
    BY DEF Init, BuiltOk, BuiltWhole, GotOk, ProgressOk, Undisturbed
  <2>5. RingOk
    <3>1. RingSize \in 0 .. RingSize /\ ~ (RingSize < RingSize)
      BY FragAssumption, SMTT(30)
    <3> QED
      BY <3>1 DEF Init, RingOk, RingHolds, Ages
  <2> QED
    BY <2>2, <2>3, <2>4, <2>5 DEF FragInv
<1>2. FragInv /\ [Next]_vars => FragInv'
  <2> SUFFICES ASSUME FragInv, [Next]_vars PROVE FragInv'
    OBVIOUS
  <2>1. CASE UNCHANGED vars
    <3>1. FragTypes' /\ GotOk' /\ BuiltOk' /\ RingOk'
      BY <2>1 DEF vars, FragInv, FragTypes, GotOk, BuiltOk, BuiltWhole, RingOk
    <3>2. SlotsOk' /\ OwnKeys'
      BY <2>1 DEF vars, FragInv, SlotsOk, ChunkOk, OwnKeys
    <3>3. ProgressOk'
      BY <2>1 DEF vars, FragInv, ProgressOk, Undisturbed, InSlot
    <3> QED
      BY <3>1, <3>2, <3>3 DEF FragInv
  <2> QED
    BY <2>1, FragTick, FragmentStep, FragInbound DEF Next
<1>3. FragInv => ReassemblySound
  <2> SUFFICES ASSUME FragInv PROVE ReassemblySound
    OBVIOUS
  <2>1. TypeOK
    BY FragAssumption, SMTT(30) DEF FragInv, FragTypes, SlotState, TypeOK, RingOk, Ages
  <2>2. BuiltWhole /\ DispatchedOnce
    BY DEF FragInv, BuiltOk, RingOk, DispatchedOnce
  <2>3. Reassembles
    <3> SUFFICES ASSUME NEW s \in Streams, got[s] = 0 .. Total[s] - 1,
                        last[s] - first[s] <= Timeout, s \notin crowded, Total[s] <= MaxParts,
                        \A t \in Streams \ {s} : Key[t] = Key[s] => got[t] = {},
                        Whole(s) \notin built
                 PROVE  FALSE
      BY DEF Reassembles
    <3>1. got[s] # {}
      <4>1. Total[s] \in Nat \ {0}
        BY FragAssumption
      <4>2. 0 \in 0 .. Total[s] - 1
        BY <4>1, SMTT(30)
      <4> QED
        BY <4>2
    <3> QED
      BY <3>1 DEF FragInv, ProgressOk, Undisturbed
  <2> QED
    BY <2>1, <2>2, <2>3 DEF ReassemblySound
<1> QED
  BY <1>1, <1>2, <1>3, PTL DEF Spec

-----------------------------------------------------------------------------
(* The key objects.                                                        *)

\* The inductive strengthening of KeysSound: an object is empty, holds a
\* public key or a pair that belongs together; signatures and secrets are made
\* from such pairs.
KeyObject ==
  {Absent, EmptyKey} \cup {PublicOnly(p) : p \in Publics} \cup {KeyPair(k, Pub(k)) : k \in Privates}
Secret(x) == x.out = IF x.pub = Zeroes THEN {Zero} ELSE {x.priv, x.pub.of}

KeyInv ==
  /\ objs \in [Slots -> KeyObject]
  /\ \A sig \in sigs : sig.priv \in Privates /\ sig.pub = Pub(sig.priv)
  /\ \A x \in shared : x.priv \in Privates /\ x.pub \in Publics /\ Secret(x)
  /\ NothingCopiedOnError

\* What an object that holds a key looks like.
LEMMA ObjectShape ==
  ASSUME NEW o \in KeyObject
  PROVE  /\ o.type = "keypair" => o.priv \in Privates /\ o.pub = Pub(o.priv)
         /\ o.type # "keypair" => o.priv = Zero
         /\ o.type \in {"none", "absent"} => o.pub = Zeroes
         /\ o.pub \in Publics /\ o = [type |-> o.type, priv |-> o.priv, pub |-> o.pub]
<1>1. CASE o \in {Absent, EmptyKey}
  BY <1>1, SMTT(30) DEF Absent, EmptyKey, Publics
<1>2. CASE o \in {PublicOnly(p) : p \in Publics}
  BY <1>2, SMTT(30) DEF PublicOnly
<1>3. CASE o \in {KeyPair(k, Pub(k)) : k \in Privates}
  <2>1. PICK k \in Privates : o = [type |-> "keypair", priv |-> k, pub |-> Pub(k)]
    BY <1>3 DEF KeyPair
  <2>2. Pub(k) \in Publics
    BY DEF Publics
  <2> HIDE DEF Pub
  <2> QED
    BY <2>1, <2>2
<1> QED
  BY <1>1, <1>2, <1>3 DEF KeyObject

\* No private key has the zero public key.
LEMMA PublicOfPrivate ==
  ASSUME NEW k \in Privates
  PROVE  Pub(k) # Zeroes /\ Pub(k) \in Publics /\ Pub(k).of = k
  BY KeyAssumption DEF Pub, Zeroes, Publics

\* A call that puts a sound object behind a pointer keeps the invariant.
LEMMA BecomesSound ==
  ASSUME KeyInv, NEW s \in Slots, NEW o \in KeyObject, Becomes(s, o)
  PROVE  KeyInv'
<1>1. objs' \in [Slots -> KeyObject] /\ UNCHANGED <<sigs, shared, copied>>
  BY DEF KeyInv, Becomes
<1> QED
  BY <1>1 DEF KeyInv, NothingCopiedOnError, Secret

\* A call that copies out a key, or zeroes on an error, keeps the invariant.
LEMMA CopiesOutSound ==
  ASSUME KeyInv, NEW c, c.ok \/ (c.priv = Zero /\ c.pub = Zeroes), CopiesOut(c)
  PROVE  KeyInv'
  BY DEF KeyInv, CopiesOut, NothingCopiedOnError, Secret

\* Calls on a Diffie-Hellman object.
LEMMA DhStep ==
  ASSUME KeyInv, NEW s \in Slots,
         \/ noise_dhstate_new_by_id(s) \/ noise_dhstate_free(s) \/ noise_dhstate_generate_keypair(s)
         \/ noise_dhstate_clear_key(s) \/ noise_dhstate_set_null_public_key(s)
         \/ noise_dhstate_get_keypair(s) \/ noise_dhstate_get_public_key(s)
         \/ \E k \in Privates, p \in Publics : noise_dhstate_set_keypair(s, k, p)
         \/ \E k \in Privates : noise_dhstate_set_keypair_private(s, k)
         \/ \E p \in Publics : noise_dhstate_set_public_key(s, p)
         \/ \E t \in Slots :
              \/ noise_dhstate_copy(s, t) \/ noise_dhstate_generate_dependent_keypair(s, t)
              \/ noise_dhstate_calculate(s, t)
  PROVE  KeyInv'
<1>1. /\ EmptyKey \in KeyObject /\ Absent \in KeyObject
      /\ \A p \in Publics : PublicOnly(p) \in KeyObject
      /\ \A k \in Privates : KeyPair(k, Pub(k)) \in KeyObject
      /\ Zeroes \in Publics
  BY DEF KeyObject, Publics
<1>2. CASE noise_dhstate_new_by_id(s) \/ noise_dhstate_free(s) \/ noise_dhstate_clear_key(s)
           \/ noise_dhstate_set_null_public_key(s)
  BY <1>1, <1>2, BecomesSound
  DEF noise_dhstate_new_by_id, noise_dhstate_free, noise_dhstate_clear_key,
      noise_dhstate_set_null_public_key, noise_curve25519_new
<1>3. CASE noise_dhstate_generate_keypair(s)
           \/ \E t \in Slots : noise_dhstate_generate_dependent_keypair(s, t)
  BY <1>1, <1>3, BecomesSound
  DEF noise_dhstate_generate_keypair, noise_dhstate_generate_dependent_keypair,
      noise_curve25519_generate_keypair
<1>4. ASSUME NEW k \in Privates, NEW p \in Publics, noise_dhstate_set_keypair(s, k, p) PROVE KeyInv'
  <2>1. \/ p = Pub(k) /\ Becomes(s, KeyPair(k, p))
        \/ Becomes(s, EmptyKey)
    BY <1>4 DEF noise_dhstate_set_keypair, noise_curve25519_set_keypair
  <2> QED
    BY <1>1, <2>1, BecomesSound
<1>5. CASE \/ \E k \in Privates : noise_dhstate_set_keypair_private(s, k)
           \/ \E p \in Publics : noise_dhstate_set_public_key(s, p)
  BY <1>1, <1>5, BecomesSound
  DEF noise_dhstate_set_keypair_private, noise_curve25519_set_keypair_private, noise_dhstate_set_public_key
<1>6. CASE noise_dhstate_get_keypair(s) \/ noise_dhstate_get_public_key(s)
  <2> DEFINE given == [ok |-> TRUE, priv |-> objs[s].priv, pub |-> objs[s].pub]
             zeroed == [ok |-> FALSE, priv |-> Zero, pub |-> Zeroes]
             public == [ok |-> TRUE, priv |-> Zero, pub |-> objs[s].pub]
  <2>1. CopiesOut(given) \/ CopiesOut(zeroed) \/ CopiesOut(public)
    BY <1>6 DEF noise_dhstate_get_keypair, noise_dhstate_get_public_key
  <2>2. given.ok /\ public.ok /\ zeroed.priv = Zero /\ zeroed.pub = Zeroes
    OBVIOUS
  <2> HIDE DEF given, zeroed, public
  <2> QED
    BY <2>1, <2>2, CopiesOutSound
<1>7. ASSUME NEW t \in Slots, noise_dhstate_copy(s, t) PROVE KeyInv'
  <2>1. objs[t] \in KeyObject
    BY DEF KeyInv
  <2>2. Becomes(s, [type |-> objs[t].type, priv |-> objs[t].priv, pub |-> objs[t].pub])
    BY <1>7 DEF noise_dhstate_copy, noise_curve25519_copy
  <2>3. Becomes(s, objs[t])
    BY <2>1, <2>2, ObjectShape
  <2> QED
    BY <2>1, <2>3, BecomesSound
<1>8. ASSUME NEW t \in Slots, noise_dhstate_calculate(s, t) PROVE KeyInv'
  <2> DEFINE x == [priv |-> objs[s].priv, pub |-> objs[t].pub,
                   out |-> noise_cmove_zero(noise_curve25519_calculate(objs[s].priv, objs[t].pub),
                                            objs[t].pub = Zeroes)]
  <2>1. objs[s].priv \in Privates /\ objs[t].pub \in Publics
    BY <1>8, ObjectShape DEF KeyInv, noise_dhstate_calculate, noise_dhstate_has_keypair
  <2>2. shared' = shared \cup {x} /\ UNCHANGED <<objs, sigs, copied>>
    BY <1>8 DEF noise_dhstate_calculate
  <2>3. x.priv \in Privates /\ x.pub \in Publics /\ Secret(x)
    BY <2>1 DEF Secret, noise_cmove_zero, noise_curve25519_calculate
  <2> HIDE DEF x
  <2> QED
    BY <2>2, <2>3 DEF KeyInv, NothingCopiedOnError, Secret
<1> QED
  BY <1>2, <1>3, <1>4, <1>5, <1>6, <1>7, <1>8

\* Calls on a signature object.
LEMMA SignStep ==
  ASSUME KeyInv, NEW s \in Slots,
         \/ noise_signstate_new_by_id(s) \/ noise_signstate_free(s) \/ noise_signstate_generate_keypair(s)
         \/ noise_signstate_clear_key(s)
         \/ noise_signstate_get_keypair(s) \/ noise_signstate_get_public_key(s)
         \/ \E k \in Privates, p \in Publics : noise_signstate_set_keypair(s, k, p)
         \/ \E k \in Privates : noise_signstate_set_keypair_private(s, k)
         \/ \E p \in Publics : noise_signstate_set_public_key(s, p)
         \/ \E t \in Slots : noise_signstate_copy(s, t)
         \/ \E m \in Messages : noise_signstate_sign(s, m)
  PROVE  KeyInv'
<1>1. /\ EmptyKey \in KeyObject /\ Absent \in KeyObject
      /\ \A p \in Publics : PublicOnly(p) \in KeyObject
      /\ \A k \in Privates : KeyPair(k, Pub(k)) \in KeyObject
      /\ objs \in [Slots -> KeyObject]
  BY DEF KeyObject, KeyInv
<1>2. CASE noise_signstate_new_by_id(s) \/ noise_signstate_free(s) \/ noise_signstate_clear_key(s)
           \/ noise_signstate_generate_keypair(s)
  BY <1>1, <1>2, BecomesSound
  DEF noise_signstate_new_by_id, noise_signstate_free, noise_signstate_clear_key, noise_ed25519_new,
      noise_signstate_generate_keypair, noise_ed25519_generate_keypair
<1>3. CASE \/ \E k \in Privates, p \in Publics : noise_signstate_set_keypair(s, k, p)
           \/ \E k \in Privates : noise_signstate_set_keypair_private(s, k)
           \/ \E p \in Publics : noise_signstate_set_public_key(s, p)
           \/ \E t \in Slots : noise_signstate_copy(s, t)
  BY <1>1, <1>3, BecomesSound
  DEF noise_signstate_set_keypair, noise_ed25519_validate_keypair, noise_signstate_set_keypair_private,
      noise_ed25519_derive_public_key, noise_signstate_set_public_key, noise_signstate_copy
<1>4. CASE noise_signstate_get_keypair(s) \/ noise_signstate_get_public_key(s)
  <2> DEFINE given == [ok |-> TRUE, priv |-> objs[s].priv, pub |-> objs[s].pub]
             zeroed == [ok |-> FALSE, priv |-> Zero, pub |-> Zeroes]
             public == [ok |-> TRUE, priv |-> Zero, pub |-> objs[s].pub]
  <2>1. CopiesOut(given) \/ CopiesOut(zeroed) \/ CopiesOut(public)
    BY <1>4 DEF noise_signstate_get_keypair, noise_signstate_get_public_key
  <2>2. given.ok /\ public.ok /\ zeroed.priv = Zero /\ zeroed.pub = Zeroes
    OBVIOUS
  <2> HIDE DEF given, zeroed, public
  <2> QED
    BY <2>1, <2>2, CopiesOutSound
<1>5. ASSUME NEW m \in Messages, noise_signstate_sign(s, m) PROVE KeyInv'
  <2> DEFINE sig == [priv |-> objs[s].priv, pub |-> objs[s].pub, msg |-> m]
  <2>1. objs[s].priv \in Privates /\ objs[s].pub = Pub(objs[s].priv)
    BY <1>1, <1>5, ObjectShape DEF noise_signstate_sign, noise_signstate_has_keypair
  <2>2. sigs' = sigs \cup {sig} /\ UNCHANGED <<objs, shared, copied>>
    BY <1>5 DEF noise_signstate_sign, noise_ed25519_sign
  <2>3. sig.priv \in Privates /\ sig.pub = Pub(sig.priv)
    BY <2>1
  <2> HIDE DEF sig
  <2> QED
    BY <2>2, <2>3 DEF KeyInv, NothingCopiedOnError, Secret
<1> QED
  BY <1>2, <1>3, <1>4, <1>5

\* The key objects of the Noise library, any number of them and under any
\* sequence of calls: no pair that does not belong together, no private key
\* left over, every signature verifies where it should and nowhere else, and
\* both sides of an exchange have one secret.
THEOREM KeysAreSound == KeyInit /\ [][KeyNext]_keyVars => []KeysSound
<1>1. KeyInit => KeyInv
  <2> SUFFICES ASSUME KeyInit PROVE KeyInv
    OBVIOUS
  <2>1. objs \in [Slots -> KeyObject]
    BY DEF KeyInit, KeyObject
  <2>2. copied.priv = Zero /\ copied.pub = Zeroes
    BY DEF KeyInit
  <2>3. NothingCopiedOnError
    BY <2>2 DEF NothingCopiedOnError
  <2> QED
    BY <2>1, <2>3 DEF KeyInit, KeyInv
<1>2. KeyInv /\ [KeyNext]_keyVars => KeyInv'
  <2> SUFFICES ASSUME KeyInv, [KeyNext]_keyVars PROVE KeyInv'
    OBVIOUS
  <2>1. CASE UNCHANGED keyVars
    BY <2>1 DEF keyVars, KeyInv, NothingCopiedOnError, Secret
  <2>2. CASE KeyNext
    BY <2>2, DhStep, SignStep DEF KeyNext
  <2> QED
    BY <2>1, <2>2
<1>3. KeyInv => KeysSound
  <2> SUFFICES ASSUME KeyInv PROVE KeysSound
    OBVIOUS
  <2>1. PairsMatch
    BY ObjectShape DEF KeyInv, PairsMatch
  <2>2. ASSUME NEW sig \in sigs, NEW s \in Slots, IsSign(s)
        PROVE  noise_signstate_verify(s, sig.msg, sig) <=> objs[s].pub = Pub(sig.priv)
    <3>1. /\ sig.pub = Pub(sig.priv) /\ sig.pub # Zeroes
          /\ objs[s].type = "none" => objs[s].pub = Zeroes
      BY <2>2, ObjectShape, PublicOfPrivate DEF KeyInv
    <3> QED
      BY <3>1 DEF noise_signstate_verify, noise_signstate_has_public_key, noise_ed25519_verify
  <2>3. ASSUME NEW a \in shared, NEW b \in shared
        PROVE  /\ a.pub = Pub(b.priv) /\ b.pub = Pub(a.priv) => a.out = b.out
               /\ (a.pub = Zeroes) <=> (a.out = {Zero})
    <3>1. /\ a.priv \in Privates /\ Secret(a) /\ b.priv \in Privates /\ Secret(b)
      BY <2>3 DEF KeyInv
    <3>2. a.priv # Zero /\ {a.priv, b.priv} = {b.priv, a.priv}
      BY <3>1, KeyAssumption
    <3>3. (a.pub = Zeroes) <=> (a.out = {Zero})
      BY <3>1, <3>2 DEF Secret
    <3>4. ASSUME a.pub = Pub(b.priv), b.pub = Pub(a.priv) PROVE a.out = b.out
      <4>1. a.out = {a.priv, b.priv} /\ b.out = {b.priv, a.priv}
        BY <3>1, <3>4, PublicOfPrivate DEF Secret
      <4> QED
        BY <3>2, <4>1
    <3> QED
      BY <3>3, <3>4
  <2> QED
    BY <2>1, <2>2, <2>3 DEF KeysSound, SignaturesVerify, SecretsAgree, KeyInv
<1> QED
  BY <1>1, <1>2, <1>3, PTL

-----------------------------------------------------------------------------
(* Start-up.                                                               *)

\* The inductive strengthening of IdentityKept.  Until the commit the keys in
\* RAM are those NVS will hold; from then on they are those it holds, and only
\* the nickname is ever written again.  A name of the derived form is that of
\* the stored key.
IdKeys == {"static", "peer", "sign", "signpub"}
Early == {"off", "hash", "static"}
Late == {"nickname", "store_nick", "services", "running"}

BootTypes ==
  /\ stage \in Early \cup {"sign", "commit"} \cup Late
  /\ DOMAIN flash = NvsKeys /\ DOMAIN dirty \subseteq NvsKeys
  /\ DOMAIN ram = NvsKeys /\ made \in Nat /\ faults \in Nat
  /\ stage # "off" => pages = "ok"

SameName(f) == f["nick"].form = "bitle" => f["static"] # Missing /\ f["nick"] = Det(f["static"] % SuffixCount)

Identity ==
  /\ stage \in Early => DOMAIN dirty = {}
  /\ stage \in {"sign", "commit"} =>
       /\ DOMAIN dirty \subseteq IdKeys /\ ram["static"] # Missing
       /\ \A k \in {"static", "peer"} : Stored(k) = ram["static"] /\ ram[k] = ram["static"]
       /\ flash["static"] # Missing => ram["static"] = flash["static"]
  /\ stage = "sign" => DOMAIN dirty \subseteq {"static", "peer"}
  /\ stage = "commit" =>
       /\ ram["sign"] # Missing
       /\ \A k \in {"sign", "signpub"} : Stored(k) = ram["sign"] /\ ram[k] = ram["sign"]
       /\ flash["sign"] # Missing => ram["sign"] = flash["sign"]
  /\ stage \in Late =>
       /\ \A k \in IdKeys : flash[k] = ram[k] /\ ram[k] # Missing
       /\ ram["peer"] = ram["static"] /\ ram["signpub"] = ram["sign"]
       /\ DOMAIN dirty \subseteq {"nick"}
       /\ "nick" \in DOMAIN dirty => dirty["nick"] = Det(ram["peer"] % SuffixCount)
  /\ stage \in {"store_nick", "services", "running"} =>
       (ram["nick"].form = "bitle" => ram["nick"] = Det(ram["peer"] % SuffixCount))

Lived ==
  ranAs # {} =>
    /\ pages = "ok" /\ flash["static"] # Missing /\ flash["sign"] # Missing
    /\ ranAs = {[peer |-> flash["static"], sign |-> flash["sign"]]}

BootInv == BootTypes /\ (faults = 0 => Identity /\ SameName(flash) /\ Lived)

\* What part of the unwritten values a power cut keeps does not matter: keys
\* that were in use stay, and a derived name is kept with its key.
LEMMA CutKeeps ==
  ASSUME BootInv, faults = 0, NEW kept \in SUBSET DOMAIN dirty
  PROVE  LET f == Written(Restrict(dirty, kept)) IN
         /\ DOMAIN f = NvsKeys /\ SameName(f)
         /\ flash["static"] # Missing => f["static"] = flash["static"]
         /\ flash["sign"] # Missing => f["sign"] = flash["sign"]
<1> DEFINE d == Restrict(dirty, kept)
           f == Written(d)
<1>1. DOMAIN d = kept /\ \A k \in kept : d[k] = dirty[k]
  BY DEF Restrict
<1>2. DOMAIN f = NvsKeys /\ \A k \in NvsKeys : f[k] = IF k \in kept THEN dirty[k] ELSE flash[k]
  BY <1>1 DEF Written
<1> HIDE DEF d, f
<1>3. {"static", "sign", "nick"} \subseteq NvsKeys
  BY DEF NvsKeys
<1>4. Identity /\ SameName(flash) /\ BootTypes
  BY DEF BootInv
<1>5. /\ flash["static"] # Missing => f["static"] = flash["static"]
      /\ flash["sign"] # Missing => f["sign"] = flash["sign"]
      /\ "nick" \in kept => stage \in Late
  BY <1>2, <1>3, <1>4 DEF Identity, BootTypes, Stored, IdKeys
<1>6. SameName(f)
  <2>1. CASE "nick" \in kept
    BY <1>2, <1>3, <1>4, <1>5, <2>1 DEF Identity, SameName, IdKeys
  <2>2. CASE "nick" \notin kept
    BY <1>2, <1>3, <1>4, <1>5, <2>2 DEF SameName
  <2> QED
    BY <2>1, <2>2
<1> QED
  BY <1>2, <1>5, <1>6 DEF f, d

\* The chip restarts: a power cut.
LEMMA PowerCutStep == ASSUME BootInv, PowerCut PROVE BootInv'
<1>1. /\ stage' = "off" /\ DOMAIN dirty' = {} /\ DOMAIN ram' = NvsKeys
      /\ UNCHANGED <<pages, made, ranAs, faults>>
  BY DEF PowerCut, Restart, NoRam, NoWrites, NvsKeys
<1>2. PICK kept \in SUBSET DOMAIN dirty : flash' = Written(Restrict(dirty, kept))
  BY DEF PowerCut
<1>3. DOMAIN flash' = NvsKeys
  BY <1>2 DEF Written
<1>4. BootTypes'
  BY <1>1, <1>3 DEF BootInv, BootTypes, Early
<1>5. ASSUME faults = 0 PROVE Identity' /\ SameName(flash)' /\ Lived'
  <2>1. /\ SameName(flash')
        /\ flash["static"] # Missing => flash'["static"] = flash["static"]
        /\ flash["sign"] # Missing => flash'["sign"] = flash["sign"]
    BY <1>2, <1>5, CutKeeps
  <2>2. Lived'
    BY <1>1, <1>5, <2>1 DEF BootInv, Lived
  <2>3. Identity'
    BY <1>1 DEF Identity, Late
  <2> QED
    BY <2>1, <2>2, <2>3 DEF SameName
<1> QED
  BY <1>1, <1>4, <1>5 DEF BootInv

\* A fault ends what is promised of a node without faults.
LEMMA FaultyStep ==
  ASSUME BootInv, BootTypes', faults' = faults + 1
  PROVE  BootInv'
  BY SMTT(30) DEF BootInv, BootTypes

\* The chip restarts: an abort.
LEMMA AbortStep == ASSUME BootInv, AbortBoot PROVE BootInv'
<1>1. /\ stage' = "off" /\ DOMAIN dirty' = {} /\ DOMAIN ram' = NvsKeys
      /\ UNCHANGED <<pages, made, ranAs>> /\ faults' = faults + 1 /\ DOMAIN flash' = NvsKeys
  BY DEF AbortBoot, Restart, NoRam, NoWrites, NvsKeys, Written
<1>2. BootTypes'
  BY <1>1, SMTT(30) DEF BootInv, BootTypes, Early
<1> QED
  BY <1>1, <1>2, FaultyStep

\* nvs_flash_init erases a partition that is full, and no node has run yet
\* whose partition was.
LEMMA NvsStep == ASSUME BootInv, nvs_flash_init PROVE BootInv'
<1>1. /\ stage = "off" /\ stage' = "hash" /\ pages' = "ok"
      /\ flash' = (IF pages = "full" THEN Empty ELSE flash)
      /\ UNCHANGED <<dirty, ram, made, ranAs, faults>>
  BY DEF nvs_flash_init, Goto
<1>2. DOMAIN Empty = NvsKeys /\ Empty["nick"].form = "none"
  BY DEF Empty, NvsKeys, NoNick
<1>3. BootTypes'
  BY <1>1, <1>2 DEF BootInv, BootTypes, Early
<1>4. ASSUME faults = 0 PROVE Identity' /\ SameName(flash)' /\ Lived'
  <2>1. Identity'
    BY <1>1, <1>4 DEF BootInv, Identity, Early, Late
  <2>2. SameName(flash)'
    BY <1>1, <1>2, <1>4 DEF BootInv, SameName
  <2>3. Lived'
    BY <1>1, <1>4 DEF BootInv, Lived
  <2> QED
    BY <2>1, <2>2, <2>3
<1> QED
  BY <1>1, <1>3, <1>4 DEF BootInv

\* The partition fills up: a fault.
LEMMA FillStep == ASSUME BootInv, FillPages PROVE BootInv'
<1>1. BootTypes' /\ faults' = faults + 1
  BY SMTT(30) DEF BootInv, BootTypes, FillPages
<1> QED
  BY <1>1, FaultyStep

\* bitle_hash_init.
LEMMA HashStep == ASSUME BootInv, bitle_hash_init PROVE BootInv'
<1>1. CASE AbortBoot
  BY <1>1, AbortStep
<1>2. CASE Goto("static") /\ UNCHANGED <<flash, dirty, ram, pages, made, ranAs, cuts, faults>>
  <2>1. stage = "hash" /\ stage' = "static" /\ UNCHANGED <<flash, dirty, ram, pages, made, ranAs, faults>>
    BY <1>2 DEF bitle_hash_init, Goto
  <2>2. BootTypes'
    BY <2>1 DEF BootInv, BootTypes, Early
  <2>3. ASSUME faults = 0 PROVE Identity' /\ SameName(flash)' /\ Lived'
    BY <2>1, <2>3 DEF BootInv, Identity, SameName, Lived, Early, Late
  <2> QED
    BY <2>1, <2>2, <2>3 DEF BootInv
<1> QED
  BY <1>1, <1>2 DEF bitle_hash_init

\* load_identity, first half: the static key is the stored one, or new if
\* there is none.
LEMMA StaticStep == ASSUME BootInv, LoadStatic PROVE BootInv'
<1> SUFFICES ASSUME ~AbortBoot PROVE BootInv'
  BY AbortStep
<1>1. /\ stage = "static" /\ BootTypes /\ UNCHANGED <<pages, ranAs, flash>>
      /\ {"static", "peer"} \subseteq NvsKeys
  BY DEF LoadStatic, BootInv, NvsKeys
<1>2. CASE Fault /\ Goto("nickname") /\ UNCHANGED <<flash, dirty, ram, made>>
  <2>1. BootTypes' /\ faults' = faults + 1
    BY <1>1, <1>2, SMTT(30) DEF Fault, Goto, BootTypes, Late
  <2> QED
    BY <2>1, FaultyStep
<1>3. CASE /\ Stored("static") # Missing /\ Goto("sign")
           /\ ram' = [ram EXCEPT !.static = Stored("static"), !.peer = Stored("static")]
           /\ dirty' = Set("peer", Stored("static"))
           /\ UNCHANGED <<made, faults>>
  <2>1. /\ DOMAIN ram' = NvsKeys /\ ram'["static"] = Stored("static") /\ ram'["peer"] = Stored("static")
    BY <1>1, <1>3 DEF BootTypes
  <2>2. DOMAIN dirty' = DOMAIN dirty \cup {"peer"} /\ dirty'["peer"] = Stored("static")
    BY <1>3 DEF Set
  <2>3. BootTypes'
    BY <1>1, <1>3, <2>1, <2>2 DEF BootTypes, Goto
  <2>4. ASSUME faults = 0 PROVE Identity' /\ SameName(flash)' /\ Lived'
    <3>1. DOMAIN dirty = {} /\ Stored("static") = flash["static"] /\ DOMAIN dirty' = {"peer"}
      BY <1>1, <2>2, <2>4 DEF BootInv, Identity, Early, Stored
    <3>2. Identity'
      BY <1>1, <1>3, <2>1, <2>2, <3>1 DEF Identity, Goto, Early, Late, Stored, IdKeys
    <3> QED
      BY <1>1, <2>4, <3>2 DEF BootInv, SameName, Lived
  <2> QED
    BY <1>3, <2>3, <2>4 DEF BootInv
<1>4. CASE /\ made' = made + 1 /\ Goto("sign")
           /\ IF Stored("static") = Missing THEN UNCHANGED faults ELSE Fault
           /\ ram' = [ram EXCEPT !.static = made + 1, !.peer = made + 1]
           /\ dirty' = [x \in DOMAIN dirty \cup {"static", "peer"} |-> made + 1]
  <2>1. /\ DOMAIN ram' = NvsKeys /\ ram'["static"] = made + 1 /\ ram'["peer"] = made + 1
        /\ made + 1 # Missing /\ made' \in Nat
    BY <1>1, <1>4, SMTT(30) DEF BootTypes, Missing
  <2>2. /\ DOMAIN dirty' = DOMAIN dirty \cup {"static", "peer"}
        /\ dirty'["static"] = made + 1 /\ dirty'["peer"] = made + 1
    BY <1>4
  <2>3. BootTypes' /\ (faults' = faults \/ faults' = faults + 1)
    BY <1>1, <1>4, <2>1, <2>2, SMTT(30) DEF BootTypes, Goto, Fault
  <2>4. ASSUME faults' = faults, faults = 0 PROVE Identity' /\ SameName(flash)' /\ Lived'
    <3>1. Stored("static") = Missing
      BY <1>4, <2>4, SMTT(30) DEF Fault
    <3>2. DOMAIN dirty = {} /\ flash["static"] = Missing /\ DOMAIN dirty' = {"static", "peer"}
      BY <1>1, <2>2, <2>4, <3>1 DEF BootInv, Identity, Early, Stored
    <3>3. Identity'
      BY <1>1, <1>4, <2>1, <2>2, <3>2 DEF Identity, Goto, Early, Late, Stored, IdKeys
    <3> QED
      BY <1>1, <2>4, <3>3 DEF BootInv, SameName, Lived
  <2> QED
    BY <2>3, <2>4, FaultyStep DEF BootInv
<1> QED
  BY <1>1, <1>2, <1>3, <1>4 DEF LoadStatic

\* load_identity, second half: the same for the signing key.
LEMMA SignKeyStep == ASSUME BootInv, LoadSign PROVE BootInv'
<1> SUFFICES ASSUME ~AbortBoot PROVE BootInv'
  BY AbortStep
<1>1. /\ stage = "sign" /\ stage' = "commit" /\ BootTypes /\ UNCHANGED <<pages, ranAs, flash>>
      /\ IdKeys \subseteq NvsKeys
  BY DEF LoadSign, BootInv, NvsKeys, IdKeys, Goto
<1>2. CASE /\ Stored("sign") # Missing
           /\ ram' = [ram EXCEPT !.sign = Stored("sign"), !.signpub = Stored("sign")]
           /\ dirty' = Set("signpub", Stored("sign"))
           /\ UNCHANGED <<made, faults>>
  <2>1. /\ DOMAIN ram' = NvsKeys /\ ram'["sign"] = Stored("sign") /\ ram'["signpub"] = Stored("sign")
        /\ ram'["static"] = ram["static"] /\ ram'["peer"] = ram["peer"]
    BY <1>1, <1>2 DEF BootTypes, IdKeys
  <2>2. /\ DOMAIN dirty' = DOMAIN dirty \cup {"signpub"} /\ dirty'["signpub"] = Stored("sign")
        /\ \A k \in DOMAIN dirty \ {"signpub"} : dirty'[k] = dirty[k]
    BY <1>2 DEF Set
  <2>3. BootTypes'
    BY <1>1, <1>2, <2>1, <2>2 DEF BootTypes, IdKeys
  <2>4. ASSUME faults = 0 PROVE Identity' /\ SameName(flash)' /\ Lived'
    <3>1. /\ DOMAIN dirty \subseteq {"static", "peer"} /\ Stored("sign") = flash["sign"]
          /\ \A k \in {"static", "peer"} : Stored(k) = ram["static"] /\ ram[k] = ram["static"]
          /\ ram["static"] # Missing
          /\ flash["static"] # Missing => ram["static"] = flash["static"]
      BY <1>1, <2>4 DEF BootInv, Identity, Stored
    <3>2. /\ \A k \in {"static", "peer"} : Stored(k)' = Stored(k)
          /\ \A k \in {"sign", "signpub"} : Stored(k)' = flash["sign"]
      BY <1>1, <2>2, <3>1 DEF Stored
    <3>3. Identity'
      BY <1>1, <1>2, <2>1, <2>2, <3>1, <3>2 DEF Identity, Early, Late, IdKeys
    <3> QED
      BY <1>1, <2>4, <3>3 DEF BootInv, SameName, Lived
  <2> QED
    BY <1>2, <2>3, <2>4 DEF BootInv
<1>3. CASE /\ made' = made + 1
           /\ IF Stored("sign") = Missing THEN UNCHANGED faults ELSE Fault
           /\ ram' = [ram EXCEPT !.sign = made + 1, !.signpub = made + 1]
           /\ dirty' = [x \in DOMAIN dirty \cup {"sign", "signpub"} |->
                          IF x \in {"sign", "signpub"} THEN made + 1 ELSE dirty[x]]
  <2>1. /\ DOMAIN ram' = NvsKeys /\ ram'["sign"] = made + 1 /\ ram'["signpub"] = made + 1
        /\ ram'["static"] = ram["static"] /\ ram'["peer"] = ram["peer"]
        /\ made + 1 # Missing /\ made' \in Nat
    BY <1>1, <1>3, SMTT(30) DEF BootTypes, IdKeys, Missing
  <2>2. /\ DOMAIN dirty' = DOMAIN dirty \cup {"sign", "signpub"}
        /\ dirty'["sign"] = made + 1 /\ dirty'["signpub"] = made + 1
        /\ \A k \in DOMAIN dirty \ {"sign", "signpub"} : dirty'[k] = dirty[k]
    BY <1>3
  <2>3. BootTypes' /\ (faults' = faults \/ faults' = faults + 1)
    BY <1>1, <1>3, <2>1, <2>2, SMTT(30) DEF BootTypes, IdKeys, Fault
  <2>4. ASSUME faults' = faults, faults = 0 PROVE Identity' /\ SameName(flash)' /\ Lived'
    <3>1. /\ DOMAIN dirty \subseteq {"static", "peer"} /\ Stored("sign") = flash["sign"]
          /\ \A k \in {"static", "peer"} : Stored(k) = ram["static"] /\ ram[k] = ram["static"]
          /\ ram["static"] # Missing
          /\ flash["static"] # Missing => ram["static"] = flash["static"]
      BY <1>1, <2>4 DEF BootInv, Identity, Stored
    <3>2. flash["sign"] = Missing
      BY <1>3, <2>4, <3>1, SMTT(30) DEF Fault
    <3>3. /\ \A k \in {"static", "peer"} : Stored(k)' = Stored(k)
          /\ \A k \in {"sign", "signpub"} : Stored(k)' = made + 1
      BY <1>1, <2>2, <3>1 DEF Stored
    <3>4. Identity'
      BY <1>1, <2>1, <2>2, <3>1, <3>2, <3>3 DEF Identity, Early, Late, IdKeys
    <3> QED
      BY <1>1, <2>4, <3>4 DEF BootInv, SameName, Lived
  <2> QED
    BY <2>3, <2>4, FaultyStep DEF BootInv
<1> QED
  BY <1>2, <1>3 DEF LoadSign

\* nvs_commit: what was in RAM is now what NVS holds.
LEMMA CommitStep == ASSUME BootInv, CommitIdentity PROVE BootInv'
<1>1. /\ stage = "commit" /\ stage' = "nickname" /\ BootTypes /\ UNCHANGED <<pages, ranAs, ram, made>>
      /\ IdKeys \subseteq NvsKeys /\ "nick" \in NvsKeys
  BY DEF CommitIdentity, BootInv, NvsKeys, IdKeys, Goto
<1>2. CASE Fault /\ UNCHANGED <<flash, dirty>>
  <2>1. BootTypes' /\ faults' = faults + 1
    BY <1>1, <1>2, SMTT(30) DEF Fault, BootTypes, Late
  <2> QED
    BY <2>1, FaultyStep
<1>3. CASE flash' = Written(dirty) /\ dirty' = NoWrites /\ UNCHANGED faults
  <2>1. DOMAIN dirty' = {} /\ DOMAIN flash' = NvsKeys /\ \A k \in NvsKeys : flash'[k] = Stored(k)
    BY <1>3 DEF Written, NoWrites, Stored
  <2>2. BootTypes'
    BY <1>1, <1>3, <2>1 DEF BootTypes, Late
  <2>3. ASSUME faults = 0 PROVE Identity' /\ SameName(flash)' /\ Lived'
    <3>1. Identity /\ SameName(flash) /\ Lived
      BY <2>3 DEF BootInv
    <3>2. \A k \in IdKeys : flash'[k] = ram[k] /\ ram[k] # Missing
      BY <1>1, <2>1, <3>1 DEF Identity, IdKeys
    <3>3. ram["peer"] = ram["static"] /\ ram["signpub"] = ram["sign"]
      BY <1>1, <3>1 DEF Identity
    <3>4. /\ flash'["nick"] = flash["nick"]
          /\ flash["static"] # Missing => flash'["static"] = flash["static"]
          /\ flash["sign"] # Missing => flash'["sign"] = flash["sign"]
      BY <1>1, <2>1, <3>1, <3>2, SMTT(30) DEF Identity, Stored, IdKeys
    <3>5. Identity'
      BY <1>1, <2>1, <3>2, <3>3 DEF Identity, Early, Late
    <3> QED
      BY <1>1, <3>1, <3>4, <3>5 DEF SameName, Lived
  <2> QED
    BY <1>3, <2>2, <2>3 DEF BootInv
<1> QED
  BY <1>2, <1>3 DEF CommitIdentity

\* load_nickname: a derived name that is kept was derived from this key.
LEMMA NameStep == ASSUME BootInv, load_nickname PROVE BootInv'
<1>1. /\ stage = "nickname" /\ BootTypes /\ UNCHANGED <<pages, ranAs, flash, made>>
      /\ IdKeys \subseteq NvsKeys /\ "nick" \in NvsKeys /\ "nick" \notin IdKeys
  BY DEF load_nickname, BootInv, NvsKeys, IdKeys
<1>2. faults = 0 => /\ \A k \in IdKeys : flash[k] = ram[k] /\ ram[k] # Missing
                    /\ ram["peer"] = ram["static"] /\ ram["signpub"] = ram["sign"]
                    /\ DOMAIN dirty \subseteq {"nick"}
                    /\ "nick" \in DOMAIN dirty => dirty["nick"] = Det(ram["peer"] % SuffixCount)
                    /\ SameName(flash) /\ Lived
  BY <1>1 DEF BootInv, Identity, Late
<1>3. CASE /\ Goto("services") /\ ram' = [ram EXCEPT !.nick = Stored("nick")] /\ UNCHANGED <<dirty, faults>>
  <2>1. /\ DOMAIN ram' = NvsKeys /\ ram'["nick"] = Stored("nick")
        /\ \A k \in IdKeys : ram'[k] = ram[k]
    BY <1>1, <1>3 DEF BootTypes
  <2>2. BootTypes'
    BY <1>1, <1>3, <2>1 DEF BootTypes, Goto, Late
  <2>3. ASSUME faults = 0 PROVE Identity' /\ SameName(flash)' /\ Lived'
    <3>1. ram'["nick"].form = "bitle" => ram'["nick"] = Det(ram["peer"] % SuffixCount)
      BY <1>2, <2>1, <2>3 DEF Stored, SameName, IdKeys
    <3>2. Identity'
      BY <1>1, <1>2, <1>3, <2>1, <2>3, <3>1 DEF Identity, Goto, Early, Late, IdKeys
    <3> QED
      BY <1>1, <1>2, <2>3, <3>2 DEF SameName, Lived
  <2> QED
    BY <1>3, <2>2, <2>3 DEF BootInv
<1>4. CASE /\ IF Keeps(Stored("nick")) THEN Fault ELSE UNCHANGED faults
           /\ ram' = [ram EXCEPT !.nick = nickname_generate(ram.peer)]
           /\ dirty' = Set("nick", nickname_generate(ram.peer))
           /\ Goto("store_nick")
  <2>1. /\ DOMAIN ram' = NvsKeys /\ ram'["nick"] = Det(ram["peer"] % SuffixCount)
        /\ \A k \in IdKeys : ram'[k] = ram[k]
    BY <1>1, <1>4 DEF BootTypes, nickname_generate, nickname_suffix_from_peer_id
  <2>2. /\ DOMAIN dirty' = DOMAIN dirty \cup {"nick"} /\ dirty'["nick"] = Det(ram["peer"] % SuffixCount)
    BY <1>4 DEF Set, nickname_generate, nickname_suffix_from_peer_id
  <2>3. BootTypes' /\ (faults' = faults \/ faults' = faults + 1)
    BY <1>1, <1>4, <2>1, <2>2, SMTT(30) DEF BootTypes, Goto, Late, Fault
  <2>4. ASSUME faults' = faults, faults = 0 PROVE Identity' /\ SameName(flash)' /\ Lived'
    <3>1. Identity'
      BY <1>1, <1>2, <1>4, <2>1, <2>2, <2>4 DEF Identity, Goto, Early, Late, IdKeys
    <3> QED
      BY <1>1, <1>2, <2>4, <3>1 DEF SameName, Lived
  <2> QED
    BY <2>3, <2>4, FaultyStep DEF BootInv
<1>5. CASE Fault /\ ram' = [ram EXCEPT !.nick = Det(0)] /\ Goto("services") /\ UNCHANGED dirty
  <2>1. DOMAIN ram' = NvsKeys
    BY <1>1, <1>5 DEF BootTypes
  <2>2. BootTypes' /\ faults' = faults + 1
    BY <1>1, <1>5, <2>1, SMTT(30) DEF BootTypes, Goto, Late, Fault
  <2> QED
    BY <2>2, FaultyStep
<1> QED
  BY <1>3, <1>4, <1>5 DEF load_nickname

\* nickname_store's commit, of a name that goes with the stored key.
LEMMA StoreNameStep == ASSUME BootInv, nickname_store PROVE BootInv'
<1>1. /\ stage = "store_nick" /\ stage' = "services" /\ BootTypes /\ UNCHANGED <<pages, ranAs, ram, made>>
      /\ IdKeys \subseteq NvsKeys /\ "nick" \in NvsKeys /\ "nick" \notin IdKeys
  BY DEF nickname_store, BootInv, NvsKeys, IdKeys, Goto
<1>2. CASE Fault /\ UNCHANGED <<flash, dirty>>
  <2>1. BootTypes' /\ faults' = faults + 1
    BY <1>1, <1>2, SMTT(30) DEF Fault, BootTypes, Late
  <2> QED
    BY <2>1, FaultyStep
<1>3. CASE flash' = Written(dirty) /\ dirty' = NoWrites /\ UNCHANGED faults
  <2>1. /\ DOMAIN dirty' = {} /\ DOMAIN flash' = NvsKeys
        /\ \A k \in NvsKeys : flash'[k] = IF k \in DOMAIN dirty THEN dirty[k] ELSE flash[k]
    BY <1>3 DEF Written, NoWrites
  <2>2. BootTypes'
    BY <1>1, <1>3, <2>1 DEF BootTypes, Late
  <2>3. ASSUME faults = 0 PROVE Identity' /\ SameName(flash)' /\ Lived'
    <3>1. Identity /\ SameName(flash) /\ Lived
      BY <2>3 DEF BootInv
    <3>2. /\ \A k \in IdKeys : flash'[k] = flash[k] /\ flash[k] = ram[k] /\ ram[k] # Missing
          /\ ram["peer"] = ram["static"] /\ ram["signpub"] = ram["sign"]
          /\ flash'["nick"] = flash["nick"] \/ flash'["nick"] = Det(ram["peer"] % SuffixCount)
      BY <1>1, <2>1, <3>1 DEF Identity, Late
    <3>3. ram["nick"].form = "bitle" => ram["nick"] = Det(ram["peer"] % SuffixCount)
      BY <1>1, <3>1 DEF Identity
    <3>4. Identity'
      BY <1>1, <2>1, <3>2, <3>3 DEF Identity, Early, Late
    <3>5. SameName(flash')
      BY <3>1, <3>2 DEF SameName, IdKeys
    <3>6. Lived'
      BY <1>1, <3>1, <3>2 DEF Lived, IdKeys
    <3> QED
      BY <3>4, <3>5, <3>6 DEF SameName
  <2> QED
    BY <1>3, <2>2, <2>3 DEF BootInv
<1> QED
  BY <1>2, <1>3 DEF nickname_store

\* The node runs, and is heard, with the keys NVS holds.
LEMMA RunStep == ASSUME BootInv, app_main PROVE BootInv'
<1>1. CASE AbortBoot
  BY <1>1, AbortStep
<1>2. CASE /\ Goto("running") /\ ranAs' = ranAs \cup {[peer |-> ram.peer, sign |-> ram.sign]}
           /\ UNCHANGED <<flash, dirty, ram, pages, made, cuts, faults>>
  <2>1. /\ stage = "services" /\ stage' = "running" /\ UNCHANGED <<flash, dirty, ram, pages, made, faults>>
        /\ ranAs' = ranAs \cup {[peer |-> ram["peer"], sign |-> ram["sign"]]}
    BY <1>2 DEF app_main, Goto
  <2>2. BootTypes'
    BY <2>1 DEF BootInv, BootTypes, Late
  <2>3. ASSUME faults = 0 PROVE Identity' /\ SameName(flash)' /\ Lived'
    <3>1. Identity /\ SameName(flash) /\ Lived /\ pages = "ok"
      BY <2>1, <2>3 DEF BootInv, BootTypes
    <3>2. Identity'
      BY <2>1, <3>1 DEF Identity, Early, Late
    <3>3. /\ ram["peer"] = flash["static"] /\ ram["sign"] = flash["sign"]
          /\ flash["static"] # Missing /\ flash["sign"] # Missing
      BY <2>1, <3>1 DEF Identity, Late, IdKeys
    <3>4. Lived'
      BY <2>1, <3>1, <3>3 DEF Lived
    <3> QED
      BY <2>1, <3>1, <3>2, <3>4 DEF SameName
  <2> QED
    BY <2>1, <2>2, <2>3 DEF BootInv
<1> QED
  BY <1>1, <1>2 DEF app_main

INSTANCE FiniteSetTheorems

\* Whatever instant the power is cut at and however often, a node that has not
\* met a storage error runs under one identity for life, the one NVS holds,
\* and under the nickname derived from it.
THEOREM IdentityIsKept == BootInit /\ [][BootNext]_bootVars => []IdentityKept
<1>1. BootInit => BootInv
  <2> SUFFICES ASSUME BootInit PROVE BootInv
    OBVIOUS
  <2>1. PICK n \in FirstNicks : flash = [Empty EXCEPT !["nick"] = n]
    BY DEF BootInit
  <2>2. DOMAIN flash = NvsKeys /\ flash["nick"].form # "bitle"
    BY <2>1, BootAssumption DEF Empty, NvsKeys
  <2>3. BootTypes
    BY <2>2 DEF BootInit, BootTypes, NoRam, NoWrites, NvsKeys, Early
  <2>4. Identity /\ Lived /\ SameName(flash)
    BY <2>2 DEF BootInit, Identity, Lived, SameName, NoWrites, Late
  <2> QED
    BY <2>3, <2>4 DEF BootInv
<1>2. BootInv /\ [BootNext]_bootVars => BootInv'
  <2> SUFFICES ASSUME BootInv, [BootNext]_bootVars PROVE BootInv'
    OBVIOUS
  <2>1. CASE UNCHANGED bootVars
    <3>1. BootTypes'
      BY <2>1 DEF bootVars, BootInv, BootTypes
    <3>2. faults = 0 => Identity' /\ SameName(flash)' /\ Lived'
      BY <2>1 DEF bootVars, BootInv, Identity, Stored, SameName, Lived
    <3> QED
      BY <2>1, <3>1, <3>2 DEF bootVars, BootInv
  <2>2. CASE BootNext
    BY <2>2, NvsStep, HashStep, StaticStep, SignKeyStep, CommitStep, NameStep, StoreNameStep, RunStep,
       PowerCutStep, FillStep DEF BootNext, BootStep
  <2> QED
    BY <2>1, <2>2
<1>3. BootInv => IdentityKept
  <2> SUFFICES ASSUME BootInv, faults = 0 PROVE OneIdentity /\ StoredIdentity /\ OwnNickname
    BY DEF IdentityKept, OneIdentity, StoredIdentity, OwnNickname
  <2>1. Identity /\ Lived
    BY DEF BootInv
  <2>2. OneIdentity
    <3>1. Cardinality({}) = 0 /\ \A x : Cardinality({x}) = 1
      BY FS_EmptySet, FS_Singleton, ZenonT(30)
    <3>2. ranAs = {} \/ ranAs = {[peer |-> flash["static"], sign |-> flash["sign"]]}
      BY <2>1 DEF Lived
    <3> QED
      BY <3>1, <3>2, SMTT(30) DEF OneIdentity
  <2>3. StoredIdentity
    BY <2>1 DEF Identity, StoredIdentity, Late, IdKeys
  <2>4. OwnNickname
    BY <2>1 DEF Identity, OwnNickname, nickname_is_deterministic
  <2> QED
    BY <2>2, <2>3, <2>4
<1> QED
  BY <1>1, <1>2, <1>3, PTL

-----------------------------------------------------------------------------
(* The registry of links.                                                  *)

LinkIds == Handles \cup {Trunk}
LinkSlots == 1..LinkMax
Broadcast == [left : [LinkSlots -> LinkIds \cup {NoLink}], exclude : LinkIds \cup {NoLink},
              heard : Seq(LinkIds), steady : SUBSET LinkIds, open : BOOLEAN]
LinkTypes ==
  /\ s_links \in [LinkSlots -> LinkIds \cup {NoLink}]
  /\ conns \in [Handles -> [in_use : BOOLEAN, subscribed : BOOLEAN]]
  /\ dropping \in Handles \cup {NoLink} /\ job \in [Tasks -> Broadcast]

\* The table has an entry for the handle; the link is up.
Registered(h) == \E i \in LinkSlots : s_links[i] = h
Up(h) == conns[h].subscribed /\ dropping # h

OneEntry(links) == \A i, k \in LinkSlots : i # k /\ links[i] # NoLink => links[i] # links[k]
TableOk ==
  /\ OneEntry(s_links) /\ Registered(Trunk)
  /\ \A h \in Handles : (Registered(h) <=> Up(h)) /\ (conns[h].subscribed => conns[h].in_use)

\* A broadcast has its targets ahead of it or behind it, each once; a link that
\* was there all the time is one of them, and is still up.
WalkOk(j) ==
  /\ OneEntry(j.left) /\ IsInjective(j.heard) /\ j.exclude \notin Range(j.heard)
  /\ \A i \in LinkSlots : j.left[i] # NoLink => j.left[i] \notin Range(j.heard) /\ j.left[i] # j.exclude
  /\ \A h \in j.steady : h \in Range(j.heard) \/ \E i \in LinkSlots : j.left[i] = h
SteadyUp(j) == \A h \in j.steady \cap Handles : Up(h)

LinkInv == LinkTypes /\ TableOk /\ \A t \in Tasks : WalkOk(job[t]) /\ SteadyUp(job[t])

\* The first of some slots is one of them.
LEMMA FirstSlotIs ==
  ASSUME NEW at, at \subseteq LinkSlots
  PROVE  /\ at # {} => FirstSlotOf(at) \in at
         /\ FirstSlotOf(at) = 0 <=> at = {}
<1>1. at # {} => FirstSlotOf(at) \in at
  <2> SUFFICES ASSUME at # {} PROVE FirstSlotOf(at) \in at
    OBVIOUS
  <2>1. at \subseteq Nat
    BY SMTT(30) DEF LinkSlots
  <2>2. \E i \in at : \A j \in at : i <= j
    BY <2>1, LeastNumber
  <2> QED
    BY <2>2 DEF FirstSlotOf
<1>2. 0 \notin LinkSlots
  BY SMTT(30) DEF LinkSlots
<1> QED
  BY <1>1, <1>2 DEF FirstSlotOf

\* What the search of the table finds.
LEMMA SlotFound ==
  ASSUME NEW h
  PROVE  /\ SlotOf(h) # 0 <=> Registered(h)
         /\ Registered(h) => SlotOf(h) \in LinkSlots /\ s_links[SlotOf(h)] = h
<1> DEFINE at == {i \in LinkSlots : s_links[i] = h}
<1>1. SlotOf(h) = FirstSlotOf(at)
  BY DEF SlotOf, LinkSlots
<1>2. at # {} <=> Registered(h)
  BY DEF Registered
<1>3. at \subseteq LinkSlots
  OBVIOUS
<1>4. (at # {} => FirstSlotOf(at) \in at) /\ (FirstSlotOf(at) = 0 <=> at = {})
  BY <1>3, FirstSlotIs
<1> QED
  BY <1>1, <1>2, <1>4

\* A table without an entry for a connection has a free one.
LEMMA RoomForLink ==
  ASSUME LinkTypes, TableOk, NEW h \in Handles, ~ Registered(h)
  PROVE  Registered(NoLink)
<1> SUFFICES ASSUME ~ Registered(NoLink) PROVE FALSE
  OBVIOUS
<1> DEFINE Others == Handles \ {h}
           Targets == Others \cup {Trunk}
<1>1. s_links \in [LinkSlots -> Targets]
  <2>1. s_links \in [LinkSlots -> LinkIds \cup {NoLink}] /\ \A i \in LinkSlots : s_links[i] \in Targets
    BY DEF LinkTypes, Registered, LinkIds
  <2> QED
    BY <2>1
<1>2. \A i, k \in LinkSlots : s_links[i] = s_links[k] => i = k
  BY DEF TableOk, OneEntry, Registered
<1>3. s_links \in Injection(LinkSlots, Targets)
  BY <1>1, <1>2 DEF Injection, IsInjective
<1>4. IsFiniteSet(Others) /\ Cardinality(Others) = Cardinality(Handles) - 1 /\ Cardinality(Handles) \in Nat
  BY LinkAssumption, FS_RemoveElement, FS_CardinalityType
<1>5. IsFiniteSet(Targets) /\ Cardinality(Targets) = Cardinality(Others) + 1
  BY <1>4, LinkAssumption, FS_AddElement
<1>6. Cardinality(LinkSlots) <= Cardinality(Targets)
  BY <1>3, <1>5, FS_Injection
<1>7. Cardinality(LinkSlots) = LinkMax
  BY LinkAssumption, FS_Interval, SMTT(30) DEF LinkSlots
<1> QED
  BY <1>4, <1>5, <1>6, <1>7, LinkAssumption, SMTT(30)

\* Registering a link gives it an entry and keeps the others.
LEMMA RegisterKeeps ==
  ASSUME LinkTypes, TableOk, NEW h \in Handles, register_locked(h)
  PROVE  /\ s_links' \in [LinkSlots -> LinkIds \cup {NoLink}] /\ OneEntry(s_links)'
         /\ \A w \in LinkIds : Registered(w)' <=> Registered(w) \/ w = h
<1> DEFINE e == IF SlotOf(h) # 0 THEN SlotOf(h) ELSE SlotOf(NoLink)
<1>1. /\ s_links \in [LinkSlots -> LinkIds \cup {NoLink}] /\ OneEntry(s_links)
      /\ h \in LinkIds /\ NoLink \notin LinkIds
  BY LinkAssumption DEF LinkTypes, TableOk, LinkIds, NoLink
<1>2. e \in LinkSlots /\ s_links[e] \in {h, NoLink} /\ e # 0 /\ (Registered(h) => s_links[e] = h)
  <2>0. 0 \notin LinkSlots
    BY SMTT(30) DEF LinkSlots
  <2>1. CASE Registered(h)
    BY <2>0, <2>1, SlotFound
  <2>2. CASE ~ Registered(h)
    <3>1. Registered(NoLink) /\ SlotOf(h) = 0
      BY <2>2, SlotFound, RoomForLink
    <3> QED
      BY <2>0, <2>2, <3>1, SlotFound
  <2> QED
    BY <2>1, <2>2
<1>3. s_links' = [s_links EXCEPT ![e] = h]
  BY <1>2 DEF register_locked
<1> HIDE DEF e
<1>4. s_links'[e] = h /\ \A i \in LinkSlots : i # e => s_links'[i] = s_links[i] /\ s_links[i] # h
  BY <1>1, <1>2, <1>3 DEF OneEntry, Registered
<1>5. s_links' \in [LinkSlots -> LinkIds \cup {NoLink}]
  BY <1>1, <1>2, <1>3
<1>6. OneEntry(s_links)'
  BY <1>1, <1>2, <1>4 DEF OneEntry
<1>7. ASSUME NEW w \in LinkIds PROVE Registered(w)' <=> Registered(w) \/ w = h
  BY <1>1, <1>2, <1>4 DEF Registered
<1> QED
  BY <1>5, <1>6, <1>7

\* Unregistering it takes its entry away, and no other.
LEMMA UnregisterKeeps ==
  ASSUME LinkTypes, TableOk, NEW h \in Handles, bitle_link_unregister(h)
  PROVE  /\ s_links' \in [LinkSlots -> LinkIds \cup {NoLink}] /\ OneEntry(s_links)'
         /\ \A w \in LinkIds : Registered(w)' <=> Registered(w) /\ w # h
<1>1. /\ s_links \in [LinkSlots -> LinkIds \cup {NoLink}] /\ OneEntry(s_links)
      /\ h \in LinkIds /\ NoLink \notin LinkIds
  BY LinkAssumption DEF LinkTypes, TableOk, LinkIds, NoLink
<1>2. CASE ~ Registered(h)
  <2>1. s_links' = s_links
    BY <1>2, SlotFound DEF bitle_link_unregister
  <2> QED
    BY <1>1, <1>2, <2>1 DEF OneEntry, Registered
<1>3. CASE Registered(h)
  <2> DEFINE e == SlotOf(h)
  <2>1. e \in LinkSlots /\ s_links[e] = h /\ s_links' = [s_links EXCEPT ![e] = NoLink]
    BY <1>3, SlotFound DEF bitle_link_unregister
  <2> HIDE DEF e
  <2>2. s_links'[e] = NoLink /\ \A i \in LinkSlots : i # e => s_links'[i] = s_links[i] /\ s_links[i] # h
    BY <1>1, <2>1 DEF OneEntry
  <2>3. s_links' \in [LinkSlots -> LinkIds \cup {NoLink}]
    BY <1>1, <2>1
  <2>4. OneEntry(s_links)'
    BY <1>1, <2>1, <2>2 DEF OneEntry
  <2>5. ASSUME NEW w \in LinkIds PROVE Registered(w)' <=> Registered(w) /\ w # h
    BY <1>1, <2>1, <2>2 DEF Registered
  <2> QED
    BY <2>3, <2>4, <2>5
<1> QED
  BY <1>2, <1>3

\* A broadcast with fewer steady links is one.
LEMMA WalkShrinks ==
  ASSUME NEW j, NEW k, WalkOk(j), k.left = j.left, k.heard = j.heard, k.exclude = j.exclude,
         k.steady \subseteq j.steady
  PROVE  WalkOk(k)
  BY DEF WalkOk

\* A link that goes leaves the broadcasts in progress as they are but for itself.
LEMMA UnsteadyKeeps ==
  ASSUME LinkInv, NEW h \in Handles, Unsteady(h)
  PROVE  /\ job' \in [Tasks -> Broadcast]
         /\ \A t \in Tasks : WalkOk(job[t])' /\ job'[t].steady = job[t].steady \ {h}
<1>1. job \in [Tasks -> Broadcast] /\ \A t \in Tasks : WalkOk(job[t])
  BY DEF LinkInv, LinkTypes
<1>2. \A t \in Tasks : /\ job'[t] = [job[t] EXCEPT !.steady = @ \ {h}] /\ job[t] \in Broadcast
  BY <1>1 DEF Unsteady
<1>3. ASSUME NEW t \in Tasks
      PROVE  /\ job'[t] \in Broadcast /\ job'[t].steady = job[t].steady \ {h}
             /\ job'[t].left = job[t].left /\ job'[t].heard = job[t].heard
             /\ job'[t].exclude = job[t].exclude
  <2>1. job[t].steady \ {h} \in SUBSET LinkIds
    BY <1>2 DEF Broadcast
  <2> QED
    BY <1>2, <2>1 DEF Broadcast
<1>4. job' \in [Tasks -> Broadcast]
  BY <1>3 DEF Unsteady
<1>5. ASSUME NEW t \in Tasks PROVE WalkOk(job[t])'
  <2>1. job'[t].steady \subseteq job[t].steady
    BY <1>3
  <2> QED
    BY <1>1, <1>3, <2>1, WalkShrinks
<1> QED
  BY <1>3, <1>4, <1>5

\* The steps of the host task.
LEMMA HostStep ==
  ASSUME LinkInv, NEW h \in Handles,
         alloc_conn(h) \/ SubscribeLink(h) \/ UnsubscribeLink(h) \/ drop_conn(h)
  PROVE  LinkInv'
<1>1. /\ LinkTypes /\ TableOk /\ \A t \in Tasks : WalkOk(job[t]) /\ SteadyUp(job[t])
      /\ h \in LinkIds /\ Trunk \in LinkIds /\ h # Trunk /\ h # NoLink /\ Handles \subseteq LinkIds
  BY LinkAssumption DEF LinkInv, LinkIds, NoLink
<1>n. \A k \in Handles : k # NoLink
  BY LinkAssumption DEF NoLink
<1>2. conns \in [Handles -> [in_use : BOOLEAN, subscribed : BOOLEAN]]
  BY <1>1 DEF LinkTypes
<1>3. CASE alloc_conn(h)
  <2>1. /\ conns' = [conns EXCEPT ![h] = [in_use |-> TRUE, subscribed |-> FALSE]]
        /\ UNCHANGED <<s_links, dropping, job>> /\ ~ conns[h].subscribed
    <3>1. conns[h] = NoConn
      BY <1>3 DEF alloc_conn
    <3>2. ~ NoConn.subscribed
      BY DEF NoConn
    <3> QED
      BY <1>3, <3>1, <3>2 DEF alloc_conn
  <2>2. LinkTypes'
    BY <1>1, <1>2, <2>1 DEF LinkTypes
  <2>3. \A k \in Handles : /\ conns'[k].subscribed <=> conns[k].subscribed
                           /\ conns[k].in_use => conns'[k].in_use
    BY <1>2, <2>1
  <2>4. \A k \in Handles : Up(k)' <=> Up(k)
    BY <2>1, <2>3 DEF Up
  <2>5. TableOk'
    BY <1>1, <2>1, <2>3, <2>4 DEF TableOk, OneEntry, Registered
  <2>6. ASSUME NEW t \in Tasks PROVE WalkOk(job[t])' /\ SteadyUp(job[t])'
    BY <1>1, <2>1, <2>4 DEF SteadyUp
  <2> QED
    BY <2>2, <2>5, <2>6 DEF LinkInv
<1>4. CASE SubscribeLink(h)
  <2>1. /\ conns' = [conns EXCEPT ![h].subscribed = TRUE] /\ register_locked(h)
        /\ UNCHANGED <<dropping, job>> /\ conns[h].in_use /\ dropping = NoLink
    BY <1>4 DEF SubscribeLink, HostIdle
  <2>2. /\ s_links' \in [LinkSlots -> LinkIds \cup {NoLink}] /\ OneEntry(s_links)'
        /\ \A w \in LinkIds : Registered(w)' <=> Registered(w) \/ w = h
    BY <1>1, <2>1, RegisterKeeps
  <2>3. /\ conns' \in [Handles -> [in_use : BOOLEAN, subscribed : BOOLEAN]]
        /\ conns'[h].subscribed /\ \A k \in Handles : k # h => conns'[k] = conns[k]
        /\ conns'[h].in_use = conns[h].in_use
    BY <1>2, <2>1
  <2>4. LinkTypes'
    BY <1>1, <2>1, <2>2, <2>3 DEF LinkTypes
  <2>5. \A k \in Handles : Up(k)' <=> Up(k) \/ k = h
    BY <1>1, <2>1, <2>3 DEF Up
  <2>6. TableOk'
    BY <1>1, <2>1, <2>2, <2>3, <2>5 DEF TableOk
  <2>7. ASSUME NEW t \in Tasks PROVE WalkOk(job[t])' /\ SteadyUp(job[t])'
    BY <1>1, <2>1, <2>5 DEF SteadyUp
  <2> QED
    BY <2>4, <2>6, <2>7 DEF LinkInv
<1>5. CASE UnsubscribeLink(h) \/ drop_conn(h)
  <2>1. /\ bitle_link_unregister(h) /\ Unsteady(h) /\ dropping = NoLink
        /\ \/ conns' = [conns EXCEPT ![h].subscribed = FALSE] /\ dropping' = dropping
           \/ conns' = conns /\ dropping' = h
    BY <1>5 DEF UnsubscribeLink, drop_conn, HostIdle
  <2>2. /\ s_links' \in [LinkSlots -> LinkIds \cup {NoLink}] /\ OneEntry(s_links)'
        /\ \A w \in LinkIds : Registered(w)' <=> Registered(w) /\ w # h
    BY <1>1, <2>1, UnregisterKeeps
  <2>3. /\ conns' \in [Handles -> [in_use : BOOLEAN, subscribed : BOOLEAN]]
        /\ \A k \in Handles : k # h => conns'[k] = conns[k]
        /\ conns'[h].subscribed => conns[h].subscribed /\ dropping' = h
        /\ conns'[h].in_use = conns[h].in_use
    BY <1>2, <2>1
  <2>4. /\ job' \in [Tasks -> Broadcast]
        /\ \A t \in Tasks : WalkOk(job[t])' /\ job'[t].steady = job[t].steady \ {h}
    BY <2>1, UnsteadyKeeps
  <2>5. LinkTypes'
    BY <1>1, <2>1, <2>2, <2>3, <2>4 DEF LinkTypes
  <2>6. \A k \in Handles : Up(k)' <=> Up(k) /\ k # h
    <3>1. \A k \in Handles : k # h => (Up(k)' <=> Up(k))
      BY <1>n, <2>1, <2>3 DEF Up
    <3>2. ~ Up(h)'
      BY <1>1, <2>1, <2>3 DEF Up
    <3> QED
      BY <3>1, <3>2
  <2>7. TableOk'
    BY <1>1, <2>1, <2>2, <2>3, <2>6 DEF TableOk
  <2>8. ASSUME NEW t \in Tasks PROVE SteadyUp(job[t])'
    BY <1>1, <2>4, <2>6 DEF SteadyUp
  <2> QED
    BY <2>4, <2>5, <2>7, <2>8 DEF LinkInv
<1> QED
  BY <1>3, <1>4, <1>5

\* The second half of drop_conn.
LEMMA ClearStep == ASSUME LinkInv, ClearConn PROVE LinkInv'
<1>1. /\ LinkTypes /\ TableOk /\ \A t \in Tasks : WalkOk(job[t]) /\ SteadyUp(job[t])
      /\ dropping \in Handles /\ NoLink \notin Handles
      /\ conns \in [Handles -> [in_use : BOOLEAN, subscribed : BOOLEAN]]
  BY LinkAssumption DEF LinkInv, LinkTypes, ClearConn, NoLink
<1>2. /\ conns' = [conns EXCEPT ![dropping] = NoConn] /\ dropping' = NoLink
      /\ UNCHANGED <<s_links, job>>
  BY DEF ClearConn
<1>3. /\ conns' \in [Handles -> [in_use : BOOLEAN, subscribed : BOOLEAN]]
      /\ ~ conns'[dropping].subscribed /\ \A k \in Handles : k # dropping => conns'[k] = conns[k]
  BY <1>1, <1>2 DEF NoConn
<1>4. LinkTypes'
  BY <1>1, <1>2, <1>3 DEF LinkTypes
<1>5. \A k \in Handles : Up(k)' <=> Up(k)
  BY <1>1, <1>2, <1>3 DEF Up
<1>6. TableOk'
  BY <1>1, <1>2, <1>3, <1>5 DEF TableOk, OneEntry, Registered
<1>7. ASSUME NEW t \in Tasks PROVE WalkOk(job[t])' /\ SteadyUp(job[t])'
  BY <1>1, <1>2, <1>5 DEF SteadyUp
<1> QED
  BY <1>4, <1>6, <1>7 DEF LinkInv

\* Appending to what was heard.
LEMMA HeardAppends ==
  ASSUME NEW s \in Seq(LinkIds), NEW h \in LinkIds, IsInjective(s), h \notin Range(s)
  PROVE  /\ Append(s, h) \in Seq(LinkIds) /\ IsInjective(Append(s, h))
         /\ Range(Append(s, h)) = Range(s) \cup {h}
<1>1. /\ Append(s, h) \in Seq(LinkIds) /\ Len(Append(s, h)) = Len(s) + 1 /\ Len(s) \in Nat
      /\ DOMAIN s = 1..Len(s) /\ DOMAIN Append(s, h) = 1..(Len(s) + 1)
      /\ \A i \in 1..Len(s) : Append(s, h)[i] = s[i]
      /\ Append(s, h)[Len(s) + 1] = h
  BY SMTT(30)
<1>2. \A i \in 1..(Len(s) + 1) : i \in 1..Len(s) \/ i = Len(s) + 1
  BY <1>1, SMTT(30)
<1>3. 1..Len(s) \subseteq 1..(Len(s) + 1) /\ Len(s) + 1 \in 1..(Len(s) + 1)
  BY <1>1, SMTT(30)
<1>4. \A i \in 1..Len(s) : s[i] # h
  BY <1>1 DEF Range
<1>5. IsInjective(Append(s, h))
  BY <1>1, <1>2, <1>4 DEF IsInjective
<1>6. Range(Append(s, h)) = Range(s) \cup {h}
  BY <1>1, <1>2, <1>3 DEF Range
<1> QED
  BY <1>1, <1>5, <1>6

\* One send of a broadcast.
LEMMA SendKeeps ==
  ASSUME LinkInv, NEW j \in Broadcast, WalkOk(j), SteadyUp(j), ToSend(j) # {}, NEW took \in BOOLEAN
  PROVE  entry_send(j, took) \in Broadcast /\ WalkOk(entry_send(j, took)) /\ SteadyUp(entry_send(j, took))
<1> DEFINE i == NextTarget(j)
           h == j.left[i]
           k == entry_send(j, took)
           rest == [j.left EXCEPT ![i] = NoLink]
           lost == IF h = Trunk \/ ble_link_send_cb(h) THEN {h} ELSE {}
<1>1. i \in LinkSlots /\ h # NoLink
  <2>1. ToSend(j) \subseteq LinkSlots /\ \A x \in ToSend(j) : j.left[x] # NoLink
    BY DEF ToSend, LinkSlots
  <2> QED
    BY <2>1, FirstSlotIs DEF NextTarget
<1>2. /\ j.left \in [LinkSlots -> LinkIds \cup {NoLink}] /\ j.heard \in Seq(LinkIds)
      /\ j.exclude \in LinkIds \cup {NoLink} /\ j.steady \subseteq LinkIds /\ j.open \in BOOLEAN
      /\ h \in LinkIds
  BY <1>1 DEF Broadcast
<1>3. /\ rest \in [LinkSlots -> LinkIds \cup {NoLink}] /\ rest[i] = NoLink
      /\ \A x \in LinkSlots : x # i => rest[x] = j.left[x] /\ j.left[x] # h
  BY <1>1, <1>2 DEF WalkOk, OneEntry
<1>4. h \notin Range(j.heard) /\ h # j.exclude
  BY <1>1 DEF WalkOk
<1>5. OneEntry(rest)
  BY <1>1, <1>3 DEF WalkOk, OneEntry
<1>6. CASE took
  <2>1. k = [j EXCEPT !.left[i] = NoLink, !.heard = Append(@, h)]
    BY <1>6 DEF entry_send
  <2>2. /\ Append(j.heard, h) \in Seq(LinkIds) /\ IsInjective(Append(j.heard, h))
        /\ Range(Append(j.heard, h)) = Range(j.heard) \cup {h}
    BY <1>2, <1>4, HeardAppends DEF WalkOk
  <2> HIDE DEF i, h, k
  <2>3. /\ k \in Broadcast /\ k.left = rest /\ k.heard = Append(j.heard, h) /\ k.exclude = j.exclude
        /\ k.steady = j.steady
    BY <1>2, <1>3, <2>1, <2>2 DEF Broadcast
  <2> HIDE DEF rest
  <2>4. /\ k.exclude \notin Range(k.heard)
        /\ \A x \in LinkSlots : k.left[x] # NoLink => k.left[x] \notin Range(k.heard) /\ k.left[x] # k.exclude
    BY <1>3, <1>4, <2>2, <2>3 DEF WalkOk
  <2>5. ASSUME NEW g \in k.steady PROVE g \in Range(k.heard) \/ \E x \in LinkSlots : k.left[x] = g
    <3>1. g \in Range(j.heard) \/ \E x \in LinkSlots : j.left[x] = g
      BY <2>3 DEF WalkOk
    <3>2. ASSUME NEW x \in LinkSlots, j.left[x] = g, x # i PROVE k.left[x] = g
      BY <1>3, <2>3, <3>2
    <3> QED
      BY <2>2, <2>3, <3>1, <3>2 DEF h
  <2>6. WalkOk(k)
    BY <1>5, <2>2, <2>3, <2>4, <2>5 DEF WalkOk
  <2>7. SteadyUp(k)
    BY <2>3 DEF SteadyUp
  <2> QED
    BY <2>3, <2>6, <2>7 DEF k
<1>7. CASE ~ took
  <2>1. k = [j EXCEPT !.left[i] = NoLink, !.steady = @ \ lost]
    BY <1>7 DEF entry_send
  <2>2. j.steady \ lost \in SUBSET LinkIds
    BY <1>2
  <2>3. h \in j.steady => h \in lost
    <3>1. \A g \in Handles : Up(g) => ble_link_send_cb(g)
      BY DEF LinkInv, TableOk, Up, ble_link_send_cb
    <3> QED
      BY <1>2, <3>1 DEF SteadyUp, LinkIds
  <2> HIDE DEF i, h, k, lost
  <2>4. /\ k \in Broadcast /\ k.left = rest /\ k.heard = j.heard /\ k.exclude = j.exclude
        /\ k.steady = j.steady \ lost
    BY <1>2, <1>3, <2>1, <2>2 DEF Broadcast
  <2> HIDE DEF rest
  <2>5. /\ k.exclude \notin Range(k.heard) /\ IsInjective(k.heard)
        /\ \A x \in LinkSlots : k.left[x] # NoLink => k.left[x] \notin Range(k.heard) /\ k.left[x] # k.exclude
    BY <1>3, <2>4 DEF WalkOk
  <2>6. ASSUME NEW g \in k.steady PROVE g \in Range(k.heard) \/ \E x \in LinkSlots : k.left[x] = g
    <3>1. g \in j.steady /\ g # h
      BY <2>3, <2>4
    <3>2. g \in Range(j.heard) \/ \E x \in LinkSlots : j.left[x] = g
      BY <3>1 DEF WalkOk
    <3> QED
      BY <1>3, <2>4, <3>1, <3>2 DEF h
  <2>7. WalkOk(k)
    BY <1>5, <2>4, <2>5, <2>6 DEF WalkOk
  <2>8. SteadyUp(k)
    BY <2>4 DEF SteadyUp
  <2> QED
    BY <2>4, <2>7, <2>8 DEF k
<1> QED
  BY <1>6, <1>7

\* The empty broadcast.
LEMMA NoBroadcast == NoJob \in Broadcast /\ WalkOk(NoJob) /\ SteadyUp(NoJob)
<1>1. << >> \in Seq(LinkIds) /\ IsInjective(<< >>) /\ Range(<< >>) = {}
  <2>1. << >> \in Seq(LinkIds) /\ DOMAIN << >> = {}
    BY SMTT(30)
  <2> QED
    BY <2>1 DEF IsInjective, Range
<1>2. NoJob \in Broadcast /\ NoJob.steady = {} /\ NoJob.heard = << >>
      /\ \A i \in LinkSlots : NoJob.left[i] = NoLink
  BY <1>1 DEF NoJob, Broadcast, LinkSlots
<1> QED
  BY <1>1, <1>2 DEF WalkOk, OneEntry, SteadyUp

\* The snapshot of a broadcast.
LEMMA SnapshotKeeps ==
  ASSUME LinkInv, NEW x \in LinkIds,
         NEW to, to = [i \in 1..LinkMax |-> IF s_links[i] = x THEN NoLink ELSE s_links[i]],
         NEW j, j = [left |-> to, exclude |-> x, heard |-> << >>, steady |-> Range(to) \ {NoLink}, open |-> TRUE]
  PROVE  j \in Broadcast /\ WalkOk(j) /\ SteadyUp(j)
<1>1. << >> \in Seq(LinkIds) /\ IsInjective(<< >>) /\ Range(<< >>) = {}
  <2>1. << >> \in Seq(LinkIds) /\ DOMAIN << >> = {}
    BY SMTT(30)
  <2> QED
    BY <2>1 DEF IsInjective, Range
<1>2. s_links \in [LinkSlots -> LinkIds \cup {NoLink}] /\ TableOk
  BY DEF LinkInv, LinkTypes
<1>3. to \in [LinkSlots -> LinkIds \cup {NoLink}]
      /\ \A i \in LinkSlots : to[i] = IF s_links[i] = x THEN NoLink ELSE s_links[i]
  BY <1>2 DEF LinkSlots
<1>4. OneEntry(to) /\ \A i \in LinkSlots : to[i] # NoLink => to[i] # x /\ to[i] = s_links[i]
  BY <1>2, <1>3 DEF TableOk, OneEntry
<1>5. \A h \in Range(to) \ {NoLink} : h \in LinkIds /\ \E i \in LinkSlots : to[i] = h
  BY <1>3 DEF Range
<1>6. /\ j \in Broadcast /\ j.left = to /\ j.exclude = x /\ j.heard = << >>
      /\ j.steady = Range(to) \ {NoLink}
  <2>1. Range(to) \ {NoLink} \in SUBSET LinkIds
    BY <1>5
  <2> QED
    BY <1>1, <1>3, <2>1 DEF Broadcast
<1>7. WalkOk(j)
  BY <1>1, <1>4, <1>5, <1>6 DEF WalkOk
<1>8. ASSUME NEW h \in j.steady \cap Handles PROVE Up(h)
  <2>1. PICK i \in LinkSlots : to[i] = h
    BY <1>5, <1>6
  <2>2. s_links[i] = h
    BY <1>4, <1>5, <1>6, <2>1
  <2> QED
    BY <1>2, <2>2 DEF TableOk, Registered
<1> QED
  BY <1>6, <1>7, <1>8 DEF SteadyUp

\* The steps of a broadcast.
LEMMA BroadcastStep ==
  ASSUME LinkInv, NEW t \in Tasks,
         (\E x \in LinkIds : bitle_link_broadcast(t, x)) \/ SendNext(t) \/ EndBroadcast(t)
  PROVE  LinkInv'
<1>1. /\ LinkTypes /\ TableOk /\ \A u \in Tasks : WalkOk(job[u]) /\ SteadyUp(job[u])
      /\ job \in [Tasks -> Broadcast]
  BY DEF LinkInv, LinkTypes
<1>2. UNCHANGED <<s_links, conns, dropping>>
  BY DEF bitle_link_broadcast, SendNext, EndBroadcast
<1>3. \E j \in Broadcast : WalkOk(j) /\ SteadyUp(j) /\ job' = [job EXCEPT ![t] = j]
  <2>1. CASE \E x \in LinkIds : bitle_link_broadcast(t, x)
    BY <2>1, SnapshotKeeps DEF bitle_link_broadcast
  <2>2. CASE SendNext(t)
    <3>1. ToSend(job[t]) # {} /\ \E took \in BOOLEAN : job' = [job EXCEPT ![t] = entry_send(job[t], took)]
      BY <2>2 DEF SendNext
    <3> QED
      BY <1>1, <3>1, SendKeeps
  <2>3. CASE EndBroadcast(t)
    BY <2>3, NoBroadcast DEF EndBroadcast
  <2> QED
    BY <2>1, <2>2, <2>3
<1>4. PICK j \in Broadcast : WalkOk(j) /\ SteadyUp(j) /\ job' = [job EXCEPT ![t] = j]
  BY <1>3
<1>5. job' \in [Tasks -> Broadcast] /\ \A u \in Tasks : job'[u] = IF u = t THEN j ELSE job[u]
  BY <1>1, <1>4
<1>6. LinkTypes'
  BY <1>1, <1>2, <1>5 DEF LinkTypes
<1>7. TableOk'
  BY <1>1, <1>2 DEF TableOk, OneEntry, Registered, Up
<1>8. ASSUME NEW u \in Tasks PROVE WalkOk(job[u])' /\ SteadyUp(job[u])'
  <2>1. WalkOk(job'[u])
    BY <1>1, <1>4, <1>5
  <2>2. \A h \in job'[u].steady \cap Handles : Up(h)
    BY <1>1, <1>4, <1>5 DEF SteadyUp
  <2>3. \A h : Up(h)' <=> Up(h)
    BY <1>2 DEF Up
  <2> QED
    BY <2>1, <2>2, <2>3 DEF SteadyUp
<1> QED
  BY <1>6, <1>7, <1>8 DEF LinkInv

\* The first state: the trunk alone.
LEMMA LinkStarts == LinkInit => LinkInv
<1> SUFFICES ASSUME LinkInit PROVE LinkInv
  OBVIOUS
<1>1. 1 \in LinkSlots
  BY LinkAssumption, FS_CardinalityType, SMTT(30) DEF LinkSlots
<1>2. /\ s_links \in [LinkSlots -> LinkIds \cup {NoLink}] /\ s_links[1] = Trunk
      /\ \A i \in LinkSlots : i # 1 => s_links[i] = NoLink
  BY <1>1 DEF LinkInit, LinkSlots, LinkIds
<1>3. conns = [h \in Handles |-> NoConn] /\ dropping = NoLink /\ job = [t \in Tasks |-> NoJob]
  BY DEF LinkInit
<1>4. NoConn \in [in_use : BOOLEAN, subscribed : BOOLEAN] /\ ~ NoConn.subscribed
  BY DEF NoConn
<1>5. LinkTypes
  BY <1>2, <1>3, <1>4, NoBroadcast DEF LinkTypes
<1>6. TableOk
  <2>1. \A h \in Handles : ~ Registered(h) /\ ~ conns[h].subscribed
    BY <1>2, <1>3, <1>4, LinkAssumption DEF Registered, NoLink
  <2> QED
    BY <1>1, <1>2, <2>1 DEF TableOk, OneEntry, Registered, Up
<1>7. ASSUME NEW t \in Tasks PROVE WalkOk(job[t]) /\ SteadyUp(job[t])
  BY <1>3, NoBroadcast
<1> QED
  BY <1>5, <1>6, <1>7 DEF LinkInv

\* bitle_link.c and bitchat_ble.c, for any number of connections that come, go
\* and are used again, while two tasks broadcast: the table has exactly one entry
\* for every link that is up and never turns one away, and a broadcast reaches
\* every link that is up throughout, once, and never the one it came from.
THEOREM LinksAreSound == LinkInit /\ [][LinkNext]_linkVars => []LinksSound
<1>1. ASSUME LinkInv, [LinkNext]_linkVars PROVE LinkInv'
  <2>1. CASE \E h \in Handles : alloc_conn(h) \/ SubscribeLink(h) \/ UnsubscribeLink(h) \/ drop_conn(h)
    BY <1>1, <2>1, HostStep
  <2>2. CASE ClearConn
    BY <1>1, <2>2, ClearStep
  <2>3. CASE \E t \in Tasks : \/ \E x \in Handles \cup {Trunk} : bitle_link_broadcast(t, x)
                              \/ SendNext(t) \/ EndBroadcast(t)
    BY <1>1, <2>3, BroadcastStep DEF LinkIds
  <2>4. CASE UNCHANGED linkVars
    <3>1. s_links' = s_links /\ conns' = conns /\ dropping' = dropping /\ job' = job
      BY <2>4 DEF linkVars
    <3> QED
      BY <1>1, <3>1 DEF LinkInv, LinkTypes, TableOk, OneEntry, Registered, Up, SteadyUp
  <2> QED
    BY <1>1, <2>1, <2>2, <2>3, <2>4 DEF LinkNext
<1>2. LinkInv => LinksSound
  <2> SUFFICES ASSUME LinkInv PROVE LinksSound
    OBVIOUS
  <2>1. TableOk /\ \A t \in Tasks : WalkOk(job[t])
    BY DEF LinkInv
  <2>2. TableTracksLinks
    BY <2>1, SlotFound DEF TableTracksLinks, TableOk, OneEntry, Up, LinkSlots
  <2>3. ASSUME NEW t \in Tasks, ToSend(job[t]) = {} PROVE job[t].steady \subseteq Range(job[t].heard)
    <3>1. \A i \in LinkSlots : job[t].left[i] = NoLink
      BY <2>3 DEF ToSend, LinkSlots
    <3>2. NoLink \notin job[t].steady
      BY LinkAssumption DEF LinkInv, LinkTypes, Broadcast, LinkIds, NoLink
    <3>3. \A h \in job[t].steady : h \in Range(job[t].heard) \/ \E i \in LinkSlots : job[t].left[i] = h
      BY <2>1 DEF WalkOk
    <3> QED
      BY <3>1, <3>2, <3>3
  <2>4. BroadcastReaches
    BY <2>1, <2>3 DEF BroadcastReaches, WalkOk
  <2> QED
    BY <2>2, <2>4 DEF LinksSound
<1> QED
  BY <1>1, <1>2, LinkStarts, PTL
=============================================================================
