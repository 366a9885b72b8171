---------------------------- MODULE BitleFragments ----------------------------
(***************************************************************************)
(* Reassembly of fragmented packets: handle_fragment of main/bitle_mesh.c. *)
(* A stream is one packet as one node cut it; its fragments come in any    *)
(* order.  The duplicate check in front of them, and the one of the packet *)
(* put together, share one ring of fingerprints with all other traffic:    *)
(* what it has forgotten is processed again.                               *)
(***************************************************************************)
EXTENDS Integers, Functions

CONSTANTS
  Streams,           (* fragmented packets on their way to this node       *)
  Key,               (* fragment ID and sender of each stream              *)
  Inner,             (* the packet it carries                              *)
  Total,             (* its number of fragments                            *)
  MaxParts,          (* FRAG_MAX_PARTS                                     *)
  FragSlots,         (* FRAG_SLOTS                                         *)
  Timeout,           (* FRAG_TIMEOUT_MS                                    *)
  NoKey,             (* the key of a slot never used                       *)
  RingSize,          (* RELAY_CACHE_SIZE                                   *)
  Other,             (* the fingerprint of a packet that never comes again *)
  MaxNow,            (* bound: the clock                                   *)
  FragScenes         (* bound: the fragments on their way, and how many    *)
                     (* repeated fragments and other packets come          *)

ASSUME FragAssumption ==
  /\ Total \in [Streams -> Nat \ {0}] /\ DOMAIN Key = Streams /\ DOMAIN Inner = Streams
  /\ FragSlots \in Nat \ {0} /\ NoKey \notin Range(Key)
  /\ MaxParts \in Nat /\ Timeout \in Nat /\ MaxNow \in Nat
  /\ RingSize \in Nat \ {0} /\ Other \notin Range(Inner)

VARIABLES
  now,
  slots,             (* s_frag_slots                                       *)
  seen,              (* s_relay_seen, the latest fingerprint first         *)
  built,             (* history: what was reassembled, as sets of chunks   *)
  age,               (* history: fingerprints recorded since a packet was  *)
                     (* dispatched, up to RingSize                         *)
  again,             (* history: packets dispatched at an age below it     *)
  got, first, last,  (* history: fragments arrived, first and last time    *)
  way, extra,        (* the fragments of the scene, and what else may come *)
  done,              (* history: streams put together, no fragment since   *)
  crowded            (* history: streams that met more rivals than slots   *)

arrivals == <<got, first, last, crowded>>
ring == <<seen, age, again>>
vars == <<now, slots, seen, built, age, again, got, first, last, done, crowded, way, extra>>

Slot == 1 .. FragSlots
Packet == Range(Inner)
\* A chunk is its index and the stream it belongs to.
Whole(s) == {<<i, s>> : i \in 0 .. Total[s] - 1}
Blank == [used |-> FALSE, key |-> NoKey, total |-> 0, start |-> 0, parts |-> {}]

Init ==
  /\ \E c \in FragScenes : way = c.way /\ extra = c.extra
  /\ now = 0 /\ slots = [i \in Slot |-> Blank]
  /\ seen = [j \in 1 .. RingSize |-> Other] /\ age = [p \in Packet |-> RingSize] /\ again = {}
  /\ built = {} /\ done = {} /\ crowded = {} /\ got = [s \in Streams |-> {}]
  /\ first = [s \in Streams |-> 0] /\ last = [s \in Streams |-> 0]

Tick ==
  /\ now < MaxNow /\ now' = now + 1
  /\ UNCHANGED <<slots, ring, built, done, arrivals, way, extra>>
-----------------------------------------------------------------------------
(* relay_seen_before(): a fingerprint it does not find displaces the oldest. *)

Duplicate(fps, fp) == \E j \in 1 .. RingSize : fps[j] = fp
Record(fps, fp) == [j \in 1 .. RingSize |-> IF j = 1 THEN fp ELSE fps[j - 1]]

Older(ages) == [p \in Packet |-> IF ages[p] < RingSize THEN ages[p] + 1 ELSE RingSize]
\* A packet is dispatched, and its fingerprint recorded.
Dispatched(ages, p) ==
  /\ age' = [Older(ages) EXCEPT ![p] = 0]
  /\ again' = IF ages[p] < RingSize THEN again \cup {p} ELSE again

\* bitle_mesh_inbound() of a packet that came in one piece.
Inbound(p) ==
  /\ p # Other => ~ Duplicate(seen, p)
  /\ extra > 0 /\ extra' = extra - 1
  /\ seen' = Record(seen, p)
  /\ IF p = Other THEN age' = Older(age) /\ UNCHANGED again ELSE Dispatched(age, p)
  /\ UNCHANGED <<now, slots, built, done, arrivals, way>>
-----------------------------------------------------------------------------
\* Mutant: a slot is given up on its last millisecond.
LiveMutant(i) == slots[i].used /\ now - slots[i].start < Timeout
\* The search releases the slots that timed out.
Live(i) == slots[i].used /\ now - slots[i].start <= Timeout

Matches(s) == {i \in Slot : Live(i) /\ slots[i].key = Key[s]}
Free == {i \in Slot : ~ Live(i)}
Oldest == {i \in Slot : \A j \in Slot : slots[i].start <= slots[j].start}
FirstOf(S) == CHOOSE i \in S : \A j \in S : i <= j

\* The slot a fragment goes to: its own, else a free one, else the oldest.
Target(s) == FirstOf(IF Matches(s) # {} THEN Matches(s)
                     ELSE IF Free # {} THEN Free ELSE Oldest)

Opened(i, s) ==
  [used |-> TRUE, key |-> Key[s], total |-> Total[s], start |-> now, parts |-> {}]
Holder(s) == IF Matches(s) # {} THEN slots[Target(s)] ELSE Opened(Target(s), s)
Released == [i \in Slot |-> [slots[i] EXCEPT !.used = Live(i)]]

With(h, s, i) == [h EXCEPT !.parts = {c \in @ : c[1] # i} \cup {<<i, s>>}]
Complete(h) == \A i \in 0 .. h.total - 1 : \E c \in h.parts : c[1] = i

\* What the packet put together comes to: one seen before is dropped, a new
\* one dispatched.  Chunks of different packets may not decode, or decode to
\* a packet that nobody sent.
Deliver(h, s, fps) ==
  \/ /\ h.parts = Whole(s) /\ ~ Duplicate(fps, Inner[s])
     /\ seen' = Record(fps, Inner[s]) /\ Dispatched(Older(age), Inner[s])
  \/ /\ h.parts = Whole(s) => Duplicate(fps, Inner[s])
     /\ seen' = fps /\ age' = Older(age) /\ UNCHANGED again
  \/ /\ h.parts # Whole(s)
     /\ seen' = Record(fps, Other) /\ age' = Older(Older(age)) /\ UNCHANGED again

\* Streams that may have a slot once a fragment of s is here.
Pending(s) == {t \in Streams : /\ t = s \/ (got[t] # {} /\ now - last[t] <= Timeout /\ t \notin done)
                               /\ Total[t] <= MaxParts}
MoreThan(n, S) == \E f \in [0 .. n -> S] : \A i, j \in 0 .. n : i # j => f[i] # f[j]

\* bitle_mesh_inbound() of a fragment, and handle_fragment().
Fragment(s, i) ==
  LET h == Holder(s)
      w == With(h, s, i)
      fps == Record(seen, <<i, s>>)
      took == Total[s] <= MaxParts
      whole == took /\ h.total = Total[s] /\ Complete(w)
  IN
  /\ i \in 0 .. Total[s] - 1 /\ ~ Duplicate(seen, <<i, s>>)
  /\ extra' = IF i \in got[s] THEN extra - 1 ELSE extra
  /\ got' = [got EXCEPT ![s] = @ \cup {i}]
  /\ first' = IF got[s] = {} /\ took THEN [first EXCEPT ![s] = now] ELSE first
  /\ last' = IF took THEN [last EXCEPT ![s] = now] ELSE last
  /\ crowded' = IF MoreThan(FragSlots, Pending(s)) THEN crowded \cup Pending(s) ELSE crowded
  /\ done' = IF whole /\ w.parts = Whole(s) THEN done \cup {s} ELSE done \ {s}
  /\ built' = IF whole THEN built \cup {w.parts} ELSE built
  /\ slots' = IF ~ took THEN slots
              ELSE IF h.total # Total[s] THEN Released
              ELSE [Released EXCEPT ![Target(s)] = [w EXCEPT !.used = ~ whole]]
  /\ \/ whole /\ Deliver(w, s, fps)
     \/ ~ whole /\ seen' = fps /\ age' = Older(age) /\ UNCHANGED again
  /\ UNCHANGED <<now, way>>

\* Bound: a fragment that is repeated counts.
Comes(s, i) == <<i, s>> \in way /\ (i \in got[s] => extra > 0)

Next ==
  \/ Tick
  \/ \E s \in Streams : \E i \in 0 .. Total[s] - 1 : Comes(s, i) /\ Fragment(s, i)
  \/ \E p \in Packet \cup {Other} : Inbound(p)

Spec == Init /\ [][Next]_vars
-----------------------------------------------------------------------------
(* Properties.                                                             *)

\* The types of the state.
TypeOK ==
  /\ now \in 0 .. MaxNow /\ age \in [Packet -> 0 .. RingSize]
  /\ \A i \in Slot : /\ slots[i].key \in Range(Key) \cup {NoKey}
                     /\ slots[i].total \in 0 .. MaxParts /\ slots[i].start \in 0 .. now
                     /\ slots[i].parts \subseteq (0 .. MaxParts - 1) \X Streams

\* Streams that handle_fragment cannot tell from s.
Alike(s) == {t \in Streams : Key[t] = Key[s] /\ Total[t] = Total[s]}

\* Whatever streams share the slots, and however often fragments are repeated,
\* a packet is put together from one chunk of each index, all of one fragment
\* ID, sender and count: from one stream, whole, when no other has these three
\* (handle_fragment keeps nothing else to tell streams apart by).
BuiltWhole ==
  \A b \in built : \E s \in Streams :
    \E f \in [0 .. Total[s] - 1 -> Alike(s)] : b = {<<i, f[i]>> : i \in 0 .. Total[s] - 1}

\* "this is where a duplicate handshake sneaks back in": a packet, in one piece
\* or cut differently by two relayers, is dispatched a second time only when
\* the ring has taken RELAY_CACHE_SIZE other fingerprints since the first.
DispatchedOnce == again = {}

\* A stream all of whose fragments arrive within the timeout is put together,
\* unless more streams than slots were in progress at once, or another stream
\* used its fragment ID.
Reassembles ==
  \A s \in Streams :
    /\ got[s] = 0 .. Total[s] - 1 /\ last[s] - first[s] <= Timeout
    /\ s \notin crowded /\ Total[s] <= MaxParts
    /\ \A t \in Streams \ {s} : Key[t] = Key[s] => got[t] = {}
    => Whole(s) \in built

\* handle_fragment puts a packet together whole, dispatches it once while the
\* ring remembers it, and misses none whose parts came in time while the slots
\* sufficed.
ReassemblySound == TypeOK /\ BuiltWhole /\ DispatchedOnce /\ Reassembles
=============================================================================
