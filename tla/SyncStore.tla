----------------------------- MODULE SyncStore ------------------------------
(***************************************************************************)
(* The store of public packets of the gossip sync (src/main/bitle_sync.c): *)
(* a fixed table of slots shared by announces, messages and prekey         *)
(* bundles, with quotas per class, replacement per owner and eviction of   *)
(* expired packets first and then of the oldest received of the class.     *)
(*                                                                         *)
(* A store is a record: slots, a packet or Free in each, and order, the    *)
(* used slots from the oldest received to the newest (ingest_seq).  A      *)
(* packet is a record id, type, owner, ts and fit, which is FALSE of one   *)
(* that is unsigned, too long, malformed or dated in the future.           *)
(***************************************************************************)
EXTENDS Naturals, Sequences, FiniteSets

CONSTANTS NSlots,    \* BITLE_SYNC_SLOTS
          Quota,     \* of each class, BITLE_SYNC_QUOTA_*
          Packets,   \* the packets that exist
          Free       \* a slot not in use

Types == {"announce", "capability", "message", "prekey"}

is_announce_type(type) == type \in {"announce", "capability"}

Class(type) ==
  IF is_announce_type(type) THEN "announce" ELSE type

\* Types of which one packet per owner is kept, the newest.
Owned(type) == is_announce_type(type) \/ type = "prekey"

Slots == 1..NSlots

EmptyStore == [slots |-> [i \in Slots |-> Free], order |-> <<>>]

Stored(st) == {st.slots[i] : i \in {j \in Slots : st.slots[j] # Free}}

slot_fresh(p, expired) == p.id \notin expired

type_count(st, class) ==
  Cardinality({i \in Slots : st.slots[i] # Free /\ Class(st.slots[i].type) = class})

FirstOf(S) == CHOOSE i \in S : \A j \in S : i <= j

\* The position of a slot in the order of reception.
Rank(st, i) == CHOOSE k \in 1..Len(st.order) : st.order[k] = i

\* For eviction an announce and a capability are classes of their own.
SameClass(t, u) ==
  t = u \/ (~Owned(t) /\ ~Owned(u))

\* The mutated form takes the oldest of any class.
evict_forMutant(st, type, expired) ==
  LET idle == {i \in Slots : st.slots[i] = Free}
  IN  IF idle # {} THEN FirstOf(idle)
      ELSE CHOOSE i \in Slots : \A j \in Slots : Rank(st, i) <= Rank(st, j)

\* The first slot that is free or expired, else the oldest of the class;
\* 0 if there is none.
evict_for(st, type, expired) ==
  LET idle == {i \in Slots : st.slots[i] = Free \/ ~slot_fresh(st.slots[i], expired)}
      mates == {i \in Slots : st.slots[i] # Free /\ SameClass(st.slots[i].type, type)}
  IN  IF idle # {} THEN FirstOf(idle)
      ELSE IF mates = {} THEN 0
      ELSE CHOOSE i \in mates : \A j \in mates : Rank(st, i) <= Rank(st, j)

\* The slot for a packet that replaces none.
SlotFor(st, p, expired) ==
  LET free == {i \in Slots : st.slots[i] = Free}
  IN  IF type_count(st, Class(p.type)) >= Quota[Class(p.type)] \/ free = {}
        THEN evict_for(st, p.type, expired)
        ELSE FirstOf(free)

Put(st, i, p) ==
  [slots |-> [st.slots EXCEPT ![i] = p],
   order |-> Append(SelectSeq(st.order, LAMBDA j : j # i), i)]

\* The store after a packet was offered to it.
bitle_sync_ingest(st, p, expired) ==
  LET own == {i \in Slots : /\ st.slots[i] # Free /\ Owned(p.type)
                            /\ st.slots[i].type = p.type /\ st.slots[i].owner = p.owner}
      i == IF own # {} THEN CHOOSE j \in own : \A k \in own : j >= k
           ELSE SlotFor(st, p, expired)
  IN  IF \/ ~p.fit \/ ~slot_fresh(p, expired)
         \/ \E q \in Stored(st) : q.id = p.id
         \/ \E j \in own : p.ts <= st.slots[j].ts
         \/ i = 0
        THEN st
        ELSE Put(st, i, p)
=============================================================================
