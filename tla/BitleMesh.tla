------------------------------ MODULE BitleMesh ------------------------------
(***************************************************************************)
(* A mesh of Bitles and phones: duplicate suppression, local dispatch and  *)
(* relay of main/bitle_mesh.c over the links of main/bitle_link.c.         *)
(*                                                                         *)
(* A link is a BLE connection of two members or a LoRa trunk that all of   *)
(* its members hear.  bitle_mesh_inbound runs under the mesh lock, so a    *)
(* node handles one packet at a time, whichever task it came from.         *)
(***************************************************************************)
EXTENDS Integers, Sequences, FiniteSets, Functions

CONSTANTS
  Bitles, Phones,    (* the nodes                                          *)
  Links, Members,    (* the links, and the nodes on each                   *)
  Packets,           (* packets, as their TTL-blind fingerprints see them  *)
  Origin, Dest,      (* sender and recipient of each packet                *)
  Type,              (* what decides dispatch and relay, see PacketTypes   *)
  Everyone,          (* the broadcast recipient                            *)
  OriginTTL,         (* the TTL packets start with                         *)
  RingSize,          (* RELAY_CACHE_SIZE                                   *)
  MaxUpsets          (* bound on lost copies and sync replays together     *)

Nodes == Bitles \cup Phones
PacketTypes == {"public", "message", "handshake", "request_sync", "opaque"}

ASSUME MeshAssumption ==
  /\ Members \in [Links -> SUBSET Nodes] /\ Bitles \cap Phones = {}
  /\ Origin \in [Packets -> Nodes] /\ Dest \in [Packets -> Nodes \cup {Everyone}]
  /\ Type \in [Packets -> PacketTypes]
  /\ Everyone \notin Nodes /\ OriginTTL \in Nat /\ RingSize \in Nat \ {0}

VARIABLES
  net,               (* copies in flight                                   *)
  sent,              (* packets originated so far                          *)
  seen,              (* s_relay_seen of each Bitle, oldest first           *)
  processed,         (* history: a Bitle acted on a packet 0, 1, 2+ times  *)
  echoed,            (* packets each phone has handled                     *)
  lost, replays      (* bounded counters                                   *)

meshVars == <<net, sent, seen, processed, echoed, lost, replays>>

Copy == [pkt : Packets, ttl : 0 .. OriginTTL, to : Nodes, link : Links]
LinksOf(n) == {l \in Links : n \in Members[l]}

\* bitle_link_broadcast(): every link of n except the one excluded.
Broadcast(n, except, p, ttl) ==
  {[pkt |-> p, ttl |-> ttl, to |-> lm[2], link |-> lm[1]] :
     lm \in {x \in (LinksOf(n) \ except) \X Nodes : x[2] \in Members[x[1]] \ {n}}}

MeshInit ==
  /\ net = {} /\ sent = {} /\ lost = 0 /\ replays = 0
  /\ seen = [n \in Bitles |-> <<>>]
  /\ processed = [n \in Bitles |-> [p \in Packets |-> 0]]
  /\ echoed = [n \in Phones |-> {}]
-----------------------------------------------------------------------------
\* A node sends a packet of its own on all of its links.
Originate(p) ==
  /\ p \notin sent /\ sent' = sent \cup {p}
  /\ net' = net \cup Broadcast(Origin[p], {}, p, OriginTTL)
  /\ UNCHANGED <<seen, processed, echoed, lost, replays>>

\* relay_seen_before(), and its effect when it answers no.
SeenBefore(n, p) == p \in Range(seen[n])
Remember(ring, p) ==
  LET all == Append(ring, p) IN IF Len(all) > RingSize THEN Tail(all) ELSE all

\* dispatch_packet(): a packet is acted upon if it is for this node or for all.
ForMe(n, p) == Type[p] # "opaque" /\ Dest[p] \in {n, Everyone}

TtlSpent(ttl) == ttl <= 1
NextTtl(ttl) == ttl - 1

LinkLocal(p) == Type[p] = "request_sync" \/ (Type[p] = "handshake" /\ Dest[p] = Everyone)

\* Mutant: what was for this node is not relayed, broadcasts included.
RelaysMutant(n, p, ttl) ==
  ~ TtlSpent(ttl) /\ Origin[p] # n /\ ~ LinkLocal(p) /\ Dest[p] \notin {n, Everyone}
\* relay_packet()
Relays(n, p, ttl) ==
  /\ ~ TtlSpent(ttl) /\ Origin[p] # n /\ ~ LinkLocal(p) /\ Dest[p] # n

More(count) == IF count < 2 THEN count + 1 ELSE count

\* Mutant: what was relayed is remembered, what was only processed is not.
InboundMutant(m) ==
  LET n == m.to IN
  /\ n \in Bitles /\ m \in net
  /\ IF SeenBefore(n, m.pkt)
     THEN net' = net \ {m} /\ UNCHANGED <<seen, processed>>
     ELSE /\ seen' = IF Relays(n, m.pkt, m.ttl)
                     THEN [seen EXCEPT ![n] = Remember(@, m.pkt)] ELSE seen
          /\ processed' = IF ForMe(n, m.pkt) THEN [processed EXCEPT ![n][m.pkt] = More(@)]
                                             ELSE processed
          /\ net' = (net \ {m}) \cup
                      (IF Relays(n, m.pkt, m.ttl)
                       THEN Broadcast(n, {m.link}, m.pkt, NextTtl(m.ttl)) ELSE {})
  /\ UNCHANGED <<sent, echoed, lost, replays>>
\* bitle_mesh_inbound(): a duplicate is dropped; anything else is remembered,
\* acted upon and relayed.
Inbound(m) ==
  LET n == m.to IN
  /\ n \in Bitles /\ m \in net
  /\ IF SeenBefore(n, m.pkt)
     THEN net' = net \ {m} /\ UNCHANGED <<seen, processed>>
     ELSE /\ seen' = [seen EXCEPT ![n] = Remember(@, m.pkt)]
          /\ processed' = IF ForMe(n, m.pkt) THEN [processed EXCEPT ![n][m.pkt] = More(@)]
                                             ELSE processed
          /\ net' = (net \ {m}) \cup
                      (IF Relays(n, m.pkt, m.ttl)
                       THEN Broadcast(n, {m.link}, m.pkt, NextTtl(m.ttl)) ELSE {})
  /\ UNCHANGED <<sent, echoed, lost, replays>>

\* A phone handles a packet once and may echo it on any of its links, the one
\* it came from included.
PhoneInbound(m) ==
  /\ m.to \in Phones /\ m \in net
  /\ echoed' = [echoed EXCEPT ![m.to] = @ \cup {m.pkt}]
  /\ \/ net' = net \ {m}
     \/ /\ m.pkt \notin echoed[m.to] /\ m.ttl > 1 /\ m.to \notin {Origin[m.pkt], Dest[m.pkt]}
        /\ ~ LinkLocal(m.pkt)
        /\ net' = (net \ {m}) \cup Broadcast(m.to, {}, m.pkt, m.ttl - 1)
  /\ UNCHANGED <<sent, seen, processed, lost, replays>>

\* bitle_sync_handle_request(): a public packet is replayed on one link with
\* TTL 0; the mark it carries is left out of the fingerprint.
Replay(n, p, l) ==
  /\ lost + replays < MaxUpsets /\ replays' = replays + 1
  /\ Type[p] = "public" /\ processed[n][p] > 0 /\ l \in LinksOf(n)
  /\ net' = net \cup Broadcast(n, Links \ {l}, p, 0)
  /\ UNCHANGED <<sent, seen, processed, echoed, lost>>

\* A copy is lost on the air, or the transport refused it.
Lose(m) ==
  /\ m \in net /\ lost + replays < MaxUpsets /\ lost' = lost + 1
  /\ net' = net \ {m}
  /\ UNCHANGED <<sent, seen, processed, echoed, replays>>

Receive == \E m \in net : Inbound(m) \/ PhoneInbound(m)

MeshNext ==
  \/ \E p \in Packets : Originate(p)
  \/ Receive
  \/ \E n \in Bitles, p \in Packets, l \in Links : Replay(n, p, l)
  \/ \E m \in net : Lose(m)

MeshSpec == MeshInit /\ [][MeshNext]_meshVars

\* The tasks that receive keep running.
FairMeshSpec == MeshSpec /\ WF_meshVars(Receive)
-----------------------------------------------------------------------------
(* Properties.                                                             *)

\* The types of the state; the ring never outgrows its size.
MeshTypeOK ==
  /\ net \subseteq Copy /\ sent \subseteq Packets
  /\ \A n \in Bitles : seen[n] \in Seq(Packets) /\ Len(seen[n]) <= RingSize
  /\ processed \in [Bitles -> [Packets -> 0 .. 2]]
  /\ echoed \in [Phones -> SUBSET Packets]

\* "Process each unique packet exactly once, no matter how many paths deliver
\* it": over any topology, with echoes, losses and sync replays, a Bitle acts
\* at most once on a packet, while the ring holds all packets sent so far.
ProcessedOnce ==
  Cardinality(sent) <= RingSize =>
    \A n \in Bitles, p \in Packets : processed[n][p] <= 1

\* What is relayed and what is acted upon: a packet for one node is acted upon
\* there only and goes no further, link-local packets stay with the neighbours
\* of their sender, and a Bitle's own packets are not relayed by it.
Adjacent(a, b) == \E l \in Links : {a, b} \subseteq Members[l]
StaysInBounds ==
  /\ \A n \in Bitles, p \in Packets : processed[n][p] > 0 =>
       /\ Dest[p] \in {n, Everyone}
       /\ LinkLocal(p) => Adjacent(n, Origin[p])
  /\ \A m \in net : m.ttl < OriginTTL /\ m.ttl > 0 =>
       /\ ~ LinkLocal(m.pkt)
       /\ \E n \in Nodes \ {Dest[m.pkt], m.to} :
            (n \in Bitles => n # Origin[m.pkt]) /\ n \in Members[m.link]

\* TTLs run out: whatever was sent and however often it is echoed, also when
\* the ring has forgotten it, the mesh falls silent.
Quiesces == <>[](net = {})

\* A public packet reaches every Bitle of a connected mesh whose longest path
\* the TTL covers, however its copies race each other, unless one is lost, a
\* sync replay overtakes it or the ring forgets.
Undisturbed == lost = 0 /\ replays = 0 /\ Cardinality(sent) <= RingSize
Flooded == {p \in Packets : Type[p] = "public" /\ Dest[p] = Everyone}
FloodReaches ==
  \A p \in Flooded : \A n \in Bitles \ {Origin[p]} :
    p \in sent ~> (processed[n][p] > 0 \/ ~ Undisturbed)

\* Each Bitle acts on each packet once, and only where it should.
ActsOnce == MeshTypeOK /\ ProcessedOnce /\ StaysInBounds

\* bitle_mesh_inbound's flood covers the mesh, and ends.
FloodsEnd == FloodReaches /\ Quiesces
=============================================================================
