------------------------------ MODULE LinkTable ------------------------------
(***************************************************************************)
(* The registry of links (src/main/bitle_link.c) between the tasks that    *)
(* use it: the BLE host task brings connections up and down                *)
(* (src/main/bitchat_ble.c), and the mesh broadcasts on the host task and  *)
(* on the LoRa task, over a snapshot that it walks without the lock.       *)
(* Connection handles are used again; the trunk's link is there from the   *)
(* start.                                                                  *)
(***************************************************************************)
EXTENDS Naturals, Sequences, FiniteSets, Functions

CONSTANTS Handles,       \* BLE connection handles
          Trunk,         \* BITLE_LORA_LINK_HANDLE
          LinkMax        \* BITLE_LINK_MAX

\* No connection has the trunk's handle or the mark of a free slot, and there is a
\* slot for every connection and for the trunk (BITLE_LINK_MAX is 8, the host
\* holds CONFIG_BT_NIMBLE_MAX_CONNECTIONS, 6).
ASSUME LinkAssumption ==
  /\ IsFiniteSet(Handles) /\ 0 \notin Handles
  /\ Trunk \notin Handles /\ Trunk # 0
  /\ LinkMax \in Nat /\ LinkMax > Cardinality(Handles)

VARIABLES s_links,       \* the table: a handle or NoLink in every slot
          conns,         \* s_connections: [in_use, subscribed] of a handle
          dropping,      \* handle drop_conn has unregistered, not yet cleared
          job            \* per task, the broadcast it is in
linkVars == <<s_links, conns, dropping, job>>

NoLink == 0
Tasks == {"host", "lora"}
NoConn == [in_use |-> FALSE, subscribed |-> FALSE]
NoJob == [left |-> [i \in 1..LinkMax |-> NoLink], exclude |-> NoLink, heard |-> <<>>,
          steady |-> {}, open |-> FALSE]

LinkInit ==
  /\ s_links = [i \in 1..LinkMax |-> IF i = 1 THEN Trunk ELSE NoLink]
  /\ conns = [h \in Handles |-> NoConn]
  /\ dropping = NoLink
  /\ job = [t \in Tasks |-> NoJob]

\* The first of some slots, or 0.
FirstSlotOf(at) == IF at = {} THEN 0 ELSE CHOOSE i \in at : \A j \in at : i <= j
\* The first slot that holds what is looked for, or 0.
SlotOf(what) == FirstSlotOf({i \in 1..LinkMax : s_links[i] = what})

\* A link that comes or goes is not there throughout a broadcast.
Unsteady(h) == job' = [t \in Tasks |-> [job[t] EXCEPT !.steady = @ \ {h}]]

\* The entry of the handle is used again, else a free one is taken; a full
\* table takes no link.
register_locked(h) ==
  LET e == IF SlotOf(h) # 0 THEN SlotOf(h) ELSE SlotOf(NoLink)
  IN  s_links' = IF e = 0 THEN s_links ELSE [s_links EXCEPT ![e] = h]

bitle_link_unregister(h) ==
  s_links' = IF SlotOf(h) = 0 THEN s_links ELSE [s_links EXCEPT ![SlotOf(h)] = NoLink]

---------------------------------------------------------------------------
\* The host task.  It does one thing at a time.
HostIdle == dropping = NoLink /\ ~job["host"].open

alloc_conn(h) ==
  /\ HostIdle /\ conns[h] = NoConn
  /\ conns' = [conns EXCEPT ![h] = [in_use |-> TRUE, subscribed |-> FALSE]]
  /\ UNCHANGED <<s_links, dropping, job>>

\* BLE_GAP_EVENT_SUBSCRIBE, and discovery that has found the peer's
\* characteristic a second time.
SubscribeLink(h) ==
  /\ HostIdle /\ conns[h].in_use
  /\ conns' = [conns EXCEPT ![h].subscribed = TRUE]
  /\ register_locked(h)
  /\ UNCHANGED <<dropping, job>>

\* A snapshot taken between the two writes holds a link that refuses, as
\* one taken before the event does.
UnsubscribeLink(h) ==
  /\ HostIdle /\ conns[h].subscribed
  /\ conns' = [conns EXCEPT ![h].subscribed = FALSE]
  /\ bitle_link_unregister(h)
  /\ Unsteady(h)
  /\ UNCHANGED <<dropping>>

\* drop_conn in its two steps, each under its own lock.
drop_conn(h) ==
  /\ HostIdle /\ conns[h].in_use
  /\ bitle_link_unregister(h)
  /\ dropping' = h
  /\ Unsteady(h)
  /\ UNCHANGED <<conns>>

ClearConn ==
  /\ dropping # NoLink
  /\ conns' = [conns EXCEPT ![dropping] = NoConn]
  /\ dropping' = NoLink
  /\ UNCHANGED <<s_links, job>>

---------------------------------------------------------------------------
\* bitle_link_broadcast: the snapshot, then one send after the other, in the
\* order of the table.
bitle_link_broadcast(t, exclude) ==
  /\ job[t] = NoJob /\ (t = "host" => dropping = NoLink)
  /\ LET to == [i \in 1..LinkMax |-> IF s_links[i] = exclude THEN NoLink ELSE s_links[i]]
     IN  job' = [job EXCEPT ![t] = [left |-> to, exclude |-> exclude, heard |-> <<>>,
                                    steady |-> Range(to) \ {NoLink}, open |-> TRUE]]
  /\ UNCHANGED <<s_links, conns, dropping>>

\* A connection that is gone, or not subscribed, takes nothing; nor does
\* a stack that has no buffer.
ble_link_send_cb(h) == conns[h].in_use /\ conns[h].subscribed

\* The slots of the snapshot still to be sent on.
ToSend(j) == {i \in 1..LinkMax : j.left[i] # NoLink}
NextTarget(j) == FirstSlotOf(ToSend(j))

\* Mutant: a failed send ends the walk.
entry_sendMutant(j, took) ==
  IF took THEN [j EXCEPT !.left[NextTarget(j)] = NoLink, !.heard = Append(@, j.left[NextTarget(j)])]
  ELSE [j EXCEPT !.left = NoJob.left]

\* A failed send does not end the walk.
entry_send(j, took) ==
  LET h == j.left[NextTarget(j)]
  IN  IF took THEN [j EXCEPT !.left[NextTarget(j)] = NoLink, !.heard = Append(@, h)]
      ELSE [j EXCEPT !.left[NextTarget(j)] = NoLink,
                     !.steady = @ \ (IF h = Trunk \/ ble_link_send_cb(h) THEN {h} ELSE {})]

SendNext(t) ==
  /\ ToSend(job[t]) # {}
  /\ LET h == job[t].left[NextTarget(job[t])]
     IN  \E buffer \in BOOLEAN :
           job' = [job EXCEPT ![t] = entry_send(@, buffer /\ (h = Trunk \/ ble_link_send_cb(h)))]
  /\ UNCHANGED <<s_links, conns, dropping>>

EndBroadcast(t) ==
  /\ job[t].open /\ ToSend(job[t]) = {}
  /\ job' = [job EXCEPT ![t] = NoJob]
  /\ UNCHANGED <<s_links, conns, dropping>>

LinkNext ==
  \/ \E h \in Handles : alloc_conn(h) \/ SubscribeLink(h) \/ UnsubscribeLink(h) \/ drop_conn(h)
  \/ ClearConn
  \/ \E t \in Tasks : \/ \E x \in Handles \cup {Trunk} : bitle_link_broadcast(t, x)
                      \/ SendNext(t) \/ EndBroadcast(t)

---------------------------------------------------------------------------
\* However often links come, go and are registered again, the table has one
\* entry for each link that is up, and none for another: a table with a slot
\* for every connection and the trunk never turns a link away
\* (bitle_link.c:62-141, bitchat_ble.c:160-170).
TableTracksLinks ==
  /\ \A i, j \in 1..LinkMax : i # j /\ s_links[i] # NoLink => s_links[i] # s_links[j]
  /\ SlotOf(Trunk) # 0
  /\ \A h \in Handles : SlotOf(h) # 0 => conns[h].subscribed
  /\ \A h \in Handles : conns[h].subscribed /\ dropping # h => SlotOf(h) # 0

\* A broadcast over a snapshot reaches every link that is up from its start
\* to its end and has a buffer, once, and not the link it came from, while
\* other links come, fail and go (bitle_link.c:201-227).
BroadcastReaches ==
  \A t \in Tasks :
    LET j == job[t]
    IN  /\ IsInjective(j.heard) /\ j.exclude \notin Range(j.heard)
        /\ ToSend(j) = {} => j.steady \subseteq Range(j.heard)

\* The registry holds the links that are up, and a broadcast reaches those.
LinksSound == TableTracksLinks /\ BroadcastReaches
=============================================================================
