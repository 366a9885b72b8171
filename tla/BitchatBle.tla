----------------------------- MODULE BitchatBle -----------------------------
(***************************************************************************)
(* The BLE transport (bitchat_ble.c) of some Bitles and phones, with the   *)
(* link registry (bitle_link.c) it feeds.                                  *)
(*                                                                         *)
(* A handle c \in Conns names one possible connection: Central[c] dials,   *)
(* Peripheral[c] is dialled, and the name is used again when the same      *)
(* handle is.  A Bitle dials what its scanner finds, discovers the         *)
(* service, the characteristic and the CCCD descriptor of the peer, and    *)
(* has a usable link once its subscription is acknowledged; the dialled    *)
(* side has one when it sees the subscription.  A usable link is in the    *)
(* registry and has been announced to the session worker through `queue`.  *)
(***************************************************************************)
EXTENDS Naturals, Sequences, FiniteSets, SequencesExt

CONSTANTS Bitles, Phones, Conns, Central, Peripheral,
          Scenes,          \* what is in radio range, and how much goes wrong
          MaxConnections,  \* CONFIG_BT_NIMBLE_MAX_CONNECTIONS
          CentralMaxLinks, \* BITLE_CENTRAL_MAX_LINKS
          CentralReserve,  \* BITLE_CENTRAL_RESERVE
          LinkMax,         \* BITLE_LINK_MAX
          DenySlots,       \* entries of s_deny
          QueueDepth       \* NOISE_QUEUE_DEPTH

VARIABLES
  air,     \* air[c]: "down", "up", or "closing" once either side ended it
  conn,    \* conn[n][c]: n's s_connections entry for c, see Stages
  scan,    \* scan[n]: "idle", or the handle being dialled
  links,   \* links[n]: the handles in n's link registry
  deny,    \* deny[n]: the peers in n's deny list, oldest first
  queue,   \* queue[n]: what waits for n's session worker
  faults,  \* losses and errors so far
  scene,   \* one of Scenes: the handles in range, and the bounds of the run
  lost     \* <<n, c>> whose DISCONNECT event never entered n's queue

bleVars == <<air, conn, scan, links, deny, queue, faults, lost, scene>>

Nodes == Bitles \cup Phones
Ends(c) == {Central[c], Peripheral[c]}
Other(n, c) == IF n = Central[c] THEN Peripheral[c] ELSE Central[c]

\* "open" is connected and silent; the next four are the discovery of a
\* dialling Bitle, "ack" its written subscription, "mute" a peer without CCCD.
Discovering == {"svc", "chr", "dsc", "cccd", "ack"}
Stages == {"none", "open", "mute", "sub"} \cup Discovering

count_connections(n, centrals) ==
  Cardinality({c \in Conns : conn[n][c] # "none" /\ (centrals => Central[c] = n)})
addr_denied(n, m) == Contains(deny[n], m)
already_linked_to(n, m) == \E c \in Conns : conn[n][c] # "none" /\ Other(n, c) = m
RoomToDial(n) ==
  /\ count_connections(n, TRUE) < CentralMaxLinks
  /\ count_connections(n, FALSE) + CentralReserve < MaxConnections

deny_addr(d, m) == Append(IF Len(d) = DenySlots THEN Tail(d) ELSE d, m)

bitle_link_register(l, c) == IF c \in l \/ Cardinality(l) < LinkMax THEN l \cup {c} ELSE l
bitle_link_unregister(l, c) == l \ {c}

\* Queue space is taken without waiting; what does not fit is dropped.
queue_event(q, n, e) ==
  IF Len(q[n]) < QueueDepth THEN [q EXCEPT ![n] = Append(@, e)] ELSE q
noise_notify_subscribed(q, n, c) ==
  IF n \in Bitles THEN queue_event(q, n, [t |-> "subscribed", h |-> c]) ELSE q

Fault == faults < scene.faults /\ faults' = faults + 1

BleInit ==
  /\ air = [c \in Conns |-> "down"]
  /\ conn = [n \in Nodes |-> [c \in Conns |-> "none"]]
  /\ scan = [n \in Bitles |-> "idle"]
  /\ links = [n \in Bitles |-> {}]
  /\ deny = [n \in Bitles |-> <<>>]
  /\ queue = [n \in Nodes |-> <<>>]
  /\ faults = 0
  /\ lost = {}
  /\ scene \in Scenes

-----------------------------------------------------------------------------
\* Scanning and dialling.

\* A scan starts only while nothing is dialled, and 60 s after the last one:
\* the workers have long read what they were sent before.  A scan that finds
\* no Bitle to dial changes nothing.
maybe_start_scan(n) == scan[n] = "idle" /\ RoomToDial(n)

maybe_connect_to_bitle(n, c) ==
  /\ Central[c] = n /\ c \in scene.conns
  /\ maybe_start_scan(n)
  /\ \A m \in Ends(c) : queue[m] = <<>>
  /\ ~ addr_denied(n, Peripheral[c])
  /\ ~ already_linked_to(n, Peripheral[c])
  /\ scan' = [scan EXCEPT ![n] = c]
  /\ UNCHANGED <<air, conn, links, deny, queue, faults, lost>>

\* BLE_GAP_EVENT_CONNECT at both ends.  The controller refuses a connection
\* beyond its limit, which is the size of s_connections.
Connect(c) ==
  /\ air[c] = "down" /\ c \in scene.conns
  /\ \A n \in Ends(c) : count_connections(n, FALSE) < MaxConnections
  /\ Central[c] \in Bitles => scan[Central[c]] = c
  /\ air' = [air EXCEPT ![c] = "up"]
  /\ conn' = [n \in Nodes |-> [conn[n] EXCEPT ![c] =
                CASE n = Central[c] /\ n \in Bitles -> "svc"
                  [] n \in Ends(c) -> "open"
                  [] OTHER -> @]]
  /\ scan' = [n \in Bitles |-> IF scan[n] = c THEN "idle" ELSE scan[n]]
  /\ UNCHANGED <<links, deny, queue, faults, lost>>

ConnectFails(n) ==
  /\ scan[n] \in Conns
  /\ Fault
  /\ scan' = [scan EXCEPT ![n] = "idle"]
  /\ UNCHANGED <<air, conn, links, deny, queue, lost>>

-----------------------------------------------------------------------------
\* Discovery by the dialling Bitle, and the subscription.

Discover(n, c, from, to) ==
  /\ air[c] = "up"
  /\ Central[c] = n
  /\ conn[n][c] = from
  /\ conn' = [conn EXCEPT ![n][c] = to]

central_svc_cb(n, c) ==
  Discover(n, c, "svc", "chr") /\ UNCHANGED <<air, scan, links, deny, queue, faults, lost>>
central_chr_cb(n, c) ==
  Discover(n, c, "chr", "dsc") /\ UNCHANGED <<air, scan, links, deny, queue, faults, lost>>
central_dsc_cb(n, c) ==
  Discover(n, c, "dsc", "cccd") /\ UNCHANGED <<air, scan, links, deny, queue, faults, lost>>

\* The descriptor list ends without a CCCD: nothing more is tried.
NoCccd(n, c) ==
  Discover(n, c, "dsc", "mute") /\ Fault /\ UNCHANGED <<air, scan, links, deny, queue, lost>>

central_cccd_written(n, c) ==
  /\ Discover(n, c, "ack", "sub")
  /\ links' = [links EXCEPT ![n] = bitle_link_register(@, c)]
  /\ queue' = noise_notify_subscribed(queue, n, c)
  /\ UNCHANGED <<air, scan, deny, faults, lost>>

central_disc_failed(n, c) ==
  /\ air[c] = "up" /\ conn[n][c] \in Discovering
  /\ Fault
  /\ deny' = [deny EXCEPT ![n] = deny_addr(@, Other(n, c))]
  /\ air' = [air EXCEPT ![c] = "closing"]
  /\ UNCHANGED <<conn, scan, links, queue, lost>>

\* BLE_GAP_EVENT_SUBSCRIBE at the dialled Bitle: its central wrote the CCCD.
Subscribe(c) ==
  LET m == Central[c]
      n == Peripheral[c] IN
  /\ air[c] = "up" /\ conn[n][c] = "open"
  /\ conn[m][c] = (IF m \in Bitles THEN "cccd" ELSE "open")
  /\ conn' = [conn EXCEPT ![n][c] = "sub", ![m][c] = IF m \in Bitles THEN "ack" ELSE "sub"]
  /\ links' = [links EXCEPT ![n] = bitle_link_register(@, c)]
  /\ queue' = noise_notify_subscribed(queue, n, c)
  /\ UNCHANGED <<air, scan, deny, faults, lost>>

Unsubscribe(c) ==
  LET m == Central[c]
      n == Peripheral[c] IN
  /\ air[c] = "up" /\ m \in Phones /\ conn[n][c] = "sub"
  /\ Fault
  /\ conn' = [conn EXCEPT ![n][c] = "open", ![m][c] = "open"]
  /\ links' = [links EXCEPT ![n] = bitle_link_unregister(@, c)]
  /\ UNCHANGED <<air, scan, deny, queue, lost>>

-----------------------------------------------------------------------------
\* The end of a link.

\* A link that never got subscribed within 30 s is hung up.  Discovery takes
\* far less: the watchdog meets links that stay silent, or costs a fault.
bitchat_ble_poll(n, c) ==
  /\ air[c] = "up"
  /\ conn[n][c] \notin {"none", "sub"}
  /\ IF "mute" \in {conn[m][c] : m \in Ends(c)} THEN UNCHANGED faults ELSE Fault
  /\ air' = [air EXCEPT ![c] = "closing"]
  /\ UNCHANGED <<conn, scan, links, deny, queue, lost>>

LinkLost(c) ==
  /\ air[c] = "up"
  /\ Fault
  /\ air' = [air EXCEPT ![c] = "closing"]
  /\ UNCHANGED <<conn, scan, links, deny, queue, lost>>

\* noise_reset_connection waits 100 ms for room, then gives the event up.
noise_reset_connection(n, c) ==
  IF n \in Phones THEN UNCHANGED <<queue, faults, lost>>
  ELSE \/ /\ Len(queue[n]) < QueueDepth
          /\ queue' = queue_event(queue, n, [t |-> "disconnect", h |-> c])
          /\ UNCHANGED <<faults, lost>>
       \/ /\ Len(queue[n]) = QueueDepth
          /\ Fault
          /\ lost' = lost \cup {<<n, c>>}
          /\ UNCHANGED queue

\* BLE_GAP_EVENT_DISCONNECT, with drop_conn.
Disconnected(n, c) ==
  /\ air[c] = "closing"
  /\ conn[n][c] # "none"
  /\ noise_reset_connection(n, c)
  /\ links' = IF n \in Bitles THEN [links EXCEPT ![n] = bitle_link_unregister(@, c)] ELSE links
  /\ conn' = [conn EXCEPT ![n][c] = "none"]
  /\ air' = [air EXCEPT ![c] = IF conn[Other(n, c)][c] = "none" THEN "down" ELSE @]
  /\ UNCHANGED <<scan, deny>>

DenyExpires(n) ==
  /\ deny[n] # <<>>
  /\ deny' = [deny EXCEPT ![n] = Tail(@)]
  /\ UNCHANGED <<air, conn, scan, links, queue, faults, lost>>

BleNext ==
  /\ UNCHANGED scene
  /\ \/ \E n \in Bitles : ConnectFails(n) \/ DenyExpires(n)
     \/ \E c \in Conns : Connect(c) \/ Subscribe(c) \/ Unsubscribe(c) \/ LinkLost(c)
     \/ \E n \in Bitles, c \in Conns :
          \/ maybe_connect_to_bitle(n, c)
          \/ central_svc_cb(n, c) \/ central_chr_cb(n, c) \/ central_dsc_cb(n, c) \/ NoCccd(n, c)
          \/ central_cccd_written(n, c) \/ central_disc_failed(n, c) \/ bitchat_ble_poll(n, c)
     \/ \E n \in Nodes, c \in Conns : Disconnected(n, c)
=============================================================================
