------------------------------- MODULE BitleOta -------------------------------
(***************************************************************************)
(* Node-to-node firmware updates: main/bitle_ota.c on every Bitle of a     *)
(* fleet, the two application partitions and ESP-IDF's rollback.           *)
(*                                                                         *)
(* An image is a sequence of chunks, each known by its version and its     *)
(* position; it matches a manifest's hash when all chunks are the ones of  *)
(* the manifest's version.  All handlers run on the OTA task, so each is   *)
(* one step.                                                               *)
(***************************************************************************)
EXTENDS Integers, FiniteSets

CONSTANTS
  Nodes, Neighbours, (* the fleet, and the pairs with a BLE link           *)
  Nobody,
  Versions,          (* signed releases                                    *)
  Firmware,          (* the version each node was flashed with             *)
  Flashed,           (* nodes whose fw_manifest partition was flashed too  *)
  Chunks,            (* chunks of an image                                 *)
  SectorChunks,      (* chunks in a flash sector                           *)
  MaxRetries,        (* OTA_RX_MAX_RETRIES                                 *)
  MaxCrashes,        (* bound: resets                                      *)
  MaxFaults          (* bound: late answers, lost packets, broken links,    *)
                     (* failing flash operations and offers that a node     *)
                     (* about to reboot takes up, together                 *)

Pairs == {p \in SUBSET Nodes : Cardinality(p) = 2}

ASSUME OtaAssumption ==
  /\ Versions \subseteq Nat \ {0} /\ Firmware \in [Nodes -> Versions]
  /\ Neighbours \subseteq Pairs /\ Flashed \subseteq Nodes /\ Nobody \notin Nodes
  /\ Chunks \in Nat \ {0} /\ SectorChunks \in Nat \ {0} /\ MaxRetries \in Nat
  /\ MaxCrashes \in Nat /\ MaxFaults \in Nat

VARIABLES
  node,              (* the state of each node                             *)
  handle,            (* the connection handle in use on each link          *)
  net,               (* packets under way or in an OTA queue               *)
  upsets,            (* late answers, lost packets and broken links so far *)
  crashes, faults    (* resets and failed flash operations so far          *)

counts == <<upsets, crashes, faults>>
vars   == <<node, handle, net, upsets, crashes, faults>>

Index    == 0 .. Chunks - 1
Erased   == <<0, 0>>
Data     == (Versions \X Index) \cup {Erased}
Image(v) == [i \in Index |-> <<v, i>>]
Blank    == [i \in Index |-> Erased]
Whole(p) == \E v \in Versions : p = Image(v)
Idle     == [active |-> FALSE, ver |-> 0, next |-> 0, retries |-> 0,
             peer |-> Nobody, handle |-> 0]
Packet   == [type : {"manifest", "req", "chunk"}, from : Nodes, to : Nodes,
             ver : Versions, idx : Index, data : Data]

\* A node as it was flashed by wire and booted.
Factory(n) ==
  [parts |-> [p \in 0 .. 1 |-> IF p = 0 THEN Image(Firmware[n]) ELSE Blank],
   running |-> 0, boot |-> 0,         \* running and selected partition
   trial |-> "none",                  \* rollback state of the selected one
   fw |-> Firmware[n],                \* BITLE_FW_VERSION
   nvs |-> IF n \in Flashed THEN Firmware[n] ELSE 0,   \* stored manifest
   serve |-> IF n \in Flashed THEN Firmware[n] ELSE 0, \* s_serve_manifest, 0: none
   rx |-> Idle,                       \* s_rx
   reboot |-> FALSE]                  \* s_reboot_at_ms is set

Init ==
  /\ node = [n \in Nodes |-> Factory(n)] /\ handle = [p \in Neighbours |-> 0]
  /\ net = {} /\ upsets = 0 /\ crashes = 0 /\ faults = 0

Set(n, s) == node' = [node EXCEPT ![n] = s]
Consumed(m, out) == net' = (net \ {m}) \cup out
Fault == /\ upsets + faults < MaxFaults
         /\ faults' = faults + 1 /\ UNCHANGED <<upsets, crashes>>
Upset == upsets + faults < MaxFaults /\ upsets' = upsets + 1

\* send_req(): goes out only on the connection the transfer began on.
Request(n, rx) ==
  IF handle[{n, rx.peer}] = rx.handle
  THEN {[type |-> "req", from |-> n, to |-> rx.peer, ver |-> rx.ver, idx |-> rx.next, data |-> Erased]}
  ELSE {}
-----------------------------------------------------------------------------
\* Announces of n that are around: its last one, or an old one that a sync
\* store or a slow link kept.
Announced(n) == {Firmware[n], node[n].fw}

\* m hears n's verified announce of v: it counts as a sign of health, and a
\* stale peer is offered the image (bitle_ota_peer_version_seen, handle_offer).
Hear(n, m, v) ==
  LET s == node[m]
      offers == s.serve > v /\ ~ s.rx.active IN
  /\ {n, m} \in Neighbours
  /\ Set(m, [s EXCEPT !.trial = IF @ = "pending" THEN "none" ELSE @])
  /\ net' = IF offers
            THEN net \cup {[type |-> "manifest", from |-> m, to |-> n, ver |-> s.serve,
                            idx |-> 0, data |-> Erased]}
            ELSE net
  /\ UNCHANGED <<handle, counts>>

\* The image is kept after 30 minutes without contact.
HealthFallback(n) ==
  /\ node[n].trial = "pending" /\ Set(n, [node[n] EXCEPT !.trial = "none"])
  /\ UNCHANGED <<handle, net, counts>>

\* Mutant: any other version is accepted.
NewerMutant(s, v) == v # s.fw /\ (s.rx.active => v > s.rx.ver)
Newer(s, v) == v > s.fw /\ (s.rx.active => v > s.rx.ver)

Adopts(s, v) == v = s.fw /\ s.serve = 0 /\ s.parts[s.running] = Image(v)

\* handle_manifest(); esp_ota_begin fails while the running image is on trial.
Manifest(m) ==
  LET s  == node[m.to]
      rx == [active |-> TRUE, ver |-> m.ver, next |-> 0, retries |-> 0,
             peer |-> m.from, handle |-> handle[{m.to, m.from}]] IN
  /\ m.type = "manifest"
  /\ \/ /\ Newer(s, m.ver) /\ s.trial # "pending"
        /\ Set(m.to, [s EXCEPT !.rx = rx]) /\ Consumed(m, Request(m.to, rx))
        /\ IF s.reboot THEN Fault ELSE UNCHANGED counts
     \/ /\ Newer(s, m.ver)
        /\ Set(m.to, [s EXCEPT !.rx = Idle]) /\ Consumed(m, {})
        /\ IF s.trial = "pending" THEN UNCHANGED counts ELSE Fault
     \/ /\ Adopts(s, m.ver)
        /\ Set(m.to, [s EXCEPT !.serve = m.ver, !.nvs = m.ver]) /\ Consumed(m, {})
        /\ UNCHANGED counts
     \/ /\ ~ Newer(s, m.ver) /\ ~ Adopts(s, m.ver)
        /\ Consumed(m, {}) /\ UNCHANGED <<node, counts>>
  /\ UNCHANGED handle

\* Mutant: requests are served from the partition written last.
ServedMutant(s, i) == s.parts[1 - s.running][i]
Served(s, i) == s.parts[s.running][i]

\* handle_req()
Req(m) ==
  LET s == node[m.to] IN
  /\ m.type = "req"
  /\ Consumed(m, IF s.serve = m.ver
                  THEN {[m EXCEPT !.type = "chunk", !.from = m.to, !.to = m.from,
                                  !.data = Served(s, m.idx)]}
                  ELSE {})
  /\ UNCHANGED <<node, handle, counts>>

\* The SHA-256 of all chunks written is the manifest's.
Verified(part, v) == part = Image(v)

\* Mutant: the next partition is counted from the one selected for boot.
TargetMutant(s) == 1 - s.boot
\* esp_ota_get_next_update_partition(NULL): the one that is not running.
Target(s) == 1 - s.running

\* finish_receive(): switch to the image and announce the reboot, or give up.
Finish(s, n) ==
  LET target == Target(s)
      given  == [s EXCEPT !.rx = Idle]
      done   == [given EXCEPT !.boot = target, !.trial = "new", !.reboot = TRUE] IN
  IF Verified(s.parts[target], s.rx.ver)
  THEN \/ Set(n, [done EXCEPT !.serve = s.rx.ver, !.nvs = s.rx.ver]) /\ UNCHANGED counts
       \/ Set(n, done) /\ Fault          \* store_serve_manifest failed
       \/ Set(n, given) /\ Fault         \* esp_ota_end or set_boot_partition failed
  ELSE Set(n, given) /\ UNCHANGED counts

\* esp_ota_write() with sequential writes erases each sector it enters.
Written(part, i, d) ==
  [j \in Index |-> IF j = i THEN d
                   ELSE IF j > i /\ j \div SectorChunks = i \div SectorChunks THEN Erased
                   ELSE part[j]]

Expected(rx, m) == m.idx = rx.next

\* handle_chunk(); a transfer begun while a reboot is pending does not get to
\* its last chunk, since the reboot is three seconds away and an image takes minutes.
Chunk(m) ==
  LET n == m.to
      s == node[n]
      t == [s EXCEPT !.parts[Target(s)] = Written(@, s.rx.next, m.data),
                     !.rx.next = @ + 1, !.rx.retries = 0] IN
  /\ m.type = "chunk"
  /\ \/ /\ ~ s.rx.active \/ m.ver # s.rx.ver
        /\ Consumed(m, {}) /\ UNCHANGED <<node, counts>>
     \/ /\ s.rx.active /\ m.ver = s.rx.ver /\ ~ Expected(s.rx, m)
        /\ Consumed(m, Request(n, s.rx)) /\ UNCHANGED <<node, counts>>
     \/ /\ s.rx.active /\ m.ver = s.rx.ver /\ Expected(s.rx, m)
        /\ \/ /\ t.rx.next < Chunks
              /\ Set(n, t) /\ Consumed(m, Request(n, t.rx)) /\ UNCHANGED counts
           \/ t.rx.next = Chunks /\ ~ s.reboot /\ Finish(t, n) /\ Consumed(m, {})
           \/ Set(n, [s EXCEPT !.rx = Idle]) /\ Consumed(m, {}) /\ Fault
  /\ UNCHANGED handle

Answers(n) == {m \in net : n \in {m.from, m.to} /\ m.ver = node[n].rx.ver /\ m.type # "manifest"}

Exhausted(rx) == rx.retries >= MaxRetries

\* OTA_RX_TIMEOUT_MS passed without a chunk.
Timeout(n) ==
  LET s == node[n] IN
  /\ s.rx.active
  /\ \/ Answers(n) = {} /\ UNCHANGED upsets
     \/ Answers(n) # {} /\ Upset
  /\ IF Exhausted(s.rx)
     THEN Set(n, [s EXCEPT !.rx = Idle]) /\ UNCHANGED net
     ELSE /\ Set(n, [s EXCEPT !.rx.retries = @ + 1])
          /\ net' = net \cup Request(n, s.rx)
  /\ UNCHANGED <<handle, crashes, faults>>
-----------------------------------------------------------------------------
\* The bootloader takes the selected partition, unless its trial failed or its
\* image is damaged; then bitle_ota_init() looks for a manifest to serve.
Booted(n) ==
  LET s == node[n]
      ok == s.trial # "pending" /\ Whole(s.parts[s.boot])
      p == IF ok THEN s.boot ELSE 1 - s.boot
      fw == s.parts[p][0][1]
      serve == IF s.nvs = fw \/ (n \in Flashed /\ Firmware[n] = fw) THEN fw ELSE 0 IN
  [s EXCEPT !.running = p, !.boot = p, !.fw = fw, !.rx = Idle, !.reboot = FALSE,
            !.trial = IF ok /\ @ = "new" THEN "pending" ELSE "none",
            !.nvs = serve, !.serve = serve]

\* A reset closes the node's links and empties its queue.
Restart(n) ==
  /\ Set(n, Booted(n)) /\ net' = {m \in net : n \notin {m.from, m.to}}

Reboot(n) == node[n].reboot /\ Restart(n) /\ UNCHANGED <<handle, counts>>

Crash(n) ==
  /\ crashes < MaxCrashes /\ crashes' = crashes + 1
  /\ Restart(n) /\ UNCHANGED <<handle, upsets, faults>>

\* A link breaks and comes back under the same handle or under another.
Drop(p) ==
  /\ Upset
  /\ net' = {m \in net : {m.from, m.to} # p}
  /\ \E h \in 0 .. 1 : handle' = [handle EXCEPT ![p] = h]
  /\ UNCHANGED <<node, crashes, faults>>

\* A packet is lost on the air or finds the queue full.
Lose(m) ==
  /\ Upset /\ net' = net \ {m}
  /\ UNCHANGED <<node, handle, crashes, faults>>

Receive(m) == Manifest(m) \/ Req(m) \/ Chunk(m)

Next ==
  \/ \E m \in net : Receive(m) \/ Lose(m)
  \/ \E n, m \in Nodes : \E v \in Announced(n) : Hear(n, m, v)
  \/ \E n \in Nodes : HealthFallback(n) \/ Timeout(n) \/ Reboot(n) \/ Crash(n)
  \/ \E p \in Neighbours : Drop(p)

Spec == Init /\ [][Next]_vars

\* Queues are served in order, timers fire, and neighbours keep announcing.
FairSpec ==
  /\ Spec
  /\ \A n, m \in Nodes, type \in {"manifest", "req", "chunk"} :
       WF_vars(\E x \in net : x.from = n /\ x.to = m /\ x.type = type /\ Receive(x))
  /\ \A n, m \in Nodes : WF_vars(Hear(n, m, node[n].fw))
  /\ \A n \in Nodes : WF_vars(Timeout(n)) /\ WF_vars(Reboot(n)) /\ WF_vars(HealthFallback(n))
-----------------------------------------------------------------------------
(* Properties.                                                             *)

\* The types of the state.
TypeOK ==
  /\ net \subseteq Packet /\ handle \in [Neighbours -> 0 .. 1]
  /\ \A n \in Nodes : LET s == node[n] IN
       /\ s.parts \in [0 .. 1 -> [Index -> Data]]
       /\ s.running \in 0 .. 1 /\ s.boot \in 0 .. 1 /\ s.trial \in {"none", "new", "pending"}
       /\ s.fw \in Versions /\ {s.nvs, s.serve} \subseteq Versions \cup {0}
       /\ s.rx.next \in Index /\ s.rx.retries \in 0 .. MaxRetries

\* Whatever is lost, late, repeated, interrupted or served by a node in the
\* middle of its own update, a node runs one whole signed image, and has one
\* to fall back to while a new one is on trial.
RunsWholeImage ==
  \A n \in Nodes : LET s == node[n] IN
    /\ s.parts[s.running] = Image(s.fw)
    /\ s.trial = "pending" => Whole(s.parts[1 - s.running])

\* "verifies the SHA-256 of the fully written image before switching to it":
\* a node selects a partition only when it holds exactly the release it was
\* offered, whoever served the chunks.
SwitchesToVerified ==
  \A n \in Nodes : node'[n].reboot /\ ~ node[n].reboot =>
    node'[n].parts[node'[n].boot] = Image(node[n].rx.ver)

\* "no downgrades": whatever is offered, superseded, cut short or reset, the
\* version a node runs decreases only by the rollback of an image on trial.
NoDowngrade ==
  \A n \in Nodes : node'[n].fw < node[n].fw => node[n].trial = "pending"

\* "one seeded node epidemically updates every node it can reach", whatever is
\* lost, late or interrupted, unless a flash operation fails
\* or an offer restarts a transfer in the seconds before a reboot.
FleetUpdates ==
  \/ <>(faults > 0)
  \/ <>[](\A n \in Nodes : node[n].fw = CHOOSE v \in Versions : \A w \in Versions : v >= w)

\* "True when this node holds a stored, signed manifest matching its running
\* image and can therefore serve the image to stale peers."
ServesRunning ==
  \A n \in Nodes : node[n].serve # 0 => node[n].parts[node[n].running] = Image(node[n].serve)

\* "verifies the SHA-256 of the fully written image before switching to it":
\* the partition selected for the next boot holds a whole image.
SelectedIsWhole == \A n \in Nodes : Whole(node[n].parts[node[n].boot])

\* "a dropped BLE link resumes rather than restarting": a transfer that lost
\* no race to a newer release and no reset does not begin again.
TransferResumes ==
  [][\A n \in Nodes : node[n].rx.active /\ ~ node'[n].rx.active =>
       node[n].rx.next + 1 = Chunks \/ crashes' > crashes \/ faults' > faults]_vars

\* Types, and RunsWholeImage: no state of an update leaves a node without an
\* image to run.
UpdateSound == TypeOK /\ RunsWholeImage

\* Every step of an update switches to a verified release only, and to no
\* older one.
UpdateSteps == [][SwitchesToVerified /\ NoDowngrade]_vars
=============================================================================
