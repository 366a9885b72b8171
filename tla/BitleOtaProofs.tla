---------------------------- MODULE BitleOtaProofs ----------------------------
(* Proofs about BitleOta, for every fleet, image size and set of releases. *)
EXTENDS BitleOta, TLAPS

USE ZenonT(30)

Rx == [active : BOOLEAN, ver : Versions \cup {0}, next : Index, retries : 0 .. MaxRetries,
       peer : Nodes \cup {Nobody}, handle : 0 .. 1]
NodeState ==
  [parts : [0 .. 1 -> [Index -> Data]], running : 0 .. 1, boot : 0 .. 1,
   trial : {"none", "new", "pending"}, fw : Versions, nvs : Versions \cup {0},
   serve : Versions \cup {0}, rx : Rx, reboot : BOOLEAN]

\* The inductive strengthening of RunsWholeImage, node by node.  Only an image
\* not yet booted is in the partition that is not running; what is received
\* meanwhile may damage it, never so that it reads as an older release: its last
\* chunk stays, or goes.  No transfer runs while an image is on trial, and one
\* that runs is of a newer release, from a neighbour.
NodeOk(n, s) ==
  /\ s \in NodeState
  /\ s.parts[s.running] = Image(s.fw)
  /\ s.trial = "pending" => Whole(s.parts[1 - s.running]) /\ ~ s.rx.active
  /\ s.trial = "new" =>
       /\ s.boot = 1 - s.running /\ s.reboot
       /\ \A v \in Versions : s.parts[s.boot][Chunks - 1] = <<v, Chunks - 1>> => v > s.fw
  /\ s.trial # "new" => s.boot = s.running /\ ~ s.reboot
  /\ s.rx.active => s.rx.ver \in Versions /\ s.rx.ver > s.fw /\ {n, s.rx.peer} \in Neighbours

PacketOk(m) == m \in Packet /\ {m.from, m.to} \in Neighbours

FleetInv ==
  /\ DOMAIN node = Nodes /\ \A n \in Nodes : NodeOk(n, node[n])
  /\ handle \in [Neighbours -> 0 .. 1]
  /\ \A m \in net : PacketOk(m)

\* What a step may make of a node: a sound one, that has selected no image but
\* the release it received and has gone back to no older one but from a trial.
Move(n, s, t) ==
  /\ NodeOk(n, t)
  /\ t.reboot /\ ~ s.reboot => t.parts[t.boot] = Image(s.rx.ver)
  /\ t.fw < s.fw => s.trial = "pending"

-----------------------------------------------------------------------------
(* The pieces of a node.                                                   *)

\* Chunks, images and the idle receiver have their types, and no chunk of an
\* image is an erased one.
LEMMA Pieces ==
  /\ 0 \in Index /\ Chunks - 1 \in Index
  /\ Erased \in Data /\ Blank \in [Index -> Data] /\ Idle \in Rx /\ ~ Idle.active
  /\ \A v \in Versions : /\ v \in Nat \ {0} /\ Image(v) \in [Index -> Data]
                         /\ \A i \in Index : Image(v)[i] = <<v, i>> /\ <<v, i>> # Erased
<1>1. 0 \in Index /\ Chunks - 1 \in Index
  BY OtaAssumption, SMTT(30) DEF Index
<1>2. Erased \in Data /\ Blank \in [Index -> Data]
  BY DEF Data, Blank
<1>3. Idle \in Rx /\ ~ Idle.active
  BY <1>1, OtaAssumption, SMTT(30) DEF Idle, Rx
<1>4. ASSUME NEW v \in Versions
      PROVE  /\ v \in Nat \ {0} /\ Image(v) \in [Index -> Data]
             /\ \A i \in Index : Image(v)[i] = <<v, i>> /\ <<v, i>> # Erased
  <2>1. v \in Nat \ {0}
    BY OtaAssumption
  <2>2. Image(v) \in [Index -> Data]
    BY DEF Image, Data
  <2>3. \A i \in Index : Image(v)[i] = <<v, i>> /\ <<v, i>> # Erased
    BY <2>1 DEF Image, Erased
  <2> QED
    BY <2>1, <2>2, <2>3
<1> QED
  BY <1>1, <1>2, <1>3, <1>4

\* An image tells its version.
LEMMA ImageInjective ==
  ASSUME NEW v \in Versions, NEW w \in Versions, Image(v) = Image(w)
  PROVE  v = w
<1>1. Image(v)[0] = <<v, 0>> /\ Image(w)[0] = <<w, 0>>
  BY Pieces
<1> QED
  BY <1>1, SMTT(30)

\* The other partition is a partition.
LEMMA OtherPartition ==
  \A p \in 0 .. 1 : 1 - p \in 0 .. 1 /\ 1 - p # p /\ 1 - (1 - p) = p
  BY SMTT(30)

\* The fields of a node.
LEMMA NodeFields ==
  ASSUME NEW n, NEW s, NodeOk(n, s)
  PROVE  /\ s \in NodeState /\ s.fw \in Versions /\ s.fw \in Int
         /\ s.running \in 0 .. 1 /\ s.boot \in 0 .. 1
         /\ s.parts \in [0 .. 1 -> [Index -> Data]]
         /\ s.nvs \in Versions \cup {0} /\ s.serve \in Versions \cup {0}
         /\ s.rx \in Rx /\ s.rx.next \in Index /\ s.rx.next \in Int
         /\ s.rx.active \in BOOLEAN /\ s.reboot \in BOOLEAN
<1>1. s \in NodeState
  BY DEF NodeOk
<1>2. /\ s.fw \in Versions /\ s.running \in 0 .. 1 /\ s.boot \in 0 .. 1
      /\ s.parts \in [0 .. 1 -> [Index -> Data]]
      /\ s.nvs \in Versions \cup {0} /\ s.serve \in Versions \cup {0}
      /\ s.rx \in Rx /\ s.reboot \in BOOLEAN
  BY <1>1 DEF NodeState
<1>3. s.rx.next \in Index /\ s.rx.active \in BOOLEAN
  BY <1>2 DEF Rx
<1>4. s.fw \in Int
  BY <1>2, Pieces, SMTT(30)
<1>5. s.rx.next \in Int
  BY <1>3, OtaAssumption, SMTT(30) DEF Index
<1> QED
  BY <1>1, <1>2, <1>3, <1>4, <1>5

\* A packet of this node for the peer it receives from.
LEMMA RequestOk ==
  ASSUME FleetInv, NEW n \in Nodes, NEW rx \in Rx, rx.ver \in Versions, {n, rx.peer} \in Neighbours
  PROVE  \A m \in Request(n, rx) : PacketOk(m)
<1>1. rx.peer \in Nodes
  BY OtaAssumption DEF Pairs
<1>2. rx.next \in Index
  BY DEF Rx
<1>3. Erased \in Data
  BY Pieces
<1> DEFINE q == [type |-> "req", from |-> n, to |-> rx.peer, ver |-> rx.ver, idx |-> rx.next,
                 data |-> Erased]
<1>4. q \in Packet /\ q.from = n /\ q.to = rx.peer
  BY <1>1, <1>2, <1>3 DEF Packet
<1>5. PacketOk(q)
  BY <1>4 DEF PacketOk
<1> QED
  BY <1>5 DEF Request

-----------------------------------------------------------------------------
(* What each handler makes of a node.                                      *)

\* Giving up a transfer.
LEMMA IdleMove ==
  ASSUME NEW n \in Nodes, NEW s, NodeOk(n, s)
  PROVE  Move(n, s, [s EXCEPT !.rx = Idle])
<1> DEFINE t == [s EXCEPT !.rx = Idle]
<1>1. s \in NodeState /\ s.fw \in Int
  BY NodeFields
<1>2. /\ t \in NodeState /\ t.rx = Idle /\ t.parts = s.parts /\ t.running = s.running
      /\ t.boot = s.boot /\ t.trial = s.trial /\ t.fw = s.fw /\ t.reboot = s.reboot
  BY <1>1, Pieces DEF NodeState
<1> HIDE DEF t
<1>3. Move(n, s, t)
  BY <1>1, <1>2, Pieces, SMTT(30) DEF NodeOk, Move
<1> QED
  BY <1>3 DEF t

\* An announce or half an hour ends a trial.
LEMMA HealthyMove ==
  ASSUME NEW n \in Nodes, NEW s, NodeOk(n, s)
  PROVE  Move(n, s, [s EXCEPT !.trial = IF @ = "pending" THEN "none" ELSE @])
<1> DEFINE t == [s EXCEPT !.trial = IF @ = "pending" THEN "none" ELSE @]
<1>1. s \in NodeState /\ s.fw \in Int
  BY NodeFields
<1>2. /\ t \in NodeState /\ t.rx = s.rx /\ t.parts = s.parts /\ t.running = s.running
      /\ t.boot = s.boot /\ t.fw = s.fw /\ t.reboot = s.reboot
      /\ t.trial = IF s.trial = "pending" THEN "none" ELSE s.trial
  BY <1>1 DEF NodeState
<1> HIDE DEF t
<1>3. Move(n, s, t)
  BY <1>1, <1>2, SMTT(30) DEF NodeOk, Move
<1> QED
  BY <1>3 DEF t

\* handle_manifest begins a transfer of a newer release.
LEMMA BeginMove ==
  ASSUME NEW n \in Nodes, NEW s, NodeOk(n, s), s.trial # "pending",
         NEW rx \in Rx, rx.ver \in Versions, rx.ver > s.fw, {n, rx.peer} \in Neighbours
  PROVE  Move(n, s, [s EXCEPT !.rx = rx])
<1> DEFINE t == [s EXCEPT !.rx = rx]
<1>1. s \in NodeState /\ s.fw \in Int
  BY NodeFields
<1>2. /\ t \in NodeState /\ t.rx = rx /\ t.parts = s.parts /\ t.running = s.running
      /\ t.boot = s.boot /\ t.trial = s.trial /\ t.fw = s.fw /\ t.reboot = s.reboot
  BY <1>1 DEF NodeState
<1> HIDE DEF t
<1>3. Move(n, s, t)
  BY <1>1, <1>2, SMTT(30) DEF NodeOk, Move
<1> QED
  BY <1>3 DEF t

\* The manifest a node stores does not touch its images.
LEMMA ServeMove ==
  ASSUME NEW n \in Nodes, NEW s, NodeOk(n, s), NEW v \in Versions
  PROVE  Move(n, s, [s EXCEPT !.serve = v, !.nvs = v])
<1> DEFINE t == [s EXCEPT !.serve = v, !.nvs = v]
<1>1. s \in NodeState /\ s.fw \in Int
  BY NodeFields
<1>2. /\ t \in NodeState /\ t.rx = s.rx /\ t.parts = s.parts /\ t.running = s.running
      /\ t.boot = s.boot /\ t.trial = s.trial /\ t.fw = s.fw /\ t.reboot = s.reboot
  BY <1>1 DEF NodeState
<1> HIDE DEF t
<1>3. Move(n, s, t)
  BY <1>1, <1>2, SMTT(30) DEF NodeOk, Move
<1> QED
  BY <1>3 DEF t

\* A timeout counts a retry.
LEMMA RetryMove ==
  ASSUME NEW n \in Nodes, NEW s, NodeOk(n, s), ~ Exhausted(s.rx)
  PROVE  Move(n, s, [s EXCEPT !.rx.retries = @ + 1])
<1> DEFINE rx == [s.rx EXCEPT !.retries = @ + 1]
           t == [s EXCEPT !.rx = rx]
<1>1. s \in NodeState /\ s.fw \in Int /\ s.rx \in Rx
  BY NodeFields
<1>2. s.rx.retries + 1 \in 0 .. MaxRetries
  BY <1>1, OtaAssumption, SMTT(30) DEF Rx, Exhausted
<1>3. rx \in Rx /\ rx.active = s.rx.active /\ rx.ver = s.rx.ver /\ rx.peer = s.rx.peer
  BY <1>1, <1>2 DEF Rx
<1>4. t = [s EXCEPT !.rx.retries = @ + 1]
  BY <1>1 DEF NodeState
<1> HIDE DEF rx
<1>5. /\ t \in NodeState /\ t.rx = rx /\ t.parts = s.parts /\ t.running = s.running
      /\ t.boot = s.boot /\ t.trial = s.trial /\ t.fw = s.fw /\ t.reboot = s.reboot
  BY <1>1, <1>3 DEF NodeState
<1> HIDE DEF t
<1>6. Move(n, s, t)
  BY <1>1, <1>3, <1>5, SMTT(30) DEF NodeOk, Move
<1> QED
  BY <1>4, <1>6

\* The node handle_chunk has written a chunk for.
Took(s, d) ==
  [s EXCEPT !.parts[Target(s)] = Written(@, s.rx.next, d), !.rx.next = @ + 1, !.rx.retries = 0]

PartsWith(s, d) == [s.parts EXCEPT ![1 - s.running] = Written(@, s.rx.next, d)]
RxAfter(s) == [s.rx EXCEPT !.next = @ + 1, !.retries = 0]

\* A chunk goes into the partition that is not running.
LEMMA TookFields ==
  ASSUME NEW n \in Nodes, NEW s, NodeOk(n, s), NEW d \in Data
  PROVE  /\ Took(s, d) = [s EXCEPT !.parts = PartsWith(s, d), !.rx = RxAfter(s)]
         /\ PartsWith(s, d) \in [0 .. 1 -> [Index -> Data]]
         /\ PartsWith(s, d)[s.running] = s.parts[s.running]
         /\ \A i \in Index : i # s.rx.next =>
              PartsWith(s, d)[1 - s.running][i] \in {Erased, s.parts[1 - s.running][i]}
         /\ s.rx.next + 1 \in Index => RxAfter(s) \in Rx
         /\ RxAfter(s).ver = s.rx.ver /\ RxAfter(s).active = s.rx.active
         /\ RxAfter(s).peer = s.rx.peer /\ RxAfter(s).next = s.rx.next + 1
<1> DEFINE old == s.parts[1 - s.running]
           new == Written(old, s.rx.next, d)
<1>1. s \in NodeState /\ s.running \in 0 .. 1 /\ s.parts \in [0 .. 1 -> [Index -> Data]]
      /\ s.rx \in Rx /\ s.rx.next \in Index
  BY NodeFields
<1>2. Took(s, d) = [s EXCEPT !.parts = PartsWith(s, d), !.rx = RxAfter(s)]
  BY <1>1 DEF Took, Target, NodeState, Rx, PartsWith, RxAfter
<1>3. old \in [Index -> Data] /\ 1 - s.running # s.running /\ 1 - s.running \in 0 .. 1
  BY <1>1, OtherPartition
<1>4. new \in [Index -> Data]
  BY <1>3, Pieces DEF Written
<1>5. \A i \in Index : i # s.rx.next => new[i] \in {Erased, old[i]}
  BY <1>3 DEF Written
<1>6. PartsWith(s, d) = [s.parts EXCEPT ![1 - s.running] = new]
  BY DEF PartsWith
<1> HIDE DEF new
<1>7. /\ PartsWith(s, d) \in [0 .. 1 -> [Index -> Data]]
      /\ PartsWith(s, d)[s.running] = s.parts[s.running] /\ PartsWith(s, d)[1 - s.running] = new
  BY <1>1, <1>3, <1>4, <1>6
<1>8. /\ RxAfter(s).ver = s.rx.ver /\ RxAfter(s).active = s.rx.active
      /\ RxAfter(s).peer = s.rx.peer /\ RxAfter(s).next = s.rx.next + 1
  BY <1>1 DEF Rx, RxAfter
<1>9. s.rx.next + 1 \in Index => RxAfter(s) \in Rx
  <2>1. 0 \in 0 .. MaxRetries
    BY OtaAssumption, SMTT(30)
  <2> QED
    BY <1>1, <2>1 DEF Rx, RxAfter
<1> QED
  BY <1>2, <1>5, <1>7, <1>8, <1>9

\* A chunk that is not the last one: the running image is untouched, and the
\* last chunk of the other stays or is erased.
LEMMA ChunkMove ==
  ASSUME NEW n \in Nodes, NEW s, NodeOk(n, s), NEW d \in Data, s.rx.active,
         s.rx.next + 1 < Chunks
  PROVE  Move(n, s, Took(s, d))
<1> DEFINE w == PartsWith(s, d)
           rx == RxAfter(s)
           t == [s EXCEPT !.parts = w, !.rx = rx]
<1>1. /\ s \in NodeState /\ s.running \in 0 .. 1 /\ s.rx.next \in Index /\ s.rx.next \in Int
      /\ s.fw \in Int
  BY NodeFields
<1>2. s.rx.next + 1 \in Index /\ s.rx.next # Chunks - 1
  BY <1>1, OtaAssumption, SMTT(30) DEF Index
<1>3. /\ Took(s, d) = t
      /\ w \in [0 .. 1 -> [Index -> Data]] /\ w[s.running] = s.parts[s.running]
      /\ w[1 - s.running][Chunks - 1] \in {Erased, s.parts[1 - s.running][Chunks - 1]}
      /\ rx \in Rx /\ rx.ver = s.rx.ver /\ rx.active = s.rx.active /\ rx.peer = s.rx.peer
  BY <1>2, TookFields, Pieces
<1> HIDE DEF w, rx
<1>4. /\ t \in NodeState /\ t.rx = rx /\ t.parts = w /\ t.running = s.running
      /\ t.boot = s.boot /\ t.trial = s.trial /\ t.fw = s.fw /\ t.reboot = s.reboot
  BY <1>1, <1>3 DEF NodeState
<1>5. s.trial # "pending"
  BY DEF NodeOk
<1> HIDE DEF t
<1>6. \A v \in Versions : <<v, Chunks - 1>> # Erased
  BY Pieces
<1>7. s.trial = "new" =>
        \A v \in Versions : t.parts[t.boot][Chunks - 1] = <<v, Chunks - 1>> => v > s.fw
  BY <1>3, <1>4, <1>6, SMTT(30) DEF NodeOk
<1>8. NodeOk(n, t)
  BY <1>1, <1>3, <1>4, <1>5, <1>7 DEF NodeOk
<1>9. Move(n, s, t)
  BY <1>1, <1>4, <1>8, SMTT(30) DEF Move
<1> QED
  BY <1>3, <1>9

\* finish_receive gives up: nothing that was selected has been written over.
LEMMA GivenMove ==
  ASSUME NEW n \in Nodes, NEW s, NodeOk(n, s), NEW d \in Data, s.rx.active, ~ s.reboot
  PROVE  LET t == Took(s, d)
             given == [t EXCEPT !.rx = Idle]
         IN  /\ Move(n, s, given)
             /\ given.parts = t.parts /\ given.running = s.running /\ given.fw = s.fw
             /\ t.running = s.running /\ t.rx.ver = s.rx.ver
<1> DEFINE w == PartsWith(s, d)
           rx == RxAfter(s)
           t == [s EXCEPT !.parts = w, !.rx = rx]
           given == [s EXCEPT !.parts = w, !.rx = Idle]
<1>1. s \in NodeState /\ s.running \in 0 .. 1 /\ s.fw \in Int
  BY NodeFields
<1>2. /\ Took(s, d) = t
      /\ w \in [0 .. 1 -> [Index -> Data]] /\ w[s.running] = s.parts[s.running]
      /\ rx.ver = s.rx.ver
  BY TookFields
<1> HIDE DEF w, rx
<1>3. [t EXCEPT !.rx = Idle] = given
  BY <1>1 DEF NodeState
<1>4. t.parts = w /\ t.running = s.running /\ t.rx = rx
  BY <1>1 DEF NodeState
<1>5. Idle \in Rx /\ ~ Idle.active
  BY Pieces
<1>6. /\ given \in NodeState /\ given.rx = Idle /\ given.parts = w /\ given.running = s.running
      /\ given.boot = s.boot /\ given.trial = s.trial /\ given.fw = s.fw
      /\ given.reboot = s.reboot
  BY <1>1, <1>2, <1>5 DEF NodeState
<1>7. s.trial = "none" /\ s.boot = s.running
  BY <1>1 DEF NodeOk, NodeState
<1> HIDE DEF given
<1>8. Move(n, s, given)
  BY <1>1, <1>2, <1>5, <1>6, <1>7, SMTT(30) DEF NodeOk, Move
<1> QED
  BY <1>2, <1>3, <1>4, <1>6, <1>8

\* finish_receive switches: the image it selects is the release it received,
\* which is newer than the one running, and the running one stays.
LEMMA SwitchMove ==
  ASSUME NEW n \in Nodes, NEW s, NodeOk(n, s), s.rx.active, ~ s.reboot,
         NEW given, Move(n, s, given), given.running = s.running, given.fw = s.fw,
         ~ given.rx.active, given.parts[1 - s.running] = Image(s.rx.ver)
  PROVE  LET done == [given EXCEPT !.boot = 1 - s.running, !.trial = "new", !.reboot = TRUE]
         IN  /\ Move(n, s, done)
             /\ Move(n, s, [done EXCEPT !.serve = s.rx.ver, !.nvs = s.rx.ver])
<1> DEFINE done == [given EXCEPT !.boot = 1 - s.running, !.trial = "new", !.reboot = TRUE]
<1>1. /\ NodeOk(n, given) /\ given \in NodeState /\ s.running \in 0 .. 1 /\ s.fw \in Int
      /\ s.fw \in Versions
  BY NodeFields DEF Move
<1>2. s.rx.ver \in Versions /\ s.rx.ver > s.fw
  BY DEF NodeOk
<1>3. 1 - s.running \in 0 .. 1
  BY <1>1, SMTT(30)
<1>4. /\ done \in NodeState /\ done.rx = given.rx /\ done.parts = given.parts
      /\ done.running = s.running /\ done.boot = 1 - s.running /\ done.trial = "new"
      /\ done.fw = s.fw /\ done.reboot
  BY <1>1, <1>3 DEF NodeState
<1> HIDE DEF done
<1>5. \A v \in Versions : Image(s.rx.ver)[Chunks - 1] = <<v, Chunks - 1>> => v > s.fw
  BY <1>2, Pieces, SMTT(30)
<1>6. done.parts[done.boot] = Image(s.rx.ver) /\ done.parts[done.running] = Image(s.fw)
  BY <1>1, <1>4 DEF NodeOk
<1>7. NodeOk(n, done)
  BY <1>4, <1>5, <1>6 DEF NodeOk
<1>8. Move(n, s, done)
  BY <1>1, <1>4, <1>6, <1>7 DEF Move
<1>9. Move(n, done, [done EXCEPT !.serve = s.rx.ver, !.nvs = s.rx.ver])
  BY <1>2, <1>7, ServeMove
<1>10. Move(n, s, [done EXCEPT !.serve = s.rx.ver, !.nvs = s.rx.ver])
  <2> DEFINE t == [done EXCEPT !.serve = s.rx.ver, !.nvs = s.rx.ver]
  <2>1. t.parts = done.parts /\ t.boot = done.boot /\ t.fw = s.fw
    BY <1>4 DEF NodeState
  <2> HIDE DEF t
  <2>2. Move(n, s, t)
    BY <1>1, <1>6, <1>9, <2>1 DEF Move, t
  <2> QED
    BY <2>2 DEF t
<1> QED
  BY <1>8, <1>10 DEF done

\* The bootloader and bitle_ota_init: whatever the partitions hold, a whole
\* image is taken, an older one only from a trial.
LEMMA BootMove ==
  ASSUME NEW n \in Nodes, NodeOk(n, node[n])
  PROVE  Move(n, node[n], Booted(n))
<1> DEFINE s == node[n]
           ok == s.trial # "pending" /\ Whole(s.parts[s.boot])
           p == IF ok THEN s.boot ELSE 1 - s.boot
           fw == s.parts[p][0][1]
           serve == IF s.nvs = fw \/ (n \in Flashed /\ Firmware[n] = fw) THEN fw ELSE 0
           trial == IF ok /\ s.trial = "new" THEN "pending" ELSE "none"
           t == [s EXCEPT !.running = p, !.boot = p, !.fw = fw, !.rx = Idle, !.reboot = FALSE,
                          !.trial = trial, !.nvs = serve, !.serve = serve]
<1>1. /\ s \in NodeState /\ s.running \in 0 .. 1 /\ s.boot \in 0 .. 1 /\ s.fw \in Versions
      /\ s.fw \in Int /\ s.parts \in [0 .. 1 -> [Index -> Data]]
  BY NodeFields
<1>2. Booted(n) = t
  BY DEF Booted
<1>3. p \in 0 .. 1 /\ 1 - s.boot \in 0 .. 1
  BY <1>1, SMTT(30)
<1>4. Whole(s.parts[s.running])
  BY <1>1 DEF NodeOk, Whole
<1>5. Whole(s.parts[p])
  <2>1. CASE ok
    BY <2>1
  <2>2. CASE s.trial = "pending"
    BY <2>2 DEF NodeOk
  <2>3. CASE s.trial # "pending" /\ ~ Whole(s.parts[s.boot])
    <3>1. s.boot # s.running
      BY <1>4, <2>3
    <3>2. 1 - s.boot = s.running
      BY <1>1, <3>1, SMTT(30)
    <3> QED
      BY <1>4, <2>3, <3>2
  <2> QED
    BY <2>1, <2>2, <2>3
<1>6. PICK v \in Versions : s.parts[p] = Image(v)
  BY <1>5 DEF Whole
<1>7. fw = v
  BY <1>6, Pieces, SMTT(30)
<1>8. trial = "pending" => Whole(s.parts[1 - p])
  <2> SUFFICES ASSUME ok, s.trial = "new" PROVE Whole(s.parts[1 - p])
    OBVIOUS
  <2>1. 1 - p = s.running
    BY <1>1, SMTT(30) DEF NodeOk
  <2> QED
    BY <1>4, <2>1
<1>9. v < s.fw => s.trial = "pending"
  <2> SUFFICES ASSUME s.trial # "pending" PROVE ~ (v < s.fw)
    OBVIOUS
  <2>1. CASE p = s.running
    <3>1. Image(v) = Image(s.fw)
      BY <1>6, <2>1 DEF NodeOk
    <3>2. v = s.fw
      BY <1>1, <3>1, ImageInjective
    <3> QED
      BY <1>1, <3>2, SMTT(30)
  <2>2. CASE p # s.running
    <3>1. s.trial = "new"
      <4> SUFFICES ASSUME s.trial # "new" PROVE FALSE
        OBVIOUS
      <4>1. s.boot = s.running
        BY DEF NodeOk
      <4> QED
        BY <1>4, <2>2, <4>1
    <3>2. s.boot = 1 - s.running
      BY <3>1 DEF NodeOk
    <3>3. p = s.boot
      BY <1>1, <1>3, <2>2, <3>2, SMTT(30)
    <3>4. s.parts[s.boot][Chunks - 1] = <<v, Chunks - 1>>
      BY <1>6, <3>3, Pieces
    <3>5. v > s.fw
      BY <3>1, <3>4 DEF NodeOk
    <3> QED
      BY <1>1, <3>5, Pieces, SMTT(30)
  <2> QED
    BY <2>1, <2>2
<1>10. serve \in Versions \cup {0} /\ trial \in {"none", "pending"} /\ fw \in Versions
  BY <1>7
<1> HIDE DEF ok, p, fw, serve, trial
<1>11. Idle \in Rx /\ ~ Idle.active
  BY Pieces
<1>12. /\ t \in NodeState /\ t.rx = Idle /\ t.parts = s.parts /\ t.running = p
       /\ t.boot = p /\ t.trial = trial /\ t.fw = fw /\ t.reboot = FALSE
  BY <1>1, <1>3, <1>10, <1>11 DEF NodeState
<1> HIDE DEF t
<1>13. Move(n, s, t)
  BY <1>6, <1>7, <1>8, <1>9, <1>10, <1>11, <1>12 DEF NodeOk, Move
<1> QED
  BY <1>2, <1>13

-----------------------------------------------------------------------------
(* The steps of the fleet.                                                 *)

StepOk == FleetInv' /\ SwitchesToVerified /\ NoDowngrade

\* A step in which one node moves.
LEMMA OneMoves ==
  ASSUME FleetInv, NEW n \in Nodes, NEW t, Move(n, node[n], t),
         node' = [node EXCEPT ![n] = t], handle' = handle, \A m \in net' : PacketOk(m)
  PROVE  StepOk
<1>1. /\ DOMAIN node' = Nodes /\ node'[n] = t
      /\ \A k \in Nodes \ {n} : node'[k] = node[k]
  BY DEF FleetInv
<1>2. \A k \in Nodes : node[k].fw \in Int
  BY NodeFields DEF FleetInv
<1>3. FleetInv'
  BY <1>1 DEF FleetInv, Move
<1>4. SwitchesToVerified /\ NoDowngrade
  BY <1>1, <1>2, SMTT(30) DEF SwitchesToVerified, NoDowngrade, Move
<1> QED
  BY <1>3, <1>4 DEF StepOk

\* A step in which no node moves.
LEMMA NoneMoves ==
  ASSUME FleetInv, node' = node, handle' \in [Neighbours -> 0 .. 1],
         \A m \in net' : PacketOk(m)
  PROVE  StepOk
<1>1. \A k \in Nodes : node[k].fw \in Int
  BY NodeFields DEF FleetInv
<1>2. SwitchesToVerified /\ NoDowngrade
  BY <1>1, SMTT(30) DEF SwitchesToVerified, NoDowngrade
<1> QED
  BY <1>2 DEF StepOk, FleetInv

\* handle_offer: a node offers what it has a manifest for.
LEMMA HearStep ==
  ASSUME FleetInv, NEW n \in Nodes, NEW m \in Nodes, NEW v \in Announced(n), Hear(n, m, v)
  PROVE  StepOk
<1> DEFINE s == node[m]
           t == [s EXCEPT !.trial = IF @ = "pending" THEN "none" ELSE @]
           q == [type |-> "manifest", from |-> m, to |-> n, ver |-> s.serve,
                 idx |-> 0, data |-> Erased]
<1>1. NodeOk(m, s) /\ NodeOk(n, node[n])
  BY DEF FleetInv
<1>2. Move(m, s, t)
  BY <1>1, HealthyMove
<1>3. v \in Versions /\ v \in Nat \ {0}
  BY <1>1, NodeFields, OtaAssumption, Pieces, SMTT(30) DEF Announced
<1>4. ASSUME s.serve > v PROVE PacketOk(q)
  <2>1. s.serve \in Versions
    BY <1>1, <1>3, <1>4, NodeFields, SMTT(30)
  <2>2. q \in Packet /\ q.from = m /\ q.to = n
    BY <2>1, Pieces DEF Packet
  <2>3. {m, n} = {n, m}
    OBVIOUS
  <2> QED
    BY <2>2, <2>3 DEF PacketOk, Hear
<1>5. \A x \in net' : PacketOk(x)
  BY <1>4 DEF Hear, FleetInv
<1>6. node' = [node EXCEPT ![m] = t] /\ handle' = handle
  BY DEF Hear, Set
<1> QED
  BY <1>2, <1>5, <1>6, OneMoves

\* The health timer keeps the image.
LEMMA HealthStep ==
  ASSUME FleetInv, NEW n \in Nodes, HealthFallback(n)
  PROVE  StepOk
<1> DEFINE s == node[n]
<1>1. NodeOk(n, s)
  BY DEF FleetInv
<1>2. Move(n, s, [s EXCEPT !.trial = IF @ = "pending" THEN "none" ELSE @])
  BY <1>1, HealthyMove
<1>3. Move(n, s, [s EXCEPT !.trial = "none"])
  BY <1>2 DEF HealthFallback
<1> QED
  BY <1>3, OneMoves DEF HealthFallback, Set, FleetInv

\* handle_manifest.
LEMMA ManifestStep ==
  ASSUME FleetInv, NEW m \in net, Manifest(m)
  PROVE  StepOk
<1> DEFINE n == m.to
           s == node[n]
           rx == [active |-> TRUE, ver |-> m.ver, next |-> 0, retries |-> 0,
                  peer |-> m.from, handle |-> handle[{n, m.from}]]
<1>0. PacketOk(m)
  BY DEF FleetInv
<1>1. n \in Nodes /\ m.from \in Nodes /\ m.ver \in Versions
  BY <1>0 DEF PacketOk, Packet
<1>2. {n, m.from} = {m.from, n}
  OBVIOUS
<1>3. {n, m.from} \in Neighbours /\ NodeOk(n, s)
  BY <1>0, <1>1, <1>2 DEF PacketOk, FleetInv
<1>4. rx \in Rx /\ rx.ver = m.ver /\ rx.peer = m.from
  <2>1. handle[{n, m.from}] \in 0 .. 1 /\ 0 \in 0 .. MaxRetries /\ 0 \in Index
    BY <1>3, OtaAssumption, Pieces, SMTT(30) DEF FleetInv
  <2> QED
    BY <1>1, <2>1 DEF Rx
<1>5. \A x \in Request(n, rx) : PacketOk(x)
  BY <1>1, <1>3, <1>4, RequestOk
<1>6. \A out : Consumed(m, out) /\ (\A x \in out : PacketOk(x)) => \A x \in net' : PacketOk(x)
  BY DEF Consumed, FleetInv
<1>7. handle' = handle
  BY DEF Manifest
<1> HIDE DEF rx
<1>8. CASE /\ Newer(s, m.ver) /\ s.trial # "pending"
           /\ Set(n, [s EXCEPT !.rx = rx]) /\ Consumed(m, Request(n, rx))
  <2>1. m.ver > s.fw
    BY <1>8 DEF Newer
  <2>2. Move(n, s, [s EXCEPT !.rx = rx])
    BY <1>1, <1>3, <1>4, <1>8, <2>1, BeginMove
  <2> QED
    BY <1>1, <1>5, <1>6, <1>7, <1>8, <2>2, OneMoves DEF Set
<1>9. CASE Set(n, [s EXCEPT !.rx = Idle]) /\ Consumed(m, {})
  <2>1. Move(n, s, [s EXCEPT !.rx = Idle])
    BY <1>1, <1>3, IdleMove
  <2>2. \A x \in net' : PacketOk(x)
    BY <1>6, <1>9, SMTT(30)
  <2> QED
    BY <1>1, <1>7, <1>9, <2>1, <2>2, OneMoves DEF Set
<1>10. CASE Set(n, [s EXCEPT !.serve = m.ver, !.nvs = m.ver]) /\ Consumed(m, {})
  <2>1. Move(n, s, [s EXCEPT !.serve = m.ver, !.nvs = m.ver])
    BY <1>1, <1>3, ServeMove
  <2>2. \A x \in net' : PacketOk(x)
    BY <1>6, <1>10, SMTT(30)
  <2> QED
    BY <1>1, <1>7, <1>10, <2>1, <2>2, OneMoves DEF Set
<1>11. CASE Consumed(m, {}) /\ UNCHANGED node
  BY <1>6, <1>7, <1>11, NoneMoves, SMTT(30) DEF FleetInv
<1> QED
  BY <1>8, <1>9, <1>10, <1>11 DEF Manifest, rx

\* handle_req.
LEMMA ReqStep ==
  ASSUME FleetInv, NEW m \in net, Req(m)
  PROVE  StepOk
<1> DEFINE s == node[m.to]
           q == [m EXCEPT !.type = "chunk", !.from = m.to, !.to = m.from, !.data = Served(s, m.idx)]
<1>0. PacketOk(m)
  BY DEF FleetInv
<1>1. m \in Packet /\ m.to \in Nodes /\ m.idx \in Index
  BY <1>0 DEF PacketOk, Packet
<1>2. Served(s, m.idx) \in Data
  BY <1>1, NodeFields, SMTT(30) DEF Served, FleetInv
<1>3. q \in Packet /\ q.from = m.to /\ q.to = m.from
  BY <1>1, <1>2, ZenonT(30) DEF Packet
<1>4. {m.to, m.from} = {m.from, m.to}
  OBVIOUS
<1>5. PacketOk(q)
  BY <1>0, <1>3, <1>4 DEF PacketOk
<1>6. \A x \in net' : PacketOk(x)
  BY <1>5 DEF Req, Consumed, FleetInv
<1> QED
  BY <1>6, NoneMoves DEF Req, FleetInv

\* handle_chunk and finish_receive.
LEMMA ChunkStep ==
  ASSUME FleetInv, NEW m \in net, Chunk(m)
  PROVE  StepOk
<1> DEFINE n == m.to
           s == node[n]
           t == Took(s, m.data)
           given == [t EXCEPT !.rx = Idle]
<1>0. PacketOk(m)
  BY DEF FleetInv
<1>1. n \in Nodes /\ m.data \in Data
  BY <1>0 DEF PacketOk, Packet
<1>2. NodeOk(n, s)
  BY <1>1 DEF FleetInv
<1>3. /\ s \in NodeState /\ s.rx \in Rx /\ s.rx.next \in Index /\ s.rx.next \in Int
      /\ s.running \in 0 .. 1
  BY <1>2, NodeFields
<1>4. \A out : Consumed(m, out) /\ (\A x \in out : PacketOk(x)) => \A x \in net' : PacketOk(x)
  BY DEF Consumed, FleetInv
<1>5. handle' = handle
  BY DEF Chunk
<1>6. t.rx = RxAfter(s) /\ t.rx.next = s.rx.next + 1 /\ t.rx.ver = s.rx.ver /\ t.rx.peer = s.rx.peer
  <2>1. /\ t = [s EXCEPT !.parts = PartsWith(s, m.data), !.rx = RxAfter(s)]
        /\ RxAfter(s).ver = s.rx.ver /\ RxAfter(s).peer = s.rx.peer
        /\ RxAfter(s).next = s.rx.next + 1
    BY <1>1, <1>2, TookFields, ZenonT(30)
  <2>2. t.rx = RxAfter(s)
    BY <1>3, <2>1 DEF NodeState
  <2> QED
    BY <2>1, <2>2
<1>7. t = [s EXCEPT !.parts[Target(s)] = Written(@, s.rx.next, m.data),
                    !.rx.next = @ + 1, !.rx.retries = 0]
  BY DEF Took
<1> HIDE DEF t
<1>8. CASE Consumed(m, {}) /\ UNCHANGED node
  BY <1>4, <1>5, <1>8, NoneMoves, SMTT(30) DEF FleetInv
<1>9. CASE s.rx.active /\ Consumed(m, Request(n, s.rx)) /\ UNCHANGED node
  <2>1. \A x \in Request(n, s.rx) : PacketOk(x)
    BY <1>1, <1>2, <1>3, <1>9, RequestOk DEF NodeOk
  <2> QED
    BY <1>4, <1>5, <1>9, <2>1, NoneMoves DEF FleetInv
<1>10. CASE s.rx.active /\ t.rx.next < Chunks /\ Set(n, t) /\ Consumed(m, Request(n, t.rx))
  <2>1. s.rx.next + 1 < Chunks
    BY <1>6, <1>10
  <2>2. Move(n, s, t)
    BY <1>1, <1>2, <1>10, <2>1, ChunkMove DEF t
  <2>3. s.rx.next + 1 \in Index
    BY <1>3, <2>1, OtaAssumption, SMTT(30) DEF Index
  <2>4. t.rx \in Rx
    BY <1>1, <1>2, <1>6, <2>3, TookFields, ZenonT(30)
  <2>5. \A x \in Request(n, t.rx) : PacketOk(x)
    BY <1>1, <1>2, <1>6, <1>10, <2>4, RequestOk DEF NodeOk
  <2> QED
    BY <1>1, <1>4, <1>5, <1>10, <2>2, <2>5, OneMoves DEF Set
<1>11. CASE s.rx.active /\ ~ s.reboot /\ Finish(t, n) /\ Consumed(m, {})
  <2> DEFINE done == [given EXCEPT !.boot = 1 - s.running, !.trial = "new", !.reboot = TRUE]
             stored == [done EXCEPT !.serve = s.rx.ver, !.nvs = s.rx.ver]
  <2>1. /\ Move(n, s, given)
        /\ given.parts = t.parts /\ given.running = s.running /\ given.fw = s.fw
        /\ t.running = s.running /\ t.rx.ver = s.rx.ver
    BY <1>1, <1>2, <1>11, GivenMove DEF t
  <2>2. Target(t) = 1 - s.running
    BY <2>1 DEF Target
  <2>3. ~ given.rx.active
    <3>1. given.rx = Idle
      <4>1. t = [s EXCEPT !.parts = PartsWith(s, m.data), !.rx = RxAfter(s)]
        BY <1>1, <1>2, TookFields, ZenonT(30) DEF t
      <4> QED
        BY <1>3, <4>1 DEF NodeState
    <3> QED
      BY <3>1, Pieces
  <2> HIDE DEF given
  <2>4. ASSUME Verified(t.parts[Target(t)], t.rx.ver)
        PROVE  Move(n, s, done) /\ Move(n, s, stored)
    <3>1. given.parts[1 - s.running] = Image(s.rx.ver)
      BY <2>1, <2>2, <2>4 DEF Verified
    <3> QED
      BY <1>1, <1>2, <1>11, <2>1, <2>3, <3>1, SwitchMove
  <2>5. \/ node' = [node EXCEPT ![n] = given]
        \/ /\ Verified(t.parts[Target(t)], t.rx.ver)
           /\ node' = [node EXCEPT ![n] = done] \/ node' = [node EXCEPT ![n] = stored]
    BY <1>11, <2>1, <2>2 DEF Finish, Set, given
  <2>6. \A x \in net' : PacketOk(x)
    BY <1>4, <1>11, SMTT(30)
  <2>7. CASE node' = [node EXCEPT ![n] = given]
    BY <1>1, <1>5, <2>1, <2>6, <2>7, OneMoves
  <2>8. CASE /\ Verified(t.parts[Target(t)], t.rx.ver)
             /\ node' = [node EXCEPT ![n] = done]
    BY <1>1, <1>5, <2>4, <2>6, <2>8, OneMoves
  <2>9. CASE /\ Verified(t.parts[Target(t)], t.rx.ver)
             /\ node' = [node EXCEPT ![n] = stored]
    BY <1>1, <1>5, <2>4, <2>6, <2>9, OneMoves
  <2> QED
    BY <2>5, <2>7, <2>8, <2>9
<1>12. CASE Set(n, [s EXCEPT !.rx = Idle]) /\ Consumed(m, {})
  <2>1. Move(n, s, [s EXCEPT !.rx = Idle])
    BY <1>1, <1>2, IdleMove
  <2>2. \A x \in net' : PacketOk(x)
    BY <1>4, <1>12, SMTT(30)
  <2> QED
    BY <1>1, <1>5, <1>12, <2>1, <2>2, OneMoves DEF Set
<1> QED
  BY <1>7, <1>8, <1>9, <1>10, <1>11, <1>12 DEF Chunk

\* The receive timer.
LEMMA TimeoutStep ==
  ASSUME FleetInv, NEW n \in Nodes, Timeout(n)
  PROVE  StepOk
<1> DEFINE s == node[n]
<1>1. NodeOk(n, s) /\ s.rx \in Rx
  BY NodeFields DEF FleetInv
<1>2. handle' = handle /\ s.rx.active
  BY DEF Timeout
<1>3. CASE Exhausted(s.rx)
  <2>1. Move(n, s, [s EXCEPT !.rx = Idle])
    BY <1>1, IdleMove
  <2>2. node' = [node EXCEPT ![n] = [s EXCEPT !.rx = Idle]] /\ net' = net
    BY <1>3 DEF Timeout, Set
  <2> QED
    BY <1>2, <2>1, <2>2, OneMoves DEF FleetInv
<1>4. CASE ~ Exhausted(s.rx)
  <2>1. Move(n, s, [s EXCEPT !.rx.retries = @ + 1])
    BY <1>1, <1>4, RetryMove
  <2>2. node' = [node EXCEPT ![n] = [s EXCEPT !.rx.retries = @ + 1]] /\ net' = net \cup Request(n, s.rx)
    BY <1>4 DEF Timeout, Set
  <2>3. \A x \in Request(n, s.rx) : PacketOk(x)
    BY <1>1, <1>2, RequestOk DEF NodeOk
  <2> QED
    BY <1>2, <2>1, <2>2, <2>3, OneMoves DEF FleetInv
<1> QED
  BY <1>3, <1>4

\* A reset, planned or not.
LEMMA RestartStep ==
  ASSUME FleetInv, NEW n \in Nodes, Restart(n), handle' = handle
  PROVE  StepOk
<1>1. Move(n, node[n], Booted(n))
  BY BootMove DEF FleetInv
<1>2. node' = [node EXCEPT ![n] = Booted(n)] /\ \A x \in net' : PacketOk(x)
  BY DEF Restart, Set, FleetInv
<1> QED
  BY <1>1, <1>2, OneMoves

\* Nodes as they were flashed by wire are sound.
LEMMA FleetInit == Init => FleetInv
<1> SUFFICES ASSUME Init PROVE FleetInv
  OBVIOUS
<1>1. ASSUME NEW n \in Nodes PROVE NodeOk(n, node[n])
  <2> DEFINE s == Factory(n)
             parts == [p \in 0 .. 1 |-> IF p = 0 THEN Image(Firmware[n]) ELSE Blank]
  <2>1. Firmware[n] \in Versions
    BY OtaAssumption
  <2>2. parts \in [0 .. 1 -> [Index -> Data]] /\ parts[0] = Image(Firmware[n])
    BY <2>1, Pieces, SMTT(30)
  <2> HIDE DEF parts
  <2>3. /\ s \in NodeState /\ s.parts = parts /\ s.running = 0 /\ s.boot = 0 /\ s.trial = "none"
        /\ s.fw = Firmware[n] /\ s.rx = Idle /\ ~ s.reboot
    BY <2>1, <2>2, Pieces, SMTT(30) DEF Factory, NodeState, parts
  <2>4. NodeOk(n, s)
    BY <2>2, <2>3, Pieces DEF NodeOk
  <2> QED
    BY <2>4 DEF Init
<1>2. DOMAIN node = Nodes /\ net = {} /\ handle \in [Neighbours -> 0 .. 1]
  BY SMTT(30) DEF Init
<1> QED
  BY <1>1, <1>2 DEF FleetInv

\* Every step of the fleet is sound.
LEMMA FleetStep == FleetInv /\ [Next]_vars => FleetInv' /\ [SwitchesToVerified /\ NoDowngrade]_vars
<1> SUFFICES ASSUME FleetInv, [Next]_vars
             PROVE  FleetInv' /\ [SwitchesToVerified /\ NoDowngrade]_vars
  OBVIOUS
<1>1. CASE \E m \in net : Receive(m) \/ Lose(m)
  <2>1. PICK m \in net : Receive(m) \/ Lose(m)
    BY <1>1
  <2>2. CASE Lose(m)
    BY <2>2, NoneMoves DEF Lose, FleetInv, StepOk
  <2> QED
    BY <2>1, <2>2, ManifestStep, ReqStep, ChunkStep DEF Receive, StepOk
<1>2. CASE \E n, m \in Nodes : \E v \in Announced(n) : Hear(n, m, v)
  BY <1>2, HearStep DEF StepOk
<1>3. CASE \E n \in Nodes : HealthFallback(n) \/ Timeout(n) \/ Reboot(n) \/ Crash(n)
  BY <1>3, HealthStep, TimeoutStep, RestartStep DEF Reboot, Crash, StepOk
<1>4. CASE \E p \in Neighbours : Drop(p)
  <2>1. PICK p \in Neighbours, h \in 0 .. 1 :
          node' = node /\ handle' = [handle EXCEPT ![p] = h] /\ net' \subseteq net
    BY <1>4 DEF Drop
  <2>2. handle' \in [Neighbours -> 0 .. 1] /\ \A x \in net' : PacketOk(x)
    BY <2>1 DEF FleetInv
  <2> QED
    BY <2>1, <2>2, NoneMoves DEF StepOk
<1>5. CASE UNCHANGED vars
  BY <1>5 DEF vars, FleetInv
<1> QED
  BY <1>1, <1>2, <1>3, <1>4, <1>5 DEF Next

\* Whatever is lost, late, repeated, interrupted or served by a node in the
\* middle of its own update, every node of every fleet runs one whole signed
\* image, and has one to fall back to while a new one is on trial.
THEOREM NodesRunWholeImages == Spec => []UpdateSound
<1>1. FleetInv => UpdateSound
  <2> SUFFICES ASSUME FleetInv PROVE UpdateSound
    OBVIOUS
  <2>1. RunsWholeImage
    BY DEF RunsWholeImage, FleetInv, NodeOk
  <2>2. net \subseteq Packet /\ handle \in [Neighbours -> 0 .. 1]
    BY DEF FleetInv, PacketOk
  <2>3. ASSUME NEW n \in Nodes
        PROVE  LET s == node[n] IN
               /\ s.parts \in [0 .. 1 -> [Index -> Data]]
               /\ s.running \in 0 .. 1 /\ s.boot \in 0 .. 1 /\ s.trial \in {"none", "new", "pending"}
               /\ s.fw \in Versions /\ {s.nvs, s.serve} \subseteq Versions \cup {0}
               /\ s.rx.next \in Index /\ s.rx.retries \in 0 .. MaxRetries
    <3>1. node[n] \in NodeState
      BY DEF FleetInv, NodeOk
    <3> QED
      BY <3>1 DEF NodeState, Rx
  <2>4. TypeOK
    BY <2>2, <2>3 DEF TypeOK
  <2> QED
    BY <2>1, <2>4 DEF UpdateSound
<1> QED
  BY <1>1, FleetInit, FleetStep, PTL DEF Spec

\* "verifies the SHA-256 of the fully written image before switching to it"
\* and "no downgrades": every step of every fleet switches to the release that
\* was received only, and runs an older one only after a failed trial.
THEOREM UpdatesOnlyForward == Spec => UpdateSteps
  BY FleetInit, FleetStep, PTL DEF Spec, UpdateSteps
=============================================================================
