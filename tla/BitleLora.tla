----------------------------- MODULE BitleLora ------------------------------
(***************************************************************************)
(* The LoRa trunk (src/main/bitle_lora.c) of a few nodes that share one    *)
(* channel: packets are admitted to a queue as a whole, the radio task     *)
(* cuts them into frames, sends each after channel activity detection,     *)
(* waits for its acknowledgement, sends it again when none comes, and      *)
(* reassembles what it receives.                                           *)
(*                                                                         *)
(* One turn of lora_task is two kinds of step: one event read from the     *)
(* radio and handled, and the rest of the loop's body.  The interrupts of  *)
(* the radio, the senders of packets and the other nodes come in between.  *)
(***************************************************************************)
EXTENDS LoraGovernor, LoraRadio

CONSTANTS
  QueueDepth,     \* TX_BATCH_QUEUE_DEPTH
  CadRetries,     \* CAD_RETRIES
  ArqTries,       \* ARQ_TRIES
  AckOutbox,      \* ACK_OUTBOX
  RxSlots,        \* RX_SLOTS
  Ticks,          \* the steps by which time advances, milliseconds
  Scenes          \* what happens: one is chosen in the initial state

ASSUME LoraAssumption ==
  /\ ArqTries \in Nat /\ ArqTries >= 2
  /\ Ticks \subseteq Nat /\ Nodes \subseteq Origins
  /\ \A c \in Scenes : c.offers \subseteq Packet

VARIABLES
  node,       \* of each node: the state of lora_task and its queues
  gov,        \* of each node: the governor
  now,        \* milliseconds
  inbox,      \* of each node: the packets given to the mesh, as their parts
  left,       \* of each node: packets its mesh still sends, beacons still due
  acked,      \* packets whose every frame was acknowledged
  aborted,    \* whether an acknowledgement was cut off by a retransmission
  scene

taskVars == <<node, inbox, acked, aborted>>
loraVars == <<radio, faults, node, gov, now, inbox, left, acked, aborted, scene>>

NoBatch == [id |-> <<0, 0, 0>>, len |-> 0, seq |-> 0, total |-> 0, ack |-> FALSE]

NewNode(boot, ok) ==
  [active |-> ok, q |-> <<>>, seq |-> 0, batch |-> NoBatch, next |-> 0, pend |-> NoFrame,
   cads |-> 0, sends |-> 0, txd |-> FALSE, isack |-> FALSE, cad |-> FALSE,
   wack |-> FALSE, acks |-> <<>>, seen |-> <<>>, slots |-> <<>>, boot |-> boot]

\* bitle_lora_init found a radio: the bucket is full, the radio listens.
Init ==
  /\ scene \in Scenes
  /\ RadioInit
  /\ faults = scene.faults
  /\ node = [n \in Nodes |-> NewNode(0, TRUE)]
  /\ now = 0
  /\ gov = [n \in Nodes |-> NewGovernor(0)]
  /\ inbox = [n \in Nodes |-> {}]
  /\ left = scene.left
  /\ acked = {}
  /\ aborted = FALSE

-----------------------------------------------------------------------------
(* Sending a packet: lora_link_send.                                        *)

\* The result, the governor and the node after node n is given a packet.
lora_link_send(n, s, g, p) ==
  LET len == trunk_true_len(p)
      a == trunk_admit(g, p, len, now, scene.ota)
      batch == [id |-> <<n, s.boot, s.seq + 1>>, len |-> len, seq |-> s.seq + 1,
                total |-> Fragments(len), ack |-> p.type \notin AnnounceTypes]
      full == ~s.active \/ (len >= PktMinLen /\ Len(s.q) >= QueueDepth)
  IN  IF full \/ len < PktMinLen
        THEN [ret |-> IF full THEN -1 ELSE 0, g |-> g, s |-> s]
      ELSE [ret |-> 0, g |-> a.g,
            s |-> IF a.ok THEN [s EXCEPT !.seq = @ + 1, !.q = Append(@, batch)] ELSE s]

\* No task and no radio has anything to do.
Drained ==
  \A n \in Nodes :
    /\ node[n].q = <<>> /\ node[n].batch = NoBatch /\ node[n].pend = NoFrame
    /\ node[n].acks = <<>> /\ radio[n].irq = {} /\ radio[n].mode = "rx"

\* The mesh relays a packet to the trunk.  Where time passes, only when the
\* one before has been sent: the governor does not look at the radio.
Send(n, p) ==
  /\ left[n].sends > 0 /\ (scene.horizon > 0 => Drained)
  /\ LET w == lora_link_send(n, node[n], gov[n], p)
     IN  /\ gov' = [gov EXCEPT ![n] = w.g]
         /\ node' = [node EXCEPT ![n] = w.s]
  /\ left' = [left EXCEPT ![n].sends = @ - 1]
  /\ UNCHANGED <<radio, faults, now, inbox, acked, aborted, scene>>

Own(n, type, payload) ==
  [type |-> type, sender |-> n, to |-> FALSE, sig |-> TRUE,
   payload |-> payload, wire |-> 86 + payload]

\* The beacon: the node's own announce and, if the link took it, its
\* capability.
Beacon(n) ==
  /\ left[n].beacons > 0
  /\ LET a == lora_link_send(n, node[n], gov[n], Own(n, "announce", 80))
         c == lora_link_send(n, a.s, a.g, Own(n, "capability", 3))
         w == IF a.ret = 0 THEN c ELSE a
     IN  /\ gov' = [gov EXCEPT ![n] = w.g]
         /\ node' = [node EXCEPT ![n] = w.s]
  /\ left' = [left EXCEPT ![n].beacons = @ - 1]
  /\ UNCHANGED <<radio, faults, now, inbox, acked, aborted, scene>>

\* A tick is long enough for the task to send what it has.
Tick(d) ==
  /\ now + d <= scene.horizon
  /\ Drained
  /\ now' = now + d
  /\ UNCHANGED <<radio, faults, taskVars, gov, left, scene>>

\* The observer starts to count announces, once, at any moment.
Observe(n) ==
  /\ scene.left[n].sends > 0 /\ now > 0 /\ gov[n].since = 0
  /\ gov' = [gov EXCEPT ![n].since = now, ![n].announced = 0]
  /\ UNCHANGED <<radio, faults, taskVars, now, left, scene>>

-----------------------------------------------------------------------------
(* Frames.                                                                  *)

FrameOf(n, b, i) ==
  [src |-> n, dst |-> 0, ack |-> FALSE, req |-> b.ack, seq |-> b.seq, idx |-> i,
   total |-> b.total, part |-> [id |-> b.id, idx |-> i, len |-> ChunkLen(b.len, i)]]

AckOf(n, a) ==
  [src |-> n, dst |-> a.dst, ack |-> TRUE, req |-> FALSE, seq |-> a.seq,
   idx |-> a.idx, total |-> a.total,
   part |-> [id |-> <<0, 0, 0>>, idx |-> 0, len |-> 0]]

FrameAir(f) == lora_airtime_ms(TrunkHdrLen + f.part.len)

queue_ack(s, f) ==
  IF Len(s.acks) >= AckOutbox THEN s
  ELSE [s EXCEPT !.acks = Append(@, [dst |-> f.src, seq |-> f.seq,
                                     idx |-> f.idx, total |-> f.total])]

-----------------------------------------------------------------------------
(* Reassembly.  The slots in use are kept in the order they were started,   *)
(* so the oldest is the first.  `old` marks one whose ten seconds are over. *)

Matches(slot, f) == slot.src = f.src /\ slot.seq = f.seq

NewSlot(f) ==
  [src |-> f.src, seq |-> f.seq, total |-> f.total, old |-> FALSE,
   parts |-> [i \in 0..(f.total - 1) |-> NoFrame]]

\* The slots once there is one for f: the oldest makes room.
SlotsFor(slots, f) ==
  LET live == SelectSeq(slots, LAMBDA x : ~x.old)
  IN  IF \E i \in 1..Len(live) : Matches(live[i], f) THEN live
      ELSE Append(IF Len(live) < RxSlots THEN live ELSE Tail(live), NewSlot(f))

\* A data frame: where it is kept, and the packet once it is complete.
Reassemble(slots0, f) ==
  LET slots == SlotsFor(slots0, f)
      k == CHOOSE i \in 1..Len(slots) : Matches(slots[i], f)
      parts == [slots[k].parts EXCEPT ![f.idx] = f.part]
      done == \A i \in DOMAIN parts : parts[i] # NoFrame
  IN  IF slots[k].total # f.total THEN [slots |-> slots, got |-> <<>>]
      ELSE IF done
        THEN [slots |-> SelectSeq(slots, LAMBDA x : ~Matches(x, f)),
              got |-> [i \in 1..f.total |-> parts[i - 1]]]
      ELSE [slots |-> [slots EXCEPT ![k].parts = parts], got |-> <<>>]

\* What node n does with the frame in its radio's buffer: s and a packet.
rx_frame(n, s, f) ==
  CASE f = NoFrame -> [s |-> s, got |-> <<>>]
    [] f # NoFrame ->
      IF f.src = n THEN [s |-> s, got |-> <<>>]
      ELSE IF f.ack
        THEN [s |-> IF f.dst = n THEN [s EXCEPT !.seen = <<f.seq, f.idx>>] ELSE s,
              got |-> <<>>]
      ELSE LET s1 == IF f.req THEN queue_ack(s, f) ELSE s
               x == Reassemble(s1.slots, f)
           IN  [s |-> [s1 EXCEPT !.slots = x.slots], got |-> x.got]

-----------------------------------------------------------------------------
(* lora_task.  w holds the node's state s, its radio r and the packet got.  *)
(* ok says whether the radio commands of the step that can fail succeed.    *)

DropFrame(s) == [s EXCEPT !.pend = NoFrame]
DropBatch(s) == [s EXCEPT !.pend = NoFrame, !.batch = NoBatch, !.next = 0]

transmit_ack_now(n, w, ok) ==
  LET s == [w.s EXCEPT !.acks = Tail(@)]
  IN  IF ok THEN [w EXCEPT !.s = [s EXCEPT !.txd = TRUE, !.isack = TRUE],
                           !.r = sx1262_transmit(@, AckOf(n, Head(w.s.acks)))]
      ELSE [w EXCEPT !.s = s, !.r = sx1262_resume_rx(TransmitFails(@))]

\* Start activity detection for the pending frame, or give the packet up.
\* The radio is left in standby by a command that failed.
StartCad(w, ok) ==
  IF ok THEN [w EXCEPT !.s.cad = TRUE, !.r = sx1262_start_cad(@)]
  ELSE [w EXCEPT !.s = DropBatch(@), !.r = CadFails(@)]

OnRxDone(n, w, ok) ==
  LET x == rx_frame(n, w.s, sx1262_read_packet(w.r, ok))
  IN  [w EXCEPT !.s = x.s, !.got = x.got]

\* An acknowledgement went out, or a frame that now waits for its own, or a
\* frame that waits for none.
OnTxDone(n, w, ok) ==
  LET s == [w.s EXCEPT !.txd = FALSE, !.isack = FALSE]
  IN  [w EXCEPT !.r = sx1262_resume_rx(@),
                !.s = IF w.s.isack THEN s
                      ELSE IF s.pend # NoFrame /\ s.pend.req
                        THEN [s EXCEPT !.wack = TRUE]
                      ELSE DropFrame(s)]

OnCadClear(n, w0, ok) ==
  LET w == [w0 EXCEPT !.s.cad = FALSE]
  IN  IF w.s.acks # <<>> THEN transmit_ack_now(n, w, ok)
      ELSE IF w.s.pend = NoFrame THEN w
      ELSE IF ok THEN [w EXCEPT !.s.txd = TRUE, !.s.sends = @ + 1,
                                !.r = sx1262_transmit(@, w.s.pend)]
      ELSE [w EXCEPT !.s = DropBatch(@), !.r = sx1262_resume_rx(TransmitFails(@))]

OnCadBusy(n, w0, ok) ==
  LET w == [w0 EXCEPT !.s.cad = FALSE,
                      !.s.cads = IF w0.s.pend # NoFrame THEN @ + 1 ELSE @]
  IN  IF w.s.pend # NoFrame /\ w.s.cads <= CadRetries
        THEN IF ok THEN [w EXCEPT !.s.cad = TRUE, !.r = sx1262_start_cad(@)]
             ELSE [w EXCEPT !.r = CadFails(@)]
      ELSE [w EXCEPT !.s = DropBatch(@), !.r = sx1262_resume_rx(@)]

\* The mutated form forgets that no transmission is awaited any more.
OnTimeoutMutant(n, w, ok) ==
  [w EXCEPT !.s = [DropBatch(@) EXCEPT !.wack = FALSE],
            !.r = sx1262_resume_rx(@)]

OnTimeout(n, w, ok) ==
  [w EXCEPT !.s = [DropBatch(@) EXCEPT !.txd = FALSE, !.wack = FALSE],
            !.r = sx1262_resume_rx(@)]

Handled(n, w, ok) ==
  LET e == sx1262_poll_event(radio[n])
  IN  CASE e = "RX_DONE" -> OnRxDone(n, w, ok)
        [] e = "TX_DONE" -> OnTxDone(n, w, ok)
        [] e = "CAD_CLEAR" -> OnCadClear(n, w, ok)
        [] e = "CAD_BUSY" -> OnCadBusy(n, w, ok)
        [] e = "TIMEOUT" -> OnTimeout(n, w, ok)
        [] OTHER -> w

\* Acknowledgements fly when the radio is free.
AcksFly(n, w, ok) ==
  IF w.s.acks # <<>> /\ ~w.s.txd /\ ~w.s.cad THEN transmit_ack_now(n, w, ok) ELSE w

\* The mutated form takes any acknowledgement of the packet for the frame's.
ResolveAckMutant(w, late, ok) ==
  LET s == [w.s EXCEPT !.wack = FALSE]
  IN  CASE ~w.s.wack \/ w.s.pend = NoFrame -> w
        [] w.s.wack /\ w.s.pend # NoFrame ->
          IF w.s.seen # <<>>
            THEN [w EXCEPT !.s = [DropFrame(s) EXCEPT !.seen = <<>>]]
          ELSE IF late THEN [w EXCEPT !.s = DropBatch(s)] ELSE w

\* The wait for the frame's acknowledgement ends: it came, or it is late.
ResolveAck(w, late, ok) ==
  LET s == [w.s EXCEPT !.wack = FALSE]
  IN  CASE ~w.s.wack \/ w.s.pend = NoFrame -> w
        [] w.s.wack /\ w.s.pend # NoFrame ->
          IF w.s.seen = <<w.s.pend.seq, w.s.pend.idx>>
            THEN [w EXCEPT !.s = [DropFrame(s) EXCEPT !.seen = <<>>]]
          ELSE IF ~late THEN w
          ELSE IF w.s.sends < ArqTries
            THEN StartCad([w EXCEPT !.s = [s EXCEPT !.cads = 0]], ok)
          ELSE [w EXCEPT !.s = DropBatch(s)]

\* A frame that no event will move starts over.
Rearm(w, ok) ==
  IF w.s.pend # NoFrame /\ ~w.s.cad /\ ~w.s.txd /\ ~w.s.wack THEN StartCad(w, ok) ELSE w

\* Nothing pending: the next frame of this packet, or of the next one.
NextFrame(n, w, ok) ==
  LET s == w.s
      over == s.next >= s.batch.total
      b == IF ~over THEN s.batch ELSE IF s.q # <<>> THEN Head(s.q) ELSE NoBatch
      i == IF over THEN 0 ELSE s.next
  IN  IF s.pend # NoFrame \/ s.txd \/ s.cad \/ s.wack THEN w
      ELSE IF b = NoBatch THEN [w EXCEPT !.s = DropBatch(@)]
      ELSE StartCad([w EXCEPT !.s = [s EXCEPT
                        !.q = IF over THEN Tail(@) ELSE @,
                        !.batch = b, !.next = i + 1, !.pend = FrameOf(n, b, i),
                        !.cads = 0, !.sends = 0, !.seen = <<>>]], ok)

Rested(n, w, late, ok) ==
  NextFrame(n, Rearm(ResolveAck(AcksFly(n, w, ok), late, ok), ok), ok)

Oks == IF faults > 0 /\ scene.spi THEN BOOLEAN ELSE {TRUE}

\* The step's result becomes the state.
Commit(n, w, cost) ==
  /\ node' = [node EXCEPT ![n] = w.s]
  /\ SetRadio(n, w.r)
  /\ inbox' = [inbox EXCEPT ![n] = IF w.got = <<>> THEN @ ELSE @ \cup {w.got}]
  /\ faults' = faults - cost
  /\ UNCHANGED <<gov, now, left, scene>>

HandleEvent(n) ==
  LET w == [s |-> node[n], r |-> [radio[n] EXCEPT !.irq = {}], got |-> <<>>]
  IN  /\ radio[n].irq # {}
      /\ \E ok \in Oks :
           /\ ok \/ Handled(n, w, FALSE) # Handled(n, w, TRUE)
           /\ Commit(n, Handled(n, w, ok), IF ok THEN 0 ELSE 1)
      /\ UNCHANGED <<acked, aborted>>

\* Whether the rest of the loop's body has something to do.
CanRest(n) ==
  LET s == node[n]
      free == ~s.txd /\ ~s.cad
  IN  \/ s.acks # <<>> /\ free
      \/ s.wack /\ s.pend # NoFrame
      \/ s.pend # NoFrame /\ free /\ ~s.wack
      \/ s.pend = NoFrame /\ free /\ ~s.wack /\ (s.q # <<>> \/ s.batch # NoBatch)

\* The frame n waits for, or its acknowledgement, is under way.  That takes
\* well under the 1.2 s that the deadline adds to it.
UnderWay(n) ==
  \/ "RX_DONE" \in radio[n].irq
  \/ \E m \in Nodes \ {n} :
       \/ "RX_DONE" \in radio[m].irq
       \/ \E i \in 1..Len(node[m].acks) : node[m].acks[i].dst = n
       \/ radio[m].mode = "tx" /\ radio[m].buf.dst = n

\* The task's rest of a turn.  The deadline passes at any time, but while the
\* answer is under way only if a node is slow, which is a fault.
Rest(n) ==
  LET w == [s |-> node[n], r |-> radio[n], got |-> <<>>]
  IN  /\ CanRest(n)
      /\ \E late \in BOOLEAN, ok \in Oks :
           LET v == Rested(n, w, late, ok)
               slow == late /\ UnderWay(n) /\ v # Rested(n, w, FALSE, ok)
               cost == (IF ok THEN 0 ELSE 1) + (IF slow THEN 1 ELSE 0)
               s == node[n]
               hit == s.wack /\ s.pend # NoFrame /\ s.seen = <<s.pend.seq, s.pend.idx>>
           IN  /\ v # w
               /\ ok \/ v # Rested(n, w, late, TRUE)
               /\ cost <= faults
               /\ Commit(n, v, cost)
               /\ acked' = IF hit /\ s.next = s.batch.total
                             THEN acked \cup {s.batch.id} ELSE acked
               /\ aborted' = (aborted \/ (v.s.txd /\ v.s.cad))

\* Ten seconds go by for the slots that a node has open.
SlotsAge(n) ==
  /\ faults > 0 /\ scene.ages /\ node[n].slots # <<>>
  /\ node' = [node EXCEPT ![n].slots =
                [i \in DOMAIN @ |-> [@[i] EXCEPT !.old = TRUE]]]
  /\ faults' = faults - 1
  /\ UNCHANGED <<radio, gov, now, inbox, left, acked, aborted, scene>>

\* A node starts again; its sequence numbers do too.  bitle_lora_init may not
\* find the radio this time.
Reboot(n) ==
  /\ node[n].boot < scene.reboots
  /\ \E ok \in Oks :
       /\ node' = [node EXCEPT ![n] = NewNode(node[n].boot + 1, ok)]
       /\ SetRadio(n, [(IF ok THEN IdleRadio ELSE NoRadio) EXCEPT !.cut = TRUE])
       /\ faults' = faults - (IF ok THEN 0 ELSE 1)
  /\ gov' = [gov EXCEPT ![n] = NewGovernor(now)]
  /\ UNCHANGED <<now, inbox, left, acked, aborted, scene>>

Air(n) ==
  /\ \/ CadDone(n)
     \/ radio[n].mode = "tx" /\ (\/ TxDone(n, FrameAir(radio[n].buf))
                                 \/ TxTimeout(n, FrameAir(radio[n].buf)))
  /\ UNCHANGED <<taskVars, gov, now, left, scene>>

Next ==
  \/ \E n \in Nodes :
       \/ \E p \in scene.offers : Send(n, p)
       \/ Beacon(n) \/ Observe(n)
       \/ HandleEvent(n) \/ Rest(n) \/ Air(n)
       \/ SlotsAge(n) \/ Reboot(n)
  \/ \E d \in Ticks : Tick(d)

Spec == Init /\ [][Next]_loraVars

\* The task runs at least every 50 ms and the radio ends what it started.
FairSpec ==
  /\ Spec
  /\ \A n \in Nodes :
       /\ []<>(radio[n].irq = {}) \/ []<><<HandleEvent(n)>>_loraVars
       /\ []<>(~CanRest(n)) \/ []<><<Rest(n)>>_loraVars
       /\ []<>(radio[n].mode \notin {"cad", "tx"}) \/ []<><<Air(n)>>_loraVars

-----------------------------------------------------------------------------
(* Properties.                                                              *)

\* The state of every node, its radio and its governor has its type.
TypeOK ==
  /\ \A n \in Nodes :
       /\ radio[n].mode \in Modes /\ radio[n].irq \subseteq Irqs
       /\ Len(node[n].q) <= QueueDepth /\ Len(node[n].acks) <= AckOutbox
       /\ Len(node[n].slots) <= RxSlots
       /\ gov[n].credit \in -(100 * GovBurst)..(100 * GovBurst)
       /\ Len(gov[n].throttle) <= ThrottleSlots
  /\ faults \in Nat /\ now \in Nat

\* rx_frame gives the mesh only whole packets of another node: the fragments
\* 0 to total - 1 of one sequence number of one sender, never the node's own
\* frame read back from the buffer it shares with reception, and, unless
\* that sender started again and counts from 1 again, of one packet.
DeliveredWhole ==
  \A n \in Nodes : \A d \in inbox[n] :
    LET m == d[1].id[1] IN
      /\ m # n
      /\ \A i \in 1..Len(d) :
           /\ d[i].idx = i - 1 /\ d[i].id[1] = m /\ d[i].id[3] = d[1].id[3]
           /\ node[m].boot = 0 => d[i].id = d[1].id

\* A packet whose every frame was acknowledged has been given to the mesh at
\* the other end.  It fails when the frames take longer than the ten seconds
\* that rx_frame keeps an unfinished packet, or when a node starts again.  It
\* is about a trunk of two nodes: with three, the acknowledgement of one says
\* nothing about the other.
AckedArrived ==
  \A id \in acked : \E n \in Nodes \ {id[1]} : \E d \in inbox[n] : d[1].id = id

\* Stop and wait does what it is for, whatever frames and acknowledgements
\* are lost, late or repeated: AckedArrived, as long as no unfinished packet
\* ages and nobody starts again.
AckedIsDelivered == scene.ages \/ scene.reboots > 0 \/ AckedArrived

\* A frame is sent at most ARQ_TRIES times, with timeouts, lost events and
\* preempting acknowledgements, unless a late frame has cut off the node's
\* own acknowledgement.
SendsBounded == \A n \in Nodes : aborted \/ node[n].sends <= ArqTries

\* Announces stay within the airtime budget: over any time they take at most
\* the burst and the duty cycle's share, whatever messages are sent between.
AirtimeBounded ==
  \A n \in Nodes :
    gov[n].announced <= 100 * GovBurst +
      (IF gov[n].last > gov[n].since THEN (gov[n].last - gov[n].since) * Duty ELSE 0)

\* One announce per origin and interval: two announces of one origin that
\* are closer than the interval have as many other origins as there are
\* throttle slots no earlier than the first of the two.
Throttled ==
  \A n \in Nodes : LET h == gov[n].heard IN
    \A i, j \in 1..Len(h) :
      (i < j /\ h[i].tag = h[j].tag /\ h[j].at - h[i].at < MinInterval) =>
        Cardinality({h[k].tag : k \in {k \in 1..j : h[k].at >= h[i].at}} \ {h[i].tag})
          >= ThrottleSlots

\* Nothing is left to send and every radio listens.
Quiet ==
  \A n \in Nodes :
    /\ node[n].q = <<>> /\ node[n].pend = NoFrame /\ node[n].acks = <<>>
    /\ radio[n].mode = "rx" \/ scene.spi

\* The queue always drains: whatever is lost and whoever talks, the task
\* sends or gives up every packet, and the radio listens again.
Drains == <>[]Quiet

\* A packet that nothing disturbs arrives.  It fails where a full frame is on
\* the air for longer than the radio's transmit timeout: at SF 11 and 12.
Arrives == [](scene.faults = 0) => <>(\E n \in Nodes : inbox[n] # {})

\* The same as Drains, as long as no retransmission cuts off an acknowledgement.
DrainsUnlessCut == ([]~aborted) => Drains

\* What arrives over the trunk is what was sent, and what was acknowledged
\* has arrived.
TrunkDelivers == TypeOK /\ DeliveredWhole /\ AckedIsDelivered

\* The limits of the trunk: attempts of a frame, airtime of announces, and one
\* announce per origin and interval.
TrunkLimits == SendsBounded /\ AirtimeBounded /\ Throttled
=============================================================================
