---------------------------- MODULE LoraGovernor ----------------------------
(***************************************************************************)
(* Admission to the LoRa trunk (src/main/bitle_lora.c): how long a packet  *)
(* is on the air, the airtime governor (a token bucket that announces      *)
(* must respect and that messages merely drain) and the throttle of one    *)
(* announce per origin and interval.  Everything here is an operator on    *)
(* the governor's record; BitleLora calls trunk_admit from its own send.   *)
(*                                                                         *)
(* The code keeps the credit as a double in milliseconds.  Here it is an   *)
(* integer in hundredths of a millisecond, which makes the refill of       *)
(* duty_pct / 100 per millisecond exact.                                   *)
(***************************************************************************)
EXTENDS Integers, Sequences, FiniteSets

CONSTANTS
  GovBurst,        \* GOV_BURST_MS, in milliseconds
  Duty,            \* duty_pct
  ThrottleSlots,   \* THROTTLE_SLOTS
  MinInterval,     \* ANNOUNCE_MIN_INTERVAL_MS
  SF,              \* the spreading factor, cfg.sf
  Origins          \* the senders of announces

ASSUME GovAssumption ==
  /\ GovBurst \in Nat /\ Duty \in 1..50 /\ MinInterval \in Nat
  /\ ThrottleSlots \in Nat \ {0} /\ SF \in 7..12

TrunkHdrLen == 16
TrunkChunkTx == 120
PktMinLen == 22
MaxPacket == 520

AnnounceTypes == {"announce", "identity", "capability"}
IdentityTypes == {"announce", "identity"}
PacketTypes == AnnounceTypes \cup {"message", "ota"}

\* An encoded packet: what its header says and how long the buffer is.
Packet == [type : PacketTypes, sender : Origins, to : BOOLEAN, sig : BOOLEAN,
           payload : 0..MaxPacket, wire : 1..MaxPacket]

\* The length the header describes, without the padding after it.  The
\* buffer's length stands when it is shorter than that.
trunk_true_len(p) ==
  LET real == 22 + p.payload + (IF p.to THEN 8 ELSE 0) + (IF p.sig THEN 64 ELSE 0)
  IN  IF p.wire < 14 \/ real > p.wire THEN p.wire ELSE real

CeilDiv(a, b) == (a + b - 1) \div b

Fragments(len) == CeilDiv(len, TrunkChunkTx)

\* The bytes of the packet in fragment idx.
ChunkLen(len, idx) ==
  LET rest == len - idx * TrunkChunkTx
  IN  IF rest < TrunkChunkTx THEN rest ELSE TrunkChunkTx

\* A symbol, 2^SF / 125 kHz, in microseconds.
SymbolUs == <<1024, 2048, 4096, 8192, 16384, 32768>>[SF - 6]

\* Semtech AN1200.13 at 125 kHz and coding rate 4/5, whole milliseconds.
lora_airtime_ms(len) ==
  LET de == IF SF >= 11 THEN 1 ELSE 0
      num == 8 * len - 4 * SF + 44
      n == IF num < 0 THEN 0 ELSE 5 * CeilDiv(num, 4 * (SF - 2 * de))
  IN  ((49 * SymbolUs) \div 4 + (8 + n) * SymbolUs + 500) \div 1000

\* What all the frames of a packet of len bytes are on the air.
Airtime(len) ==
  LET last == Fragments(len) - 1
  IN  last * lora_airtime_ms(TrunkHdrLen + TrunkChunkTx)
        + lora_airtime_ms(TrunkHdrLen + ChunkLen(len, last))

-----------------------------------------------------------------------------
(* The governor's state.  announced, since and heard observe it: the        *)
(* airtime of announces admitted since the instant `since`, and every       *)
(* identity announce admitted, with its time.                               *)

NewGovernor(t) ==
  [credit |-> 100 * GovBurst, last |-> t, throttle |-> <<>>,
   announced |-> 0, since |-> t, heard |-> <<>>]

\* The slot of an origin, or 0.
SlotOf(throttle, origin) ==
  IF \E i \in 1..Len(throttle) : throttle[i].tag = origin
    THEN CHOOSE i \in 1..Len(throttle) : throttle[i].tag = origin
    ELSE 0

\* The first of the slots with the smallest time.
OldestSlot(throttle) ==
  CHOOSE i \in 1..Len(throttle) :
    /\ \A j \in 1..Len(throttle) : throttle[i].last <= throttle[j].last
    /\ \A j \in 1..(i - 1) : throttle[i].last < throttle[j].last

\* Whether this origin's announce is dropped now, and the slots after it.
announce_throttled(throttle, origin, t) ==
  LET i == SlotOf(throttle, origin)
      new == [tag |-> origin, last |-> t]
  IN  CASE i # 0 /\ t - throttle[i].last < MinInterval ->
             [drop |-> TRUE, slots |-> throttle]
        [] i # 0 /\ t - throttle[i].last >= MinInterval ->
             [drop |-> FALSE, slots |-> [throttle EXCEPT ![i] = new]]
        [] i = 0 /\ Len(throttle) < ThrottleSlots ->
             [drop |-> FALSE, slots |-> Append(throttle, new)]
        [] OTHER ->
             [drop |-> FALSE, slots |-> [throttle EXCEPT ![OldestSlot(throttle)] = new]]

Refilled(g, t) ==
  LET c == g.credit + (t - g.last) * Duty
  IN  [g EXCEPT !.credit = IF c > 100 * GovBurst THEN 100 * GovBurst ELSE c,
                !.last = t]

Debited(g, air) ==
  LET c == g.credit - 100 * air
  IN  [g EXCEPT !.credit = IF c < -(100 * GovBurst) THEN -(100 * GovBurst) ELSE c]

\* The mutated form lets an announce overdraw a budget that is not empty.
trunk_admitMutant(g0, p, len, t, ota) ==
  LET g == Refilled(g0, t)
      air == Airtime(len)
      drop == p.type \in AnnounceTypes /\ g.credit < 0
  IN  IF len < PktMinLen \/ drop THEN [ok |-> FALSE, g |-> g]
      ELSE [ok |-> TRUE,
            g |-> [Debited(g, air) EXCEPT
                     !.announced = IF p.type \in AnnounceTypes THEN @ + 100 * air ELSE @]]

\* Whether a packet of len bytes may go out, and the governor afterwards.
\* Announces yield to the budget before the throttle records them; anything
\* else passes, and still pays.
trunk_admit(g0, p, len, t, ota) ==
  LET g == Refilled(g0, t)
      air == Airtime(len)
      announce == p.type \in AnnounceTypes
      identity == p.type \in IdentityTypes
      th == announce_throttled(g.throttle, p.sender, t)
      paid == [Debited(g, air) EXCEPT
                 !.announced = IF announce THEN @ + 100 * air ELSE @]
  IN  IF len < PktMinLen \/ (p.type = "ota" /\ ~ota) THEN [ok |-> FALSE, g |-> g0]
      ELSE IF announce /\ (g.credit < 100 * air \/ (identity /\ th.drop))
             THEN [ok |-> FALSE, g |-> g]
      ELSE [ok |-> TRUE,
            g |-> IF identity
                    THEN [paid EXCEPT !.throttle = th.slots,
                                      !.heard = Append(@, [tag |-> p.sender, at |-> t])]
                    ELSE paid]
=============================================================================
