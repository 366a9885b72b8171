--------------------------- MODULE BitleLoraProofs ---------------------------
(***************************************************************************)
(* The limits of the trunk (BitleLora), for any number of nodes and        *)
(* origins, every duty cycle, spreading factor and size of the throttle,   *)
(* and any number of losses and restarts.  First what admission to the     *)
(* trunk keeps (LoraGovernor): the bucket covers what announces took, and  *)
(* the throttle's slots remember whom they heard.                          *)
(***************************************************************************)
EXTENDS BitleLora, FiniteSetTheorems, SequenceTheorems, WellFoundedInduction, TLAPS

USE ZenonT(30)

\* Lengths of packets are natural numbers.
LEMMA PacketLengths == 0..MaxPacket \subseteq Nat /\ 1..MaxPacket \subseteq Nat
  BY SMTT(30) DEF MaxPacket

-----------------------------------------------------------------------------
(* Admission.                                                              *)

Full == 100 * GovBurst
Stamp == [tag : Origins, last : Nat]
Said == [tag : Origins, at : Nat]
Stamps == Seq(Stamp)
Heard == Seq(Said)
Governor == [credit : Int, last : Nat, throttle : Stamps,
             announced : Nat, since : Nat, heard : Heard]

\* What the announces took and what is left in the bucket came from the burst
\* and from the refill since the observer began.
Budget(g) ==
  /\ -Full <= g.credit /\ g.credit <= Full
  /\ IF g.last >= g.since THEN /\ g.credit + g.announced <= Full + (g.last - g.since) * Duty
                              /\ g.announced <= Full + (g.last - g.since) * Duty
     ELSE g.announced = 0

\* The other origins heard, up to h[j], no earlier than h[i].
Rivals(h, i, j) == {h[k].tag : k \in {k \in 1..j : h[k].at >= h[i].at}} \ {h[i].tag}

\* An origin that was heard has a slot that says when, or has been pushed out
\* by as many others as there are slots.
Recalled(g, i) ==
  \/ \E s \in 1..Len(g.throttle) :
       g.throttle[s].tag = g.heard[i].tag /\ g.throttle[s].last >= g.heard[i].at
  \/ Cardinality(Rivals(g.heard, i, Len(g.heard))) >= ThrottleSlots

Memory(g) ==
  /\ Len(g.throttle) <= ThrottleSlots
  /\ \A a, b \in 1..Len(g.throttle) : g.throttle[a].tag = g.throttle[b].tag => a = b
  /\ \A s \in 1..Len(g.throttle) : \E k \in 1..Len(g.heard) :
       g.heard[k].tag = g.throttle[s].tag /\ g.heard[k].at = g.throttle[s].last
  /\ \A i \in 1..Len(g.heard) : Recalled(g, i)

\* Throttled, of one node.
Spaced(h) ==
  \A i, j \in 1..Len(h) :
    (i < j /\ h[i].tag = h[j].tag /\ h[j].at - h[i].at < MinInterval) =>
      Cardinality(Rivals(h, i, j)) >= ThrottleSlots

GovOk(g, t) ==
  /\ g \in Governor
  /\ g.last <= t /\ g.since <= t /\ \A i \in 1..Len(g.heard) : g.heard[i].at <= t
  /\ Budget(g) /\ Memory(g) /\ Spaced(g.heard)

-----------------------------------------------------------------------------
(* Airtime.                                                                *)

\* Time on the air is a whole, nonnegative number of milliseconds.
LEMMA FrameAirtime == ASSUME NEW x \in Int PROVE lora_airtime_ms(x) \in Nat
<1>1. SF \in 7..12 /\ SF \in Int
  BY GovAssumption, SMTT(30)
<1>2. SymbolUs \in Nat
  <2>1. SF - 6 \in 1..6
    BY <1>1, SMTT(30)
  <2> DEFINE us == <<1024, 2048, 4096, 8192, 16384, 32768>>
  <2>2. us[1] \in Nat /\ us[2] \in Nat /\ us[3] \in Nat /\ us[4] \in Nat /\ us[5] \in Nat /\ us[6] \in Nat
    BY SMTT(30)
  <2>3. us[SF - 6] \in Nat
    <3> HIDE DEF us
    <3> QED
      BY <2>1, <2>2, SMTT(30)
  <2> QED
    BY <2>3, SMTT(30) DEF SymbolUs
<1> DEFINE de == IF SF >= 11 THEN 1 ELSE 0
           d == 4 * (SF - 2 * de)
           num == 8 * x - 4 * SF + 44
           m == IF num < 0 THEN 0 ELSE 5 * CeilDiv(num, d)
<1>3. d \in Nat /\ d > 0 /\ num \in Int
  BY <1>1, SMTT(30)
<1>4. lora_airtime_ms(x) = ((49 * SymbolUs) \div 4 + (8 + m) * SymbolUs + 500) \div 1000
  BY DEF lora_airtime_ms
<1> HIDE DEF d, num
<1>5. m \in Nat
  <2>1. ASSUME num >= 0 PROVE CeilDiv(num, d) \in Nat
    <3> DEFINE a == num + d - 1
    <3>1. a \in Nat
      BY <1>3, <2>1, SMTT(30)
    <3> HIDE DEF a
    <3>2. a \div d \in Nat
      BY <1>3, <3>1, SMTT(30)
    <3> QED
      BY <3>2 DEF CeilDiv, a
  <2> QED
    BY <1>3, <2>1, SMTT(30)
<1> HIDE DEF m
<1>6. (8 + m) * SymbolUs \in Nat
  BY <1>2, <1>5, SMTT(30)
<1> DEFINE y == (8 + m) * SymbolUs
<1>7. ((49 * SymbolUs) \div 4 + y + 500) \div 1000 \in Nat
  <2> HIDE DEF y
  <2>1. y \in Nat
    BY <1>6 DEF y
  <2> QED
    BY <1>2, <2>1, SMTT(30)
<1> QED
  BY <1>4, <1>7, SMTT(30)

LEMMA PacketAirtime == ASSUME NEW len \in Nat, len >= PktMinLen PROVE Airtime(len) \in Nat
<1>1. Fragments(len) - 1 \in Nat
  BY SMTT(30) DEF Fragments, CeilDiv, TrunkChunkTx, PktMinLen
<1> DEFINE last == Fragments(len) - 1
<1>2. ChunkLen(len, last) \in Int
  BY <1>1, SMTT(30) DEF ChunkLen, TrunkChunkTx
<1>3. TrunkHdrLen + TrunkChunkTx \in Int /\ TrunkHdrLen + ChunkLen(len, last) \in Int
  BY <1>2, SMTT(30) DEF TrunkHdrLen, TrunkChunkTx
<1>4. /\ lora_airtime_ms(TrunkHdrLen + TrunkChunkTx) \in Nat
      /\ lora_airtime_ms(TrunkHdrLen + ChunkLen(len, last)) \in Nat
  BY <1>3, FrameAirtime
<1>5. last * lora_airtime_ms(TrunkHdrLen + TrunkChunkTx) \in Nat
  BY <1>1, <1>4, SMTT(30)
<1> QED
  BY <1>4, <1>5, SMTT(30) DEF Airtime

-----------------------------------------------------------------------------
(* The token bucket.                                                       *)

\* refill: what it adds is the duty cycle's share of the time that passed.
LEMMA RefillKeeps ==
  ASSUME NEW t \in Nat, NEW g, GovOk(g, t)
  PROVE  /\ Refilled(g, t) \in Governor /\ Budget(Refilled(g, t)) /\ Refilled(g, t).last = t
         /\ Refilled(g, t).throttle = g.throttle /\ Refilled(g, t).heard = g.heard
         /\ Refilled(g, t).since = g.since /\ Refilled(g, t).announced = g.announced
<1>1. /\ g \in Governor /\ g.credit \in Int /\ g.last \in Nat /\ g.since \in Nat /\ g.announced \in Nat
      /\ g.last <= t /\ g.since <= t /\ Duty \in Nat /\ Full \in Nat
      /\ -Full <= g.credit /\ g.credit <= Full
  <2>1. g \in Governor /\ g.last <= t /\ g.since <= t /\ -Full <= g.credit /\ g.credit <= Full
    BY DEF GovOk, Budget
  <2>2. Duty \in Nat /\ Full \in Nat
    BY GovAssumption, SMTT(30) DEF Full
  <2> QED
    BY <2>1, <2>2 DEF Governor
<1> DEFINE c == g.credit + (t - g.last) * Duty
           d == IF c > Full THEN Full ELSE c
<1>2. Refilled(g, t) = [g EXCEPT !.credit = d, !.last = t]
  BY DEF Refilled, Full
<1>3. (t - g.last) * Duty \in Nat
  BY <1>1, SMTT(30)
<1>4. c \in Int /\ d \in Int /\ d <= Full /\ d <= c /\ -Full <= d
  <2> DEFINE x == (t - g.last) * Duty
  <2> HIDE DEF x
  <2>1. x \in Nat
    BY <1>3 DEF x
  <2>2. c = g.credit + x
    BY DEF x
  <2> HIDE DEF c
  <2> QED
    BY <1>1, <2>1, <2>2, SMTT(30)
<1>5. /\ Refilled(g, t) \in Governor /\ Refilled(g, t).credit = d /\ Refilled(g, t).last = t
      /\ Refilled(g, t).throttle = g.throttle /\ Refilled(g, t).heard = g.heard
      /\ Refilled(g, t).since = g.since /\ Refilled(g, t).announced = g.announced
  BY <1>1, <1>2, <1>4 DEF Governor
<1>6. /\ d + g.announced <= Full + (t - g.since) * Duty
      /\ g.announced <= Full + (t - g.since) * Duty
  <2>1. CASE g.last >= g.since
    <3>1. /\ g.credit + g.announced <= Full + (g.last - g.since) * Duty
          /\ g.announced <= Full + (g.last - g.since) * Duty
      BY <2>1 DEF GovOk, Budget
    <3>2. (t - g.last) * Duty + (g.last - g.since) * Duty = (t - g.since) * Duty
      BY <1>1, SMTT(30)
    <3>3. (g.last - g.since) * Duty \in Int /\ (t - g.since) * Duty \in Int
      BY <1>1, SMTT(30)
    <3> DEFINE x == (t - g.last) * Duty
               y == (g.last - g.since) * Duty
               z == (t - g.since) * Duty
    <3>4. x \in Int /\ y \in Int /\ z \in Int /\ x + y = z /\ g.credit + g.announced <= Full + y
          /\ d <= g.credit + x /\ g.announced <= Full + y /\ x >= 0
      BY <1>3, <1>4, <3>1, <3>2, <3>3, SMTT(30)
    <3> HIDE DEF x, y, z, d, c
    <3>5. d + g.announced <= Full + z /\ g.announced <= Full + z
      BY <1>1, <1>4, <3>4, SMTT(30)
    <3> QED
      BY <3>5 DEF z
  <2>2. CASE ~ (g.last >= g.since)
    <3>1. g.announced = 0
      BY <2>2 DEF GovOk, Budget
    <3>2. (t - g.since) * Duty \in Nat
      BY <1>1, SMTT(30)
    <3> QED
      BY <1>1, <1>4, <3>1, <3>2, SMTT(30)
  <2> QED
    BY <2>1, <2>2
<1>7. Budget(Refilled(g, t))
  BY <1>1, <1>4, <1>5, <1>6 DEF Budget
<1> QED
  BY <1>5, <1>7

\* A debit of the airtime, recorded as an announce's if it is one that the
\* bucket could pay.
Charged(g, air, announce) ==
  [Debited(g, air) EXCEPT !.announced = IF announce THEN @ + 100 * air ELSE @]

LEMMA ChargeKeeps ==
  ASSUME NEW g \in Governor, Budget(g), g.last >= g.since, NEW air \in Nat, NEW announce \in BOOLEAN,
         announce => g.credit >= 100 * air
  PROVE  /\ Charged(g, air, announce) \in Governor /\ Budget(Charged(g, air, announce))
         /\ Charged(g, air, announce).last = g.last /\ Charged(g, air, announce).since = g.since
         /\ Charged(g, air, announce).throttle = g.throttle
         /\ Charged(g, air, announce).heard = g.heard
<1>1. /\ g.credit \in Int /\ g.announced \in Nat /\ Full \in Nat /\ g.last \in Nat /\ g.since \in Nat
      /\ Duty \in Nat
  BY GovAssumption, SMTT(30) DEF Governor, Full
<1> DEFINE c == g.credit - 100 * air
           d == IF c < -Full THEN -Full ELSE c
           a == IF announce THEN g.announced + 100 * air ELSE g.announced
<1>2. d \in Int /\ a \in Nat
  BY <1>1, SMTT(30)
<1>3. /\ -Full <= d /\ d <= Full /\ d + a <= g.credit + g.announced
      /\ a = g.announced \/ a <= g.credit + g.announced
  BY <1>1, SMTT(30) DEF Budget
<1>4. Debited(g, air) = [g EXCEPT !.credit = d]
  BY DEF Debited, Full
<1> HIDE DEF d
<1>5. Charged(g, air, announce) = [[g EXCEPT !.credit = d] EXCEPT !.announced = a]
  BY <1>4 DEF Charged, Governor
<1> HIDE DEF a
<1>6. /\ Charged(g, air, announce) \in Governor
      /\ Charged(g, air, announce).credit = d /\ Charged(g, air, announce).announced = a
      /\ Charged(g, air, announce).last = g.last /\ Charged(g, air, announce).since = g.since
      /\ Charged(g, air, announce).throttle = g.throttle
      /\ Charged(g, air, announce).heard = g.heard
  BY <1>2, <1>5 DEF Governor
<1>7. /\ g.credit + g.announced <= Full + (g.last - g.since) * Duty
      /\ g.announced <= Full + (g.last - g.since) * Duty
  BY <1>1 DEF Budget
<1>8. (g.last - g.since) * Duty \in Int
  BY <1>1, SMTT(30)
<1>9. d + a <= Full + (g.last - g.since) * Duty /\ a <= Full + (g.last - g.since) * Duty
  <2> DEFINE x == (g.last - g.since) * Duty
  <2> HIDE DEF x
  <2>1. x \in Int /\ g.credit + g.announced <= Full + x /\ g.announced <= Full + x
    BY <1>7, <1>8 DEF x
  <2>2. d + a <= Full + x /\ a <= Full + x
    BY <1>1, <1>2, <1>3, <2>1, SMTT(30)
  <2> QED
    BY <2>2 DEF x
<1>10. Budget(Charged(g, air, announce))
  BY <1>3, <1>6, <1>9 DEF Budget
<1> QED
  BY <1>6, <1>10

-----------------------------------------------------------------------------
(* The throttle.                                                           *)

\* What a later announce adds to the rivals of an earlier one.
LEMMA RivalsGrow ==
  ASSUME NEW h \in Heard, NEW x \in Said, NEW i \in 1..Len(h), NEW j \in 1..Len(h)
  PROVE  /\ Append(h, x)[i] = h[i] /\ Len(Append(h, x)) = Len(h) + 1 /\ Append(h, x)[Len(h) + 1] = x
         /\ Rivals(Append(h, x), i, j) = Rivals(h, i, j)
         /\ Rivals(h, i, Len(h)) \subseteq Rivals(Append(h, x), i, Len(h) + 1)
         /\ x.at >= h[i].at /\ x.tag # h[i].tag => x.tag \in Rivals(Append(h, x), i, Len(h) + 1)
<1> DEFINE e == Append(h, x)
<1>1. /\ Len(h) \in Nat /\ Len(e) = Len(h) + 1 /\ e[Len(h) + 1] = x
      /\ \A k \in 1..Len(h) : e[k] = h[k]
  BY SMTT(30) DEF Heard
<1> HIDE DEF e
<1>2. Rivals(e, i, j) = Rivals(h, i, j)
  <2>1. \A k \in 1..j : e[k] = h[k]
    BY <1>1, SMTT(30)
  <2>2. {k \in 1..j : e[k].at >= e[i].at} = {k \in 1..j : h[k].at >= h[i].at}
    BY <1>1, <2>1
  <2>3. {e[k].tag : k \in {k \in 1..j : e[k].at >= e[i].at}} = {h[k].tag : k \in {k \in 1..j : h[k].at >= h[i].at}}
    BY <2>1, <2>2
  <2> QED
    BY <1>1, <2>3 DEF Rivals
<1>3. Rivals(h, i, Len(h)) \subseteq Rivals(e, i, Len(h) + 1)
  <2> SUFFICES ASSUME NEW k \in 1..Len(h), h[k].at >= h[i].at, h[k].tag # h[i].tag
               PROVE  h[k].tag \in Rivals(e, i, Len(h) + 1)
    BY DEF Rivals
  <2>1. k \in 1..(Len(h) + 1) /\ e[k] = h[k] /\ e[i] = h[i]
    BY <1>1, SMTT(30)
  <2> QED
    BY <2>1 DEF Rivals
<1>4. x.at >= h[i].at /\ x.tag # h[i].tag => x.tag \in Rivals(e, i, Len(h) + 1)
  <2>1. Len(h) + 1 \in 1..(Len(h) + 1) /\ e[Len(h) + 1] = x /\ e[i] = h[i]
    BY <1>1, SMTT(30)
  <2> QED
    BY <2>1 DEF Rivals
<1> QED
  BY <1>1, <1>2, <1>3, <1>4 DEF e

\* Rivals are finitely many.
LEMMA RivalsFinite ==
  ASSUME NEW h \in Heard, NEW i \in 1..Len(h), NEW j \in 0..Len(h)
  PROVE  IsFiniteSet(Rivals(h, i, j))
<1>1. IsFiniteSet(1..j)
  BY FS_Interval, SMTT(30) DEF Heard
<1>2. IsFiniteSet({k \in 1..j : h[k].at >= h[i].at})
  BY <1>1, FS_Subset
<1> DEFINE S == {k \in 1..j : h[k].at >= h[i].at}
           T == {h[k].tag : k \in S}
<1>3. IsFiniteSet(T)
  <2> DEFINE f == [k \in S |-> h[k].tag]
  <2>1. f \in Surjection(S, T)
    BY DEF Surjection
  <2> HIDE DEF S, T, f
  <2> QED
    BY <1>2, <2>1, FS_Surjection DEF S
<1>4. Rivals(h, i, j) \subseteq T
  BY DEF Rivals
<1> QED
  BY <1>3, <1>4, FS_Subset

\* The tags of a full throttle are as many as its slots.
LEMMA SlotTags ==
  ASSUME NEW th \in Stamps, \A a, b \in 1..Len(th) : th[a].tag = th[b].tag => a = b
  PROVE  LET tags == {th[s].tag : s \in 1..Len(th)}
         IN  IsFiniteSet(tags) /\ Cardinality(tags) = Len(th)
<1> DEFINE tags == {th[s].tag : s \in 1..Len(th)}
           f == [s \in 1..Len(th) |-> th[s].tag]
<1>1. f \in Bijection(1..Len(th), tags)
  BY DEF Bijection, Injection, Surjection, IsInjective
<1>2. Len(th) \in Nat /\ IsFiniteSet(1..Len(th)) /\ Cardinality(1..Len(th)) = Len(th)
  <2>1. Len(th) \in Nat /\ 1 \in Int
    BY SMTT(30) DEF Stamps
  <2>2. /\ IsFiniteSet(1..Len(th))
        /\ Cardinality(1..Len(th)) = IF 1 > Len(th) THEN 0 ELSE Len(th) - 1 + 1
    BY <2>1, FS_Interval, SMTT(30)
  <2> QED
    BY <2>1, <2>2, SMTT(30)
<1> HIDE DEF tags, f
<1>3. ExistsBijection(1..Len(th), tags)
  BY <1>1 DEF ExistsBijection
<1>4. IsFiniteSet(tags) /\ Cardinality(tags) = Cardinality(1..Len(th))
  BY <1>2, <1>3, FS_Bijection
<1> QED
  BY <1>2, <1>4 DEF tags

\* What the slots and the history hold.
LEMMA StampFields ==
  ASSUME NEW th \in Stamps
  PROVE  Len(th) \in Nat /\ \A j \in 1..Len(th) : th[j].tag \in Origins /\ th[j].last \in Nat
<1>1. Len(th) \in Nat /\ \A j \in 1..Len(th) : th[j] \in Stamp
  BY SMTT(30) DEF Stamps
<1> QED
  BY <1>1 DEF Stamp

LEMMA HeardFields ==
  ASSUME NEW h \in Heard
  PROVE  Len(h) \in Nat /\ \A j \in 1..Len(h) : h[j].tag \in Origins /\ h[j].at \in Nat
<1>1. Len(h) \in Nat /\ \A j \in 1..Len(h) : h[j] \in Said
  BY SMTT(30) DEF Heard
<1> QED
  BY <1>1 DEF Said

\* Sets of numbers have a least element.
LEMMA LeastNumber ==
  ASSUME NEW S, S \subseteq Nat, S # {}
  PROVE  \E i \in S : \A j \in S : i <= j
<1> DEFINE below == {ss \in Nat \X Nat : ss[1] < ss[2]}
<1>1. IsWellFoundedOn(below, Nat)
  BY NatLessThanWellFounded DEF OpToRel
<1> HIDE DEF below
<1>2. PICK i \in S : \A j \in S : ~ (<<j, i>> \in below)
  BY <1>1, WFMin
<1>3. ASSUME NEW j \in S, j < i PROVE FALSE
  <2>1. <<j, i>> \in Nat \X Nat /\ <<j, i>>[1] < <<j, i>>[2]
    BY <1>3
  <2> QED
    BY <1>2, <2>1 DEF below
<1> QED
  BY <1>3, SMTT(30)

\* The oldest slot that announce_throttled looks for is there.
LEMMA OldestIsThere ==
  ASSUME NEW th \in Stamps, Len(th) > 0
  PROVE  /\ OldestSlot(th) \in 1..Len(th)
         /\ \A j \in 1..Len(th) : th[OldestSlot(th)].last <= th[j].last
<1> DEFINE times == {th[j].last : j \in 1..Len(th)}
<1>1. Len(th) \in Nat /\ \A j \in 1..Len(th) : th[j].last \in Nat
  BY StampFields
<1>2. times \subseteq Nat /\ times # {}
  BY <1>1, SMTT(30)
<1>3. PICK m \in times : \A x \in times : m <= x
  BY <1>2, LeastNumber
<1> DEFINE slots == {j \in 1..Len(th) : th[j].last = m}
<1>4. slots \subseteq Nat /\ slots # {}
  BY <1>1, <1>3, SMTT(30)
<1>5. PICK i \in slots : \A j \in slots : i <= j
  BY <1>4, LeastNumber
<1>6. \A j \in 1..Len(th) : th[i].last <= th[j].last
  BY <1>3, <1>5
<1>7. ASSUME NEW j \in 1..(i - 1) PROVE th[i].last < th[j].last
  <2>1. j \in 1..Len(th) /\ ~ (i <= j)
    BY <1>1, <1>5, SMTT(30)
  <2>2. j \notin slots
    BY <1>5, <2>1
  <2>3. th[j].last # m /\ m <= th[j].last /\ m \in Nat /\ th[i].last = m
    BY <1>1, <1>2, <1>3, <1>5, <2>1, <2>2
  <2> QED
    BY <1>1, <2>1, <2>3, SMTT(30)
<1>8. i \in 1..Len(th)
  BY <1>5
<1> QED
  BY <1>6, <1>7, <1>8 DEF OldestSlot

\* The slots after an announce: its origin's slot renewed, a new one, or the
\* oldest taken from another origin.
Noted(th, o, t, after) ==
  LET new == [tag |-> o, last |-> t]
  IN  \/ \E s \in 1..Len(th) : /\ th[s].tag = o /\ t - th[s].last >= MinInterval
                               /\ after = [th EXCEPT ![s] = new]
      \/ /\ \A s \in 1..Len(th) : th[s].tag # o
         /\ Len(th) < ThrottleSlots /\ after = Append(th, new)
      \/ /\ \A s \in 1..Len(th) : th[s].tag # o
         /\ Len(th) = ThrottleSlots
         /\ \E s \in 1..Len(th) : /\ \A j \in 1..Len(th) : th[s].last <= th[j].last
                                  /\ after = [th EXCEPT ![s] = new]

\* announce_throttled, when it lets an announce pass: the origin's slot is
\* renewed, a new one is taken, or the oldest is given away.
LEMMA ThrottlePasses ==
  ASSUME NEW th \in Stamps, Len(th) <= ThrottleSlots, NEW o \in Origins, NEW t \in Nat,
         ~ announce_throttled(th, o, t).drop
  PROVE  Noted(th, o, t, announce_throttled(th, o, t).slots)
<1> DEFINE i   == SlotOf(th, o)
           new == [tag |-> o, last |-> t]
           r   == announce_throttled(th, o, t)
<1>1. Len(th) \in Nat /\ ThrottleSlots \in Nat /\ ThrottleSlots > 0 /\ MinInterval \in Nat
  BY GovAssumption, SMTT(30) DEF Stamps
<1>2. /\ i = 0 => \A s \in 1..Len(th) : th[s].tag # o
      /\ i # 0 => i \in 1..Len(th) /\ th[i].tag = o
  <2>1. CASE \E s \in 1..Len(th) : th[s].tag = o
    <3>1. i \in 1..Len(th) /\ th[i].tag = o
      BY <2>1 DEF SlotOf
    <3> QED
      BY <1>1, <3>1, SMTT(30)
  <2>2. CASE ~ \E s \in 1..Len(th) : th[s].tag = o
    BY <2>2 DEF SlotOf
  <2> QED
    BY <2>1, <2>2
<1>3. r = CASE i # 0 /\ t - th[i].last < MinInterval -> [drop |-> TRUE, slots |-> th]
            [] i # 0 /\ t - th[i].last >= MinInterval -> [drop |-> FALSE, slots |-> [th EXCEPT ![i] = new]]
            [] i = 0 /\ Len(th) < ThrottleSlots -> [drop |-> FALSE, slots |-> Append(th, new)]
            [] OTHER -> [drop |-> FALSE, slots |-> [th EXCEPT ![OldestSlot(th)] = new]]
  BY DEF announce_throttled
<1> HIDE DEF i, r, new
<1>4. CASE i # 0
  <2>1. th[i].last \in Nat
    BY <1>2, <1>4, StampFields
  <2>2. t - th[i].last >= MinInterval
    BY <1>1, <1>3, <1>4, <2>1, SMTT(30) DEF r
  <2>3. r.slots = [th EXCEPT ![i] = new]
    BY <1>1, <1>3, <1>4, <2>1, <2>2, SMTT(30)
  <2> QED
    BY <1>2, <1>4, <2>2, <2>3 DEF r, new, Noted
<1>5. CASE i = 0 /\ Len(th) < ThrottleSlots
  <2>1. r.slots = Append(th, new)
    BY <1>3, <1>5
  <2> QED
    BY <1>2, <1>5, <2>1 DEF r, new, Noted
<1>6. CASE i = 0 /\ ~ (Len(th) < ThrottleSlots)
  <2>1. r.slots = [th EXCEPT ![OldestSlot(th)] = new]
    BY <1>3, <1>6
  <2>2. Len(th) = ThrottleSlots /\ Len(th) > 0
    BY <1>1, <1>6, SMTT(30)
  <2>3. /\ OldestSlot(th) \in 1..Len(th)
        /\ \A j \in 1..Len(th) : th[OldestSlot(th)].last <= th[j].last
    BY <2>2, OldestIsThere
  <2> QED
    BY <1>2, <1>6, <2>1, <2>2, <2>3 DEF r, new, Noted
<1> QED
  BY <1>4, <1>5, <1>6

\* What an evicted origin's rivals are: the other slots and the one that pushed
\* it out.
LEMMA PushedOut ==
  ASSUME NEW th \in Stamps, Len(th) = ThrottleSlots, NEW s \in 1..Len(th), NEW o,
         \A a, b \in 1..Len(th) : th[a].tag = th[b].tag => a = b,
         \A j \in 1..Len(th) : th[j].tag # o,
         NEW R, IsFiniteSet(R), o \in R, \A j \in 1..Len(th) : j # s => th[j].tag \in R
  PROVE  Cardinality(R) >= ThrottleSlots
<1> DEFINE tags == {th[j].tag : j \in 1..Len(th)}
           rest == tags \ {th[s].tag}
<1>1. IsFiniteSet(tags) /\ Cardinality(tags) = Len(th) /\ Len(th) \in Nat
  BY SlotTags, StampFields
<1>2. th[s].tag \in tags /\ o \notin rest /\ rest \cup {o} \subseteq R
  OBVIOUS
<1> HIDE DEF tags
<1>3. IsFiniteSet(rest) /\ Cardinality(rest) = Cardinality(tags) - 1
  BY <1>1, <1>2, FS_RemoveElement
<1> HIDE DEF rest
<1>4. IsFiniteSet(rest \cup {o}) /\ Cardinality(rest \cup {o}) = Cardinality(rest) + 1
  BY <1>2, <1>3, FS_AddElement
<1>5. Cardinality(rest \cup {o}) <= Cardinality(R)
  BY <1>2, FS_Subset
<1>6. Cardinality(R) \in Nat
  BY FS_CardinalityType
<1> QED
  BY <1>1, <1>3, <1>4, <1>5, <1>6, SMTT(30)

\* Times in order, and an interval that has passed since the later one.
LEMMA Ordered ==
  \A a, b, c, m \in Nat : a <= b =>
    /\ b <= c => c >= a
    /\ c - b >= m => ~ (c - a < m)
  BY SMTT(30)

\* An announce that passes is remembered, and nobody who was heard is forgotten
\* before as many others as there are slots were heard.
LEMMA ThrottleKeeps ==
  ASSUME NEW g \in Governor, NEW t \in Nat, Memory(g), Spaced(g.heard),
         \A i \in 1..Len(g.heard) : g.heard[i].at <= t,
         NEW o \in Origins, ~ announce_throttled(g.throttle, o, t).drop,
         NEW e, e.throttle = announce_throttled(g.throttle, o, t).slots,
         e.heard = Append(g.heard, [tag |-> o, at |-> t])
  PROVE  /\ e.throttle \in Stamps /\ e.heard \in Heard
         /\ \A i \in 1..Len(e.heard) : e.heard[i].at <= t
         /\ Memory(e) /\ Spaced(e.heard)
<1> DEFINE th == g.throttle
           h  == g.heard
           N  == Len(h)
           x  == [tag |-> o, at |-> t]
           new == [tag |-> o, last |-> t]
<1>1. th \in Stamps /\ h \in Heard
  BY DEF Governor
<1>2. /\ x \in Said /\ x.tag = o /\ x.at = t
      /\ new \in Stamp /\ new.tag = o /\ new.last = t
  BY DEF Said, Stamp
<1>3. /\ N \in Nat /\ \A k \in 1..N : h[k].tag \in Origins /\ h[k].at \in Nat
      /\ Len(th) \in Nat /\ \A s \in 1..Len(th) : th[s].tag \in Origins /\ th[s].last \in Nat
      /\ ThrottleSlots \in Nat /\ MinInterval \in Nat
  BY <1>1, HeardFields, StampFields, GovAssumption
<1>4. /\ Len(th) <= ThrottleSlots
      /\ \A a, b \in 1..Len(th) : th[a].tag = th[b].tag => a = b
      /\ \A s \in 1..Len(th) : \E k \in 1..N : h[k].tag = th[s].tag /\ h[k].at = th[s].last
      /\ \A i \in 1..N : Recalled(g, i)
  BY DEF Memory
<1>5. /\ e.heard \in Heard /\ Len(e.heard) = N + 1 /\ e.heard[N + 1] = x
      /\ \A k \in 1..N : e.heard[k] = h[k]
  BY <1>1, <1>2, AppendProperties, SMTT(30) DEF Heard
<1> DEFINE A(s) == /\ th[s].tag = o /\ t - th[s].last >= MinInterval
                   /\ e.throttle = [th EXCEPT ![s] = new]
           B    == /\ \A s \in 1..Len(th) : th[s].tag # o
                   /\ Len(th) < ThrottleSlots /\ e.throttle = Append(th, new)
           C(s) == /\ \A j \in 1..Len(th) : th[j].tag # o
                   /\ Len(th) = ThrottleSlots
                   /\ \A j \in 1..Len(th) : th[s].last <= th[j].last
                   /\ e.throttle = [th EXCEPT ![s] = new]
<1>6. B \/ \E s \in 1..Len(th) : A(s) \/ C(s)
  <2>1. ~ announce_throttled(th, o, t).drop /\ e.throttle = announce_throttled(th, o, t).slots
    OBVIOUS
  <2> HIDE DEF th, A, B, C
  <2>2. Noted(th, o, t, announce_throttled(th, o, t).slots)
    BY <1>1, <1>4, <2>1, ThrottlePasses
  <2>3. Noted(th, o, t, e.throttle)
    BY <2>1, <2>2
  <2> QED
    BY <2>3 DEF Noted, A, B, C
<1>7. ASSUME NEW s \in 1..Len(th), A(s) \/ C(s)
      PROVE  /\ e.throttle \in Stamps /\ Len(e.throttle) = Len(th) /\ e.throttle[s] = new
             /\ \A j \in 1..Len(th) : j # s => e.throttle[j] = th[j]
  <2>1. e.throttle = [th EXCEPT ![s] = new]
    BY <1>7
  <2> HIDE DEF th, new
  <2> QED
    BY <1>1, <1>2, <2>1, ExceptSeq, SMTT(30) DEF Stamps
<1>8. ASSUME B
      PROVE  /\ e.throttle \in Stamps /\ Len(e.throttle) = Len(th) + 1 /\ e.throttle[Len(th) + 1] = new
             /\ \A j \in 1..Len(th) : e.throttle[j] = th[j]
  <2>1. e.throttle = Append(th, new)
    BY <1>8
  <2> HIDE DEF th, new
  <2> QED
    BY <1>1, <1>2, <2>1, AppendProperties, SMTT(30) DEF Stamps
<1>9. /\ e.throttle \in Stamps /\ Len(e.throttle) <= ThrottleSlots /\ Len(e.throttle) \in Nat
      /\ \E n \in 1..Len(e.throttle) :
           /\ e.throttle[n] = new
           /\ \A j \in 1..Len(e.throttle) : j # n =>
                j \in 1..Len(th) /\ e.throttle[j] = th[j] /\ th[j].tag # o
  <2>1. CASE B
    <3> HIDE DEF th, new, A, C
    <3>1. Len(th) < ThrottleSlots /\ \A j \in 1..Len(th) : th[j].tag # o
      BY <2>1
    <3> HIDE DEF B
    <3>2. Len(e.throttle) = Len(th) + 1
      BY <1>8, <2>1
    <3>3. /\ Len(th) + 1 \in 1..Len(e.throttle) /\ Len(e.throttle) <= ThrottleSlots
          /\ Len(e.throttle) \in Nat
          /\ \A j \in 1..Len(e.throttle) : j # Len(th) + 1 => j \in 1..Len(th)
      BY <1>3, <3>1, <3>2, SMTT(30)
    <3> QED
      BY <1>8, <2>1, <3>1, <3>3
  <2>2. ASSUME NEW s \in 1..Len(th), A(s) \/ C(s)
        PROVE  /\ e.throttle \in Stamps /\ Len(e.throttle) <= ThrottleSlots /\ Len(e.throttle) \in Nat
               /\ s \in 1..Len(e.throttle) /\ e.throttle[s] = new
               /\ \A j \in 1..Len(e.throttle) : j # s =>
                    j \in 1..Len(th) /\ e.throttle[j] = th[j] /\ th[j].tag # o
    <3> HIDE DEF th, new
    <3> QED
      BY <1>3, <1>4, <1>7, <2>2, ZenonT(30)
  <2> QED
    BY <1>6, <2>1, <2>2
<1> HIDE DEF th, new
<1>10. \A i \in 1..Len(e.heard) : e.heard[i].at <= t
  BY <1>2, <1>3, <1>5, SMTT(30)
<1>11. Spaced(e.heard)
  <2> SUFFICES ASSUME NEW i \in 1..Len(e.heard), NEW j \in 1..Len(e.heard), i < j,
                      e.heard[i].tag = e.heard[j].tag, e.heard[j].at - e.heard[i].at < MinInterval
               PROVE  Cardinality(Rivals(e.heard, i, j)) >= ThrottleSlots
    BY DEF Spaced
  <2>1. i \in 1..N /\ e.heard[i] = h[i]
    BY <1>3, <1>5, SMTT(30)
  <2>2. CASE j \in 1..N
    <3>1. Rivals(e.heard, i, j) = Rivals(h, i, j)
      BY <1>1, <1>2, <2>1, <2>2, RivalsGrow, SMTT(30)
    <3> QED
      BY <1>5, <2>1, <2>2, <3>1 DEF Spaced
  <2>3. CASE j = N + 1
    <3>1. h[i].tag = o /\ t - h[i].at < MinInterval
      BY <1>2, <1>5, <2>1, <2>3
    <3>2. ~ \E s \in 1..Len(th) : th[s].tag = h[i].tag /\ th[s].last >= h[i].at
      <4> SUFFICES ASSUME NEW s \in 1..Len(th), th[s].tag = o, th[s].last >= h[i].at PROVE FALSE
        BY <3>1
      <4>1. PICK q \in 1..Len(th) : A(q)
        BY <1>6
      <4>2. th[q].tag = o /\ t - th[q].last >= MinInterval
        BY <4>1
      <4>3. q = s
        <5>1. \A a, b \in 1..Len(th) : th[a].tag = th[b].tag => a = b
          BY <1>4
        <5> HIDE DEF A, B, C
        <5> QED
          BY <4>2, <5>1
      <4> HIDE DEF A, B, C
      <4> QED
        BY <1>1, <1>3, <2>1, <3>1, <4>2, <4>3, Ordered
    <3>3. Cardinality(Rivals(h, i, N)) >= ThrottleSlots
      BY <1>4, <2>1, <3>2 DEF Recalled, th
    <3>4. Rivals(h, i, N) \subseteq Rivals(e.heard, i, N + 1)
      BY <1>1, <1>2, <2>1, RivalsGrow
    <3>5. IsFiniteSet(Rivals(e.heard, i, N + 1)) /\ IsFiniteSet(Rivals(h, i, N))
      <4>1. N + 1 \in 0..Len(e.heard) /\ N \in 0..Len(h) /\ i \in 1..Len(e.heard)
        BY <1>3, <1>5, SMTT(30)
      <4> QED
        BY <1>1, <1>5, <2>1, <4>1, RivalsFinite
    <3>6. Cardinality(Rivals(h, i, N)) <= Cardinality(Rivals(e.heard, i, N + 1))
      BY <3>4, <3>5, FS_Subset
    <3>7. Cardinality(Rivals(h, i, N)) \in Nat /\ Cardinality(Rivals(e.heard, i, N + 1)) \in Nat
      BY <3>5, FS_CardinalityType
    <3> QED
      BY <1>3, <2>3, <3>3, <3>6, <3>7, SMTT(30)
  <2> QED
    BY <1>3, <1>5, <2>2, <2>3, SMTT(30)
<1>12. ASSUME NEW i \in 1..Len(e.heard) PROVE Recalled(e, i)
  <2>1. CASE i = N + 1
    <3>1. PICK n \in 1..Len(e.throttle) : e.throttle[n] = new
      BY <1>9
    <3>2. e.throttle[n].tag = e.heard[i].tag /\ e.throttle[n].last >= e.heard[i].at
      BY <1>2, <1>5, <2>1, <3>1, SMTT(30)
    <3> QED
      BY <3>2 DEF Recalled
  <2>2. CASE i \in 1..N
    <3>1. /\ e.heard[i] = h[i] /\ IsFiniteSet(Rivals(e.heard, i, N + 1)) /\ IsFiniteSet(Rivals(h, i, N))
          /\ Rivals(h, i, N) \subseteq Rivals(e.heard, i, N + 1)
      <4>1. N + 1 \in 0..Len(e.heard) /\ N \in 0..Len(h)
        BY <1>3, <1>5, SMTT(30)
      <4> QED
        BY <1>1, <1>2, <1>5, <2>2, <4>1, RivalsFinite, RivalsGrow
    <3>2. CASE Cardinality(Rivals(h, i, N)) >= ThrottleSlots
      <4>1. Cardinality(Rivals(h, i, N)) <= Cardinality(Rivals(e.heard, i, N + 1))
        BY <3>1, FS_Subset
      <4>2. Cardinality(Rivals(h, i, N)) \in Nat /\ Cardinality(Rivals(e.heard, i, N + 1)) \in Nat
        BY <3>1, FS_CardinalityType
      <4> QED
        BY <1>3, <1>5, <3>2, <4>1, <4>2, SMTT(30) DEF Recalled
    <3>3. ASSUME NEW s \in 1..Len(th), th[s].tag = h[i].tag, th[s].last >= h[i].at
          PROVE  Recalled(e, i)
      <4>1. CASE s \in 1..Len(e.throttle) /\ e.throttle[s] = th[s]
        BY <3>1, <3>3, <4>1 DEF Recalled
      <4>2. CASE A(s)
        <5>1. s \in 1..Len(e.throttle) /\ e.throttle[s] = new
          BY <1>7, <4>2
        <5>2. e.throttle[s].tag = e.heard[i].tag /\ e.throttle[s].last >= e.heard[i].at
          BY <1>2, <1>3, <2>2, <3>1, <3>3, <4>2, <5>1, ZenonT(30)
        <5> QED
          BY <5>1, <5>2 DEF Recalled
      <4>3. CASE C(s)
        <5> DEFINE R == Rivals(e.heard, i, N + 1)
        <5>1. o \in R
          BY <1>1, <1>2, <1>3, <2>2, <3>3, <4>3, RivalsGrow, ZenonT(30)
        <5>2. ASSUME NEW j \in 1..Len(th), j # s PROVE th[j].tag \in R
          <6>1. PICK k \in 1..N : h[k].tag = th[j].tag /\ h[k].at = th[j].last
            BY <1>4
          <6>2. h[k].at >= h[i].at
            <7>1. th[s].last <= th[j].last
              BY <4>3
            <7>2. th[s].last \in Nat /\ th[j].last \in Nat /\ h[i].at \in Nat
              BY <1>3, <2>2
            <7> HIDE DEF A, B, C
            <7> QED
              BY <3>3, <6>1, <7>1, <7>2, Ordered
          <6>3. h[k].tag # h[i].tag
            BY <1>4, <3>3, <5>2, <6>1, ZenonT(30)
          <6>4. h[k].tag \in Rivals(h, i, N)
            BY <6>2, <6>3 DEF Rivals
          <6> QED
            BY <3>1, <6>1, <6>4
        <5> HIDE DEF R
        <5>3. IsFiniteSet(R)
          BY <3>1 DEF R
        <5>4. Cardinality(R) >= ThrottleSlots
          BY <1>1, <1>4, <4>3, <5>1, <5>2, <5>3, PushedOut, ZenonT(30)
        <5> QED
          BY <1>5, <5>4 DEF R, Recalled
      <4>4. CASE B
        BY <1>3, <1>8, <4>1, <4>4, SMTT(30)
      <4>5. ASSUME NEW q \in 1..Len(th), q # s, A(q) \/ C(q) PROVE Recalled(e, i)
        BY <1>7, <4>1, <4>5
      <4> QED
        BY <1>6, <4>2, <4>3, <4>4, <4>5
    <3> QED
      BY <1>4, <2>2, <3>2, <3>3 DEF Recalled, th
  <2> QED
    BY <1>3, <1>5, <2>1, <2>2, SMTT(30)
<1>13. Memory(e)
  <2>1. PICK n \in 1..Len(e.throttle) :
           /\ e.throttle[n] = new
           /\ \A j \in 1..Len(e.throttle) : j # n =>
                j \in 1..Len(th) /\ e.throttle[j] = th[j] /\ th[j].tag # o
    BY <1>9
  <2>2. \A a, b \in 1..Len(e.throttle) : e.throttle[a].tag = e.throttle[b].tag => a = b
    BY <1>2, <1>4, <2>1, ZenonT(30)
  <2>3. ASSUME NEW s \in 1..Len(e.throttle)
        PROVE  \E k \in 1..Len(e.heard) :
                 e.heard[k].tag = e.throttle[s].tag /\ e.heard[k].at = e.throttle[s].last
    <3>1. CASE s = n
      <4>1. N + 1 \in 1..Len(e.heard) /\ e.heard[N + 1] = x
        BY <1>3, <1>5, SMTT(30)
      <4> QED
        BY <1>2, <2>1, <3>1, <4>1
    <3>2. CASE s # n
      <4>1. PICK k \in 1..N : h[k].tag = th[s].tag /\ h[k].at = th[s].last
        BY <1>4, <2>1, <3>2
      <4>2. k \in 1..Len(e.heard) /\ e.heard[k] = h[k]
        BY <1>3, <1>5, SMTT(30)
      <4> QED
        BY <2>1, <3>2, <4>1, <4>2
    <3> QED
      BY <3>1, <3>2
  <2> QED
    BY <1>9, <1>12, <2>2, <2>3 DEF Memory
<1> QED
  BY <1>5, <1>9, <1>10, <1>11, <1>13

\* trunk_admit, whatever it decides, keeps the governor's invariant.
LEMMA AdmitKeeps ==
  ASSUME NEW t \in Nat, NEW g0, GovOk(g0, t), NEW p, p.sender \in Origins, NEW len \in Nat, NEW ota
  PROVE  GovOk(trunk_admit(g0, p, len, t, ota).g, t)
<1> DEFINE g == Refilled(g0, t)
           air == Airtime(len)
           announce == p.type \in AnnounceTypes
           identity == p.type \in IdentityTypes
           th == announce_throttled(g.throttle, p.sender, t)
           paid == Charged(g, air, announce)
           e == [paid EXCEPT !.throttle = th.slots,
                             !.heard = Append(@, [tag |-> p.sender, at |-> t])]
           r == trunk_admit(g0, p, len, t, ota)
<1>1. \/ r.g = g0
      \/ r.g = g
      \/ /\ len >= PktMinLen /\ (announce => g.credit >= 100 * air)
         /\ r.g = paid
      \/ /\ len >= PktMinLen /\ (announce => g.credit >= 100 * air)
         /\ ~ th.drop /\ r.g = e
  <2>1. r = IF len < PktMinLen \/ (p.type = "ota" /\ ~ota) THEN [ok |-> FALSE, g |-> g0]
            ELSE IF announce /\ (g.credit < 100 * air \/ (identity /\ th.drop))
                   THEN [ok |-> FALSE, g |-> g]
            ELSE [ok |-> TRUE, g |-> IF identity THEN e ELSE paid]
    BY DEF trunk_admit, Charged
  <2>2. identity => announce
    BY DEF IdentityTypes, AnnounceTypes
  <2>3. len >= PktMinLen => air \in Nat
    BY PacketAirtime
  <2>4. g.credit \in Int
    <3>1. g \in Governor
      BY RefillKeeps
    <3> HIDE DEF g
    <3> QED
      BY <3>1 DEF Governor
  <2> HIDE DEF g, air, announce, identity, th, paid, e, r
  <2>5. CASE len < PktMinLen \/ (p.type = "ota" /\ ~ota)
    BY <2>1, <2>5
  <2>6. CASE ~ (len < PktMinLen \/ (p.type = "ota" /\ ~ota))
    <3>1. len >= PktMinLen /\ air \in Nat
      BY <2>3, <2>6, SMTT(30) DEF PktMinLen
    <3>2. CASE announce /\ (g.credit < 100 * air \/ (identity /\ th.drop))
      BY <2>1, <2>6, <3>2
    <3>3. CASE ~ (announce /\ (g.credit < 100 * air \/ (identity /\ th.drop)))
      <4>1. announce => g.credit >= 100 * air
        BY <2>4, <3>1, <3>3, SMTT(30)
      <4>2. r.g = IF identity THEN e ELSE paid
        BY <2>1, <2>6, <3>3
      <4> QED
        BY <2>2, <3>1, <3>3, <4>1, <4>2
    <3> QED
      BY <3>2, <3>3
  <2> QED
    BY <2>5, <2>6
<1>2. /\ g0.since <= t /\ \A i \in 1..Len(g0.heard) : g0.heard[i].at <= t
      /\ Memory(g0) /\ Spaced(g0.heard)
  BY DEF GovOk
<1>3. /\ g \in Governor /\ Budget(g) /\ g.last = t
      /\ g.throttle = g0.throttle /\ g.heard = g0.heard
      /\ g.since = g0.since
  BY RefillKeeps, SMTT(30)
<1> HIDE DEF g
<1>4. Memory(g) /\ \A i \in 1..Len(g.heard) : g.heard[i].at <= t
  BY <1>2, <1>3, ZenonT(30) DEF Memory, Recalled
<1>5. GovOk(g, t)
  BY <1>2, <1>3, <1>4, SMTT(30) DEF GovOk
<1>6. ASSUME len >= PktMinLen, announce => g.credit >= 100 * air
      PROVE  /\ paid \in Governor /\ Budget(paid) /\ paid.last = t /\ paid.since <= t
             /\ paid.throttle = g.throttle /\ paid.heard = g.heard
  <2>1. air \in Nat
    BY <1>6, PacketAirtime
  <2>2. announce \in BOOLEAN
    BY SMTT(30)
  <2> HIDE DEF air, announce
  <2>3. g.last >= g.since
    BY <1>2, <1>3
  <2>4. /\ paid \in Governor /\ Budget(paid) /\ paid.last = g.last /\ paid.since = g.since
        /\ paid.throttle = g.throttle /\ paid.heard = g.heard
    BY <1>3, <1>6, <2>1, <2>2, <2>3, ChargeKeeps, SMTT(30)
  <2> QED
    BY <1>2, <1>3, <2>4
<1>7. ASSUME len >= PktMinLen, announce => g.credit >= 100 * air PROVE GovOk(paid, t)
  <2>1. Memory(paid)
    BY <1>4, <1>6, <1>7, ZenonT(30) DEF Memory, Recalled
  <2> HIDE DEF paid
  <2> QED
    BY <1>2, <1>3, <1>4, <1>6, <1>7, <2>1, SMTT(30) DEF GovOk
<1>8. ASSUME len >= PktMinLen, announce => g.credit >= 100 * air, ~ th.drop PROVE GovOk(e, t)
  <2>1. /\ paid \in Governor /\ Budget(paid) /\ paid.last = t /\ paid.since <= t
        /\ paid.throttle = g.throttle /\ paid.heard = g.heard
    BY <1>6, <1>8
  <2> HIDE DEF paid
  <2>2. /\ e.throttle = th.slots /\ e.heard = Append(g.heard, [tag |-> p.sender, at |-> t])
        /\ e.credit = paid.credit /\ e.last = paid.last /\ e.since = paid.since
        /\ e.announced = paid.announced
    BY <2>1 DEF Governor
  <2>3. th.slots \in Stamps /\ Append(g.heard, [tag |-> p.sender, at |-> t]) \in Heard =>
          e \in Governor
    BY <2>1 DEF Governor
  <2> HIDE DEF e
  <2>4. /\ e.throttle \in Stamps /\ e.heard \in Heard
        /\ \A i \in 1..Len(e.heard) : e.heard[i].at <= t
        /\ Memory(e) /\ Spaced(e.heard)
    <3>1. Spaced(g.heard)
      BY <1>2, <1>3
    <3> QED
      BY <1>3, <1>4, <1>8, <2>2, <3>1, ThrottleKeeps
  <2>5. Budget(e)
    BY <2>1, <2>2 DEF Budget
  <2>6. e \in Governor
    BY <2>2, <2>3, <2>4
  <2>7. e.last <= t /\ e.since <= t
    BY <2>1, <2>2, SMTT(30)
  <2> QED
    BY <2>4, <2>5, <2>6, <2>7 DEF GovOk
<1> HIDE DEF air, announce, identity, th, paid, e, r
<1>9. GovOk(r.g, t)
  BY <1>1, <1>5, <1>7, <1>8
<1> QED
  BY <1>9 DEF r

\* The governor's invariant survives the passing of time.
LEMMA GovLater ==
  ASSUME NEW t \in Nat, NEW u \in Nat, t <= u, NEW g, GovOk(g, t)
  PROVE  GovOk(g, u)
<1>1. g \in Governor /\ g.last <= t /\ g.since <= t /\ Budget(g) /\ Memory(g) /\ Spaced(g.heard)
  BY DEF GovOk
<1>2. g.last \in Nat /\ g.since \in Nat /\ g.heard \in Heard
  BY <1>1 DEF Governor
<1>3. \A i \in 1..Len(g.heard) : g.heard[i].at <= t /\ g.heard[i].at \in Nat
  BY <1>2, HeardFields DEF GovOk
<1>4. g.last <= u /\ g.since <= u /\ \A i \in 1..Len(g.heard) : g.heard[i].at <= u
  BY <1>1, <1>2, <1>3, SMTT(30)
<1> QED
  BY <1>1, <1>4 DEF GovOk

\* The observer may begin to count at any moment.
LEMMA GovObserved ==
  ASSUME NEW t \in Nat, NEW g, GovOk(g, t)
  PROVE  GovOk([g EXCEPT !.since = t, !.announced = 0], t)
<1> DEFINE e == [g EXCEPT !.since = t, !.announced = 0]
<1>1. g \in Governor /\ g.last <= t /\ Budget(g) /\ Memory(g) /\ Spaced(g.heard)
  BY DEF GovOk
<1>2. /\ e \in Governor /\ e.since = t /\ e.announced = 0 /\ e.last = g.last
      /\ e.credit = g.credit /\ e.throttle = g.throttle /\ e.heard = g.heard
  BY <1>1 DEF Governor
<1> HIDE DEF e
<1>3. g.credit \in Int /\ g.last \in Nat /\ Duty \in Nat /\ Full \in Nat
  BY <1>1, GovAssumption, SMTT(30) DEF Governor, Full
<1>4. e.last >= e.since => /\ e.credit + e.announced <= Full + (e.last - e.since) * Duty
                           /\ e.announced <= Full + (e.last - e.since) * Duty
  <2> SUFFICES ASSUME g.last >= t
               PROVE  g.credit + 0 <= Full + (g.last - t) * Duty /\ 0 <= Full + (g.last - t) * Duty
    BY <1>2
  <2>1. g.last - t = 0
    BY <1>1, <1>3, SMTT(30)
  <2>2. (g.last - t) * Duty = 0
    BY <1>3, <2>1, SMTT(30)
  <2> QED
    BY <1>1, <1>3, <2>2, SMTT(30) DEF Budget
<1>5. Budget(e)
  BY <1>1, <1>2, <1>4 DEF Budget
<1>6. Memory(e)
  <2>1. \A i : Recalled(g, i) => Recalled(e, i)
    BY <1>2 DEF Recalled
  <2> QED
    BY <1>1, <1>2, <2>1, SMTT(30) DEF Memory
<1>7. \A i \in 1..Len(e.heard) : e.heard[i].at <= t
  BY <1>2 DEF GovOk
<1>8. GovOk(e, t)
  BY <1>1, <1>2, <1>3, <1>5, <1>6, <1>7, SMTT(30) DEF GovOk
<1> QED
  BY <1>8 DEF e

\* bitle_lora_init: a full bucket and no slots.
LEMMA GovNew == ASSUME NEW t \in Nat PROVE GovOk(NewGovernor(t), t)
<1> DEFINE g == NewGovernor(t)
<1>1. /\ g.credit = Full /\ g.last = t /\ g.since = t /\ g.announced = 0
      /\ g.throttle = <<>> /\ g.heard = <<>>
  BY DEF NewGovernor, Full
<1>2. Full \in Nat /\ Duty \in Nat /\ ThrottleSlots \in Nat
  BY GovAssumption, SMTT(30) DEF Full
<1>3. g \in Governor
  BY <1>2, SMTT(30) DEF NewGovernor, Full, Governor, Stamps, Heard
<1>4. (t - t) * Duty = 0
  BY <1>2, SMTT(30)
<1> HIDE DEF g
<1>5. Budget(g)
  BY <1>1, <1>2, <1>4, SMTT(30) DEF Budget
<1>6. Memory(g) /\ Spaced(g.heard) /\ \A i \in 1..Len(g.heard) : g.heard[i].at <= t
  <2>1. Len(<<>>) = 0 /\ 1..0 = {}
    BY SMTT(30)
  <2> QED
    BY <1>1, <1>2, <2>1, SMTT(30) DEF Memory, Spaced
<1>7. GovOk(g, t)
  BY <1>1, <1>3, <1>5, <1>6, SMTT(30) DEF GovOk
<1> QED
  BY <1>7 DEF g

-----------------------------------------------------------------------------
(* The task and its radio.                                                 *)

NodeFields == {"active", "q", "seq", "batch", "next", "pend", "cads", "sends", "txd", "isack",
               "cad", "wack", "acks", "seen", "slots", "boot"}
RadioFields == {"mode", "irq", "buf", "hear", "cut"}

\* A frame that may still be sent has an attempt left.  After a transmit
\* timeout tx_is_ack may still be set: the first attempt of the next frame is
\* then taken for an acknowledgement, and is made again.
Tries(s) ==
  /\ s.sends \in Nat /\ s.sends <= ArqTries
  /\ s.cad => ~ s.txd /\ ~ s.wack
  /\ s.pend # NoFrame /\ ~ s.wack /\ (s.isack \/ ~ s.txd) => s.sends < ArqTries
  /\ s.pend # NoFrame /\ s.isack /\ ~ s.txd => s.sends = 0

\* What the radio does, or has just done, is what the task waits for.
Ties(s, r) ==
  /\ r.mode = "cad" \/ "CAD_DONE" \in r.irq => s.cad
  /\ r.mode = "cad" => "CAD_DONE" \notin r.irq
  /\ r.mode = "tx" \/ "TX_DONE" \in r.irq \/ "TIMEOUT" \in r.irq => s.txd

TaskOk(s, r) == Tries(s) /\ Ties(s, r)

Governed ==
  /\ now \in Nat /\ scene \in Scenes /\ DOMAIN gov = Nodes
  /\ \A n \in Nodes : GovOk(gov[n], now)

Tasks ==
  /\ DOMAIN node = Nodes /\ DOMAIN radio = Nodes
  /\ \A n \in Nodes : /\ DOMAIN node[n] = NodeFields /\ DOMAIN radio[n] = RadioFields
                      /\ TaskOk(node[n], radio[n])

LoraInv == Governed /\ (~ aborted => Tasks)

-----------------------------------------------------------------------------
(* Sending.                                                                *)

\* What lora_link_send leaves of the task's state: only the queue and the
\* sequence number change.
SameTask(s, e) ==
  /\ DOMAIN e = NodeFields
  /\ \A f \in NodeFields \ {"q", "seq"} : e[f] = s[f]

\* lora_link_send keeps the governor's invariant and the task's state.
LEMMA SendKeeps ==
  ASSUME now \in Nat, NEW n, NEW s, NEW g, GovOk(g, now),
         NEW p, p.sender \in Origins, p.payload \in Nat, p.wire \in Nat
  PROVE  /\ GovOk(lora_link_send(n, s, g, p).g, now)
         /\ DOMAIN s = NodeFields => SameTask(s, lora_link_send(n, s, g, p).s)
<1> DEFINE len == trunk_true_len(p)
           a == trunk_admit(g, p, len, now, scene.ota)
           batch == [id |-> <<n, s.boot, s.seq + 1>>, len |-> len, seq |-> s.seq + 1,
                     total |-> Fragments(len), ack |-> p.type \notin AnnounceTypes]
           full == ~s.active \/ (len >= PktMinLen /\ Len(s.q) >= QueueDepth)
           sent == [s EXCEPT !.seq = @ + 1, !.q = Append(@, batch)]
           w == lora_link_send(n, s, g, p)
<1>1. len \in Nat
  BY SMTT(30) DEF trunk_true_len
<1>2. w = IF full \/ len < PktMinLen
            THEN [ret |-> IF full THEN -1 ELSE 0, g |-> g, s |-> s]
          ELSE [ret |-> 0, g |-> a.g, s |-> IF a.ok THEN sent ELSE s]
  BY DEF lora_link_send
<1>3. DOMAIN s = NodeFields => SameTask(s, s) /\ SameTask(s, sent)
  <2> HIDE DEF batch
  <2> QED
    BY DEF SameTask, NodeFields
<1>4. GovOk(a.g, now)
  BY <1>1, AdmitKeeps
<1> HIDE DEF len, a, batch, full, sent, w
<1>5. (w.g = g \/ w.g = a.g) /\ (w.s = s \/ w.s = sent)
  BY <1>2
<1>6. GovOk(w.g, now) /\ (DOMAIN s = NodeFields => SameTask(s, w.s))
  BY <1>3, <1>4, <1>5
<1> QED
  BY <1>6 DEF w

-----------------------------------------------------------------------------
(* The handlers of lora_task.                                              *)

Shape(w) ==
  /\ DOMAIN w = {"s", "r", "got"}
  /\ DOMAIN w.s = NodeFields /\ DOMAIN w.r = RadioFields

\* The fields that say what the task waits for.
SameWait(s, e) ==
  /\ e.pend = s.pend /\ e.sends = s.sends /\ e.txd = s.txd
  /\ e.isack = s.isack /\ e.cad = s.cad /\ e.wack = s.wack

SameAir(r, q) == q.mode = r.mode /\ q.irq = r.irq

\* The task's invariant is about those fields alone.
LEMMA WaitMatters ==
  ASSUME NEW s, NEW e, NEW r, NEW q, SameWait(s, e), SameAir(r, q), TaskOk(s, r)
  PROVE  TaskOk(e, q)
BY DEF SameWait, SameAir, TaskOk, Tries, Ties

\* A frame received changes only the acknowledgements and the slots.
LEMMA RxDoneKeeps ==
  ASSUME NEW n, NEW w, NEW ok, Shape(w), TaskOk(w.s, w.r)
  PROVE  Shape(OnRxDone(n, w, ok)) /\ TaskOk(OnRxDone(n, w, ok).s, OnRxDone(n, w, ok).r)
<1> DEFINE f == sx1262_read_packet(w.r, ok)
           x == rx_frame(n, w.s, f)
           s == w.s
           s1 == IF f.req THEN queue_ack(s, f) ELSE s
           y == Reassemble(s1.slots, f)
           v == OnRxDone(n, w, ok)
<1>1. DOMAIN s1 = NodeFields /\ SameWait(s, s1)
  <2> HIDE DEF f
  <2> QED
    BY DEF Shape, queue_ack, SameWait, NodeFields
<1>2. DOMAIN x.s = NodeFields /\ SameWait(s, x.s)
  <2>1. \/ x.s = s \/ x.s = [s EXCEPT !.seen = <<f.seq, f.idx>>]
        \/ x.s = [s1 EXCEPT !.slots = y.slots]
    <3> HIDE DEF f, y, s1
    <3> QED
      BY DEF rx_frame, y, s1
  <2> HIDE DEF f, y, s1, x
  <2>2. CASE x.s = s
    BY <2>2 DEF Shape, SameWait
  <2>3. CASE x.s = [s EXCEPT !.seen = <<f.seq, f.idx>>]
    BY <2>3 DEF Shape, SameWait, NodeFields
  <2>4. CASE x.s = [s1 EXCEPT !.slots = y.slots]
    BY <1>1, <2>4 DEF Shape, SameWait, NodeFields
  <2> QED
    BY <2>1, <2>2, <2>3, <2>4
<1>3. v = [w EXCEPT !.s = x.s, !.got = x.got]
  BY DEF OnRxDone
<1> HIDE DEF x, v, f, s1, y
<1>4. Shape(v) /\ v.s = x.s /\ v.r = w.r
  BY <1>2, <1>3 DEF Shape
<1>5. TaskOk(v.s, v.r)
  BY <1>2, <1>4, WaitMatters DEF SameAir
<1> QED
  BY <1>4, <1>5 DEF v

\* The end of a transmission the task waited for.
LEMMA TxDoneKeeps ==
  ASSUME NEW n, NEW w, NEW ok, Shape(w), TaskOk(w.s, w.r), w.r.irq = {}, w.s.txd
  PROVE  Shape(OnTxDone(n, w, ok)) /\ TaskOk(OnTxDone(n, w, ok).s, OnTxDone(n, w, ok).r)
<1> DEFINE s == [w.s EXCEPT !.txd = FALSE, !.isack = FALSE]
           e == IF w.s.isack THEN s
                ELSE IF s.pend # NoFrame /\ s.pend.req THEN [s EXCEPT !.wack = TRUE]
                ELSE DropFrame(s)
           v == OnTxDone(n, w, ok)
<1>1. v = [w EXCEPT !.r = sx1262_resume_rx(@), !.s = e]
  BY DEF OnTxDone
<1>2. /\ DOMAIN s = NodeFields /\ s.pend = w.s.pend /\ s.sends = w.s.sends /\ ~ s.txd /\ ~ s.isack
      /\ s.cad = w.s.cad /\ s.wack = w.s.wack
  BY DEF Shape, NodeFields
<1> HIDE DEF s
<1>3. /\ DOMAIN e = NodeFields /\ e.sends = w.s.sends /\ ~ e.txd /\ ~ e.isack /\ e.cad = w.s.cad
      /\ (w.s.isack /\ e.pend = w.s.pend /\ e.wack = w.s.wack) \/ e.wack \/ e.pend = NoFrame
  BY <1>2 DEF DropFrame, NodeFields
<1> HIDE DEF e, v
<1>4. Shape(v) /\ v.s = e /\ v.r.mode = "rx" /\ v.r.irq = {}
  BY <1>1, <1>3 DEF Shape, sx1262_resume_rx, RadioFields
<1>5. ~ w.s.cad /\ w.s.sends \in Nat /\ w.s.sends <= ArqTries
  BY DEF TaskOk, Tries
<1>6. Tries(e)
  BY <1>3, <1>5 DEF TaskOk, Tries
<1>7. Ties(v.s, v.r)
  BY <1>4 DEF Ties
<1>8. Shape(v) /\ TaskOk(v.s, v.r)
  BY <1>4, <1>6, <1>7 DEF TaskOk
<1> QED
  BY <1>8 DEF v

\* An acknowledgement starts while the radio is idle.
LEMMA AckStarts ==
  ASSUME NEW n, NEW w, NEW ok, Shape(w), TaskOk(w.s, w.r), ~ w.s.txd, ~ w.s.cad
  PROVE  Shape(transmit_ack_now(n, w, ok)) /\
         TaskOk(transmit_ack_now(n, w, ok).s, transmit_ack_now(n, w, ok).r)
<1> DEFINE s == [w.s EXCEPT !.acks = Tail(@)]
           f == AckOf(n, Head(w.s.acks))
           v == transmit_ack_now(n, w, ok)
<1>1. DOMAIN s = NodeFields /\ SameWait(w.s, s)
  BY DEF Shape, NodeFields, SameWait
<1>2. v = IF ok THEN [w EXCEPT !.s = [s EXCEPT !.txd = TRUE, !.isack = TRUE],
                               !.r = sx1262_transmit(@, f)]
          ELSE [w EXCEPT !.s = s, !.r = sx1262_resume_rx(TransmitFails(@))]
  BY DEF transmit_ack_now
<1>3. /\ "CAD_DONE" \notin w.r.irq /\ "TX_DONE" \notin w.r.irq /\ "TIMEOUT" \notin w.r.irq
      /\ w.s.pend # NoFrame /\ ~ w.s.wack => w.s.sends < ArqTries
      /\ w.s.pend # NoFrame /\ w.s.isack => w.s.sends = 0
      /\ w.s.sends \in Nat /\ w.s.sends <= ArqTries
  BY DEF TaskOk, Tries, Ties
<1> HIDE DEF s, v, f
<1>4. CASE ok
  <2>1. /\ Shape(v) /\ v.r.mode = "tx" /\ v.r.irq = w.r.irq
        /\ v.s.pend = s.pend /\ v.s.sends = s.sends /\ v.s.txd /\ v.s.isack
        /\ v.s.cad = s.cad /\ v.s.wack = s.wack
    BY <1>1, <1>2, <1>4, ZenonT(30) DEF Shape, sx1262_transmit, RadioFields, NodeFields
  <2>2. Tries(v.s)
    BY <1>1, <1>3, <2>1 DEF Tries, SameWait
  <2>3. Ties(v.s, v.r)
    BY <1>3, <2>1 DEF Ties
  <2> QED
    BY <2>1, <2>2, <2>3 DEF TaskOk, v
<1>5. CASE ~ ok
  <2>1. Shape(v) /\ v.r.mode = "rx" /\ v.r.irq = w.r.irq /\ v.s = s
    BY <1>1, <1>2, <1>5, ZenonT(30) DEF Shape, sx1262_resume_rx, TransmitFails, RadioFields
  <2>2. Tries(v.s)
    BY <1>1, <2>1 DEF Tries, TaskOk, SameWait
  <2>3. Ties(v.s, v.r)
    BY <1>3, <2>1 DEF Ties
  <2> QED
    BY <2>1, <2>2, <2>3 DEF TaskOk, v
<1> QED
  BY <1>4, <1>5

\* The channel is clear: an acknowledgement goes first, else the frame.
LEMMA CadClearKeeps ==
  ASSUME NEW n, NEW w0, NEW ok, Shape(w0), TaskOk(w0.s, w0.r), w0.r.irq = {}, w0.s.cad,
         w0.r.mode # "cad"
  PROVE  Shape(OnCadClear(n, w0, ok)) /\ TaskOk(OnCadClear(n, w0, ok).s, OnCadClear(n, w0, ok).r)
<1> DEFINE w == [w0 EXCEPT !.s.cad = FALSE]
           v == OnCadClear(n, w0, ok)
<1>1. /\ Shape(w) /\ w.r = w0.r /\ ~ w.s.cad /\ w.s.pend = w0.s.pend /\ w.s.sends = w0.s.sends
      /\ w.s.txd = w0.s.txd /\ w.s.isack = w0.s.isack /\ w.s.wack = w0.s.wack
  BY DEF Shape, NodeFields
<1>2. v = IF w.s.acks # <<>> THEN transmit_ack_now(n, w, ok)
          ELSE IF w.s.pend = NoFrame THEN w
          ELSE IF ok THEN [w EXCEPT !.s.txd = TRUE, !.s.sends = @ + 1,
                                    !.r = sx1262_transmit(@, w.s.pend)]
          ELSE [w EXCEPT !.s = DropBatch(@), !.r = sx1262_resume_rx(TransmitFails(@))]
  BY DEF OnCadClear
<1> HIDE DEF w, v
<1>3. ~ w.s.txd /\ ~ w.s.wack /\ TaskOk(w.s, w.r) /\ w.r.irq = {}
  BY <1>1 DEF TaskOk, Tries, Ties
<1>4. CASE w.s.acks # <<>>
  BY <1>1, <1>2, <1>3, <1>4, AckStarts DEF v
<1>5. CASE w.s.acks = <<>> /\ w.s.pend = NoFrame
  BY <1>1, <1>2, <1>3, <1>5 DEF v
<1>6. CASE w.s.acks = <<>> /\ w.s.pend # NoFrame /\ ok
  <2>1. v = [w EXCEPT !.s.txd = TRUE, !.s.sends = @ + 1, !.r = sx1262_transmit(@, w.s.pend)]
    BY <1>2, <1>6
  <2>2. /\ Shape(v) /\ v.r.mode = "tx" /\ v.r.irq = {} /\ v.s.txd /\ v.s.sends = w.s.sends + 1
        /\ v.s.isack = w.s.isack /\ v.s.cad = w.s.cad /\ v.s.wack = w.s.wack
    BY <1>1, <1>3, <2>1 DEF Shape, NodeFields, RadioFields, sx1262_transmit
  <2>3. w.s.sends \in Nat /\ w.s.sends < ArqTries /\ (w.s.isack => w.s.sends = 0)
    BY <1>3, <1>6 DEF TaskOk, Tries
  <2>4. Tries(v.s)
    BY <1>1, <1>3, <2>2, <2>3, LoraAssumption, SMTT(30) DEF Tries
  <2> QED
    BY <2>2, <2>4 DEF TaskOk, Ties, v
<1>7. CASE w.s.acks = <<>> /\ w.s.pend # NoFrame /\ ~ ok
  <2>1. v = [w EXCEPT !.s = DropBatch(@), !.r = sx1262_resume_rx(TransmitFails(@))]
    BY <1>2, <1>7
  <2>2. /\ Shape(v) /\ v.r.mode = "rx" /\ v.r.irq = {} /\ v.s.txd = w.s.txd /\ v.s.sends = w.s.sends
        /\ v.s.cad = w.s.cad /\ v.s.wack = w.s.wack /\ v.s.pend = NoFrame
    BY <1>1, <1>3, <2>1 DEF Shape, NodeFields, RadioFields, sx1262_resume_rx, TransmitFails, DropBatch
  <2>3. Tries(v.s)
    BY <1>1, <1>3, <2>2 DEF Tries, TaskOk
  <2> QED
    BY <2>2, <2>3 DEF TaskOk, Ties, v
<1> QED
  BY <1>4, <1>5, <1>6, <1>7

\* The channel is taken: detection again, or the packet is given up.
LEMMA CadBusyKeeps ==
  ASSUME NEW n, NEW w0, NEW ok, Shape(w0), TaskOk(w0.s, w0.r), w0.r.irq = {}, w0.s.cad,
         w0.r.mode # "cad"
  PROVE  Shape(OnCadBusy(n, w0, ok)) /\ TaskOk(OnCadBusy(n, w0, ok).s, OnCadBusy(n, w0, ok).r)
<1> DEFINE w == [w0 EXCEPT !.s.cad = FALSE, !.s.cads = IF w0.s.pend # NoFrame THEN @ + 1 ELSE @]
           v == OnCadBusy(n, w0, ok)
<1>1. /\ Shape(w) /\ w.r = w0.r /\ ~ w.s.cad /\ w.s.pend = w0.s.pend /\ w.s.sends = w0.s.sends
      /\ w.s.txd = w0.s.txd /\ w.s.isack = w0.s.isack /\ w.s.wack = w0.s.wack
  BY DEF Shape, NodeFields
<1>2. \/ v = [w EXCEPT !.s.cad = TRUE, !.r = sx1262_start_cad(@)]
      \/ v = [w EXCEPT !.r = CadFails(@)]
      \/ v = [w EXCEPT !.s = DropBatch(@), !.r = sx1262_resume_rx(@)]
  BY DEF OnCadBusy
<1> HIDE DEF w, v
<1>3. ~ w.s.txd /\ ~ w.s.wack /\ Tries(w.s) /\ w.r.irq = {}
  BY <1>1 DEF TaskOk, Tries
<1>4. /\ Shape(v) /\ v.r.irq = {} /\ (v.r.mode = "cad" => v.s.cad) /\ v.r.mode # "tx"
      /\ v.s.txd = w.s.txd /\ v.s.sends = w.s.sends
      /\ v.s.isack = w.s.isack /\ v.s.wack = w.s.wack
      /\ v.s.pend = NoFrame \/ v.s.pend = w.s.pend
  <2>1. CASE v = [w EXCEPT !.s.cad = TRUE, !.r = sx1262_start_cad(@)]
    BY <1>1, <1>3, <2>1 DEF Shape, NodeFields, RadioFields, sx1262_start_cad
  <2>2. CASE v = [w EXCEPT !.r = CadFails(@)]
    BY <1>1, <1>3, <2>2 DEF Shape, NodeFields, RadioFields, CadFails
  <2>3. CASE v = [w EXCEPT !.s = DropBatch(@), !.r = sx1262_resume_rx(@)]
    BY <1>1, <1>3, <2>3, ZenonT(30) DEF Shape, NodeFields, RadioFields, DropBatch, sx1262_resume_rx
  <2> QED
    BY <1>2, <2>1, <2>2, <2>3
<1>5. Tries(v.s)
  BY <1>3, <1>4 DEF Tries
<1>6. Ties(v.s, v.r)
  BY <1>4 DEF Ties
<1> QED
  BY <1>4, <1>5, <1>6 DEF TaskOk, v

\* The radio's transmit timeout.
LEMMA TimeoutKeeps ==
  ASSUME NEW n, NEW w, NEW ok, Shape(w), TaskOk(w.s, w.r), w.r.irq = {}, w.s.txd
  PROVE  Shape(OnTimeout(n, w, ok)) /\ TaskOk(OnTimeout(n, w, ok).s, OnTimeout(n, w, ok).r)
<1> DEFINE v == OnTimeout(n, w, ok)
<1>1. /\ Shape(v) /\ v.r.mode = "rx" /\ v.r.irq = {} /\ ~ v.s.txd /\ ~ v.s.wack
      /\ v.s.pend = NoFrame /\ v.s.sends = w.s.sends
  BY DEF OnTimeout, Shape, NodeFields, RadioFields, DropBatch, sx1262_resume_rx
<1> HIDE DEF v
<1>2. w.s.sends \in Nat /\ w.s.sends <= ArqTries
  BY DEF TaskOk, Tries
<1>3. TaskOk(v.s, v.r)
  BY <1>1, <1>2 DEF TaskOk, Tries, Ties
<1> QED
  BY <1>1, <1>3 DEF v

\* One event read from the radio and handled.
LEMMA EventKeeps ==
  ASSUME NEW n \in Nodes, NEW ok, DOMAIN node[n] = NodeFields, DOMAIN radio[n] = RadioFields,
         TaskOk(node[n], radio[n]),
         NEW w, w = [s |-> node[n], r |-> [radio[n] EXCEPT !.irq = {}], got |-> <<>>]
  PROVE  Shape(Handled(n, w, ok)) /\ TaskOk(Handled(n, w, ok).s, Handled(n, w, ok).r)
<1> DEFINE e == sx1262_poll_event(radio[n])
           v == Handled(n, w, ok)
<1>1. /\ Shape(w) /\ w.s = node[n] /\ w.r.irq = {} /\ w.r.mode = radio[n].mode
  BY DEF Shape, RadioFields
<1>2. TaskOk(w.s, w.r)
  BY <1>1 DEF TaskOk, Ties
<1>3. /\ e \in {"CAD_CLEAR", "CAD_BUSY"} => "CAD_DONE" \in radio[n].irq
      /\ e = "TX_DONE" => "TX_DONE" \in radio[n].irq
      /\ e = "TIMEOUT" => "TIMEOUT" \in radio[n].irq
  <2> DEFINE q == radio[n].irq
             A == "CAD_DONE" \in q
             B == q \cap {"CAD_DONE", "TX_DONE"} = {"TX_DONE"}
             C == q \cap {"CAD_DONE", "TX_DONE", "CRC_ERR"} = {"CRC_ERR"}
             D == q \cap {"CAD_DONE", "TX_DONE", "CRC_ERR", "RX_DONE"} = {"RX_DONE"}
             T == q = {"TIMEOUT"}
  <2>1. e = CASE A -> IF "CAD_DETECTED" \in q THEN "CAD_BUSY" ELSE "CAD_CLEAR"
              [] B -> "TX_DONE" [] C -> "CRC_ERROR" [] D -> "RX_DONE" [] T -> "TIMEOUT"
              [] OTHER -> "NONE"
    BY DEF sx1262_poll_event
  <2>2. (B => "TX_DONE" \in q) /\ (T => "TIMEOUT" \in q)
    OBVIOUS
  <2>3. (A => ~ B /\ ~ C /\ ~ D /\ ~ T) /\ (B => ~ A /\ ~ C /\ ~ D /\ ~ T) /\ (C => ~ A /\ ~ B /\ ~ D /\ ~ T)
        /\ (D => ~ A /\ ~ B /\ ~ C /\ ~ T) /\ (T => ~ A /\ ~ B /\ ~ C /\ ~ D)
    <3>1. /\ B => "TX_DONE" \in q /\ "CAD_DONE" \notin q
          /\ C => "CRC_ERR" \in q /\ "CAD_DONE" \notin q /\ "TX_DONE" \notin q
          /\ D => "RX_DONE" \in q /\ "CAD_DONE" \notin q /\ "TX_DONE" \notin q /\ "CRC_ERR" \notin q
          /\ T => /\ "CAD_DONE" \notin q /\ "TX_DONE" \notin q /\ "CRC_ERR" \notin q
                  /\ "RX_DONE" \notin q
      <4> HIDE DEF e, v
      <4> QED
        BY SMTT(30)
    <3> HIDE DEF B, C, D, T, q
    <3> QED
      BY <3>1
  <2> HIDE DEF A, B, C, D, T, e, q
  <2>4. /\ e \in {"CAD_CLEAR", "CAD_BUSY"} => A
        /\ e = "TX_DONE" => B
        /\ e = "TIMEOUT" => T
    BY <2>1, <2>3
  <2> QED
    BY <2>2, <2>4 DEF A, q
<1>4. /\ "CAD_DONE" \in radio[n].irq => w.s.cad /\ w.r.mode # "cad"
      /\ "TX_DONE" \in radio[n].irq \/ "TIMEOUT" \in radio[n].irq => w.s.txd
  BY <1>1 DEF TaskOk, Ties
<1>5. v = CASE e = "RX_DONE" -> OnRxDone(n, w, ok)
            [] e = "TX_DONE" -> OnTxDone(n, w, ok)
            [] e = "CAD_CLEAR" -> OnCadClear(n, w, ok)
            [] e = "CAD_BUSY" -> OnCadBusy(n, w, ok)
            [] e = "TIMEOUT" -> OnTimeout(n, w, ok)
            [] OTHER -> w
  BY DEF Handled
<1> HIDE DEF e, v
<1>6. CASE e = "RX_DONE"
  <2>1. v = OnRxDone(n, w, ok)
    BY <1>5, <1>6
  <2>2. Shape(OnRxDone(n, w, ok)) /\ TaskOk(OnRxDone(n, w, ok).s, OnRxDone(n, w, ok).r)
    BY <1>1, <1>2, RxDoneKeeps
  <2> QED
    BY <2>1, <2>2 DEF v
<1>7. CASE e = "TX_DONE"
  <2>1. v = OnTxDone(n, w, ok) /\ w.s.txd
    BY <1>3, <1>4, <1>5, <1>7
  <2> QED
    BY <1>1, <1>2, <2>1, TxDoneKeeps DEF v
<1>8. CASE e = "CAD_CLEAR"
  <2>1. v = OnCadClear(n, w, ok) /\ w.s.cad /\ w.r.mode # "cad"
    BY <1>3, <1>4, <1>5, <1>8
  <2> QED
    BY <1>1, <1>2, <2>1, CadClearKeeps DEF v
<1>9. CASE e = "CAD_BUSY"
  <2>1. v = OnCadBusy(n, w, ok) /\ w.s.cad /\ w.r.mode # "cad"
    BY <1>3, <1>4, <1>5, <1>9
  <2> QED
    BY <1>1, <1>2, <2>1, CadBusyKeeps DEF v
<1>10. CASE e = "TIMEOUT"
  <2>1. v = OnTimeout(n, w, ok) /\ w.s.txd
    BY <1>3, <1>4, <1>5, <1>10
  <2> QED
    BY <1>1, <1>2, <2>1, TimeoutKeeps DEF v
<1>11. CASE e \notin {"RX_DONE", "TX_DONE", "CAD_CLEAR", "CAD_BUSY", "TIMEOUT"}
  <2>1. v = w
    BY <1>5, <1>11
  <2> QED
    BY <1>1, <1>2, <2>1 DEF v
<1> QED
  BY <1>6, <1>7, <1>8, <1>9, <1>10, <1>11

-----------------------------------------------------------------------------
(* The rest of the loop's body.                                            *)

\* Unless a retransmission cut off an acknowledgement.
OkOrCut(w) == TaskOk(w.s, w.r) \/ (w.s.txd /\ w.s.cad)

\* Activity detection starts for a frame that has an attempt left.
LEMMA CadStarts ==
  ASSUME NEW w, NEW ok, Shape(w), Tries(w.s), Ties(w.s, w.r), ~ w.s.cad, ~ w.s.wack,
         w.s.pend # NoFrame => w.s.sends < ArqTries
  PROVE  Shape(StartCad(w, ok)) /\ OkOrCut(StartCad(w, ok))
<1> DEFINE v == StartCad(w, ok)
<1>1. /\ "CAD_DONE" \notin w.r.irq
      /\ "TX_DONE" \in w.r.irq \/ "TIMEOUT" \in w.r.irq => w.s.txd
      /\ w.s.sends \in Nat /\ w.s.sends <= ArqTries
  BY DEF Ties, Tries
<1>2. CASE ok
  <2>1. v = [w EXCEPT !.s.cad = TRUE, !.r = sx1262_start_cad(@)]
    BY <1>2 DEF StartCad
  <2> HIDE DEF v
  <2>2. /\ Shape(v) /\ v.r.mode = "cad" /\ v.r.irq = w.r.irq /\ v.s.cad
        /\ v.s.pend = w.s.pend /\ v.s.sends = w.s.sends /\ v.s.txd = w.s.txd
        /\ v.s.isack = w.s.isack /\ v.s.wack = w.s.wack
    BY <2>1, ZenonT(30) DEF Shape, NodeFields, RadioFields, sx1262_start_cad
  <2>3. Ties(v.s, v.r)
    BY <1>1, <2>2 DEF Ties
  <2>4. ~ v.s.txd => Tries(v.s)
    BY <1>1, <2>2 DEF Tries
  <2> QED
    BY <2>2, <2>3, <2>4 DEF OkOrCut, TaskOk, v
<1>3. CASE ~ ok
  <2>1. v = [w EXCEPT !.s = DropBatch(@), !.r = CadFails(@)]
    BY <1>3 DEF StartCad
  <2> HIDE DEF v
  <2>2. /\ Shape(v) /\ v.r.mode = "standby" /\ v.r.irq = w.r.irq /\ v.s.cad = w.s.cad
        /\ v.s.pend = NoFrame /\ v.s.sends = w.s.sends /\ v.s.txd = w.s.txd
        /\ v.s.isack = w.s.isack /\ v.s.wack = w.s.wack
    BY <2>1 DEF Shape, NodeFields, RadioFields, CadFails, DropBatch
  <2>3. Ties(v.s, v.r)
    BY <1>1, <2>2 DEF Ties
  <2>4. Tries(v.s)
    BY <1>1, <2>2 DEF Tries
  <2> QED
    BY <2>2, <2>3, <2>4 DEF OkOrCut, TaskOk, v
<1> QED
  BY <1>2, <1>3

\* The wait for an acknowledgement ends.
LEMMA ResolveKeeps ==
  ASSUME NEW w, NEW late, NEW ok, Shape(w), TaskOk(w.s, w.r)
  PROVE  Shape(ResolveAck(w, late, ok)) /\ OkOrCut(ResolveAck(w, late, ok))
<1> DEFINE s == [w.s EXCEPT !.wack = FALSE]
           v == ResolveAck(w, late, ok)
           again == [w EXCEPT !.s = [s EXCEPT !.cads = 0]]
<1>1. /\ DOMAIN s = NodeFields /\ s.pend = w.s.pend /\ s.sends = w.s.sends /\ s.txd = w.s.txd
      /\ s.isack = w.s.isack /\ s.cad = w.s.cad /\ ~ s.wack
  BY DEF Shape, NodeFields
<1>2. \/ v = w
      \/ w.s.wack /\ v = [w EXCEPT !.s = [DropFrame(s) EXCEPT !.seen = <<>>]]
      \/ w.s.wack /\ v = [w EXCEPT !.s = DropBatch(s)]
      \/ w.s.wack /\ w.s.sends < ArqTries /\ v = StartCad(again, ok)
  <2> HIDE DEF s
  <2> QED
    BY DEF ResolveAck, s
<1> HIDE DEF s, v
<1>3. CASE v = w
  BY <1>3 DEF OkOrCut, v
<1>4. CASE w.s.wack /\ v = [w EXCEPT !.s = [DropFrame(s) EXCEPT !.seen = <<>>]]
  <2>1. /\ Shape(v) /\ v.r = w.r /\ v.s.pend = NoFrame /\ v.s.sends = s.sends /\ v.s.txd = s.txd
        /\ v.s.isack = s.isack /\ v.s.cad = s.cad
    BY <1>1, <1>4 DEF Shape, NodeFields, DropFrame
  <2>2. Tries(v.s) /\ Ties(v.s, v.r)
    BY <1>1, <1>4, <2>1 DEF TaskOk, Tries, Ties
  <2> QED
    BY <2>1, <2>2 DEF TaskOk, OkOrCut, v
<1>5. CASE w.s.wack /\ v = [w EXCEPT !.s = DropBatch(s)]
  <2>1. /\ Shape(v) /\ v.r = w.r /\ v.s.pend = NoFrame /\ v.s.sends = s.sends /\ v.s.txd = s.txd
        /\ v.s.isack = s.isack /\ v.s.cad = s.cad
    BY <1>1, <1>5 DEF Shape, NodeFields, DropBatch
  <2>2. Tries(v.s) /\ Ties(v.s, v.r)
    BY <1>1, <1>5, <2>1 DEF TaskOk, Tries, Ties
  <2> QED
    BY <2>1, <2>2 DEF TaskOk, OkOrCut, v
<1>6. CASE w.s.wack /\ w.s.sends < ArqTries /\ v = StartCad(again, ok)
  <2>1. /\ Shape(again) /\ again.r = w.r /\ again.s.pend = s.pend /\ again.s.sends = s.sends
        /\ again.s.txd = s.txd /\ again.s.isack = s.isack /\ again.s.cad = s.cad
        /\ again.s.wack = s.wack
    BY <1>1 DEF Shape, NodeFields
  <2> HIDE DEF again
  <2>2. Tries(again.s) /\ Ties(again.s, again.r) /\ ~ again.s.cad /\ ~ again.s.wack
    BY <1>1, <1>6, <2>1 DEF TaskOk, Tries, Ties
  <2>3. again.s.sends < ArqTries
    BY <1>1, <1>6, <2>1
  <2> QED
    BY <1>6, <2>1, <2>2, <2>3, CadStarts DEF v
<1> QED
  BY <1>2, <1>3, <1>4, <1>5, <1>6

\* The rest of a turn keeps the task's invariant, unless it starts detection
\* while an acknowledgement is on the air.
LEMMA RestKeeps ==
  ASSUME NEW n, NEW w, NEW late, NEW ok, Shape(w), TaskOk(w.s, w.r)
  PROVE  Shape(Rested(n, w, late, ok)) /\ OkOrCut(Rested(n, w, late, ok))
<1> DEFINE a == AcksFly(n, w, ok)
           b == ResolveAck(a, late, ok)
           c == Rearm(b, ok)
           d == NextFrame(n, c, ok)
<1>1. Shape(a) /\ TaskOk(a.s, a.r)
  <2>1. CASE w.s.acks # <<>> /\ ~ w.s.txd /\ ~ w.s.cad
    <3>1. a = transmit_ack_now(n, w, ok)
      BY <2>1 DEF AcksFly
    <3> QED
      BY <2>1, <3>1, AckStarts
  <2>2. CASE ~ (w.s.acks # <<>> /\ ~ w.s.txd /\ ~ w.s.cad)
    BY <2>2 DEF AcksFly
  <2> QED
    BY <2>1, <2>2
<1> HIDE DEF a
<1>2. Shape(b) /\ OkOrCut(b)
  BY <1>1, ResolveKeeps
<1> HIDE DEF b
<1>3. Shape(c) /\ OkOrCut(c)
  <2>1. CASE b.s.pend # NoFrame /\ ~b.s.cad /\ ~b.s.txd /\ ~b.s.wack
    <3>1. c = StartCad(b, ok)
      BY <2>1 DEF Rearm
    <3>2. Tries(b.s) /\ Ties(b.s, b.r) /\ b.s.sends < ArqTries
      BY <1>2, <2>1 DEF OkOrCut, TaskOk, Tries
    <3> QED
      BY <1>2, <2>1, <3>1, <3>2, CadStarts
  <2>2. CASE ~ (b.s.pend # NoFrame /\ ~b.s.cad /\ ~b.s.txd /\ ~b.s.wack)
    BY <1>2, <2>2 DEF Rearm
  <2> QED
    BY <2>1, <2>2
<1> HIDE DEF c
<1>4. Shape(d) /\ OkOrCut(d)
  <2> DEFINE s == c.s
             over == s.next >= s.batch.total
             p == IF ~over THEN s.batch ELSE IF s.q # <<>> THEN Head(s.q) ELSE NoBatch
             i == IF over THEN 0 ELSE s.next
             e == [c EXCEPT !.s = [s EXCEPT
                     !.q = IF over THEN Tail(@) ELSE @,
                     !.batch = p, !.next = i + 1, !.pend = FrameOf(n, p, i),
                     !.cads = 0, !.sends = 0, !.seen = <<>>]]
  <2>1. d = IF s.pend # NoFrame \/ s.txd \/ s.cad \/ s.wack THEN c
            ELSE IF p = NoBatch THEN [c EXCEPT !.s = DropBatch(@)]
            ELSE StartCad(e, ok)
    BY DEF NextFrame
  <2>2. CASE s.pend # NoFrame \/ s.txd \/ s.cad \/ s.wack
    BY <1>3, <2>1, <2>2
  <2>3. CASE ~ (s.pend # NoFrame \/ s.txd \/ s.cad \/ s.wack)
    <3>1. ~ s.txd /\ ~ s.cad /\ ~ s.wack /\ TaskOk(s, c.r)
      BY <1>3, <2>3 DEF OkOrCut
    <3>2. CASE p = NoBatch
      <4>1. d = [c EXCEPT !.s = DropBatch(@)]
        BY <2>1, <2>3, <3>2
      <4> HIDE DEF d
      <4>2. /\ Shape(d) /\ d.r = c.r /\ d.s.pend = NoFrame /\ d.s.sends = s.sends /\ d.s.txd = s.txd
            /\ d.s.isack = s.isack /\ d.s.cad = s.cad /\ d.s.wack = s.wack
        BY <1>3, <4>1, ZenonT(30) DEF Shape, NodeFields, DropBatch
      <4>3. Tries(d.s) /\ Ties(d.s, d.r)
        BY <3>1, <4>2 DEF TaskOk, Tries, Ties
      <4> QED
        BY <4>2, <4>3 DEF OkOrCut, TaskOk
    <3>3. CASE p # NoBatch
      <4>1. d = StartCad(e, ok)
        BY <2>1, <2>3, <3>3
      <4>2. /\ Shape(e) /\ e.r = c.r /\ e.s.sends = 0 /\ e.s.txd = s.txd
            /\ e.s.isack = s.isack /\ e.s.cad = s.cad /\ e.s.wack = s.wack
        <5> HIDE DEF p, i, over
        <5> QED
          BY <1>3 DEF Shape, NodeFields
      <4> HIDE DEF e, d
      <4>3. Tries(e.s) /\ Ties(e.s, e.r) /\ e.s.sends < ArqTries
        BY <3>1, <4>2, LoraAssumption, SMTT(30) DEF TaskOk, Tries, Ties
      <4> QED
        BY <3>1, <4>1, <4>2, <4>3, CadStarts
    <3> QED
      BY <3>2, <3>3
  <2> QED
    BY <2>2, <2>3
<1>5. d = Rested(n, w, late, ok)
  BY DEF Rested, a, b, c
<1> QED
  BY <1>4, <1>5

-----------------------------------------------------------------------------
(* The invariant.                                                          *)

\* SetRadio changes who hears whom, and node n's radio to r.
LEMMA RadioSet ==
  ASSUME NEW n \in Nodes, NEW r, DOMAIN r = RadioFields, SetRadio(n, r),
         \A m \in Nodes : DOMAIN radio[m] = RadioFields
  PROVE  /\ DOMAIN radio' = Nodes
         /\ \A m \in Nodes : DOMAIN radio'[m] = RadioFields
         /\ SameAir(r, radio'[n])
         /\ \A m \in Nodes \ {n} : SameAir(radio[m], radio'[m])
<1> DEFINE starts == r.cut /\ r.mode = "tx"
           taken == \E m \in Nodes \ {n} : radio[m].mode = "tx"
           hear == IF taken THEN {} ELSE {m \in Nodes \ {n} : radio[m].mode = "rx"}
           own == [r EXCEPT !.cut = FALSE,
                            !.hear = IF starts THEN hear ELSE IF r.mode = "tx" THEN @ ELSE {}]
           other(m) == [radio[m] EXCEPT !.hear = IF starts THEN {} ELSE IF r.cut THEN @ \ {n} ELSE @]
<1>1. radio' = [m \in Nodes |-> IF m = n THEN own ELSE other(m)]
  BY DEF SetRadio
<1> HIDE DEF starts, hear
<1>2. DOMAIN own = RadioFields /\ own.mode = r.mode /\ own.irq = r.irq
  BY DEF RadioFields
<1>3. \A m \in Nodes : DOMAIN other(m) = RadioFields /\ other(m).mode = radio[m].mode
                         /\ other(m).irq = radio[m].irq
  BY DEF RadioFields
<1> HIDE DEF own, other
<1> QED
  BY <1>1, <1>2, <1>3 DEF SameAir

\* A step of one task: the others keep theirs.
LEMMA TaskStep ==
  ASSUME Tasks, NEW n \in Nodes, NEW s, NEW r, DOMAIN s = NodeFields, DOMAIN r = RadioFields,
         node' = [node EXCEPT ![n] = s], SetRadio(n, r), TaskOk(s, r)
  PROVE  Tasks'
<1>1. DOMAIN node' = Nodes /\ node'[n] = s /\ \A m \in Nodes \ {n} : node'[m] = node[m]
  BY DEF Tasks
<1>2. /\ DOMAIN radio' = Nodes
      /\ \A m \in Nodes : DOMAIN radio'[m] = RadioFields
      /\ SameAir(r, radio'[n])
      /\ \A m \in Nodes \ {n} : SameAir(radio[m], radio'[m])
  BY RadioSet DEF Tasks
<1>3. \A m \in Nodes : DOMAIN node'[m] = NodeFields
  BY <1>1 DEF Tasks
<1>4. ASSUME NEW m \in Nodes PROVE TaskOk(node'[m], radio'[m])
  <2>1. CASE m = n
    <3>1. TaskOk(s, radio'[n])
      BY <1>2, WaitMatters DEF SameWait
    <3> QED
      BY <1>1, <2>1, <3>1
  <2>2. CASE m # n
    <3>1. TaskOk(node[m], radio[m]) /\ SameAir(radio[m], radio'[m])
      BY <1>2, <2>2 DEF Tasks
    <3>2. TaskOk(node[m], radio'[m])
      BY <3>1, WaitMatters DEF SameWait
    <3> QED
      BY <1>1, <2>2, <3>2
  <2> QED
    BY <2>1, <2>2
<1> QED
  BY <1>1, <1>2, <1>3, <1>4 DEF Tasks

\* The senders of the packets that the scenes offer are origins.
LEMMA OfferedFields ==
  ASSUME scene \in Scenes, NEW p \in scene.offers
  PROVE  p.sender \in Origins /\ p.payload \in Nat /\ p.wire \in Nat
<1>1. p \in Packet
  BY LoraAssumption
<1>2. p.sender \in Origins /\ p.payload \in 0..MaxPacket /\ p.wire \in 1..MaxPacket
  BY <1>1 DEF Packet
<1> QED
  BY <1>2, PacketLengths

\* A send of any kind: one node's governor and queue.
LEMMA SendStep ==
  ASSUME LoraInv, NEW n \in Nodes, NEW g, NEW s, GovOk(g, now),
         DOMAIN node[n] = NodeFields => SameTask(node[n], s),
         gov' = [gov EXCEPT ![n] = g], node' = [node EXCEPT ![n] = s],
         UNCHANGED <<radio, now, aborted, scene>>
  PROVE  LoraInv'
<1>1. Governed'
  BY DEF LoraInv, Governed
<1>2. ASSUME Tasks PROVE Tasks'
  <2>1. DOMAIN s = NodeFields /\ SameWait(node[n], s)
    BY <1>2 DEF SameTask, NodeFields, SameWait, Tasks
  <2>2. DOMAIN node' = Nodes /\ \A m \in Nodes : node'[m] = IF m = n THEN s ELSE node[m]
    BY <1>2 DEF Tasks
  <2>3. ASSUME NEW m \in Nodes PROVE DOMAIN node'[m] = NodeFields /\ SameWait(node[m], node'[m])
    BY <1>2, <2>1, <2>2, ZenonT(30) DEF SameWait, Tasks
  <2>4. ASSUME NEW m \in Nodes PROVE TaskOk(node'[m], radio[m])
    BY <1>2, <2>3, WaitMatters DEF SameAir, Tasks
  <2> QED
    BY <1>2, <2>2, <2>3, <2>4 DEF Tasks
<1> QED
  BY <1>1, <1>2 DEF LoraInv

LEMMA SendInv ==
  ASSUME LoraInv, NEW n \in Nodes, NEW p \in scene.offers, Send(n, p) PROVE LoraInv'
<1> DEFINE w == lora_link_send(n, node[n], gov[n], p)
<1>1. now \in Nat /\ scene \in Scenes /\ GovOk(gov[n], now)
  BY DEF LoraInv, Governed
<1>2. GovOk(w.g, now) /\ (DOMAIN node[n] = NodeFields => SameTask(node[n], w.s))
  <2>1. p.sender \in Origins /\ p.payload \in Nat /\ p.wire \in Nat
    BY <1>1, OfferedFields
  <2> QED
    BY <1>1, <2>1, SendKeeps
<1>3. gov' = [gov EXCEPT ![n] = w.g] /\ node' = [node EXCEPT ![n] = w.s]
      /\ UNCHANGED <<radio, now, aborted, scene>>
  BY DEF Send
<1> HIDE DEF w
<1> QED
  BY <1>2, <1>3, SendStep

LEMMA BeaconInv ==
  ASSUME LoraInv, NEW n \in Nodes, Beacon(n) PROVE LoraInv'
<1> DEFINE p == Own(n, "announce", 80)
           q == Own(n, "capability", 3)
           a == lora_link_send(n, node[n], gov[n], p)
           c == lora_link_send(n, a.s, a.g, q)
           w == IF a.ret = 0 THEN c ELSE a
<1>1. now \in Nat /\ GovOk(gov[n], now)
  BY DEF LoraInv, Governed
<1>2. /\ p.sender \in Origins /\ p.payload \in Nat /\ p.wire \in Nat
      /\ q.sender \in Origins /\ q.payload \in Nat /\ q.wire \in Nat
  BY LoraAssumption, SMTT(30) DEF Own
<1>3. gov' = [gov EXCEPT ![n] = w.g] /\ node' = [node EXCEPT ![n] = w.s]
      /\ UNCHANGED <<radio, now, aborted, scene>>
  BY DEF Beacon
<1> HIDE DEF p, q
<1>4. GovOk(a.g, now) /\ (DOMAIN node[n] = NodeFields => SameTask(node[n], a.s))
  BY <1>1, <1>2, SendKeeps
<1> HIDE DEF a
<1>5. GovOk(c.g, now) /\ (DOMAIN a.s = NodeFields => SameTask(a.s, c.s))
  BY <1>1, <1>2, <1>4, SendKeeps
<1> HIDE DEF c
<1>6. DOMAIN node[n] = NodeFields => SameTask(node[n], c.s)
  BY <1>4, <1>5 DEF SameTask
<1>7. GovOk(w.g, now) /\ (DOMAIN node[n] = NodeFields => SameTask(node[n], w.s))
  BY <1>4, <1>5, <1>6
<1> HIDE DEF w
<1> QED
  BY <1>3, <1>7, SendStep, ZenonT(30)

LEMMA ObserveInv ==
  ASSUME LoraInv, NEW n \in Nodes, Observe(n) PROVE LoraInv'
<1> DEFINE g == [gov[n] EXCEPT !.since = now, !.announced = 0]
<1>1. now \in Nat /\ scene \in Scenes /\ DOMAIN gov = Nodes /\ \A m \in Nodes : GovOk(gov[m], now)
  BY DEF LoraInv, Governed
<1>2. GovOk(g, now)
  BY <1>1, GovObserved
<1>3. gov' = [gov EXCEPT ![n] = g] /\ UNCHANGED <<radio, node, aborted, scene, now>>
  BY DEF Observe, taskVars
<1> HIDE DEF g
<1>4. DOMAIN gov' = Nodes /\ \A m \in Nodes : gov'[m] = IF m = n THEN g ELSE gov[m]
  BY <1>1, <1>3
<1>5. Governed'
  BY <1>1, <1>2, <1>3, <1>4 DEF Governed
<1> QED
  BY <1>3, <1>5 DEF LoraInv, Tasks

LEMMA TickInv ==
  ASSUME LoraInv, NEW d \in Ticks, Tick(d) PROVE LoraInv'
<1>1. now \in Nat /\ scene \in Scenes /\ DOMAIN gov = Nodes /\ \A m \in Nodes : GovOk(gov[m], now)
  BY DEF LoraInv, Governed
<1>2. d \in Nat /\ now' = now + d /\ UNCHANGED <<radio, node, gov, aborted, scene>>
  BY LoraAssumption DEF Tick, taskVars
<1>3. now' \in Nat /\ now <= now'
  BY <1>1, <1>2, SMTT(30)
<1>4. \A m \in Nodes : GovOk(gov[m], now')
  BY <1>1, <1>3, GovLater
<1>5. Governed'
  BY <1>1, <1>2, <1>3, <1>4 DEF Governed
<1> QED
  BY <1>2, <1>5 DEF LoraInv, Tasks

LEMMA HandleInv ==
  ASSUME LoraInv, NEW n \in Nodes, HandleEvent(n) PROVE LoraInv'
<1> DEFINE w == [s |-> node[n], r |-> [radio[n] EXCEPT !.irq = {}], got |-> <<>>]
           v(ok) == Handled(n, w, ok)
<1>1. UNCHANGED aborted
  BY DEF HandleEvent
<1>2. PICK ok \in Oks : Commit(n, v(ok), IF ok THEN 0 ELSE 1)
  BY DEF HandleEvent
<1>3. UNCHANGED <<gov, now, scene>> /\ node' = [node EXCEPT ![n] = v(ok).s] /\ SetRadio(n, v(ok).r)
  BY <1>2 DEF Commit
<1>4. Governed'
  BY <1>3 DEF LoraInv, Governed
<1>5. ASSUME Tasks PROVE Tasks'
  <2>1. DOMAIN node[n] = NodeFields /\ DOMAIN radio[n] = RadioFields /\ TaskOk(node[n], radio[n])
    BY <1>5 DEF Tasks
  <2>2. Shape(v(ok)) /\ TaskOk(v(ok).s, v(ok).r)
    BY <2>1, EventKeeps
  <2> HIDE DEF v
  <2>3. DOMAIN v(ok).s = NodeFields /\ DOMAIN v(ok).r = RadioFields
    BY <2>2 DEF Shape
  <2> QED
    BY <1>3, <1>5, <2>2, <2>3, TaskStep
<1> QED
  BY <1>1, <1>4, <1>5 DEF LoraInv

LEMMA RestInv ==
  ASSUME LoraInv, NEW n \in Nodes, Rest(n) PROVE LoraInv'
<1> DEFINE w == [s |-> node[n], r |-> radio[n], got |-> <<>>]
           v(late, ok) == Rested(n, w, late, ok)
<1>1. PICK late \in BOOLEAN, ok \in Oks :
        /\ \E cost : Commit(n, v(late, ok), cost)
        /\ aborted' = (aborted \/ (v(late, ok).s.txd /\ v(late, ok).s.cad))
  <2>1. \E late \in BOOLEAN, ok \in Oks :
           LET x == Rested(n, w, late, ok)
               slow == late /\ UnderWay(n) /\ x # Rested(n, w, FALSE, ok)
               cost == (IF ok THEN 0 ELSE 1) + (IF slow THEN 1 ELSE 0)
               s == node[n]
               hit == s.wack /\ s.pend # NoFrame /\ s.seen = <<s.pend.seq, s.pend.idx>>
           IN  /\ x # w
               /\ ok \/ x # Rested(n, w, late, TRUE)
               /\ cost <= faults
               /\ Commit(n, x, cost)
               /\ acked' = IF hit /\ s.next = s.batch.total
                             THEN acked \cup {s.batch.id} ELSE acked
               /\ aborted' = (aborted \/ (x.s.txd /\ x.s.cad))
    BY DEF Rest
  <2>2. PICK late \in BOOLEAN, ok \in Oks :
           LET x == Rested(n, w, late, ok)
               slow == late /\ UnderWay(n) /\ x # Rested(n, w, FALSE, ok)
               cost == (IF ok THEN 0 ELSE 1) + (IF slow THEN 1 ELSE 0)
           IN  /\ Commit(n, x, cost)
               /\ aborted' = (aborted \/ (x.s.txd /\ x.s.cad))
    <3> HIDE DEF w
    <3> QED
      BY <2>1, ZenonT(30)
  <2> QED
    BY <2>2
<1>2. /\ UNCHANGED <<gov, now, scene>> /\ node' = [node EXCEPT ![n] = v(late, ok).s]
      /\ SetRadio(n, v(late, ok).r)
  BY <1>1 DEF Commit
<1>3. Governed'
  BY <1>2 DEF LoraInv, Governed
<1>4. ASSUME ~ aborted' PROVE Tasks'
  <2>1. Tasks /\ ~ (v(late, ok).s.txd /\ v(late, ok).s.cad)
    BY <1>1, <1>4 DEF LoraInv
  <2>2. Shape(w) /\ TaskOk(w.s, w.r)
    BY <2>1 DEF Tasks, Shape
  <2>3. Shape(v(late, ok)) /\ OkOrCut(v(late, ok))
    <3> HIDE DEF w
    <3> QED
      BY <2>2, RestKeeps
  <2> HIDE DEF v
  <2>4. DOMAIN v(late, ok).s = NodeFields /\ DOMAIN v(late, ok).r = RadioFields
        /\ TaskOk(v(late, ok).s, v(late, ok).r)
    BY <2>1, <2>3 DEF Shape, OkOrCut
  <2> QED
    BY <1>2, <2>1, <2>4, TaskStep
<1> QED
  BY <1>3, <1>4 DEF LoraInv

\* A change of the radios alone that the tasks' invariant survives.
LEMMA AirStep ==
  ASSUME LoraInv, UNCHANGED <<node, aborted, gov, now, scene>>,
         Tasks => DOMAIN radio' = Nodes,
         Tasks => \A m \in Nodes : DOMAIN radio'[m] = RadioFields /\ Ties(node[m], radio'[m])
  PROVE  LoraInv'
<1>1. Governed'
  BY DEF LoraInv, Governed
<1>2. Tasks => Tasks'
  BY DEF Tasks, TaskOk
<1> QED
  BY <1>1, <1>2 DEF LoraInv

\* The radios after activity detection.
LEMMA CadDoneTies ==
  ASSUME Tasks, NEW n \in Nodes, CadDone(n)
  PROVE  DOMAIN radio' = Nodes /\ \A m \in Nodes : DOMAIN radio'[m] = RadioFields /\ Ties(node[m], radio'[m])
<1>1. radio[n].mode = "cad" /\ DOMAIN radio = Nodes /\ DOMAIN radio[n] = RadioFields
  BY DEF CadDone, Tasks
<1>2. PICK Q \in SUBSET {"CAD_DETECTED"} :
        radio' = [radio EXCEPT ![n].mode = "standby", ![n].irq = @ \cup {"CAD_DONE"} \cup Q]
  BY DEF CadDone
<1>3. /\ DOMAIN radio' = Nodes /\ \A m \in Nodes \ {n} : radio'[m] = radio[m]
      /\ DOMAIN radio'[n] = RadioFields /\ radio'[n].mode = "standby"
      /\ radio'[n].irq = radio[n].irq \cup {"CAD_DONE"} \cup Q
  BY <1>1, <1>2 DEF RadioFields
<1>4. Ties(node[n], radio[n])
  BY DEF Tasks, TaskOk
<1>5. /\ radio'[n].mode = "standby"
      /\ "TX_DONE" \in radio'[n].irq => "TX_DONE" \in radio[n].irq
      /\ "TIMEOUT" \in radio'[n].irq => "TIMEOUT" \in radio[n].irq
  BY <1>2, <1>3
<1>6. Ties(node[n], radio'[n])
  BY <1>1, <1>4, <1>5 DEF Ties
<1> QED
  BY <1>3, <1>6 DEF Tasks, TaskOk

\* The radios after a transmission that ended.
LEMMA TxDoneTies ==
  ASSUME Tasks, NEW n \in Nodes, NEW air, TxDone(n, air)
  PROVE  DOMAIN radio' = Nodes /\ \A m \in Nodes : DOMAIN radio'[m] = RadioFields /\ Ties(node[m], radio'[m])
<1>1. /\ radio[n].mode = "tx" /\ DOMAIN radio = Nodes /\ \A m \in Nodes : DOMAIN radio[m] = RadioFields
      /\ \A m \in Nodes : radio[m].irq = {} /\ radio[m].mode # "cad"
      /\ \A m \in Nodes : Ties(node[m], radio[m])
  BY DEF TxDone, Tasks, TaskOk
<1>2. PICK how \in {"whole", "lost", "crc", "foreign"} :
        radio' = [m \in Nodes |->
            IF m = n THEN [radio[n] EXCEPT !.mode = "standby", !.hear = {},
                                           !.irq = @ \cup {"TX_DONE"}]
            ELSE IF m \in radio[n].hear THEN Received(radio[m], radio[n].buf, how)
            ELSE radio[m]]
  BY DEF TxDone
<1>3. /\ DOMAIN radio' = Nodes
      /\ radio'[n] = [radio[n] EXCEPT !.mode = "standby", !.hear = {}, !.irq = @ \cup {"TX_DONE"}]
      /\ \A m \in Nodes \ {n} : radio'[m] = radio[m] \/ radio'[m] = Received(radio[m], radio[n].buf, how)
  BY <1>2
<1>4. DOMAIN radio'[n] = RadioFields /\ Ties(node[n], radio'[n])
  <2>1. /\ DOMAIN radio'[n] = RadioFields /\ radio'[n].mode = "standby"
        /\ radio'[n].irq = {"TX_DONE"}
    BY <1>1, <1>3 DEF RadioFields
  <2> QED
    BY <1>1, <2>1 DEF Ties
<1>5. ASSUME NEW m \in Nodes, m # n PROVE DOMAIN radio'[m] = RadioFields /\ Ties(node[m], radio'[m])
  <2>1. /\ DOMAIN radio'[m] = RadioFields /\ radio'[m].mode = radio[m].mode
        /\ radio'[m].irq \subseteq {"RX_DONE", "CRC_ERR"}
    <3>1. CASE radio'[m] = radio[m]
      BY <1>1, <3>1
    <3>2. CASE radio'[m] = Received(radio[m], radio[n].buf, how)
      <4>1. \/ radio'[m] = radio[m]
            \/ radio'[m] = [radio[m] EXCEPT !.irq = @ \cup {"RX_DONE"}, !.buf = radio[n].buf]
            \/ radio'[m] = [radio[m] EXCEPT !.irq = @ \cup {"RX_DONE", "CRC_ERR"}, !.buf = NoFrame]
            \/ radio'[m] = [radio[m] EXCEPT !.irq = @ \cup {"RX_DONE"}, !.buf = NoFrame]
        BY <1>2, <3>2 DEF Received
      <4> QED
        BY <1>1, <4>1 DEF RadioFields
    <3> QED
      BY <1>3, <1>5, <3>1, <3>2
  <2> QED
    BY <1>1, <2>1 DEF Ties
<1> QED
  BY <1>3, <1>4, <1>5

\* The radios after a transmission that timed out.
LEMMA TxTimeoutTies ==
  ASSUME Tasks, NEW n \in Nodes, NEW air, TxTimeout(n, air)
  PROVE  DOMAIN radio' = Nodes /\ \A m \in Nodes : DOMAIN radio'[m] = RadioFields /\ Ties(node[m], radio'[m])
<1>1. /\ radio[n].mode = "tx" /\ DOMAIN radio = Nodes /\ DOMAIN radio[n] = RadioFields
      /\ radio[n].irq = {} /\ Ties(node[n], radio[n])
  BY DEF TxTimeout, Tasks, TaskOk
<1>2. radio' = [radio EXCEPT ![n].mode = "standby", ![n].hear = {}, ![n].irq = @ \cup {"TIMEOUT"}]
  BY DEF TxTimeout
<1>3. /\ DOMAIN radio' = Nodes /\ \A m \in Nodes \ {n} : radio'[m] = radio[m]
      /\ DOMAIN radio'[n] = RadioFields /\ radio'[n].mode = "standby" /\ radio'[n].irq = {"TIMEOUT"}
  BY <1>1, <1>2 DEF RadioFields
<1>4. Ties(node[n], radio'[n])
  BY <1>1, <1>3 DEF Ties
<1> QED
  BY <1>3, <1>4 DEF Tasks, TaskOk

LEMMA AirInv ==
  ASSUME LoraInv, NEW n \in Nodes, Air(n) PROVE LoraInv'
<1>1. UNCHANGED <<node, aborted, gov, now, scene>>
  BY DEF Air, taskVars
<1>2. \/ CadDone(n) \/ TxDone(n, FrameAir(radio[n].buf)) \/ TxTimeout(n, FrameAir(radio[n].buf))
  BY DEF Air
<1>3. Tasks => DOMAIN radio' = Nodes /\
        \A m \in Nodes : DOMAIN radio'[m] = RadioFields /\ Ties(node[m], radio'[m])
  BY <1>2, CadDoneTies, TxDoneTies, TxTimeoutTies
<1> QED
  BY <1>1, <1>3, AirStep

LEMMA AgeInv ==
  ASSUME LoraInv, NEW n \in Nodes, SlotsAge(n) PROVE LoraInv'
<1>1. PICK x : node' = [node EXCEPT ![n].slots = x]
  BY DEF SlotsAge
<1>2. UNCHANGED <<radio, gov, now, aborted, scene>>
  BY DEF SlotsAge
<1>3. Governed'
  BY <1>2 DEF LoraInv, Governed
<1>4. ASSUME Tasks PROVE Tasks'
  <2>1. DOMAIN node' = Nodes /\ \A m \in Nodes \ {n} : node'[m] = node[m]
    BY <1>1, <1>4 DEF Tasks
  <2>2. DOMAIN node'[n] = NodeFields /\ SameWait(node[n], node'[n])
    BY <1>1, <1>4 DEF Tasks, NodeFields, SameWait
  <2>3. TaskOk(node'[n], radio[n])
    BY <1>4, <2>2, WaitMatters DEF Tasks, SameAir
  <2> QED
    BY <1>2, <1>4, <2>1, <2>2, <2>3 DEF Tasks
<1> QED
  BY <1>2, <1>3, <1>4 DEF LoraInv

\* A node that starts, and a radio that listens or was not found.
LEMMA NewTask ==
  ASSUME NEW b, NEW ok, NEW r, r \in {IdleRadio, NoRadio}
  PROVE  /\ DOMAIN NewNode(b, ok) = NodeFields /\ DOMAIN r = RadioFields
         /\ r.irq = {} /\ r.mode \in {"rx", "standby"}
         /\ TaskOk(NewNode(b, ok), r)
<1>1. DOMAIN NewNode(b, ok) = NodeFields
  BY DEF NewNode, NodeFields
<1>2. DOMAIN r = RadioFields /\ r.irq = {} /\ r.mode \in {"rx", "standby"}
  BY SMTT(30) DEF IdleRadio, NoRadio, RadioFields
<1> DEFINE s == NewNode(b, ok)
<1>3. s.sends = 0 /\ s.pend = NoFrame /\ ~ s.txd /\ ~ s.wack /\ ~ s.cad
  BY DEF NewNode
<1> HIDE DEF s
<1>4. Tries(s) /\ Ties(s, r)
  BY <1>2, <1>3, LoraAssumption, SMTT(30) DEF Tries, Ties
<1> QED
  BY <1>1, <1>2, <1>4 DEF TaskOk, s

LEMMA RebootInv ==
  ASSUME LoraInv, NEW n \in Nodes, Reboot(n) PROVE LoraInv'
<1>1. PICK ok \in Oks :
        /\ node' = [node EXCEPT ![n] = NewNode(node[n].boot + 1, ok)]
        /\ SetRadio(n, [(IF ok THEN IdleRadio ELSE NoRadio) EXCEPT !.cut = TRUE])
  BY DEF Reboot
<1>2. UNCHANGED <<now, aborted, scene>> /\ gov' = [gov EXCEPT ![n] = NewGovernor(now)]
  BY DEF Reboot
<1>3. Governed'
  BY <1>2, GovNew DEF LoraInv, Governed
<1>4. ASSUME Tasks PROVE Tasks'
  <2> DEFINE r0 == IF ok THEN IdleRadio ELSE NoRadio
             s  == NewNode(node[n].boot + 1, ok)
             r  == [r0 EXCEPT !.cut = TRUE]
  <2>1. DOMAIN s = NodeFields /\ DOMAIN r0 = RadioFields /\ TaskOk(s, r0)
    <3>1. r0 \in {IdleRadio, NoRadio}
      OBVIOUS
    <3> HIDE DEF r0
    <3> QED
      BY <3>1, NewTask, SMTT(30)
  <2> HIDE DEF r0, s
  <2>2. DOMAIN r = RadioFields /\ SameAir(r0, r)
    BY <2>1 DEF RadioFields, SameAir
  <2> HIDE DEF r
  <2>3. TaskOk(s, r)
    BY <2>1, <2>2, WaitMatters DEF SameWait
  <2>4. node' = [node EXCEPT ![n] = s] /\ SetRadio(n, r)
    BY <1>1 DEF s, r, r0
  <2> QED
    BY <1>4, <2>1, <2>2, <2>3, <2>4, TaskStep
<1> QED
  BY <1>2, <1>3, <1>4 DEF LoraInv

\* The radio listens, the bucket is full, the task waits for nothing.
LEMMA LoraStarts == ASSUME Init PROVE LoraInv
<1>1. Governed
  BY GovNew DEF Init, Governed
<1>2. /\ DOMAIN node = Nodes /\ DOMAIN radio = Nodes
      /\ \A n \in Nodes : node[n] = NewNode(0, TRUE) /\ radio[n] = IdleRadio
  BY DEF Init, RadioInit
<1>3. Tasks
  BY <1>2, NewTask, ZenonT(30) DEF Tasks
<1> QED
  BY <1>1, <1>3 DEF LoraInv

\* Every step keeps the invariant.
LEMMA LoraStep == ASSUME LoraInv, [Next]_loraVars PROVE LoraInv'
<1>1. ASSUME NEW n \in Nodes, NEW p \in scene.offers, Send(n, p) PROVE LoraInv'
  BY <1>1, SendInv
<1>2. ASSUME NEW n \in Nodes, Beacon(n) PROVE LoraInv'
  BY <1>2, BeaconInv
<1>3. ASSUME NEW n \in Nodes, Observe(n) PROVE LoraInv'
  BY <1>3, ObserveInv
<1>4. ASSUME NEW n \in Nodes, HandleEvent(n) PROVE LoraInv'
  BY <1>4, HandleInv
<1>5. ASSUME NEW n \in Nodes, Rest(n) PROVE LoraInv'
  BY <1>5, RestInv
<1>6. ASSUME NEW n \in Nodes, Air(n) PROVE LoraInv'
  BY <1>6, AirInv
<1>7. ASSUME NEW n \in Nodes, SlotsAge(n) PROVE LoraInv'
  BY <1>7, AgeInv
<1>8. ASSUME NEW n \in Nodes, Reboot(n) PROVE LoraInv'
  BY <1>8, RebootInv
<1>9. ASSUME NEW d \in Ticks, Tick(d) PROVE LoraInv'
  BY <1>9, TickInv
<1>10. CASE UNCHANGED loraVars
  BY <1>10 DEF loraVars, LoraInv, Governed, Tasks
<1> QED
  BY <1>1, <1>2, <1>3, <1>4, <1>5, <1>6, <1>7, <1>8, <1>9, <1>10 DEF Next

\* The governor's and the task's invariants give the limits.
LEMMA LimitsHold == ASSUME LoraInv PROVE TrunkLimits
<1>1. SendsBounded
  BY DEF LoraInv, Tasks, TaskOk, Tries, SendsBounded
<1>2. AirtimeBounded
  <2> SUFFICES ASSUME NEW n \in Nodes
               PROVE  gov[n].announced <= 100 * GovBurst +
                        (IF gov[n].last > gov[n].since
                           THEN (gov[n].last - gov[n].since) * Duty ELSE 0)
    BY DEF AirtimeBounded
  <2> DEFINE g == gov[n]
             b == (g.last - g.since) * Duty
  <2>1. g \in Governor /\ Budget(g)
    BY DEF LoraInv, Governed, GovOk
  <2> HIDE DEF g
  <2>2. g.credit \in Int /\ g.last \in Nat /\ g.since \in Nat /\ g.announced \in Nat /\ Duty \in Nat
        /\ Full \in Nat
    BY <2>1, GovAssumption, SMTT(30) DEF Governor, Full
  <2>3. b \in Int /\ (g.last = g.since => b = 0)
    BY <2>2, SMTT(30)
  <2>4. (g.last >= g.since => g.announced <= Full + b) /\ (~ (g.last >= g.since) => g.announced = 0)
    BY <2>1 DEF Budget
  <2>5. g.announced <= Full + (IF g.last > g.since THEN b ELSE 0)
    <3> HIDE DEF b
    <3> QED
      BY SMTT(30), <2>2, <2>3, <2>4
  <2> QED
    BY <2>5 DEF Full, g
<1>3. Throttled
  BY SMTT(30) DEF LoraInv, Governed, GovOk, Spaced, Rivals, Throttled
<1> QED
  BY <1>1, <1>2, <1>3 DEF TrunkLimits

\* The limits of the trunk hold for every spreading factor, duty cycle, burst,
\* number of slots and of attempts: a frame is sent at most ARQ_TRIES times
\* unless an acknowledgement was cut off, announces stay within the airtime
\* budget, and an origin announces once per interval as long as the throttle
\* remembers it.
THEOREM TrunkKeepsLimits == Spec => []TrunkLimits
<1>1. Init => LoraInv
  BY LoraStarts
<1>2. LoraInv /\ [Next]_loraVars => LoraInv'
  BY LoraStep
<1>3. LoraInv => TrunkLimits
  BY LimitsHold
<1> QED
  BY <1>1, <1>2, <1>3, PTL DEF Spec
=============================================================================
