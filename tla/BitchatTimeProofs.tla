-------------------------- MODULE BitchatTimeProofs --------------------------
(***************************************************************************)
(* Proofs about BitchatTime for every skew, interval and bound, and about  *)
(* the clocks of a line of Bitles (ClockNet) of any length.                *)
(***************************************************************************)
EXTENDS BitchatTime, ClockNet, TLAPS

USE ZenonT(30)

\* The offset the clock had when it was last (re)acquired.
Anchor == anchor_wall - anchor_mono

\* The arithmetic of the clock, in offsets.  The strengthening is that the
\* offset announced under the current generation is no older than the anchor.
ClockInv ==
  /\ base \in Nat /\ gen_base \in Nat
  /\ base - gen_base \in 0 .. Skew
  /\ synced => base - Anchor \in 0 .. Skew /\ gen_base >= Anchor
  /\ ~ synced => gen_base = base /\ ~ auth

\* The types of the variables a call on the clock changes.
ClockTypes ==
  /\ synced \in BOOLEAN /\ auth \in BOOLEAN /\ gen \in 0 .. MaxGen
  /\ anchor_wall \in Nat /\ anchor_mono \in 0 .. mono
  /\ writing \in [Tasks -> Nat \cup {Nothing}]

\* The types of the other variables.
RestTypes ==
  /\ mono \in 0 .. MaxMono /\ last_persist \in 0 .. mono /\ nvs \in Nat
  /\ boots \in 0 .. MaxBoots /\ via \in {"none", "phone", "bitle", "direct", "relayed"}

IInv == ClockInv /\ ClockTypes /\ RestTypes

\* The skew and the bounds are naturals.
LEMMA SkewNat == Skew \in Nat /\ MaxGen \in Nat
BY TimeAssumption DEF TimeAssumption

\* A clock equal to the one it is compared with is within the skew of it.
LEMMA NoDrift == ASSUME NEW x \in Nat, NEW y, y = x PROVE x - y \in 0 .. Skew
BY SkewNat, SMTT(30)

\* The inductive invariant implies the properties of the runs.
LEMMA IInvImplies == IInv => TypeOK /\ AntiRatchet /\ StaleWithinSkew
BY TimeAssumption, SMTT(30)
   DEF IInv, TypeOK, AntiRatchet, StaleWithinSkew, ClockInv, ClockTypes, RestTypes,
       Anchor, Wall, TimeAssumption

\* bitchat_time_init() starts inside the invariant.
LEMMA InitInv == Init => IInv
<1> SUFFICES ASSUME Init PROVE IInv OBVIOUS
<1>1. BootBase(0) \in Nat BY TimeAssumption DEF BootBase, TimeAssumption
<1>2. ClockInv BY <1>1, TimeAssumption, SMTT(30) DEF Init, ClockInv, TimeAssumption
<1>3. writing \in [Tasks -> Nat \cup {Nothing}] BY DEF Init
<1>a. synced \in BOOLEAN /\ auth \in BOOLEAN BY DEF Init
<1>b. gen = 0 /\ anchor_wall = 0 /\ anchor_mono = 0 /\ mono = 0 BY DEF Init
<1>c. gen \in 0 .. MaxGen /\ anchor_wall \in Nat /\ anchor_mono \in 0 .. mono
  BY <1>b, SkewNat, SMTT(30)
<1>4. ClockTypes BY <1>a, <1>c, <1>3 DEF ClockTypes
<1>5. RestTypes BY <1>1, TimeAssumption, SMTT(30) DEF Init, RestTypes, TimeAssumption
<1> QED BY <1>2, <1>4, <1>5 DEF IInv

\* A (re)acquisition moves clock, anchor and generation together.
LEMMA AcquireInv ==
  ASSUME IInv, NEW t \in Tasks, NEW ts \in Stamps, ts >= MinValid, Acquire(t, ts),
         UNCHANGED <<mono, last_persist, nvs, boots>>,
         auth' \in BOOLEAN, via' \in {"none", "phone", "bitle", "direct", "relayed"}
  PROVE  IInv'
<1>0. ClockInv /\ ClockTypes /\ RestTypes BY DEF IInv
<1>1. ts \in Nat /\ ts - mono \in Nat
  BY <1>0, TimeAssumption, SMTT(30) DEF Stamps, TimeAssumption, RestTypes
<1>2. ClockInv'
  BY <1>0, <1>1, TimeAssumption, SMTT(30) DEF Acquire, Bump, ClockInv, RestTypes, Anchor, TimeAssumption
<1>3. ClockTypes'
  BY <1>0, <1>1, TimeAssumption, SMTT(30) DEF Acquire, Bump, ClockTypes, RestTypes, TimeAssumption
<1>4. RestTypes' BY <1>0 DEF RestTypes
<1> QED BY <1>2, <1>3, <1>4 DEF IInv

\* A nudge follows a peer up to the cap, never back and never beyond it.
LEMMA NudgeInv ==
  ASSUME IInv, NEW ts \in Stamps, synced, Delta(ts) <= Skew, Nudge(ts)
  PROVE  /\ base' \in Nat /\ base' - base \in 0 .. Skew
         /\ base' - Anchor \in 0 .. Skew
         /\ base' - gen_base \in 0 .. Skew
<1>0. ClockInv /\ ClockTypes /\ RestTypes BY DEF IInv
<1> QED
  BY <1>0, TimeAssumption, SMTT(30)
     DEF Nudge, Delta, Cap, Wall, Stamps, ClockInv, ClockTypes, RestTypes, Anchor, TimeAssumption

\* bitchat_time_consider_peer() keeps the invariant.
LEMMA ConsiderInv ==
  ASSUME IInv, NEW t \in Tasks, NEW ts \in Stamps, Consider(t, ts),
         via' \in {"none", "phone", "bitle", "direct", "relayed"}
  PROVE  IInv'
<1>0. ClockInv /\ ClockTypes /\ RestTypes BY DEF IInv
<1>a. UNCHANGED <<mono, last_persist, nvs, boots>> /\ ts >= MinValid
  BY DEF Consider, Plausible
<1>1. CASE ~ synced
  <2>1. Acquire(t, ts) /\ auth' = auth BY <1>1 DEF Consider
  <2>2. auth' \in BOOLEAN BY <2>1, <1>0 DEF ClockTypes
  <2> QED BY <2>1, <2>2, <1>a, AcquireInv
<1>2. CASE synced
  <2>1. UNCHANGED <<synced, gen, anchor_wall, anchor_mono, auth, writing, gen_base>>
    BY <1>2 DEF Consider
  <2>2. /\ base' \in Nat /\ base' - Anchor \in 0 .. Skew /\ base' - gen_base \in 0 .. Skew
    <3>1. CASE Delta(ts) <= Skew
      <4>1. Nudge(ts) BY <1>2, <3>1 DEF Consider
      <4> QED BY <4>1, <3>1, <1>2, NudgeInv
    <3>2. CASE ~ (Delta(ts) <= Skew)
      <4>1. base' = base BY <1>2, <3>2 DEF Consider
      <4> QED BY <4>1, <1>2, <1>0 DEF ClockInv
    <3> QED BY <3>1, <3>2
  <2>3. ClockInv' BY <2>1, <2>2, <1>0, <1>2 DEF ClockInv, Anchor
  <2>4. ClockTypes' /\ RestTypes' BY <2>1, <1>a, <1>0 DEF ClockTypes, RestTypes
  <2> QED BY <2>3, <2>4 DEF IInv
<1> QED BY <1>1, <1>2

\* An in-window announce nudges and may lend authority.
LEMMA InWindowInv ==
  ASSUME IInv, NEW ts \in Stamps, NEW traced \in BOOLEAN, synced, Delta(ts) <= Skew,
         InWindowStep(ts, traced), UNCHANGED <<mono, last_persist, nvs, boots>>,
         via' \in {"none", "phone", "bitle", "direct", "relayed"}
  PROVE  IInv'
<1>0. ClockInv /\ ClockTypes /\ RestTypes BY DEF IInv
<1>1. Nudge(ts) BY DEF InWindowStep
<1>2. /\ base' \in Nat /\ base' - Anchor \in 0 .. Skew /\ base' - gen_base \in 0 .. Skew
  BY <1>1, NudgeInv
<1>3. UNCHANGED <<synced, anchor_wall, anchor_mono, writing>> BY DEF InWindowStep
<1>4. CASE traced /\ ~ auth
  <2>1. gen < MaxGen /\ auth' = TRUE /\ gen' = gen + 1 /\ gen_base' = base'
    BY <1>4 DEF InWindowStep
  <2>b. gen_base' = base' BY <2>1
  <2>c. base' - gen_base' \in 0 .. Skew
    <3>1. base' \in Nat BY <1>2
    <3> QED BY <3>1, <2>b, NoDrift
  <2>d. base' - Anchor' \in 0 .. Skew /\ gen_base' \in Nat /\ synced'
    BY <2>1, <1>2, <1>3 DEF Anchor
  <2>e. Anchor \in Int BY <1>0, SMTT(30) DEF Anchor, ClockTypes
  <2>f. gen_base' >= Anchor' BY <2>1, <1>2, <1>3, <2>e, SkewNat, SMTT(30) DEF Anchor
  <2>2. ClockInv' BY <1>2, <2>c, <2>d, <2>f DEF ClockInv
  <2>a. gen' \in 0 .. MaxGen /\ auth' \in BOOLEAN
    BY <2>1, <1>0, TimeAssumption, SMTT(30) DEF ClockTypes, TimeAssumption
  <2>3. ClockTypes' BY <2>a, <1>3, <1>0 DEF ClockTypes
  <2>4. RestTypes' BY <1>0 DEF RestTypes
  <2> QED BY <2>2, <2>3, <2>4 DEF IInv
<1>5. CASE ~ (traced /\ ~ auth)
  <2>1. UNCHANGED <<auth, gen, gen_base>> BY <1>5 DEF InWindowStep
  <2>2. ClockInv' BY <2>1, <1>2, <1>3, <1>0 DEF ClockInv, Anchor
  <2>3. ClockTypes' /\ RestTypes' BY <2>1, <1>3, <1>0 DEF ClockTypes, RestTypes
  <2> QED BY <2>2, <2>3 DEF IInv
<1> QED BY <1>4, <1>5

\* bitchat_time_consider_peer_announce() keeps the invariant.
LEMMA AnnounceInv ==
  ASSUME IInv, NEW ts \in Stamps, NEW infra \in BOOLEAN, NEW pauth \in BOOLEAN,
         ConsiderAnnounce(ts, infra, pauth)
  PROVE  IInv'
<1> DEFINE traced == ~ infra \/ pauth
<1>0. ClockInv /\ ClockTypes /\ RestTypes BY DEF IInv
<1>a. /\ UNCHANGED <<mono, last_persist, nvs, boots>> /\ ts >= MinValid
      /\ via' \in {"none", "phone", "bitle", "direct", "relayed"}
      /\ "worker" \in Tasks /\ traced \in BOOLEAN
  BY DEF ConsiderAnnounce, Plausible, Tasks
<1>1. CASE ~ synced
  <2>1. Acquire("worker", ts) /\ auth' = traced BY <1>1 DEF ConsiderAnnounce
  <2>2. auth' \in BOOLEAN BY <2>1, <1>a
  <2> QED BY <2>1, <2>2, <1>a, AcquireInv
<1>2. CASE synced /\ Delta(ts) <= Skew
  <2>1. InWindowStep(ts, traced) BY <1>2 DEF ConsiderAnnounce
  <2> QED BY <2>1, <1>2, <1>a, InWindowInv
<1>3. CASE synced /\ ~ (Delta(ts) <= Skew) /\ AllowLarge(infra, pauth)
  <2>1. Acquire("worker", ts) /\ auth' = (auth \/ traced) BY <1>3 DEF ConsiderAnnounce
  <2>2. auth' \in BOOLEAN BY <2>1
  <2> QED BY <2>1, <2>2, <1>a, AcquireInv
<1>4. CASE synced /\ ~ (Delta(ts) <= Skew) /\ ~ AllowLarge(infra, pauth)
  <2>1. UNCHANGED <<clk, writing>> BY <1>4 DEF ConsiderAnnounce
  <2>2. ClockInv' BY <2>1, <1>0 DEF ClockInv, Anchor, clk
  <2>3. ClockTypes' /\ RestTypes' BY <2>1, <1>a, <1>0 DEF ClockTypes, RestTypes, clk
  <2> QED BY <2>2, <2>3 DEF IInv
<1> QED BY <1>1, <1>2, <1>3, <1>4

\* Every step keeps the invariant.
LEMMA NextInv == IInv /\ [Next]_vars => IInv'
<1> SUFFICES ASSUME IInv, [Next]_vars PROVE IInv' OBVIOUS
<1>0. ClockInv /\ ClockTypes /\ RestTypes BY DEF IInv
<1>1. CASE Tick
  BY <1>1, <1>0, TimeAssumption, SMTT(30)
     DEF IInv, Tick, ClockInv, ClockTypes, RestTypes, Anchor, clk, TimeAssumption
<1>2. CASE Reboot
  <2>1. base' \in Nat /\ nvs' \in Nat
    BY <1>2, <1>0, TimeAssumption, SMTT(30) DEF Reboot, BootBase, RestTypes, TimeAssumption
  <2>2. ~ synced' /\ ~ auth' BY <1>2 DEF Reboot
  <2>g. gen_base' = base' BY <1>2 DEF Reboot
  <2>b. base' - gen_base' \in 0 .. Skew
    BY <2>1, <2>g, NoDrift
  <2>3. ClockInv' BY <2>1, <2>2, <2>g, <2>b DEF ClockInv
  <2>4. writing' \in [Tasks -> Nat \cup {Nothing}] BY <1>2 DEF Reboot
  <2>a. synced' \in BOOLEAN /\ auth' \in BOOLEAN BY <1>2 DEF Reboot
  <2>h. gen' = 0 /\ anchor_wall' = 0 /\ anchor_mono' = 0 /\ mono' = 0 BY <1>2 DEF Reboot
  <2>i. gen' \in 0 .. MaxGen /\ anchor_wall' \in Nat /\ anchor_mono' \in 0 .. mono'
    BY <2>h, SkewNat, SMTT(30)
  <2>5. ClockTypes' BY <2>a, <2>i, <2>4 DEF ClockTypes
  <2>6. RestTypes' BY <1>2, <2>1, <1>0, TimeAssumption, SMTT(30) DEF Reboot, RestTypes, TimeAssumption
  <2> QED BY <2>3, <2>5, <2>6 DEF IInv
<1>3. CASE Poll
  <2>1. ClockInv' BY <1>3, <1>0 DEF Poll, ClockInv, Anchor, clk
  <2>2. Wall \in Nat BY <1>0, SMTT(30) DEF Wall, ClockInv, RestTypes
  <2>3. ClockTypes' /\ RestTypes' BY <1>3, <2>2, <1>0 DEF Poll, ClockTypes, RestTypes, clk
  <2> QED BY <2>1, <2>3 DEF IInv
<1>4. ASSUME NEW t \in Tasks, Persist(t) PROVE IInv'
  <2>1. ClockInv' BY <1>4, <1>0 DEF Persist, ClockInv, Anchor, clk
  <2>2. writing[t] \in Nat BY <1>4, <1>0 DEF Persist, ClockTypes
  <2>3. nvs' \in Nat /\ last_persist' \in 0 .. mono
    BY <1>4, <2>2, <1>0, SMTT(30) DEF Persist, RestTypes
  <2>4. ClockTypes' /\ RestTypes'
    BY <1>4, <2>3, <1>0 DEF Persist, ClockTypes, RestTypes, clk
  <2> QED BY <2>1, <2>4 DEF IInv
<1>5. ASSUME NEW ts \in Stamps, MeshPacket(ts) PROVE IInv'
  <2>1. Consider("mesh", ts) /\ via' = "direct" /\ "mesh" \in Tasks BY <1>5 DEF MeshPacket, Tasks
  <2> QED BY <2>1, ConsiderInv
<1>6. ASSUME NEW ts \in Stamps, NEW hop \in {"direct", "relayed"}, Identity(ts, hop) PROVE IInv'
  <2>1. Consider("worker", ts) /\ via' = hop /\ "worker" \in Tasks BY <1>6 DEF Identity, Tasks
  <2> QED BY <2>1, ConsiderInv
<1>7. ASSUME NEW ts \in Stamps, NEW infra \in BOOLEAN, NEW pauth \in BOOLEAN,
             ConsiderAnnounce(ts, infra, pauth)
      PROVE  IInv'
  BY <1>7, AnnounceInv
<1>8. CASE UNCHANGED vars
  BY <1>8, <1>0 DEF IInv, vars, ClockInv, ClockTypes, RestTypes, Anchor
<1> QED BY <1>1, <1>2, <1>3, <1>4, <1>5, <1>6, <1>7, <1>8 DEF Next

\* The state of the clock keeps its types.
THEOREM TypeCorrect == Spec => []TypeOK
BY InitInv, NextInv, IInvImplies, PTL DEF Spec

\* However many timestamps arrive and in whatever order the tasks run, the
\* clock stays within the skew of the time it was last given.
THEOREM ClockNotRatcheted == Spec => []AntiRatchet
BY InitInv, NextInv, IInvImplies, PTL DEF Spec

\* Timestamps announced under the current generation are stale by at most the
\* skew: a sender that watches the generation re-announces every larger change.
THEOREM GenerationTracksClock == Spec => []StaleWithinSkew
BY InitInv, NextInv, IInvImplies, PTL DEF Spec

\* Both, with the types: what senders rely on when they stamp a packet with
\* the clock and remember its generation.
THEOREM ClockIsBounded == Spec => []ClockBounded
BY TypeCorrect, ClockNotRatcheted, GenerationTracksClock, PTL DEF ClockBounded

\* The offset a timestamp implies, and what the code's comparisons of wall
\* times say about it.
LEMMA WallToOffset ==
  ASSUME IInv, synced, NEW ts \in Stamps, ts >= MinValid
  PROVE  /\ ts - mono \in Offsets
         /\ Delta(ts) <= Skew <=> (ts - mono) - base \in -Skew .. Skew
         /\ ts > Wall <=> ts - mono > base
         /\ ts <= Cap <=> ts - mono <= (anchor_wall - anchor_mono) + Skew
<1>1. /\ base \in Nat /\ mono \in 0 .. MaxMono
      /\ anchor_wall \in Nat /\ anchor_mono \in 0 .. mono
  BY DEF IInv, ClockInv, ClockTypes, RestTypes
<1> QED BY <1>1, TimeAssumption, SMTT(30) DEF Delta, Wall, Cap, Offsets, Stamps, TimeAssumption

\* A (re)acquisition anchors the offset clock at the offset of the timestamp.
LEMMA AcquireImplements ==
  ASSUME NEW t, NEW ts, Acquire(t, ts)
  PROVE  OffsetClock' = Abstract!Anchored(ts - mono, auth')
BY DEF Acquire, Bump, OffsetClock, Abstract!Anchored

\* bitchat_time_consider_peer() is Tentative.
LEMMA ConsiderImplements ==
  ASSUME IInv, NEW t \in Tasks, NEW ts \in Stamps, Consider(t, ts)
  PROVE  OffsetClock' = Abstract!Tentative(OffsetClock, ts - mono)
<1>1. CASE ~ synced
  <2>1. Acquire(t, ts) /\ auth' = auth BY <1>1 DEF Consider
  <2>2. OffsetClock' = Abstract!Anchored(ts - mono, auth) BY <2>1, AcquireImplements
  <2> QED BY <1>1, <2>2 DEF Abstract!Tentative, OffsetClock
<1>2. CASE synced
  <2>1. UNCHANGED <<synced, anchor_wall, anchor_mono, auth>> /\ ts >= MinValid
    BY <1>2 DEF Consider, Plausible
  <2>2. Delta(ts) <= Skew <=> Abstract!InWindow(OffsetClock, ts - mono)
    BY <1>2, <2>1, WallToOffset DEF Abstract!InWindow, OffsetClock
  <2>3. CASE Delta(ts) <= Skew
    <3>1. base' = IF ts - mono > base /\ ts - mono <= (anchor_wall - anchor_mono) + Skew
                  THEN ts - mono ELSE base
      BY <1>2, <2>1, <2>3, WallToOffset DEF Consider, Nudge
    <3> QED
      BY <1>2, <2>1, <2>2, <2>3, <3>1
         DEF Abstract!Tentative, Abstract!Nudged, OffsetClock
  <2>4. CASE ~ (Delta(ts) <= Skew)
    <3>1. base' = base BY <1>2, <2>4 DEF Consider
    <3> QED BY <1>2, <2>1, <2>2, <2>4, <3>1 DEF Abstract!Tentative, OffsetClock
  <2> QED BY <2>3, <2>4
<1> QED BY <1>1, <1>2

\* bitchat_time_consider_peer_announce() is Authoritative.
LEMMA AnnounceImplements ==
  ASSUME IInv, NEW ts \in Stamps, NEW infra \in BOOLEAN, NEW pauth \in BOOLEAN,
         ConsiderAnnounce(ts, infra, pauth)
  PROVE  OffsetClock' = Abstract!Authoritative(OffsetClock, ts - mono, ~ infra, pauth)
<1> DEFINE traced == ~ infra \/ pauth
<1>0. ts >= MinValid BY DEF ConsiderAnnounce, Plausible
<1>1. CASE ~ synced
  <2>1. Acquire("worker", ts) /\ auth' = traced BY <1>1 DEF ConsiderAnnounce
  <2>2. OffsetClock' = Abstract!Anchored(ts - mono, traced) BY <2>1, AcquireImplements
  <2> QED BY <1>1, <2>2 DEF Abstract!Authoritative, OffsetClock
<1>2. CASE synced
  <2>2. Delta(ts) <= Skew <=> Abstract!InWindow(OffsetClock, ts - mono)
    BY <1>0, <1>2, WallToOffset DEF Abstract!InWindow, OffsetClock
  <2>3. CASE Delta(ts) <= Skew
    <3>1. InWindowStep(ts, traced) BY <1>2, <2>3 DEF ConsiderAnnounce
    <3>2. base' = IF ts - mono > base /\ ts - mono <= (anchor_wall - anchor_mono) + Skew
                  THEN ts - mono ELSE base
      BY <1>0, <1>2, <3>1, WallToOffset DEF InWindowStep, Nudge
    <3>3. UNCHANGED <<synced, anchor_wall, anchor_mono>> BY <3>1 DEF InWindowStep
    <3>4. auth' = (auth \/ ~ infra \/ pauth)
      <4>1. auth \in BOOLEAN BY DEF IInv, ClockTypes
      <4> QED BY <3>1, <4>1 DEF InWindowStep
    <3> QED
      BY <1>2, <2>2, <2>3, <3>2, <3>3, <3>4
         DEF Abstract!Authoritative, Abstract!Nudged, OffsetClock
  <2>4. CASE ~ (Delta(ts) <= Skew) /\ AllowLarge(infra, pauth)
    <3>1. Acquire("worker", ts) /\ auth' = (auth \/ traced) BY <1>2, <2>4 DEF ConsiderAnnounce
    <3>2. traced BY <2>4 DEF AllowLarge
    <3>3. OffsetClock' = Abstract!Anchored(ts - mono, TRUE)
      BY <3>1, <3>2, AcquireImplements
    <3> QED
      BY <1>2, <2>2, <2>4, <3>3 DEF Abstract!Authoritative, AllowLarge, OffsetClock
  <2>5. CASE ~ (Delta(ts) <= Skew) /\ ~ AllowLarge(infra, pauth)
    <3>1. UNCHANGED clk BY <1>2, <2>5 DEF ConsiderAnnounce
    <3>2. OffsetClock' = OffsetClock BY <3>1 DEF clk, OffsetClock
    <3> QED
      BY <1>2, <2>2, <2>5, <3>2 DEF Abstract!Authoritative, AllowLarge, OffsetClock
  <2> QED BY <2>3, <2>4, <2>5
<1> QED BY <1>1, <1>2

\* Every timestamp the code looks at implies an offset of the range.
LEMMA OffsetInRange ==
  ASSUME IInv, NEW ts \in Stamps, ts >= MinValid
  PROVE  ts - mono \in Offsets
<1>1. mono \in 0 .. MaxMono BY DEF IInv, RestTypes
<1> QED BY <1>1, TimeAssumption, SMTT(30) DEF Offsets, Stamps, TimeAssumption

\* Every step of the code is a step of the offset clock or leaves it alone.
LEMMA NextImplements == IInv /\ [Next]_vars => [Abstract!Next]_OffsetClock
<1> SUFFICES ASSUME IInv, [Next]_vars PROVE [Abstract!Next]_OffsetClock OBVIOUS
<1> USE DEF Abstract!Next
<1>1. CASE Tick BY <1>1 DEF Tick, clk, OffsetClock
<1>2. CASE Reboot
  <2>1. OffsetClock' = Abstract!Unsynced(base')
    BY <1>2 DEF Reboot, OffsetClock, Abstract!Unsynced
  <2>2. OffsetClock'.base = base' BY DEF OffsetClock
  <2> QED BY <2>1, <2>2
<1>3. CASE Poll BY <1>3 DEF Poll, clk, OffsetClock
<1>4. ASSUME NEW t \in Tasks, Persist(t) PROVE [Abstract!Next]_OffsetClock
  BY <1>4 DEF Persist, clk, OffsetClock
<1>5. ASSUME NEW t \in Tasks, NEW ts \in Stamps, Consider(t, ts)
      PROVE  Abstract!Next
  <2>1. ts >= MinValid BY <1>5 DEF Consider, Plausible
  <2>2. ts - mono \in Offsets BY <2>1, OffsetInRange
  <2>3. OffsetClock' = Abstract!Tentative(OffsetClock, ts - mono) BY <1>5, ConsiderImplements
  <2> QED BY <2>2, <2>3
<1>6. ASSUME NEW ts \in Stamps, MeshPacket(ts) PROVE Abstract!Next
  <2>1. Consider("mesh", ts) /\ "mesh" \in Tasks BY <1>6 DEF MeshPacket, Tasks
  <2> QED BY <2>1, <1>5
<1>7. ASSUME NEW ts \in Stamps, NEW hop \in {"direct", "relayed"}, Identity(ts, hop)
      PROVE  Abstract!Next
  <2>1. Consider("worker", ts) /\ "worker" \in Tasks BY <1>7 DEF Identity, Tasks
  <2> QED BY <2>1, <1>5
<1>8. ASSUME NEW ts \in Stamps, NEW infra \in BOOLEAN, NEW pauth \in BOOLEAN,
             ConsiderAnnounce(ts, infra, pauth)
      PROVE  Abstract!Next
  <2>1. ts >= MinValid BY <1>8 DEF ConsiderAnnounce, Plausible
  <2>2. ts - mono \in Offsets BY <2>1, OffsetInRange
  <2>3. OffsetClock' = Abstract!Authoritative(OffsetClock, ts - mono, ~ infra, pauth)
    BY <1>8, AnnounceImplements
  <2>4. PICK phone \in BOOLEAN : phone = ~ infra OBVIOUS
  <2> QED BY <2>2, <2>3, <2>4
<1>9. CASE UNCHANGED vars BY <1>9 DEF vars, OffsetClock
<1> HIDE DEF Abstract!Next
<1> QED BY <1>1, <1>2, <1>3, <1>4, <1>6, <1>7, <1>8, <1>9 DEF Next

\* The clock starts as an unsynced offset clock.
LEMMA InitImplements == Init => Abstract!Init
BY DEF Init, OffsetClock, Abstract!Init, Abstract!Unsynced

\* The code implements the offset clock: uptime, tasks and NVS cannot be told
\* from its base, anchor and authority.
THEOREM ImplementsOffsetClock == Spec => Implements
BY InitImplements, NextImplements, InitInv, NextInv, PTL DEF Spec, Implements, Abstract!Spec

\* While the clock is authoritative, a step that is neither a phone's announce
\* nor a reboot leaves the anchor alone and moves the clock forward by at most
\* the skew.
LEMMA StepKeepsAuthority ==
  ASSUME IInv, [Next]_vars, auth, via' # "phone", boots' = boots
  PROVE  UNCHANGED <<anchor_wall, anchor_mono>> /\ base' - base \in 0 .. Skew
<1>0. base \in Nat /\ synced /\ boots \in Nat
  BY SMTT(30) DEF IInv, ClockInv, RestTypes
<1>a. base - base \in 0 .. Skew BY <1>0, NoDrift
<1>1. CASE UNCHANGED clk BY <1>1, <1>a DEF clk
<1>2. ASSUME NEW t \in Tasks, NEW ts \in Stamps, Consider(t, ts)
      PROVE  UNCHANGED <<anchor_wall, anchor_mono>> /\ base' - base \in 0 .. Skew
  <2>1. UNCHANGED <<anchor_wall, anchor_mono>> BY <1>0, <1>2 DEF Consider
  <2>2. CASE Delta(ts) <= Skew
    <3>1. Nudge(ts) BY <1>0, <1>2, <2>2 DEF Consider
    <3>2. base' - base \in 0 .. Skew BY <3>1, <2>2, <1>0, NudgeInv
    <3> QED BY <2>1, <3>2
  <2>3. CASE ~ (Delta(ts) <= Skew)
    <3>1. base' = base BY <1>0, <1>2, <2>3 DEF Consider
    <3> QED BY <2>1, <3>1, <1>a
  <2> QED BY <2>2, <2>3
<1>3. ASSUME NEW ts \in Stamps, NEW infra \in BOOLEAN, NEW pauth \in BOOLEAN,
             ConsiderAnnounce(ts, infra, pauth)
      PROVE  UNCHANGED <<anchor_wall, anchor_mono>> /\ base' - base \in 0 .. Skew
  <2>1. infra BY <1>3 DEF ConsiderAnnounce
  <2>2. ~ AllowLarge(infra, pauth) BY <2>1 DEF AllowLarge
  <2>3. CASE Delta(ts) <= Skew
    <3>1. InWindowStep(ts, ~ infra \/ pauth) BY <1>0, <1>3, <2>3 DEF ConsiderAnnounce
    <3>2. Nudge(ts) /\ UNCHANGED <<anchor_wall, anchor_mono>> BY <3>1 DEF InWindowStep
    <3>3. base' - base \in 0 .. Skew BY <3>2, <2>3, <1>0, NudgeInv
    <3> QED BY <3>2, <3>3
  <2>4. CASE ~ (Delta(ts) <= Skew)
    <3>1. UNCHANGED clk BY <1>0, <1>3, <2>2, <2>4 DEF ConsiderAnnounce
    <3> QED BY <3>1, <1>1
  <2> QED BY <2>3, <2>4
<1>4. CASE Reboot
  <2>1. boots' = boots + 1 BY <1>4 DEF Reboot
  <2> QED BY <2>1, <1>0, SMTT(30)
<1>5. CASE Tick \/ Poll \/ UNCHANGED vars \/ \E t \in Tasks : Persist(t)
  <2>1. UNCHANGED clk BY <1>5 DEF Tick, Poll, Persist, vars, clk
  <2> QED BY <2>1, <1>1
<1>6. ASSUME NEW ts \in Stamps, MeshPacket(ts)
      PROVE  UNCHANGED <<anchor_wall, anchor_mono>> /\ base' - base \in 0 .. Skew
  <2>1. Consider("mesh", ts) /\ "mesh" \in Tasks BY <1>6 DEF MeshPacket, Tasks
  <2> QED BY <2>1, <1>2
<1>7. ASSUME NEW ts \in Stamps, NEW hop \in {"direct", "relayed"}, Identity(ts, hop)
      PROVE  UNCHANGED <<anchor_wall, anchor_mono>> /\ base' - base \in 0 .. Skew
  <2>1. Consider("worker", ts) /\ "worker" \in Tasks BY <1>7 DEF Identity, Tasks
  <2> QED BY <2>1, <1>2
<1> QED BY <1>3, <1>4, <1>5, <1>6, <1>7 DEF Next

\* A Bitle whose time traces to a phone is not re-anchored by other Bitles.
THEOREM AuthorityIsKept == Spec => OnlyPhonesReanchor
<1>1. IInv /\ [Next]_vars
        => [auth /\ via' # "phone" /\ boots' = boots
             => UNCHANGED <<anchor_wall, anchor_mono>> /\ base' - base \in 0 .. Skew]_vars
  BY StepKeepsAuthority
<1> QED BY <1>1, InitInv, NextInv, PTL DEF Spec, OnlyPhonesReanchor
-----------------------------------------------------------------------------
(* TracedError for every line of Bitles, every skew, delay and boot error. *)

Least(d) == -(MaxSkew + MaxDelay) * d
Most(d)  == 2 * MaxSkew * d

\* A stamp that claims a phone's time, its own or traced, is off by what the
\* hops it has travelled allow.
StampOk(s) ==
  /\ s.off \in Int /\ s.phone \in BOOLEAN /\ s.traced \in BOOLEAN /\ s.depth \in Nat
  /\ s.phone => s.off = 0 /\ s.depth = 0
  /\ s.traced => s.off \in Least(s.depth) .. Most(s.depth)

\* A clock is never more than a skew ahead of its anchor, and the anchor of a
\* traced one leaves room for that skew.
ClockOk(c, d) ==
  /\ c \in Rules!Clock /\ d \in Nat
  /\ c.base \in c.anchor .. c.anchor + MaxSkew
  /\ c.auth => /\ c.synced /\ d > 0
               /\ c.base >= Least(d) /\ c.anchor + MaxSkew <= Most(d)

\* The inductive strengthening of TracedError: packets in flight carry the
\* bound with them, since the clock they were stamped by may have rebooted.
NetInv ==
  /\ clocks \in [Bitles -> Rules!Clock] /\ depth \in [Bitles -> Nat]
  /\ \A n \in Bitles : ClockOk(clocks[n], depth[n])
  /\ DOMAIN link = Links
  /\ \A l \in Links : link[l] # None => StampOk(link[l].stamp)

\* One hop more widens the bounds by two skews and by a skew and the delay.
LEMMA BoundsStep ==
  /\ Least(0) = 0 /\ Most(0) = 0
  /\ \A d \in Nat : /\ Least(d) \in Int /\ Most(d) \in Int
                    /\ Least(d + 1) = Least(d) - MaxSkew - MaxDelay
                    /\ Most(d + 1) = Most(d) + 2 * MaxSkew
  BY NetAssumption, SMTT(30) DEF Least, Most

\* The bounds of a traced clock include those of a clock one hop away.
LEMMA BoundsGrow ==
  \A d \in Nat \ {0} : Least(d) <= -(MaxSkew + MaxDelay) /\ Most(d) >= 2 * MaxSkew
<1> SUFFICES ASSUME NEW d \in Nat \ {0}
             PROVE  Least(d) <= -(MaxSkew + MaxDelay) /\ Most(d) >= 2 * MaxSkew
  OBVIOUS
<1>1. \A k \in Nat : (MaxSkew + MaxDelay) * k >= 0 /\ MaxSkew * k >= 0
  BY NetAssumption, SMTT(30)
<1>2. d - 1 \in Nat
  BY SMTT(30)
<1>3. (MaxSkew + MaxDelay) * d = (MaxSkew + MaxDelay) * (d - 1) + (MaxSkew + MaxDelay)
  BY NetAssumption, SMTT(30)
<1>4. MaxSkew * d = MaxSkew * (d - 1) + MaxSkew
  BY NetAssumption, SMTT(30)
<1> QED
  BY <1>1, <1>2, <1>3, <1>4, NetAssumption, SMTT(30) DEF Least, Most

\* What an anchored clock is.
LEMMA AnchoredFields ==
  \A p \in Int, a \in BOOLEAN :
    /\ Rules!Anchored(p, a) \in Rules!Clock
    /\ Rules!Anchored(p, a).base = p /\ Rules!Anchored(p, a).anchor = p
    /\ Rules!Anchored(p, a).synced
    /\ Rules!Anchored(p, a).auth = a
  BY DEF Rules!Anchored, Rules!Clock

\* bitchat_time_maybe_sync: a packet of a peer that is no announce never
\* takes a clock past its anchor's skew.
LEMMA TentativeOk ==
  ASSUME NEW c, NEW d, ClockOk(c, d), NEW p \in Int
  PROVE  ClockOk(Rules!Tentative(c, p), d)
<1>1. c \in Rules!Clock /\ d \in Nat /\ Least(d) \in Int /\ Most(d) \in Int /\ MaxSkew \in Nat
  BY BoundsStep, NetAssumption DEF ClockOk
<1>2. CASE ~ c.synced
  BY <1>1, <1>2, SMTT(30) DEF ClockOk, Rules!Tentative, Rules!Anchored, Rules!Clock
<1>3. CASE c.synced
  BY <1>1, <1>3, SMTT(30) DEF ClockOk, Rules!Tentative, Rules!Nudged, Rules!InWindow, Rules!Clock
<1> QED
  BY <1>2, <1>3, <1>1 DEF Rules!Clock

\* bitchat_time_maybe_sync_authoritative: a clock that comes to trace to a
\* phone, or is anchored anew, is within the bounds of one hop more than the
\* announce it heard; any other keeps its own.
LEMMA AuthoritativeOk ==
  ASSUME NEW c, NEW d, ClockOk(c, d), NEW s, StampOk(s), NEW late \in 0 .. MaxDelay
  PROVE  LET e == Rules!Authoritative(c, s.off - late, s.phone, s.traced)
         IN  ClockOk(e, IF e.auth /\ (~ c.auth \/ e.anchor # c.anchor) THEN s.depth + 1 ELSE d)
<1> DEFINE p == s.off - late
           e == Rules!Authoritative(c, p, s.phone, s.traced)
           f == IF e.auth /\ (~ c.auth \/ e.anchor # c.anchor) THEN s.depth + 1 ELSE d
<1>1. /\ c \in Rules!Clock /\ d \in Nat /\ s.depth \in Nat /\ s.depth + 1 \in Nat \ {0}
      /\ s.phone \in BOOLEAN /\ s.traced \in BOOLEAN /\ p \in Int
      /\ MaxSkew \in Nat /\ MaxDelay \in Nat
  BY NetAssumption, SMTT(30) DEF ClockOk, StampOk
<1>2. /\ Least(d) \in Int /\ Most(d) \in Int
      /\ Least(s.depth + 1) \in Int /\ Most(s.depth + 1) \in Int
      /\ c.auth => Least(d) <= -MaxDelay
  BY <1>1, BoundsStep, BoundsGrow, SMTT(30) DEF ClockOk
<1>3. s.phone \/ s.traced =>
        /\ p - MaxSkew >= Least(s.depth + 1)
        /\ p + 2 * MaxSkew <= Most(s.depth + 1)
  <2>1. Least(s.depth) \in Int /\ Most(s.depth) \in Int
    BY <1>1, BoundsStep
  <2>2. s.phone \/ s.traced => s.off \in Least(s.depth) .. Most(s.depth)
    BY BoundsStep, SMTT(30) DEF StampOk
  <2>3. /\ Least(s.depth + 1) = Least(s.depth) - MaxSkew - MaxDelay
        /\ Most(s.depth + 1) = Most(s.depth) + 2 * MaxSkew
    BY <1>1, BoundsStep
  <2> QED
    BY <1>1, <2>1, <2>2, <2>3, SMTT(30)
<1>4. s.phone => p >= -MaxDelay
  BY <1>1, SMTT(30) DEF StampOk
<1>5. CASE ~ c.synced
  <2>1. e = Rules!Anchored(p, s.phone \/ s.traced) /\ ~ c.auth
    BY <1>5 DEF Rules!Authoritative, ClockOk
  <2> QED
    <3>1. e \in Rules!Clock /\ e.base = p /\ e.anchor = p /\ e.synced
          /\ (e.auth <=> s.phone \/ s.traced)
      BY <1>1, <2>1, AnchoredFields, SMTT(30)
    <3> QED
      BY <1>1, <1>2, <1>3, <2>1, <3>1, SMTT(30) DEF ClockOk
<1>6. CASE c.synced /\ Rules!InWindow(c, p)
  <2>1. e = [Rules!Nudged(c, p) EXCEPT !.auth = c.auth \/ s.phone \/ s.traced]
    BY <1>1, <1>6 DEF Rules!Authoritative, Rules!Nudged, Rules!Clock
  <2>2. /\ e \in Rules!Clock /\ e.anchor = c.anchor /\ e.synced
        /\ e.base = IF p > c.base /\ p <= c.anchor + MaxSkew THEN p ELSE c.base
        /\ e.auth <=> c.auth \/ s.phone \/ s.traced
    BY <1>1, <1>6, <2>1, ZenonT(30) DEF Rules!Nudged, Rules!Clock
  <2>3. c.base - MaxSkew <= p /\ p <= c.base + MaxSkew
    BY <1>1, <1>6, SMTT(30) DEF Rules!InWindow, Rules!Clock
  <2>4. c.base \in Int /\ c.anchor \in Int /\ e.base \in Int
    BY <1>1, <2>2 DEF Rules!Clock
  <2>5. e.base \in e.anchor .. e.anchor + MaxSkew
    BY <1>1, <2>2, <2>4, SMTT(30) DEF ClockOk
  <2>6. CASE c.auth
    BY <1>1, <1>2, <2>2, <2>4, <2>5, <2>6, SMTT(30) DEF ClockOk
  <2>7. CASE ~ c.auth
    BY <1>1, <1>2, <1>3, <2>2, <2>3, <2>4, <2>5, <2>7, SMTT(30) DEF ClockOk
  <2> QED
    BY <2>6, <2>7
<1>7. CASE c.synced /\ ~ Rules!InWindow(c, p) /\ (s.phone \/ (s.traced /\ ~ c.auth))
  <2>1. e = Rules!Anchored(p, TRUE)
    BY <1>7 DEF Rules!Authoritative
  <2>2. e \in Rules!Clock /\ e.base = p /\ e.anchor = p /\ e.auth /\ e.synced
    BY <1>1, <2>1, AnchoredFields
  <2>3. CASE ~ c.auth \/ p # c.anchor
    BY <1>1, <1>2, <1>3, <1>7, <2>2, <2>3, SMTT(30) DEF ClockOk
  <2>4. CASE c.auth /\ p = c.anchor
    BY <1>1, <1>2, <1>4, <1>7, <2>2, <2>4, SMTT(30) DEF ClockOk
  <2> QED
    BY <2>3, <2>4
<1>8. CASE c.synced /\ ~ Rules!InWindow(c, p) /\ ~ (s.phone \/ (s.traced /\ ~ c.auth))
  <2>1. e = c
    BY <1>8 DEF Rules!Authoritative
  <2> QED
    BY <2>1, <1>1
<1> QED
  BY <1>5, <1>6, <1>7, <1>8

\* The invariant holds when the line is switched on, whatever the clocks read.
LEMMA NetStarts == NetInit => NetInv
<1> SUFFICES ASSUME NetInit PROVE NetInv
  OBVIOUS
<1>1. PICK b \in [Bitles -> BootOffsets] : clocks = [n \in Bitles |-> Rules!Unsynced(b[n])]
  BY DEF NetInit
<1>2. \A n \in Bitles : b[n] \in Int
  BY <1>1, NetAssumption, SMTT(30) DEF BootOffsets
<1>3. \A n \in Bitles : clocks[n] \in Rules!Clock /\ ClockOk(clocks[n], 0)
  BY <1>1, <1>2, NetAssumption, SMTT(30) DEF ClockOk, Rules!Unsynced, Rules!Clock
<1> QED
  BY <1>1, <1>3 DEF NetInit, NetInv

\* Every step keeps it.
LEMMA NetStep == NetInv /\ [NetNext]_netVars => NetInv'
<1> SUFFICES ASSUME NetInv, [NetNext]_netVars PROVE NetInv'
  OBVIOUS
<1>0. \A l \in Links : l[2] \in Bitles /\ (l[1] = Phone \/ l[1] \in Bitles)
  BY NetAssumption, SMTT(30) DEF Links, Bitles, Phone
<1>1. ASSUME NEW l \in Links, NEW what \in {"announce", "packet"}, Send(l, what)
      PROVE  NetInv'
  <2>1. StampOk(Stamp(l[1]))
    <3>1. CASE l[1] = Phone
      BY <3>1, BoundsStep DEF Stamp, StampOk
    <3>2. CASE l[1] # Phone
      <4>1. ClockOk(clocks[l[1]], depth[l[1]])
        BY <1>0, <3>2 DEF NetInv
      <4>2. Least(depth[l[1]]) \in Int /\ Most(depth[l[1]]) \in Int
        BY <4>1, BoundsStep DEF ClockOk
      <4> QED
        BY <3>2, <4>1, <4>2, NetAssumption, SMTT(30) DEF Stamp, StampOk, ClockOk, Rules!Clock
    <3> QED
      BY <3>1, <3>2
  <2>2. link' = [link EXCEPT ![l] = [kind |-> what, stamp |-> Stamp(l[1])]]
        /\ UNCHANGED <<clocks, depth>>
    BY <1>1 DEF Send
  <2>3. \A k \in Links : link'[k] # None => StampOk(link'[k].stamp)
    BY <2>1, <2>2 DEF NetInv
  <2> QED
    BY <2>2, <2>3 DEF NetInv
<1>2. ASSUME NEW l \in Links, NEW late \in 0 .. MaxDelay, HearAnnounce(l, late)
      PROVE  NetInv'
  <2> DEFINE s == link[l].stamp
             n == l[2]
             c == Rules!Authoritative(clocks[n], s.off - late, s.phone, s.traced)
             d == IF c.auth /\ (~ clocks[n].auth \/ c.anchor # clocks[n].anchor)
                  THEN s.depth + 1 ELSE depth[n]
  <2>1. n \in Bitles /\ ClockOk(clocks[n], depth[n])
    BY <1>0 DEF NetInv
  <2>2. link[l] # None
    BY <1>2, SMTT(30) DEF HearAnnounce, None
  <2>3. StampOk(s)
    BY <2>2 DEF NetInv
  <2>4. ClockOk(c, d)
    BY <2>1, <2>3, AuthoritativeOk
  <2>5. clocks' = [clocks EXCEPT ![n] = c] /\ depth' = [depth EXCEPT ![n] = d]
        /\ link' = [link EXCEPT ![l] = None]
    BY <1>2 DEF HearAnnounce
  <2>6. c \in Rules!Clock /\ d \in Nat
    BY <2>4, ZenonT(30) DEF ClockOk
  <2> QED
    BY <2>1, <2>4, <2>5, <2>6 DEF NetInv
<1>3. ASSUME NEW l \in Links, NEW late \in 0 .. MaxDelay, HearPacket(l, late)
      PROVE  NetInv'
  <2> DEFINE n == l[2]
             c == Rules!Tentative(clocks[n], link[l].stamp.off - late)
  <2>1. n \in Bitles /\ ClockOk(clocks[n], depth[n])
    BY <1>0 DEF NetInv
  <2>2. link[l] # None
    BY <1>3, SMTT(30) DEF HearPacket, None
  <2>3. link[l].stamp.off - late \in Int
    BY <2>2, NetAssumption, SMTT(30) DEF NetInv, StampOk
  <2>4. ClockOk(c, depth[n])
    BY <2>1, <2>3, TentativeOk
  <2>5. clocks' = [clocks EXCEPT ![n] = c] /\ depth' = depth
        /\ link' = [link EXCEPT ![l] = None]
    BY <1>3, <2>1 DEF HearPacket, NetInv
  <2>6. c \in Rules!Clock
    BY <2>4 DEF ClockOk
  <2> QED
    BY <2>1, <2>4, <2>5, <2>6 DEF NetInv
<1>4. ASSUME NEW l \in Links, Lose(l) PROVE NetInv'
  BY <1>4 DEF Lose, NetInv
<1>5. ASSUME NEW n \in Bitles, Restart(n) PROVE NetInv'
  <2>1. PICK b \in BootOffsets : clocks' = [clocks EXCEPT ![n] = Rules!Unsynced(b)]
    BY <1>5 DEF Restart
  <2>2. Rules!Unsynced(b) \in Rules!Clock /\ ClockOk(Rules!Unsynced(b), 0)
    BY <2>1, NetAssumption, SMTT(30) DEF BootOffsets, ClockOk, Rules!Unsynced, Rules!Clock
  <2>3. depth' = [depth EXCEPT ![n] = 0] /\ link' = link
    BY <1>5 DEF Restart
  <2> QED
    BY <2>1, <2>2, <2>3 DEF NetInv
<1>6. CASE UNCHANGED netVars
  BY <1>6 DEF netVars, NetInv
<1> QED
  BY <1>1, <1>2, <1>3, <1>4, <1>5, <1>6 DEF NetNext, Hear

\* "Propagates real time hop-by-hop": TracedError holds in every state of
\* every line, whatever its length, the skew, the delays and the boot errors.
THEOREM TracedErrorBounded == NetSpec => []TracedError
<1>1. NetInv => TracedError
  <2> SUFFICES ASSUME NetInv, NEW n \in Bitles, clocks[n].auth
               PROVE  clocks[n].base \in Least(depth[n]) .. Most(depth[n])
    BY DEF TracedError, Least, Most
  <2>1. ClockOk(clocks[n], depth[n])
    BY DEF NetInv
  <2>2. Least(depth[n]) \in Int /\ Most(depth[n]) \in Int
    BY <2>1, BoundsStep DEF ClockOk
  <2> QED
    BY <2>1, <2>2, NetAssumption, SMTT(30) DEF ClockOk, Rules!Clock
<1> QED
  BY <1>1, NetStarts, NetStep, PTL DEF NetSpec
=============================================================================
