----------------------------- MODULE BitchatTime -----------------------------
(***************************************************************************)
(* components/bitchat_utils/bitchat_time.c: wall time as a persisted base  *)
(* plus the monotonic timer, corrected from peers' timestamps.             *)
(*                                                                         *)
(* Three tasks use the clock: the mesh (radio tasks, under the mesh lock), *)
(* the noise worker and the main loop.  A call changes the clock in one    *)
(* critical section and writes NVS after it, so every NVS write is a step  *)
(* of its own.                                                             *)
(***************************************************************************)
EXTENDS Integers

CONSTANTS
  Skew,              (* MAX_CLOCK_SKEW_SECONDS                             *)
  MinValid,          (* MIN_VALID_EPOCH_SECONDS                            *)
  Build,             (* build_epoch_ms(), clamped to MinValid              *)
  PersistInterval,   (* PERSIST_INTERVAL_MS                                *)
  NvsMayFail,        (* whether opening NVS may fail                       *)
  MaxMono,           (* bound: uptime of one boot                          *)
  MaxWall,           (* bound: timestamps peers send                       *)
  MaxGen,            (* bound: sync generations of one boot                *)
  MaxBoots           (* bound: reboots                                     *)

ASSUME TimeAssumption ==
  /\ NvsMayFail \in BOOLEAN
  /\ Skew \in Nat /\ PersistInterval \in Nat \ {0}
  /\ MaxMono \in Nat /\ MinValid \in Nat /\ MinValid > MaxMono
  /\ Build \in Nat /\ Build >= MinValid
  /\ MaxWall \in Nat /\ MaxWall >= Build /\ MaxBoots \in Nat /\ MaxGen \in Nat

VARIABLES
  mono,              (* monotonic_ms()                                     *)
  base,              (* s_epoch_base_ms                                    *)
  synced,            (* s_peer_synced                                      *)
  gen,               (* s_sync_generation                                  *)
  anchor_wall, anchor_mono, auth,
  last_persist,      (* s_last_persist_uptime_ms                           *)
  nvs,               (* epoch_base in NVS; 0 when absent                   *)
  writing,           (* per task: the estimate it is about to persist      *)
  boots,
  via,               (* history: how the last timestamp came               *)
  gen_base           (* history: base when gen last changed                *)

clk  == <<base, synced, gen, anchor_wall, anchor_mono, auth, gen_base>>
vars == <<mono, base, synced, gen, anchor_wall, anchor_mono, auth, last_persist,
          nvs, writing, boots, via, gen_base>>

Tasks   == {"mesh", "worker", "main"}
Stamps  == 0 .. MaxWall
Nothing == -1
Quiet   == \A t \in Tasks : writing[t] = Nothing
Wall    == base + mono

\* load_epoch_base(), "Never boot with a clock older than the firmware build."
BootBase(stored) == IF stored > Build THEN stored ELSE Build
-----------------------------------------------------------------------------
Init ==
  /\ mono = 0 /\ base = BootBase(0) /\ nvs = BootBase(0) /\ last_persist = 0
  /\ synced = FALSE /\ gen = 0 /\ auth = FALSE
  /\ anchor_wall = 0 /\ anchor_mono = 0
  /\ writing = [t \in Tasks |-> Nothing] /\ boots = 0
  /\ via = "none" /\ gen_base = BootBase(0)

Tick ==
  /\ mono < MaxMono /\ mono' = mono + 1 /\ via' = "none"
  /\ UNCHANGED <<clk, last_persist, nvs, writing, boots>>

\* Power loss and bitchat_time_init(); a write in progress is lost, and NVS may
\* fail to open for the read or for the write.
Reboot ==
  /\ boots < MaxBoots /\ boots' = boots + 1
  /\ mono' = 0 /\ last_persist' = 0
  /\ \/ base' = BootBase(nvs)
     \/ NvsMayFail /\ base' = BootBase(0)
  /\ \/ nvs' = base'
     \/ NvsMayFail /\ nvs' = nvs
  /\ synced' = FALSE /\ gen' = 0 /\ auth' = FALSE
  /\ anchor_wall' = 0 /\ anchor_mono' = 0
  /\ writing' = [t \in Tasks |-> Nothing]
  /\ via' = "none" /\ gen_base' = base'

Delta(ts) == IF ts > Wall THEN ts - Wall ELSE Wall - ts

\* Mutant: the cap moves with the clock instead of the anchor.
CapMutant == Wall + Skew
Cap == anchor_wall + (mono - anchor_mono) + Skew

\* s_epoch_base_ms = peer_timestamp_ms - now_monotonic, under a cap
Nudge(ts) == base' = IF ts > Wall /\ ts <= Cap THEN ts - mono ELSE base

Bump(ts) == gen < MaxGen /\ gen' = gen + 1 /\ base' = ts - mono /\ gen_base' = ts - mono

\* (Re)acquisition: the clock and its anchor move to the timestamp.
Acquire(t, ts) ==
  /\ Bump(ts) /\ synced' = TRUE
  /\ anchor_wall' = ts /\ anchor_mono' = mono
  /\ writing' = [writing EXCEPT ![t] = ts]

Plausible(ts) == ts # 0 /\ ts >= MinValid

\* bitchat_time_consider_peer() up to its NVS write.
Consider(t, ts) ==
  /\ writing[t] = Nothing /\ Plausible(ts)
  /\ IF ~ synced THEN Acquire(t, ts) /\ UNCHANGED auth
     ELSE /\ IF Delta(ts) <= Skew THEN Nudge(ts) ELSE UNCHANGED base
          /\ UNCHANGED <<synced, gen, anchor_wall, anchor_mono, auth, writing, gen_base>>
  /\ UNCHANGED <<mono, last_persist, nvs, boots>>

AllowLarge(infra, pauth) == ~ infra \/ (pauth /\ ~ auth)

\* Mutant: new authority also moves the anchor.
InWindowStepMutant(ts, traced) ==
  /\ Nudge(ts)
  /\ IF traced /\ ~ auth
     THEN /\ gen < MaxGen /\ auth' = TRUE /\ gen' = gen + 1 /\ gen_base' = base'
          /\ anchor_wall' = base' + mono /\ anchor_mono' = mono
     ELSE UNCHANGED <<auth, gen, gen_base, anchor_wall, anchor_mono>>
  /\ UNCHANGED <<synced, writing>>
\* In the window: nudge; a source that traces to a phone lends its authority.
InWindowStep(ts, traced) ==
  /\ Nudge(ts)
  /\ IF traced /\ ~ auth
     THEN gen < MaxGen /\ auth' = TRUE /\ gen' = gen + 1 /\ gen_base' = base'
     ELSE UNCHANGED <<auth, gen, gen_base>>
  /\ UNCHANGED <<synced, anchor_wall, anchor_mono, writing>>

\* bitchat_time_consider_peer_announce() up to its NVS write.
ConsiderAnnounce(ts, infra, pauth) ==
  LET traced == ~ infra \/ pauth IN
  /\ writing["worker"] = Nothing /\ Plausible(ts)
  /\ IF ~ synced THEN Acquire("worker", ts) /\ auth' = traced
     ELSE IF Delta(ts) <= Skew THEN InWindowStep(ts, traced)
     ELSE IF AllowLarge(infra, pauth)
          THEN Acquire("worker", ts) /\ auth' = (auth \/ traced)
     ELSE UNCHANGED <<clk, writing>>
  /\ via' = IF infra THEN "bitle" ELSE "phone"
  /\ UNCHANGED <<mono, last_persist, nvs, boots>>

\* dispatch_packet(): a packet other than an announce, at its origin TTL.
MeshPacket(ts) == Consider("mesh", ts) /\ via' = "direct"

\* parse_identity_payload(): a legacy identity announce, from any hop.
Identity(ts, hop) == Consider("worker", ts) /\ via' = hop

\* bitchat_time_poll(): the estimate is read, then persisted.
Poll ==
  /\ writing["main"] = Nothing /\ mono - last_persist >= PersistInterval
  /\ writing' = [writing EXCEPT !["main"] = Wall]
  /\ via' = "none"
  /\ UNCHANGED <<mono, clk, last_persist, nvs, boots>>

\* persist_wall_estimate(); NVS may fail to open.
Persist(t) ==
  /\ writing[t] # Nothing
  /\ \/ nvs' = writing[t] /\ last_persist' = mono
     \/ NvsMayFail /\ UNCHANGED <<nvs, last_persist>>
  /\ writing' = [writing EXCEPT ![t] = Nothing]
  /\ via' = "none"
  /\ UNCHANGED <<mono, clk, boots>>

Next ==
  \/ Tick \/ Reboot \/ Poll
  \/ \E t \in Tasks : Persist(t)
  \/ \E ts \in Stamps : MeshPacket(ts)
  \/ \E ts \in Stamps, hop \in {"direct", "relayed"} : Identity(ts, hop)
  \/ \E ts \in Stamps, infra, pauth \in BOOLEAN : ConsiderAnnounce(ts, infra, pauth)

Spec == Init /\ [][Next]_vars
-----------------------------------------------------------------------------
(* Properties.                                                             *)

\* The types of the state; uptime never falls behind the anchor's.
TypeOK ==
  /\ mono \in 0 .. MaxMono /\ base \in Nat
  /\ synced \in BOOLEAN /\ auth \in BOOLEAN /\ gen \in 0 .. MaxGen
  /\ anchor_wall \in Nat /\ anchor_mono \in 0 .. mono
  /\ last_persist \in 0 .. mono /\ nvs \in Nat
  /\ writing \in [Tasks -> Nat \cup {Nothing}]
  /\ boots \in 0 .. MaxBoots /\ via \in {"none", "phone", "bitle", "direct", "relayed"}
  /\ gen_base \in Nat

\* The anti-ratchet anchor: the clock stays within [0, Skew] of the time it
\* was last given plus the real time since, whatever peers send.
AntiRatchet ==
  synced => Wall - (anchor_wall + (mono - anchor_mono)) \in 0 .. Skew

\* s_sync_generation "lets senders detect that previously announced timestamps
\* are stale": under an unchanged generation the clock has moved by at most
\* the skew since, and never back.
StaleWithinSkew == base - gen_base \in 0 .. Skew

\* A node whose time traces to a phone is re-anchored only by a phone or a
\* reboot: "an authoritative Bitle corrects us only while we are not yet
\* authoritative (propagation, not poisoning)".
OnlyPhonesReanchor ==
  [][auth /\ via' # "phone" /\ boots' = boots
       => UNCHANGED <<anchor_wall, anchor_mono>> /\ base' - base \in 0 .. Skew]_vars

\* "timestamps harvested only from directly-connected peers (relayed/replayed
\* timestamps are ignored)": a relayed packet never moves the clock.
RelayedIgnored == [][via' = "relayed" => base' = base]_vars

\* The persisted estimate is one the clock of this boot had since it was last
\* (re)acquired: "a reboot resumes from the last known now".
PersistedCurrent == synced /\ Quiet => nvs \in anchor_wall .. Wall

\* The clock in the frame of the monotonic timer, and the offsets peers imply.
OffsetClock ==
  [base |-> base, anchor |-> IF synced THEN anchor_wall - anchor_mono ELSE base,
   synced |-> synced, auth |-> auth]
Offsets == (MinValid - MaxMono) .. MaxWall
Abstract == INSTANCE ClockOffset WITH clock <- OffsetClock

\* Uptime cancels out: the clock's base, anchor and authority behave as the
\* offsets of ClockOffset, which know no time, no tasks and no NVS.
Implements == Abstract!Spec

\* Timestamps cannot walk the clock away from its anchor, nor away from what
\* was announced under the generation, and the base never underflows.
ClockBounded == TypeOK /\ AntiRatchet /\ StaleWithinSkew
=============================================================================
