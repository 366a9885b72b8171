----------------------------- MODULE ClockOffset -----------------------------
(***************************************************************************)
(* What bitchat_time promises about a node's clock, in the frame of its    *)
(* monotonic timer.  A wall time is "offset + uptime", so the clock is the *)
(* offset `base', the anti-ratchet anchor is the offset it had at the last *)
(* (re)acquisition, and a peer's timestamp is the offset it implies.       *)
(***************************************************************************)
EXTENDS Integers

CONSTANTS
  Skew,      (* MAX_CLOCK_SKEW_SECONDS                                     *)
  Offsets    (* the offsets that peers' timestamps imply                   *)

VARIABLE clock

Clock == [base : Int, anchor : Int, synced : BOOLEAN, auth : BOOLEAN]

Unsynced(b) == [base |-> b, anchor |-> b, synced |-> FALSE, auth |-> FALSE]
Anchored(p, a) == [base |-> p, anchor |-> p, synced |-> TRUE, auth |-> a]

InWindow(c, p) == p - c.base \in -Skew .. Skew

\* Mutant: the cap moves with the clock instead of the anchor.
NudgedMutant(c, p) == [c EXCEPT !.base = IF p > @ /\ p <= @ + Skew THEN p ELSE @]
\* Follow a peer that is ahead, never beyond the anchor plus the skew.
Nudged(c, p) == [c EXCEPT !.base = IF p > @ /\ p <= c.anchor + Skew THEN p ELSE @]

\* Any direct packet: bootstraps a fresh clock, nudges an established one.
Tentative(c, p) ==
  IF ~ c.synced THEN Anchored(p, c.auth)
  ELSE IF InWindow(c, p) THEN Nudged(c, p)
  ELSE c

\* Mutant: a Bitle that is not authoritative does not take a traced one's time.
AuthoritativeMutant(c, p, phone, traced) ==
  IF ~ c.synced THEN Anchored(p, phone \/ traced)
  ELSE IF InWindow(c, p)
       THEN [Nudged(c, p) EXCEPT !.auth = @ \/ phone \/ traced]
  ELSE IF phone THEN Anchored(p, TRUE)
  ELSE c
\* A verified direct announce: a phone corrects any clock, a Bitle whose time
\* traces to a phone corrects one whose time does not.
Authoritative(c, p, phone, traced) ==
  IF ~ c.synced THEN Anchored(p, phone \/ traced)
  ELSE IF InWindow(c, p)
       THEN [Nudged(c, p) EXCEPT !.auth = @ \/ phone \/ traced]
  ELSE IF phone \/ (traced /\ ~ c.auth)
       THEN Anchored(p, TRUE)
  ELSE c

Init == clock = Unsynced(clock.base)

Next ==
  \/ \E p \in Offsets : clock' = Tentative(clock, p)
  \/ \E p \in Offsets, phone, traced \in BOOLEAN :
       clock' = Authoritative(clock, p, phone, traced)
  \/ clock' = Unsynced(clock'.base)

Spec == Init /\ [][Next]_clock
=============================================================================
