------------------------------- MODULE ClockNet -------------------------------
(***************************************************************************)
(* The clocks of a line of Bitles, the first of them near a phone.  Every  *)
(* clock is an offset to true time that moves by the rules of ClockOffset, *)
(* which BitchatTime implements.  A packet carries the sender's time and   *)
(* authority as of sending and is late by 0 .. MaxDelay when it arrives.   *)
(***************************************************************************)
EXTENDS Integers

CONSTANTS
  N,            (* Bitles 1 .. N; the phone is a direct peer of 1 only     *)
  MaxSkew,      (* MAX_CLOCK_SKEW_SECONDS                                  *)
  BootBehind, BootAhead,  (* range of the clock error at boot              *)
  MaxDelay,     (* bound: seconds from stamping to receipt                 *)
  MaxReboots    (* bound: reboots                                          *)

ASSUME NetAssumption ==
  /\ N \in Nat \ {0} /\ MaxSkew \in Nat /\ BootBehind \in Nat /\ BootAhead \in Nat
  /\ MaxDelay \in Nat /\ MaxReboots \in Nat

VARIABLES
  clocks,       (* per Bitle: an offset clock                              *)
  depth,        (* history: hops from the phone its authority travelled    *)
  link,         (* per directed link: the packet in flight, or None        *)
  reboots
netVars == <<clocks, depth, link, reboots>>

Rules == INSTANCE ClockOffset WITH clock <- clocks, Offsets <- Int, Skew <- MaxSkew

Bitles == 1 .. N
Phone  == 0
BootOffsets == -BootBehind .. BootAhead
Links  == {l \in (0 .. N) \X Bitles : l[1] - l[2] \in {-1, 1}}
None   == [kind |-> "none"]

\* The time, authority and hop count a peer stamps its packets with.
Stamp(m) ==
  IF m = Phone THEN [off |-> 0, phone |-> TRUE, traced |-> FALSE, depth |-> 0]
  ELSE [off |-> clocks[m].base, phone |-> FALSE, traced |-> clocks[m].auth,
        depth |-> depth[m]]

NetInit ==
  /\ \E b \in [Bitles -> BootOffsets] : clocks = [n \in Bitles |-> Rules!Unsynced(b[n])]
  /\ depth = [n \in Bitles |-> 0]
  /\ link = [l \in Links |-> None] /\ reboots = 0

\* noise_send_announce(), or any other packet at its origin TTL.
Send(l, kind) ==
  /\ link[l] = None
  /\ link' = [link EXCEPT ![l] = [kind |-> kind, stamp |-> Stamp(l[1])]]
  /\ UNCHANGED <<clocks, depth, reboots>>

\* process_announce_event(): a verified direct announce.
HearAnnounce(l, d) ==
  LET s == link[l].stamp
      n == l[2]
      c == Rules!Authoritative(clocks[n], s.off - d, s.phone, s.traced)
  IN
  /\ link[l].kind = "announce"
  /\ clocks' = [clocks EXCEPT ![n] = c]
  /\ depth' = [depth EXCEPT ![n] =
                 IF c.auth /\ (~ clocks[n].auth \/ c.anchor # clocks[n].anchor)
                 THEN s.depth + 1 ELSE @]
  /\ link' = [link EXCEPT ![l] = None]
  /\ UNCHANGED reboots

\* dispatch_packet(): a direct packet that is no announce.
HearPacket(l, d) ==
  /\ link[l].kind = "packet"
  /\ clocks' = [clocks EXCEPT ![l[2]] = Rules!Tentative(@, link[l].stamp.off - d)]
  /\ link' = [link EXCEPT ![l] = None]
  /\ UNCHANGED <<depth, reboots>>

Lose(l) ==
  /\ link[l] # None /\ link' = [link EXCEPT ![l] = None]
  /\ UNCHANGED <<clocks, depth, reboots>>

Restart(n) ==
  /\ reboots < MaxReboots /\ reboots' = reboots + 1
  /\ \E b \in BootOffsets : clocks' = [clocks EXCEPT ![n] = Rules!Unsynced(b)]
  /\ depth' = [depth EXCEPT ![n] = 0]
  /\ UNCHANGED link

Hear(l) == \E d \in 0 .. MaxDelay : HearAnnounce(l, d) \/ HearPacket(l, d)

NetNext ==
  \/ \E l \in Links, kind \in {"announce", "packet"} : Send(l, kind)
  \/ \E l \in Links : Hear(l)
  \/ \E l \in Links : Lose(l)
  \/ \E n \in Bitles : Restart(n)

NetSpec == NetInit /\ [][NetNext]_netVars

\* Peers in range keep announcing (the announce is periodic and repeated when
\* the sync generation moves), and not every announce is lost.
FairNetSpec ==
  /\ NetSpec
  /\ \A l \in Links :
       /\ SF_netVars(Send(l, "announce"))
       /\ SF_netVars(link[l].kind = "announce" /\ Hear(l))
       /\ WF_netVars(Hear(l))
-----------------------------------------------------------------------------
\* "Propagates real time hop-by-hop": the error of a Bitle that claims to
\* trace to a phone grows by at most two skews forward and one skew and the
\* delay backward with every hop its authority travelled, whatever relays,
\* losses and reboots come in between.
TracedError ==
  \A n \in Bitles :
    clocks[n].auth =>
      clocks[n].base \in -(MaxSkew + MaxDelay) * depth[n] .. 2 * MaxSkew * depth[n]

\* Every Bitle of the line comes to trace to the phone and stays so.
EventuallyTraced == \A n \in Bitles : <>[](clocks[n].auth)
=============================================================================
