------------------------------- MODULE MCLora -------------------------------
(***************************************************************************)
(* Two trunk nodes: both send messages, the channel fails, radios fail, a  *)
(* node starts again; and one node whose announces meet the governor.      *)
(***************************************************************************)
EXTENDS BitleLora, TLC

Msg(size) == [type |-> "message", sender |-> 1, to |-> TRUE, sig |-> FALSE,
              payload |-> size, wire |-> 256]
Ann(o) == [type |-> "announce", sender |-> o, to |-> FALSE, sig |-> TRUE,
           payload |-> 10, wire |-> 96]
Ota == [type |-> "ota", sender |-> 1, to |-> FALSE, sig |-> TRUE,
        payload |-> 3, wire |-> 256]

Left(a, b, c) == (1 :> [sends |-> a, beacons |-> c]) @@ (2 :> [sends |-> b, beacons |-> 0])

Scene(p, l, f, h, r, s, a) ==
  [offers |-> p, left |-> l, faults |-> f, horizon |-> h, reboots |-> r,
   spi |-> s, ages |-> a, ota |-> FALSE]

\* Both nodes talk at once.
Talk == Scene({Msg(60)}, Left(1, 1, 0), 1, 0, 0, FALSE, FALSE)
\* A message of two frames, the channel bad; unfinished packets may age.
Long == Scene({Msg(150)}, Left(1, 0, 0), 2, 0, 0, FALSE, TRUE)
\* Three messages of two frames one after the other.
Two == Scene({Msg(150)}, Left(3, 0, 0), 1, 0, 0, FALSE, FALSE)
\* A node that starts again between its beacons.
Restart == Scene({}, Left(0, 0, 2), 1, 0, 1, FALSE, FALSE)
\* A radio whose commands fail.
Spi == Scene({Msg(150), Ota}, Left(1, 0, 0), 1, 0, 1, TRUE, FALSE)
\* Announces of three origins and messages, over time.
Busy == Scene({Msg(60)} \cup {Ann(o) : o \in Origins}, Left(4, 0, 0), 0, 8000, 0, FALSE, FALSE)

AllScenes == {Talk, Long, Two, Restart, Spi, Busy}
JustTalk == {[Talk EXCEPT !.faults = 2]}
JustLong == {Long}
JustOne == {[Long EXCEPT !.faults = 0]}
=============================================================================
