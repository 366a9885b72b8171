----------------------------- MODULE MCSessions -----------------------------
(***************************************************************************)
(* Two Bitles that may dial each other, and a Bitle with a phone.          *)
(***************************************************************************)
EXTENDS BitleSessions

Dials == [up |-> 1, down |-> 2, app |-> 3]
Answers == [up |-> 2, down |-> 1, app |-> 1]

Scene(c, f, t, u, k, g) ==
  [conns |-> c, faults |-> f, tries |-> t, calls |-> u, clocks |-> k, gens |-> g]

\* Two Bitles that dial each other; a link that may fail in the middle of a
\* handshake; clocks that are set late and corrected; a phone whose user
\* writes; a phone that comes and goes.
AllScenes ==
  {Scene({"up", "down"}, 0, 0, 0, {1}, 1), Scene({"up"}, 1, 1, 0, {1}, 1),
   Scene({"up"}, 0, 0, 0, {0, 1}, 2), Scene({"app"}, 0, 1, 2, {1}, 1),
   Scene({"app"}, 1, 0, 1, {1}, 1)}
\* One link between two Bitles, and nothing goes wrong.
OneLink == {Scene({"up"}, 0, 1, 0, {1}, 1)}
\* A phone whose user writes.
OneApp == {Scene({"app"}, 0, 1, 2, {1}, 1)}
=============================================================================
