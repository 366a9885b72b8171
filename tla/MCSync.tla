------------------------------- MODULE MCSync -------------------------------
(***************************************************************************)
(* Instances of the gossip sync: two Bitles that meet, one of them         *)
(* restarting; a Bitle whose store overflows; a Bitle between phones.      *)
(***************************************************************************)
EXTENDS BitleSync, TLC

CONSTANTS na, nb, ph, qh,      \* nodes
          x, y               \* owners

Pk(id, type, owner, ts) == [id |-> id, type |-> type, owner |-> owner, ts |-> ts, fit |-> TRUE]

A1 == Pk(1, "announce", x, 1)
A2 == Pk(2, "announce", x, 2)
A3 == Pk(3, "announce", y, 1)
C1 == Pk(4, "capability", x, 1)
M1 == Pk(5, "message", x, 1)
M2 == Pk(6, "message", y, 3)
K1 == Pk(7, "prekey", y, 2)
Bad == [Pk(8, "message", y, 2) EXCEPT !.fit = FALSE]

MCPackets == {A1, A2, A3, C1, M1, M2, K1, Bad}
MCQuota == [announce |-> 1, message |-> 1, prekey |-> 1]

\* The messages collide in a filter of one or of two packets, not of three.
MCDigest == <<130, 256, 77, 200, 5, 261, 383, 9>>

Pair == (<<na, nb>> :> 1) @@ (<<nb, na>> :> 2)

\* They meet with an old and a new announce of x and other packets.
Meet == [bitles |-> {na, nb}, handle |-> Pair, expire |-> {}, faults |-> 1, steps |-> 0,
         publish |-> {<<na, A1>>, <<nb, A2>>, <<na, M1>>, <<nb, M2>>}]
\* The messages of one hide behind those of the other.
Hide == [Meet EXCEPT !.publish = {<<na, M1>>, <<nb, M2>>, <<nb, K1>>}]
\* More packets than slots, and a phone that asks.
Full == [bitles |-> {na}, handle |-> (<<na, ph>> :> 1) @@ (<<ph, na>> :> 1), expire |-> {1}, faults |-> 0, steps |-> 0,
         publish |-> {<<na, p>> : p \in {A1, A3, C1, M1, Bad}}]
\* A Bitle and the phones near it.
Near == [bitles |-> {na}, expire |-> {}, faults |-> 0, steps |-> 0,
         handle |-> (<<na, ph>> :> 1) @@ (<<ph, na>> :> 1) @@ (<<na, qh>> :> 2) @@ (<<qh, na>> :> 1),
         publish |-> {<<na, M1>>, <<na, K1>>}]
\* One of the phones has the connection handle 0.
Zero == [Near EXCEPT !.publish = {}, !.handle[<<na, ph>>] = 0]
\* A phone asks a Bitle whose clock steps.
Steps == [Full EXCEPT !.publish = {}, !.expire = {}, !.steps = 2]

AllScenes == {Meet, Hide, Full, Near, Zero, Steps}
JustMeet == {Meet}
JustFull == {Full}
JustZero == {Zero}
JustHide == {Hide}
JustNear == {Near}
=============================================================================
