------------------------------- MODULE MCCourier -------------------------------
(* Instances of BitleCourier for TLC.                                      *)
EXTENDS BitleCourier, TLC

CONSTANTS k1, k2, k3, p1, p2, p3

\* Two envelopes for one owner, so that deliveries compete, and one for another.
MCOwner == (k1 :> p1) @@ (k2 :> p1) @@ (k3 :> p2)

\* Two peers share a bit of the spray mask.
MCBit == (p1 :> 0) @@ (p2 :> 1) @@ (p3 :> 0)

\* A day's mail, mail that uses the whole cap, and mail whose sender's clock is
\* ahead of this one; two depositors bring the first.
Deposit(d, k, t, l, c) == [dep |-> d, key |-> k, made |-> t, life |-> l, copies |-> c]
MCDeposits == {Deposit(p2, k1, 3, 2, 1), Deposit(p3, k1, 3, 2, 1),
               Deposit(p2, k2, 3, 3, 2), Deposit(p1, k3, 4, 2, 1)}
=============================================================================
