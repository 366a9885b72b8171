-------------------------------- MODULE MCOta --------------------------------
(* Instances of BitleOta for TLC.                                          *)
EXTENDS BitleOta, TLC

CONSTANTS a, b, c

\* A line of Bitles; the first has the newest release and its manifest.
Line       == {p \in SUBSET Nodes : Cardinality(p) = 2 /\ (b \in p)}
MCFirmware == [n \in Nodes |-> IF n = a THEN 2 ELSE 1]
\* Three releases, so that a transfer can be superseded and an update undone.
Mixed      == (a :> 2) @@ (b :> 1) @@ (c :> 3)
=============================================================================
