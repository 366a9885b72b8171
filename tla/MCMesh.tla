-------------------------------- MODULE MCMesh --------------------------------
(* An instance of BitleMesh for TLC: two Bitles that hear each other over  *)
(* BLE and over LoRa, a third behind them, and a phone.                    *)
EXTENDS BitleMesh, TLC

CONSTANTS b1, b2, b3, ph, away,       (* Bitles, a phone, one out of range *)
          ble, trunk, ble23, access,  (* links                             *)
          pub, msg, hello             (* packets                           *)

MCMembers == (ble :> {b1, b2}) @@ (trunk :> {b1, b2}) @@ (ble23 :> {b2, b3})
               @@ (access :> {b1, ph})

\* A public packet of the phone, a message to a phone that is out of range and
\* an undirected handshake.
MCOrigin == (pub :> ph) @@ (msg :> b3) @@ (hello :> b3)
MCDest   == (pub :> Everyone) @@ (msg :> away) @@ (hello :> Everyone)
MCType   == (pub :> "public") @@ (msg :> "message") @@ (hello :> "handshake")
=============================================================================
