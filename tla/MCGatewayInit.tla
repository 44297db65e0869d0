---------------------------- MODULE MCGatewayInit ----------------------------
(***************************************************************************)
(* Instances of GatewayInit for TLC.                                       *)
(***************************************************************************)
EXTENDS GatewayInit

Interference == FaultKinds \ {"crash"}
Kills        == {"crash"}
=============================================================================
