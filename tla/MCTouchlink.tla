----------------------------- MODULE MCTouchlink -----------------------------
(***************************************************************************)
(* Instances of Touchlink for TLC.                                         *)
(***************************************************************************)
EXTENDS Touchlink

NoFault   == {}
AllFaults == FaultKinds
=============================================================================
