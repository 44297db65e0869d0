---------------------------- MODULE MCInterfaces -----------------------------
(***************************************************************************)
(* Instances of Interfaces for TLC.                                        *)
(***************************************************************************)
EXTENDS Interfaces

AllFaults == FaultKinds
NoFault   == {}
=============================================================================
