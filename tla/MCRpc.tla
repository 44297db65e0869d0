------------------------------- MODULE MCRpc ---------------------------------
(***************************************************************************)
(* Instances of Rpc for TLC: bytes of two bits, of which one value is the  *)
(* start of a frame and a length, a command or a piece of data as well,    *)
(* and frames short enough, or too long, for the counter of the log.       *)
(***************************************************************************)
EXTENDS Rpc

Two == {0, 1}
Plain    == [cmd0 |-> {0}, cmd1 |-> {}, data |-> <<>>]
Status   == [cmd0 |-> {1}, cmd1 |-> {1}, data |-> <<{}, {1}>>]
TooLong  == [cmd0 |-> {}, cmd1 |-> {0}, data |-> <<{}, {1}, {}>>]
Some     == {Plain, Status, TooLong}

\* A longer byte, and a frame with no start byte but its first.
Three == {0, 1, 2}
Clear == {[cmd0 |-> {0}, cmd1 |-> {}, data |-> <<{}, {2}>>]}

AllFaults == FaultKinds
Pieces    == {"slow"}
=============================================================================
