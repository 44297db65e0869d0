---------------------------- MODULE SecurityWindow ----------------------------
(***************************************************************************)
(* What a commissioning procedure promises the Zigbee network: security    *)
(* goes off only for a session that is under way, and the session does not *)
(* end (nobody is told it is "finished") before security is on again.      *)
(***************************************************************************)
VARIABLES
    session,  \* is a procedure under way?
    open      \* does the radio work without network security?

vars == <<session, open>>

Init == ~session /\ ~open

Begin == ~session /\ session' /\ UNCHANGED open
Open  == session /\ ~open /\ open' /\ UNCHANGED session
Close == session /\ open /\ ~open' /\ UNCHANGED session
End   == session /\ ~open /\ ~session' /\ UNCHANGED open

Next == Begin \/ Open \/ Close \/ End

Spec == Init /\ [][Next]_vars
=============================================================================
