----------------------------- MODULE ClientSlot ------------------------------
(***************************************************************************)
(* What a server that talks to one client at a time promises: it listens   *)
(* to nobody else from the moment it took a client in until that client    *)
(* has gone, or the server itself stops.                                   *)
(***************************************************************************)
CONSTANT Clients

VARIABLES
    running,  \* does the server run?
    serving,  \* the clients it listens to
    left      \* the clients that have closed their end

vars == <<running, serving, left>>

Init == ~running /\ serving = {} /\ left \subseteq Clients

Start == ~running /\ running' /\ UNCHANGED <<serving, left>>

Take ==
    /\ running /\ serving = {}
    /\ \E c \in Clients : serving' = {c}
    /\ UNCHANGED running
    /\ left' \subseteq Clients

Release ==
    /\ running
    /\ serving # {} /\ serving \subseteq left
    /\ serving' = {}
    /\ UNCHANGED <<running, left>>

Leave == left' \subseteq Clients /\ left \subseteq left' /\ UNCHANGED <<running, serving>>

Stop ==
    /\ ~running' /\ serving' = {}
    /\ left' \subseteq Clients

Next == Start \/ Take \/ Release \/ Leave \/ Stop
Spec == Init /\ [][Next]_vars
=============================================================================
