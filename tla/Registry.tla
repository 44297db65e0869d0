------------------------------ MODULE Registry ------------------------------
(***************************************************************************)
(* What the gateway promises a client about device identifiers: once a     *)
(* device has one, it keeps it, and nobody else gets it -- while the       *)
(* gateway runs, and from one run to the next unless it may forget.        *)
(***************************************************************************)
CONSTANTS
    Ids,
    Devices,
    MayForget  \* may a run begin with nothing installed?

VARIABLES
    owner,    \* pairs of an identifier and the device that has it
    running

vars == <<owner, running>>

Init == owner = {} /\ running = TRUE

\* The gateway may stop as it stores the device.
Install(id, device) ==
    /\ running
    /\ \A pair \in owner : pair[1] # id /\ pair[2] # device
    /\ owner' = owner \cup {<<id, device>>}
    /\ running' \in BOOLEAN

Stop ==
    /\ running
    /\ running' = FALSE
    /\ UNCHANGED owner

Start ==
    /\ ~running
    /\ running' = TRUE
    /\ UNCHANGED owner \/ (MayForget /\ owner' = {})

Next == (\E id \in Ids, device \in Devices : Install(id, device)) \/ Stop \/ Start

Spec == Init /\ [][Next]_vars
=============================================================================
