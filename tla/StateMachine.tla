---------------------------- MODULE StateMachine ----------------------------
(***************************************************************************)
(* The table-driven state machine of src/utils/sm.c, shared by the         *)
(* touchlink procedure (zll.c) and by the learning of a new device         *)
(* (core.c).                                                               *)
(*                                                                         *)
(* A table is a set of triples <<state, event, new state>>.  Sending an    *)
(* event to a machine moves it along the triple that matches, and leaves   *)
(* it where it is when none does; in BOTH cases the code then runs the     *)
(* entry function of the state the machine is in, so an event nobody       *)
(* expects makes the current state act once more.                          *)
(***************************************************************************)

\* The triples of a table that an event selects in a state.
Matches(table, state, event) == {t \in table : t[1] = state /\ t[2] = event}

\* The state a machine is in once zg_sm_send_event has looked its table up.
StateAfter(table, state, event) ==
    IF Matches(table, state, event) = {}
      THEN state
      ELSE (CHOOSE t \in Matches(table, state, event) : TRUE)[3]

\* The lookup takes the first match; the tables of the program have one at
\* most, which is what makes "first" irrelevant.
Deterministic(table) ==
    \A t, u \in table : t[1] = u[1] /\ t[2] = u[2] => t = u
=============================================================================
