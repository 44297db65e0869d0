---------------------------- MODULE FrameChannel -----------------------------
(***************************************************************************)
(* What a serial link that frames its messages promises the reader: as     *)
(* long as it is in step, frames come in the order they were sent, each    *)
(* once, and one that was damaged on the way is left out -- with what had  *)
(* arrived behind it.  Out of step anything may come, until a quiet moment *)
(* puts the reader in step again.                                          *)
(***************************************************************************)
EXTENDS Sequences

CONSTANTS
    Traffic,  \* the frames that are sent
    Forged,   \* all that a reader out of step may take for a frame
    Damaged   \* stands for a frame that was damaged

VARIABLES
    queue,    \* what is to come, while the reader is in step
    received, \* the frame dispatched last
    inStep

vars == <<queue, received, inStep>>

Init == queue = <<>> /\ received \notin Traffic /\ inStep \in BOOLEAN

Send(f) ==
    /\ queue' = IF inStep THEN Append(queue, f) ELSE queue
    /\ UNCHANGED <<received, inStep>>

Receive ==
    /\ inStep /\ queue # <<>>
    /\ Head(queue) \in Traffic
    /\ received' = Head(queue)
    /\ queue' = Tail(queue)
    /\ UNCHANGED inStep

Drop ==
    /\ inStep /\ queue # <<>>
    /\ Head(queue) = Damaged
    /\ queue' = <<>>
    /\ inStep' \in BOOLEAN
    /\ UNCHANGED received

\* Bytes are lost, or the reader is faster than they come; what it makes of the
\* frame then may be wrong.
LoseStep ==
    /\ ~inStep' /\ queue' = <<>>
    /\ UNCHANGED received \/ received' \in Forged

\* Out of step, until it is quiet.
Astray ==
    /\ ~inStep /\ queue' = <<>>
    /\ UNCHANGED received \/ received' \in Forged
    /\ inStep' \in BOOLEAN

Restart == queue' = <<>> /\ inStep' \in BOOLEAN /\ UNCHANGED received

Next ==
    \/ \E f \in Traffic \cup {Damaged} : Send(f)
    \/ Receive \/ Drop \/ LoseStep \/ Astray \/ Restart

Spec == Init /\ [][Next]_vars
=============================================================================
