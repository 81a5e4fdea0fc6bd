----------------------------- MODULE Evacuation -----------------------------
(***************************************************************************)
(* What the pipeline promises about records: each leaves Redis once, is in *)
(* the pipe until it is delivered or reported as dropped, never both, and  *)
(* the pipe is empty once the task has stopped.                            *)
(***************************************************************************)
EXTENDS FiniteSets

CONSTANT Items

VARIABLES queue, inPipe, delivered, dropped, stopped

vars == <<queue, inPipe, delivered, dropped, stopped>>

Init ==
    /\ queue = Items
    /\ inPipe = {} /\ delivered = {} /\ dropped = {}
    /\ stopped = FALSE

\* Records are fetched.
Take(S) ==
    /\ ~stopped
    /\ S # {} /\ S \subseteq queue
    /\ queue' = queue \ S
    /\ inPipe' = inPipe \cup S
    /\ UNCHANGED <<delivered, dropped, stopped>>

\* Records are acknowledged by the backend.
Confirm(S) ==
    /\ S # {} /\ S \subseteq inPipe
    /\ inPipe' = inPipe \ S
    /\ delivered' = delivered \cup S
    /\ UNCHANGED <<queue, dropped, stopped>>

\* Records are given up on.
GiveUp(S) ==
    /\ S # {} /\ S \subseteq inPipe
    /\ inPipe' = inPipe \ S
    /\ dropped' = dropped \cup S
    /\ UNCHANGED <<queue, delivered, stopped>>

Stop ==
    /\ ~stopped
    /\ inPipe = {}
    /\ stopped' = TRUE
    /\ UNCHANGED <<queue, inPipe, delivered, dropped>>

Next == Stop \/ \E S \in SUBSET (queue \cup inPipe) : Take(S) \/ Confirm(S) \/ GiveUp(S)

Spec == Init /\ [][Next]_vars
=============================================================================
