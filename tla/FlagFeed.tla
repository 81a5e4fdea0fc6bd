------------------------------ MODULE FlagFeed ------------------------------
(***************************************************************************)
(* What the proxy promises to one SDK: the `till` it hands out is never    *)
(* ahead of the data it hands out with it.  An SDK asks only for what      *)
(* changed after its own `since`, so a change at or below `till` that was  *)
(* left out of the answer is lost to that SDK for good.                    *)
(***************************************************************************)
EXTENDS ChangeLog

VARIABLES log,    \* changes published by the backend
          since,  \* the change number the SDK believes it is at (-1: none)
          view    \* view[f]: version of f the SDK holds, 0 when it holds none

vars == <<log, since, view>>

\* Versions in a view were published for that flag, as active.
Genuine(w) ==
    \A f \in Flags : w[f] # 0 =>
        w[f] \in 1..Len(log) /\ log[w[f]].name = f /\ log[w[f]].active

\* A version the SDK's since accounts for is replaced by a newer one or dropped.
\* One that came ahead of its till may be taken back: a kill applied locally is
\* undone by an older update that was already on its way.
NoOlder(w) == \A f \in Flags : w[f] = 0 \/ w[f] >= view[f] \/ view[f] > since

Init ==
    /\ log = <<>>
    /\ since = -1
    /\ view = [f \in Flags |-> 0]

Publish(change) ==
    /\ Len(log) < MaxCN
    /\ log' = Append(log, change)
    /\ UNCHANGED <<since, view>>

Deliver(t, w) ==
    /\ t >= since
    /\ Complete(log, t, w)
    /\ Genuine(w)
    /\ NoOlder(w)
    /\ since' = t
    /\ view' = w
    /\ UNCHANGED log

Next ==
    \/ \E change \in Change : Publish(change)
    \/ \E t \in -1..Len(log), w \in [Flags -> 0..Len(log)] : Deliver(t, w)

Spec == Init /\ [][Next]_vars

\* No change at or below the SDK's `since` is missing from what it holds.
NoLostUpdate == Complete(log, since, view)
=============================================================================
