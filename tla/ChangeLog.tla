----------------------------- MODULE ChangeLog -----------------------------
(***************************************************************************)
(* The backend's history of feature flags, seen from the synchronizer.     *)
(* External code: the backend gives every change the next change number    *)
(* (CN); what a CN stands for never changes afterwards.                    *)
(***************************************************************************)
EXTENDS Integers, Sequences

CONSTANTS Flags,  \* names of feature flags
          MaxCN   \* bound: the last change number the backend publishes

Change == [name : Flags, active : BOOLEAN]

\* The change numbers up to cn at which flag f changed.
ChangesOf(log, f, cn) == { n \in 1..cn : log[n].name = f }

\* The last of them, 0 when the flag did not exist yet.
LatestCN(log, f, cn) ==
    IF ChangesOf(log, f, cn) = {} THEN 0
    ELSE CHOOSE n \in ChangesOf(log, f, cn) : \A m \in ChangesOf(log, f, cn) : m <= n

\* The version of f that is being served at cn: the CN of its last change if
\* that left it active, 0 if it is archived or unknown.
Served(log, f, cn) ==
    LET n == LatestCN(log, f, cn)
    IN  IF n > 0 /\ log[n].active THEN n ELSE 0

\* A client at change number t that holds w misses nothing: w reflects every
\* flag whose last change is at or below t.
Complete(log, t, w) ==
    \A f \in Flags :
        LET n == LatestCN(log, f, Len(log))
        IN  n > 0 /\ n <= t => w[f] = Served(log, f, Len(log))

\* The flags a fetch from since brings: the last CN of each flag that changed
\* afterwards, only those of active flags when fetching from scratch.
ChangedSince(log, since) ==
    { n \in { LatestCN(log, f, Len(log)) : f \in Flags } :
        n > 0 /\ n > since /\ (since = -1 => log[n].active) }
=============================================================================
