-------------------------- MODULE MCSegmentServing --------------------------
(***************************************************************************)
(* SegmentServing on small instances.                                      *)
(***************************************************************************)
EXTENDS SegmentServing

\* The synchronizer polls or is notified and its goroutine is scheduled; a
\* handler ends; the SDK polls.  Requests share one slot in the model only, so
\* that the SDK must get it in the end although others may take it in between.
Poll(s) == Hit(s) \/ Handle(PollOf(s), TRUE)

FairSpec == /\ Spec
            /\ \A s \in Segments : WF_vars(SynchronizeSegment(s)) /\ SF_vars(Poll(s))
            /\ WF_vars(Respond)

\* An SDK that polls ends up with the backend's keys (workers.go, segments.go
\* Update, sdk.go SegmentChanges), unless an answer filed late is in the cache
\* for good, and but for keys that left the segment while no process was there
\* to see it.
Converges ==
    <>[](\A s \in Segments :
            \/ /\ Members(s, Len(log[s])) \subseteq view[s]
               /\ \A k \in view[s] \ Members(s, Len(log[s])) : Forgotten(s, k)
            \/ \E e \in cache : e.late /\ e.req = PollOf(s))
=============================================================================
