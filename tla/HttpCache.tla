----------------------------- MODULE HttpCache -----------------------------
(***************************************************************************)
(* The proxy's HTTP cache, as far as segments fill it: which requests have *)
(* an entry of their own, under which surrogates, and which entries an     *)
(* eviction takes out.                                                     *)
(*                                                                         *)
(*   proxy/caching/caching.go                                              *)
(*                                                                         *)
(* The container itself is gincache (external): a bounded table from       *)
(* request to answer that an entry leaves when room is needed.  Requests   *)
(* that ask for gzip have entries of their own: those of mySegments are    *)
(* named one by one when they are evicted, the others go with their        *)
(* surrogate whatever their encoding, so that one encoding stands for both.*)
(***************************************************************************)
EXTENDS Integers, FiniteSets

CONSTANTS Segments,  \* names of segments
          Keys,      \* user keys
          MaxCN,     \* bound: the last change number the backend publishes
          CacheSize  \* entries the cache has room for

SegmentChangesRequest == [kind : {"segmentChanges"}, name : Segments, since : -1..MaxCN]
MySegmentsRequest == [kind : {"mySegments"}, key : Keys, gzip : BOOLEAN]
MembershipsRequest == [kind : {"memberships"}, key : Keys]

Request == SegmentChangesRequest \cup MySegmentsRequest \cup MembershipsRequest

SegmentSurrogate(s) == <<"se", s>>
MembershipsSurrogate == <<"mem">>

\* Mutant of SurrogatesOf: /segmentChanges sets no surrogate.
SurrogatesOfMembershipsOnly(r) ==
    IF r.kind = "memberships" THEN { MembershipsSurrogate } ELSE {}

\* What a handler leaves in the request's context for the cache to file the
\* answer under; mySegments entries are evicted by name instead.
SurrogatesOf(r) ==
    CASE r.kind = "segmentChanges" -> { SegmentSurrogate(r.name) }
      [] r.kind = "memberships"    -> { MembershipsSurrogate }
      [] r.kind = "mySegments"     -> {}

\* Both entries of a key, by name.
MySegmentsEntries(k) == { [kind |-> "mySegments", key |-> k, gzip |-> zip] : zip \in BOOLEAN }

\* The caches that storing entry e may lead to: e takes the place of the answer
\* to the same request, or of any other one when there is no room left.
Stored(cache, e) ==
    LET others == { x \in cache : x.req # e.req }
    IN  IF Cardinality(others) < CacheSize THEN { others \cup {e} }
        ELSE { (others \ {x}) \cup {e} : x \in others }
=============================================================================
