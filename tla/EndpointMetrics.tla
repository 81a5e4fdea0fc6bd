-------------------------- MODULE EndpointMetrics --------------------------
(***************************************************************************)
(* Metrics of the proxy's endpoints: every request is counted by its       *)
(* latency and by its status, in totals and in the slice of the time it    *)
(* ends in; only so many slices are kept.  Requests end at the same time,  *)
(* and each keeps a reference to its slice between two steps.  A counter   *)
(* is the set of the requests counted in it.                               *)
(***************************************************************************)
EXTENDS Naturals, FiniteSets

CONSTANTS
    Requests,    \* requests that are being handled
    Endpoints,   \* kinds of endpoints
    MaxSlices,   \* maxTimeSlices
    MaxTime      \* the last time slice (a bound of the model)

ASSUME MetricsAssumption == MaxSlices \in Nat \ {0} /\ MaxTime \in Nat

Kinds == {"latency", "status"}
Times == 0..MaxTime
None == "none"           \* no field

VARIABLES
    now,         \* the time slice it is
    slices,      \* the keys of telemetryByTimeSlice
    totals,      \* records of the global counters
    sliced,      \* records of the slices
    track,       \* where each request is in Track
    seen,        \* history: slices ever asked for
    counted      \* history: records ever made for a slice

metricsVars == <<now, slices, totals, sliced, track, seen, counted>>

Record == [kind : Kinds, field : Endpoints, request : Requests]
SlicedRecord == [kind : Kinds, field : Endpoints, request : Requests, slice : Times]

MetricsTypeOK ==
    /\ now \in Times
    /\ slices \subseteq Times /\ Cardinality(slices) <= MaxSlices
    /\ totals \subseteq Record /\ sliced \subseteq SlicedRecord
    /\ track \in [Requests -> [at : {"handler", "clock", "slice", "put", "done"}, kind : Kinds,
                               endpoint : Endpoints, slice : Times, kept : BOOLEAN]]
    /\ seen \subseteq Times /\ counted \subseteq SlicedRecord

MetricsInit ==
    /\ now = 0 /\ slices = {} /\ seen = {} /\ counted = {}
    /\ totals = {} /\ sliced = {}
    /\ track \in [Requests -> {[at |-> "handler", kind |-> "latency", endpoint |-> e,
                                slice |-> 0, kept |-> TRUE] : e \in Endpoints}]

-----------------------------------------------------------------------------
\* The field an endpoint is counted in: two are swapped for latencies.
Field(kind, e) ==
    IF kind = "latency" /\ e = "telemetryConfig" THEN "telemetryRuntime"
    ELSE IF kind = "latency" /\ e = "telemetryRuntime" THEN "telemetryConfig"
    ELSE e

\* The field the report of a slice shows for an endpoint: the status codes of three
\* are taken from another.
ReportedField(kind, e) ==
    IF kind = "status" /\ e \in {"telemetryKeysClientSide", "telemetryKeysClientSideBeacon",
                                 "telemetryKeysServerSide"}
    THEN "telemetryRuntime" ELSE e

\* TimeslicedReport, for one slice.
Reported(kind, e, k) ==
    {x.request : x \in {y \in sliced : y.kind = kind /\ y.slice = k
                                        /\ y.field = ReportedField(kind, e)}}

-----------------------------------------------------------------------------
Tick ==
    /\ now < MaxTime
    /\ now' = now + 1
    /\ UNCHANGED <<slices, totals, sliced, track, seen, counted>>

\* RecordEndpointLatency or IncrEndpointStatus: the global counter, and the clock is
\* read. Latencies are the first half of Track, after the handler.
CountTotal(r) ==
    LET t == track[r] IN
    /\ t.at \in {"handler", "clock"}
    /\ totals' = totals \cup {x \in Record : x.kind = t.kind /\ x.field = Field(t.kind, t.endpoint)
                                            /\ x.request = r}
    /\ track' = [track EXCEPT ![r].at = "slice", ![r].slice = now]
    /\ UNCHANGED <<now, slices, sliced, seen, counted>>

\* unsafeRollover.
Kept(keys) == {k \in keys : Cardinality({j \in keys : j > k}) < MaxSlices}

\* Mutant: a slice that is older than the others is kept when there is none of it.
GetSliceKeepOwn(r) ==
    LET k == track[r].slice
        keys == IF k \in slices THEN slices ELSE {k} \cup Kept(slices)
    IN  /\ track[r].at = "slice"
        /\ slices' = keys
        /\ sliced' = {x \in sliced : x.slice \in keys}
        /\ seen' = seen \cup {k}
        /\ track' = [q \in Requests |->
                        IF q = r THEN [track[r] EXCEPT !.at = "put", !.kept = k \in keys]
                        ELSE [track[q] EXCEPT !.kept = @ /\ track[q].slice \in keys]]
        /\ UNCHANGED <<now, totals, counted>>

\* geHistoricForTS: the slice is made if need be, and may itself be the one that the
\* rollover drops; who holds a slice that was dropped keeps it.
GetSlice(r) ==
    LET k == track[r].slice
        keys == Kept(slices \cup {k})
    IN  /\ track[r].at = "slice"
        /\ slices' = keys
        /\ sliced' = {x \in sliced : x.slice \in keys}
        /\ seen' = seen \cup {k}
        /\ track' = [q \in Requests |->
                        IF q = r THEN [track[r] EXCEPT !.at = "put", !.kept = k \in keys]
                        ELSE [track[q] EXCEPT !.kept = @ /\ track[q].slice \in keys]]
        /\ UNCHANGED <<now, totals, counted>>

\* The record goes to the slice that was handed out, which may no longer be reported.
Put(r) ==
    LET t == track[r]
        new == {x \in SlicedRecord : x.kind = t.kind /\ x.field = Field(t.kind, t.endpoint)
                                     /\ x.request = r /\ x.slice = t.slice}
    IN  /\ t.at = "put"
        /\ sliced' = IF t.kept THEN sliced \cup new ELSE sliced
        /\ counted' = counted \cup new
        /\ track' = [track EXCEPT ![r].at = IF t.kind = "latency" THEN "clock" ELSE "done",
                                  ![r].kind = "status", ![r].kept = TRUE]
        /\ UNCHANGED <<now, slices, totals, seen>>

Metrics == Tick \/ \E r \in Requests : CountTotal(r) \/ GetSlice(r) \/ Put(r)

MetricsSpec == MetricsInit /\ [][Metrics]_metricsVars

-----------------------------------------------------------------------------
\* The slices that are kept are the newest there ever were (unsafeRollover), even
\* when requests that read the clock long ago come late; and a slice that is kept has
\* all the requests that were counted for it: a record can get lost in a slice that
\* nobody reports, but not one of a slice that is reported.
SlicesAreSound ==
    /\ MetricsTypeOK
    /\ slices \subseteq seen
    /\ \A j \in seen \ slices, k \in slices : j < k
    /\ Cardinality(slices) < MaxSlices => slices = seen
    /\ \A x \in counted : x.slice \in slices => x \in sliced

\* "records a (bucketed) latency for a specific endpoint" (telemetry.go:242), and
\* "ForResource bundles latencies & status code for a specific timeslice"
\* (telemetryts.go:164): what a report shows for an endpoint are its own requests.
ReportsOwnRequests ==
    \A k \in slices, e \in Endpoints, kind \in Kinds :
        \A r \in Reported(kind, e, k) : track[r].endpoint = e
=============================================================================
