-------------------------- MODULE MCProducerData ---------------------------
(* Values for checking what the producer does with the data in Redis on    *)
(* small instances. Its parts share no variable, so each is explored with  *)
(* the others at rest.                                                     *)
EXTENDS SdkTelemetry, RedisOwner, ImpressionBatches, UniqueKeys, EvictionMonitor, ObservableStorage, TLC

VARIABLE part

MCCalls ==
    LET i == CHOOSE j \in Instances : TRUE
        C(j, k, known) == [of |-> j, kind |-> k, known |-> known]
    IN  {C(i, "latency", FALSE), C(i, "latency", TRUE)} \cup {C(CHOOSE j \in Instances : j # i, "exception", TRUE)}

\* Nothing tells these values apart, and no liveness is checked.
MCSymmetry == Permutations(Impressions) \cup Permutations(Buffers) \cup Permutations(BatchProcessors)

Parts == {"stats", "configs", "owner", "batches", "uniques", "eviction", "flags", "segments"}

\* The other parts start in their only initial state, or one of them.
MCInit ==
    /\ part \in Parts
    /\ TelemetryInit /\ OwnerInit /\ UniqueInit /\ MonitorInit
    /\ BatchInit /\ (part # "batches" => \A x, y \in Impressions : item[x] = item[y])
    /\ ObservableInit
    /\ part # "flags" => flagsInRedis = {}
    /\ part # "segments" => \A s \in SegmentNames : keysInRedis[s] = {}

MCNext ==
    \/ /\ part = "stats" /\ (TelemetryTask \/ \E c \in Calls : Call(c))
       /\ UNCHANGED <<part, ownerVars, batchVars, uniqueVars, monitorVars, observableVars>>
    \/ /\ part = "configs" /\ (TelemetryTask \/ \E i \in Instances : Configure(i))
       /\ UNCHANGED <<part, ownerVars, batchVars, uniqueVars, monitorVars, observableVars>>
    \/ /\ part = "owner" /\ OwnerNext
       /\ UNCHANGED <<part, telemetryVars, batchVars, uniqueVars, monitorVars, observableVars>>
    \/ /\ part = "batches" /\ BatchNext
       /\ UNCHANGED <<part, telemetryVars, ownerVars, uniqueVars, monitorVars, observableVars>>
    \/ /\ part = "uniques" /\ UniqueNext
       /\ UNCHANGED <<part, telemetryVars, ownerVars, batchVars, monitorVars, observableVars>>
    \/ /\ part = "eviction" /\ MonitorNext
       /\ UNCHANGED <<part, telemetryVars, ownerVars, batchVars, uniqueVars, observableVars>>
    \/ /\ \/ part = "flags" /\ ObserveFlags
          \/ part = "segments" /\ ObserveSegments
       /\ UNCHANGED <<part, telemetryVars, ownerVars, batchVars, uniqueVars, monitorVars>>

MCSpec ==
    MCInit /\ [][MCNext]_<<part, telemetryVars, ownerVars, batchVars, uniqueVars, monitorVars, observableVars>>
=============================================================================
