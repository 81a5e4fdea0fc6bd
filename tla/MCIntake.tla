----------------------------- MODULE MCIntake ------------------------------
(* Values for checking Intake and EndpointMetrics on small instances. The  *)
(* two share no variable, so each is explored with the other at rest.      *)
EXTENDS Intake, EndpointMetrics

VARIABLE part

MCEndpoints == {"telemetryConfig", "telemetryRuntime"}

MCInit == Init /\ MetricsInit /\ part \in {"intake", "metrics"}

MCNext ==
    /\ UNCHANGED part
    /\ \/ part = "intake" /\ Next /\ UNCHANGED metricsVars
       \/ part = "metrics" /\ Metrics /\ UNCHANGED vars

MCSpec == MCInit /\ [][MCNext]_<<vars, metricsVars, part>> /\ Fairness
=============================================================================
