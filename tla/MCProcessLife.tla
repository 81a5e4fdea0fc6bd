--------------------------- MODULE MCProcessLife ---------------------------
(* Values for checking ProcessLife and ServiceHealth on small instances.   *)
(* The two share no variable, so each is explored with the other at rest.  *)
EXTENDS ProcessLife, ServiceHealth

CONSTANT Request
VARIABLE part

MCAdmins == {Request}
MCWriters == {Starter, SignalHandler, Request}
MCServices == {"sdk", "events"}
MCSeverity == [s \in MCServices |-> IF s = "sdk" THEN "critical" ELSE "degraded"]

MCInit ==
    /\ Init /\ ServicesInit
    /\ part \in {"process", "services"}
    /\ part = "services" => mode = "producer"

MCNext ==
    /\ UNCHANGED part
    /\ \/ part = "process" /\ Next /\ UNCHANGED servicesVars
       \/ part = "services" /\ ServicesNext /\ UNCHANGED vars

MCSpec == MCInit /\ [][MCNext]_<<vars, servicesVars, part>> /\ Fairness
=============================================================================
