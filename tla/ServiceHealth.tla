--------------------------- MODULE ServiceHealth ----------------------------
(***************************************************************************)
(* The services health monitor: a counter per service judges the last hits *)
(* by the percentage of successes, and the overall status goes by the      *)
(* severity of what is down.  A hit is a status code; times are the number *)
(* of the hit they were taken at.                                          *)
(***************************************************************************)
EXTENDS Naturals, Sequences, FiniteSets

CONSTANTS
    Services,       \* services that are asked
    Severity,       \* how bad it is when one of them fails
    MaxLen,         \* maxLen of the counter
    Percentage,     \* percentageToBeHealthy
    MaxHits         \* how often a service is asked (a bound of the model)

ASSUME WindowAssumption ==
    /\ MaxLen \in Nat \ {0} /\ Percentage \in 0..100 /\ MaxHits \in Nat
    /\ Severity \in [Services -> {"critical", "degraded", "low"}]

VARIABLES
    counters,       \* the counter of each service
    history         \* history: all hits of each service

servicesVars == <<counters, history>>

Codes == {200, 500}

NewServiceCounter == [cache |-> <<>>, healthy |-> TRUE, since |-> 0, message |-> 0, hits |-> 0]

Successes(cache) == Cardinality({i \in DOMAIN cache : cache[i] = 200})

\* Integer division, as in the code.
PercentageOk(cache) == (Successes(cache) * 100) \div Len(cache)

\* since and message are 0 while the code's fields are nil or empty; both name a
\* hit, counted from 1. A counter starts out healthy since before the first.
CalculateHealthy(c) ==
    LET isHealthy == PercentageOk(c.cache) >= Percentage IN
    [c EXCEPT !.healthy = isHealthy,
              !.since = IF isHealthy /\ ~c.healthy THEN c.hits ELSE IF isHealthy THEN @ ELSE 0,
              !.message = IF isHealthy /\ ~c.healthy THEN 0 ELSE @]

\* Mutant: the window is cut after the new hit came in, from the wrong end.
ServiceHitKeepsOldest(c, code) ==
    CalculateHealthy(
        [c EXCEPT !.cache = IF Len(@) = MaxLen THEN @ ELSE Append(@, code),
                  !.message = IF code = 200 THEN @ ELSE c.hits + 1,
                  !.hits = @ + 1])

\* NotifyHit: the oldest hit leaves a full window.
ServiceHit(c, code) ==
    CalculateHealthy(
        [c EXCEPT !.cache = Append(IF Len(@) = MaxLen THEN Tail(@) ELSE @, code),
                  !.message = IF code = 200 THEN @ ELSE c.hits + 1,
                  !.hits = @ + 1])

\* GetHealthStatus: a service that is critical counts before one that is degraded,
\* and others do not count.
Down(severity) == {s \in Services : ~counters[s].healthy /\ Severity[s] = severity}
OverallStatus ==
    IF Down("critical") # {} THEN "down" ELSE IF Down("degraded") # {} THEN "degraded" ELSE "healthy"

\* The task of the monitor asks a service: the answer's code is a hit of its counter.
NotifyServiceHit(s, code) ==
    /\ Len(history[s]) < MaxHits
    /\ counters' = [counters EXCEPT ![s] = ServiceHit(@, code)]
    /\ history' = [history EXCEPT ![s] = Append(@, code)]

ServicesInit ==
    /\ counters = [s \in Services |-> NewServiceCounter]
    /\ history = [s \in Services |-> <<>>]

ServicesNext == \E s \in Services, code \in Codes : NotifyServiceHit(s, code)

ServicesSpec == ServicesInit /\ [][ServicesNext]_servicesVars

-----------------------------------------------------------------------------
\* Whether the last hits up to the i-th suffice, counted from the whole history.
GoodAt(h, i) ==
    LET from == IF i > MaxLen THEN i - MaxLen + 1 ELSE 1
        good == {j \in from..i : h[j] = 200}
    IN  100 * Cardinality(good) >= Percentage * (i - from + 1)

\* A counter is healthy exactly when enough of the last MaxLen hits succeeded
\* (bypercentage.go); healthySince is then the hit that made it so, and an
\* unhealthy counter shows the message of the last hit that failed. All is well, or
\* the worst that is wrong is told, according to those hits.
WindowIsExact ==
    /\ \A s \in Services :
          LET h == history[s]
              n == Len(h)
              c == counters[s]
              bad == {i \in 1..n : ~GoodAt(h, i)}
          IN  n > 0 =>
              /\ c.healthy <=> GoodAt(h, n)
              /\ c.healthy => c.since = (IF bad = {} THEN 0
                                         ELSE (CHOOSE i \in bad : \A j \in bad : j <= i) + 1)
              /\ ~c.healthy => /\ h[c.message] # 200
                               /\ \A j \in c.message + 1 .. n : h[j] = 200
    /\ LET bad == {s \in Services : history[s] # <<>> /\ ~GoodAt(history[s], Len(history[s]))}
       IN  /\ OverallStatus = "down" <=> \E s \in bad : Severity[s] = "critical"
           /\ OverallStatus = "healthy" <=> \A s \in bad : Severity[s] = "low"
=============================================================================
