-------------------------- MODULE EvictionMonitor --------------------------
(***************************************************************************)
(* The eviction monitor: after every fetch the filler of a pipelined task  *)
(* records how many items it took and how many it left, and lambda, the    *)
(* ratio of what was evicted to what was generated, is computed from a     *)
(* window of these records.                                                *)
(***************************************************************************)
EXTENDS Integers, Sequences

CONSTANTS
    MaxLength,   \* records in the window
    FetchSize,   \* items a fetch takes at most
    MaxItems     \* items SDKs generate (a bound of the model)

ASSUME MonitorAssumption == {MaxLength, FetchSize} \subseteq Nat \ {0} /\ MaxItems \in Nat

VARIABLES
    inRedis,       \* items in Redis
    generated,     \* history: items generated
    taken,         \* the result of a fetch that is not recorded yet
    flushingStats, \* the window; each record with the items generated before its fetch
    lambda         \* numerator and denominator

monitorVars == <<inRedis, generated, taken, flushingStats, lambda>>

FlushRecord == [flushed : Nat, left : Nat, before : Nat]
Idle == [flushed |-> 0, left |-> 0, before |-> MaxItems + 1]

MonitorTypeOK ==
    /\ inRedis \in 0..MaxItems /\ generated \in 0..MaxItems
    /\ taken \in FlushRecord
    /\ flushingStats \in Seq(FlushRecord) /\ Len(flushingStats) <= MaxLength
    /\ lambda \in Int \X Int

MonitorInit ==
    /\ inRedis = 0 /\ generated = 0 /\ taken = Idle /\ flushingStats = <<>>
    /\ lambda = <<1, 1>>

Generate ==
    /\ generated < MaxItems
    /\ generated' = generated + 1
    /\ inRedis' = inRedis + 1
    /\ UNCHANGED <<taken, flushingStats, lambda>>

\* PopNRaw: the items and how many are left.
FetchItems ==
    LET n == IF inRedis < FetchSize THEN inRedis ELSE FetchSize IN
    /\ taken = Idle
    /\ taken' = [flushed |-> n, left |-> inRedis - n, before |-> generated]
    /\ inRedis' = inRedis - n
    /\ UNCHANGED <<generated, flushingStats, lambda>>

\* calculateAmountFlushed: the loop over the records.
Flushed(w) ==
    LET sum[n \in 0..Len(w)] == IF n = 0 THEN 0 ELSE sum[n - 1] + w[n].flushed
    IN  sum[Len(w)]

\* Mutant: what is left now is subtracted from what was left then.
CalculateLambdaReversed(w) ==
    LET t == Flushed(w)
        g == w[1].left - w[Len(w)].left + t
    IN  IF g = 0 THEN <<1, 1>> ELSE <<t, g>>

\* calculateLambda
CalculateLambda(w) ==
    LET t == Flushed(w)
        g == w[Len(w)].left - w[1].left + t
    IN  IF g = 0 THEN <<1, 1>> ELSE <<t, g>>

\* A full window loses its oldest record.
Shifted(w) == IF Len(w) >= MaxLength THEN Tail(w) ELSE w

\* StoreDataFlushed
StoreDataFlushed ==
    LET w == Append(Shifted(flushingStats), taken) IN
    /\ taken # Idle
    /\ flushingStats' = w
    /\ lambda' = CalculateLambda(w)
    /\ taken' = Idle
    /\ UNCHANGED <<inRedis, generated>>

MonitorNext == Generate \/ FetchItems \/ StoreDataFlushed

MonitorSpec == MonitorInit /\ [][MonitorNext]_monitorVars

-----------------------------------------------------------------------------
\* Lambda is below one exactly when, from the first fetch of the window to the last, SDKs
\* generated more than the fetches after the first one evicted; and it is never negative
\* (evcalc.go:99, whose sum has the first fetch too, which the sizes do not see).
LambdaTellsBacklog ==
    LET w == flushingStats
        grew == w[Len(w)].before - w[1].before > Flushed(Tail(w))
    IN  /\ MonitorTypeOK
        /\ w # <<>> => /\ lambda[1] >= 0 /\ lambda[2] > 0
                       /\ lambda[1] < lambda[2] <=> grew
=============================================================================
