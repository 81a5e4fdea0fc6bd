--------------------------- MODULE PipelinedTask ---------------------------
(***************************************************************************)
(* The producer's data eviction pipeline (producer/task/pipelined.go):     *)
(*                                                                         *)
(*   Redis -> filler -> inputBuffer -> processors -> preSubmitBuffer       *)
(*         -> sinkers -> backend                                           *)
(*                                                                         *)
(* Each goroutine is a process, each channel a bounded sequence that may   *)
(* be closed.  A record is an element of Items; a bulk is a set of them.   *)
(* Worker.Fetch removes what it returns from Redis, so a record lives in   *)
(* the pipe only, from the fetch until it is posted or given up on.        *)
(***************************************************************************)
EXTENDS Integers, Sequences, FiniteSets

CONSTANTS Items,             \* raw records in Redis
          Processors,        \* processing goroutines (processConcurrency)
          Sinkers,           \* posting goroutines (postConcurrency)
          FetchSize,         \* records Worker.Fetch asks for
          InputBufferSize,   \* capacity of inputBuffer, in bulks
          ProcessBatchSize,  \* records a processor accumulates
          SubmitBufferSize,  \* capacity of preSubmitBuffer (postConcurrency * 4)
          Attempts           \* posts per bulk (WithAttempts(3, ...))

ASSUME PipelineAssumption ==
    /\ FetchSize \in Nat \ {0} /\ ProcessBatchSize \in Nat \ {0}
    /\ InputBufferSize \in Nat \ {0} /\ SubmitBufferSize \in Nat \ {0}
    /\ Attempts \in Nat \ {0}
    /\ IsFiniteSet(Items)

VARIABLES
    queue,        \* records still in Redis
    running,      \* atomic flag
    shutdown,     \* the shutdown channel (capacity 1) holds a token
    stopPc,       \* the caller of Stop(true)
    fillPc, raw,  \* filler, and the bulk it just fetched
    input, inputClosed,
    procPc, batch, last,  \* processors: accumulated records; saw the channel closed
    submit, submitClosed,
    sinkPc, bulk, tries,  \* sinkers: bulk being posted; failed posts of it
    delivered,    \* records the backend acknowledged
    dropped       \* records left out on purpose or whose loss was logged

fillVars == <<fillPc, raw>>
procVars == <<procPc, batch, last>>
sinkVars == <<sinkPc, bulk, tries>>
inVars == <<input, inputClosed>>
outVars == <<submit, submitClosed>>
stopVars == <<running, shutdown, stopPc>>
endVars == <<delivered, dropped>>
vars == <<queue, stopVars, fillVars, inVars, procVars, outVars, sinkVars, endVars>>

Init ==
    /\ queue = Items
    /\ running = TRUE /\ shutdown = FALSE /\ stopPc = "idle"
    /\ fillPc = "test" /\ raw = {}
    /\ input = <<>> /\ inputClosed = FALSE
    /\ procPc = [p \in Processors |-> "collect"]
    /\ batch = [p \in Processors |-> {}]
    /\ last = [p \in Processors |-> FALSE]
    /\ submit = <<>> /\ submitClosed = FALSE
    /\ sinkPc = [s \in Sinkers |-> "receive"]
    /\ bulk = [s \in Sinkers |-> {}]
    /\ tries = [s \in Sinkers |-> 0]
    /\ delivered = {} /\ dropped = {}

-----------------------------------------------------------------------------
(* filler                                                                  *)

\* The loop condition.  Leaving the loop here closes nothing.
FillerTest ==
    /\ fillPc = "test"
    /\ fillPc' = IF running THEN "fetch" ELSE "done"
    /\ UNCHANGED <<queue, stopVars, raw, inVars, procVars, outVars, sinkVars, endVars>>

\* Worker.Fetch: what it returns is gone from Redis; nothing when Redis is
\* empty or fails.
Fetch(S) ==
    /\ fillPc = "fetch"
    /\ S \subseteq queue /\ Cardinality(S) <= FetchSize
    /\ raw' = S
    /\ queue' = queue \ S
    /\ fillPc' = IF S = {} THEN "select" ELSE "push"
    /\ UNCHANGED <<stopVars, inVars, procVars, outVars, sinkVars, endVars>>

\* Nothing fetched: wait for the timer...
SelectTimer ==
    /\ fillPc = "select"
    /\ fillPc' = "test"
    /\ UNCHANGED <<queue, stopVars, raw, inVars, procVars, outVars, sinkVars, endVars>>

\* ...or for the shutdown token, the only way the input buffer gets closed.
SelectShutdown ==
    /\ fillPc = "select"
    /\ shutdown
    /\ shutdown' = FALSE
    /\ inputClosed' = TRUE
    /\ fillPc' = "done"
    /\ UNCHANGED <<queue, running, stopPc, raw, input, procVars, outVars, sinkVars, endVars>>

\* Mutant of Push: a bulk that does not fit is forgotten silently.
PushSilent ==
    /\ fillPc = "push"
    /\ input' = IF Len(input) < InputBufferSize THEN Append(input, raw) ELSE input
    /\ raw' = {}
    /\ fillPc' = "test"
    /\ UNCHANGED <<queue, stopVars, inputClosed, procVars, outVars, sinkVars, endVars>>

\* Non-blocking send of the fetched bulk; dropped when the buffer is full.
Push ==
    /\ fillPc = "push"
    /\ \/ /\ Len(input) < InputBufferSize
          /\ input' = Append(input, raw)
          /\ UNCHANGED dropped
       \/ /\ Len(input) >= InputBufferSize
          /\ dropped' = dropped \cup raw
          /\ UNCHANGED input
    /\ raw' = {}
    /\ fillPc' = "test"
    /\ UNCHANGED <<queue, stopVars, inputClosed, procVars, outVars, sinkVars, delivered>>

Filler == FillerTest \/ (\E S \in SUBSET queue : Fetch(S)) \/ SelectTimer \/ SelectShutdown \/ Push

-----------------------------------------------------------------------------
(* processors                                                              *)

\* A bulk is taken from the input buffer; enough records end the accumulation.
Collect(p) ==
    /\ procPc[p] = "collect"
    /\ input # <<>>
    /\ input' = Tail(input)
    /\ batch' = [batch EXCEPT ![p] = @ \cup Head(input)]
    /\ procPc' = [procPc EXCEPT ![p] =
                    IF Cardinality(batch'[p]) >= ProcessBatchSize THEN "process" ELSE "collect"]
    /\ UNCHANGED <<queue, stopVars, fillVars, inputClosed, last, outVars, sinkVars, endVars>>

\* The input buffer is closed and empty: this is the last iteration.
CollectClosed(p) ==
    /\ procPc[p] = "collect"
    /\ input = <<>> /\ inputClosed
    /\ last' = [last EXCEPT ![p] = TRUE]
    /\ procPc' = [procPc EXCEPT ![p] = IF batch[p] = {} THEN "done" ELSE "process"]
    /\ UNCHANGED <<queue, stopVars, fillVars, inVars, batch, outVars, sinkVars, endVars>>

\* Mutant of AccumTimeout: the timer is heeded for full batches only.
AccumTimeoutWhenFull(p) ==
    /\ procPc[p] = "collect"
    /\ Cardinality(batch[p]) >= ProcessBatchSize
    /\ procPc' = [procPc EXCEPT ![p] = "process"]
    /\ UNCHANGED <<queue, stopVars, fillVars, inVars, batch, last, outVars, sinkVars, endVars>>

\* maxAccumWait elapsed with something accumulated.
AccumTimeout(p) ==
    /\ procPc[p] = "collect"
    /\ batch[p] # {}
    /\ procPc' = [procPc EXCEPT ![p] = "process"]
    /\ UNCHANGED <<queue, stopVars, fillVars, inVars, batch, last, outVars, sinkVars, endVars>>

\* Worker.Process is done with the records in S; the iteration ends with them all.
Consumed(p, S) ==
    /\ procPc[p] = "process"
    /\ S # {} /\ S \subseteq batch[p]
    /\ batch' = [batch EXCEPT ![p] = @ \ S]
    /\ procPc' = [procPc EXCEPT ![p] =
                    IF S # batch[p] THEN "process" ELSE IF last[p] THEN "done" ELSE "collect"]

\* Mutant of Emit: the sink is not bounded.
EmitUnbounded(p, S) ==
    /\ Consumed(p, S)
    /\ submit' = Append(submit, S)
    /\ UNCHANGED <<queue, stopVars, fillVars, inVars, last, submitClosed, sinkVars, endVars>>

\* Worker.Process makes a bulk of some of the records and sends it to the sink
\* (it blocks while the buffer is full).
Emit(p, S) ==
    /\ Consumed(p, S)
    /\ Len(submit) < SubmitBufferSize
    /\ submit' = Append(submit, S)
    /\ UNCHANGED <<queue, stopVars, fillVars, inVars, last, submitClosed, sinkVars, endVars>>

\* Worker.Process leaves out some of the records: those it cannot parse are
\* logged, the duplicates of others are counted.
Skip(p, S) ==
    /\ Consumed(p, S)
    /\ dropped' = dropped \cup S
    /\ UNCHANGED <<queue, stopVars, fillVars, inVars, last, outVars, sinkVars, delivered>>

\* Mutant of Close: the first processor to end closes the sink.
CloseFirst ==
    /\ ~submitClosed
    /\ \E p \in Processors : procPc[p] = "done"
    /\ submitClosed' = TRUE
    /\ UNCHANGED <<queue, stopVars, fillVars, inVars, procVars, submit, sinkVars, endVars>>

\* The goroutine that waits for the processors closes their output.
Close ==
    /\ ~submitClosed
    /\ \A p \in Processors : procPc[p] = "done"
    /\ submitClosed' = TRUE
    /\ UNCHANGED <<queue, stopVars, fillVars, inVars, procVars, submit, sinkVars, endVars>>

Processor(p) ==
    \/ Collect(p) \/ CollectClosed(p) \/ AccumTimeout(p)
    \/ \E S \in SUBSET batch[p] : Emit(p, S) \/ Skip(p, S)

-----------------------------------------------------------------------------
(* sinkers                                                                 *)

Receive(s) ==
    /\ sinkPc[s] = "receive"
    /\ submit # <<>>
    /\ submit' = Tail(submit)
    /\ bulk' = [bulk EXCEPT ![s] = Head(submit)]
    /\ tries' = [tries EXCEPT ![s] = 0]
    /\ sinkPc' = [sinkPc EXCEPT ![s] = "post"]
    /\ UNCHANGED <<queue, stopVars, fillVars, inVars, procVars, submitClosed, endVars>>

ReceiveClosed(s) ==
    /\ sinkPc[s] = "receive"
    /\ submit = <<>> /\ submitClosed
    /\ sinkPc' = [sinkPc EXCEPT ![s] = "done"]
    /\ UNCHANGED <<queue, stopVars, fillVars, inVars, procVars, outVars, bulk, tries, endVars>>

\* The bulk is recycled and the next one awaited.
Recycle(s) ==
    /\ bulk' = [bulk EXCEPT ![s] = {}]
    /\ sinkPc' = [sinkPc EXCEPT ![s] = "receive"]

PostOk(s) ==
    /\ sinkPc[s] = "post"
    /\ delivered' = delivered \cup bulk[s]
    /\ Recycle(s)
    /\ UNCHANGED <<queue, stopVars, fillVars, inVars, procVars, outVars, tries, dropped>>

\* A post fails; after the last attempt the error is logged and the bulk lost.
PostFail(s) ==
    /\ sinkPc[s] = "post"
    /\ \/ /\ tries[s] + 1 < Attempts
          /\ tries' = [tries EXCEPT ![s] = @ + 1]
          /\ UNCHANGED <<bulk, sinkPc, dropped>>
       \/ /\ tries[s] + 1 >= Attempts
          /\ dropped' = dropped \cup bulk[s]
          /\ Recycle(s)
          /\ UNCHANGED tries
    /\ UNCHANGED <<queue, stopVars, fillVars, inVars, procVars, outVars, delivered>>

Sinker(s) == Receive(s) \/ ReceiveClosed(s) \/ PostOk(s) \/ PostFail(s)

-----------------------------------------------------------------------------
(* Stop(true)                                                              *)

\* running.TestAndClear; a later call gets errTaskRunning and changes nothing.
StopClear ==
    /\ stopPc = "idle"
    /\ running
    /\ running' = FALSE
    /\ stopPc' = "signal"
    /\ UNCHANGED <<queue, shutdown, fillVars, inVars, procVars, outVars, sinkVars, endVars>>

StopSignal ==
    /\ stopPc = "signal"
    /\ ~shutdown
    /\ shutdown' = TRUE
    /\ stopPc' = "waiting"
    /\ UNCHANGED <<queue, running, fillVars, inVars, procVars, outVars, sinkVars, endVars>>

\* Mutant of AllDone: the sinkers are not waited for.
AllDoneButSinkers == fillPc = "done" /\ \A p \in Processors : procPc[p] = "done"

\* waiter counts the filler, the processors and the sinkers.
AllDone ==
    /\ fillPc = "done"
    /\ \A p \in Processors : procPc[p] = "done"
    /\ \A s \in Sinkers : sinkPc[s] = "done"

StopReturn ==
    /\ stopPc = "waiting"
    /\ AllDone
    /\ stopPc' = "returned"
    /\ UNCHANGED <<queue, running, shutdown, fillVars, inVars, procVars, outVars, sinkVars, endVars>>

Next ==
    \/ Filler
    \/ \E p \in Processors : Processor(p)
    \/ Close
    \/ \E s \in Sinkers : Sinker(s)
    \/ StopClear \/ StopSignal \/ StopReturn

Spec == Init /\ [][Next]_vars

\* Every goroutine is scheduled; timers fire and HTTP requests end (they have a
\* timeout).  Nothing obliges anyone to call Stop.
Fairness ==
    /\ WF_vars(Filler)
    /\ \A p \in Processors : WF_vars(Processor(p))
    /\ WF_vars(Close)
    /\ \A s \in Sinkers : WF_vars(Sinker(s))
    /\ WF_vars(StopSignal) /\ WF_vars(StopReturn)

FairSpec == Spec /\ Fairness

-----------------------------------------------------------------------------
(* Properties                                                              *)

\* Type invariant: the goroutines of pipelined.go and their bounded channels.
TypeOK ==
    /\ queue \subseteq Items
    /\ running \in BOOLEAN /\ shutdown \in BOOLEAN
    /\ stopPc \in {"idle", "signal", "waiting", "returned"}
    /\ fillPc \in {"test", "fetch", "select", "push", "done"}
    /\ raw \subseteq Items
    /\ input \in Seq(SUBSET Items) /\ inputClosed \in BOOLEAN
    /\ Len(input) <= InputBufferSize
    /\ procPc \in [Processors -> {"collect", "process", "done"}]
    /\ batch \in [Processors -> SUBSET Items]
    /\ last \in [Processors -> BOOLEAN]
    /\ submit \in Seq(SUBSET Items) /\ submitClosed \in BOOLEAN
    /\ Len(submit) <= SubmitBufferSize
    /\ sinkPc \in [Sinkers -> {"receive", "post", "done"}]
    /\ bulk \in [Sinkers -> SUBSET Items]
    /\ tries \in [Sinkers -> 0..Attempts - 1]
    /\ delivered \subseteq Items /\ dropped \subseteq Items

\* No goroutine can still send when a channel is closed: a send on a closed
\* channel panics and takes the whole synchronizer down (Start's closer
\* goroutine and filler's close).
NoSendOnClosed ==
    /\ inputClosed => fillPc = "done"
    /\ submitClosed => \A p \in Processors : procPc[p] = "done"

\* Nothing is left anywhere in the pipe.
Drained ==
    /\ raw = {} /\ input = <<>> /\ submit = <<>>
    /\ \A p \in Processors : batch[p] = {}
    /\ \A s \in Sinkers : bulk[s] = {}

\* pipelined.go:143 "Stop the task and drain the pipe": when a blocking Stop
\* returns, no fetched record is left behind in a buffer.
StopDrains == stopPc = "returned" => Drained

\* A fetched record is posted or its loss logged, however the buffers fill up,
\* batches are cut, posts fail and Stop interferes.
Settled == \A i \in Items : (i \notin queue) ~> (i \in delivered \cup dropped)

\* pipelined.go:143 "Stop the task and drain the pipe": a blocking Stop returns.
StopTerminates == (stopPc = "waiting") ~> (stopPc = "returned")
=============================================================================
