------------------------ MODULE DeferredRecording --------------------------
(***************************************************************************)
(* Deferred recording of what SDKs post to the proxy: handlers stage bulks *)
(* in a bounded queue; a task empties it into the equally bounded queue of *)
(* a pool of workers, once per period or when the queue has become full;   *)
(* the workers post to the backend, once.  The proxy has seven of these,   *)
(* which share nothing; the module is one of them.                         *)
(***************************************************************************)
EXTENDS Naturals, Sequences, FiniteSets

CONSTANTS
    Bulks,       \* what SDKs post
    Workers,     \* goroutines of the worker pool
    QueueSize,   \* size of the queue, and of that of the pool
    Nothing      \* no bulk

ASSUME RecordingAssumption ==
    /\ Nothing \notin Bulks
    /\ QueueSize \in Nat \ {0}

VARIABLES
    queue,       \* staged bulks
    pool,        \* the queue of the pool
    worker,      \* the bulk each worker is posting
    task,        \* the goroutine of the task
    held,        \* the bulk it has taken from the queue and not handed over
    wakeup,      \* a wake-up is pending
    accepted,    \* history: bulks staged, in that order
    sent,        \* history: bulks posted to the backend, once, with or without success
    dropped,     \* history: bulks lost between the two queues
    crowded      \* history: more were once under way than one queue holds

recordingVars == <<queue, pool, worker, task, held, wakeup, accepted, sent, dropped, crowded>>

Ran(s) == {s[i] : i \in 1..Len(s)}
Held == {held} \ {Nothing}
Posting == {worker[w] : w \in Workers} \ {Nothing}
Settled == sent \cup dropped

RecordingTypeOK ==
    /\ queue \in Seq(Bulks) /\ Len(queue) <= QueueSize
    /\ pool \in Seq(Bulks) /\ Len(pool) <= QueueSize
    /\ worker \in [Workers -> Bulks \cup {Nothing}]
    /\ task \in {"idle", "draining", "stopped"}
    /\ held \in Bulks \cup {Nothing}
    /\ wakeup \in BOOLEAN
    /\ accepted \in Seq(Bulks)
    /\ sent \subseteq Bulks /\ dropped \subseteq Bulks
    /\ crowded \in BOOLEAN

RecordingInit ==
    /\ queue = <<>> /\ pool = <<>>
    /\ worker = [w \in Workers |-> Nothing]
    /\ task = "idle" /\ held = Nothing /\ wakeup = FALSE
    /\ accepted = <<>>
    /\ sent = {} /\ dropped = {} /\ crowded = FALSE

UnderWay == Cardinality(Ran(accepted) \ Settled)

-----------------------------------------------------------------------------
Full == Len(queue) = QueueSize

\* A full queue refuses, and the bulk that fills it wakes the task. Nobody asks
\* whether the task is still there.
Stage(b) ==
    /\ ~Full
    /\ queue' = Append(queue, b)
    /\ wakeup' = (wakeup \/ Len(queue') = QueueSize)
    /\ accepted' = Append(accepted, b)
    /\ crowded' = (crowded \/ UnderWay >= QueueSize)
    /\ UNCHANGED <<pool, worker, task, held, sent, dropped>>

\* Mutant: only wake-ups start a flush.
FlushOnWakeup ==
    /\ task = "idle" /\ wakeup
    /\ wakeup' = FALSE
    /\ task' = "draining"
    /\ UNCHANGED <<queue, pool, worker, held, accepted, sent, dropped, crowded>>

\* The period is over, or a wake-up came. The task is one goroutine, so the flag
\* that keeps a second flush out is never found set: "draining" stands for both.
Flush ==
    /\ task = "idle"
    /\ wakeup' \in {wakeup, FALSE}
    /\ task' = "draining"
    /\ UNCHANGED <<queue, pool, worker, held, accepted, sent, dropped, crowded>>

Take ==
    /\ task = "draining" /\ held = Nothing /\ queue # <<>>
    /\ held' = Head(queue)
    /\ queue' = Tail(queue)
    /\ UNCHANGED <<pool, worker, task, wakeup, accepted, sent, dropped, crowded>>

\* Mutant: the pool has room for less than the queue.
HandOverSmallPool ==
    /\ held # Nothing
    /\ held' = Nothing
    /\ \/ Len(pool) < QueueSize - 1 /\ pool' = Append(pool, held) /\ UNCHANGED dropped
       \/ Len(pool) >= QueueSize - 1 /\ dropped' = dropped \cup {held} /\ UNCHANGED pool
    /\ UNCHANGED <<queue, worker, task, wakeup, accepted, sent, crowded>>

\* QueueMessage does not wait for room, and nobody looks at what it returns.
HandOver ==
    /\ held # Nothing
    /\ held' = Nothing
    /\ \/ Len(pool) < QueueSize /\ pool' = Append(pool, held) /\ UNCHANGED dropped
       \/ Len(pool) = QueueSize /\ dropped' = dropped \cup {held} /\ UNCHANGED pool
    /\ UNCHANGED <<queue, worker, task, wakeup, accepted, sent, crowded>>

FlushDone ==
    /\ task = "draining" /\ held = Nothing /\ queue = <<>>
    /\ task' = "idle"
    /\ UNCHANGED <<queue, pool, worker, held, wakeup, accepted, sent, dropped, crowded>>

\* Stop waits for the flush in progress. What is in the queue stays there: the
\* task was given nothing to do at its end.
StopTask ==
    /\ task = "idle"
    /\ task' = "stopped"
    /\ UNCHANGED <<queue, pool, worker, held, wakeup, accepted, sent, dropped, crowded>>

-----------------------------------------------------------------------------
WorkerTake(w) ==
    /\ worker[w] = Nothing /\ pool # <<>>
    /\ worker' = [worker EXCEPT ![w] = Head(pool)]
    /\ pool' = Tail(pool)
    /\ UNCHANGED <<queue, task, held, wakeup, accepted, sent, dropped, crowded>>

\* Mutant: a worker queues again what the backend did not take.
DoWorkRetry(w) ==
    /\ worker[w] # Nothing
    /\ worker' = [worker EXCEPT ![w] = Nothing]
    /\ sent' = sent \cup {worker[w]}
    /\ pool' \in {pool, Append(pool, worker[w])}
    /\ UNCHANGED <<queue, task, held, wakeup, accepted, dropped, crowded>>

\* One attempt; the error of one that fails is logged, and that is all.
DoWork(w) ==
    /\ worker[w] # Nothing
    /\ worker' = [worker EXCEPT ![w] = Nothing]
    /\ sent' = sent \cup {worker[w]}
    /\ UNCHANGED <<queue, pool, task, held, wakeup, accepted, dropped, crowded>>

Recording ==
    \/ Flush \/ Take \/ HandOver \/ FlushDone
    \/ \E w \in Workers : WorkerTake(w) \/ DoWork(w)

-----------------------------------------------------------------------------
Distinct(s) == \A i, j \in 1..Len(s) : s[i] = s[j] => i = j

\* The order in which bulks were accepted.
Before(x, y) ==
    \E i, j \in 1..Len(accepted) : i < j /\ accepted[i] = x /\ accepted[j] = y

Ordered(s) == \A i, j \in 1..Len(s) : i < j => Before(s[i], s[j])

\* A bulk the proxy has said yes to is in one place: a queue, on its way between
\* them, with one worker, or settled, in one way. What is under way goes through
\* both queues in the order it was accepted in.
InOnePlace ==
    /\ Distinct(queue) /\ Distinct(pool) /\ Distinct(accepted)
    /\ Ran(accepted) = Ran(queue) \cup Held \cup Ran(pool) \cup Posting \cup Settled
    /\ Ran(queue) \cap (Held \cup Ran(pool) \cup Posting \cup Settled) = {}
    /\ Held \cap (Ran(pool) \cup Posting \cup Settled) = {}
    /\ Ran(pool) \cap (Posting \cup Settled) = {}
    /\ Posting \cap Settled = {} /\ sent \cap dropped = {}
    /\ \A v, w \in Workers : worker[v] = worker[w] => v = w \/ worker[v] = Nothing
    /\ Ordered(pool) /\ Ordered(queue)
    /\ \A x \in Ran(pool), y \in Held \cup Ran(queue) : Before(x, y)
    /\ \A x \in Held, y \in Ran(queue) : Before(x, y)

\* As long as no more bulks are under way than one of the two queues holds, none
\* is dropped between them (deferred.go:59, whose result nobody looks at).
DropNeedsCrowd == dropped # {} => crowded

\* What was accepted is settled in the end, however few bulks there are, unless
\* the task was stopped (deferred.go:81 wakes it only when the queue is full).
AcceptedSettles ==
    \A b \in Bulks : b \in Ran(accepted) ~> (b \in Settled \/ task = "stopped")
=============================================================================
