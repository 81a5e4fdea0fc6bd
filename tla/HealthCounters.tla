--------------------------- MODULE HealthCounters ---------------------------
(***************************************************************************)
(* The application health monitor: threshold counters, each with its timer *)
(* goroutine, its lock and its two one-place channels; the storage counter *)
(* of the producer; and the monitor whose read-write lock its callers hold *)
(* while they talk to the counters.                                        *)
(*                                                                         *)
(* An updater is a goroutine that notifies events or moves thresholds, a    *)
(* reader one that asks for the status, a writer one that starts or stops  *)
(* the monitor.                                                            *)
(***************************************************************************)
EXTENDS Naturals

CONSTANTS
    Counters,     \* the threshold counters
    Updaters,     \* goroutines that call NotifyEvent and Reset
    Readers,      \* requests that call GetHealthStatus
    Writers,      \* goroutines that call Start and Stop
    Free,         \* nobody holds a lock
    MaxErrors     \* MaxErrorsAllowedInPeriod of the storage counter

ASSUME HealthAssumption ==
    /\ Counters # {}
    /\ Updaters \cap Readers = {} /\ (Updaters \cup Readers) \cap Writers = {}
    /\ Free \notin Updaters \cup Writers
    /\ MaxErrors \in Nat \ {0}

Clients == Updaters \cup Readers

VARIABLES
    running,       \* running flag of each counter
    healthy,       \* healthy field of each counter
    loop,          \* where each counter's goroutine is
    resets,        \* tokens in the reset channel (one place)
    cancels,       \* tokens in the cancel channel (one place)
    lock,          \* holder of each counter's lock between two steps
    storage,       \* the periodic counter
    healthySince,  \* the monitor's healthySince is not nil
    call,          \* the call each client is making
    report,        \* the last status each client got
    writer         \* the Start or Stop each writer is making

healthVars == <<running, healthy, loop, resets, cancels, lock, storage,
                healthySince, call, report, writer>>
counterVars == <<running, healthy, loop, resets, cancels, lock>>

LoopStates == {"none", "starting", "select", "gotReset", "timedOut", "leaving"}
CallStates == {"idle", "hitSend", "hitUpdate", "resetLock", "resetSend", "reading"}
WriterStates == {"idle", "start", "starting", "stop", "stopping", "stopLock", "cancel"}

HealthTypeOK ==
    /\ running \in [Counters -> BOOLEAN] /\ healthy \in [Counters -> BOOLEAN]
    /\ loop \in [Counters -> LoopStates]
    /\ resets \in [Counters -> 0..1] /\ cancels \in [Counters -> 0..1]
    /\ lock \in [Counters -> Updaters \cup Writers \cup {Free}]
    /\ storage \in [running : BOOLEAN, errors : 0..MaxErrors, healthy : BOOLEAN]
    /\ healthySince \in BOOLEAN
    /\ call \in [Clients -> [at : CallStates, c : Counters, todo : SUBSET Counters, ok : BOOLEAN]]
    /\ report \in [Readers -> [healthy : BOOLEAN, since : BOOLEAN]]
    /\ writer \in [Writers -> [at : WriterStates, c : Counters, todo : SUBSET Counters]]

NoCall == [at |-> "idle", c |-> CHOOSE c \in Counters : TRUE, todo |-> {}, ok |-> TRUE]
NoWriter == [at |-> "idle", c |-> CHOOSE c \in Counters : TRUE, todo |-> {}]

HealthInit ==
    /\ running = [c \in Counters |-> FALSE] /\ healthy = [c \in Counters |-> TRUE]
    /\ loop = [c \in Counters |-> "none"]
    /\ resets = [c \in Counters |-> 0] /\ cancels = [c \in Counters |-> 0]
    /\ lock = [c \in Counters |-> Free]
    /\ storage = [running |-> FALSE, errors |-> 0, healthy |-> TRUE]
    /\ healthySince = TRUE
    /\ call = [k \in Clients |-> NoCall]
    /\ report = [k \in Readers |-> [healthy |-> TRUE, since |-> TRUE]]
    /\ writer = [w \in Writers |-> NoWriter]

-----------------------------------------------------------------------------
(* The monitor's lock. A writer that waits keeps new readers out.          *)

Reading(k) == call[k].at # "idle"
Writing(w) == writer[w].at \notin {"idle", "start", "stop"}

CanRead == \A w \in Writers : writer[w].at = "idle"
CanWrite(w) ==
    /\ \A k \in Clients : ~Reading(k)
    /\ \A v \in Writers \ {w} : ~Writing(v)

-----------------------------------------------------------------------------
(* The goroutine of a counter.                                             *)

\* The goroutine creates its timer under the counter's lock.
CreateTimer(c) ==
    /\ loop[c] = "starting" /\ lock[c] = Free
    /\ loop' = [loop EXCEPT ![c] = "select"]
    /\ UNCHANGED <<running, healthy, resets, cancels, lock>>

\* Mutant: a tick is taken for a reset.
SelectTimerRearm(c) ==
    /\ loop[c] = "select"
    /\ loop' = [loop EXCEPT ![c] = "gotReset"]
    /\ UNCHANGED <<running, healthy, resets, cancels, lock>>

\* The select takes one of the channels that are ready, whichever. That of the
\* timer may be ready any time: a period passes unless the timer is reset.
SelectTimer(c) ==
    /\ loop[c] = "select"
    /\ loop' = [loop EXCEPT ![c] = "timedOut"]
    /\ UNCHANGED <<running, healthy, resets, cancels, lock>>

SelectReset(c) ==
    /\ loop[c] = "select" /\ resets[c] = 1
    /\ resets' = [resets EXCEPT ![c] = 0]
    /\ loop' = [loop EXCEPT ![c] = "gotReset"]
    /\ UNCHANGED <<running, healthy, cancels, lock>>

SelectCancel(c) ==
    /\ loop[c] = "select" /\ cancels[c] = 1
    /\ cancels' = [cancels EXCEPT ![c] = 0]
    /\ loop' = [loop EXCEPT ![c] = "leaving"]
    /\ UNCHANGED <<running, healthy, resets, lock>>

\* The timed-out counter declares itself unhealthy, and never changes its mind.
DeclareUnhealthy(c) ==
    /\ loop[c] = "timedOut" /\ lock[c] = Free
    /\ healthy' = [healthy EXCEPT ![c] = FALSE]
    /\ loop' = [loop EXCEPT ![c] = "leaving"]
    /\ UNCHANGED <<running, resets, cancels, lock>>

\* Mutant: the timer is rearmed without the lock.
RearmTimerUnlocked(c) ==
    /\ loop[c] = "gotReset"
    /\ loop' = [loop EXCEPT ![c] = "select"]
    /\ UNCHANGED <<running, healthy, resets, cancels, lock>>

\* timer.Reset, which withdraws a pending tick.
RearmTimer(c) ==
    /\ loop[c] = "gotReset" /\ lock[c] = Free
    /\ loop' = [loop EXCEPT ![c] = "select"]
    /\ UNCHANGED <<running, healthy, resets, cancels, lock>>

\* The deferred running.Unset of the goroutine.
Leave(c) ==
    /\ loop[c] = "leaving"
    /\ loop' = [loop EXCEPT ![c] = "none"]
    /\ running' = [running EXCEPT ![c] = FALSE]
    /\ UNCHANGED <<healthy, resets, cancels, lock>>

Loop(c) ==
    /\ \/ CreateTimer(c) \/ SelectTimer(c) \/ SelectReset(c) \/ SelectCancel(c)
       \/ DeclareUnhealthy(c) \/ RearmTimer(c) \/ Leave(c)
    /\ UNCHANGED <<storage, healthySince, call, report, writer>>

-----------------------------------------------------------------------------
(* Clients. A call begins when it gets the monitor's read lock, and holds  *)
(* it to its end.                                                          *)

Step(k, at) == call' = [call EXCEPT ![k].at = at]
Return(k) == call' = [call EXCEPT ![k] = NoCall]

\* NotifyEvent, NotifyHit: nothing to do for a counter that is not running.
NotifyHit(k, c) ==
    /\ call[k].at = "idle" /\ CanRead /\ running[c]
    /\ call' = [call EXCEPT ![k].at = "hitSend", ![k].c = c]
    /\ UNCHANGED <<counterVars, healthySince, report>>

\* The send blocks while the channel is full.
SendHit(k) ==
    LET c == call[k].c IN
    /\ call[k].at = "hitSend" /\ resets[c] = 0
    /\ resets' = [resets EXCEPT ![c] = 1]
    /\ Step(k, "hitUpdate")
    /\ UNCHANGED <<running, healthy, loop, cancels, lock, healthySince, report>>

UpdateLastHit(k) ==
    /\ call[k].at = "hitUpdate" /\ lock[call[k].c] = Free
    /\ Return(k)
    /\ UNCHANGED <<counterVars, healthySince, report>>

\* Reset, ResetThreshold: running is tested before the lock is taken.
ResetThreshold(k, c) ==
    /\ call[k].at = "idle" /\ CanRead /\ running[c]
    /\ call' = [call EXCEPT ![k].at = "resetLock", ![k].c = c]
    /\ UNCHANGED <<counterVars, healthySince, report>>

\* A threshold that is not positive is refused. Otherwise the token is sent with
\* the lock held, which others can tell when there is no room for it.
LockToReset(k, valid) ==
    LET c == call[k].c IN
    /\ call[k].at = "resetLock" /\ lock[c] = Free
    /\ \/ ~valid /\ Return(k) /\ UNCHANGED <<resets, lock>>
       \/ /\ valid /\ resets[c] = 0
          /\ resets' = [resets EXCEPT ![c] = 1]
          /\ Return(k) /\ UNCHANGED lock
       \/ /\ valid /\ resets[c] = 1
          /\ lock' = [lock EXCEPT ![c] = k]
          /\ Step(k, "resetSend") /\ UNCHANGED resets
    /\ UNCHANGED <<running, healthy, loop, cancels, healthySince, report>>

SendReset(k) ==
    LET c == call[k].c IN
    /\ call[k].at = "resetSend" /\ resets[c] = 0
    /\ resets' = [resets EXCEPT ![c] = 1]
    /\ lock' = [lock EXCEPT ![c] = Free]
    /\ Return(k)
    /\ UNCHANGED <<running, healthy, loop, cancels, healthySince, report>>

\* GetHealthStatus asks one counter after the other. The storage counter is
\* asked too, but its severity is low: it has no say in the overall status.
GetHealthStatus(k) ==
    /\ call[k].at = "idle" /\ CanRead
    /\ call' = [call EXCEPT ![k].at = "reading", ![k].todo = Counters]
    /\ UNCHANGED <<counterVars, healthySince, report>>

IsHealthy(k, c) ==
    /\ call[k].at = "reading" /\ c \in call[k].todo /\ lock[c] = Free
    /\ call' = [call EXCEPT ![k].todo = @ \ {c}, ![k].ok = @ /\ healthy[c]]
    /\ UNCHANGED <<counterVars, healthySince, report>>

\* Mutant: the answer has the field as it was before it is cleared.
AnswerStatusEarly(k) ==
    /\ call[k].at = "reading" /\ call[k].todo = {}
    /\ healthySince' = (healthySince /\ call[k].ok)
    /\ report' = [report EXCEPT ![k] = [healthy |-> call[k].ok, since |-> healthySince]]
    /\ Return(k)
    /\ UNCHANGED counterVars

\* getHealthySince clears the field for good, under the read lock.
AnswerStatus(k) ==
    /\ call[k].at = "reading" /\ call[k].todo = {}
    /\ healthySince' = (healthySince /\ call[k].ok)
    /\ report' = [report EXCEPT ![k] = [healthy |-> call[k].ok, since |-> healthySince']]
    /\ Return(k)
    /\ UNCHANGED counterVars

Client(k) ==
    /\ \/ SendHit(k) \/ UpdateLastHit(k) \/ SendReset(k) \/ AnswerStatus(k)
       \/ \E valid \in BOOLEAN : LockToReset(k, valid)
       \/ \E c \in Counters : IsHealthy(k, c)
    /\ UNCHANGED <<storage, writer>>

-----------------------------------------------------------------------------
(* Writers.                                                                *)

Advance(w, at) == writer' = [writer EXCEPT ![w].at = at]
CounterDone(w, c) ==
    writer' = [writer EXCEPT ![w].todo = @ \ {c},
                             ![w].at = IF @ = "starting" THEN @ ELSE "stopping"]

\* Start and Stop take the monitor's lock, and do the counters in any order.
LockMonitor(w) ==
    /\ writer[w].at \in {"start", "stop"} /\ CanWrite(w)
    /\ writer' = [writer EXCEPT ![w].at = IF @ = "start" THEN "starting" ELSE "stopping",
                                ![w].todo = Counters]
    /\ UNCHANGED <<counterVars, storage>>

StartCounter(w, c) ==
    /\ writer[w].at = "starting" /\ c \in writer[w].todo
    /\ \/ running[c] /\ UNCHANGED <<running, loop>>
       \/ /\ ~running[c] /\ lock[c] = Free
          /\ running' = [running EXCEPT ![c] = TRUE]
          /\ loop' = [loop EXCEPT ![c] = "starting"]
    /\ CounterDone(w, c)
    /\ UNCHANGED <<healthy, resets, cancels, lock, storage>>

\* ThresholdImp.Stop: running is tested before the lock is taken, not after.
StopCounter(w, c) ==
    /\ writer[w].at = "stopping" /\ c \in writer[w].todo
    /\ \/ ~running[c] /\ CounterDone(w, c)
       \/ running[c] /\ writer' = [writer EXCEPT ![w].at = "stopLock", ![w].c = c]
    /\ UNCHANGED <<counterVars, storage>>

\* As in ResetThreshold the token is sent with the lock held.
LockToStop(w) ==
    LET c == writer[w].c IN
    /\ writer[w].at = "stopLock" /\ lock[c] = Free
    /\ \/ /\ cancels[c] = 0
          /\ cancels' = [cancels EXCEPT ![c] = 1]
          /\ CounterDone(w, c) /\ UNCHANGED lock
       \/ /\ cancels[c] = 1
          /\ lock' = [lock EXCEPT ![c] = w]
          /\ Advance(w, "cancel") /\ UNCHANGED cancels
    /\ UNCHANGED <<running, healthy, loop, resets, storage>>

SendCancel(w) ==
    LET c == writer[w].c IN
    /\ writer[w].at = "cancel" /\ cancels[c] = 0
    /\ cancels' = [cancels EXCEPT ![c] = 1]
    /\ lock' = [lock EXCEPT ![c] = Free]
    /\ CounterDone(w, c)
    /\ UNCHANGED <<running, healthy, loop, resets, storage>>

\* The storage counter of the producer comes last.
UnlockMonitor(w, producer) ==
    /\ writer[w].at \in {"starting", "stopping"} /\ writer[w].todo = {}
    /\ storage' = IF producer THEN [storage EXCEPT !.running = writer[w].at = "starting"]
                  ELSE storage
    /\ Advance(w, "idle")
    /\ UNCHANGED counterVars

Writer(w, producer) ==
    /\ \/ LockMonitor(w) \/ LockToStop(w) \/ SendCancel(w) \/ UnlockMonitor(w, producer)
       \/ \E c \in Counters : StartCounter(w, c) \/ StopCounter(w, c)
    /\ UNCHANGED <<healthySince, call, report>>

-----------------------------------------------------------------------------
(* The periodic counter. Its methods hold the lock for one assignment each.*)

\* The validation function finds the storage out of order. Errors beyond the
\* limit are not counted further (a bound of the model).
NotifyError ==
    /\ storage.running /\ storage.errors < MaxErrors
    /\ storage' = [storage EXCEPT !.errors = @ + 1, !.healthy = MaxErrors > storage.errors + 1]
    /\ UNCHANGED <<counterVars, healthySince, call, report, writer>>

\* resetErrorCount: the task of the counter starts a new period.
NewPeriod ==
    /\ storage.running
    /\ storage' = [storage EXCEPT !.errors = 0, !.healthy = TRUE]
    /\ UNCHANGED <<counterVars, healthySince, call, report, writer>>

Periodic == NotifyError \/ NewPeriod

-----------------------------------------------------------------------------
(* A counter is jammed when somebody waits for a place in one of its       *)
(* channels and the goroutine that would make room waits for the lock he   *)
(* holds, or is gone.                                                      *)

WaitsForRoom(c) ==
    \/ \E k \in Updaters : call[k].c = c /\ call[k].at \in {"hitSend", "resetSend"} /\ resets[c] = 1
    \/ \E w \in Writers : writer[w].c = c /\ writer[w].at = "cancel" /\ cancels[c] = 1

Jammed(c) ==
    /\ WaitsForRoom(c)
    /\ \/ loop[c] \in {"none", "leaving"}
       \/ loop[c] \in {"starting", "gotReset", "timedOut"} /\ lock[c] # Free

SomeJam == \E c \in Counters : Jammed(c)
=============================================================================
