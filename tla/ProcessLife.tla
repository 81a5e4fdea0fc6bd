---------------------------- MODULE ProcessLife ----------------------------
(***************************************************************************)
(* The life of a process, split-proxy or split-sync: initialization with   *)
(* its error exits, the first synchronization and its retries in the       *)
(* background, the health monitors, the admin server, and the runtime with *)
(* its graceful and forced shutdowns.                                      *)
(***************************************************************************)
EXTENDS HealthCounters, Sequences, FiniteSets

CONSTANTS
    Starter,     \* the goroutine that runs onReady (main, or the retries')
    SignalHandler, \* the goroutine of RegisterShutdownHandler
    Admins       \* requests for a graceful shutdown

ASSUME ProcessAssumption ==
    /\ Writers = {Starter, SignalHandler} \cup Admins
    /\ Starter # SignalHandler /\ Starter \notin Admins /\ SignalHandler \notin Admins

Shutters == Writers \ {Starter}
Threads == {"main", "bg"}

VARIABLES
    mode,        \* the program
    snapshot,    \* a proxy that was given a snapshot
    pc,          \* the main goroutine, and the one that retries
    manager,     \* synchronizer.Manager
    mstatus,     \* its status channel (one place)
    synced,      \* history: a synchronization has succeeded
    services,    \* the tasks of the services monitor
    adminUp, apiUp,  \* the servers
    signals,     \* osSignals (one place)
    handler,     \* the goroutine of RegisterShutdownHandler
    shutdown,    \* where each Shutdown is
    exit         \* how the process ended

processVars == <<mode, snapshot, pc, manager, mstatus, synced, services, adminUp,
                 apiUp, signals, handler, shutdown, exit>>
vars == <<healthVars, processVars>>

TypeOK ==
    /\ HealthTypeOK
    /\ mode \in {"proxy", "producer"} /\ snapshot \in BOOLEAN
    /\ pc \in [Threads -> {"none", "prepare", "build", "attempt", "waiting", "onReady", "sleep",
                           "admin", "api", "register", "block", "done"}]
    /\ manager \in {"idle", "syncing", "running", "stopping", "stuck", "stopped"}
    /\ mstatus \in {<<>>, <<"ready">>, <<"error">>}
    /\ synced \in BOOLEAN /\ services \in BOOLEAN
    /\ adminUp \in BOOLEAN /\ apiUp \in BOOLEAN
    /\ signals \in {<<>>, <<"term">>, <<"kill">>}
    /\ handler \in {"none", "waiting", "spent"}
    /\ shutdown \in [Shutters -> {"none", "recording", "monitors", "blocker"}]
    /\ exit \in {"no", "apikey", "redis", "db", "task", "admin", "tls", "undefined",
                 "killed", "done"}

Init ==
    /\ HealthInit
    /\ mode \in {"proxy", "producer"}
    /\ snapshot \in (IF mode = "proxy" THEN BOOLEAN ELSE {FALSE})
    /\ pc = [main |-> "prepare", bg |-> "none"]
    /\ manager = "idle" /\ mstatus = <<>> /\ synced = FALSE /\ services = FALSE
    /\ adminUp = FALSE /\ apiUp = FALSE
    /\ signals = <<>> /\ handler = "none"
    /\ shutdown = [s \in Shutters |-> "none"]
    /\ exit = "no"

Exit(codes) == exit' \in codes /\ UNCHANGED <<pc, snapshot>>
Goto(t, place) == pc' = [pc EXCEPT ![t] = place]

-----------------------------------------------------------------------------
(* Initialization.                                                         *)

\* split-proxy: the key, the snapshot and its hash, the database, storages,
\* monitors, workers and tasks, the manager.
PrepareProxy ==
    /\ pc["main"] = "prepare" /\ mode = "proxy"
    /\ \/ Goto("main", "attempt") /\ UNCHANGED <<exit, snapshot>>
       \/ Exit({"apikey", "db", "task"} \cup (IF snapshot THEN {"undefined"} ELSE {}))
    /\ UNCHANGED <<healthVars, mode, manager, mstatus, synced, services, adminUp, apiUp,
                   signals, handler, shutdown>>

\* split-sync: the key, checked with the backend, Redis and its storages.
PrepareProducer ==
    /\ pc["main"] = "prepare" /\ mode = "producer"
    /\ \/ Goto("main", "build") /\ UNCHANGED <<exit, snapshot>>
       \/ Exit({"apikey", "redis", "undefined"})
    /\ UNCHANGED <<healthVars, mode, manager, mstatus, synced, services, adminUp, apiUp,
                   signals, handler, shutdown>>

\* Monitors, the listener, workers and pipelines, the manager.
BuildProducer ==
    /\ pc["main"] = "build"
    /\ \/ Goto("main", "admin") /\ UNCHANGED <<exit, snapshot>>
       \/ Exit({"task"})
    /\ UNCHANGED <<healthVars, mode, manager, mstatus, synced, services, adminUp, apiUp,
                   signals, handler, shutdown>>

\* go m.Start(), then wait for the status.
Attempt(t) ==
    /\ pc[t] = "attempt" /\ manager # "syncing"
    /\ manager' = "syncing"
    /\ Goto(t, "waiting")
    /\ UNCHANGED <<healthVars, mode, snapshot, mstatus, synced, services, adminUp, apiUp,
                   signals, handler, shutdown, exit>>

\* The manager (external) tells how its synchronization went. Data recording
\* starts, the tasks of WSync last, before it says that it is ready.
SyncAll ==
    /\ manager = "syncing" /\ mstatus = <<>>
    /\ \/ manager' = "running" /\ mstatus' = <<"ready">> /\ synced' = TRUE
       \/ manager' = "idle" /\ mstatus' = <<"error">> /\ UNCHANGED synced
    /\ UNCHANGED <<healthVars, mode, snapshot, pc, services, adminUp, apiUp, signals,
                   handler, shutdown, exit>>

\* What comes after the first synchronization in each program.
AfterReady(t) ==
    IF t = "bg" THEN "done" ELSE IF mode = "proxy" THEN "admin" ELSE "register"

\* Mutant: monitors are started whatever the status.
OnReadyAnyStatus(t) ==
    /\ pc[t] = "waiting" /\ mstatus # <<>>
    /\ mstatus' = <<>>
    /\ writer' = [writer EXCEPT ![Starter].at = "start"]
    /\ Goto(t, "onReady")
    /\ UNCHANGED <<counterVars, storage, healthySince, call, report, mode, snapshot, manager,
                   synced, services, adminUp, apiUp, signals, handler, shutdown, exit>>

\* onReady: the monitors are started once there is data.
OnReady(t) ==
    /\ pc[t] = "waiting" /\ mstatus = <<"ready">>
    /\ mstatus' = <<>>
    /\ writer' = [writer EXCEPT ![Starter].at = "start"]
    /\ Goto(t, "onReady")
    /\ UNCHANGED <<counterVars, storage, healthySince, call, report, mode, snapshot, manager,
                   synced, services, adminUp, apiUp, signals, handler, shutdown, exit>>

OnReadyDone(t) ==
    /\ pc[t] = "onReady" /\ writer[Starter].at = "idle"
    /\ services' = TRUE
    /\ Goto(t, AfterReady(t))
    /\ UNCHANGED <<healthVars, mode, snapshot, manager, mstatus, synced, adminUp, apiUp,
                   signals, handler, shutdown, exit>>

\* Without a snapshot a failure ends the process; with one, start-up goes on and
\* the attempts are repeated in the background.
AttemptFailed(t) ==
    /\ pc[t] = "waiting" /\ mstatus = <<"error">>
    /\ mstatus' = <<>>
    /\ \/ t = "bg" /\ Goto("bg", "sleep") /\ UNCHANGED <<exit, snapshot>>
       \/ t = "main" /\ snapshot /\ UNCHANGED <<exit, snapshot>>
          /\ pc' = [main |-> "admin", bg |-> "attempt"]
       \/ t = "main" /\ ~snapshot /\ Exit({"task"})
    /\ UNCHANGED <<healthVars, mode, manager, synced, services, adminUp, apiUp, signals,
                   handler, shutdown>>

\* The backoff of the retries is over.
Retry ==
    /\ pc["bg"] = "sleep"
    /\ Goto("bg", "attempt")
    /\ UNCHANGED <<healthVars, mode, snapshot, manager, mstatus, synced, services, adminUp,
                   apiUp, signals, handler, shutdown, exit>>

\* The admin server. split-sync has it up before it synchronizes.
StartAdmin ==
    /\ pc["main"] = "admin"
    /\ \/ /\ adminUp' = TRUE
          /\ Goto("main", IF mode = "proxy" THEN "api" ELSE "attempt")
          /\ UNCHANGED <<exit, snapshot>>
       \/ Exit({"tls", "admin"}) /\ UNCHANGED adminUp
    /\ UNCHANGED <<healthVars, mode, manager, mstatus, synced, services, apiUp, signals,
                   handler, shutdown>>

\* The impression listener and the server of the SDKs.
StartApi ==
    /\ pc["main"] = "api"
    /\ \/ apiUp' = TRUE /\ Goto("main", "register") /\ UNCHANGED <<exit, snapshot>>
       \/ Exit({"tls", "task"}) /\ UNCHANGED apiUp
    /\ UNCHANGED <<healthVars, mode, manager, mstatus, synced, services, adminUp, signals,
                   handler, shutdown>>

RegisterShutdownHandler ==
    /\ pc["main"] = "register"
    /\ handler' = "waiting"
    /\ Goto("main", "block")
    /\ UNCHANGED <<healthVars, mode, snapshot, manager, mstatus, synced, services, adminUp,
                   apiUp, signals, shutdown, exit>>

Startup(t) ==
    \/ Attempt(t) \/ OnReady(t) \/ OnReadyDone(t) \/ AttemptFailed(t)
    \/ t = "main" /\ (PrepareProxy \/ PrepareProducer \/ BuildProducer \/ StartAdmin
                        \/ StartApi \/ RegisterShutdownHandler)
    \/ t = "bg" /\ Retry

-----------------------------------------------------------------------------
(* The end.                                                                *)

\* Once the handler is registered, a signal that finds the channel full is dropped.
\* Those that come after the handler has taken one change nothing: nobody reads them.
OsSignal ==
    /\ handler = "waiting" /\ signals = <<>>
    /\ signals' = <<"term">>
    /\ UNCHANGED <<healthVars, mode, snapshot, pc, manager, mstatus, synced, services, adminUp,
                   apiUp, handler, shutdown, exit>>

\* stopProcess, forced: Kill sends on the channel of the signals. It blocks while
\* that is full; what it sends after the handler has taken a signal nobody reads.
Kill ==
    /\ adminUp /\ signals = <<>> /\ handler # "spent"
    /\ signals' = <<"kill">>
    /\ UNCHANGED <<healthVars, mode, snapshot, pc, manager, mstatus, synced, services, adminUp,
                   apiUp, handler, shutdown, exit>>

\* Shutdown: the manager, the monitors, and main is let go. The listener is
\* never part of it: both programs hand nil to NewRuntime.
StopMonitors(s) ==
    /\ shutdown' = [shutdown EXCEPT ![s] = "monitors"]
    /\ writer' = [writer EXCEPT ![s].at = "stop"]
    /\ UNCHANGED <<counterVars, storage, healthySince, call, report>>

\* Manager.Stop (external) returns at once unless the manager runs. Else the tasks that
\* fetch are told to stop, and those that record are waited for.
StopManager(s) ==
    \/ /\ manager # "running" /\ UNCHANGED manager
       /\ StopMonitors(s)
    \/ /\ manager = "running" /\ manager' = "stopping"
       /\ shutdown' = [shutdown EXCEPT ![s] = "recording"]
       /\ UNCHANGED healthVars

\* stopProcess, graceful.
RequestShutdown(s) ==
    /\ s \in Admins /\ adminUp /\ shutdown[s] = "none"
    /\ StopManager(s)
    /\ UNCHANGED <<mode, snapshot, pc, mstatus, synced, services, adminUp, apiUp, signals,
                   handler, exit>>

\* The handler takes one signal in its life.
HandleSignal ==
    /\ handler = "waiting" /\ signals # <<>>
    /\ signals' = <<>> /\ handler' = "spent"
    /\ \/ signals = <<"kill">> /\ exit' = "killed" /\ UNCHANGED <<healthVars, manager, shutdown>>
       \/ signals = <<"term">> /\ StopManager(SignalHandler) /\ UNCHANGED exit
    /\ UNCHANGED <<mode, snapshot, pc, mstatus, synced, services, adminUp, apiUp>>

\* WSync.StopPeriodicDataRecording: Stop(true) of the wrapped tasks and of every one of
\* user telemetry. That of a pipeline, which split-sync has three of, may never return
\* (see PipelinedTask).
StopPeriodicDataRecording(s) ==
    /\ shutdown[s] = "recording" /\ manager = "stopping"
    /\ \/ manager' = "stopped" /\ StopMonitors(s)
       \/ mode = "producer" /\ manager' = "stuck" /\ UNCHANGED <<healthVars, shutdown>>
    /\ UNCHANGED <<mode, snapshot, pc, mstatus, synced, services, adminUp, apiUp, signals,
                   handler, exit>>

StopServices(s) ==
    /\ shutdown[s] = "monitors" /\ writer[s].at = "idle"
    /\ services' = FALSE
    /\ shutdown' = [shutdown EXCEPT ![s] = "blocker"]
    /\ UNCHANGED <<healthVars, mode, snapshot, pc, manager, mstatus, synced, adminUp, apiUp,
                   signals, handler, exit>>

\* Mutant: Shutdown does not wait for somebody to receive.
UnblockIfWaiting(s) ==
    /\ shutdown[s] = "blocker"
    /\ \/ pc["main"] = "block" /\ Goto("main", "done") /\ exit' = "done" /\ UNCHANGED shutdown
       \/ /\ pc["main"] # "block"
          /\ shutdown' = [shutdown EXCEPT ![s] = "none"] /\ UNCHANGED <<pc, exit>>
    /\ UNCHANGED <<healthVars, mode, snapshot, manager, mstatus, synced, services, adminUp,
                   apiUp, signals, handler>>

\* The send of the blocker channel waits for main to be at Block.
Unblock(s) ==
    /\ shutdown[s] = "blocker" /\ pc["main"] = "block"
    /\ Goto("main", "done") /\ exit' = "done"
    /\ UNCHANGED <<healthVars, mode, snapshot, manager, mstatus, synced, services, adminUp,
                   apiUp, signals, handler, shutdown>>

Shutdown(s) == StopPeriodicDataRecording(s) \/ StopServices(s) \/ Unblock(s)

-----------------------------------------------------------------------------
(* Who calls the monitor: synchronizers notify, those at work when the     *)
(* manager is stopped too; the manager moves the thresholds;               *)
(* /health/application reads.                                              *)
MonitorCall(k) ==
    /\ \/ \E c \in Counters :
            /\ k \in Updaters
            /\ \/ manager # "idle" /\ NotifyHit(k, c)
               \/ manager = "running" /\ ResetThreshold(k, c)
       \/ k \in Readers /\ adminUp /\ GetHealthStatus(k)
    /\ UNCHANGED <<storage, writer>>

Monitor ==
    \/ \E k \in Clients : MonitorCall(k) \/ Client(k)
    \/ \E c \in Counters : Loop(c)
    \/ \E w \in Writers : Writer(w, mode = "producer")
    \/ Periodic

Ending ==
    \/ OsSignal \/ Kill \/ HandleSignal
    \/ \E s \in Shutters : RequestShutdown(s) \/ Shutdown(s)

Alive == exit = "no"

Next ==
    /\ Alive
    /\ \/ SyncAll \/ Ending \/ \E t \in Threads : Startup(t)
       \/ Monitor /\ UNCHANGED processVars

Spec == Init /\ [][Next]_vars

\* Goroutines are scheduled, timers fire, synchronizations end. Nobody has to
\* call the monitor, or to ask for a shutdown.
Fairness ==
    /\ \A t \in Threads : WF_vars(Alive /\ Startup(t))
    /\ WF_vars(Alive /\ SyncAll)
    /\ WF_vars(Alive /\ HandleSignal)
    /\ \A s \in Shutters : WF_vars(Alive /\ Shutdown(s))
    /\ \A c \in Counters : WF_vars(Alive /\ Loop(c) /\ UNCHANGED processVars)
    /\ \A k \in Clients : WF_vars(Alive /\ Client(k) /\ UNCHANGED processVars)
    /\ \A w \in Writers : WF_vars(Alive /\ Writer(w, mode = "producer") /\ UNCHANGED processVars)
    /\ WF_vars(Alive /\ NewPeriod /\ UNCHANGED processVars)

FairSpec == Spec /\ Fairness

-----------------------------------------------------------------------------
ShuttingDown == \E s \in Shutters : shutdown[s] # "none"

\* "health monitors are only started after successful init (otherwise they'll
\* fail if the app doesn't sync correctly within the specified refresh period)"
\* (proxy/initialization.go:182): before that no counter runs or fails, and no
\* call can be waiting for one. From then on a counter that says it is healthy is
\* being watched (threshold.go): as long as no shutdown has begun its goroutine is
\* there, to declare it unhealthy.
WatchedFromSyncOn ==
    \A c \in Counters :
        /\ ~synced => ~running[c] /\ healthy[c] /\ ~WaitsForRoom(c)
        /\ healthy[c] /\ running[c] /\ ~ShuttingDown => loop[c] \notin {"none", "leaving"}

\* GetHealthStatus: a status that names the time since when all is well says
\* that all is well, and the field is cleared no earlier than a counter failed.
SinceIsSound ==
    /\ TypeOK
    /\ \A k \in Readers : report[k].since => report[k].healthy
    /\ ~healthySince => \E c \in Counters : ~healthy[c]

\* Nobody frees a jammed counter (threshold.go, ResetThreshold, Stop and NotifyHit
\* against Start): who waits for it keeps the lock that would let it make room.
JamsAreFinal == [][\A c \in Counters : Jammed(c) => Jammed(c)']_vars

\* A counter whose events stay away is declared unhealthy in the end, unless a
\* shutdown has begun or the counter is jammed (threshold.go, Start).
Quiet(c) == \A k \in Updaters : call[k].c = c => call[k].at = "idle"
SilenceIsNoticed ==
    \A c \in Counters :
        <>[]Quiet(c) /\ <>running[c] => <>(~healthy[c] \/ ShuttingDown \/ Jammed(c) \/ exit # "no")

\* Runtime.Shutdown and Kill: a graceful shutdown ends the process, however many are
\* under way at once and whenever they come, unless a counter is jammed or, in split-sync,
\* Stop(true) of a recording task does not return (common/sync/sync.go:43). A kill that was
\* sent ends it, jam or not: main goes on to register the handler, which reads it.
ShutdownEnds ==
    /\ ShuttingDown ~> (exit # "no" \/ SomeJam \/ (mode = "producer" /\ manager = "stuck"))
    /\ signals = <<"kill">> ~> exit # "no"

=============================================================================
