--------------------------- MODULE ProcessProofs ----------------------------
(***************************************************************************)
(* Theorems about a process and the monitors of its health, for any        *)
(* counters, updaters, readers and requests for a shutdown, and about the  *)
(* windows of the services monitor, for any services, any size of the      *)
(* window, any percentage and any history.                                 *)
(***************************************************************************)
EXTENDS ProcessLife, ServiceHealth, FiniteSetTheorems, TLAPS

-----------------------------------------------------------------------------
(* The invariant of the process                                            *)

\* An updater never reads the status, and a reader does nothing else.
RolesKept ==
    \A k \in Clients :
        /\ k \in Readers => call[k].at \in {"idle", "reading"}
        /\ k \in Updaters => call[k].at # "reading"

\* The lock of the monitor: who has it for writing has it alone.
Exclusive ==
    \A w \in Writers : Writing(w) =>
        /\ \A k \in Clients : ~Reading(k)
        /\ \A v \in Writers : Writing(v) => v = w

\* Nothing was started before the first synchronization succeeded.
BlankUntilSynced ==
    ~synced =>
        /\ mstatus # <<"ready">>
        /\ \A c \in Counters : ~running[c] /\ healthy[c] /\ loop[c] = "none"
        /\ \A k \in Clients : call[k].at \in {"idle", "reading"}
        /\ \A w \in Writers : writer[w].at \in {"idle", "stop", "stopping"}

\* A goroutine that runs for a counter is there, and leaves a healthy one only when
\* it was told to by a shutdown.
LoopsKept ==
    \A c \in Counters :
        /\ running[c] => loop[c] # "none"
        /\ loop[c] = "leaving" => ~healthy[c] \/ ShuttingDown
        /\ cancels[c] = 1 => ShuttingDown

\* The monitors are stopped by a shutdown, and each shutdown goes through them once, after
\* the manager has been stopped.
Unstopped(s) == shutdown[s] \in {"none", "recording"}
StopsKept ==
    /\ writer[Starter].at \in {"idle", "start", "starting"}
    /\ \A s \in Shutters : Unstopped(s) => writer[s].at = "idle"
    /\ handler # "spent" => shutdown[SignalHandler] = "none"
    /\ handler # "none" => pc["main"] \in {"block", "done"}

\* A reader that found a counter unhealthy, and a monitor whose field is cleared, go
\* by a counter that still is.
SinceKept ==
    /\ \A k \in Clients : ~call[k].ok => \E c \in Counters : ~healthy[c]
    /\ ~healthySince => \E c \in Counters : ~healthy[c]
    /\ \A k \in Readers : report[k].since => report[k].healthy

ProcessInv ==
    /\ TypeOK /\ RolesKept /\ Exclusive /\ BlankUntilSynced /\ LoopsKept /\ StopsKept /\ SinceKept

\* Who writes is a starter or a shutter.
LEMMA WritersAre ==
    /\ Starter \in Writers /\ Starter \notin Shutters
    /\ SignalHandler \in Shutters /\ Admins \subseteq Shutters
    /\ Writers = Shutters \cup {Starter} /\ SignalHandler \notin Admins
BY ProcessAssumption DEF Shutters

\* Nothing is under way when a process starts.
LEMMA ProcessStarts == Init => ProcessInv
<1> SUFFICES ASSUME Init PROVE ProcessInv
  OBVIOUS
<1> DEFINE any == CHOOSE c \in Counters : TRUE
<1>1. any \in Counters
  BY HealthAssumption
<1>2. NoCall = [at |-> "idle", c |-> any, todo |-> {}, ok |-> TRUE]
      /\ NoWriter = [at |-> "idle", c |-> any, todo |-> {}]
  BY DEF NoCall, NoWriter
<1> HIDE DEF any
<1> USE DEF Init, HealthInit
<1>3. HealthTypeOK
  BY <1>1, <1>2, HealthAssumption DEF HealthTypeOK, CallStates, WriterStates, LoopStates, Clients
<1>4. TypeOK
  <2>1. pc = [t \in Threads |-> IF t = "main" THEN "prepare" ELSE "none"]
    BY DEF Threads
  <2>2. /\ mode \in {"proxy", "producer"} /\ snapshot \in BOOLEAN /\ manager = "idle" /\ mstatus = <<>>
        /\ signals = <<>> /\ handler = "none" /\ exit = "no"
    OBVIOUS
  <2>3. shutdown \in [Shutters -> {"none", "recording", "monitors", "blocker"}] /\ synced \in BOOLEAN /\ services \in BOOLEAN
        /\ adminUp \in BOOLEAN /\ apiUp \in BOOLEAN
    OBVIOUS
  <2> QED
    BY <1>3, <2>1, <2>2, <2>3 DEF TypeOK
<1>5. /\ \A k \in Clients : call[k].at = "idle" /\ call[k].ok
      /\ \A w \in Writers : writer[w].at = "idle"
  BY <1>2
<1>6. RolesKept /\ Exclusive
  BY <1>5 DEF RolesKept, Exclusive, Writing
<1>7. BlankUntilSynced /\ LoopsKept
  BY <1>5 DEF BlankUntilSynced, LoopsKept
<1>8. StopsKept
  BY <1>5, WritersAre DEF StopsKept
<1>9. SinceKept
  BY <1>5, HealthAssumption DEF SinceKept, Clients
<1> QED
  BY <1>4, <1>6, <1>7, <1>8, <1>9 DEF ProcessInv

-----------------------------------------------------------------------------
(* Steps that leave the monitors alone                                     *)

\* The steps of initialization, signals and the end of a shutdown.
Plain ==
    \/ SyncAll \/ OsSignal \/ Kill \/ \E s \in Shutters : StopServices(s) \/ Unblock(s)
    \/ \E t \in Threads : Attempt(t) \/ OnReadyDone(t) \/ AttemptFailed(t)
    \/ PrepareProxy \/ PrepareProducer \/ BuildProducer \/ StartAdmin \/ StartApi
    \/ RegisterShutdownHandler \/ Retry

\* The other ones: monitors are started or are to be stopped.
Turning ==
    \/ \E t \in Threads : OnReady(t)
    \/ \E s \in Shutters : RequestShutdown(s) \/ StopPeriodicDataRecording(s)
    \/ HandleSignal

LEMMA StepsAre ==
    ASSUME Next
    PROVE  Plain \/ Turning \/ (Monitor /\ UNCHANGED processVars)
BY DEF Next, Ending, Startup, Shutdown, Plain, Turning

\* They keep the types.
LEMMA PlainTyped ==
    ASSUME TypeOK, Plain
    PROVE  TypeOK'
<1> USE DEF TypeOK, Goto, Exit, Threads
<1>0. HealthTypeOK' <=> HealthTypeOK
  <2>1. UNCHANGED healthVars
    BY DEF Plain, SyncAll, OsSignal, Kill, StopServices, Unblock, Attempt, OnReadyDone,
           AttemptFailed, PrepareProxy, PrepareProducer, BuildProducer, StartAdmin, StartApi,
           RegisterShutdownHandler, Retry
  <2> QED
    BY <2>1 DEF healthVars, HealthTypeOK
<1>1. CASE SyncAll
  <2>1. synced' \in BOOLEAN
    BY <1>1, Zenon DEF SyncAll
  <2> QED
    BY <1>0, <1>1, <2>1 DEF SyncAll
<1>13. CASE OsSignal \/ Kill
  BY <1>0, <1>13 DEF OsSignal, Kill
<1>2. ASSUME NEW s \in Shutters, StopServices(s) PROVE TypeOK'
  <2>1. services' \in BOOLEAN
    BY <1>2, Zenon DEF StopServices
  <2> QED
    BY <1>0, <1>2, <2>1 DEF StopServices
<1>3. ASSUME NEW s \in Shutters, Unblock(s) PROVE TypeOK'
  BY <1>0, <1>3 DEF Unblock
<1>4. ASSUME NEW t \in Threads, Attempt(t) PROVE TypeOK'
  BY <1>0, <1>4 DEF Attempt
<1>5. ASSUME NEW t \in Threads, OnReadyDone(t) PROVE TypeOK'
  BY <1>0, <1>5 DEF OnReadyDone, AfterReady
<1>6. ASSUME NEW t \in Threads, AttemptFailed(t) PROVE TypeOK'
  BY <1>0, <1>6 DEF AttemptFailed
<1>7. CASE PrepareProxy
  BY <1>0, <1>7 DEF PrepareProxy
<1>8. CASE PrepareProducer
  BY <1>0, <1>8 DEF PrepareProducer
<1>9. CASE BuildProducer
  BY <1>0, <1>9 DEF BuildProducer
<1>10. CASE StartAdmin
  <2>1. adminUp' \in BOOLEAN
    BY <1>10, Zenon DEF StartAdmin
  <2> QED
    BY <1>0, <1>10, <2>1 DEF StartAdmin
<1>11. CASE StartApi
  <2>1. apiUp' \in BOOLEAN
    BY <1>11, Zenon DEF StartApi
  <2> QED
    BY <1>0, <1>11, <2>1 DEF StartApi
<1>12. CASE RegisterShutdownHandler \/ Retry
  BY <1>0, <1>12 DEF RegisterShutdownHandler, Retry
<1> QED
  BY <1>1, <1>2, <1>3, <1>4, <1>5, <1>6, <1>7, <1>8, <1>9, <1>10, <1>11, <1>12, <1>13 DEF Plain

\* What they change of what the invariant is about.
LEMMA PlainIs ==
    ASSUME TypeOK, StopsKept, Plain
    PROVE  /\ UNCHANGED healthVars
           /\ synced => synced'
           /\ mstatus' = <<"ready">> => mstatus = <<"ready">> \/ synced'
           /\ handler' # "spent" => handler # "spent"
           /\ \A s \in Shutters : shutdown'[s] = "none" <=> shutdown[s] = "none"
           /\ \A s \in Shutters : shutdown'[s] \in {"none", "recording"} <=> shutdown[s] \in {"none", "recording"}
           /\ handler' # "none" => pc'["main"] \in {"block", "done"}
<1> USE DEF TypeOK, Goto, Exit
<1>1. CASE SyncAll \/ OsSignal \/ Kill
  <2>1. UNCHANGED <<healthVars, handler, shutdown, pc>>
    BY <1>1 DEF SyncAll, OsSignal, Kill
  <2>2. synced => synced'
    BY <1>1, Zenon DEF SyncAll, OsSignal, Kill
  <2>3. mstatus' = <<"ready">> => mstatus = <<"ready">> \/ synced'
    BY <1>1 DEF SyncAll, OsSignal, Kill
  <2> QED
    BY <2>1, <2>2, <2>3 DEF StopsKept
<1>2. ASSUME NEW s \in Shutters, StopServices(s) \/ Unblock(s)
      PROVE  /\ UNCHANGED <<healthVars, synced, mstatus, handler>>
             /\ \A r \in Shutters : shutdown'[r] = "none" <=> shutdown[r] = "none"
             /\ \A r \in Shutters : shutdown'[r] \in {"none", "recording"} <=> shutdown[r] \in {"none", "recording"}
             /\ pc'["main"] \in {pc["main"], "done"}
  BY <1>2 DEF StopServices, Unblock
<1>3. ASSUME NEW t \in Threads, Attempt(t) \/ OnReadyDone(t) \/ AttemptFailed(t)
      PROVE  UNCHANGED <<healthVars, synced, handler, shutdown>> /\ mstatus' \in {mstatus, <<>>}
             /\ (pc["main"] \in {"block", "done"} => pc'["main"] = pc["main"])
  BY <1>3 DEF Attempt, OnReadyDone, AttemptFailed, Threads
<1>4. CASE PrepareProxy \/ PrepareProducer \/ BuildProducer \/ StartAdmin \/ StartApi
           \/ RegisterShutdownHandler \/ Retry
  <2>1. UNCHANGED <<healthVars, mstatus, synced, shutdown>>
    BY <1>4 DEF PrepareProxy, PrepareProducer, BuildProducer, StartAdmin, StartApi,
                RegisterShutdownHandler, Retry
  <2>2. ASSUME RegisterShutdownHandler PROVE handler' = "waiting" /\ pc'["main"] = "block" /\ handler = "none"
    BY <2>2 DEF RegisterShutdownHandler, StopsKept, Threads
  <2>3. ASSUME Retry PROVE handler' = handler /\ pc'["main"] = pc["main"]
    BY <2>3 DEF Retry
  <2>4. ASSUME PrepareProxy \/ PrepareProducer \/ BuildProducer \/ StartAdmin \/ StartApi
        PROVE  handler' = "none" /\ handler = "none"
    BY <2>4 DEF PrepareProxy, PrepareProducer, BuildProducer, StartAdmin, StartApi, StopsKept
  <2> QED
    <3>1. /\ handler' # "spent" => handler # "spent"
          /\ handler' # "none" => pc'["main"] \in {"block", "done"}
      <4>1. handler # "none" => pc["main"] \in {"block", "done"}
        BY DEF StopsKept
      <4> QED
        BY <1>4, <2>2, <2>3, <2>4, <4>1
    <3> QED
      BY <2>1, <3>1
<1> QED
  <2>1. handler # "none" => pc["main"] \in {"block", "done"}
    BY DEF StopsKept
  <2>2. ASSUME NEW s \in Shutters, StopServices(s) \/ Unblock(s)
        PROVE  handler' # "none" => pc'["main"] \in {"block", "done"}
    BY <1>2, <2>1, <2>2
  <2>3. ASSUME NEW t \in Threads, Attempt(t) \/ OnReadyDone(t) \/ AttemptFailed(t)
        PROVE  handler' # "none" => pc'["main"] \in {"block", "done"}
    BY <1>3, <2>1, <2>3
  <2> QED
    BY <1>1, <1>2, <1>3, <1>4, <2>2, <2>3 DEF Plain

LEMMA PlainKeeps ==
    ASSUME ProcessInv, Plain
    PROVE  ProcessInv'
<1>1. TypeOK'
  BY PlainTyped DEF ProcessInv
<1>2. /\ UNCHANGED healthVars /\ (synced => synced')
      /\ (mstatus' = <<"ready">> => mstatus = <<"ready">> \/ synced')
      /\ (handler' # "spent" => handler # "spent")
      /\ \A s \in Shutters : shutdown'[s] = "none" <=> shutdown[s] = "none"
      /\ \A s \in Shutters : shutdown'[s] \in {"none", "recording"} <=> shutdown[s] \in {"none", "recording"}
  BY PlainIs DEF ProcessInv
<1>3. ShuttingDown' <=> ShuttingDown
  BY <1>2 DEF ShuttingDown
<1> USE DEF ProcessInv, healthVars
<1>4. RolesKept' /\ Exclusive'
  BY <1>2 DEF RolesKept, Exclusive, Reading, Writing
<1>5. BlankUntilSynced'
  BY <1>2 DEF BlankUntilSynced
<1>6. LoopsKept'
  BY <1>2, <1>3 DEF LoopsKept
<1>7. StopsKept'
  <2>1. handler' # "none" => pc'["main"] \in {"block", "done"}
    BY PlainIs
  <2> QED
    BY <1>2, <2>1, WritersAre DEF StopsKept, Unstopped
<1>8. SinceKept'
  BY <1>2 DEF SinceKept
<1> QED
  BY <1>1, <1>4, <1>5, <1>6, <1>7, <1>8

-----------------------------------------------------------------------------
(* Steps that start the monitors, or begin to stop them                    *)

\* A shutdown waits for the tasks that record, or goes on to the monitors.
TurnsTo(s) ==
    /\ Unstopped(s)
    /\ \/ shutdown' = [shutdown EXCEPT ![s] = "recording"] /\ UNCHANGED writer
       \/ /\ shutdown' = [shutdown EXCEPT ![s] = "monitors"]
          /\ writer' = [writer EXCEPT ![s].at = "stop"]

\* Each moves one writer, from rest, and nothing else of the monitors.
LEMMA TurningIs ==
    ASSUME ProcessInv, Turning
    PROVE  /\ UNCHANGED <<counterVars, storage, healthySince, call, report, synced>>
           /\ mstatus' \in {mstatus, <<>>}
           /\ \/ UNCHANGED <<writer, shutdown>>
              \/ /\ synced /\ UNCHANGED shutdown
                 /\ writer' = [writer EXCEPT ![Starter].at = "start"]
              \/ \E s \in Shutters : TurnsTo(s)
           /\ handler' # "spent" => handler # "spent" /\ shutdown'[SignalHandler] = shutdown[SignalHandler]
           /\ handler' # "none" => handler # "none"
           /\ pc["main"] \in {"block", "done"} => pc'["main"] = pc["main"]
<1>1. ASSUME NEW t \in Threads, OnReady(t)
      PROVE  /\ UNCHANGED <<counterVars, storage, healthySince, call, report, synced, shutdown, handler>>
             /\ mstatus' = <<>> /\ synced /\ writer' = [writer EXCEPT ![Starter].at = "start"]
             /\ pc["main"] \in {"block", "done"} => pc'["main"] = pc["main"]
  <2>1. /\ UNCHANGED <<counterVars, storage, healthySince, call, report, synced, shutdown, handler>>
        /\ mstatus' = <<>> /\ writer' = [writer EXCEPT ![Starter].at = "start"]
    BY <1>1 DEF OnReady
  <2>2. synced
    BY <1>1, Zenon DEF OnReady, ProcessInv, BlankUntilSynced
  <2>3. pc["main"] \in {"block", "done"} => pc'["main"] = pc["main"]
    BY <1>1 DEF OnReady, Goto, ProcessInv, TypeOK, Threads
  <2> QED
    BY <2>1, <2>2, <2>3
<1>2. ASSUME NEW s \in Shutters, RequestShutdown(s)
      PROVE  /\ UNCHANGED <<counterVars, storage, healthySince, call, report, synced, mstatus, handler, pc>>
             /\ TurnsTo(s) /\ shutdown'[SignalHandler] = shutdown[SignalHandler]
  <2>1. shutdown \in [Shutters -> {"none", "recording", "monitors", "blocker"}]
    BY DEF ProcessInv, TypeOK
  <2> QED
    BY <1>2, <2>1, WritersAre DEF RequestShutdown, StopManager, StopMonitors, TurnsTo, Unstopped, healthVars, counterVars
<1>3. CASE HandleSignal
  <2>1. /\ UNCHANGED <<counterVars, storage, healthySince, call, report, synced, mstatus, pc>>
        /\ handler = "waiting" /\ handler' = "spent"
        /\ \/ UNCHANGED <<writer, shutdown>>
           \/ shutdown' = [shutdown EXCEPT ![SignalHandler] = "recording"] /\ UNCHANGED writer
           \/ /\ shutdown' = [shutdown EXCEPT ![SignalHandler] = "monitors"]
              /\ writer' = [writer EXCEPT ![SignalHandler].at = "stop"]
    BY <1>3 DEF HandleSignal, StopManager, StopMonitors, healthVars, counterVars
  <2>2. shutdown[SignalHandler] = "none"
    BY <2>1 DEF ProcessInv, StopsKept
  <2>3. UNCHANGED <<writer, shutdown>> \/ TurnsTo(SignalHandler)
    BY <2>1, <2>2 DEF TurnsTo, Unstopped
  <2> QED
    BY <2>1, <2>3, WritersAre
<1>4. ASSUME NEW s \in Shutters, StopPeriodicDataRecording(s)
      PROVE  /\ UNCHANGED <<counterVars, storage, healthySince, call, report, synced, mstatus, handler, pc>>
             /\ UNCHANGED <<writer, shutdown>> \/ TurnsTo(s)
             /\ handler # "spent" => shutdown'[SignalHandler] = shutdown[SignalHandler]
  <2>1. /\ UNCHANGED <<counterVars, storage, healthySince, call, report, synced, mstatus, handler, pc>>
        /\ shutdown[s] = "recording"
        /\ \/ UNCHANGED <<writer, shutdown>>
           \/ /\ shutdown' = [shutdown EXCEPT ![s] = "monitors"]
              /\ writer' = [writer EXCEPT ![s].at = "stop"]
    BY <1>4 DEF StopPeriodicDataRecording, StopMonitors, healthVars, counterVars
  <2>2. handler # "spent" => s # SignalHandler
    BY <2>1 DEF ProcessInv, StopsKept
  <2>3. shutdown \in [Shutters -> {"none", "recording", "monitors", "blocker"}]
    BY DEF ProcessInv, TypeOK
  <2> QED
    BY <2>1, <2>2, <2>3, WritersAre DEF TurnsTo, Unstopped
<1> QED
  BY <1>1, <1>2, <1>3, <1>4 DEF Turning

LEMMA TurningTyped ==
    ASSUME ProcessInv, Turning
    PROVE  TypeOK'
<1>1. HealthTypeOK'
  <2>1. writer' \in [Writers -> [at : WriterStates, c : Counters, todo : SUBSET Counters]]
    <3>1. writer \in [Writers -> [at : WriterStates, c : Counters, todo : SUBSET Counters]]
      BY DEF ProcessInv, TypeOK, HealthTypeOK
    <3>2. \/ writer' = writer \/ writer' = [writer EXCEPT ![Starter].at = "start"]
          \/ \E s \in Shutters : writer' = [writer EXCEPT ![s].at = "stop"]
      BY TurningIs DEF TurnsTo
    <3> QED
      BY <3>1, <3>2, WritersAre DEF WriterStates
  <2>2. UNCHANGED <<counterVars, storage, healthySince, call, report>>
    BY TurningIs
  <2>3. HealthTypeOK
    BY DEF ProcessInv, TypeOK
  <2> QED
    BY <2>1, <2>2, <2>3 DEF HealthTypeOK, counterVars
<1>2. shutdown' \in [Shutters -> {"none", "recording", "monitors", "blocker"}] /\ synced' \in BOOLEAN /\ mstatus' \in {mstatus, <<>>}
  <2>1. shutdown \in [Shutters -> {"none", "recording", "monitors", "blocker"}] /\ synced \in BOOLEAN
    BY DEF ProcessInv, TypeOK
  <2>2. \/ UNCHANGED shutdown
        \/ \E s \in Shutters : \/ shutdown' = [shutdown EXCEPT ![s] = "recording"]
                               \/ shutdown' = [shutdown EXCEPT ![s] = "monitors"]
    BY TurningIs DEF TurnsTo
  <2> QED
    BY <2>1, <2>2, TurningIs
<1>3. TypeOK
  BY DEF ProcessInv
<1> USE DEF TypeOK
<1>4. ASSUME NEW t \in Threads, OnReady(t) PROVE TypeOK'
  BY <1>1, <1>2, <1>3, <1>4 DEF OnReady, Goto, Threads
<1>5. ASSUME NEW s \in Shutters, RequestShutdown(s) PROVE TypeOK'
  BY <1>1, <1>2, <1>3, <1>5 DEF RequestShutdown, StopManager
<1>6. ASSUME NEW s \in Shutters, StopPeriodicDataRecording(s) PROVE TypeOK'
  BY <1>1, <1>2, <1>3, <1>6 DEF StopPeriodicDataRecording
<1>7. CASE HandleSignal
  <2>1. manager' \in {manager, "stopping"} /\ exit' \in {exit, "killed"}
        /\ signals' = <<>> /\ handler' = "spent"
    BY <1>3, <1>7 DEF HandleSignal, StopManager
  <2>2. UNCHANGED <<mode, snapshot, pc, mstatus, synced, services, adminUp, apiUp>>
    BY <1>7 DEF HandleSignal
  <2> QED
    BY <1>1, <1>2, <1>3, <2>1, <2>2
<1> QED
  BY <1>4, <1>5, <1>6, <1>7 DEF Turning

LEMMA TurningKeeps ==
    ASSUME ProcessInv, Turning
    PROVE  ProcessInv'
<1>1. TypeOK'
  BY TurningTyped
<1>2. /\ UNCHANGED <<counterVars, storage, healthySince, call, report, synced>>
      /\ mstatus' \in {mstatus, <<>>}
  BY TurningIs
<1>3. PICK w \in Writers : /\ \A v \in Writers \ {w} : writer'[v] = writer[v]
                           /\ \/ writer'[w] = writer[w]
                              \/ w = Starter /\ synced /\ writer'[w].at = "start"
                              \/ w \in Shutters /\ shutdown'[w] = "monitors" /\ writer'[w].at = "stop"
                           /\ \A s \in Shutters \ {w} : shutdown'[s] = shutdown[s]
                           /\ w \in Shutters => \/ shutdown'[w] \in {shutdown[w], "monitors"}
                                                \/ Unstopped(w) /\ shutdown'[w] = "recording"
  <2>1. /\ writer \in [Writers -> [at : WriterStates, c : Counters, todo : SUBSET Counters]]
        /\ shutdown \in [Shutters -> {"none", "recording", "monitors", "blocker"}]
    BY DEF ProcessInv, TypeOK, HealthTypeOK
  <2>2. CASE UNCHANGED <<writer, shutdown>>
    BY <2>2, WritersAre
  <2>3. CASE synced /\ UNCHANGED shutdown /\ writer' = [writer EXCEPT ![Starter].at = "start"]
    BY <2>1, <2>3, WritersAre
  <2>4. ASSUME NEW s \in Shutters, TurnsTo(s)
        PROVE  /\ \A v \in Writers \ {s} : writer'[v] = writer[v]
               /\ s \in Writers
               /\ \/ shutdown'[s] = "monitors" /\ writer'[s].at = "stop"
                  \/ Unstopped(s) /\ shutdown'[s] = "recording" /\ writer'[s] = writer[s]
               /\ \A r \in Shutters \ {s} : shutdown'[r] = shutdown[r]
    BY <2>1, <2>4, WritersAre DEF TurnsTo
  <2> QED
    BY <2>2, <2>3, <2>4, TurningIs
<1>4. ShuttingDown => ShuttingDown'
  BY <1>3, WritersAre DEF ShuttingDown
<1>5. \A v \in Writers : Writing(v)' => Writing(v)
  BY <1>3 DEF Writing
<1> USE DEF ProcessInv
<1>6. RolesKept'
  BY <1>2 DEF RolesKept
<1>7. Exclusive'
  BY <1>2, <1>5 DEF Exclusive, Reading
<1>8. BlankUntilSynced'
  <2>1. SUFFICES ASSUME ~synced' PROVE BlankUntilSynced'
    BY Zenon DEF BlankUntilSynced
  <2>2. ~synced
    BY <1>2, <2>1
  <2>3. \A v \in Writers : writer'[v].at \in {"idle", "stop", "stopping"}
    BY <1>3, <2>2 DEF BlankUntilSynced
  <2>4. mstatus' # <<"ready">>
    BY <1>2, <2>2 DEF BlankUntilSynced
  <2> QED
    BY <1>2, <2>2, <2>3, <2>4 DEF BlankUntilSynced, counterVars
<1>9. LoopsKept'
  BY <1>2, <1>4 DEF LoopsKept, counterVars
<1>10. StopsKept'
  <2>1. writer'[Starter].at \in {"idle", "start", "starting"}
    BY <1>3, WritersAre DEF StopsKept
  <2>2. \A s \in Shutters : Unstopped(s)' => writer'[s].at = "idle"
    BY <1>3, WritersAre DEF StopsKept, Unstopped
  <2>3. handler' # "spent" => shutdown'[SignalHandler] = "none"
    BY TurningIs DEF StopsKept
  <2>4. handler' # "none" => pc'["main"] \in {"block", "done"}
    <3>1. CASE HandleSignal
      BY <3>1 DEF HandleSignal, StopsKept
    <3>2. CASE ~HandleSignal
      BY <3>2, TurningIs DEF StopsKept
    <3> QED
      BY <3>1, <3>2
  <2> QED
    BY <2>1, <2>2, <2>3, <2>4 DEF StopsKept
<1>11. SinceKept'
  BY <1>2 DEF SinceKept, counterVars
<1> QED
  BY <1>1, <1>6, <1>7, <1>8, <1>9, <1>10, <1>11

-----------------------------------------------------------------------------
(* Steps of the goroutines of the counters                                 *)

LEMMA LoopTyped ==
    ASSUME ProcessInv, NEW c \in Counters, Loop(c), UNCHANGED processVars
    PROVE  TypeOK'
<1>1. HealthTypeOK
  BY DEF ProcessInv, TypeOK
<1> USE <1>1 DEF HealthTypeOK, LoopStates
<1>2. /\ loop' \in [Counters -> LoopStates] /\ resets' \in [Counters -> 0..1] /\ cancels' \in [Counters -> 0..1]
      /\ UNCHANGED <<lock, storage, healthySince, call, report, writer>>
  BY DEF Loop, CreateTimer, SelectTimer, SelectReset, SelectCancel, DeclareUnhealthy, RearmTimer, Leave
<1>3. running' \in [Counters -> BOOLEAN] /\ healthy' \in [Counters -> BOOLEAN]
  <2>1. /\ running' = running \/ running' = [running EXCEPT ![c] = FALSE]
        /\ healthy' = healthy \/ healthy' = [healthy EXCEPT ![c] = FALSE]
    BY DEF Loop, CreateTimer, SelectTimer, SelectReset, SelectCancel, DeclareUnhealthy, RearmTimer, Leave
  <2> QED
    BY <2>1
<1>4. HealthTypeOK'
  BY <1>2, <1>3
<1> QED
  BY <1>4 DEF processVars, TypeOK, ProcessInv

\* What each step of a goroutine changes.
LEMMA LoopIs ==
    ASSUME ProcessInv, NEW c \in Counters, Loop(c)
    PROVE  /\ UNCHANGED <<lock, storage, healthySince, call, report, writer>> /\ loop[c] # "none"
           /\ \A d \in Counters \ {c} : running'[d] = running[d] /\ healthy'[d] = healthy[d]
                                        /\ loop'[d] = loop[d] /\ resets'[d] = resets[d] /\ cancels'[d] = cancels[d]
           /\ \A d \in Counters : healthy'[d] => healthy[d]
           /\ cancels'[c] = 1 => cancels[c] = 1
           /\ loop'[c] = "none" => ~running'[c]
           /\ running'[c] => running[c]
           /\ loop'[c] = "leaving" => ~healthy'[c] \/ cancels[c] = 1
<1>1. HealthTypeOK
  BY DEF ProcessInv, TypeOK
<1> USE <1>1 DEF HealthTypeOK
<1>2. /\ UNCHANGED <<lock, storage, healthySince, call, report, writer>> /\ loop[c] # "none"
      /\ \A d \in Counters \ {c} : loop'[d] = loop[d] /\ resets'[d] = resets[d] /\ cancels'[d] = cancels[d]
      /\ cancels'[c] = 1 => cancels[c] = 1
  BY DEF Loop, CreateTimer, SelectTimer, SelectReset, SelectCancel, DeclareUnhealthy, RearmTimer, Leave
<1>3. /\ (running' = running /\ loop'[c] # "none") \/ running' = [running EXCEPT ![c] = FALSE]
      /\ healthy' = healthy \/ healthy' = [healthy EXCEPT ![c] = FALSE]
  BY DEF Loop, CreateTimer, SelectTimer, SelectReset, SelectCancel, DeclareUnhealthy, RearmTimer, Leave
<1>4. loop'[c] = "leaving" => healthy' = [healthy EXCEPT ![c] = FALSE] \/ cancels[c] = 1
  BY DEF Loop, CreateTimer, SelectTimer, SelectReset, SelectCancel, DeclareUnhealthy, RearmTimer, Leave
<1>5. \A d \in Counters \ {c} : running'[d] = running[d] /\ healthy'[d] = healthy[d]
  BY <1>3
<1>6. \A d \in Counters : healthy'[d] => healthy[d]
  BY <1>3
<1>7. (loop'[c] = "none" => ~running'[c]) /\ (running'[c] => running[c])
  BY <1>3
<1>8. loop'[c] = "leaving" => ~healthy'[c] \/ cancels[c] = 1
  BY <1>4
<1> QED
  BY <1>2, <1>5, <1>6, <1>7, <1>8

LEMMA LoopKeeps ==
    ASSUME ProcessInv, NEW c \in Counters, Loop(c), UNCHANGED processVars
    PROVE  ProcessInv'
<1>1. TypeOK'
  BY LoopTyped
<1>2. /\ UNCHANGED <<lock, storage, healthySince, call, report, writer>> /\ loop[c] # "none"
      /\ \A d \in Counters \ {c} : running'[d] = running[d] /\ healthy'[d] = healthy[d]
                                   /\ loop'[d] = loop[d] /\ resets'[d] = resets[d] /\ cancels'[d] = cancels[d]
      /\ \A d \in Counters : healthy'[d] => healthy[d]
      /\ cancels'[c] = 1 => cancels[c] = 1
      /\ loop'[c] = "none" => ~running'[c]
      /\ running'[c] => running[c]
      /\ loop'[c] = "leaving" => ~healthy'[c] \/ cancels[c] = 1
  BY LoopIs
<1> USE DEF ProcessInv
<1>3. RolesKept' /\ Exclusive' /\ StopsKept'
  BY <1>2 DEF RolesKept, Exclusive, StopsKept, Unstopped, Reading, Writing, processVars
<1>4. BlankUntilSynced'
  <2>1. synced
    BY <1>2, Zenon DEF BlankUntilSynced
  <2>2. synced'
    BY <2>1 DEF processVars
  <2> QED
    BY <2>2 DEF BlankUntilSynced
<1>5. LoopsKept'
  <2>1. ShuttingDown' <=> ShuttingDown
    BY DEF ShuttingDown, processVars
  <2>2. cancels[c] = 1 => ShuttingDown
    BY DEF LoopsKept
  <2>3. /\ running'[c] => loop'[c] # "none"
        /\ loop'[c] = "leaving" => ~healthy'[c] \/ ShuttingDown'
        /\ cancels'[c] = 1 => ShuttingDown'
    BY <1>2, <2>1, <2>2
  <2>4. ASSUME NEW d \in Counters, d # c
        PROVE  /\ running'[d] => loop'[d] # "none"
               /\ loop'[d] = "leaving" => ~healthy'[d] \/ ShuttingDown'
               /\ cancels'[d] = 1 => ShuttingDown'
    BY <1>2, <2>1, <2>4 DEF LoopsKept
  <2> QED
    BY <2>3, <2>4 DEF LoopsKept
<1>6. SinceKept'
  BY <1>2 DEF SinceKept
<1> QED
  BY <1>1, <1>3, <1>4, <1>5, <1>6

-----------------------------------------------------------------------------
(* Steps of those who call the monitor                                     *)

\* A call begins, or goes on.
Calling(k) == MonitorCall(k) \/ Client(k)

LEMMA CallTyped ==
    ASSUME ProcessInv, NEW k \in Clients, Calling(k), UNCHANGED processVars
    PROVE  TypeOK'
<1>1. HealthTypeOK /\ RolesKept
  BY DEF ProcessInv, TypeOK
<1> USE <1>1 DEF HealthTypeOK, CallStates, Clients
<1> DEFINE Call == [at : CallStates, c : Counters, todo : SUBSET Counters, ok : BOOLEAN]
<1>0. NoCall \in Call
  BY HealthAssumption DEF NoCall
<1>2. call' \in [Clients -> Call]
  <2>1. call \in [Clients -> Call] /\ call[k] \in Call
    BY DEF Clients
  <2>2. ASSUME NEW c \in Counters, NotifyHit(k, c) \/ ResetThreshold(k, c) PROVE call' \in [Clients -> Call]
    BY <2>1, <2>2 DEF NotifyHit, ResetThreshold
  <2>3. ASSUME GetHealthStatus(k) PROVE call' \in [Clients -> Call]
    BY <2>1, <2>3 DEF GetHealthStatus
  <2>4. ASSUME NEW c \in Counters, IsHealthy(k, c) PROVE call' \in [Clients -> Call]
    BY <2>1, <2>4 DEF IsHealthy
  <2>5. ASSUME SendHit(k) PROVE call' \in [Clients -> Call]
    BY <2>1, <2>5 DEF SendHit, Step
  <2>6. ASSUME UpdateLastHit(k) \/ SendReset(k) \/ AnswerStatus(k) PROVE call' \in [Clients -> Call]
    BY <1>0, <2>1, <2>6 DEF UpdateLastHit, SendReset, AnswerStatus, Return
  <2>7. ASSUME NEW valid \in BOOLEAN, LockToReset(k, valid) PROVE call' \in [Clients -> Call]
    <3>1. call' = [call EXCEPT ![k] = NoCall] \/ call' = [call EXCEPT ![k].at = "resetSend"]
      BY <2>7, Zenon DEF LockToReset, Step, Return
    <3>2. CASE call' = [call EXCEPT ![k] = NoCall]
      BY <1>0, <2>1, <3>2
    <3>3. CASE call' = [call EXCEPT ![k].at = "resetSend"]
      BY <2>1, <3>3
    <3> QED
      BY <3>1, <3>2, <3>3
  <2> QED
    BY <2>2, <2>3, <2>4, <2>5, <2>6, <2>7 DEF Calling, MonitorCall, Client
<1>3. /\ UNCHANGED <<running, healthy, loop, cancels, storage, writer>>
      /\ resets' \in [Counters -> 0..1] /\ lock' \in [Counters -> Updaters \cup Writers \cup {Free}]
  <2>1. CASE \E valid \in BOOLEAN : LockToReset(k, valid)
    <3>1. PICK valid \in BOOLEAN : LockToReset(k, valid)
      BY <2>1
    <3>2. /\ UNCHANGED <<running, healthy, loop, cancels>> /\ call[k].at = "resetLock"
          /\ resets' = resets \/ resets' = [resets EXCEPT ![call[k].c] = 1]
          /\ lock' = lock \/ lock' = [lock EXCEPT ![call[k].c] = k]
      BY <3>1, Zenon DEF LockToReset
    <3>3. UNCHANGED <<storage, writer>>
      BY DEF Calling, MonitorCall, Client
    <3>4. k \in Updaters
      BY <3>2 DEF RolesKept
    <3> QED
      BY <3>2, <3>3, <3>4
  <2>2. CASE ~\E valid \in BOOLEAN : LockToReset(k, valid)
    <3>1. UNCHANGED <<running, healthy, loop, cancels, storage, writer>>
      BY <2>2 DEF Calling, MonitorCall, Client, NotifyHit, ResetThreshold, GetHealthStatus, IsHealthy, SendHit,
                  UpdateLastHit, SendReset, AnswerStatus, counterVars
    <3>2. resets' = resets \/ resets' = [resets EXCEPT ![call[k].c] = 1]
      BY <2>2, Zenon DEF Calling, MonitorCall, Client, NotifyHit, ResetThreshold, GetHealthStatus, IsHealthy, SendHit,
                  UpdateLastHit, SendReset, AnswerStatus, counterVars
    <3>3. lock' = lock \/ lock' = [lock EXCEPT ![call[k].c] = Free]
      BY <2>2, Zenon DEF Calling, MonitorCall, Client, NotifyHit, ResetThreshold, GetHealthStatus, IsHealthy, SendHit,
                  UpdateLastHit, SendReset, AnswerStatus, counterVars
    <3>4. resets' \in [Counters -> 0..1]
      BY <3>2
    <3>5. lock' \in [Counters -> Updaters \cup Writers \cup {Free}]
      BY <3>3
    <3> QED
      BY <3>1, <3>4, <3>5
  <2> QED
    BY <2>1, <2>2
<1>4. healthySince' \in BOOLEAN /\ report' \in [Readers -> [healthy : BOOLEAN, since : BOOLEAN]]
  <2>1. CASE AnswerStatus(k)
    BY <2>1 DEF AnswerStatus
  <2>2. CASE ~AnswerStatus(k)
    <3>1. UNCHANGED <<healthySince, report>>
      BY <2>2 DEF Calling, MonitorCall, Client, NotifyHit, ResetThreshold, GetHealthStatus, IsHealthy, SendHit,
                  UpdateLastHit, SendReset, LockToReset
    <3> QED
      BY <3>1
  <2> QED
    BY <2>1, <2>2
<1>5. HealthTypeOK'
  BY <1>2, <1>3, <1>4 DEF Clients
<1> QED
  BY <1>5 DEF processVars, TypeOK, ProcessInv

\* What each step of a call changes: a call begins when nobody writes, and for a
\* counter that runs unless it asks for the status; a status goes by what was found.
LEMMA CallIs ==
    ASSUME ProcessInv, NEW k \in Clients, Calling(k)
    PROVE  /\ UNCHANGED <<running, healthy, loop, cancels, storage, writer>>
           /\ \A j \in Clients \ {k} : call'[j] = call[j]
           /\ \A j \in Readers \ {k} : report'[j] = report[j]
           /\ call'[k].at = "idle" \/ call[k].at # "idle" \/ CanRead
           /\ call'[k].at \notin {"idle", "reading"} =>
                 call[k].at \notin {"idle", "reading"} \/ \E c \in Counters : running[c]
           /\ k \in Readers => call'[k].at \in {"idle", "reading"}
           /\ k \in Updaters => call'[k].at # "reading"
           /\ ~call'[k].ok => ~call[k].ok \/ \E c \in Counters : ~healthy[c]
           /\ ~healthySince' => ~healthySince \/ ~call[k].ok
           /\ k \in Readers => report'[k] = report[k] \/ (report'[k].since => report'[k].healthy)
<1>0. /\ call \in [Clients -> [at : CallStates, c : Counters, todo : SUBSET Counters, ok : BOOLEAN]]
      /\ report \in [Readers -> [healthy : BOOLEAN, since : BOOLEAN]]
      /\ RolesKept /\ Updaters \cap Readers = {} /\ Clients = Updaters \cup Readers
      /\ NoCall.at = "idle" /\ NoCall.ok = TRUE
  BY HealthAssumption DEF ProcessInv, TypeOK, HealthTypeOK, Clients, NoCall
<1>1. ASSUME NEW c \in Counters, k \in Updaters, NotifyHit(k, c) \/ ResetThreshold(k, c), UNCHANGED <<storage, writer>>
      PROVE  /\ UNCHANGED <<running, healthy, loop, cancels, storage, writer, healthySince, report>>
             /\ \A j \in Clients \ {k} : call'[j] = call[j]
             /\ CanRead /\ running[c] /\ call'[k].at \in {"hitSend", "resetLock"} /\ call'[k].ok = call[k].ok
  BY <1>0, <1>1 DEF NotifyHit, ResetThreshold, counterVars
<1>2. ASSUME k \in Readers, GetHealthStatus(k), UNCHANGED <<storage, writer>>
      PROVE  /\ UNCHANGED <<running, healthy, loop, cancels, storage, writer, healthySince, report>>
             /\ \A j \in Clients \ {k} : call'[j] = call[j]
             /\ CanRead /\ call'[k].at = "reading" /\ call'[k].ok = call[k].ok
  BY <1>0, <1>2 DEF GetHealthStatus, counterVars
<1>3. ASSUME NEW c \in Counters, IsHealthy(k, c), UNCHANGED <<storage, writer>>
      PROVE  /\ UNCHANGED <<running, healthy, loop, cancels, storage, writer, healthySince, report>>
             /\ \A j \in Clients \ {k} : call'[j] = call[j]
             /\ call[k].at = "reading" /\ call'[k].at = "reading" /\ call'[k].ok = (call[k].ok /\ healthy[c])
  BY <1>0, <1>3 DEF IsHealthy, counterVars
<1>4. ASSUME SendHit(k), UNCHANGED <<storage, writer>>
      PROVE  /\ UNCHANGED <<running, healthy, loop, cancels, storage, writer, healthySince, report>>
             /\ \A j \in Clients \ {k} : call'[j] = call[j]
             /\ call[k].at = "hitSend" /\ call'[k].at = "hitUpdate" /\ call'[k].ok = call[k].ok
  BY <1>0, <1>4 DEF SendHit, Step
<1>5. ASSUME UpdateLastHit(k) \/ SendReset(k), UNCHANGED <<storage, writer>>
      PROVE  /\ UNCHANGED <<running, healthy, loop, cancels, storage, writer, healthySince, report>>
             /\ \A j \in Clients \ {k} : call'[j] = call[j]
             /\ call'[k] = NoCall
  BY <1>0, <1>5 DEF UpdateLastHit, SendReset, Return, counterVars
<1>6. ASSUME NEW valid \in BOOLEAN, LockToReset(k, valid), UNCHANGED <<storage, writer>>
      PROVE  /\ UNCHANGED <<running, healthy, loop, cancels, storage, writer, healthySince, report>>
             /\ \A j \in Clients \ {k} : call'[j] = call[j]
             /\ call[k].at = "resetLock"
             /\ call'[k] = NoCall \/ (call'[k].at = "resetSend" /\ call'[k].ok = call[k].ok)
  <2>1. /\ UNCHANGED <<running, healthy, loop, cancels, storage, writer, healthySince, report>>
        /\ call[k].at = "resetLock"
        /\ call' = [call EXCEPT ![k] = NoCall] \/ call' = [call EXCEPT ![k].at = "resetSend"]
    BY <1>6, Zenon DEF LockToReset, Step, Return
  <2> QED
    BY <1>0, <2>1
<1>7. ASSUME AnswerStatus(k), UNCHANGED <<storage, writer>>
      PROVE  /\ UNCHANGED <<running, healthy, loop, cancels, storage, writer>>
             /\ \A j \in Clients \ {k} : call'[j] = call[j]
             /\ \A j \in Readers \ {k} : report'[j] = report[j]
             /\ call'[k] = NoCall /\ (~healthySince' => ~healthySince \/ ~call[k].ok)
             /\ k \in Readers => (report'[k].since => report'[k].healthy)
  <2>1. /\ UNCHANGED <<running, healthy, loop, cancels, storage, writer>>
        /\ call' = [call EXCEPT ![k] = NoCall] /\ healthySince' = (healthySince /\ call[k].ok)
        /\ report' = [report EXCEPT ![k] = [healthy |-> call[k].ok, since |-> healthySince']]
    BY <1>7 DEF AnswerStatus, Return, counterVars
  <2>2. \A j \in Readers \ {k} : report'[j] = report[j]
    BY <1>0, <2>1
  <2>3. k \in Readers => report'[k].healthy = call[k].ok /\ report'[k].since = healthySince'
    BY <1>0, <2>1
  <2>4. (~healthySince' => ~healthySince \/ ~call[k].ok) /\ (healthySince' => call[k].ok)
    BY <2>1
  <2> QED
    BY <1>0, <2>1, <2>2, <2>3, <2>4
<1>8. UNCHANGED <<storage, writer>>
  BY DEF Calling, MonitorCall, Client
<1>9. \/ k \in Updaters /\ \E c \in Counters : NotifyHit(k, c) \/ ResetThreshold(k, c)
      \/ k \in Readers /\ GetHealthStatus(k)
      \/ \E c \in Counters : IsHealthy(k, c)
      \/ SendHit(k) \/ UpdateLastHit(k) \/ SendReset(k) \/ AnswerStatus(k)
      \/ \E valid \in BOOLEAN : LockToReset(k, valid)
  BY DEF Calling, MonitorCall, Client
<1>10. CASE k \in Updaters /\ \E c \in Counters : NotifyHit(k, c) \/ ResetThreshold(k, c)
  BY <1>0, <1>1, <1>8, <1>10
<1>11. CASE k \in Readers /\ GetHealthStatus(k)
  BY <1>0, <1>2, <1>8, <1>11
<1>12. CASE \E c \in Counters : IsHealthy(k, c)
  BY <1>0, <1>3, <1>8, <1>12 DEF RolesKept
<1>13. CASE SendHit(k)
  BY <1>0, <1>4, <1>8, <1>13 DEF RolesKept
<1>14. CASE UpdateLastHit(k) \/ SendReset(k)
  BY <1>0, <1>5, <1>8, <1>14
<1>15. CASE \E valid \in BOOLEAN : LockToReset(k, valid)
  BY <1>0, <1>6, <1>8, <1>15 DEF RolesKept
<1>16. CASE AnswerStatus(k)
  BY <1>0, <1>7, <1>8, <1>16
<1> QED
  BY <1>9, <1>10, <1>11, <1>12, <1>13, <1>14, <1>15, <1>16

LEMMA CallKeeps ==
    ASSUME ProcessInv, NEW k \in Clients, Calling(k), UNCHANGED processVars
    PROVE  ProcessInv'
<1>1. TypeOK'
  BY CallTyped
<1>2. /\ UNCHANGED <<running, healthy, loop, cancels, storage, writer>>
      /\ \A j \in Clients \ {k} : call'[j] = call[j]
      /\ \A j \in Readers \ {k} : report'[j] = report[j]
      /\ call'[k].at = "idle" \/ call[k].at # "idle" \/ CanRead
      /\ call'[k].at \notin {"idle", "reading"} =>
            call[k].at \notin {"idle", "reading"} \/ \E c \in Counters : running[c]
      /\ k \in Readers => call'[k].at \in {"idle", "reading"}
      /\ k \in Updaters => call'[k].at # "reading"
  BY CallIs
<1>3. /\ ~call'[k].ok => ~call[k].ok \/ \E c \in Counters : ~healthy[c]
      /\ ~healthySince' => ~healthySince \/ ~call[k].ok
      /\ k \in Readers => report'[k] = report[k] \/ (report'[k].since => report'[k].healthy)
  BY CallIs
<1> USE DEF ProcessInv
<1>4. RolesKept'
  BY <1>2 DEF RolesKept
<1>5. Exclusive'
  <2>1. SUFFICES ASSUME NEW w \in Writers, Writing(w)'
                 PROVE  /\ \A j \in Clients : ~Reading(j)'
                        /\ \A v \in Writers : Writing(v)' => v = w
    BY DEF Exclusive
  <2>2. Writing(w) /\ ~CanRead
    BY <1>2, <2>1 DEF Writing, CanRead
  <2>3. \A j \in Clients : call[j].at = "idle"
    BY <2>2 DEF Exclusive, Reading
  <2>4. \A v \in Writers : Writing(v)' <=> Writing(v)
    BY <1>2 DEF Writing
  <2> QED
    BY <1>2, <2>2, <2>3, <2>4 DEF Exclusive, Reading
<1>6. BlankUntilSynced'
  <2>1. SUFFICES ASSUME ~synced' PROVE BlankUntilSynced'
    BY Zenon DEF BlankUntilSynced
  <2>2. ~synced /\ mstatus' = mstatus
    BY <2>1 DEF processVars
  <2>3. \A j \in Clients : call'[j].at \in {"idle", "reading"}
    BY <1>2, <2>2 DEF BlankUntilSynced
  <2> QED
    BY <1>2, <2>2, <2>3 DEF BlankUntilSynced
<1>7. LoopsKept' /\ StopsKept'
  BY <1>2 DEF LoopsKept, StopsKept, Unstopped, ShuttingDown, processVars
<1>8. SinceKept'
  <2>1. ~call[k].ok \/ ~healthySince => \E c \in Counters : ~healthy[c]
    BY DEF SinceKept
  <2>2. (\E c \in Counters : ~healthy[c]) <=> (\E c \in Counters : ~healthy'[c])
    BY <1>2
  <2>3. \A j \in Clients : ~call'[j].ok => \E c \in Counters : ~healthy'[c]
    BY <1>2, <1>3, <2>1, <2>2 DEF SinceKept
  <2>4. \A j \in Readers : report'[j].since => report'[j].healthy
    BY <1>2, <1>3 DEF SinceKept
  <2>5. ~healthySince' => \E c \in Counters : ~healthy'[c]
    BY <1>3, <2>1, <2>2
  <2> QED
    BY <2>3, <2>4, <2>5 DEF SinceKept
<1> QED
  BY <1>1, <1>4, <1>5, <1>6, <1>7, <1>8

-----------------------------------------------------------------------------
(* Steps of those who start and stop the monitor                           *)

Writes(w) == Writer(w, mode = "producer")
WriterRecord == [at : WriterStates, c : Counters, todo : SUBSET Counters]

\* What each step of a start or a stop changes.
LEMMA WriterIs ==
    ASSUME ProcessInv, NEW w \in Writers, Writes(w)
    PROVE  /\ UNCHANGED <<healthy, resets, healthySince, call, report>>
           /\ writer' \in [Writers -> WriterRecord]
           /\ \A v \in Writers \ {w} : writer'[v] = writer[v]
           /\ writer[w].at # "idle"
           /\ writer'[w].at \in {"start", "starting"} <=> writer[w].at \in {"start", "starting"} /\ writer'[w].at # "idle"
           /\ Writing(w)' => Writing(w) \/ CanWrite(w)
           /\ writer'[w].at \in {"stopLock", "cancel"} =>
                 writer[w].at \in {"stopLock", "cancel"} \/ \E c \in Counters : running[c]
           /\ \A c \in Counters :
                 \/ running'[c] = running[c] /\ loop'[c] = loop[c]
                 \/ writer[w].at = "starting" /\ running'[c] = TRUE /\ loop'[c] = "starting"
           /\ \A c \in Counters : cancels'[c] = cancels[c] \/ writer[w].at \in {"stopLock", "cancel"}
<1>0. /\ writer \in [Writers -> WriterRecord] /\ writer[w] \in WriterRecord
      /\ running \in [Counters -> BOOLEAN] /\ loop \in [Counters -> LoopStates]
      /\ cancels \in [Counters -> 0..1]
  BY DEF ProcessInv, TypeOK, HealthTypeOK, WriterRecord
<1> USE <1>0 DEF WriterStates
<1>1. UNCHANGED <<healthy, resets, healthySince, call, report>>
  BY DEF Writes, Writer, LockMonitor, LockToStop, SendCancel, UnlockMonitor, StartCounter, StopCounter, counterVars
<1> DEFINE Idem == UNCHANGED <<running, loop, cancels>>
<1>2. ASSUME LockMonitor(w)
      PROVE  /\ Idem /\ writer' \in [Writers -> WriterRecord] /\ \A v \in Writers \ {w} : writer'[v] = writer[v]
             /\ CanWrite(w)
             /\ \/ writer[w].at = "start" /\ writer'[w].at = "starting"
                \/ writer[w].at = "stop" /\ writer'[w].at = "stopping"
  BY <1>2 DEF LockMonitor, counterVars, WriterRecord
<1>3. ASSUME NEW c \in Counters, CounterDone(w, c)
      PROVE  /\ writer' \in [Writers -> WriterRecord] /\ \A v \in Writers \ {w} : writer'[v] = writer[v]
             /\ writer'[w].at = IF writer[w].at = "starting" THEN "starting" ELSE "stopping"
  BY <1>3 DEF CounterDone, WriterRecord
<1>4. ASSUME NEW c \in Counters, StartCounter(w, c)
      PROVE  /\ UNCHANGED cancels /\ CounterDone(w, c) /\ writer[w].at = "starting"
             /\ \A d \in Counters :
                 \/ running'[d] = running[d] /\ loop'[d] = loop[d]
                 \/ running'[d] = TRUE /\ loop'[d] = "starting"
  BY <1>4 DEF StartCounter
<1>5. ASSUME NEW c \in Counters, StopCounter(w, c)
      PROVE  /\ Idem /\ writer' \in [Writers -> WriterRecord] /\ \A v \in Writers \ {w} : writer'[v] = writer[v]
             /\ writer[w].at = "stopping"
             /\ writer'[w].at = "stopping" \/ (writer'[w].at = "stopLock" /\ running[c])
  <2>1. Idem /\ writer[w].at = "stopping"
    BY <1>5 DEF StopCounter, counterVars
  <2>2. CASE ~running[c] /\ CounterDone(w, c)
    BY <1>3, <2>1, <2>2
  <2>3. CASE running[c] /\ writer' = [writer EXCEPT ![w].at = "stopLock", ![w].c = c]
    BY <2>1, <2>3 DEF WriterRecord
  <2> QED
    BY <1>5, <2>2, <2>3 DEF StopCounter
<1>6. ASSUME LockToStop(w)
      PROVE  /\ UNCHANGED <<running, loop>> /\ writer[w].at = "stopLock"
             /\ writer' \in [Writers -> WriterRecord] /\ \A v \in Writers \ {w} : writer'[v] = writer[v]
             /\ writer'[w].at \in {"stopping", "cancel"}
  <2>1. UNCHANGED <<running, loop>> /\ writer[w].at = "stopLock" /\ writer[w].c \in Counters
    BY <1>6 DEF LockToStop, WriterRecord
  <2>2. CASE CounterDone(w, writer[w].c)
    BY <1>3, <2>1, <2>2
  <2>3. CASE Advance(w, "cancel")
    BY <2>1, <2>3 DEF Advance, WriterRecord
  <2> QED
    BY <1>6, <2>2, <2>3 DEF LockToStop
<1>7. ASSUME SendCancel(w)
      PROVE  /\ UNCHANGED <<running, loop>> /\ writer[w].at = "cancel"
             /\ writer' \in [Writers -> WriterRecord] /\ \A v \in Writers \ {w} : writer'[v] = writer[v]
             /\ writer'[w].at = "stopping"
  <2>1. UNCHANGED <<running, loop>> /\ writer[w].at = "cancel" /\ writer[w].c \in Counters
        /\ CounterDone(w, writer[w].c)
    BY <1>7 DEF SendCancel, WriterRecord
  <2> QED
    BY <1>3, <2>1
<1>8. ASSUME UnlockMonitor(w, mode = "producer")
      PROVE  /\ Idem /\ writer' \in [Writers -> WriterRecord] /\ \A v \in Writers \ {w} : writer'[v] = writer[v]
             /\ writer[w].at \in {"starting", "stopping"} /\ writer'[w].at = "idle"
  BY <1>8 DEF UnlockMonitor, Advance, counterVars, WriterRecord
<1>9. CASE LockMonitor(w)
  BY <1>1, <1>2, <1>9 DEF Writing
<1>10. CASE \E c \in Counters : StartCounter(w, c)
  BY <1>1, <1>3, <1>4, <1>10 DEF Writing
<1>11. CASE \E c \in Counters : StopCounter(w, c)
  BY <1>1, <1>5, <1>11 DEF Writing
<1>12. CASE LockToStop(w)
  BY <1>1, <1>6, <1>12 DEF Writing
<1>13. CASE SendCancel(w)
  BY <1>1, <1>7, <1>13 DEF Writing
<1>14. CASE UnlockMonitor(w, mode = "producer")
  BY <1>1, <1>8, <1>14 DEF Writing
<1> QED
  BY <1>9, <1>10, <1>11, <1>12, <1>13, <1>14 DEF Writes, Writer

LEMMA WriterTyped ==
    ASSUME ProcessInv, NEW w \in Writers, Writes(w), UNCHANGED processVars
    PROVE  TypeOK'
<1>1. HealthTypeOK /\ TypeOK
  BY DEF ProcessInv, TypeOK
<1>2. /\ UNCHANGED <<healthy, resets, healthySince, call, report>>
      /\ writer' \in [Writers -> WriterRecord]
  BY WriterIs
<1> USE <1>1 DEF HealthTypeOK
<1>3. running' \in [Counters -> BOOLEAN] /\ loop' \in [Counters -> LoopStates]
  <2>1. \/ UNCHANGED <<running, loop>>
        \/ \E c \in Counters : running' = [running EXCEPT ![c] = TRUE] /\ loop' = [loop EXCEPT ![c] = "starting"]
    BY DEF Writes, Writer, LockMonitor, LockToStop, SendCancel, UnlockMonitor, StartCounter, StopCounter, counterVars
  <2>2. CASE UNCHANGED <<running, loop>>
    BY <2>2
  <2>3. ASSUME NEW c \in Counters, running' = [running EXCEPT ![c] = TRUE], loop' = [loop EXCEPT ![c] = "starting"]
        PROVE  running' \in [Counters -> BOOLEAN] /\ loop' \in [Counters -> LoopStates]
    <3>1. running' \in [Counters -> BOOLEAN]
      BY <2>3
    <3>2. loop' \in [Counters -> LoopStates]
      BY <2>3 DEF LoopStates
    <3> QED
      BY <3>1, <3>2
  <2> QED
    BY <2>1, <2>2, <2>3
<1>4. cancels' \in [Counters -> 0..1]
  <2>1. cancels' = cancels \/ cancels' = [cancels EXCEPT ![writer[w].c] = 1]
    BY Zenon DEF Writes, Writer, LockMonitor, LockToStop, SendCancel, UnlockMonitor, StartCounter, StopCounter,
                 counterVars
  <2> QED
    BY <2>1
<1>5. lock' \in [Counters -> Updaters \cup Writers \cup {Free}]
  <2>1. \/ lock' = lock \/ lock' = [lock EXCEPT ![writer[w].c] = w]
        \/ lock' = [lock EXCEPT ![writer[w].c] = Free]
    BY Zenon DEF Writes, Writer, LockMonitor, LockToStop, SendCancel, UnlockMonitor, StartCounter, StopCounter,
                 counterVars
  <2> QED
    BY <2>1
<1>6. storage' \in [running : BOOLEAN, errors : 0..MaxErrors, healthy : BOOLEAN]
  <2>1. \/ storage' = storage
        \/ storage' = [storage EXCEPT !.running = writer[w].at = "starting"]
    BY Zenon DEF Writes, Writer, LockMonitor, LockToStop, SendCancel, UnlockMonitor, StartCounter, StopCounter
  <2>2. (writer[w].at = "starting") \in BOOLEAN
    OBVIOUS
  <2> QED
    BY <2>1, <2>2
<1>7. HealthTypeOK'
  BY <1>2, <1>3, <1>4, <1>5, <1>6 DEF WriterRecord
<1> QED
  BY <1>7 DEF processVars, TypeOK

LEMMA WriterKeeps ==
    ASSUME ProcessInv, NEW w \in Writers, Writes(w), UNCHANGED processVars
    PROVE  ProcessInv'
<1>1. TypeOK'
  BY WriterTyped
<1>2. /\ UNCHANGED <<healthy, resets, healthySince, call, report>>
      /\ \A v \in Writers \ {w} : writer'[v] = writer[v]
      /\ writer' \in [Writers -> WriterRecord]
      /\ writer[w].at # "idle"
      /\ writer'[w].at \in {"start", "starting"} <=> writer[w].at \in {"start", "starting"} /\ writer'[w].at # "idle"
      /\ Writing(w)' => Writing(w) \/ CanWrite(w)
      /\ writer'[w].at \in {"stopLock", "cancel"} =>
            writer[w].at \in {"stopLock", "cancel"} \/ \E c \in Counters : running[c]
  BY WriterIs
<1>3. /\ \A c \in Counters :
            \/ running'[c] = running[c] /\ loop'[c] = loop[c]
            \/ writer[w].at = "starting" /\ running'[c] = TRUE /\ loop'[c] = "starting"
      /\ \A c \in Counters : cancels'[c] = cancels[c] \/ writer[w].at \in {"stopLock", "cancel"}
  BY WriterIs
<1> USE DEF ProcessInv
<1>4. RolesKept'
  BY <1>2 DEF RolesKept
<1>5. Exclusive'
  <2>1. \A v \in Writers \ {w} : Writing(v)' <=> Writing(v)
    BY <1>2 DEF Writing
  <2>2. \A k \in Clients : Reading(k)' <=> Reading(k)
    BY <1>2 DEF Reading
  <2>3. ASSUME Writing(w)'
        PROVE  (\A k \in Clients : ~Reading(k)) /\ \A v \in Writers \ {w} : ~Writing(v)
    BY <1>2, <2>3 DEF Exclusive, CanWrite
  <2> QED
    BY <2>1, <2>2, <2>3 DEF Exclusive
<1>6. BlankUntilSynced'
  <2>1. SUFFICES ASSUME ~synced' PROVE BlankUntilSynced'
    BY Zenon DEF BlankUntilSynced
  <2>2. ~synced /\ mstatus' = mstatus
    BY <2>1 DEF processVars
  <2>3. /\ mstatus # <<"ready">>
        /\ \A c \in Counters : ~running[c] /\ healthy[c] /\ loop[c] = "none"
        /\ \A k \in Clients : call[k].at \in {"idle", "reading"}
        /\ \A v \in Writers : writer[v].at \in {"idle", "stop", "stopping"}
    BY <2>2, Zenon DEF BlankUntilSynced
  <2>4. \A c \in Counters : ~running'[c] /\ loop'[c] = "none"
    BY <1>3, <2>3
  <2>5. \A v \in Writers : writer'[v].at \in {"idle", "stop", "stopping"}
    BY <1>2, <2>3 DEF WriterRecord, WriterStates
  <2> QED
    BY <1>2, <2>2, <2>3, <2>4, <2>5 DEF BlankUntilSynced
<1>7. ShuttingDown' <=> ShuttingDown
  BY DEF ShuttingDown, processVars
<1>8. writer[w].at \in {"stopLock", "cancel"} => ShuttingDown
  BY WritersAre DEF StopsKept, ShuttingDown, Unstopped
<1>9. LoopsKept'
  BY <1>2, <1>3, <1>7, <1>8 DEF LoopsKept
<1>10. StopsKept'
  <2>1. writer'[Starter].at \in {"idle", "start", "starting"}
    BY <1>2, WritersAre DEF StopsKept
  <2>2. \A s \in Shutters : Unstopped(s) => writer'[s].at = "idle"
    BY <1>2, WritersAre DEF StopsKept
  <2> QED
    BY <2>1, <2>2 DEF StopsKept, Unstopped, processVars
<1>11. SinceKept'
  BY <1>2 DEF SinceKept
<1> QED
  BY <1>1, <1>4, <1>5, <1>6, <1>9, <1>10, <1>11

-----------------------------------------------------------------------------
(* The theorems                                                            *)

LEMMA PeriodicKeeps ==
    ASSUME ProcessInv, Periodic, UNCHANGED processVars
    PROVE  ProcessInv'
<1>1. UNCHANGED <<counterVars, healthySince, call, report, writer>>
  BY DEF Periodic, NotifyError, NewPeriod
<1>2. storage' \in [running : BOOLEAN, errors : 0..MaxErrors, healthy : BOOLEAN]
  <2>1. storage \in [running : BOOLEAN, errors : 0..MaxErrors, healthy : BOOLEAN] /\ MaxErrors \in Nat
    BY HealthAssumption DEF ProcessInv, TypeOK, HealthTypeOK
  <2>2. (MaxErrors > storage.errors + 1) \in BOOLEAN /\ (storage.errors < MaxErrors => storage.errors + 1 \in 0..MaxErrors)
    BY <2>1
  <2>3. \/ storage.errors < MaxErrors /\ storage' = [storage EXCEPT !.errors = @ + 1, !.healthy = MaxErrors > storage.errors + 1]
        \/ storage' = [storage EXCEPT !.errors = 0, !.healthy = TRUE]
    BY DEF Periodic, NotifyError, NewPeriod
  <2>4. \E e \in 0..MaxErrors, h \in BOOLEAN : storage' = [storage EXCEPT !.errors = e, !.healthy = h]
    <3>1. CASE storage.errors < MaxErrors
               /\ storage' = [storage EXCEPT !.errors = @ + 1, !.healthy = MaxErrors > storage.errors + 1]
      <4>1. storage' = [storage EXCEPT !.errors = storage.errors + 1, !.healthy = MaxErrors > storage.errors + 1]
        BY <3>1
      <4> QED
        BY <2>2, <3>1, <4>1
    <3>2. CASE storage' = [storage EXCEPT !.errors = 0, !.healthy = TRUE]
      <4>1. 0 \in 0..MaxErrors
        BY <2>1
      <4> QED
        BY <3>2, <4>1
    <3> QED
      BY <2>3, <3>1, <3>2
  <2> QED
    BY <2>1, <2>4
<1> USE <1>1 DEF ProcessInv, processVars, counterVars
<1>3. TypeOK'
  BY <1>2 DEF TypeOK, HealthTypeOK
<1>4. RolesKept' /\ Exclusive' /\ StopsKept'
  BY DEF RolesKept, Exclusive, StopsKept, Unstopped, Reading, Writing
<1>5. BlankUntilSynced' /\ SinceKept'
  BY DEF BlankUntilSynced, SinceKept
<1>6. LoopsKept'
  BY DEF LoopsKept, ShuttingDown
<1> QED
  BY <1>3, <1>4, <1>5, <1>6

LEMMA RestKeeps ==
    ASSUME ProcessInv, UNCHANGED vars
    PROVE  ProcessInv'
<1> USE DEF ProcessInv, vars, processVars, healthVars
<1>1. TypeOK'
  BY DEF TypeOK, HealthTypeOK
<1>2. RolesKept' /\ Exclusive' /\ StopsKept'
  BY DEF RolesKept, Exclusive, StopsKept, Unstopped, Reading, Writing
<1>3. BlankUntilSynced' /\ SinceKept'
  BY DEF BlankUntilSynced, SinceKept
<1>4. LoopsKept'
  BY DEF LoopsKept, ShuttingDown
<1> QED
  BY <1>1, <1>2, <1>3, <1>4

LEMMA MonitorSteps ==
    ASSUME Monitor
    PROVE  \/ \E k \in Clients : Calling(k)
           \/ \E c \in Counters : Loop(c)
           \/ \E w \in Writers : Writes(w)
           \/ Periodic
BY DEF Monitor, Calling, Writes

\* Every step of the process keeps the invariant.
LEMMA ProcessStep == ProcessInv /\ [Next]_vars => ProcessInv'
<1> SUFFICES ASSUME ProcessInv, [Next]_vars PROVE ProcessInv'
  OBVIOUS
<1>1. CASE UNCHANGED vars
  BY <1>1, RestKeeps
<1>2. CASE Plain
  BY <1>2, PlainKeeps
<1>3. CASE Turning
  BY <1>3, TurningKeeps
<1>4. CASE Monitor /\ UNCHANGED processVars
  BY <1>4, MonitorSteps, CallKeeps, LoopKeeps, WriterKeeps, PeriodicKeeps
<1> QED
  BY <1>1, <1>2, <1>3, <1>4, StepsAre

\* The monitors are not started before the first synchronization succeeded, and
\* from then on a counter that says it is healthy is watched, for any number of
\* counters, of calls of the monitor and of requests for a shutdown.
THEOREM CountersAreWatched == Spec => []WatchedFromSyncOn
<1>1. ProcessInv => WatchedFromSyncOn
  <2> SUFFICES ASSUME ProcessInv, NEW c \in Counters
               PROVE  /\ ~synced => ~running[c] /\ healthy[c] /\ ~WaitsForRoom(c)
                      /\ healthy[c] /\ running[c] /\ ~ShuttingDown => loop[c] \notin {"none", "leaving"}
    BY DEF WatchedFromSyncOn
  <2>1. ASSUME ~synced PROVE ~running[c] /\ healthy[c] /\ ~WaitsForRoom(c)
    <3>1. ~running[c] /\ healthy[c]
      BY <2>1, Zenon DEF ProcessInv, BlankUntilSynced
    <3>2. /\ \A k \in Clients : call[k].at \in {"idle", "reading"}
          /\ \A w \in Writers : writer[w].at \in {"idle", "stop", "stopping"}
      BY <2>1, Zenon DEF ProcessInv, BlankUntilSynced
    <3> QED
      BY <3>1, <3>2 DEF WaitsForRoom, Clients
  <2>2. healthy[c] /\ running[c] /\ ~ShuttingDown => loop[c] \notin {"none", "leaving"}
    BY DEF ProcessInv, LoopsKept
  <2> QED
    BY <2>1, <2>2
<1> QED
  BY ProcessStarts, ProcessStep, <1>1, PTL DEF Spec

\* A status that names the time since when all is well says that all is well, and the
\* field is cleared no earlier than a counter failed, however many requests read it.
\* Includes the type invariant.
THEOREM SinceStaysSound == Spec => []SinceIsSound
<1>1. ProcessInv => SinceIsSound
  BY DEF ProcessInv, SinceKept, SinceIsSound
<1> QED
  BY ProcessStarts, ProcessStep, <1>1, PTL DEF Spec

-----------------------------------------------------------------------------
(* Jams                                                                    *)

\* A jam lasts while nothing of it changes.
LEMMA JamStays ==
    ASSUME NEW c \in Counters, Jammed(c), WaitsForRoom(c)',
           loop'[c] = loop[c], lock[c] # Free => lock'[c] # Free
    PROVE  Jammed(c)'
BY DEF Jammed

\* The goroutine of a jammed counter waits for the lock, or goes.
LEMMA JamOutlastsLoop ==
    ASSUME ProcessInv, NEW c \in Counters, NEW d \in Counters, Jammed(c), Loop(d)
    PROVE  Jammed(c)'
<1>1. /\ UNCHANGED <<lock, call, writer>>
      /\ c # d => loop'[c] = loop[c] /\ resets'[c] = resets[c] /\ cancels'[c] = cancels[c]
  BY LoopIs
<1>2. CASE c # d
  <2>1. WaitsForRoom(c)'
    BY <1>1, <1>2 DEF Jammed, WaitsForRoom
  <2> QED
    BY <1>1, <1>2, <2>1, JamStays
<1>3. CASE c = d
  <2>1. loop[c] # "select" /\ (loop[c] \in {"starting", "gotReset", "timedOut"} => lock[c] # Free)
    BY DEF Jammed
  <2>2. Leave(c)
    BY <1>3, <2>1, LoopIs DEF Loop, CreateTimer, SelectTimer, SelectReset, SelectCancel, DeclareUnhealthy, RearmTimer
  <2>3. loop'[c] = "none" /\ UNCHANGED <<resets, cancels>>
    BY <2>2 DEF Leave, ProcessInv, TypeOK, HealthTypeOK
  <2>4. WaitsForRoom(c)'
    BY <1>1, <2>3 DEF Jammed, WaitsForRoom
  <2> QED
    BY <2>3, <2>4 DEF Jammed
<1> QED
  BY <1>2, <1>3

\* Calls of others neither make room nor give the lock back.
LEMMA JamOutlastsCall ==
    ASSUME ProcessInv, NEW c \in Counters, NEW k \in Clients, Jammed(c), Calling(k)
    PROVE  Jammed(c)'
<1>0. /\ resets \in [Counters -> 0..1] /\ lock \in [Counters -> Updaters \cup Writers \cup {Free}]
      /\ Updaters \subseteq Clients /\ Free \notin Updaters
      /\ call[k].at = "resetLock" => k \in Updaters
  BY HealthAssumption DEF ProcessInv, TypeOK, HealthTypeOK, Clients, RolesKept
<1>1. /\ UNCHANGED <<running, healthy, loop, cancels, storage, writer>>
      /\ \A j \in Clients \ {k} : call'[j] = call[j]
  BY CallIs
<1>2. \A w \in Writers : ~(writer[w].at = "cancel")
  <2>1. SUFFICES ASSUME NEW w \in Writers, writer[w].at = "cancel" PROVE FALSE
    OBVIOUS
  <2>2. call[k].at = "idle" /\ ~CanRead
    BY <2>1 DEF ProcessInv, Exclusive, Writing, Reading, CanRead
  <2> QED
    BY <2>2 DEF Calling, MonitorCall, Client, NotifyHit, ResetThreshold, GetHealthStatus, SendHit, UpdateLastHit,
                SendReset, AnswerStatus, LockToReset, IsHealthy
<1>3. PICK j \in Updaters : call[j].c = c /\ call[j].at \in {"hitSend", "resetSend"} /\ resets[c] = 1
  BY <1>2 DEF Jammed, WaitsForRoom
<1>4. j # k
  <2>1. SUFFICES ASSUME j = k PROVE FALSE
    OBVIOUS
  <2>2. call[k].at \in {"hitSend", "resetSend"} /\ resets[call[k].c] = 1
    BY <1>3, <2>1
  <2>3. ~MonitorCall(k)
    BY <2>2 DEF MonitorCall, NotifyHit, ResetThreshold, GetHealthStatus
  <2>4. ~SendHit(k) /\ ~SendReset(k)
    BY <2>2 DEF SendHit, SendReset
  <2>5. /\ ~UpdateLastHit(k) /\ ~AnswerStatus(k) /\ \A valid : ~LockToReset(k, valid)
        /\ \A d : ~IsHealthy(k, d)
    BY <2>2 DEF UpdateLastHit, AnswerStatus, LockToReset, IsHealthy
  <2> QED
    BY <2>3, <2>4, <2>5 DEF Calling, Client
<1>5. resets' = resets \/ resets' = [resets EXCEPT ![call[k].c] = 1]
  BY Zenon DEF Calling, MonitorCall, Client, NotifyHit, ResetThreshold, GetHealthStatus, SendHit, UpdateLastHit,
               SendReset, AnswerStatus, LockToReset, IsHealthy, counterVars
<1>6. \/ lock' = lock \/ (lock' = [lock EXCEPT ![call[k].c] = k] /\ call[k].at = "resetLock")
      \/ lock' = [lock EXCEPT ![call[k].c] = Free] /\ resets[call[k].c] = 0
  BY Zenon DEF Calling, MonitorCall, Client, NotifyHit, ResetThreshold, GetHealthStatus, SendHit, UpdateLastHit,
               SendReset, AnswerStatus, LockToReset, IsHealthy, counterVars
<1>7. WaitsForRoom(c)'
  <2>1. resets'[c] = 1 /\ call'[j] = call[j]
    BY <1>0, <1>1, <1>3, <1>4, <1>5
  <2> QED
    BY <1>3, <2>1 DEF WaitsForRoom
<1>8. lock[c] # Free => lock'[c] # Free
  BY <1>0, <1>3, <1>6
<1> QED
  BY <1>1, <1>7, <1>8, JamStays

\* Nobody can start or stop counters while one is jammed.
LEMMA JamBlocksWriters ==
    ASSUME ProcessInv, NEW c \in Counters, NEW w \in Writers, Jammed(c), Writes(w)
    PROVE  FALSE
<1>0. Updaters \subseteq Clients /\ Exclusive
  BY DEF ProcessInv, Clients
<1>1. CASE \E j \in Updaters : call[j].at \in {"hitSend", "resetSend"}
  <2>1. PICK j \in Clients : Reading(j)
    BY <1>0, <1>1 DEF Reading
  <2>2. ~Writing(w) /\ ~CanWrite(w)
    BY <1>0, <2>1 DEF Exclusive, CanWrite
  <2> QED
    BY <2>2 DEF Writing, Writes, Writer, LockMonitor, LockToStop, SendCancel, UnlockMonitor, StartCounter, StopCounter
<1>2. CASE \E v \in Writers : writer[v].c = c /\ writer[v].at = "cancel" /\ cancels[c] = 1
  <2>1. PICK v \in Writers : writer[v].c = c /\ writer[v].at = "cancel" /\ cancels[c] = 1
    BY <1>2
  <2>2. Writing(v)
    BY <2>1 DEF Writing
  <2>3. CASE w = v
    BY <2>1, <2>3 DEF Writes, Writer, LockMonitor, LockToStop, SendCancel, UnlockMonitor, StartCounter, StopCounter
  <2>4. CASE w # v
    <3>1. ~Writing(w) /\ ~CanWrite(w)
      BY <1>0, <2>2, <2>4 DEF Exclusive, CanWrite
    <3> QED
      BY <3>1 DEF Writing, Writes, Writer, LockMonitor, LockToStop, SendCancel, UnlockMonitor, StartCounter,
                  StopCounter
  <2> QED
    BY <2>3, <2>4
<1> QED
  BY <1>1, <1>2 DEF Jammed, WaitsForRoom

\* Shutdowns that begin, and monitors that are to be started, leave it as it is.
LEMMA JamOutlastsTurning ==
    ASSUME ProcessInv, NEW c \in Counters, Jammed(c), Turning
    PROVE  Jammed(c)'
<1>1. UNCHANGED <<counterVars, call>>
  BY TurningIs
<1>2. \A v \in Writers : writer[v].at = "cancel" => writer'[v] = writer[v]
  <2>1. writer \in [Writers -> [at : WriterStates, c : Counters, todo : SUBSET Counters]]
    BY DEF ProcessInv, TypeOK, HealthTypeOK
  <2>2. \/ UNCHANGED writer \/ writer' = [writer EXCEPT ![Starter].at = "start"]
        \/ \E s \in Shutters : Unstopped(s) /\ writer' = [writer EXCEPT ![s].at = "stop"]
    BY TurningIs DEF TurnsTo
  <2>3. writer[Starter].at # "cancel" /\ \A s \in Shutters : Unstopped(s) => writer[s].at # "cancel"
    BY DEF ProcessInv, StopsKept
  <2> QED
    BY <2>1, <2>2, <2>3
<1>3. WaitsForRoom(c)'
  BY <1>1, <1>2 DEF Jammed, WaitsForRoom, counterVars
<1> QED
  BY <1>1, <1>3, JamStays DEF counterVars

\* A counter that is jammed stays jammed, whatever comes to pass in the process.
THEOREM JamsStay == Spec => JamsAreFinal
<1>1. ProcessInv /\ [Next]_vars => [\A c \in Counters : Jammed(c) => Jammed(c)']_vars
  <2> SUFFICES ASSUME ProcessInv, [Next]_vars, NEW c \in Counters, Jammed(c) PROVE Jammed(c)'
    OBVIOUS
  <2>1. CASE UNCHANGED healthVars
    BY <2>1 DEF Jammed, WaitsForRoom, healthVars
  <2>2. CASE Plain
    <3>1. UNCHANGED healthVars
      BY <2>2, PlainIs DEF ProcessInv
    <3> QED
      BY <2>1, <3>1
  <2>3. CASE Turning
    BY <2>3, JamOutlastsTurning
  <2>4. CASE Monitor
    <3>1. CASE \E k \in Clients : Calling(k)
      BY <3>1, JamOutlastsCall
    <3>2. CASE \E d \in Counters : Loop(d)
      BY <3>2, JamOutlastsLoop
    <3>3. CASE \E w \in Writers : Writes(w)
      BY <3>3, JamBlocksWriters
    <3>4. CASE Periodic
      <4>1. UNCHANGED <<counterVars, call, writer>>
        BY <3>4 DEF Periodic, NotifyError, NewPeriod
      <4> QED
        BY <4>1 DEF Jammed, WaitsForRoom, counterVars
    <3> QED
      BY <2>4, <3>1, <3>2, <3>3, <3>4, MonitorSteps
  <2> QED
    BY <2>1, <2>2, <2>3, <2>4, StepsAre DEF vars
<1> QED
  BY ProcessStarts, ProcessStep, <1>1, PTL DEF Spec, JamsAreFinal

-----------------------------------------------------------------------------
(* The windows of the services monitor                                     *)

\* Integer division loses nothing that the comparison with a percentage asks for.
LEMMA DivAtLeast ==
    ASSUME NEW a \in Nat, NEW b \in Nat \ {0}, NEW p \in Nat
    PROVE  (a \div b) >= p <=> a >= p * b
<1> DEFINE q == a \div b
<1>1. q \in Nat /\ b * q <= a /\ a < b * q + b
  BY SMT
<1> HIDE DEF q
<1>2. CASE q >= p
  <2>1. b * q >= b * p
    BY <1>1, <1>2
  <2>2. b * p = p * b /\ b * p \in Nat /\ b * q \in Nat
    BY <1>1
  <2> QED
    BY <1>1, <1>2, <2>1, <2>2 DEF q
<1>3. CASE ~(q >= p)
  <2>1. q + 1 <= p
    BY <1>1, <1>3
  <2>2. b * (q + 1) <= b * p
    BY <1>1, <2>1
  <2>3. b * (q + 1) = b * q + b
    BY <1>1
  <2>4. b * p = p * b /\ b * p \in Nat /\ b * q \in Nat
    BY <1>1
  <2> QED
    BY <1>1, <1>3, <2>2, <2>3, <2>4 DEF q
<1> QED
  BY <1>2, <1>3

From(i) == IF i > MaxLen THEN i - MaxLen + 1 ELSE 1
Good(h, i) == {j \in From(i)..i : h[j] = 200}

\* The window of a history: its last MaxLen hits.
WindowOf(cache, h) ==
    /\ DOMAIN cache = 1..(Len(h) - From(Len(h)) + 1)
    /\ \A i \in DOMAIN cache : cache[i] = h[From(Len(h)) + i - 1]

LEMMA FromIs ==
    ASSUME NEW i \in Nat \ {0}
    PROVE  /\ From(i) \in 1..i /\ i - From(i) + 1 \in 1..MaxLen
           /\ i > MaxLen => From(i + 1) = From(i) + 1
           /\ i = MaxLen => From(i) = 1 /\ From(i + 1) = 2
           /\ i < MaxLen => From(i) = 1 /\ From(i + 1) = 1
           /\ i >= MaxLen <=> i - From(i) + 1 = MaxLen
BY WindowAssumption DEF From

\* The successes of a window are those of the history's last hits.
LEMMA SuccessesAre ==
    ASSUME NEW h \in Seq(Codes), h # <<>>, NEW cache, WindowOf(cache, h)
    PROVE  /\ IsFiniteSet(Good(h, Len(h)))
           /\ Successes(cache) = Cardinality(Good(h, Len(h)))
           /\ Successes(cache) \in Nat
<1> DEFINE n == Len(h)
           S == {i \in DOMAIN cache : cache[i] = 200}
           T == Good(h, n)
           f == [i \in S |-> From(n) + i - 1]
<1>1. n \in Nat \ {0} /\ From(n) \in 1..n
  <2>1. n \in Nat \ {0}
    OBVIOUS
  <2> QED
    BY <2>1, FromIs
<1>2. IsFiniteSet(S) /\ IsFiniteSet(T)
  <2>1. IsFiniteSet(1..(n - From(n) + 1)) /\ IsFiniteSet(From(n)..n)
    BY <1>1, FS_Interval
  <2>2. S \in SUBSET (1..(n - From(n) + 1)) /\ T \in SUBSET (From(n)..n)
    BY DEF WindowOf, Good
  <2> QED
    BY <2>1, <2>2, FS_Subset
<1>3. f \in Bijection(S, T)
  <2>1. \A i \in S : i \in Int /\ f[i] = From(n) + i - 1 /\ f[i] \in T
    BY <1>1 DEF WindowOf, Good
  <2>2. f \in [S -> T]
    BY <2>1
  <2>3. \A i, j \in S : f[i] = f[j] => i = j
    BY <1>1, <2>1
  <2>4. ASSUME NEW j \in T PROVE \E i \in S : f[i] = j
    <3>1. j \in From(n)..n /\ h[j] = 200
      BY DEF Good
    <3>2. j - From(n) + 1 \in S
      BY <1>1, <3>1 DEF WindowOf
    <3>3. f[j - From(n) + 1] = j
      BY <1>1, <3>1, <3>2
    <3> QED
      BY <3>2, <3>3
  <2> HIDE DEF f, S, T
  <2> QED
    BY <2>2, <2>3, <2>4 DEF Bijection, Injection, Surjection, IsInjective
<1>4. Cardinality(S) = Cardinality(T) /\ Cardinality(S) \in Nat
  <2>1. ExistsBijection(S, T)
    BY <1>3 DEF ExistsBijection
  <2> HIDE DEF S, T
  <2> QED
    BY <1>2, <2>1, FS_Bijection, FS_CardinalityType
<1> QED
  BY <1>2, <1>4 DEF Successes

\* A counter judges its window as the history's last hits are judged.
LEMMA JudgedAs ==
    ASSUME NEW h \in Seq(Codes), h # <<>>, NEW cache \in Seq(Codes), WindowOf(cache, h)
    PROVE  PercentageOk(cache) >= Percentage <=> GoodAt(h, Len(h))
<1> DEFINE n == Len(h)
           g == Cardinality(Good(h, n))
           m == n - From(n) + 1
<1>1. n \in Nat \ {0} /\ m \in Nat \ {0} /\ Percentage \in Nat
  <2>1. n \in Nat \ {0}
    OBVIOUS
  <2> HIDE DEF n
  <2>2. m \in 1..MaxLen /\ MaxLen \in Nat /\ Percentage \in 0..100
    BY <2>1, FromIs, WindowAssumption
  <2> QED
    BY <2>1, <2>2
<1>2. Successes(cache) = g /\ g \in Nat /\ g * 100 = 100 * g
  BY SuccessesAre
<1>3. Len(cache) = m
  BY <1>1 DEF WindowOf
<1>4. GoodAt(h, n) <=> 100 * g >= Percentage * m
  BY DEF GoodAt, Good, From
<1>5. PercentageOk(cache) = (g * 100) \div m
  BY <1>2, <1>3 DEF PercentageOk
<1>6. (g * 100) \div m >= Percentage <=> g * 100 >= Percentage * m
  <2>1. g * 100 \in Nat
    BY <1>2
  <2> HIDE DEF g, m, n
  <2> QED
    BY <1>1, <2>1, DivAtLeast
<1> HIDE DEF g, m
<1> QED
  BY <1>2, <1>4, <1>5, <1>6

\* The oldest hit leaves a full window as the new one comes in.
LEMMA WindowMoves ==
    ASSUME NEW h \in Seq(Codes), NEW cache \in Seq(Codes), WindowOf(cache, h), NEW code \in Codes
    PROVE  LET moved == Append(IF Len(cache) = MaxLen THEN Tail(cache) ELSE cache, code)
           IN  moved \in Seq(Codes) /\ moved # <<>> /\ WindowOf(moved, Append(h, code))
<1> DEFINE n == Len(h)
           k == Append(h, code)
           moved == Append(IF Len(cache) = MaxLen THEN Tail(cache) ELSE cache, code)
<1>0. n \in Nat /\ Len(k) = n + 1 /\ k[n + 1] = code /\ \A i \in 1..n : k[i] = h[i]
  OBVIOUS
<1>1. MaxLen \in Nat \ {0} /\ Len(cache) \in Nat /\ Len(cache) = n - From(n) + 1 /\ From(n) \in Nat
      /\ \A i \in 1..Len(cache) : cache[i] = h[From(n) + i - 1]
  <2>1. Len(cache) \in Nat /\ DOMAIN cache = 1..Len(cache) /\ MaxLen \in Nat \ {0}
    BY WindowAssumption
  <2>2. From(n) \in Nat /\ From(n) >= 1 /\ n - From(n) + 1 \in Nat
    BY <1>0, <2>1 DEF From
  <2>3. Len(cache) = n - From(n) + 1
    BY <2>1, <2>2 DEF WindowOf
  <2> QED
    BY <2>1, <2>2, <2>3 DEF WindowOf
<1> HIDE DEF n
<1>2. CASE Len(cache) = MaxLen
  <2>1. From(n) = n - MaxLen + 1 /\ From(n + 1) = From(n) + 1 /\ n >= MaxLen
    BY <1>0, <1>1, <1>2 DEF From
  <2>2. moved = Append(Tail(cache), code) /\ Tail(cache) \in Seq(Codes) /\ Len(Tail(cache)) = MaxLen - 1
        /\ \A i \in 1..MaxLen - 1 : Tail(cache)[i] = cache[i + 1]
    BY <1>1, <1>2
  <2>3. moved \in Seq(Codes) /\ Len(moved) = MaxLen /\ moved[MaxLen] = code
        /\ \A i \in 1..MaxLen - 1 : moved[i] = cache[i + 1]
    BY <1>1, <2>2
  <2> HIDE DEF moved, k
  <2>4. ASSUME NEW i \in 1..MaxLen PROVE moved[i] = k[From(n + 1) + i - 1]
    <3>1. CASE i = MaxLen
      <4>1. From(n + 1) + i - 1 = n + 1
        BY <1>0, <1>1, <2>1, <3>1
      <4> QED
        BY <1>0, <2>3, <3>1, <4>1
    <3>2. CASE i # MaxLen
      <4>1. i \in 1..MaxLen - 1 /\ i + 1 \in 1..Len(cache)
        BY <1>1, <1>2, <3>2
      <4>2. moved[i] = h[From(n) + (i + 1) - 1]
        BY <1>1, <2>3, <4>1
      <4>3. From(n) + (i + 1) - 1 = From(n + 1) + i - 1 /\ From(n + 1) + i - 1 \in 1..n
        <5>1. i \in Nat /\ 1 <= i /\ i <= MaxLen - 1
          BY <1>1, <4>1
        <5> QED
          BY <1>0, <1>1, <2>1, <5>1
      <4> QED
        BY <1>0, <4>2, <4>3
    <3> QED
      BY <3>1, <3>2
  <2>5. Len(k) - From(Len(k)) + 1 = MaxLen /\ DOMAIN moved = 1..MaxLen
    BY <1>0, <1>1, <2>1, <2>3
  <2>6. WindowOf(moved, k) /\ moved # <<>>
    BY <1>0, <1>1, <2>3, <2>4, <2>5 DEF WindowOf
  <2> QED
    BY <2>3, <2>6 DEF moved, k
<1>3. CASE Len(cache) # MaxLen
  <2>1. From(n) = 1 /\ From(n + 1) = 1 /\ Len(cache) = n
    BY <1>0, <1>1, <1>3 DEF From
  <2>2. moved = Append(cache, code)
    BY <1>3
  <2>3. moved \in Seq(Codes) /\ Len(moved) = n + 1 /\ moved[n + 1] = code /\ \A i \in 1..n : moved[i] = cache[i]
    BY <1>1, <2>1, <2>2
  <2> HIDE DEF moved, k
  <2>4. ASSUME NEW i \in 1..n + 1 PROVE moved[i] = k[From(n + 1) + i - 1]
    BY <1>0, <1>1, <2>1, <2>3
  <2>5. Len(k) - From(Len(k)) + 1 = n + 1 /\ DOMAIN moved = 1..n + 1
    BY <1>0, <2>1, <2>3
  <2>6. WindowOf(moved, k) /\ moved # <<>>
    BY <1>0, <2>3, <2>4, <2>5 DEF WindowOf
  <2> QED
    BY <2>3, <2>6 DEF moved, k
<1> QED
  BY <1>2, <1>3

\* Hits that came before stay judged as they were.
LEMMA PastIsKept ==
    ASSUME NEW h \in Seq(Codes), NEW code \in Codes, NEW i \in 1..Len(h)
    PROVE  GoodAt(Append(h, code), i) <=> GoodAt(h, i)
<1> DEFINE k == Append(h, code)
<1>1. From(i) \in 1..i /\ i \in Nat \ {0}
  BY FromIs
<1>2. \A j \in From(i)..i : k[j] = h[j]
  BY <1>1
<1> HIDE DEF k
<1>3. Good(k, i) = Good(h, i)
  BY <1>2 DEF Good
<1>4. \A s : GoodAt(s, i) <=> 100 * Cardinality(Good(s, i)) >= Percentage * (i - From(i) + 1)
  BY DEF GoodAt, Good, From
<1> QED
  BY <1>3, <1>4 DEF k

\* A hit that succeeds does not make a healthy service unhealthy.
LEMMA SuccessHelps ==
    ASSUME NEW h \in Seq(Codes), h = <<>> \/ GoodAt(h, Len(h))
    PROVE  GoodAt(Append(h, 200), Len(h) + 1)
<1> DEFINE n == Len(h)
           k == Append(h, 200)
           P == Percentage
<1>0. n \in Nat /\ Len(k) = n + 1 /\ k[n + 1] = 200 /\ (\A i \in 1..n : k[i] = h[i]) /\ (n = 0 <=> h = <<>>)
      /\ MaxLen \in Nat \ {0} /\ P \in 0..100
  BY WindowAssumption
<1> HIDE DEF k, n, P
<1>1. \A s : \A i : GoodAt(s, i) <=> 100 * Cardinality(Good(s, i)) >= P * (i - From(i) + 1)
  BY DEF GoodAt, Good, From, P
<1>2. \A i \in Nat : IsFiniteSet(Good(k, i)) /\ IsFiniteSet(Good(h, i))
  <2>1. \A i \in Nat : From(i) \in Int
    BY <1>0 DEF From
  <2>2. \A i \in Nat : IsFiniteSet(From(i)..i)
    BY <2>1, FS_Interval
  <2>3. \A s : \A i : Good(s, i) \in SUBSET (From(i)..i)
    BY DEF Good
  <2> QED
    BY <2>2, <2>3, FS_Subset
<1> DEFINE g == Cardinality(Good(h, n))
           u == Cardinality(Good(k, n + 1))
<1>3. g \in Nat /\ u \in Nat
  <2>1. IsFiniteSet(Good(h, n)) /\ IsFiniteSet(Good(k, n + 1))
    BY <1>0, <1>2
  <2> QED
    BY <2>1, FS_CardinalityType
<1>4. CASE n < MaxLen
  <2>1. From(n + 1) = 1 /\ From(n) = 1
    BY <1>0, <1>4 DEF From
  <2>2. Good(k, n + 1) = Good(h, n) \cup {n + 1} /\ n + 1 \notin Good(h, n)
    BY <1>0, <2>1 DEF Good
  <2>3. u = g + 1
    BY <1>0, <1>2, <2>2, FS_AddElement
  <2>4. n > 0 => 100 * g >= P * n
    BY <1>0, <1>1, <2>1 DEF n
  <2>5. n = 0 => 100 * g >= P * n
    BY <1>0, <1>3
  <2>6. P * (n + 1) = P * n + P /\ P * n \in Int
    BY <1>0
  <2>7. 100 * u >= P * (n + 1)
    <3> HIDE DEF g, u
    <3> QED
      BY <1>0, <1>3, <2>3, <2>4, <2>5, <2>6
  <2> QED
    BY <1>0, <1>1, <2>1, <2>7 DEF k, n
<1>5. CASE ~(n < MaxLen)
  <2>1. n > 0 /\ From(n + 1) = From(n) + 1 /\ From(n) \in 1..n /\ n - From(n) + 1 = MaxLen
        /\ (n + 1) - From(n + 1) + 1 = MaxLen
    BY <1>0, <1>5 DEF From
  <2>2. Good(k, n + 1) = (Good(h, n) \ {From(n)}) \cup {n + 1} /\ n + 1 \notin Good(h, n) \ {From(n)}
    BY <1>0, <2>1 DEF Good
  <2>3. u >= g
    <3> DEFINE rest == Good(h, n) \ {From(n)}
    <3>1. IsFiniteSet(rest) /\ Cardinality(rest) >= g - 1 /\ Cardinality(rest) \in Nat
      <4>1. IsFiniteSet(Good(h, n))
        BY <1>0, <1>2
      <4>2. IsFiniteSet(rest) /\ Cardinality(rest) = IF From(n) \in Good(h, n) THEN g - 1 ELSE g
        BY <4>1, FS_RemoveElement
      <4>3. Cardinality(rest) \in Nat
        BY <4>2, FS_CardinalityType
      <4> HIDE DEF rest, g
      <4> QED
        BY <1>3, <4>2, <4>3
    <3>2. u = Cardinality(rest) + 1
      BY <2>2, <3>1, FS_AddElement
    <3> HIDE DEF rest, u, g
    <3> QED
      BY <1>3, <3>1, <3>2
  <2>4. 100 * g >= P * MaxLen
    BY <1>0, <1>1, <2>1 DEF n
  <2>5. 100 * u >= P * MaxLen
    <3>1. P * MaxLen \in Int
      BY <1>0
    <3> HIDE DEF g, u
    <3> QED
      BY <1>3, <2>3, <2>4, <3>1
  <2> QED
    BY <1>0, <1>1, <2>1, <2>5 DEF k, n
<1> QED
  BY <1>0, <1>4, <1>5

CounterRecord == [cache : Seq(Codes), healthy : BOOLEAN, since : Nat, message : Nat, hits : Nat]
SinceIn(h) ==
    LET bad == {i \in 1..Len(h) : ~GoodAt(h, i)}
    IN  IF bad = {} THEN 0 ELSE (CHOOSE i \in bad : \A j \in bad : j <= i) + 1

\* What a counter knows of the hits it was told.
CounterFits(c, h) ==
    /\ c.hits = Len(h) /\ WindowOf(c.cache, h)
    /\ c.healthy <=> h = <<>> \/ GoodAt(h, Len(h))
    /\ c.healthy => c.since = SinceIn(h)
    /\ ~c.healthy => /\ c.message \in 1..Len(h) /\ h[c.message] # 200
                     /\ \A j \in c.message + 1 .. Len(h) : h[j] = 200

WindowInv ==
    /\ counters \in [Services -> CounterRecord] /\ history \in [Services -> Seq(Codes)]
    /\ \A s \in Services : CounterFits(counters[s], history[s])

\* One more hit.
LEMMA HitFits ==
    ASSUME NEW c \in CounterRecord, NEW h \in Seq(Codes), CounterFits(c, h), NEW code \in Codes
    PROVE  ServiceHit(c, code) \in CounterRecord /\ CounterFits(ServiceHit(c, code), Append(h, code))
<1> DEFINE n == Len(h)
           k == Append(h, code)
           moved == Append(IF Len(c.cache) = MaxLen THEN Tail(c.cache) ELSE c.cache, code)
           ok == PercentageOk(moved) >= Percentage
           told == IF code = 200 THEN c.message ELSE n + 1
           d == ServiceHit(c, code)
<1>0. /\ n \in Nat /\ Len(k) = n + 1 /\ k[n + 1] = code /\ k \in Seq(Codes) /\ k # <<>>
      /\ \A i \in 1..n : k[i] = h[i]
      /\ c.hits = n /\ c = [cache |-> c.cache, healthy |-> c.healthy, since |-> c.since, message |-> c.message, hits |-> n]
      /\ c.cache \in Seq(Codes) /\ c.healthy \in BOOLEAN /\ c.since \in Nat /\ c.message \in Nat
  BY DEF CounterFits, CounterRecord
<1>1. moved \in Seq(Codes) /\ moved # <<>> /\ WindowOf(moved, k)
  BY <1>0, WindowMoves DEF CounterFits
<1>2. ok <=> GoodAt(k, n + 1)
  <2> HIDE DEF moved, k
  <2> QED
    BY <1>0, <1>1, JudgedAs
<1>3. d = [cache |-> moved, healthy |-> ok,
           since |-> IF ok /\ ~c.healthy THEN n + 1 ELSE IF ok THEN c.since ELSE 0,
           message |-> IF ok /\ ~c.healthy THEN 0 ELSE told, hits |-> n + 1]
  <2> DEFINE e == [c EXCEPT !.cache = Append(IF Len(@) = MaxLen THEN Tail(@) ELSE @, code),
                            !.message = IF code = 200 THEN @ ELSE c.hits + 1,
                            !.hits = @ + 1]
  <2>1. e = [cache |-> moved, healthy |-> c.healthy, since |-> c.since, message |-> told, hits |-> n + 1]
    <3>1. PICK q, ch, cs, cm : c = [cache |-> q, healthy |-> ch, since |-> cs, message |-> cm, hits |-> n]
      BY <1>0
    <3>2. c.cache = q /\ c.healthy = ch /\ c.since = cs /\ c.message = cm /\ c.hits = n
      BY <3>1
    <3>3. e = [cache |-> Append(IF Len(q) = MaxLen THEN Tail(q) ELSE q, code), healthy |-> ch, since |-> cs,
               message |-> IF code = 200 THEN cm ELSE n + 1, hits |-> n + 1]
      <4> DEFINE m == Append(IF Len(q) = MaxLen THEN Tail(q) ELSE q, code)
      <4>1. e = [c EXCEPT !.cache = m, !.message = IF code = 200 THEN cm ELSE n + 1, !.hits = n + 1]
        BY <3>1, <3>2
      <4> HIDE DEF m, e, n
      <4>2. e = [cache |-> m, healthy |-> ch, since |-> cs,
                 message |-> IF code = 200 THEN cm ELSE n + 1, hits |-> n + 1]
        BY <3>1, <4>1
      <4> QED
        BY <4>2 DEF m
    <3>4. moved = Append(IF Len(q) = MaxLen THEN Tail(q) ELSE q, code) /\ told = IF code = 200 THEN cm ELSE n + 1
      BY <3>2 DEF moved, told
    <3> HIDE DEF e, moved, told, n
    <3> QED
      BY <3>2, <3>3, <3>4
  <2>2. d = CalculateHealthy(e)
    BY DEF ServiceHit
  <2> HIDE DEF e, d, moved, told
  <2> QED
    BY <2>1, <2>2 DEF CalculateHealthy
<1>4. ok \in BOOLEAN /\ told \in Nat
  BY <1>0
<1> HIDE DEF moved, told, d, k, n, ok
<1>5. d \in CounterRecord
  BY <1>0, <1>1, <1>3, <1>4 DEF CounterRecord
<1>6. \A i \in 1..n : GoodAt(k, i) <=> GoodAt(h, i)
  BY PastIsKept DEF k, n
<1>7. ASSUME ok PROVE d.since = SinceIn(k)
  <2> DEFINE bad == {i \in 1..n : ~GoodAt(h, i)}
             new == {i \in 1..Len(k) : ~GoodAt(k, i)}
  <2>1. new = bad
    <3>1. \A i \in 1..n + 1 : i = n + 1 \/ i \in 1..n
      BY <1>0
    <3>2. 1..n \subseteq 1..n + 1
      BY <1>0
    <3> QED
      BY <1>0, <1>2, <1>6, <1>7, <3>1, <3>2
  <2>2. SinceIn(k) = SinceIn(h)
    <3>1. SinceIn(k) = IF new = {} THEN 0 ELSE (CHOOSE i \in new : \A j \in new : j <= i) + 1
      BY DEF SinceIn
    <3>2. SinceIn(h) = IF bad = {} THEN 0 ELSE (CHOOSE i \in bad : \A j \in bad : j <= i) + 1
      BY DEF SinceIn, n
    <3> HIDE DEF new, bad
    <3> QED
      BY <2>1, <3>1, <3>2
  <2>3. CASE c.healthy
    BY <1>3, <1>7, <2>2, <2>3 DEF CounterFits
  <2>4. CASE ~c.healthy
    <3>1. n \in bad
      <4>1. h # <<>> /\ ~GoodAt(h, n)
        BY <2>4 DEF CounterFits, n
      <4>2. n \in 1..n
        BY <4>1 DEF n
      <4> QED
        BY <4>1, <4>2
    <3>2. \A i \in bad : i \in Nat /\ i <= n
      BY <1>0
    <3>3. (CHOOSE i \in bad : \A j \in bad : j <= i) = n
      <4>1. \A j \in bad : j <= n
        BY <3>2
      <4>2. \A i \in bad : (\A j \in bad : j <= i) => i = n
        BY <3>1, <3>2, <1>0
      <4> HIDE DEF bad
      <4> QED
        BY <3>1, <4>1, <4>2
    <3>4. SinceIn(h) = n + 1
      BY <3>1, <3>3 DEF SinceIn, n
    <3> QED
      BY <1>3, <1>7, <2>2, <2>4, <3>4
  <2> QED
    BY <1>0, <2>3, <2>4
<1>8. ASSUME ~ok
      PROVE  /\ d.message \in 1..Len(k) /\ k[d.message] # 200
             /\ \A j \in d.message + 1 .. Len(k) : k[j] = 200
  <2>1. d.message = told
    BY <1>3, <1>8
  <2>2. CASE code = 200
    <3>1. ~c.healthy
      <4>1. ~GoodAt(Append(h, 200), Len(h) + 1)
        BY <1>2, <1>8, <2>2 DEF k, n
      <4>2. ~(h = <<>> \/ GoodAt(h, Len(h)))
        BY <4>1, SuccessHelps
      <4> QED
        BY <4>2 DEF CounterFits
    <3>2. c.message \in 1..n /\ h[c.message] # 200 /\ \A j \in c.message + 1 .. n : h[j] = 200
      BY <3>1 DEF CounterFits, n
    <3>3. told = c.message
      BY <2>2 DEF told
    <3>4. \A j \in c.message + 1 .. n + 1 : k[j] = 200
      BY <1>0, <2>2, <3>2
    <3> QED
      BY <1>0, <2>1, <3>2, <3>3, <3>4
  <2>3. CASE code # 200
    <3>1. told = n + 1
      BY <2>3 DEF told
    <3> QED
      BY <1>0, <2>1, <2>3, <3>1
  <2> QED
    BY <2>2, <2>3
<1>9. d.hits = Len(k) /\ WindowOf(d.cache, k) /\ d.healthy = ok
  BY <1>0, <1>1, <1>3
<1>10. CounterFits(d, k)
  <2>1. d.healthy <=> k = <<>> \/ GoodAt(k, Len(k))
    BY <1>0, <1>2, <1>9
  <2> QED
    BY <1>7, <1>8, <1>9, <2>1 DEF CounterFits
<1> QED
  BY <1>5, <1>10 DEF d, k

LEMMA WindowStarts == ServicesInit => WindowInv
<1> SUFFICES ASSUME ServicesInit, NEW s \in Services
             PROVE  /\ NewServiceCounter \in CounterRecord /\ <<>> \in Seq(Codes)
                    /\ CounterFits(NewServiceCounter, <<>>)
  BY DEF ServicesInit, WindowInv
<1>1. NewServiceCounter \in CounterRecord
  BY DEF NewServiceCounter, CounterRecord
<1>2. From(0) = 1 /\ SinceIn(<<>>) = 0
  BY WindowAssumption DEF From, SinceIn
<1> QED
  BY <1>1, <1>2 DEF NewServiceCounter, CounterFits, WindowOf

LEMMA WindowStep == WindowInv /\ [ServicesNext]_servicesVars => WindowInv'
<1> SUFFICES ASSUME WindowInv, [ServicesNext]_servicesVars PROVE WindowInv'
  OBVIOUS
<1>1. ASSUME NEW s \in Services, NEW code \in Codes, NotifyServiceHit(s, code) PROVE WindowInv'
  <2> DEFINE c == ServiceHit(counters[s], code)
             h == Append(history[s], code)
  <2>1. c \in CounterRecord /\ CounterFits(c, h) /\ h \in Seq(Codes)
    BY HitFits DEF WindowInv
  <2>2. counters' = [counters EXCEPT ![s] = c] /\ history' = [history EXCEPT ![s] = h]
    BY <1>1 DEF NotifyServiceHit
  <2> HIDE DEF c, h
  <2> QED
    BY <2>1, <2>2 DEF WindowInv
<1>2. CASE UNCHANGED servicesVars
  BY <1>2 DEF servicesVars, WindowInv
<1> QED
  BY <1>1, <1>2 DEF ServicesNext

\* A counter is healthy exactly when enough of the last hits succeeded, tells since
\* which hit, or shows the last one that failed, and the overall status goes by the
\* worst that is wrong: for any services, window, percentage and history.
THEOREM WindowsAreExact == ServicesSpec => []WindowIsExact
<1>1. WindowInv => WindowIsExact
  <2> SUFFICES ASSUME WindowInv PROVE WindowIsExact
    OBVIOUS
  <2>1. ASSUME NEW s \in Services PROVE CounterFits(counters[s], history[s])
    BY DEF WindowInv
  <2>2. \A s \in Services : history[s] \in Seq(Codes)
    BY DEF WindowInv
  <2>3. ASSUME NEW s \in Services
        PROVE  LET h == history[s]
                   n == Len(h)
                   c == counters[s]
                   bad == {i \in 1..n : ~GoodAt(h, i)}
               IN  n > 0 =>
                   /\ c.healthy <=> GoodAt(h, n)
                   /\ c.healthy => c.since = (IF bad = {} THEN 0
                                              ELSE (CHOOSE i \in bad : \A j \in bad : j <= i) + 1)
                   /\ ~c.healthy => /\ h[c.message] # 200
                                    /\ \A j \in c.message + 1 .. n : h[j] = 200
    <3> DEFINE h == history[s]
               c == counters[s]
               bad == {i \in 1..Len(h) : ~GoodAt(h, i)}
               since == IF bad = {} THEN 0 ELSE (CHOOSE i \in bad : \A j \in bad : j <= i) + 1
    <3>1. SinceIn(h) = since
      BY DEF SinceIn
    <3>2. Len(h) > 0 => h # <<>>
      BY <2>2
    <3> HIDE DEF since
    <3>3. Len(h) > 0 =>
            /\ c.healthy <=> GoodAt(h, Len(h))
            /\ c.healthy => c.since = since
            /\ ~c.healthy => /\ h[c.message] # 200
                             /\ \A j \in c.message + 1 .. Len(h) : h[j] = 200
      BY <2>1, <3>1, <3>2 DEF CounterFits
    <3> QED
      BY <3>3 DEF since
  <2> DEFINE bad == {s \in Services : history[s] # <<>> /\ ~GoodAt(history[s], Len(history[s]))}
  <2>4. \A s \in Services : ~counters[s].healthy <=> s \in bad
    BY <2>1 DEF CounterFits
  <2>5. /\ OverallStatus = "down" <=> \E s \in bad : Severity[s] = "critical"
        /\ OverallStatus = "healthy" <=> \A s \in bad : Severity[s] = "low"
    <3>1. \A v : Down(v) = {s \in bad : Severity[s] = v}
      BY <2>4 DEF Down
    <3>2. \A s \in bad : Severity[s] \in {"critical", "degraded", "low"}
      BY WindowAssumption
    <3> HIDE DEF bad
    <3> QED
      BY <3>1, <3>2 DEF OverallStatus
  <2> QED
    BY <2>3, <2>5 DEF WindowIsExact
<1> QED
  BY WindowStarts, WindowStep, <1>1, PTL DEF ServicesSpec

=============================================================================
