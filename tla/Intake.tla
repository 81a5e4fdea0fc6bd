------------------------------ MODULE Intake -------------------------------
(***************************************************************************)
(* What SDKs post to the proxy: the handlers of a regular and of a beacon  *)
(* endpoint, the deferred recording they stage the bulks in, the listener  *)
(* that impressions are forwarded to, and SDKs that post again what was    *)
(* answered with a server error.                                           *)
(***************************************************************************)
EXTENDS DeferredRecording

CONSTANTS
    ListenerQueueSize,
    Beacons,     \* the bulks that browsers post as beacons; the others are posted by SDKs
    MaxTries     \* how often an SDK posts a bulk (a bound of the model)

ASSUME IntakeAssumption == {ListenerQueueSize, MaxTries} \subseteq Nat \ {0}

VARIABLES
    status, bulks, posting, heard,  \* the listener
    tries,       \* how often each bulk was posted
    answer,      \* the last answer to each bulk
    forwarding   \* goroutines about to submit a bulk to the listener

Listener == INSTANCE ImpressionListener
listenerVars == <<status, bulks, posting, heard>>

intakeVars == <<tries, answer, forwarding>>
vars == <<recordingVars, listenerVars, intakeVars>>

TypeOK ==
    /\ RecordingTypeOK /\ Listener!ListenerTypeOK
    /\ tries \in [Bulks -> 0..MaxTries]
    /\ answer \in [Bulks -> {"none", "ok", "refused", "error"}]
    /\ forwarding \in [Bulks -> 0..MaxTries]

Init ==
    /\ RecordingInit /\ Listener!ListenerInit
    /\ tries = [b \in Bulks |-> 0]
    /\ answer = [b \in Bulks |-> "none"]
    /\ forwarding = [b \in Bulks |-> 0]

Answer(b, a) == answer' = [answer EXCEPT ![b] = a]

\* Mutant: what could not be staged is answered like the rest.
StageOrPretend(b) ==
    \/ Stage(b) /\ Answer(b, "ok")
    \/ Full /\ Answer(b, "ok") /\ UNCHANGED recordingVars

\* The queue takes the bulk or the SDK is told to come again.
StageOrFail(b) ==
    \/ Stage(b) /\ Answer(b, "ok")
    \/ Full /\ Answer(b, "error") /\ UNCHANGED recordingVars

-----------------------------------------------------------------------------
\* The middleware refuses an unknown key; a body that cannot be read is an error.
\* Impressions are handed to a goroutine for the listener before they are staged.
Regular(b) ==
    \/ /\ Answer(b, "refused") /\ UNCHANGED <<recordingVars, forwarding>>
    \/ /\ Answer(b, "error") /\ UNCHANGED <<recordingVars, forwarding>>
    \/ /\ forwarding' = [forwarding EXCEPT ![b] = @ + 1]
       /\ StageOrFail(b)

\* No body, a body that is no beacon message, an unknown token: refused. The
\* listener is not told of beacons.
Beacon(b) ==
    /\ \/ Answer(b, "refused") /\ UNCHANGED recordingVars
       \/ Answer(b, "error") /\ UNCHANGED recordingVars
       \/ StageOrFail(b)
    /\ UNCHANGED forwarding

\* SDKs (external) post again what was answered with an error; a browser does not
\* see the answer to a beacon.
Request(b) ==
    /\ answer[b] \in {"none", "error"}
    /\ tries[b] < (IF b \in Beacons THEN 1 ELSE MaxTries)
    /\ tries' = [tries EXCEPT ![b] = @ + 1]
    /\ IF b \in Beacons THEN Beacon(b) ELSE Regular(b)
    /\ UNCHANGED listenerVars

\* The goroutine converts the impressions and submits them, if they can be parsed.
SubmitToListener(b) ==
    /\ forwarding[b] > 0
    /\ forwarding' = [forwarding EXCEPT ![b] = @ - 1]
    /\ \/ Listener!Submit(b)
       \/ UNCHANGED listenerVars
    /\ UNCHANGED <<recordingVars, tries, answer>>

Defer == (Recording \/ StopTask) /\ UNCHANGED <<listenerVars, intakeVars>>

Listen ==
    /\ Listener!Start \/ Listener!Stop \/ Listener!Listening
    /\ UNCHANGED <<recordingVars, intakeVars>>

Next ==
    \/ \E b \in Bulks : Request(b) \/ SubmitToListener(b)
    \/ Defer \/ Listen

Spec == Init /\ [][Next]_vars

TaskStep == (Flush \/ Take \/ HandOver \/ FlushDone) /\ UNCHANGED <<listenerVars, intakeVars>>
WorkerStep(w) == (WorkerTake(w) \/ DoWork(w)) /\ UNCHANGED <<listenerVars, intakeVars>>

\* The task's timer and its goroutine, and the workers, are scheduled.
\* Nobody has to post or to stop anything.
Fairness == WF_vars(TaskStep) /\ \A w \in Workers : WF_vars(WorkerStep(w))

FairSpec == Spec /\ Fairness

-----------------------------------------------------------------------------
\* An SDK is told that its bulk was taken exactly when it was, once, and it never
\* posts again what was (events.go, Stage's error becomes a 500).
AnswersAreTrue ==
    \A b \in Bulks : answer[b] = "ok" <=> b \in Ran(accepted)

\* The user's endpoint hears of a bulk at most once for each time it was posted
\* (events.go:79 forwards before it stages, listener.go posts once).
HeardWithinTries ==
    /\ TypeOK
    /\ \A b \in Bulks :
          heard[b] + forwarding[b] + Cardinality({i \in 1..Len(bulks) : bulks[i] = b})
              + (IF posting = b THEN 1 ELSE 0) <= tries[b]
=============================================================================
