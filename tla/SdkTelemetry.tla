--------------------------- MODULE SdkTelemetry ----------------------------
(***************************************************************************)
(* Telemetry of SDKs that share a Redis with the synchronizer: they count  *)
(* calls in two hashes and leave their configurations in a hash or, newer  *)
(* ones, in a list; one task takes it all out, command by command, and     *)
(* posts it, once.  A counter is the set of the calls counted in it.       *)
(***************************************************************************)
EXTENDS Naturals, Sequences, FiniteSets

CONSTANTS
    Instances,      \* SDK instances (metadata)
    HashInstances,  \* those that leave their configuration in the hash
    Calls,          \* records: the instance, the kind, and whether the method is known
    MaxVersion,     \* how often an instance is configured (a bound of the model)
    MaxReports,     \* how often the task runs (a bound of the model)
    Limit           \* configFetchBulkSize

ASSUME TelemetryAssumption ==
    /\ HashInstances \subseteq Instances /\ Limit \in Nat \ {0}
    /\ Calls \subseteq [of : Instances, kind : {"latency", "exception"}, known : BOOLEAN]
    /\ {MaxVersion, MaxReports} \subseteq Nat

CallKinds == {"latency", "exception"}
Configs == [of : Instances, version : 1..MaxVersion]

VARIABLES
    counts,      \* the hashes of the counters, by kind
    initHash, configList,  \* the configurations in Redis
    step,        \* the next command of the task
    popped,      \* counters read and not posted yet
    fromHash, fromList,    \* what this fetch has read
    failing,     \* a command of this fetch failed
    configs,     \* configurations to be posted, one per instance
    made,        \* history: calls ever made
    version,     \* history: how often each instance was configured
    sent,        \* history: last version posted of each instance
    reports,     \* history: how often the task ran
    posts,       \* history: how often each call was reported
    missed, again,  \* history: calls made between a read and its DEL; calls read whose DEL failed
    mishap       \* history: instances whose configuration came between HGETALL and DEL; all, once a
                 \* command failed

telemetryVars == <<counts, initHash, configList, step, popped, fromHash, fromList, failing,
                   configs, made, version, sent, reports, posts, missed, again, mishap>>

StatSteps == {"readLatency", "deleteLatency", "readException", "deleteException", "postStats"}
ConfigSteps == {"readHash", "deleteHash", "readList", "trimList", "postConfigs"}

TelemetryTypeOK ==
    /\ counts \in [CallKinds -> SUBSET Calls]
    /\ initHash \subseteq Configs /\ configList \in Seq(Configs)
    /\ step \in {"idle"} \cup StatSteps \cup ConfigSteps
    /\ popped \subseteq Calls /\ fromHash \subseteq Configs /\ fromList \in Seq(Configs)
    /\ failing \in BOOLEAN /\ configs \subseteq Configs
    /\ made \subseteq Calls /\ version \in [Instances -> 0..MaxVersion]
    /\ sent \in [Instances -> 0..MaxVersion] /\ reports \in 0..MaxReports
    /\ posts \in [Calls -> Nat] /\ missed \subseteq Calls /\ again \subseteq Calls
    /\ mishap \subseteq Instances

TelemetryInit ==
    /\ counts = [k \in CallKinds |-> {}] /\ initHash = {} /\ configList = <<>>
    /\ step = "idle" /\ popped = {} /\ fromHash = {} /\ fromList = <<>>
    /\ failing = FALSE /\ configs = {} /\ made = {} /\ reports = 0
    /\ version = [i \in Instances |-> 0] /\ sent = [i \in Instances |-> 0]
    /\ posts = [c \in Calls |-> 0] /\ missed = {} /\ again = {} /\ mishap = {}

redisVars == <<counts, initHash, configList>>
callHistory == <<made, posts, missed, again>>
configVars == <<fromHash, fromList, failing, configs, version, sent, mishap>>
Known(calls) == {c \in calls : c.known}

-----------------------------------------------------------------------------
(* SDKs (external)                                                         *)

\* HINCRBY
Call(c) ==
    /\ c \notin made
    /\ made' = made \cup {c}
    /\ counts' = [counts EXCEPT ![c.kind] = @ \cup {c}]
    /\ missed' = IF step = (IF c.kind = "latency" THEN "deleteLatency" ELSE "deleteException")
                 THEN missed \cup {c} ELSE missed
    /\ UNCHANGED <<initHash, configList, step, popped, reports, posts, again, configVars>>

\* HSET, over what the instance left before, or RPUSH.
Configure(i) ==
    LET c == [of |-> i, version |-> version[i] + 1] IN
    /\ version[i] < MaxVersion
    /\ version' = [version EXCEPT ![i] = @ + 1]
    /\ IF i \in HashInstances
       THEN /\ initHash' = {d \in initHash : d.of # i} \cup {c}
            /\ mishap' = IF step = "deleteHash" THEN mishap \cup {i} ELSE mishap
            /\ UNCHANGED configList
       ELSE configList' = Append(configList, c) /\ UNCHANGED <<initHash, mishap>>
    /\ UNCHANGED <<counts, step, popped, fromHash, fromList, failing, configs, sent, reports,
                   callHistory>>

-----------------------------------------------------------------------------
(* SynchronizeStats                                                        *)

Tick ==
    /\ step = "idle" /\ reports < MaxReports
    /\ reports' = reports + 1
    /\ step' = "readLatency"
    /\ UNCHANGED <<redisVars, popped, callHistory, configVars>>

\* HGETALL. Fields that cannot be parsed are skipped.
Read(kind, read, delete, next) ==
    /\ step = read
    /\ \/ popped' = popped \cup Known(counts[kind]) /\ step' = delete
       \/ popped' = popped /\ step' = next
    /\ UNCHANGED <<redisVars, reports, callHistory, configVars>>

\* DEL. Nobody looks at whether it failed.
Delete(kind, delete, next) ==
    /\ step = delete
    /\ \/ counts' = [counts EXCEPT ![kind] = {}] /\ UNCHANGED again
       \/ again' = again \cup {c \in popped : c.kind = kind} /\ UNCHANGED counts
    /\ step' = next
    /\ UNCHANGED <<initHash, configList, popped, reports, made, posts, missed, configVars>>

\* buildStats: the instances that have latencies or exceptions.
Stats == {c.of : c \in popped}

\* Mutant: what could not be posted is kept.
PostStatsKeep(i) ==
    /\ step = "postStats" /\ i \in Stats
    /\ popped' \in {popped, {c \in popped : c.of # i}}
    /\ posts' = [c \in Calls |-> IF c \in popped /\ c.of = i THEN posts[c] + 1 ELSE posts[c]]
    /\ UNCHANGED <<redisVars, step, reports, made, missed, again, configVars>>

\* RecordStats for one instance after the other, whatever comes of it.
PostStats(i) ==
    /\ step = "postStats" /\ i \in Stats
    /\ popped' = {c \in popped : c.of # i}
    /\ posts' = [c \in Calls |-> IF c \in popped /\ c.of = i THEN posts[c] + 1 ELSE posts[c]]
    /\ UNCHANGED <<redisVars, step, reports, made, missed, again, configVars>>

StatsDone ==
    /\ step = "postStats" /\ Stats = {}
    /\ popped' = {}
    /\ step' = "readHash"
    /\ UNCHANGED <<redisVars, reports, callHistory, configVars>>

SynchronizeStats ==
    \/ Tick
    \/ Read("latency", "readLatency", "deleteLatency", "readException")
    \/ Delete("latency", "deleteLatency", "readException")
    \/ Read("exception", "readException", "deleteException", "postStats")
    \/ Delete("exception", "deleteException", "postStats")
    \/ \E i \in Instances : PostStats(i)
    \/ StatsDone

-----------------------------------------------------------------------------
(* SyncrhonizeConfigs                                                      *)

\* What every step of a fetch leaves alone.
UnchangedByFetch ==
    UNCHANGED <<counts, popped, reports, callHistory, version, sent>>

\* Whether a command fails; one that does may have been carried out.
Fails(fails) ==
    /\ failing' = (failing \/ fails)
    /\ mishap' = IF fails THEN Instances ELSE mishap

ReadHash ==
    /\ step = "readHash"
    /\ \/ Fails(FALSE) /\ fromHash' = initHash
       \/ Fails(TRUE) /\ fromHash' = {}
    /\ step' = "deleteHash"
    /\ UNCHANGED <<redisVars, fromList, configs>> /\ UnchangedByFetch

DeleteHash ==
    /\ step = "deleteHash"
    /\ \/ Fails(FALSE) /\ initHash' = {}
       \/ Fails(TRUE) /\ initHash' \in {initHash, {}}
    /\ step' = "readList"
    /\ UNCHANGED <<configList, fromHash, fromList, configs>> /\ UnchangedByFetch

First(s, n) == SubSeq(s, 1, IF n <= Len(s) THEN n ELSE Len(s))

\* LRANGE 0 limit takes one more than the limit.
ReadList ==
    /\ step = "readList"
    /\ \/ Fails(FALSE) /\ fromList' = First(configList, Limit + 1)
       \/ Fails(TRUE) /\ fromList' = <<>>
    /\ step' = "trimList"
    /\ UNCHANGED <<redisVars, fromHash, configs>> /\ UnchangedByFetch

\* Mutant: the configuration seen first is kept.
DedupedFirst ==
    LET ofList == {fromList[k] : k \in {l \in 1..Len(fromList) :
                                           \A m \in 1..(l - 1) : fromList[m].of # fromList[l].of}}
        new == ofList \cup {c \in fromHash : \A d \in ofList : d.of # c.of}
    IN  new \cup {c \in configs : \A d \in new : d.of # c.of}

\* Mutant: all that was read is posted.
NotDeduped == configs \cup fromHash \cup {fromList[k] : k \in 1..Len(fromList)}

\* dedupeAndAdd: the last one of an instance wins, the list coming after the hash.
Deduped ==
    LET ofList == {fromList[k] : k \in {l \in 1..Len(fromList) :
                                           \A m \in (l + 1)..Len(fromList) :
                                               fromList[m].of # fromList[l].of}}
        new == ofList \cup {c \in fromHash : \A d \in ofList : d.of # c.of}
    IN  new \cup {c \in configs : \A d \in new : d.of # c.of}

\* What LTRIM leaves of the list.
Remaining == SubSeq(configList, Len(fromList) + 1, Len(configList))

\* LTRIM, and the end of the fetch: what was read is thrown away if a command failed;
\* another fetch follows while the list was not short.
TrimList ==
    /\ step = "trimList"
    /\ \E fails \in BOOLEAN :
        /\ mishap' = IF fails THEN Instances ELSE mishap
        /\ IF fails THEN configList' \in {configList, Remaining} ELSE configList' = Remaining
        /\ configs' = IF failing \/ fails THEN configs ELSE Deduped
        /\ step' = IF failing \/ fails \/ Len(fromList) < Limit THEN "postConfigs" ELSE "readHash"
    /\ failing' = FALSE /\ fromHash' = {} /\ fromList' = <<>>
    /\ UNCHANGED initHash /\ UnchangedByFetch

\* RecordConfig for one instance after the other, whatever comes of it.
PostConfig(c) ==
    /\ step = "postConfigs" /\ c \in configs
    /\ configs' = configs \ {c}
    /\ sent' = [sent EXCEPT ![c.of] = c.version]
    /\ UNCHANGED <<redisVars, step, popped, fromHash, fromList, failing, reports, callHistory,
                   version, mishap>>

ConfigsDone ==
    /\ step = "postConfigs" /\ configs = {}
    /\ step' = "idle"
    /\ UNCHANGED <<redisVars, popped, reports, callHistory, configVars>>

SyncrhonizeConfigs ==
    ReadHash \/ DeleteHash \/ ReadList \/ TrimList \/ (\E c \in configs : PostConfig(c)) \/ ConfigsDone

TelemetryTask == SynchronizeStats \/ SyncrhonizeConfigs

TelemetryNext ==
    \/ \E c \in Calls : Call(c)
    \/ \E i \in Instances : Configure(i)
    \/ TelemetryTask

TelemetrySpec == TelemetryInit /\ [][TelemetryNext]_telemetryVars

-----------------------------------------------------------------------------
\* A call is reported once. It is lost only if it was counted between the command that
\* reads its hash and the one that deletes it (telemetry.go:53-59), or if its method is
\* unknown, and reported again only if the hash could not be deleted after it was read.
CallsReportedOnce ==
    /\ \A c \in made :
          \/ c \in counts[c.kind] \/ c \in popped \/ posts[c] > 0
          \/ c \in missed \/ ~c.known
    /\ \A c \in Calls : posts[c] > 1 => c \in again

\* The newest configuration of an instance is on its way, or posted, unless it came
\* between HGETALL and DEL, or a command failed: then the fetch that met the failure
\* gives nothing of what it has read, and its other commands have removed it.
NewestConfigOnItsWay ==
    \A i \in Instances \ mishap :
        LET newest == [of |-> i, version |-> version[i]] IN
        \/ version[i] = 0 \/ sent[i] = version[i]
        \/ newest \in initHash \cup fromHash \cup configs
        \/ \E k \in 1..Len(configList) : configList[k] = newest
        \/ \E k \in 1..Len(fromList) : fromList[k] = newest

\* Configurations of an instance are posted in the order they were left in, whatever
\* commands fail: none is followed by an older one.
ConfigsNeverGoBack == [][\A i \in Instances : sent'[i] >= sent[i]]_telemetryVars
=============================================================================
