---------------------------- MODULE RuleServing ----------------------------
(***************************************************************************)
(* Rules, that is feature flags and rule-based segments, from the backend  *)
(* to an SDK that polls /splitChanges with a change number (CN) for each   *)
(* kind.  The cache-aware synchronizer writes one storage after the other  *)
(* and then evicts from the HTTP cache; requests read both storages and    *)
(* file their answer in the cache; kills are applied meanwhile, and the    *)
(* process dies and starts over.                                           *)
(*                                                                         *)
(*   proxy/caching/workers.go            CacheAwareSplitSynchronizer       *)
(*   proxy/controllers/sdk.go            SplitChanges, fetchRulesSince     *)
(*   proxy/storage/rulebasedsegments.go  ProxyRuleBasedSegmentsStorageImpl *)
(*                                                                         *)
(* The storage of flags has the steps of the other one, plus kills; record *)
(* by record and with sets it is in ProxyFlags and HistoricChanges.  A     *)
(* rule's content is identified by the CN that produced it, 0 standing for *)
(* none.                                                                   *)
(***************************************************************************)
EXTENDS RuleRecords, Integers, Sequences, FiniteSets, FiniteSetsExt

CONSTANTS
    Rules,         \* names of rules
    MaxRuleCN,     \* bound: the last change number of a kind
    MaxEvents,     \* bound: changes of both kinds and restarts together
    MaxStarts      \* bound: times the proxy is restarted

ASSUME RulesAssumption ==
    MaxRuleCN \in Nat \ {0} /\ MaxEvents \in Nat /\ MaxStarts \in Nat

History == INSTANCE ChangeLog WITH Flags <- Rules, MaxCN <- MaxRuleCN

VARIABLES
    published,     \* backend: changes of each kind, see ChangeLog
    activeRules,   \* snapshot: version of each rule...
    activeCN,      \* ...and the CN of each kind
    updatedAt,     \* summaries: CN of the last update of each rule
    oldestKnownCN, \* CN of each kind the summaries start at
    disk,          \* CN of the record of each rule
    up,            \* requests are served
    sync,          \* the synchronizer: [pc, kind, changes, previous]
    killing,       \* a kill was applied and its eviction is due
    cache,         \* entries [key, body, late]: one at most, see Respond
    flight,        \* a request: [pc, kind, key, old, body, late]
    sdkCN,         \* an SDK: its CN for each kind...
    sdkRules,      \* ...and the rules it holds
    early,         \* history: those of them no update tells of, see RulesKept
    backup,        \* the last snapshot file
    starts

storeVars == <<activeRules, activeCN, updatedAt, oldestKnownCN, disk>>
pollVars == <<sdkCN, sdkRules, early>>
rulesVars == <<published, storeVars, up, sync, killing, cache, flight, pollVars, backup, starts>>

RuleKinds == {"flags", "segments"}
NoRules == [k \in RuleKinds |-> [r \in Rules |-> 0]]
FromScratch == [k \in RuleKinds |-> -1]
NoChanges == [k \in RuleKinds |-> [batch |-> {}, till |-> -1]]
NoSync == [pc |-> "idle", kind |-> "flags", changes |-> NoChanges, previous |-> FromScratch]
NoBody == [k \in RuleKinds |-> [till |-> -1, got |-> <<>>, early |-> FALSE]]
NoFlight == [pc |-> "idle", kind |-> "flags", key |-> FromScratch, old |-> FALSE,
             body |-> NoBody, late |-> FALSE]

RulesInit ==
    /\ published = [k \in RuleKinds |-> <<>>]
    /\ activeRules = NoRules /\ activeCN = FromScratch /\ updatedAt = NoRules
    /\ oldestKnownCN = FromScratch /\ disk = NoRules
    /\ up = FALSE /\ sync = NoSync /\ killing = FALSE
    /\ cache = {} /\ flight = NoFlight
    /\ sdkCN = FromScratch /\ sdkRules = NoRules /\ early = {}
    /\ backup = NoRules /\ starts = 0

-----------------------------------------------------------------------------
(* Backend and synchronizer                                                *)

\* The CN the backend answers a request from cn with (external).
TillFrom(k, cn) == Max({cn} \cup DOMAIN published[k])

Events == Len(published["flags"]) + Len(published["segments"]) + starts

\* A file that no restart within the bounds can use any more is forgotten.
StillUsable == IF starts' < MaxStarts /\ Events' < MaxEvents THEN backup ELSE NoRules

PublishRule(k, change) ==
    /\ Len(published[k]) < MaxRuleCN
    /\ Events < MaxEvents
    /\ published' = [published EXCEPT ![k] = Append(@, change)]
    /\ UNCHANGED <<storeVars, up, sync, killing, cache, flight, pollVars, starts>>
    /\ backup' = StillUsable

SomethingNew == \E k \in RuleKinds : activeCN[k] < Len(published[k]) /\ published[k] # <<>>

\* SynchronizeSplits: the CNs before. Polls that bring nothing are left out.
BeginSync ==
    /\ sync.pc = "idle"
    /\ SomethingNew \/ ~up
    /\ sync' = [NoSync EXCEPT !.pc = "fetch", !.previous = activeCN]
    /\ UNCHANGED <<published, storeVars, up, killing, cache, flight, pollVars, backup, starts>>

\* The wrapped synchronizer (external) fetches both kinds from the storages' CNs...
FetchRules ==
    /\ sync.pc = "fetch" /\ SomethingNew
    /\ sync' = [sync EXCEPT !.pc = "start", !.kind = "flags",
                  !.changes = [k \in RuleKinds |->
                     [batch |-> History!ChangedSince(published[k], activeCN[k]),
                      till |-> TillFrom(k, activeCN[k])]]]
    /\ UNCHANGED <<published, storeVars, up, killing, cache, flight, pollVars, backup, starts>>

\* ...until there is nothing new, and then the proxy can serve...
NothingNew ==
    /\ sync.pc = "fetch" /\ ~SomethingNew
    /\ sync' = [sync EXCEPT !.pc = "evict"]
    /\ up' = TRUE
    /\ UNCHANGED <<published, storeVars, killing, cache, flight, pollVars, backup, starts>>

\* Mutant: an error ends the synchronization at once.
FetchFailsReturns ==
    /\ sync.pc = "fetch"
    /\ sync' = NoSync
    /\ UNCHANGED <<published, storeVars, up, killing, cache, flight, pollVars, backup, starts>>

\* ...or a fetch fails, which may be after others were written.
FetchFails ==
    /\ sync.pc = "fetch"
    /\ sync' = [sync EXCEPT !.pc = "evict"]
    /\ UNCHANGED <<published, storeVars, up, killing, cache, flight, pollVars, backup, starts>>

\* The changes of the kind that is being written, and what follows them.
Batch == sync.changes[sync.kind].batch
VersionOf(k, n) == IF published[k][n].active THEN n ELSE 0
AfterKind ==
    IF sync.kind = "flags" THEN [sync EXCEPT !.pc = "start", !.kind = "segments"]
    ELSE [sync EXCEPT !.pc = "fetch", !.kind = "flags", !.changes = NoChanges]

\* Update: the starting point is set under a lock of its own, and that is all when
\* nothing changed.
StartingPoint ==
    /\ sync.pc = "start"
    /\ LET k == sync.kind
           till == sync.changes[k].till
       IN  oldestKnownCN' = [oldestKnownCN EXCEPT ![k] = IF @ = -1 \/ till < @ THEN till ELSE @]
    /\ sync' = IF Batch = {} THEN AfterKind ELSE [sync EXCEPT !.pc = "snapshot"]
    /\ UNCHANGED <<published, activeRules, activeCN, updatedAt, disk, up, killing, cache, flight, pollVars, backup, starts>>

\* The changes of a rule in the batch.
ChangesIn(r) == {n \in Batch : published[sync.kind][n].name = r}

\* Update: the snapshot and its CN.
WriteSnapshot ==
    /\ sync.pc = "snapshot"
    /\ LET k == sync.kind IN
       /\ activeRules' = [activeRules EXCEPT ![k] = [r \in Rules |->
             IF ChangesIn(r) = {} THEN @[r] ELSE VersionOf(k, Max(ChangesIn(r)))]]
       /\ activeCN' = [activeCN EXCEPT ![k] = sync.changes[k].till]
    /\ sync' = [sync EXCEPT !.pc = "historic"]
    /\ UNCHANGED <<published, updatedAt, oldestKnownCN, disk, up, killing, cache, flight, pollVars, backup, starts>>

\* Update: the summaries, of archived rules too.
WriteHistoric ==
    /\ sync.pc = "historic"
    /\ updatedAt' = [updatedAt EXCEPT ![sync.kind] = [r \in Rules |->
          IF ChangesIn(r) = {} THEN @[r] ELSE Max(ChangesIn(r))]]
    /\ sync' = [sync EXCEPT !.pc = "save"]
    /\ UNCHANGED <<published, activeRules, activeCN, oldestKnownCN, disk, up, killing, cache, flight, pollVars, backup, starts>>

\* Update: the records on disk, which only exports read, one by one, those of active
\* rules first. The last one releases the lock.
SaveRule(n) ==
    /\ sync.pc = "save"
    /\ LET k == sync.kind
           changes == published[k]
       IN  /\ n \in Batch
           /\ changes[n].active \/ \A m \in Batch : ~changes[m].active
           /\ \E saved \in SaveAs(disk[k], changes[n].name, n) : disk' = [disk EXCEPT ![k] = saved]
           /\ sync' = IF Batch = {n} THEN AfterKind
                      ELSE [sync EXCEPT !.changes[k].batch = Batch \ {n}]
    /\ UNCHANGED <<published, activeRules, activeCN, updatedAt, oldestKnownCN, up, killing, cache, flight, pollVars, backup, starts>>

\* Mutant: the CN of rule-based segments is not looked at.
MovedFlagsOnly ==
    \E k \in {"flags"} : \/ activeCN[k] > sync.previous[k]
                         \/ sync.previous[k] # -1 /\ activeCN[k] = -1

\* Whether the CN of a kind is not what it was.
Moved ==
    \E k \in RuleKinds : \/ activeCN[k] > sync.previous[k]
                         \/ sync.previous[k] # -1 /\ activeCN[k] = -1

\* All answers of /splitChanges go. A request in progress is not touched: it is late,
\* which is for properties only, when it has read something already. That includes
\* requests that came after what is being evicted for was written.
EvictSplits ==
    /\ cache' = {}
    /\ flight' = IF flight.pc = "idle" \/ (flight.pc = "begin" /\ flight.kind = "flags")
                 THEN flight ELSE [flight EXCEPT !.late = TRUE]

EndSync ==
    /\ sync.pc = "evict"
    /\ sync' = NoSync
    /\ IF Moved THEN EvictSplits ELSE UNCHANGED <<cache, flight>>
    /\ UNCHANGED <<published, storeVars, up, killing, pollVars, backup, starts>>

\* LocalKill: the snapshot alone is changed, ahead of the fetch that brings the
\* same change, and then the cache is emptied whatever happened.
KillRule(n) ==
    /\ up /\ ~killing
    /\ n \in 1..Len(published["flags"]) /\ n > activeCN["flags"]
    /\ published["flags"][n].active
    /\ LET r == published["flags"][n].name IN
       /\ activeRules["flags"][r] \in 1..n - 1
       /\ activeRules' = [activeRules EXCEPT !["flags"][r] = n]
    /\ killing' = TRUE
    /\ UNCHANGED <<published, activeCN, updatedAt, oldestKnownCN, disk, up, sync, cache, flight, pollVars, backup, starts>>

EvictKilled ==
    /\ killing /\ killing' = FALSE
    /\ EvictSplits
    /\ UNCHANGED <<published, storeVars, up, sync, pollVars, backup, starts>>

-----------------------------------------------------------------------------
(* Requests                                                                *)

\* The answer for a kind is complete: the next kind is read, flags first; one
\* storage that finds since too old is enough to ask the backend for both.
Answered(k, till, got) ==
    LET f == [flight EXCEPT !.body[k] = [till |-> till, got |-> got, early |-> till = -1]]
    IN  IF k = "flags" THEN [f EXCEPT !.pc = "begin", !.kind = "segments"]
        ELSE [f EXCEPT !.pc = IF f.old THEN "backend" ELSE "reply"]

Untouched == UNCHANGED <<published, storeVars, up, sync, killing, pollVars, backup, starts>>

\* A request for which the cache has no answer reaches its handler: the SDK's, or
\* another's that is where the SDK is, whose answer it may find in the cache.
HandleSplits ==
    /\ up /\ flight = NoFlight
    /\ \A e \in cache : e.key # sdkCN
    /\ flight' = [NoFlight EXCEPT !.pc = "begin", !.key = sdkCN]
    /\ Untouched /\ UNCHANGED cache

\* ChangesSince(-1): the snapshot's CN is read first...
ReadSnapshotCN ==
    /\ flight.pc = "begin" /\ flight.key[flight.kind] = -1
    /\ flight' = [flight EXCEPT !.pc = "all", !.body[flight.kind].till = activeCN[flight.kind]]
    /\ Untouched /\ UNCHANGED cache

\* ...and its rules next.
ReadSnapshot ==
    /\ flight.pc = "all"
    /\ LET k == flight.kind
           served == {r \in Rules : activeRules[k][r] # 0}
       IN  flight' = Answered(k, flight.body[k].till, [r \in served |-> activeRules[k][r]])
    /\ Untouched /\ UNCHANGED cache

\* An update of the storage of a kind has its lock.
BeingWritten(k) == sync.kind = k /\ sync.pc \in {"historic", "save"}

\* Mutant: an SDK is told there is nothing new when its CN is too old.
SinceIsTooOldIgnored ==
    /\ flight.pc = "begin"
    /\ LET k == flight.kind IN
       /\ flight.key[k] # -1
       /\ ~BeingWritten(k)
       /\ flight' = IF flight.key[k] < oldestKnownCN[k] THEN Answered(k, oldestKnownCN[k], <<>>)
                    ELSE [flight EXCEPT !.pc = "historic"]
    /\ Untouched /\ UNCHANGED cache

\* sinceIsTooOld, which waits for the lock of an update.
SinceIsTooOld ==
    /\ flight.pc = "begin"
    /\ LET k == flight.kind IN
       /\ flight.key[k] # -1
       /\ ~BeingWritten(k)
       /\ flight' = IF flight.key[k] < oldestKnownCN[k]
                    THEN [Answered(k, -1, <<>>) EXCEPT !.old = TRUE,
                            !.pc = IF k = "flags" THEN "begin" ELSE "backend"]
                    ELSE [flight EXCEPT !.pc = "historic"]
    /\ Untouched /\ UNCHANGED cache

NewerThan(k, since) == {r \in Rules : updatedAt[k][r] > Max({since, 0})}

\* Rules of the SDK that are not in the answer, while its CN, which was not too old
\* when sinceIsTooOld looked, would be by now.
Passed(k, newer) ==
    IF newer = {} \/ flight.key[k] >= oldestKnownCN[k] THEN {}
    ELSE {<<k, r>> : r \in {x \in Rules \ newer : sdkRules[k][x] # 0}}

\* GetUpdatedSince: the newer views, and their highest CN. Archived rules are
\* answered from their views. (early is for properties only.)
ReadViews ==
    /\ flight.pc = "historic"
    /\ LET k == flight.kind
           newer == NewerThan(k, flight.key[k])
       IN  /\ flight' = [flight EXCEPT !.pc = "fetch",
                !.body[k] = [till |-> Max({flight.key[k]} \cup {updatedAt[k][r] : r \in newer}),
                             got |-> [r \in newer |-> VersionOf(k, updatedAt[k][r])],
                             early |-> FALSE]]
           /\ early' = early \cup Passed(k, newer)
    /\ UNCHANGED <<published, storeVars, up, sync, killing, sdkCN, sdkRules, backup, starts, cache>>

\* FetchMany: active ones come from the snapshot as it is by now, if they are there.
FetchRuleVersions ==
    /\ flight.pc = "fetch"
    /\ LET k == flight.kind
           got == flight.body[k].got
           sent == {r \in DOMAIN got : got[r] = 0 \/ activeRules[k][r] # 0}
       IN  flight' = Answered(k, flight.body[k].till,
                              [r \in sent |-> IF got[r] = 0 THEN 0 ELSE activeRules[k][r]])
    /\ Untouched /\ UNCHANGED cache

\* The backend answers for both kinds, from the CNs of the request.
FetchFromBackendSince ==
    /\ flight.pc = "backend"
    /\ flight' = [flight EXCEPT !.pc = "reply",
         !.body = [k \in RuleKinds |->
            LET batch == History!ChangedSince(published[k], flight.key[k])
            IN  [till |-> TillFrom(k, flight.key[k]),
                 got |-> [r \in {published[k][n].name : n \in batch} |->
                            History!Served(published[k], r, Len(published[k]))],
                 early |-> activeCN[k] = -1]]]
    /\ Untouched /\ UNCHANGED cache

\* Or it does not, and the error is not cached.
BackendFails ==
    /\ flight.pc = "backend"
    /\ flight' = NoFlight
    /\ Untouched /\ UNCHANGED cache

\* The SDK applies an answer (external).
ReceiveRules(body) ==
    /\ sdkCN' = [k \in RuleKinds |-> body[k].till]
    /\ sdkRules' = [k \in RuleKinds |-> [r \in Rules |->
                  IF r \in DOMAIN body[k].got THEN body[k].got[r] ELSE sdkRules[k][r]]]
    /\ early' = {p \in RuleKinds \X Rules :
                   IF p[2] \in DOMAIN body[p[1]].got THEN body[p[1]].early ELSE p \in early}

\* The cache files the answer, and the SDK gets it if the request was its own and it
\* did not give up waiting. The cache has room for more than
\* is ever in it, and entries have nothing to do with each other: that the others
\* may be forgotten keeps the model small.
Respond(own) ==
    /\ flight.pc = "reply"
    /\ cache' = {[key |-> flight.key, body |-> flight.body, late |-> flight.late]}
    /\ own => flight.key = sdkCN
    /\ IF own THEN ReceiveRules(flight.body) ELSE UNCHANGED pollVars
    /\ flight' = NoFlight
    /\ UNCHANGED <<published, storeVars, up, sync, killing, backup, starts>>

\* The SDK's poll is answered from the cache.
HitSplits ==
    /\ up /\ \E e \in cache : e.key = sdkCN /\ ReceiveRules(e.body)
    /\ UNCHANGED <<published, storeVars, up, sync, killing, cache, flight, backup, starts>>

-----------------------------------------------------------------------------
(* Snapshot files and restarts                                             *)

ExportRules ==
    /\ starts < MaxStarts /\ Events < MaxEvents
    /\ disk # NoRules /\ backup # disk
    /\ ExportMidWrite \/ sync.pc # "save"
    /\ backup' = disk
    /\ UNCHANGED <<published, storeVars, up, sync, killing, cache, flight, pollVars, starts>>

\* The process dies, and the next one starts from records: the active ones fill
\* snapshot and summaries, at a CN of each kind.
StartFrom(records, cn, served) ==
    /\ starts < MaxStarts /\ Events < MaxEvents
    /\ starts' = starts + 1
    /\ disk' = records
    /\ activeRules' = [k \in RuleKinds |-> [r \in Rules |->
                  IF records[k][r] = 0 THEN 0 ELSE VersionOf(k, records[k][r])]]
    /\ updatedAt' = activeRules'
    /\ activeCN' = cn /\ oldestKnownCN' = cn
    /\ up' = served
    /\ sync' = NoSync /\ killing' = FALSE /\ cache' = {} /\ flight' = NoFlight
    /\ UNCHANGED <<published, pollVars>>
    /\ backup' = StillUsable

StartBlank == StartFrom(NoRules, FromScratch, FALSE)

\* snapshotFromDiskRB: the CN is the highest of all records. A kind without any has no
\* bucket in the file, which is an error: it starts like one that was never fetched,
\* but requests are served.
BackupCN(k) ==
    LET cns == {backup[k][r] : r \in Rules} \ {0}
    IN  IF cns = {} THEN -1 ELSE Max(cns)

StartFromBackup ==
    /\ backup # NoRules
    /\ StartFrom(backup, [k \in RuleKinds |-> BackupCN(k)], TRUE)

FetchWorks == FetchRules \/ NothingNew
SyncRules == \/ BeginSync \/ StartingPoint \/ WriteSnapshot \/ WriteHistoric
             \/ (\E n \in 1..MaxRuleCN : SaveRule(n)) \/ EndSync
ServeRules == \/ ReadSnapshotCN \/ ReadSnapshot \/ SinceIsTooOld \/ ReadViews
              \/ FetchRuleVersions \/ FetchFromBackendSince \/ BackendFails
              \/ \E own \in BOOLEAN : Respond(own)

RulesNext ==
    \/ \E k \in RuleKinds, change \in History!Change : PublishRule(k, change)
    \/ SyncRules \/ FetchWorks \/ FetchFails
    \/ \E n \in 1..MaxRuleCN : KillRule(n)
    \/ EvictKilled
    \/ HandleSplits \/ ServeRules \/ HitSplits
    \/ ExportRules \/ StartBlank \/ StartFromBackup

RulesSpec == RulesInit /\ [][RulesNext]_rulesVars

SdkReceives == Respond(TRUE) \/ HitSplits

\* The synchronizer polls or is notified, goroutines are scheduled, the SDK keeps
\* polling, the backend does not fail for ever, and not every answer is another's.
RulesFairness ==
    /\ WF_rulesVars(SyncRules) /\ SF_rulesVars(FetchWorks)
    /\ WF_rulesVars(EvictKilled)
    /\ WF_rulesVars(ServeRules) /\ SF_rulesVars(FetchFromBackendSince)
    /\ WF_rulesVars(HandleSplits) /\ SF_rulesVars(SdkReceives)

RulesFairSpec == RulesSpec /\ RulesFairness

-----------------------------------------------------------------------------
(* Properties                                                              *)

Body == [till : -1..MaxRuleCN, got : UNION {[R -> 0..MaxRuleCN] : R \in SUBSET Rules},
         early : BOOLEAN]

RulesTypeOK ==
    /\ \A k \in RuleKinds : published[k] \in Seq(History!Change) /\ Len(published[k]) <= MaxRuleCN
    /\ {activeRules, updatedAt, disk, sdkRules, backup} \subseteq [RuleKinds -> [Rules -> 0..MaxRuleCN]]
    /\ {activeCN, oldestKnownCN, sdkCN} \subseteq [RuleKinds -> -1..MaxRuleCN]
    /\ {up, killing, flight.old, flight.late} \subseteq BOOLEAN
    /\ sync.pc \in {"idle", "fetch", "start", "snapshot", "historic", "save", "evict"}
    /\ sync.pc \in {"snapshot", "historic", "save"} => Batch # {}
    /\ flight.pc \in {"idle", "begin", "all", "historic", "fetch", "backend", "reply"}
    /\ \A e \in cache : e.body \in [RuleKinds -> Body]
    /\ Cardinality(cache) <= 1 /\ early \subseteq RuleKinds \X Rules
    /\ starts \in 0..MaxStarts

\* An SDK holds every change of either kind at or below its CN of that kind, from
\* the storage, the backend or the cache. early has the exceptions, all of a storage
\* that had no CN of the kind, be it new or started from a file without the kind
\* (rulebasedsegments.go:70-74): a rule got from it, by a read of the CN before the
\* first update and of the rules after it (105-112), or from the backend meanwhile;
\* and one held while a request, let in for want of a CN, reads the summaries after
\* the update (114-118). When such a rule is archived before the storage has it,
\* nobody tells the SDK: a first update brings active rules only (56-65), and one
\* without any moves the CN the summaries start at but leaves them empty (192-198).
RulesKept ==
    /\ RulesTypeOK
    /\ \A k \in RuleKinds, r \in Rules :
          LET n == History!LatestCN(published[k], r, Len(published[k]))
          IN  n > 0 /\ n <= sdkCN[k] =>
                 sdkRules[k][r] = VersionOf(k, n) \/ <<k, r>> \in early

\* When a synchronization has ended, by an error in the middle of it too, and no kill
\* is being applied, every cached answer covers every update in the summaries and
\* holds no rule older than the snapshot's, except for those computed before an
\* eviction and filed after it (workers.go:56).
OnlyLateRulesStale ==
    sync.pc = "idle" /\ ~killing =>
        \A e \in cache : e.late \/ \A k \in RuleKinds :
            LET b == e.body[k]
            IN  \/ b.till > activeCN[k]
                \/ \A r \in Rules : /\ updatedAt[k][r] <= Max({b.till, 0})
                                    /\ r \in DOMAIN b.got => b.got[r] >= activeRules[k][r]

\* The backend has rules of a kind to serve, or never had any: otherwise the proxy,
\* which ignores an update without rules, asks from scratch again and again.
Populated ==
    \A k \in RuleKinds :
        \/ published[k] = <<>>
        \/ \E r \in Rules : History!Served(published[k], r, Len(published[k])) # 0

\* A polling SDK ends up with the backend's rules of both kinds, but for those in
\* early, unless an answer filed late is in the cache for good (workers.go:47-60).
RulesConverge ==
    <>[]Populated =>
        <>[](\/ \A k \in RuleKinds, r \in Rules :
                   \/ sdkRules[k][r] = History!Served(published[k], r, Len(published[k]))
                   \/ <<k, r>> \in early
             \/ \E e \in cache : e.late /\ e.key = sdkCN)
=============================================================================
