----------------------------- MODULE ProxyFlags -----------------------------
(***************************************************************************)
(* Feature flags in the proxy: from the backend, through the synchronizer, *)
(* into three stores (in-memory snapshot, historic summaries, disk), out   *)
(* to an SDK that polls /splitChanges, and through a snapshot file into    *)
(* the proxy's next incarnation.                                           *)
(*                                                                         *)
(*   proxy/storage/splits.go             ProxySplitStorageImpl             *)
(*   proxy/storage/optimized/historic.go HistoricChangesImpl               *)
(*   proxy/storage/persistent/splits.go  SplitChangesCollection            *)
(*   proxy/controllers/sdk.go            SplitChanges / fetchRulesSince    *)
(*                                                                         *)
(* The stores are updated one after the other, while requests read them    *)
(* without the updater's lock: every read and every write of a store is a  *)
(* step.  A flag's content is identified by the change number (CN) that    *)
(* produced it.  Flag sets are in HistoricChanges: here a filtering SDK    *)
(* asks for a set all flags belong to.                                     *)
(***************************************************************************)
EXTENDS ChangeLog, RuleRecords, FiniteSets, FiniteSetsExt

CONSTANT MaxRestarts \* bound: times the proxy is restarted

ASSUME ProxyAssumption == MaxCN \in Nat \ {0} /\ MaxRestarts \in Nat

VARIABLES
    log,       \* backend: published changes
    snap,      \* snapshot: version of each flag served, 0 if absent
    snapCN,    \* snapshot: change number
    hist,      \* historic: hist[f] = CN of the last update of f's view, 0 if none
    oldest,    \* oldestKnownCN
    items,     \* disk: CN of the record saved for each flag, 0 if none
    serving,   \* the HTTP server was started: first sync done, or snapshot loaded
    upd,       \* the synchronizer: [pc, batch, till]
    file,      \* last exported snapshot file (as items), or NoFile
    filtered,  \* whether the SDK's requests carry a set filter
    since,     \* the SDK's change number
    view,      \* the flags the SDK holds
    req,       \* its request in progress: [pc, till, got]
    restarts

proxyVars == <<snap, snapCN, hist, oldest, items, serving>>
sdkVars == <<since, view, req>>
vars == <<log, proxyVars, upd, file, filtered, sdkVars, restarts>>

NoFile == [f \in Flags |-> -1]
Nothing == [f \in Flags |-> 0]
NoUpdate == [pc |-> "idle", batch |-> {}, till |-> -1]
NoRequest == [pc |-> "idle", till |-> -1, got |-> <<>>]

Init ==
    /\ log = <<>>
    /\ snap = Nothing /\ snapCN = -1
    /\ hist = Nothing
    /\ oldest = -1
    /\ items = Nothing
    /\ serving = FALSE
    /\ upd = NoUpdate
    /\ file = NoFile
    /\ filtered \in BOOLEAN
    /\ since = -1
    /\ view = Nothing
    /\ req = NoRequest
    /\ restarts = 0

-----------------------------------------------------------------------------
(* Backend and synchronizer                                                *)

Publish(change) ==
    /\ Len(log) < MaxCN
    /\ log' = Append(log, change)
    /\ UNCHANGED <<proxyVars, upd, file, filtered, sdkVars, restarts>>

\* The synchronizer fetches what changed since the snapshot's CN.
Fetch ==
    /\ upd.pc = "idle"
    /\ snapCN < Len(log)
    /\ log # <<>>
    /\ upd' = [pc |-> "start", batch |-> ChangedSince(log, snapCN), till |-> Len(log)]
    /\ UNCHANGED <<log, proxyVars, file, filtered, sdkVars, restarts>>

\* The flags of the batch, and the store f with the batch written over it.
Named(batch) == { log[n].name : n \in batch }
CNOf(batch, f) == CHOOSE n \in batch : log[n].name = f

\* Mutant of SetStartingPoint: an empty batch is not treated apart.
SetStartingPointAnyBatch ==
    /\ upd.pc = "start"
    /\ oldest' = IF oldest = -1 \/ upd.till < oldest THEN upd.till ELSE oldest
    /\ upd' = [upd EXCEPT !.pc = "snapshot"]
    /\ UNCHANGED <<log, snap, snapCN, hist, items, serving, file, filtered, sdkVars, restarts>>

\* Update: setStartingPoint takes and releases the lock on its own; an empty
\* batch ends the update here.
SetStartingPoint ==
    /\ upd.pc = "start"
    /\ oldest' = IF oldest = -1 \/ upd.till < oldest THEN upd.till ELSE oldest
    /\ upd' = IF upd.batch = {} THEN NoUpdate ELSE [upd EXCEPT !.pc = "snapshot"]
    /\ UNCHANGED <<log, snap, snapCN, hist, items, serving, file, filtered, sdkVars, restarts>>

\* Update: the lock is taken and the snapshot replaced, with its CN.
UpdateSnapshot ==
    /\ upd.pc = "snapshot"
    /\ snap' = [f \in Flags |->
                  IF f \notin Named(upd.batch) THEN snap[f]
                  ELSE LET n == CNOf(upd.batch, f) IN IF log[n].active THEN n ELSE 0]
    /\ snapCN' = upd.till
    /\ upd' = [upd EXCEPT !.pc = "historic"]
    /\ UNCHANGED <<log, hist, oldest, items, serving, file, filtered, sdkVars, restarts>>

\* Update: all views of the batch, under the summaries' own lock.
UpdateHistoric ==
    /\ upd.pc = "historic"
    /\ hist' = [f \in Flags |-> IF f \in Named(upd.batch) THEN CNOf(upd.batch, f) ELSE hist[f]]
    /\ upd' = [upd EXCEPT !.pc = "db"]
    /\ UNCHANGED <<log, snap, snapCN, oldest, items, serving, file, filtered, sdkVars, restarts>>

\* Update: each record of the batch is saved in a transaction of its own, the
\* active flags before the archived ones; the last one releases the lock. One
\* that fails is passed over.
SaveItem(n) ==
    /\ upd.pc = "db"
    /\ n \in upd.batch
    /\ log[n].active \/ \A m \in upd.batch : ~log[m].active
    /\ items' \in SaveAs(items, log[n].name, n)
    /\ upd' = IF upd.batch = {n} THEN NoUpdate ELSE [upd EXCEPT !.batch = @ \ {n}]
    /\ serving' = (serving \/ upd.batch = {n})
    /\ UNCHANGED <<log, snap, snapCN, hist, oldest, file, filtered, sdkVars, restarts>>

\* Mutant of KillLocally: the notification's change number is stored as well.
KillLocallyMovesCN(n) ==
    /\ n \in 1..Len(log) /\ n > snapCN
    /\ log[n].active
    /\ snap[log[n].name] # 0 /\ snap[log[n].name] < n
    /\ snap' = [snap EXCEPT ![log[n].name] = n]
    /\ snapCN' = n
    /\ UNCHANGED <<log, hist, oldest, items, serving, upd, file, filtered, sdkVars, restarts>>

\* A kill notification is applied to the snapshot alone, ahead of the fetch
\* that will bring the same change.
KillLocally(n) ==
    /\ n \in 1..Len(log) /\ n > snapCN
    /\ log[n].active
    /\ snap[log[n].name] # 0 /\ snap[log[n].name] < n
    /\ snap' = [snap EXCEPT ![log[n].name] = n]
    /\ UNCHANGED <<log, snapCN, hist, oldest, items, serving, upd, file, filtered, sdkVars, restarts>>

Locked == upd.pc \in {"historic", "db"}

-----------------------------------------------------------------------------
(* Requests: fetchRulesSince and ChangesSince                              *)

\* ChangesSince(-1) without a filter: the snapshot's CN is read first...
ReadChangeNumber ==
    /\ serving /\ req.pc = "idle"
    /\ since = -1 /\ ~filtered
    /\ req' = [pc |-> "all", till |-> snapCN, got |-> <<>>]
    /\ UNCHANGED <<log, proxyVars, upd, file, filtered, since, view, restarts>>

\* ...and its flags next.
ReadAll ==
    /\ req.pc = "all"
    /\ req' = [req EXCEPT !.pc = "reply", !.got = [f \in { g \in Flags : snap[g] # 0 } |-> snap[f]]]
    /\ UNCHANGED <<log, proxyVars, upd, file, filtered, since, view, restarts>>

\* Mutant of CheckSince: any since is answered from the summaries.
CheckSinceNeverTooOld ==
    /\ serving /\ req.pc = "idle"
    /\ since # -1 \/ filtered
    /\ since # -1 => ~Locked
    /\ req' = [NoRequest EXCEPT !.pc = "historic"]
    /\ UNCHANGED <<log, proxyVars, upd, file, filtered, since, view, restarts>>

\* Otherwise sinceIsTooOld decides, under the updater's lock unless since is -1.
CheckSince ==
    /\ serving /\ req.pc = "idle"
    /\ since # -1 \/ filtered
    /\ since # -1 => ~Locked
    /\ req' = [NoRequest EXCEPT !.pc = IF since # -1 /\ since < oldest THEN "backend" ELSE "historic"]
    /\ UNCHANGED <<log, proxyVars, upd, file, filtered, since, view, restarts>>

\* Mutant of ReadHistoric: the answer carries the snapshot's change number.
ReadHistoricSnapshotCN ==
    /\ req.pc = "historic"
    /\ LET views == { f \in Flags : hist[f] > since /\ hist[f] > 0
                                      /\ (since = -1 => log[hist[f]].active) }
       IN  req' = [pc |-> "fetch", till |-> snapCN,
                   got |-> [f \in views |-> IF log[hist[f]].active THEN hist[f] ELSE 0]]
    /\ UNCHANGED <<log, proxyVars, upd, file, filtered, since, view, restarts>>

\* GetUpdatedSince: the views newer than since, and the CN to answer with.
\* Archived flags are answered from the view, as version 0.
ReadHistoric ==
    /\ req.pc = "historic"
    /\ LET views == { f \in Flags : hist[f] > since /\ hist[f] > 0
                                      /\ (since = -1 => log[hist[f]].active) }
       IN  req' = [pc |-> "fetch",
                   till |-> Max({since} \cup { hist[f] : f \in views }),
                   got |-> [f \in views |-> IF log[hist[f]].active THEN hist[f] ELSE 0]]
    /\ UNCHANGED <<log, proxyVars, upd, file, filtered, since, view, restarts>>

\* FetchMany: the active ones come from the snapshot as it is by then; a flag
\* that is not there any more is skipped.
FetchMany ==
    /\ req.pc = "fetch"
    /\ LET sent == { f \in DOMAIN req.got : req.got[f] = 0 \/ snap[f] # 0 }
       IN  req' = [req EXCEPT !.pc = "reply",
                     !.got = [f \in sent |-> IF req.got[f] = 0 THEN 0 ELSE snap[f]]]
    /\ UNCHANGED <<log, proxyVars, upd, file, filtered, since, view, restarts>>

\* since is too old: the backend's own answer is passed on.
FetchFromBackend ==
    /\ req.pc = "backend"
    /\ LET batch == ChangedSince(log, since)
       IN  req' = [pc |-> "reply", till |-> Max({since, Len(log)}),
                   got |-> [f \in Named(batch) |-> Served(log, f, Len(log))]]
    /\ UNCHANGED <<log, proxyVars, upd, file, filtered, since, view, restarts>>

\* The SDK applies the answer.
Receive ==
    /\ req.pc = "reply"
    /\ view' = [f \in Flags |-> IF f \in DOMAIN req.got THEN req.got[f] ELSE view[f]]
    /\ since' = req.till
    /\ req' = NoRequest
    /\ UNCHANGED <<log, proxyVars, upd, file, filtered, restarts>>

-----------------------------------------------------------------------------
(* Snapshot files and restarts                                             *)

\* The admin endpoint exports the database: whole records, but possibly only
\* some of the batch that is being saved.
Export ==
    /\ items # Nothing /\ file # items
    /\ ExportMidWrite \/ upd.pc # "db"
    /\ file' = items
    /\ UNCHANGED <<log, proxyVars, upd, filtered, sdkVars, restarts>>

\* The proxy dies, requests and updates in progress with it, and a new process
\* starts from the given records: the active ones fill the snapshot and the
\* summaries, at change number cn.
Restart(records, cn, haveSnapshot) ==
    /\ restarts < MaxRestarts
    /\ restarts' = restarts + 1
    /\ upd' = NoUpdate
    /\ req' = NoRequest
    /\ items' = records
    /\ snap' = [f \in Flags |-> IF records[f] # 0 /\ log[records[f]].active THEN records[f] ELSE 0]
    /\ hist' = snap'
    /\ snapCN' = cn
    /\ oldest' = cn
    /\ serving' = haveSnapshot
    /\ UNCHANGED <<log, file, filtered, since, view>>

\* Without a snapshot file.
RestartBlank == Restart(Nothing, -1, FALSE)

\* snapshotFromDisk: the CN is the highest of all records, archived or not.
RestartFromFile == file # NoFile /\ Restart(file, Max({ file[f] : f \in Flags } \cup {0}), TRUE)

Update == SetStartingPoint \/ UpdateSnapshot \/ UpdateHistoric \/ \E n \in upd.batch : SaveItem(n)

Request == \/ ReadChangeNumber \/ ReadAll \/ CheckSince \/ ReadHistoric
           \/ FetchMany \/ FetchFromBackend \/ Receive

Next ==
    \/ \E change \in Change : Publish(change)
    \/ Fetch \/ Update
    \/ \E n \in 1..MaxCN : KillLocally(n)
    \/ Request
    \/ Export \/ RestartBlank \/ RestartFromFile

Spec == Init /\ [][Next]_vars

\* The synchronizer polls or is notified, its goroutine is scheduled, and the
\* SDK keeps polling.
FairSpec == Spec /\ WF_vars(Fetch) /\ WF_vars(Update) /\ WF_vars(Request)

-----------------------------------------------------------------------------
(* Properties                                                              *)

CNs == 0..MaxCN

\* Type invariant; an update past its starting point has records left to write
\* (splits.go:119 returns early on an empty batch).
TypeOK ==
    /\ log \in Seq(Change) /\ Len(log) <= MaxCN
    /\ snap \in [Flags -> CNs] /\ hist \in [Flags -> CNs] /\ items \in [Flags -> CNs]
    /\ snapCN \in -1..MaxCN /\ oldest \in -1..MaxCN
    /\ upd.pc \in {"idle", "start", "snapshot", "historic", "db"}
    /\ upd.pc \in {"snapshot", "historic", "db"} => upd.batch # {}
    /\ upd.batch \subseteq 1..MaxCN /\ upd.till \in -1..MaxCN
    /\ serving \in BOOLEAN
    /\ file \in [Flags -> CNs] \cup {NoFile}
    /\ filtered \in BOOLEAN
    /\ since \in -1..MaxCN /\ view \in [Flags -> CNs]
    /\ req.pc \in {"idle", "all", "backend", "historic", "fetch", "reply"}
    /\ req.till \in -1..MaxCN /\ DOMAIN req.got \subseteq Flags
    /\ restarts \in 0..MaxRestarts

\* An SDK holds every change at or below its own change number, whatever was
\* read from which store while an update, a kill or a restart was under way
\* (splits.go ChangesSince).
NoLostUpdate == Complete(log, since, view)

\* The promise to SDKs, with the SDK's and the backend's state as they are here.
Feed == INSTANCE FlagFeed

\* ProxyFlags implements FlagFeed: each answer an SDK applies (sdk.go
\* fetchRulesSince) has all of the changes its till accounts for, versions that
\* were published only, and takes none of its flags back in time.
FeedSpec == Feed!Spec
=============================================================================
