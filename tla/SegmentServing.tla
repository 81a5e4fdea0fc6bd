--------------------------- MODULE SegmentServing ---------------------------
(***************************************************************************)
(* Segments from the backend to the SDKs: the cache-aware synchronizer     *)
(* writes the storage and then evicts from the HTTP cache, while requests  *)
(* compute answers and file them there, and while the process dies and     *)
(* starts over, with an empty database or from a snapshot.                 *)
(*                                                                         *)
(*   proxy/caching/workers.go    CacheAwareSegmentSynchronizer             *)
(*   proxy/controllers/sdk.go    SegmentChanges, MySegments, Memberships   *)
(*                                                                         *)
(* A request is two steps, the handler's reading of the storage and the    *)
(* cache's storing of its answer, and an update three, one per store and   *)
(* one for the evictions: these take out different entries, so that what   *)
(* they do together is the same as one after the other.                    *)
(***************************************************************************)
EXTENDS SegmentStorage, Sequences

CONSTANTS CacheSize,    \* entries the HTTP cache has room for
          MaxRestarts   \* bound: times the proxy is restarted

ASSUME ServingAssumption ==
    /\ MaxCN \in Nat \ {0} /\ CacheSize \in Nat \ {0}
    /\ MaxRestarts \in Nat

INSTANCE HttpCache

VARIABLES
    log,      \* backend: changes of each segment, see ChangeLog
    sync,     \* the update of each segment: [pc, added, removed, till]
    cache,    \* entries [req, body, late] of the HTTP cache
    flight,   \* a request whose answer was computed: [req, body, late, own]
    since,    \* a server-side SDK: its change number for each segment
    view,     \*   and the keys it holds
    file,     \* the last snapshot, NoItems if there is none
    restarts

storageVars == <<mySegments, items, segmentsTill>>
sdkVars == <<since, view>>
vars == <<log, storageVars, sync, cache, flight, sdkVars, file, restarts>>

\* A segment's history is that of flags, a member being active.
History == INSTANCE ChangeLog WITH Flags <- Keys

\* The last change of k in s, and the keys in s at cn.
Changed(s, k) == History!LatestCN(log[s], k, Len(log[s]))
Members(s, cn) == { k \in Keys : History!Served(log[s], k, cn) # 0 }

NoSync == [pc |-> "idle", added |-> {}, removed |-> {}, till |-> -1]
NoFlight == [req |-> [kind |-> "none"], body |-> {}, late |-> FALSE, own |-> FALSE]

Init ==
    /\ log = [s \in Segments |-> <<>>]
    /\ mySegments = [k \in Keys |-> {}]
    /\ items = NoItems
    /\ segmentsTill = [s \in Segments |-> -1]
    /\ sync = [s \in Segments |-> NoSync]
    /\ cache = {}
    /\ flight = NoFlight
    /\ since = [s \in Segments |-> -1]
    /\ view = [s \in Segments |-> {}]
    /\ file = NoItems
    /\ restarts = 0

-----------------------------------------------------------------------------
(* Backend and synchronizer                                                *)

\* A key enters or leaves a segment.
Publish(s, change) ==
    /\ Len(log[s]) < MaxCN
    /\ change.active <=> change.name \notin Members(s, Len(log[s]))
    /\ log' = [log EXCEPT ![s] = Append(@, change)]
    /\ UNCHANGED <<storageVars, sync, cache, flight, sdkVars, file, restarts>>

\* SynchronizeSegment, wrapped call (external): what changed since the storage's CN. A
\* fetch that fails writes nothing, so nothing is done here and s is due as before;
\* other segments go on, and are evicted in spite of the error (workers.go:141).
FetchSegment(s) ==
    /\ sync[s].pc = "idle"
    /\ segmentsTill[s] < Len(log[s]) /\ log[s] # <<>>
    /\ LET batch == History!ChangedSince(log[s], segmentsTill[s])
           named(active) == { log[s][n].name : n \in { m \in batch : log[s][m].active = active } }
       IN  sync' = [sync EXCEPT ![s] = [pc |-> "cache", added |-> named(TRUE),
                                        removed |-> named(FALSE), till |-> Len(log[s])]]
    /\ UNCHANGED <<log, storageVars, cache, flight, sdkVars, file, restarts>>

\* Update: the keys' segments first...
WriteMySegments(s) ==
    /\ sync[s].pc = "cache"
    /\ UpdateMySegments(s, sync[s].added, sync[s].removed)
    /\ sync' = [sync EXCEPT ![s].pc = "db"]
    /\ UNCHANGED <<log, items, segmentsTill, cache, flight, sdkVars, file, restarts>>

\* ...and the item on disk next.
WriteItem(s) ==
    /\ sync[s].pc = "db"
    /\ UpdateItem(s, sync[s].added, sync[s].removed, sync[s].till)
    /\ sync' = [sync EXCEPT ![s].pc = "evict"]
    /\ UNCHANGED <<log, mySegments, cache, flight, sdkVars, file, restarts>>

\* Mutant of Outdated: only the keys that were added have their entry evicted.
OutdatedAdded(s, r) ==
    \/ SurrogatesOf(r) \cap { SegmentSurrogate(s), MembershipsSurrogate } # {}
    \/ \E k \in sync[s].added : r \in MySegmentsEntries(k)

\* The requests whose entries the update of s evicts.
Outdated(s, r) ==
    \/ SurrogatesOf(r) \cap { SegmentSurrogate(s), MembershipsSurrogate } # {}
    \/ \E k \in sync[s].added \cup sync[s].removed : r \in MySegmentsEntries(k)

\* SynchronizeSegment, after the wrapped call: the CN has grown, so both
\* surrogates are evicted, and the entries of the keys that changed.  An answer
\* being computed meanwhile is not touched (late is for properties only).
EvictSegment(s) ==
    /\ sync[s].pc = "evict"
    /\ cache' = { e \in cache : ~Outdated(s, e.req) }
    /\ flight' = IF flight # NoFlight /\ Outdated(s, flight.req) THEN [flight EXCEPT !.late = TRUE]
                 ELSE flight
    /\ sync' = [sync EXCEPT ![s] = NoSync]
    /\ UNCHANGED <<log, storageVars, sdkVars, file, restarts>>

-----------------------------------------------------------------------------
(* Requests                                                                *)

\* What the handlers of the endpoints answer, from the storage as it is.
Answer(r) == IF r.kind = "segmentChanges" THEN ChangesSince(r.name, r.since) ELSE SegmentsFor(r.key)

\* The SDK applies an answer for segment s.
Receive(s, body) ==
    /\ view' = [view EXCEPT ![s] = (@ \cup body.added) \ body.removed]
    /\ since' = [since EXCEPT ![s] = body.till]

PollOf(s) == [kind |-> "segmentChanges", name |-> s, since |-> since[s]]

\* A request misses the cache and its handler reads the storage, for the SDK or
\* another client; an unknown segment is answered with 404, which is not cached.
Handle(r, own) ==
    /\ flight = NoFlight
    /\ \A e \in cache : e.req # r
    /\ r.kind = "segmentChanges" => Cached(r.name)
    /\ flight' = [req |-> r, body |-> Answer(r), late |-> FALSE, own |-> own]
    /\ UNCHANGED <<log, storageVars, sync, cache, sdkVars, file, restarts>>

\* The cache files the answer, and the client gets it.
Respond ==
    /\ flight # NoFlight
    /\ cache' \in Stored(cache, [req |-> flight.req, body |-> flight.body, late |-> flight.late])
    /\ IF flight.own THEN Receive(flight.req.name, flight.body) ELSE UNCHANGED sdkVars
    /\ flight' = NoFlight
    /\ UNCHANGED <<log, storageVars, sync, file, restarts>>

\* The SDK's poll is answered from the cache.
Hit(s) ==
    /\ \E e \in cache : e.req = PollOf(s) /\ Receive(s, e.body)
    /\ ~(flight.own /\ flight.req.name = s)
    /\ UNCHANGED <<log, storageVars, sync, cache, flight, file, restarts>>

-----------------------------------------------------------------------------
(* Snapshots and restarts                                                  *)

\* A snapshot is taken; one that no restart within the bound can use is left out.
Export ==
    /\ restarts < MaxRestarts
    /\ items # NoItems /\ file # items
    /\ file' = items
    /\ UNCHANGED <<log, storageVars, sync, cache, flight, sdkVars, restarts>>

\* The process dies, with its cache, updates and requests, and the next one
\* opens db.  An update that fails to save dies likewise: Update dereferences
\* the error of the store that did not fail.
Restart(db) ==
    /\ restarts < MaxRestarts
    /\ restarts' = restarts + 1
    /\ Open(db)
    /\ sync' = [s \in Segments |-> NoSync]
    /\ cache' = {}
    /\ flight' = NoFlight
    /\ UNCHANGED <<log, sdkVars, file>>

RestartBlank == Restart(NoItems)
RestartFromFile == file # NoItems /\ Restart(file)

SynchronizeSegment(s) == FetchSegment(s) \/ WriteMySegments(s) \/ WriteItem(s) \/ EvictSegment(s)

Next ==
    \/ \E s \in Segments : \E change \in History!Change : Publish(s, change)
    \/ \E s \in Segments : SynchronizeSegment(s) \/ Hit(s) \/ Handle(PollOf(s), TRUE)
    \/ \E r \in Request : Handle(r, FALSE)
    \/ Respond
    \/ Export \/ RestartBlank \/ RestartFromFile

Spec == Init /\ [][Next]_vars

-----------------------------------------------------------------------------
(* Properties                                                              *)

SegmentChangesBody == [added : SUBSET Keys, removed : SUBSET Keys, till : -1..MaxCN]
Entry == [req : SegmentChangesRequest, body : SegmentChangesBody, late : BOOLEAN]
           \cup [req : MySegmentsRequest \cup MembershipsRequest, body : SUBSET Segments, late : BOOLEAN]

\* Type invariant; the cache stays within its bounds, with one entry per request.
TypeOK ==
    /\ \A s \in Segments : log[s] \in Seq(History!Change) /\ Len(log[s]) <= MaxCN
    /\ mySegments \in [Keys -> SUBSET Segments]
    /\ items \in [Segments -> [Keys -> SegmentKey]]
    /\ segmentsTill \in [Segments -> -1..MaxCN]
    /\ sync \in [Segments -> [pc : {"idle", "cache", "db", "evict"}, added : SUBSET Keys,
                              removed : SUBSET Keys, till : -1..MaxCN]]
    /\ cache \subseteq Entry
    /\ Cardinality(cache) <= CacheSize
    /\ \A e1, e2 \in cache : e1.req = e2.req => e1 = e2
    /\ \/ flight = NoFlight
       \/ /\ [req |-> flight.req, body |-> flight.body, late |-> flight.late] \in Entry
          /\ flight.own => flight.req.kind = "segmentChanges"
    /\ since \in [Segments -> -1..MaxCN]
    /\ view \in [Segments -> SUBSET Keys]
    /\ file \in [Segments -> [Keys -> SegmentKey]]
    /\ restarts \in 0..MaxRestarts

\* This process started without the last removal of k from s, or without k: its
\* first synchronization brings the members of the segment, not who left it.
Forgotten(s, k) ==
    restarts > 0 /\ ~(items[s][k].removed /\ items[s][k].cn >= Changed(s, k))

\* An SDK that follows /segmentChanges (segments.go ChangesSince) misses no change
\* at or below its own CN: it asks for later ones only.  The exception is a key
\* that left the segment while no process was there to see it.
NoLostUpdate ==
    \A s \in Segments, k \in Keys :
        LET n == Changed(s, k)
        IN  n > 0 /\ n <= since[s] =>
                \/ k \in view[s] <=> log[s][n].active
                \/ k \in view[s] /\ Forgotten(s, k)

\* The storage agrees with the backend's history: once this process has
\* synchronized a segment, the keys it answers the segment for are those that
\* were in it at its CN, so that no removed key is returned as active...
MembersExact ==
    \A s \in Segments :
        segmentsTill[s] # -1 /\ sync[s].pc # "db" =>
            { k \in Keys : s \in SegmentsFor(k) } = Members(s, segmentsTill[s])

\* ...or rather, all of these and besides them only keys that came with the
\* snapshot this process started from (populateCachesFromDisk).
MembersKept ==
    \A s \in Segments :
        segmentsTill[s] # -1 /\ sync[s].pc # "db" =>
            LET served == { k \in Keys : s \in SegmentsFor(k) }
                members == Members(s, segmentsTill[s])
            IN  /\ members \subseteq served
                /\ \A k \in served \ members :
                        Forgotten(s, k) /\ file[s][k] # Unknown /\ ~file[s][k].removed

\* No update of the segments that answer r depends on is in progress.
Quiet(r) ==
    \A s \in Segments : (r.kind = "segmentChanges" => r.name = s) => sync[s].pc = "idle"

\* An update that has ended (workers.go SynchronizeSegment) left no entry in the
\* cache that its handler would answer differently now, except for answers computed
\* before the evictions and filed after them: the surrogates and keys evicted cover
\* all that the update changed.
OnlyLateAnswersStale ==
    /\ TypeOK
    /\ \A e \in cache : Quiet(e.req) => e.late \/ e.body = Answer(e.req)
=============================================================================
