-------------------------- MODULE HistoricChanges --------------------------
(***************************************************************************)
(* The change summaries the proxy keeps for feature flags                  *)
(* (proxy/storage/optimized/historic.go): one view per flag ever seen,     *)
(* sorted by the change number of its last update, each view with the flag *)
(* sets the flag was ever associated to.  From them the proxy answers      *)
(* "what changed since N, for these flag sets" without asking the backend. *)
(*                                                                         *)
(* The backend appends one change per change number to a log; the proxy    *)
(* receives the latest change of every flag that changed since its own     *)
(* change number and feeds them to Update.  One SDK polls, filtering by    *)
(* the list of flag sets it was configured with, which the proxy cleans up *)
(* first (FlagSetMatcher).                                                 *)
(***************************************************************************)
EXTENDS ChangeLog, FiniteSets, FlagSetMatcher

CONSTANTS SetNames,  \* names of flag sets, ordered as strings.Compare does
          MaxSets    \* bound: length of the list an SDK filters by

ASSUME HistoricAssumption ==
    /\ SetNames \subseteq Nat /\ IsFiniteSet(SetNames)
    /\ MaxCN \in Nat \ {0} /\ MaxSets \in Nat

VARIABLES log,     \* log[cn]: the change published with change number cn
          synced,  \* the change number the proxy has processed (-1: none)
          bounds,  \* the change numbers a client of this proxy was ever given
          data,    \* HistoricChangesImpl.data
          matcher, \* the proxy's FlagSetMatcher
          list     \* the flag sets the SDK asks for, as it sends them

vars == <<log, synced, bounds, data, matcher, list>>

FlagChange == [name : Flags, active : BOOLEAN, sets : SUBSET SetNames]

-----------------------------------------------------------------------------
(* Updates                                                                 *)

ByName(assocs) == { p \in assocs \X assocs : p[1].name < p[2].name }

ByLastUpdated(views) == { p \in views \X views : p[1].lastUpdated < p[2].lastUpdated }

\* Mutant of UpdateFlagSets: the loss of a set keeps the association's old CN.
UpdateFlagSetsStaleLoss(assocs, incoming, cn) ==
    LET known == { a.name : a \in ToSet(assocs) }
        touched == { [a EXCEPT !.active = a.name \in incoming,
                               !.lastUpdated = IF a.name \in incoming /\ ~a.active THEN cn ELSE @] :
                       a \in ToSet(assocs) }
        added == { [name |-> s, active |-> TRUE, lastUpdated |-> cn] : s \in incoming \ known }
    IN  InOrder(touched \cup added, ByName(touched \cup added))

\* FeatureView.updateFlagsets: associations seen before are kept, active or
\* not; the ones that disappear are marked inactive with the new change number.
UpdateFlagSets(assocs, incoming, cn) ==
    LET known == { a.name : a \in ToSet(assocs) }
        touched == { IF a.name \in incoming
                     THEN IF a.active THEN a ELSE [a EXCEPT !.active = TRUE, !.lastUpdated = cn]
                     ELSE [a EXCEPT !.active = FALSE, !.lastUpdated = cn] : a \in ToSet(assocs) }
        added == { [name |-> s, active |-> TRUE, lastUpdated |-> cn] : s \in incoming \ known }
    IN  InOrder(touched \cup added, ByName(touched \cup added))

\* FeatureView.updateFrom
UpdateView(view, change, cn) ==
    [name |-> change.name, active |-> change.active, lastUpdated |-> cn,
     sets |-> UpdateFlagSets(view.sets, change.sets, cn)]

\* The view a flag has before it is first seen.
NoView(name) == [name |-> name, active |-> FALSE, lastUpdated |-> 0, sets |-> <<>>]

FindByName(views, name) ==
    IF \E v \in ToSet(views) : v.name = name
    THEN CHOOSE v \in ToSet(views) : v.name = name
    ELSE NoView(name)

\* HistoricChangesImpl.Update with a batch of change numbers: every flag of the
\* batch gets its view updated or created, then the views are sorted by CN.
UpdateData(views, batch) ==
    LET changed == { UpdateView(FindByName(views, log[cn].name), log[cn], cn) : cn \in batch }
        kept == { v \in ToSet(views) : \A w \in changed : w.name # v.name }
    IN  InOrder(kept \cup changed, ByLastUpdated(kept \cup changed))

-----------------------------------------------------------------------------
(* Queries                                                                 *)

\* HistoricChangesImpl.findNewerThan: the views from the first one that is
\* newer than since; correct only because the views are sorted.
FindNewerThan(views, since) ==
    LET newer == { i \in DOMAIN views : views[i].lastUpdated > since }
    IN  IF newer = {} THEN {} ELSE { views[i] : i \in Min(newer)..Len(views) }

\* incrUpTo, for positions counted from 1
IncrUpTo(i, limit) == IF i >= limit THEN i ELSE i + 1

\* An association that makes its flag part of the answer.
Considered(assoc, since) == assoc.active \/ (since > -1 /\ since < assoc.lastUpdated)

\* Mutant of MergeSets: the smaller of two different names counts as a match.
MergeSetsLoose(assocs, since, req) ==
    \E v \in 1..Len(assocs), r \in 1..Len(req) :
        assocs[v].name <= req[r] /\ Considered(assocs[v], since)

\* A turn of the loop in featureShouldBeReturned, at view association s.v and
\* requested set s.r; a hit ends it.
MergeTurn(assocs, since, req, s) ==
    LET next == IncrUpTo(s.r, Len(req))
    IN  IF s.hit \/ s.v > Len(assocs) THEN s
        ELSE IF assocs[s.v].name = req[s.r]
             THEN [v |-> s.v + 1, r |-> next, hit |-> Considered(assocs[s.v], since)]
        ELSE IF assocs[s.v].name < req[s.r]
             THEN [v |-> s.v + 1, r |-> s.r, hit |-> FALSE]
        ELSE [v |-> IF next = Len(req) THEN s.v + 1 ELSE s.v, r |-> next, hit |-> FALSE]

\* The merge of the two sorted lists; every turn advances in one of them.
MergeSets(assocs, since, req) ==
    LET turns == Len(assocs) + Len(req)
        after[n \in 0..turns] ==
          IF n = 0 THEN [v |-> 1, r |-> 1, hit |-> FALSE]
          ELSE MergeTurn(assocs, since, req, after[n - 1])
    IN  after[turns].hit

FeatureShouldBeReturned(view, since, req) ==
    /\ ~(since = -1 /\ ~view.active)
    /\ view.lastUpdated >= since
    /\ req = <<>> \/ MergeSets(view.sets, since, req)

\* HistoricChangesImpl.GetUpdatedSince
GetUpdatedSince(views, since, req) ==
    { v \in FindNewerThan(views, since) : FeatureShouldBeReturned(v, since, req) }

-----------------------------------------------------------------------------
(* The backend and the synchronizer around the summaries                   *)

Init ==
    /\ log = <<>>
    /\ synced = -1
    /\ bounds = {-1}
    /\ data = <<>>
    /\ \E strict \in BOOLEAN, fetched \in SUBSET SetNames : matcher = Matcher(strict, fetched)
    /\ list \in UNION { [1..n -> SetNames] : n \in 0..MaxSets }

\* A change is made in the backend.
Publish(change) ==
    /\ Len(log) < MaxCN
    /\ log' = Append(log, change)
    /\ UNCHANGED <<synced, bounds, data, matcher, list>>

\* The proxy processes what it fetched.
Update ==
    /\ Len(log) > synced
    /\ Len(log) > 0
    /\ data' = UpdateData(data, ChangedSince(log, synced))
    /\ synced' = Len(log)
    /\ bounds' = bounds \cup {Len(log)}
    /\ UNCHANGED <<log, matcher, list>>

Next == Update \/ \E change \in FlagChange : Publish(change)

Spec == Init /\ [][Next]_vars

-----------------------------------------------------------------------------
(* Properties                                                              *)

Assoc == [name : SetNames, active : BOOLEAN, lastUpdated : 1..MaxCN]

\* Type invariant of the summaries of historic.go: views in the order of their
\* last update, one for each flag.
TypeOK ==
    /\ log \in Seq(FlagChange) /\ Len(log) <= MaxCN
    /\ synced \in -1..MaxCN
    /\ bounds \subseteq -1..MaxCN
    /\ \A v \in ToSet(data) :
         /\ v.name \in Flags /\ v.active \in BOOLEAN /\ v.lastUpdated \in 1..MaxCN
         /\ ToSet(v.sets) \subseteq Assoc
    /\ \A i, j \in 1..Len(data) : i < j =>
         data[i].name # data[j].name /\ data[i].lastUpdated < data[j].lastUpdated

\* The <<flag, change number>> pairs that a client filtering by req holds when
\* it is up to date with change number cn.
Holds(cn, req) ==
    IF cn = -1 THEN {}
    ELSE { <<f, LatestCN(log, f, cn)>> :
             f \in { g \in Flags : LET n == LatestCN(log, g, cn) IN
                                   /\ n > 0
                                   /\ log[n].active
                                   /\ req = <<>> \/ log[n].sets \cap ToSet(req) # {} } }

\* What such a client holds once it applied an answer: a flag that comes back
\* archived, or without any of the client's sets, is dropped.
Applied(held, answer, req) ==
    { h \in held : \A v \in answer : v.name # h[1] }
      \cup { <<v.name, v.lastUpdated>> :
               v \in { w \in answer :
                         /\ w.active
                         /\ req = <<>> \/ \E a \in ToSet(w.sets) : a.active /\ a.name \in ToSet(req) } }

\* The sets the SDK's requests are filtered by.
Filter == Sanitize(matcher, list)

\* Overwriting an unwanted item with the last one never loses a set the SDK
\* asks for and may have, so that its answers cover it (flagsets.go:30-39).
NoWantedSetLost == Wanted(matcher, list) \subseteq ToSet(Filter)

\* A client that was up to date with any change number this proxy handed out,
\* filtering by at most one set, is up to date with the proxy after one answer:
\* no change, archival, or loss of a set association is missed (historic.go
\* GetUpdatedSince).
IncrementalEqualsFresh ==
    Cardinality(ToSet(Filter)) <= 1 =>
        \A since \in bounds :
            Applied(Holds(since, Filter), GetUpdatedSince(data, since, Filter), Filter)
              = Holds(synced, Filter)

\* An answer never names a flag that had none of the requested sets at any time
\* (historic.go featureShouldBeReturned), whatever the number of sets.
AnswerWithinSets ==
    /\ TypeOK
    /\ Filter # <<>> =>
          \A since \in bounds :
              \A v \in GetUpdatedSince(data, since, Filter) :
                  \E n \in 1..synced : log[n].name = v.name /\ log[n].sets \cap ToSet(Filter) # {}

\* historic.go:191 "compare the sets for intersection of user supplied sets
\* with currently active ones": an updated active flag with an active
\* association to a requested set is part of the answer.
ActiveIntersectionReturned ==
    Filter # <<>> =>
        \A since \in bounds :
            \A v \in FindNewerThan(data, since) :
                (/\ v.active
                 /\ \E a \in ToSet(v.sets) : a.active /\ a.name \in ToSet(Filter))
                => v \in GetUpdatedSince(data, since, Filter)
=============================================================================
