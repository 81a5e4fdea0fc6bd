------------------------- MODULE ObservableStorage -------------------------
(***************************************************************************)
(* The producer's storages that can be observed: beside Redis they keep    *)
(* the names of the active flags and the number of keys of every segment   *)
(* in memory, from what each update to Redis reports.                      *)
(***************************************************************************)
EXTENDS Integers, Sequences, FiniteSets

CONSTANTS
    FlagNames,   \* names of flags
    SegmentNames,
    SegmentKeys

ASSUME ObservableAssumption == IsFiniteSet(FlagNames) /\ IsFiniteSet(SegmentKeys)

VARIABLES
    flagsInRedis, active,     \* the names in Redis, and in activeSplitTracker
    keysInRedis, cardinality, \* the keys of the segments in Redis, and ActiveSegmentTracker
    writing,                  \* an update of a segment that is in Redis, not yet counted
    unlisted, overlooked  \* history: names, and numbers of keys, not seen at the start

observableVars == <<flagsInRedis, active, keysInRedis, cardinality, writing, unlisted, overlooked>>

ObservableTypeOK ==
    /\ flagsInRedis \subseteq FlagNames /\ active \subseteq FlagNames
    /\ keysInRedis \in [SegmentNames -> SUBSET SegmentKeys]
    /\ DOMAIN cardinality \subseteq SegmentNames
    /\ \A s \in DOMAIN cardinality : cardinality[s] \in Nat \ {0}
    /\ writing \in [SegmentNames -> {<<>>} \cup (Nat \X Nat)]
    /\ unlisted \subseteq FlagNames /\ overlooked \in [SegmentNames -> Nat]

\* NewObservableSplitStorage. SplitNames (external) tells no error: it has no name when
\* Redis does not answer.
FlagsListed ==
    /\ active \in {flagsInRedis, {}}
    /\ unlisted = flagsInRedis \ active

\* NewObservableSegmentStorage counts the segments that a flag names; one whose size could
\* not be read starts with no key, like those that no flag names.
SegmentsCounted ==
    \E counted \in SUBSET SegmentNames :
       /\ cardinality = [s \in {r \in counted : keysInRedis[r] # {}} |-> Cardinality(keysInRedis[s])]
       /\ overlooked = [s \in SegmentNames |-> IF s \in counted THEN 0 ELSE Cardinality(keysInRedis[s])]

\* What Redis held when the storages were made, and what they saw of it.
ObservableInit ==
    /\ flagsInRedis \in SUBSET FlagNames /\ FlagsListed
    /\ keysInRedis \in [SegmentNames -> {{}, SegmentKeys}] /\ SegmentsCounted
    /\ writing = [s \in SegmentNames |-> <<>>]

-----------------------------------------------------------------------------
\* Mutant: the item moved into the place of a failed one is not looked at.
NextAlways(i) == i + 1

\* The index after a failed item is that of the item moved into its place.
NextIndex(i) == i

\* An iteration of the loop of filterFailed: a failed item is replaced by the last, which
\* is dropped.
Shrunk(s, failed) ==
    IF s.idx > s.end THEN s
    ELSE IF s.list[s.idx] \in failed
    THEN [list |-> [s.list EXCEPT ![s.idx] = s.list[s.end]], idx |-> NextIndex(s.idx), end |-> s.end - 1]
    ELSE [s EXCEPT !.idx = @ + 1]

\* The loop ends after as many iterations as there are items.
FilterFailed(in, failed) ==
    LET after[n \in 0..Len(in)] ==
          IF n = 0 THEN [list |-> in, idx |-> 1, end |-> Len(in)] ELSE Shrunk(after[n - 1], failed)
        done == after[Len(in)]
    IN  SubSeq(done.list, 1, done.end)

Names(s) == {s[i] : i \in 1..Len(s)}

\* Lists without repetition.
Lists(S) ==
    {s \in UNION {[1..n -> S] : n \in 0..Cardinality(S)} :
        \A i, j \in DOMAIN s : i # j => s[i] # s[j]}

\* ObservableSplitStorage.Update: Redis takes all, or all but some, or nothing.
UpdateFlags(toAdd, toRemove, failed) ==
    /\ Names(toAdd) \cap Names(toRemove) = {}
    /\ \/ /\ flagsInRedis' = (flagsInRedis \cup (Names(toAdd) \ failed)) \ (Names(toRemove) \ failed)
          /\ active' = (active \cup Names(FilterFailed(toAdd, failed)))
                           \ Names(FilterFailed(toRemove, failed))
          /\ unlisted' = unlisted \ ((Names(toAdd) \cup Names(toRemove)) \ failed)
       \/ UNCHANGED <<flagsInRedis, active, unlisted>>
    /\ UNCHANGED <<keysInRedis, cardinality, writing, overlooked>>

\* The smaller number.
AtMost(m, n) == IF m <= n THEN m ELSE n

\* UpdateWithSummary: SADD and SREM, either of which may fail, and what they changed.
UpdateSegment(s, toAdd, toRemove) ==
    /\ writing[s] = <<>> /\ toAdd \cap toRemove = {}
    /\ \E added \in {toAdd, {}}, removed \in {toRemove, {}} :
          /\ keysInRedis' = [keysInRedis EXCEPT ![s] = (@ \cup added) \ removed]
          /\ writing' = [writing EXCEPT ![s] = <<Cardinality(added \ keysInRedis[s]),
                                                 Cardinality(removed \cap keysInRedis[s])>>]
    /\ overlooked' = [overlooked EXCEPT ![s] = AtMost(@, Cardinality(keysInRedis'[s]))]
    /\ UNCHANGED <<flagsInRedis, active, cardinality, unlisted>>

\* ActiveSegmentTracker.Update: a segment without keys is not listed.
Counted(s, n) ==
    IF n <= 0 THEN [r \in DOMAIN cardinality \ {s} |-> cardinality[r]]
    ELSE [r \in DOMAIN cardinality \cup {s} |-> IF r = s THEN n ELSE cardinality[r]]

CountSegment(s) ==
    /\ writing[s] # <<>>
    /\ cardinality' = Counted(s, (IF s \in DOMAIN cardinality THEN cardinality[s] ELSE 0)
                                     + writing[s][1] - writing[s][2])
    /\ writing' = [writing EXCEPT ![s] = <<>>]
    /\ UNCHANGED <<flagsInRedis, active, keysInRedis, unlisted, overlooked>>

ObserveFlags ==
    \E toAdd, toRemove \in Lists(FlagNames), failed \in SUBSET FlagNames : UpdateFlags(toAdd, toRemove, failed)

ObserveSegments ==
    \E s \in SegmentNames :
        \/ \E toAdd, toRemove \in SUBSET SegmentKeys : UpdateSegment(s, toAdd, toRemove)
        \/ CountSegment(s)

ObservableNext == ObserveFlags \/ ObserveSegments

ObservableSpec == ObservableInit /\ [][ObservableNext]_observableVars

-----------------------------------------------------------------------------
\* The names that are listed are those in Redis, whichever of them failed to be stored or
\* removed, at any place of the lists (split_wrapper.go:123), but for names that were not
\* listed at the start and have not been written since. The number of keys shown for
\* a segment is that of the keys in Redis, but for an update that is not counted yet,
\* whatever part of an update failed (segment_wrapper.go:72). A segment that was not
\* counted at the start, of which a warning says that this "may introduce
\* inconsistencies" (51-54), is shown with too few keys, never with too many: as many
\* too few as the fewest it had since, so that being emptied once puts it right.
TrackersMirrorRedis ==
    /\ ObservableTypeOK
    /\ active = flagsInRedis \ unlisted
    /\ \A s \in SegmentNames :
          writing[s] = <<>> =>
              Cardinality(keysInRedis[s]) =
                  overlooked[s] + IF s \in DOMAIN cardinality THEN cardinality[s] ELSE 0
=============================================================================
