---------------------------- MODULE UniqueKeys -----------------------------
(***************************************************************************)
(* Unique keys of the producer: several processors track the keys they     *)
(* have parsed in one tracker (external), which a filter keeps from taking *)
(* a key twice, and each sends all that the tracker holds when it is done. *)
(***************************************************************************)
EXTENDS Naturals, FiniteSets

CONSTANTS
    Keys,        \* pairs of a feature and a key
    KeyProcessors,  \* processors of the task
    MaxBatches,  \* how often a processor gets a batch (a bound of the model)
    MaxCleanings \* how often the filter is cleaned (a bound of the model)

ASSUME UniqueAssumption == {MaxBatches, MaxCleanings} \subseteq Nat

VARIABLES
    toTrack,     \* keys each processor has still to track
    busy,        \* whether it is in Process
    batches,     \* how often it was
    tracker, filter,
    cleanings,   \* how often the filter was cleaned
    uniques,     \* keys sent to the sink, with the cleaning they were tracked after
    since        \* history: the cleaning each key in the tracker was tracked after

uniqueVars == <<toTrack, busy, batches, tracker, filter, cleanings, uniques, since>>

UniqueTypeOK ==
    /\ toTrack \in [KeyProcessors -> SUBSET Keys] /\ busy \in [KeyProcessors -> BOOLEAN]
    /\ batches \in [KeyProcessors -> 0..MaxBatches]
    /\ tracker \subseteq Keys /\ filter \subseteq Keys
    /\ cleanings \in 0..MaxCleanings
    /\ uniques \in [Keys \X (0..MaxCleanings) -> Nat]
    /\ since \in [Keys -> 0..MaxCleanings]

UniqueInit ==
    /\ toTrack = [p \in KeyProcessors |-> {}] /\ busy = [p \in KeyProcessors |-> FALSE]
    /\ batches = [p \in KeyProcessors |-> 0]
    /\ tracker = {} /\ filter = {} /\ cleanings = 0
    /\ uniques = [x \in Keys \X (0..MaxCleanings) |-> 0]
    /\ since = [k \in Keys |-> 0]

-----------------------------------------------------------------------------
\* Process begins: what can be parsed, as an object or as an array, holds these keys.
Parse(p, keys) ==
    /\ ~busy[p] /\ batches[p] < MaxBatches
    /\ busy' = [busy EXCEPT ![p] = TRUE]
    /\ batches' = [batches EXCEPT ![p] = @ + 1]
    /\ toTrack' = [toTrack EXCEPT ![p] = keys]
    /\ UNCHANGED <<tracker, filter, cleanings, uniques, since>>

\* Mutant: the filter is not asked.
TrackAlways(p, k) ==
    /\ k \in toTrack[p]
    /\ toTrack' = [toTrack EXCEPT ![p] = @ \ {k}]
    /\ filter' = filter \cup {k}
    /\ tracker' = tracker \cup {k}
    /\ since' = [since EXCEPT ![k] = cleanings]
    /\ UNCHANGED <<busy, batches, cleanings, uniques>>

\* Track: the filter knows the keys that were tracked since it was cleaned.
Track(p, k) ==
    /\ k \in toTrack[p]
    /\ toTrack' = [toTrack EXCEPT ![p] = @ \ {k}]
    /\ filter' = filter \cup {k}
    /\ IF k \in filter THEN UNCHANGED <<tracker, since>>
       ELSE tracker' = tracker \cup {k} /\ since' = [since EXCEPT ![k] = cleanings]
    /\ UNCHANGED <<busy, batches, cleanings, uniques>>

\* PopAll, and what it gives goes to the sink: keys of other processors too.
PopAll(p) ==
    /\ busy[p] /\ toTrack[p] = {}
    /\ busy' = [busy EXCEPT ![p] = FALSE]
    /\ uniques' = [x \in DOMAIN uniques |->
         uniques[x] + IF x[1] \in tracker /\ x[2] = since[x[1]] THEN 1 ELSE 0]
    /\ tracker' = {}
    /\ UNCHANGED <<toTrack, batches, filter, cleanings, since>>

\* CleanFilterTask
CleanFilter ==
    /\ cleanings < MaxCleanings
    /\ cleanings' = cleanings + 1
    /\ filter' = {}
    /\ UNCHANGED <<toTrack, busy, batches, tracker, uniques, since>>

UniqueNext ==
    \/ \E p \in KeyProcessors :
          \/ \E keys \in SUBSET Keys : Parse(p, keys)
          \/ \E k \in Keys : Track(p, k)
          \/ PopAll(p)
    \/ CleanFilter

UniqueSpec == UniqueInit /\ [][UniqueNext]_uniqueVars

-----------------------------------------------------------------------------
\* A key is reported once between two cleanings of the filter, however many processors
\* have parsed it, and a key the filter knows is reported or will be: whatever processors
\* send for each other, none stays behind in the tracker when all of them are done
\* (uniquekeys.go:82).
KeysReportedOnce ==
    /\ \A x \in DOMAIN uniques : uniques[x] <= 1
    /\ \A k \in filter : k \in tracker \/ uniques[<<k, cleanings>>] = 1
    /\ (\A p \in KeyProcessors : ~busy[p]) => tracker = {}
=============================================================================
