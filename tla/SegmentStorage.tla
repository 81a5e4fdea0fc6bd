--------------------------- MODULE SegmentStorage ---------------------------
(***************************************************************************)
(* Segments in the proxy: per user key the segments it is in, and on disk  *)
(* per segment every key it ever had, with the change number (CN) of the   *)
(* update that added or removed it.                                        *)
(*                                                                         *)
(*   proxy/storage/segments.go             ProxySegmentStorageImpl         *)
(*   proxy/storage/optimized/mysegments.go MySegmentsCacheImpl             *)
(*   proxy/storage/persistent/segments.go  SegmentChangesCollectionImpl    *)
(*                                                                         *)
(* An update writes the two stores one after the other; each has a lock of *)
(* its own, and the one on disk is written in a single transaction.        *)
(***************************************************************************)
EXTENDS Integers, FiniteSetsExt

CONSTANTS Segments, Keys, MaxCN

VARIABLES
    mySegments,   \* the segments of each key
    items,        \* disk: what is known of each key of a segment
    segmentsTill  \* CN of each segment's last update by this process, -1 if none

SegmentKey == [cn : 0..MaxCN, removed : BOOLEAN]
Unknown == [cn |-> 0, removed |-> FALSE]

NoItems == [s \in Segments |-> [k \in Keys |-> Unknown]]

\* The segment has an item on disk: what Fetch tells from ErrorKeyNotFound.
Cached(s) == segmentsTill[s] # -1 \/ \E k \in Keys : items[s][k] # Unknown

\* Mutant of UpdateMySegments: the last segment of a key is never taken off.
UpdateMySegmentsKeepLast(s, toAdd, toRemove) ==
    mySegments' = [k \in Keys |->
        LET added == IF k \in toAdd THEN mySegments[k] \cup {s} ELSE mySegments[k]
        IN  IF k \in toRemove /\ added # {s} THEN added \ {s} ELSE added]

\* MySegmentsCacheImpl.Update: first the additions, next the removals.
UpdateMySegments(s, toAdd, toRemove) ==
    mySegments' = [k \in Keys |->
        LET added == IF k \in toAdd THEN mySegments[k] \cup {s} ELSE mySegments[k]
        IN  IF k \in toRemove THEN added \ {s} ELSE added]

\* SegmentChangesCollectionImpl.Update: removals are marked, additions written
\* over them, all with the CN of the update.
UpdateItem(s, toAdd, toRemove, cn) ==
    /\ items' = [items EXCEPT ![s] = [k \in Keys |->
                    IF k \in toAdd THEN [cn |-> cn, removed |-> FALSE]
                    ELSE IF k \in toRemove THEN [cn |-> cn, removed |-> TRUE]
                    ELSE items[s][k]]]
    /\ segmentsTill' = [segmentsTill EXCEPT ![s] = cn]

\* Mutant of ChangesSince: removed keys are never returned.
ChangesSinceAddedOnly(s, since) ==
    LET new == { k \in Keys : /\ items[s][k] # Unknown
                              /\ items[s][k].cn > since
                              /\ ~items[s][k].removed }
    IN  [added   |-> new, removed |-> {},
         till    |-> Max({since} \cup { items[s][k].cn : k \in new })]

\* The keys written after since, without the removed ones when since is
\* negative; till is the highest CN among those returned.
ChangesSince(s, since) ==
    LET new == { k \in Keys : /\ items[s][k] # Unknown
                              /\ items[s][k].cn > since
                              /\ since < 0 => ~items[s][k].removed }
    IN  [added   |-> { k \in new : ~items[s][k].removed },
         removed |-> { k \in new : items[s][k].removed },
         till    |-> Max({since} \cup { items[s][k].cn : k \in new })]

SegmentsFor(k) == mySegments[k]

\* A new process opens a database: populateCachesFromDisk fills the keys'
\* segments from what is not marked as removed; change numbers start over.
Open(db) ==
    /\ items' = db
    /\ mySegments' = [k \in Keys |-> { s \in Segments : db[s][k] # Unknown /\ ~db[s][k].removed }]
    /\ segmentsTill' = [s \in Segments |-> -1]
=============================================================================
