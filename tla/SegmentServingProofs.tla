------------------------ MODULE SegmentServingProofs ------------------------
(***************************************************************************)
(* What SegmentServing promises, for any number of segments, keys, cache   *)
(* entries and (but for the last theorem) restarts.                        *)
(*                                                                         *)
(*   OnlyLateAnswersAreStale   from CacheFresh: an entry is up to date,    *)
(*                             late, or its eviction is still to come      *)
(*   MembersAreKept            from StoreInv: the update under way is what *)
(*                             the log says, the stores agree but for it,  *)
(*                             and the item has the members at its CN      *)
(*   NoUpdateIsLost            from UpdateInv: the storage, every answer   *)
(*                             that is cached or on its way, and the SDK   *)
(*                             are each exact at a CN that the storage and *)
(*                             the update under way are not behind         *)
(***************************************************************************)
EXTENDS SegmentServing, FiniteSetTheorems, TLAPS

Log == INSTANCE ChangeLogProofs WITH Flags <- Keys

-----------------------------------------------------------------------------
(* Facts about the backend's log and the storage                           *)

\* The facts of ChangeLogProofs are about the same operators.
LEMMA SameLog ==
    ASSUME NEW l, NEW k, NEW cn
    PROVE  /\ History!ChangesOf(l, k, cn) = Log!ChangesOf(l, k, cn)
           /\ History!LatestCN(l, k, cn) = Log!LatestCN(l, k, cn)
           /\ History!Served(l, k, cn) = Log!Served(l, k, cn)
           /\ History!Change = Log!Change
BY DEF History!ChangesOf, Log!ChangesOf, History!LatestCN, Log!LatestCN,
       History!Served, Log!Served, History!Change, Log!Change

\* A key's last change is one of its own.
LEMMA LastIs ==
    ASSUME NEW l, NEW k, NEW cn \in Int
    PROVE  \/ History!LatestCN(l, k, cn) = 0
           \/ /\ History!LatestCN(l, k, cn) \in 1..cn
              /\ l[History!LatestCN(l, k, cn)].name = k
BY SameLog, Log!LatestInRange

\* The last change at a time is the last one, if that was made by then.
LEMMA LastSettled ==
    ASSUME NEW l, NEW k, NEW cn \in Nat, NEW t \in Int, t <= cn,
           0 < History!LatestCN(l, k, cn), History!LatestCN(l, k, cn) <= t
    PROVE  History!LatestCN(l, k, t) = History!LatestCN(l, k, cn)
BY SameLog, Log!LatestSettled

\* A new change is the last one of its key, and leaves the past as it was.
LEMMA NewChange ==
    ASSUME NEW l \in Seq(History!Change), NEW c \in History!Change, NEW k
    PROVE  /\ \A t \in -1..Len(l) :
                 /\ History!LatestCN(Append(l, c), k, t) = History!LatestCN(l, k, t)
                 /\ History!Served(Append(l, c), k, t) = History!Served(l, k, t)
           /\ LET n == History!LatestCN(Append(l, c), k, Len(l) + 1)
              IN  n = Len(l) + 1 \/ n = History!LatestCN(l, k, Len(l))
<1>1. l \in Seq(Log!Change) /\ c \in Log!Change
  BY SameLog
<1>2. Len(Append(l, c)) = Len(l) + 1
  OBVIOUS
<1>3. ASSUME NEW t \in -1..Len(l)
      PROVE  /\ History!LatestCN(Append(l, c), k, t) = History!LatestCN(l, k, t)
             /\ History!Served(Append(l, c), k, t) = History!Served(l, k, t)
  BY <1>1, SameLog, Log!PublishKeeps
<1>4. LET n == History!LatestCN(Append(l, c), k, Len(l) + 1)
      IN  n = Len(l) + 1 \/ n = History!LatestCN(l, k, Len(l))
  BY <1>1, <1>2, SameLog, Log!PublishMoves
<1> QED
  BY <1>3, <1>4

\* The greatest element of a set of change numbers exists.
LEMMA MaxIs ==
    ASSUME NEW cn \in Nat, NEW S \in SUBSET (-1..cn), S # {}
    PROVE  Max(S) \in S /\ \A n \in S : n <= Max(S)
<1> DEFINE T == { n + 2 : n \in S }
<1>1. T # {} /\ T \subseteq 1..(cn + 2) /\ cn + 2 \in Nat
  OBVIOUS
<1> HIDE DEF T
<1>2. PICK t \in T : \A u \in T : u <= t
  BY <1>1, Log!LastOf
<1> USE DEF T
<1>3. PICK n \in S : t = n + 2
  OBVIOUS
<1>4. ASSUME NEW m \in S PROVE m <= n
  <2>1. m + 2 <= n + 2
    BY <1>2, <1>3
  <2> QED
    BY <2>1
<1> QED
  BY <1>4 DEF Max

ItemsTyped == items \in [Segments -> [Keys -> SegmentKey]]

\* What an answer of ChangesSince consists of.
LEMMA AnswerIs ==
    ASSUME ItemsTyped, NEW s \in Segments, NEW t \in -1..MaxCN
    PROVE  LET b == ChangesSince(s, t)
               I == items[s]
           IN  /\ b \in SegmentChangesBody
               /\ b.added = { k \in Keys : I[k] # Unknown /\ I[k].cn > t /\ ~I[k].removed }
               /\ b.removed = { k \in Keys : /\ I[k] # Unknown /\ I[k].cn > t /\ I[k].removed
                                             /\ t >= 0 }
               /\ t <= b.till
               /\ b.till # t => \E k \in Keys : b.till = I[k].cn
               /\ \A k \in b.added \cup b.removed : I[k].cn <= b.till
<1> DEFINE I == items[s]
           new == { k \in Keys : /\ I[k] # Unknown
                                 /\ I[k].cn > t
                                 /\ t < 0 => ~I[k].removed }
           S == {t} \cup { I[k].cn : k \in new }
<1>0. MaxCN \in Nat
  BY ServingAssumption
<1>1. I \in [Keys -> SegmentKey]
  BY DEF ItemsTyped
<1>2. \A k \in Keys : I[k].cn \in 0..MaxCN /\ I[k].removed \in BOOLEAN
  BY <1>1 DEF SegmentKey
<1>3. S \in SUBSET (-1..MaxCN) /\ S # {}
  BY <1>0, <1>2
<1> HIDE DEF I
<1>4. Max(S) \in S /\ \A n \in S : n <= Max(S)
  <2> HIDE DEF S
  <2> QED
    BY <1>0, <1>3, MaxIs
<1>5. ChangesSince(s, t) = [added   |-> { k \in new : ~I[k].removed },
                            removed |-> { k \in new : I[k].removed },
                            till    |-> Max(S)]
  BY DEF ChangesSince, I
<1> DEFINE b == ChangesSince(s, t)
<1>6. b.till = Max(S) /\ b.till \in -1..MaxCN
  BY <1>3, <1>4, <1>5
<1>7. b \in SegmentChangesBody
  BY <1>5, <1>6 DEF SegmentChangesBody
<1>8. b.added = { k \in Keys : I[k] # Unknown /\ I[k].cn > t /\ ~I[k].removed }
  BY <1>5
<1>9. b.removed = { k \in Keys : I[k] # Unknown /\ I[k].cn > t /\ I[k].removed /\ t >= 0 }
  BY <1>5
<1>10. t <= b.till /\ (b.till # t => \E k \in Keys : b.till = I[k].cn)
  BY <1>4, <1>6
<1>11. \A k \in b.added \cup b.removed : I[k].cn <= b.till
  <2>1. \A k \in new : I[k].cn <= b.till
    BY <1>4, <1>6
  <2>2. b.added \cup b.removed \subseteq new
    BY <1>5
  <2> HIDE DEF new, b
  <2> QED
    BY <2>1, <2>2
<1> QED
  BY <1>7, <1>8, <1>9, <1>10, <1>11 DEF I

-----------------------------------------------------------------------------
(* Types                                                                   *)

LogTyped ==
    /\ log \in [Segments -> Seq(History!Change)]
    /\ \A s \in Segments : Len(log[s]) <= MaxCN

Sync == [pc : {"idle", "cache", "db", "evict"}, added : SUBSET Keys,
         removed : SUBSET Keys, till : -1..MaxCN]

StoreTyped ==
    /\ mySegments \in [Keys -> SUBSET Segments]
    /\ ItemsTyped
    /\ segmentsTill \in [Segments -> -1..MaxCN]
    /\ sync \in [Segments -> Sync]
    /\ file \in [Segments -> [Keys -> SegmentKey]]
    /\ \A s \in Segments : sync[s].pc # "idle" => sync[s].till > 0

CacheTyped ==
    /\ cache \subseteq Entry /\ IsFiniteSet(cache)
    /\ Cardinality(cache) <= CacheSize
    /\ \A e1, e2 \in cache : e1.req = e2.req => e1 = e2

\* The entry an answer becomes.
Filed == [req |-> flight.req, body |-> flight.body, late |-> flight.late]

FlightTyped ==
    \/ flight = NoFlight
    \/ /\ flight = [req |-> flight.req, body |-> flight.body, late |-> flight.late, own |-> flight.own]
       /\ Filed \in Entry
       /\ flight.own => flight.req.kind = "segmentChanges"

SdkTyped ==
    /\ since \in [Segments -> -1..MaxCN]
    /\ view \in [Segments -> SUBSET Keys]
    /\ restarts \in 0..MaxRestarts

Typed == LogTyped /\ StoreTyped /\ CacheTyped /\ FlightTyped /\ SdkTyped

LEMMA TypedIsTypeOK == Typed => TypeOK
<1> SUFFICES ASSUME Typed PROVE TypeOK
  OBVIOUS
<1>1. \A s \in Segments : log[s] \in Seq(History!Change) /\ Len(log[s]) <= MaxCN
  BY DEF Typed, LogTyped
<1>2. /\ mySegments \in [Keys -> SUBSET Segments]
      /\ items \in [Segments -> [Keys -> SegmentKey]]
      /\ segmentsTill \in [Segments -> -1..MaxCN]
      /\ sync \in [Segments -> [pc : {"idle", "cache", "db", "evict"}, added : SUBSET Keys,
                              removed : SUBSET Keys, till : -1..MaxCN]]
      /\ file \in [Segments -> [Keys -> SegmentKey]]
  BY DEF Typed, StoreTyped, ItemsTyped, Sync
<1>3. /\ cache \subseteq Entry
      /\ Cardinality(cache) <= CacheSize
      /\ \A e1, e2 \in cache : e1.req = e2.req => e1 = e2
  BY DEF Typed, CacheTyped
<1>4. \/ flight = NoFlight
      \/ /\ [req |-> flight.req, body |-> flight.body, late |-> flight.late] \in Entry
         /\ flight.own => flight.req.kind = "segmentChanges"
  BY DEF Typed, FlightTyped, Filed
<1>5. /\ since \in [Segments -> -1..MaxCN]
      /\ view \in [Segments -> SUBSET Keys]
      /\ restarts \in 0..MaxRestarts
  BY DEF Typed, SdkTyped
<1> QED
  BY <1>1, <1>2, <1>3, <1>4, <1>5 DEF TypeOK

\* An entry is a request with an answer of its kind.
LEMMA EntryIs ==
    ASSUME NEW e \in Entry
    PROVE  /\ e = [req |-> e.req, body |-> e.body, late |-> e.late]
           /\ e.req \in Request /\ e.late \in BOOLEAN
           /\ e.req.kind = "segmentChanges" =>
                /\ e.req \in SegmentChangesRequest
                /\ e.req.name \in Segments /\ e.req.since \in -1..MaxCN
                /\ e.body \in SegmentChangesBody
           /\ e.req.kind \in {"segmentChanges", "mySegments", "memberships"}
<1>1. CASE e \in [req : SegmentChangesRequest, body : SegmentChangesBody, late : BOOLEAN]
  BY <1>1 DEF Request, SegmentChangesRequest
<1>2. CASE e \in [req : MySegmentsRequest \cup MembershipsRequest, body : SUBSET Segments, late : BOOLEAN]
  <2>1. e.req.kind \in {"mySegments", "memberships"}
    BY <1>2 DEF MySegmentsRequest, MembershipsRequest
  <2> QED
    BY <1>2, <2>1 DEF Request
<1> QED
  BY <1>1, <1>2 DEF Entry

\* What a handler answers makes an entry, as any poll is a request.
LEMMA AnswerTyped ==
    ASSUME StoreTyped, NEW r \in Request, NEW late \in BOOLEAN
    PROVE  [req |-> r, body |-> Answer(r), late |-> late] \in Entry
<1>1. CASE r \in SegmentChangesRequest
  <2>1. r.kind = "segmentChanges" /\ r.name \in Segments /\ r.since \in -1..MaxCN
    BY <1>1 DEF SegmentChangesRequest
  <2>2. Answer(r) \in SegmentChangesBody
    BY <2>1, AnswerIs DEF Answer, StoreTyped
  <2> QED
    BY <1>1, <2>2 DEF Entry
<1>2. CASE r \in MySegmentsRequest \cup MembershipsRequest
  <2>1. r.kind # "segmentChanges" /\ r.key \in Keys
    BY <1>2 DEF MySegmentsRequest, MembershipsRequest
  <2>2. Answer(r) \in SUBSET Segments
    BY <2>1 DEF Answer, SegmentsFor, StoreTyped
  <2> QED
    BY <1>2, <2>2 DEF Entry
<1> QED
  BY <1>1, <1>2 DEF Request

LEMMA PollTyped ==
    ASSUME SdkTyped, NEW s \in Segments
    PROVE  /\ PollOf(s) \in Request /\ PollOf(s).kind = "segmentChanges"
           /\ PollOf(s).name = s /\ PollOf(s).since = since[s]
BY DEF PollOf, SdkTyped, Request, SegmentChangesRequest

\* An element makes a set larger by at most one.
LEMMA AddOne ==
    ASSUME NEW S, IsFiniteSet(S), NEW x
    PROVE  /\ IsFiniteSet(S \cup {x})
           /\ Cardinality(S \cup {x}) \in Nat /\ Cardinality(S) \in Nat
           /\ Cardinality(S \cup {x}) <= Cardinality(S) + 1
<1>1. /\ IsFiniteSet(S \cup {x})
      /\ Cardinality(S \cup {x}) = IF x \in S THEN Cardinality(S) ELSE Cardinality(S) + 1
  BY FS_AddElement
<1>2. Cardinality(S) \in Nat
  BY FS_CardinalityType
<1> QED
  BY <1>1, <1>2

\* Filing an entry leaves it, and others that were there.
LEMMA StoredIs ==
    ASSUME CacheTyped, NEW e \in Entry, NEW c \in Stored(cache, e)
    PROVE  /\ c \subseteq cache \cup {e}
           /\ c \subseteq Entry /\ IsFiniteSet(c) /\ Cardinality(c) <= CacheSize
           /\ \A e1, e2 \in c : e1.req = e2.req => e1 = e2
<1> DEFINE others == { x \in cache : x.req # e.req }
<1>1. others \subseteq cache /\ IsFiniteSet(others)
      /\ Cardinality(others) <= Cardinality(cache)
      /\ Cardinality(others) \in Nat /\ Cardinality(cache) \in Nat
  BY FS_Subset, FS_CardinalityType DEF CacheTyped
<1>2. CacheSize \in Nat
  BY ServingAssumption
<1> HIDE DEF others
<1>3. CASE Cardinality(others) < CacheSize /\ c = others \cup {e}
  <2>1. IsFiniteSet(c) /\ Cardinality(c) \in Nat /\ Cardinality(c) <= Cardinality(others) + 1
    BY <1>1, <1>3, AddOne
  <2>2. Cardinality(c) <= CacheSize
    BY <1>1, <1>2, <1>3, <2>1
  <2>3. c \subseteq cache \cup {e} /\ c \subseteq Entry
    BY <1>1, <1>3 DEF CacheTyped
  <2>4. \A e1, e2 \in c : e1.req = e2.req => e1 = e2
    BY <1>3 DEF CacheTyped, others
  <2> QED
    BY <2>1, <2>2, <2>3, <2>4
<1>4. CASE \E x \in others : c = (others \ {x}) \cup {e}
  <2>0. PICK x \in others : c = (others \ {x}) \cup {e}
    BY <1>4
  <2> DEFINE rest == others \ {x}
  <2>1. IsFiniteSet(rest) /\ Cardinality(rest) = Cardinality(others) - 1
    BY <1>1, FS_RemoveElement
  <2> HIDE DEF rest
  <2>2. IsFiniteSet(c) /\ Cardinality(c) \in Nat /\ Cardinality(c) <= Cardinality(rest) + 1
    BY <2>0, <2>1, AddOne DEF rest
  <2>3. Cardinality(c) <= CacheSize
    BY <1>1, <1>2, <2>1, <2>2 DEF CacheTyped
  <2>4. c \subseteq cache \cup {e} /\ c \subseteq Entry
    BY <1>1, <2>0 DEF CacheTyped
  <2>5. \A e1, e2 \in c : e1.req = e2.req => e1 = e2
    BY <2>0 DEF CacheTyped, others
  <2> QED
    BY <2>2, <2>3, <2>4, <2>5
<1> QED
  BY <1>3, <1>4 DEF Stored, others

\* The keys that entered and those that left a segment after its CN.
Joined(s) == { k \in Keys : LET n == Changed(s, k)
                            IN  n > 0 /\ n > segmentsTill[s] /\ log[s][n].active }
Left(s) == { k \in Keys : LET n == Changed(s, k)
                          IN  /\ n > 0 /\ n > segmentsTill[s] /\ segmentsTill[s] # -1
                              /\ ~log[s][n].active }

\* A key's last change is in the log.
LEMMA ChangedIs ==
    ASSUME LogTyped, NEW s \in Segments, NEW k
    PROVE  /\ Len(log[s]) \in Nat /\ Len(log[s]) <= MaxCN
           /\ \/ Changed(s, k) = 0
              \/ /\ Changed(s, k) \in 1..Len(log[s])
                 /\ log[s][Changed(s, k)].name = k
                 /\ log[s][Changed(s, k)] \in History!Change
                 /\ log[s][Changed(s, k)].active \in BOOLEAN
<1>1. log[s] \in Seq(History!Change) /\ Len(log[s]) <= MaxCN
  BY DEF LogTyped
<1>2. Len(log[s]) \in Nat
  BY <1>1
<1>3. \/ Changed(s, k) = 0
      \/ Changed(s, k) \in 1..Len(log[s]) /\ log[s][Changed(s, k)].name = k
  BY <1>2, LastIs DEF Changed
<1>4. ASSUME Changed(s, k) \in 1..Len(log[s]) PROVE log[s][Changed(s, k)] \in History!Change
  BY <1>1, <1>4
<1>5. \A c \in History!Change : c.active \in BOOLEAN
  BY DEF History!Change
<1> QED
  BY <1>1, <1>2, <1>3, <1>4, <1>5

\* What a fetch brings.
LEMMA FetchIs ==
    ASSUME LogTyped, StoreTyped, NEW s \in Segments, FetchSegment(s)
    PROVE  /\ sync' = [sync EXCEPT ![s] = [pc |-> "cache", added |-> Joined(s),
                                           removed |-> Left(s), till |-> Len(log[s])]]
           /\ sync[s].pc = "idle" /\ segmentsTill[s] < Len(log[s])
           /\ Len(log[s]) \in 1..MaxCN
<1> DEFINE T == segmentsTill[s]
           batch == History!ChangedSince(log[s], T)
           named(active) == { log[s][n].name : n \in { m \in batch : log[s][m].active = active } }
<1>1. /\ sync' = [sync EXCEPT ![s] = [pc |-> "cache", added |-> named(TRUE),
                                      removed |-> named(FALSE), till |-> Len(log[s])]]
      /\ sync[s].pc = "idle" /\ T < Len(log[s]) /\ log[s] # <<>>
  BY DEF FetchSegment
<1>2. T \in -1..MaxCN /\ log[s] \in Seq(History!Change) /\ Len(log[s]) <= MaxCN /\ MaxCN \in Nat
  BY ServingAssumption DEF LogTyped, StoreTyped
<1>3. Len(log[s]) \in 1..MaxCN
  BY <1>1, <1>2
<1>4. batch = { n \in { Changed(s, k) : k \in Keys } :
                  n > 0 /\ n > T /\ (T = -1 => log[s][n].active) }
  <2>1. { History!LatestCN(log[s], f, Len(log[s])) : f \in Keys } = { Changed(s, k) : k \in Keys }
    BY DEF Changed
  <2> QED
    BY <2>1 DEF History!ChangedSince
<1>5. \A k \in Keys : \/ Changed(s, k) = 0
                     \/ /\ log[s][Changed(s, k)].name = k
                        /\ log[s][Changed(s, k)].active \in BOOLEAN
  BY ChangedIs
<1> HIDE DEF batch, T
<1>6. named(TRUE) = { k \in Keys : LET n == Changed(s, k) IN n > 0 /\ n > T /\ log[s][n].active }
  <2>1. ASSUME NEW k \in named(TRUE)
        PROVE  k \in Keys /\ LET n == Changed(s, k) IN n > 0 /\ n > T /\ log[s][n].active
    <3>1. PICK n \in batch : k = log[s][n].name /\ log[s][n].active = TRUE
      BY <2>1
    <3>2. PICK f \in Keys : n = Changed(s, f) /\ n > 0 /\ n > T
      BY <3>1, <1>4
    <3>3. f = k
      BY <3>1, <3>2, <1>5
    <3> QED
      BY <3>1, <3>2, <3>3
  <2>2. ASSUME NEW k \in Keys, LET n == Changed(s, k) IN n > 0 /\ n > T /\ log[s][n].active
        PROVE  k \in named(TRUE)
    <3>1. Changed(s, k) \in batch
      BY <1>4, <2>2
    <3>2. log[s][Changed(s, k)].name = k /\ log[s][Changed(s, k)].active = TRUE
      BY <1>5, <2>2
    <3> QED
      BY <3>1, <3>2
  <2> HIDE DEF named
  <2> QED
    BY <2>1, <2>2
<1>7. named(FALSE) = { k \in Keys : LET n == Changed(s, k)
                                    IN  n > 0 /\ n > T /\ T # -1 /\ ~log[s][n].active }
  <2>1. ASSUME NEW k \in named(FALSE)
        PROVE  k \in Keys /\ LET n == Changed(s, k) IN n > 0 /\ n > T /\ T # -1 /\ ~log[s][n].active
    <3>1. PICK n \in batch : k = log[s][n].name /\ log[s][n].active = FALSE
      BY <2>1
    <3>2. PICK f \in Keys : n = Changed(s, f) /\ n > 0 /\ n > T /\ (T = -1 => log[s][n].active)
      BY <3>1, <1>4
    <3>3. f = k
      BY <3>1, <3>2, <1>5
    <3> QED
      BY <3>1, <3>2, <3>3
  <2>2. ASSUME NEW k \in Keys,
               LET n == Changed(s, k) IN n > 0 /\ n > T /\ T # -1 /\ ~log[s][n].active
        PROVE  k \in named(FALSE)
    <3>1. Changed(s, k) \in batch
      BY <1>4, <2>2
    <3>2. log[s][Changed(s, k)].name = k /\ log[s][Changed(s, k)].active = FALSE
      BY <1>5, <2>2
    <3> QED
      BY <3>1, <3>2
  <2> HIDE DEF named
  <2> QED
    BY <2>1, <2>2
<1>8. Joined(s) = named(TRUE) /\ Left(s) = named(FALSE)
  BY <1>6, <1>7 DEF Joined, Left, T
<1> QED
  BY <1>1, <1>3, <1>8 DEF T

LEMMA TypedInit == Init => Typed
<1> SUFFICES ASSUME Init PROVE Typed
  OBVIOUS
<1> USE ServingAssumption
<1>1. NoItems \in [Segments -> [Keys -> SegmentKey]]
  BY DEF NoItems, Unknown, SegmentKey
<1>2. LogTyped
  BY DEF Init, LogTyped
<1>3. StoreTyped
  BY <1>1 DEF Init, StoreTyped, ItemsTyped, Sync, NoSync
<1>4. CacheTyped
  BY FS_EmptySet DEF Init, CacheTyped
<1>5. FlightTyped /\ SdkTyped
  BY DEF Init, FlightTyped, SdkTyped
<1> QED
  BY <1>2, <1>3, <1>4, <1>5 DEF Typed

LEMMA TypedStep == Typed /\ [Next]_vars => Typed'
<1> SUFFICES ASSUME Typed, [Next]_vars PROVE Typed'
  OBVIOUS
<1> USE ServingAssumption
<1>0. LogTyped /\ StoreTyped /\ CacheTyped /\ FlightTyped /\ SdkTyped
  BY DEF Typed
<1>1. CASE UNCHANGED vars
  BY <1>0, <1>1 DEF vars, storageVars, sdkVars, Typed, LogTyped, StoreTyped, ItemsTyped, CacheTyped,
                FlightTyped, Filed, SdkTyped
<1>2. ASSUME NEW s \in Segments, NEW change \in History!Change, Publish(s, change)
      PROVE  Typed'
  <2>1. LogTyped'
    <3>1. log[s] \in Seq(History!Change) /\ Len(log[s]) < MaxCN
          /\ log' = [log EXCEPT ![s] = Append(@, change)]
      BY <1>0, <1>2 DEF Publish, LogTyped
    <3>2. Append(log[s], change) \in Seq(History!Change)
          /\ Len(Append(log[s], change)) <= MaxCN
      BY <3>1
    <3> QED
      BY <1>0, <3>1, <3>2 DEF LogTyped
  <2> QED
    BY <1>0, <1>2, <2>1 DEF Publish, storageVars, sdkVars, Typed, StoreTyped, ItemsTyped,
       CacheTyped, FlightTyped, Filed, SdkTyped
<1>3. ASSUME NEW s \in Segments, FetchSegment(s) PROVE Typed'
  <2>0. /\ sync' = [sync EXCEPT ![s] = [pc |-> "cache", added |-> Joined(s),
                                        removed |-> Left(s), till |-> Len(log[s])]]
        /\ Len(log[s]) \in 1..MaxCN
    BY <1>0, <1>3, FetchIs
  <2>1. [pc |-> "cache", added |-> Joined(s), removed |-> Left(s), till |-> Len(log[s])] \in Sync
    BY <2>0 DEF Joined, Left, Sync
  <2>2. StoreTyped'
    <3>1. sync' \in [Segments -> Sync] /\ \A z \in Segments : sync'[z].pc # "idle" => sync'[z].till > 0
      BY <1>0, <2>0, <2>1 DEF StoreTyped
    <3> QED
      BY <1>0, <1>3, <3>1 DEF FetchSegment, storageVars, StoreTyped, ItemsTyped
  <2> QED
    BY <1>0, <1>3, <2>2 DEF FetchSegment, sdkVars, Typed, LogTyped,
       CacheTyped, FlightTyped, Filed, SdkTyped
<1>4. ASSUME NEW s \in Segments, WriteMySegments(s) PROVE Typed'
  <2>1. sync[s] \in Sync /\ sync' = [sync EXCEPT ![s].pc = "db"] /\ sync' \in [Segments -> Sync]
    BY <1>0, <1>4 DEF WriteMySegments, StoreTyped, Sync
  <2>2. StoreTyped'
    BY <1>0, <1>4, <2>1 DEF WriteMySegments, UpdateMySegments, StoreTyped, ItemsTyped
  <2> QED
    BY <1>0, <1>4, <2>2 DEF WriteMySegments, sdkVars, Typed, LogTyped,
       CacheTyped, FlightTyped, Filed, SdkTyped
<1>5. ASSUME NEW s \in Segments, WriteItem(s) PROVE Typed'
  <2>1. sync[s] \in Sync /\ sync[s].pc = "db"
        /\ sync' = [sync EXCEPT ![s].pc = "evict"] /\ sync' \in [Segments -> Sync]
    BY <1>0, <1>5 DEF WriteItem, StoreTyped, Sync
  <2>2. sync[s].till \in 1..MaxCN
    BY <1>0, <2>1 DEF Sync, StoreTyped
  <2>3. StoreTyped'
    <3>1. segmentsTill' \in [Segments -> -1..MaxCN]
      BY <1>0, <1>5, <2>2 DEF WriteItem, UpdateItem, StoreTyped
    <3>2. items' \in [Segments -> [Keys -> SegmentKey]]
      BY <1>0, <1>5, <2>2 DEF WriteItem, UpdateItem, StoreTyped, ItemsTyped, SegmentKey
    <3>3. \A z \in Segments : sync'[z].pc # "idle" => sync'[z].till > 0
      BY <1>0, <2>1, <2>2 DEF Sync, StoreTyped
    <3> QED
      BY <1>0, <1>5, <2>1, <3>1, <3>2, <3>3 DEF WriteItem, StoreTyped, ItemsTyped
  <2> QED
    BY <1>0, <1>5, <2>3 DEF WriteItem, sdkVars, Typed, LogTyped,
       CacheTyped, FlightTyped, Filed, SdkTyped
<1>6. ASSUME NEW s \in Segments, EvictSegment(s) PROVE Typed'
  <2>1. StoreTyped'
    BY <1>0, <1>6 DEF EvictSegment, storageVars, StoreTyped, ItemsTyped, Sync, NoSync
  <2>2. CacheTyped'
    <3>1. cache' \subseteq cache
      BY <1>6 DEF EvictSegment
    <3>2. IsFiniteSet(cache') /\ Cardinality(cache') <= Cardinality(cache)
          /\ Cardinality(cache') \in Nat /\ Cardinality(cache) \in Nat
      BY <1>0, <3>1, FS_Subset, FS_CardinalityType DEF CacheTyped
    <3> QED
      BY <1>0, <3>1, <3>2 DEF CacheTyped
  <2>3. FlightTyped'
    <3>1. CASE flight # NoFlight /\ Outdated(s, flight.req)
      <4>1. flight' = [flight EXCEPT !.late = TRUE] /\ Filed \in Entry
            /\ flight = [req |-> flight.req, body |-> flight.body, late |-> flight.late, own |-> flight.own]
            /\ (flight.own => flight.req.kind = "segmentChanges")
        BY <1>0, <1>6, <3>1 DEF EvictSegment, FlightTyped
      <4>2. flight' = [req |-> flight.req, body |-> flight.body, late |-> TRUE, own |-> flight.own]
        BY <4>1
      <4>3. Filed' = [req |-> flight.req, body |-> flight.body, late |-> TRUE]
        BY <4>2 DEF Filed
      <4>4. Filed' \in Entry
        BY <4>1, <4>3 DEF Entry, Filed
      <4> QED
        BY <4>1, <4>2, <4>4 DEF FlightTyped
    <3>2. CASE ~(flight # NoFlight /\ Outdated(s, flight.req))
      BY <1>0, <1>6, <3>2 DEF EvictSegment, FlightTyped, Filed
    <3> QED
      BY <3>1, <3>2
  <2> QED
    BY <1>0, <1>6, <2>1, <2>2, <2>3 DEF EvictSegment, sdkVars, Typed, LogTyped, SdkTyped
<1>7. ASSUME NEW s \in Segments, Hit(s) PROVE Typed'
  <2>1. PICK e \in cache : e.req = PollOf(s) /\ Receive(s, e.body)
    BY <1>7 DEF Hit
  <2>2. e.body \in SegmentChangesBody
    BY <1>0, <2>1, EntryIs, PollTyped DEF CacheTyped
  <2>3. SdkTyped'
    BY <1>0, <1>7, <2>1, <2>2 DEF Hit, Receive, SdkTyped, SegmentChangesBody
  <2> QED
    BY <1>0, <1>7, <2>3 DEF Hit, storageVars, Typed, LogTyped, StoreTyped, ItemsTyped,
       CacheTyped, FlightTyped, Filed
<1>8. ASSUME NEW r \in Request, NEW own \in BOOLEAN, Handle(r, own), own => r.kind = "segmentChanges"
      PROVE  Typed'
  <2>1. flight' = [req |-> r, body |-> Answer(r), late |-> FALSE, own |-> own]
    BY <1>8 DEF Handle
  <2>2. Filed' \in Entry
    BY <1>0, <2>1, AnswerTyped DEF Filed
  <2>3. FlightTyped'
    BY <1>8, <2>1, <2>2 DEF FlightTyped
  <2> QED
    BY <1>0, <1>8, <2>3 DEF Handle, storageVars, sdkVars, Typed, LogTyped, StoreTyped, ItemsTyped,
       CacheTyped, SdkTyped
<1>9. CASE Respond
  <2>1. flight # NoFlight /\ Filed \in Entry /\ (flight.own => flight.req.kind = "segmentChanges")
    BY <1>0, <1>9 DEF Respond, FlightTyped
  <2>2. CacheTyped'
    <3>1. cache' \in Stored(cache, Filed)
      BY <1>9 DEF Respond, Filed
    <3> QED
      BY <1>0, <2>1, <3>1, StoredIs DEF CacheTyped
  <2>3. SdkTyped'
    <3>1. CASE flight.own
      <4>1. Filed.req = flight.req /\ Filed.body = flight.body
        BY DEF Filed
      <4>2. flight.req.name \in Segments /\ flight.body \in SegmentChangesBody
        BY <2>1, <3>1, <4>1, EntryIs
      <4> QED
        BY <1>0, <1>9, <3>1, <4>2 DEF Respond, Receive, SdkTyped, SegmentChangesBody
    <3>2. CASE ~flight.own
      BY <1>0, <1>9, <3>2 DEF Respond, sdkVars, SdkTyped
    <3> QED
      BY <3>1, <3>2
  <2> QED
    BY <1>0, <1>9, <2>2, <2>3 DEF Respond, storageVars, Typed, LogTyped, StoreTyped, ItemsTyped,
       FlightTyped
<1>10. CASE Export
  BY <1>0, <1>10 DEF Export, storageVars, sdkVars, Typed, LogTyped, StoreTyped, ItemsTyped,
     CacheTyped, FlightTyped, Filed, SdkTyped
<1>11. ASSUME NEW db \in [Segments -> [Keys -> SegmentKey]], Restart(db) PROVE Typed'
  <2>1. StoreTyped'
    BY <1>0, <1>11 DEF Restart, Open, StoreTyped, ItemsTyped, Sync, NoSync
  <2>2. CacheTyped'
    BY <1>11, FS_EmptySet DEF Restart, CacheTyped
  <2>3. SdkTyped'
    BY <1>0, <1>11 DEF Restart, sdkVars, SdkTyped
  <2> QED
    BY <1>0, <1>11, <2>1, <2>2, <2>3 DEF Restart, Typed, LogTyped, FlightTyped
<1>12. NoItems \in [Segments -> [Keys -> SegmentKey]] /\ file \in [Segments -> [Keys -> SegmentKey]]
  BY <1>0 DEF NoItems, Unknown, SegmentKey, StoreTyped
<1>13. ASSUME Next PROVE Typed'
  <2>1. ASSUME NEW s \in Segments, Handle(PollOf(s), TRUE) PROVE Typed'
    BY <1>0, <1>8, <2>1, PollTyped
  <2>2. ASSUME NEW r \in Request, Handle(r, FALSE) PROVE Typed'
    BY <1>8, <2>2
  <2> QED
    BY <1>2, <1>3, <1>4, <1>5, <1>6, <1>7, <1>9, <1>10, <1>11, <1>12, <1>13, <2>1, <2>2
    DEF Next, SynchronizeSegment, RestartBlank, RestartFromFile
<1> QED
  BY <1>1, <1>13

-----------------------------------------------------------------------------
(* Only answers filed late are stale                                       *)

\* The update of s has yet to evict the entries of r.
Pending(s, r) == sync[s].pc \in {"db", "evict"} /\ Outdated(s, r)

\* An entry is up to date, or was late, or its eviction is still to come.
Fresh(e) ==
    \/ e.late \/ e.body = Answer(e.req)
    \/ \E s \in Segments : Pending(s, e.req)

CacheFresh == (\A e \in cache : Fresh(e)) /\ (flight # NoFlight => Fresh(Filed))

\* Which entries an update that is being written evicts.
LEMMA OutdatedIs ==
    ASSUME NEW s \in Segments, NEW r \in Request
    PROVE  /\ r.kind = "segmentChanges" => (Outdated(s, r) <=> r.name = s)
           /\ r.kind = "memberships" => Outdated(s, r)
           /\ r.kind = "mySegments" =>
                (Outdated(s, r) <=> r.key \in sync[s].added \cup sync[s].removed)
<1>1. CASE r \in SegmentChangesRequest
  <2>1. r.kind = "segmentChanges" /\ SurrogatesOf(r) = { SegmentSurrogate(r.name) }
    BY <1>1 DEF SegmentChangesRequest, SurrogatesOf
  <2>2. \A k : r \notin MySegmentsEntries(k)
    BY <2>1 DEF MySegmentsEntries
  <2>3. SegmentSurrogate(r.name) \in { SegmentSurrogate(s), MembershipsSurrogate } <=> r.name = s
    BY DEF SegmentSurrogate, MembershipsSurrogate
  <2> QED
    BY <2>1, <2>2, <2>3 DEF Outdated
<1>2. CASE r \in MembershipsRequest
  BY <1>2 DEF MembershipsRequest, SurrogatesOf, Outdated
<1>3. CASE r \in MySegmentsRequest
  <2>1. r.kind = "mySegments" /\ SurrogatesOf(r) = {}
        /\ r = [kind |-> "mySegments", key |-> r.key, gzip |-> r.gzip] /\ r.gzip \in BOOLEAN
    BY <1>3 DEF MySegmentsRequest, SurrogatesOf
  <2>2. \A k : r \in MySegmentsEntries(k) <=> k = r.key
    BY <2>1 DEF MySegmentsEntries
  <2> QED
    BY <2>1, <2>2 DEF Outdated
<1> QED
  BY <1>1, <1>2, <1>3 DEF Request

\* No step makes an entry stale whose eviction is not yet to come, but for the
\* evictions themselves and a new process.
LEMMA FreshStays ==
    ASSUME Typed, NEW e \in Entry, Fresh(e),
           \/ UNCHANGED <<storageVars, sync>>
           \/ \E s \in Segments : FetchSegment(s) \/ WriteMySegments(s) \/ WriteItem(s)
           \/ \E s \in Segments : EvictSegment(s) /\ (e.late \/ ~Outdated(s, e.req))
    PROVE  Fresh(e)'
<1> DEFINE r == e.req
<1>0. r \in Request /\ r.kind \in {"segmentChanges", "mySegments", "memberships"}
  BY EntryIs
<1>1. sync \in [Segments -> Sync]
  BY DEF Typed, StoreTyped
<1>2. CASE e.late
  BY <1>2 DEF Fresh
<1>3. CASE UNCHANGED <<storageVars, sync>>
  BY <1>3 DEF Fresh, Pending, Outdated, Answer, ChangesSince, SegmentsFor, storageVars
<1>4. ASSUME NEW s \in Segments, FetchSegment(s) PROVE Fresh(e)'
  <2>1. sync[s].pc = "idle" /\ (\A z \in Segments : z # s => sync'[z] = sync[z]) /\ UNCHANGED storageVars
    BY <1>1, <1>4 DEF FetchSegment
  <2>2. Answer(r)' = Answer(r)
    BY <2>1 DEF Answer, ChangesSince, SegmentsFor, storageVars
  <2>3. ASSUME NEW z \in Segments, Pending(z, r) PROVE Pending(z, r)'
    BY <2>1, <2>3 DEF Pending, Outdated
  <2> QED
    BY <2>2, <2>3 DEF Fresh
<1>5. ASSUME NEW s \in Segments, WriteMySegments(s) PROVE Fresh(e)'
  <2>1. /\ sync[s].pc = "cache" /\ sync'[s].pc = "db"
        /\ sync'[s].added = sync[s].added /\ sync'[s].removed = sync[s].removed
        /\ \A z \in Segments : z # s => sync'[z] = sync[z]
        /\ UNCHANGED items
    BY <1>1, <1>5 DEF WriteMySegments, Sync
  <2>2. \A z \in Segments : Outdated(z, r)' <=> Outdated(z, r)
    BY <2>1 DEF Outdated
  <2>3. ASSUME NEW z \in Segments, Pending(z, r) PROVE Pending(z, r)'
    BY <2>1, <2>2, <2>3 DEF Pending
  <2>4. CASE Outdated(s, r)
    BY <2>1, <2>2, <2>4 DEF Fresh, Pending
  <2>5. CASE ~Outdated(s, r)
    <3>1. CASE r.kind = "segmentChanges"
      <4>1. Answer(r)' = Answer(r)
        BY <2>1, <3>1 DEF Answer, ChangesSince
      <4> QED
        BY <2>3, <4>1 DEF Fresh
    <3>2. CASE r.kind = "mySegments"
      <4>1. r.key \in Keys \ (sync[s].added \cup sync[s].removed)
        BY <1>0, <2>5, <3>2, OutdatedIs DEF Request, MySegmentsRequest, MembershipsRequest,
           SegmentChangesRequest
      <4>2. mySegments'[r.key] = mySegments[r.key]
        BY <1>5, <4>1 DEF WriteMySegments, UpdateMySegments
      <4>3. Answer(r)' = Answer(r)
        BY <3>2, <4>2 DEF Answer, SegmentsFor
      <4> QED
        BY <2>3, <4>3 DEF Fresh
    <3> QED
      BY <1>0, <2>5, <3>1, <3>2, OutdatedIs
  <2> QED
    BY <2>4, <2>5
<1>6. ASSUME NEW s \in Segments, WriteItem(s) PROVE Fresh(e)'
  <2>1. /\ sync[s].pc = "db" /\ sync'[s].pc = "evict"
        /\ sync'[s].added = sync[s].added /\ sync'[s].removed = sync[s].removed
        /\ \A z \in Segments : z # s => sync'[z] = sync[z] /\ items'[z] = items[z]
        /\ UNCHANGED mySegments
    BY <1>1, <1>6 DEF WriteItem, UpdateItem, Sync, Typed, StoreTyped, ItemsTyped
  <2>2. \A z \in Segments : Outdated(z, r)' <=> Outdated(z, r)
    BY <2>1 DEF Outdated
  <2>3. ASSUME NEW z \in Segments, Pending(z, r) PROVE Pending(z, r)'
    BY <2>1, <2>2, <2>3 DEF Pending
  <2>4. CASE Outdated(s, r)
    BY <2>1, <2>2, <2>4 DEF Fresh, Pending
  <2>5. CASE ~Outdated(s, r)
    <3>1. Answer(r)' = Answer(r)
      <4>1. CASE r.kind = "segmentChanges"
        <5>1. r.name # s /\ r.name \in Segments
          BY <1>0, <2>5, <4>1, OutdatedIs, EntryIs
        <5>2. items'[r.name] = items[r.name]
          BY <2>1, <5>1
        <5> QED
          BY <4>1, <5>2 DEF Answer, ChangesSince
      <4>2. CASE r.kind # "segmentChanges"
        BY <2>1, <4>2 DEF Answer, SegmentsFor
      <4> QED
        BY <4>1, <4>2
    <3> QED
      BY <2>3, <3>1 DEF Fresh
  <2> QED
    BY <2>4, <2>5
<1>7. ASSUME NEW s \in Segments, EvictSegment(s), ~Outdated(s, r) PROVE Fresh(e)'
  <2>1. (\A z \in Segments : z # s => sync'[z] = sync[z]) /\ UNCHANGED storageVars
    BY <1>1, <1>7 DEF EvictSegment
  <2>2. Answer(r)' = Answer(r)
    BY <2>1 DEF Answer, ChangesSince, SegmentsFor, storageVars
  <2>3. ASSUME NEW z \in Segments, Pending(z, r) PROVE Pending(z, r)'
    BY <1>7, <2>1, <2>3 DEF Pending, Outdated
  <2> QED
    BY <2>2, <2>3 DEF Fresh
<1> QED
  BY <1>2, <1>3, <1>4, <1>5, <1>6, <1>7

LEMMA FreshStep == Typed /\ CacheFresh /\ [Next]_vars => CacheFresh'
<1> SUFFICES ASSUME Typed, CacheFresh, [Next]_vars PROVE CacheFresh'
  OBVIOUS
<1>0. cache \subseteq Entry /\ (flight # NoFlight => Filed \in Entry)
  BY DEF Typed, CacheTyped, FlightTyped
<1>1. ASSUME UNCHANGED <<cache, flight>>,
             \/ UNCHANGED <<storageVars, sync>>
             \/ \E s \in Segments : FetchSegment(s) \/ WriteMySegments(s) \/ WriteItem(s)
      PROVE  CacheFresh'
  <2>1. \A e \in cache' : Fresh(e)'
    BY <1>0, <1>1, FreshStays DEF CacheFresh
  <2>2. ASSUME flight' # NoFlight PROVE Fresh(Filed)'
    <3>1. Filed' = Filed /\ Filed \in Entry /\ Fresh(Filed)
      BY <1>0, <1>1, <2>2 DEF CacheFresh, Filed
    <3>2. PICK e \in Entry : e = Filed /\ Fresh(e)
      BY <3>1
    <3>3. Fresh(e)'
      BY <1>1, <3>2, FreshStays
    <3> QED
      BY <3>1, <3>2, <3>3 DEF Fresh
  <2> QED
    BY <2>1, <2>2 DEF CacheFresh
<1>2. CASE UNCHANGED vars
  BY <1>1, <1>2 DEF vars
<1>3. ASSUME NEW s \in Segments, NEW change \in History!Change, Publish(s, change) PROVE CacheFresh'
  BY <1>1, <1>3 DEF Publish
<1>4. ASSUME NEW s \in Segments, FetchSegment(s) PROVE CacheFresh'
  BY <1>1, <1>4 DEF FetchSegment
<1>5. ASSUME NEW s \in Segments, WriteMySegments(s) PROVE CacheFresh'
  BY <1>1, <1>5 DEF WriteMySegments
<1>6. ASSUME NEW s \in Segments, WriteItem(s) PROVE CacheFresh'
  BY <1>1, <1>6 DEF WriteItem
<1>7. ASSUME NEW s \in Segments, EvictSegment(s) PROVE CacheFresh'
  <2>1. ASSUME NEW e \in cache' PROVE Fresh(e)'
    BY <1>0, <1>7, <2>1, FreshStays DEF EvictSegment, CacheFresh
  <2>2. CASE flight # NoFlight /\ Outdated(s, flight.req)
    <3>1. Filed'.late
      BY <1>7, <2>2 DEF EvictSegment, Filed, Typed, FlightTyped
    <3> QED
      BY <2>1, <3>1 DEF CacheFresh, Fresh
  <2>3. CASE flight # NoFlight /\ ~Outdated(s, flight.req)
    <3>1. flight' = flight /\ Filed' = Filed /\ Filed.req = flight.req
      BY <1>7, <2>3 DEF EvictSegment, Filed
    <3>2. PICK e \in Entry : e = Filed /\ Fresh(e)
      BY <1>0, <2>3 DEF CacheFresh
    <3>3. Fresh(e)'
      BY <1>7, <2>3, <3>1, <3>2, FreshStays
    <3>4. Fresh(Filed)'
      BY <3>1, <3>2, <3>3 DEF Fresh
    <3> QED
      BY <2>1, <3>4 DEF CacheFresh
  <2>4. CASE flight = NoFlight
    BY <1>7, <2>1, <2>4 DEF EvictSegment, CacheFresh
  <2> QED
    BY <2>2, <2>3, <2>4
<1>8. ASSUME NEW s \in Segments, Hit(s) PROVE CacheFresh'
  BY <1>1, <1>8 DEF Hit
<1>9. ASSUME NEW r \in Request, NEW own, Handle(r, own) PROVE CacheFresh'
  <2>1. \A e \in cache' : Fresh(e)'
    BY <1>0, <1>9, FreshStays DEF Handle, CacheFresh
  <2>2. Filed'.body = Answer(r)' /\ Filed'.req = r
    BY <1>9 DEF Handle, Filed, Answer, ChangesSince, SegmentsFor, storageVars
  <2>3. Fresh(Filed)'
    BY <2>2 DEF Fresh
  <2> QED
    BY <2>1, <2>3 DEF CacheFresh
<1>10. CASE Respond
  <2>1. flight # NoFlight /\ cache' \in Stored(cache, Filed) /\ flight' = NoFlight
        /\ UNCHANGED <<storageVars, sync>>
    BY <1>10 DEF Respond, Filed
  <2>2. cache' \subseteq cache \cup {Filed}
    BY <1>0, <2>1, StoredIs DEF Typed
  <2>3. \A e \in cache' : Fresh(e) /\ e \in Entry
    BY <1>0, <2>1, <2>2 DEF CacheFresh
  <2>4. \A e \in cache' : Fresh(e)'
    BY <2>1, <2>3, FreshStays
  <2> QED
    BY <2>1, <2>4 DEF CacheFresh
<1>11. CASE Export
  BY <1>1, <1>11 DEF Export
<1>12. ASSUME NEW db, Restart(db) PROVE CacheFresh'
  BY <1>12 DEF Restart, CacheFresh
<1> QED
  BY <1>2, <1>3, <1>4, <1>5, <1>6, <1>7, <1>8, <1>9, <1>10, <1>11, <1>12, PollTyped
  DEF Next, SynchronizeSegment, RestartBlank, RestartFromFile, Typed

\* The cache of the proxy holds no answer about segments that its storage would
\* give differently now, besides answers filed after the evictions that would have
\* taken them out: for any number of segments, keys, entries and restarts.
THEOREM OnlyLateAnswersAreStale == Spec => []OnlyLateAnswersStale
<1>1. Init => CacheFresh
  BY DEF Init, CacheFresh
<1>2. CacheFresh /\ Typed => OnlyLateAnswersStale
  <2> SUFFICES ASSUME CacheFresh, Typed, NEW e \in cache, Quiet(e.req)
               PROVE  e.late \/ e.body = Answer(e.req)
    BY TypedIsTypeOK DEF OnlyLateAnswersStale
  <2>1. e.req \in Request
    BY EntryIs DEF Typed, CacheTyped
  <2>2. ASSUME NEW s \in Segments, Pending(s, e.req) PROVE FALSE
    BY <2>1, <2>2, OutdatedIs DEF Quiet, Pending
  <2> QED
    BY <2>2 DEF CacheFresh, Fresh
<1> QED
  BY <1>1, <1>2, TypedInit, TypedStep, FreshStep, PTL DEF Spec

-----------------------------------------------------------------------------
(* A segment's keys are its members, and keys that came with a snapshot     *)

Live(item) == item # Unknown /\ ~item.removed

IsMember(s, k, cn) == History!Served(log[s], k, cn) # 0

\* An update that was fetched carries what happened between the CNs.
SyncExact(s) ==
    sync[s].pc \in {"cache", "db"} =>
        /\ sync[s].till \in 1..Len(log[s]) /\ segmentsTill[s] < sync[s].till
        /\ \A k \in Keys :
              LET n == History!LatestCN(log[s], k, sync[s].till)
                  in == IsMember(s, k, sync[s].till)
              IN  /\ k \in sync[s].added <=> in /\ n > segmentsTill[s]
                  /\ k \in sync[s].removed <=>
                        n > 0 /\ n > segmentsTill[s] /\ segmentsTill[s] # -1 /\ ~in

\* The two stores agree, but for an update that only one of them has.
StoresAgree(s) ==
    \A k \in Keys :
        s \in mySegments[k] <=>
            IF sync[s].pc = "db"
            THEN k \in sync[s].added \/ (Live(items[s][k]) /\ k \notin sync[s].removed)
            ELSE Live(items[s][k])

FromFile(s, k) == restarts > 0 /\ Live(file[s][k])

\* The item on disk has the members at the CN, and keys of the snapshot.
ItemKept(s) ==
    /\ segmentsTill[s] # -1 => segmentsTill[s] \in 0..Len(log[s])
    /\ \A k \in Keys :
          /\ segmentsTill[s] # -1 /\ IsMember(s, k, segmentsTill[s]) => Live(items[s][k])
          /\ Live(items[s][k]) => \/ segmentsTill[s] # -1 /\ IsMember(s, k, segmentsTill[s])
                                  \/ FromFile(s, k)

StoreExact(s) == SyncExact(s) /\ StoresAgree(s) /\ ItemKept(s)

StoreInv == \A s \in Segments : StoreExact(s)

\* Served is the last change, if that made the key a member.
LEMMA MemberIs ==
    ASSUME NEW s \in Segments, NEW k, NEW cn
    PROVE  LET n == History!LatestCN(log[s], k, cn)
           IN  IsMember(s, k, cn) <=> n > 0 /\ n # 0 /\ log[s][n].active
BY DEF IsMember, History!Served

\* A key with a change by some time has one by any later time.
LEMMA LastGrows ==
    ASSUME NEW l, NEW k, NEW cn \in Nat, NEW t \in Int, t <= cn, History!LatestCN(l, k, t) > 0
    PROVE  History!LatestCN(l, k, cn) > 0
<1>1. History!LatestCN(l, k, t) \in 1..t /\ l[History!LatestCN(l, k, t)].name = k
  BY LastIs
<1>2. History!LatestCN(l, k, t) \in Log!ChangesOf(l, k, cn)
  BY <1>1 DEF Log!ChangesOf
<1> QED
  BY <1>1, <1>2, SameLog, Log!LatestIsLast

\* What is not touched stays as it is.
LEMMA StoreFrame ==
    ASSUME NEW s \in Segments, StoreExact(s),
           log'[s] = log[s], items'[s] = items[s], segmentsTill'[s] = segmentsTill[s],
           sync'[s] = sync[s], file'[s] = file[s], restarts' = restarts,
           \A k \in Keys : s \in mySegments'[k] <=> s \in mySegments[k]
    PROVE  StoreExact(s)'
BY DEF StoreExact, SyncExact, StoresAgree, ItemKept, FromFile, IsMember

\* Nor does a new change to the segment touch what is known of its past.
LEMMA StorePublish ==
    ASSUME Typed, NEW s \in Segments, NEW change \in History!Change, Publish(s, change), StoreExact(s)
    PROVE  StoreExact(s)'
<1>1. log[s] \in Seq(History!Change) /\ log'[s] = Append(log[s], change)
  BY DEF Publish, Typed, LogTyped
<1>2. Len(log[s]) \in Nat /\ Len(log'[s]) = Len(log[s]) + 1
  BY <1>1
<1>3. \A k \in Keys, t \in -1..Len(log[s]) :
         /\ History!LatestCN(log'[s], k, t) = History!LatestCN(log[s], k, t)
         /\ IsMember(s, k, t)' <=> IsMember(s, k, t)
  BY <1>1, NewChange DEF IsMember
<1>4. /\ sync[s].pc \in {"cache", "db"} => sync[s].till \in -1..Len(log[s])
      /\ segmentsTill[s] # -1 => segmentsTill[s] \in -1..Len(log[s])
      /\ UNCHANGED <<items, segmentsTill, sync, file, restarts, mySegments>>
  BY <1>2 DEF Publish, StoreExact, SyncExact, ItemKept, storageVars
<1>5. SyncExact(s)'
  <2> SUFFICES ASSUME sync[s].pc \in {"cache", "db"} PROVE SyncExact(s)'
    BY <1>4 DEF SyncExact
  <2>1. \A k \in Keys :
           /\ History!LatestCN(log'[s], k, sync[s].till) = History!LatestCN(log[s], k, sync[s].till)
           /\ IsMember(s, k, sync[s].till)' <=> IsMember(s, k, sync[s].till)
    BY <1>3, <1>4 DEF IsMember
  <2> QED
    BY <1>2, <1>4, <2>1 DEF StoreExact, SyncExact
<1>6. StoresAgree(s)'
  BY <1>4 DEF StoreExact, StoresAgree
<1>7. ItemKept(s)'
  <2>1. \A k \in Keys : segmentsTill[s] # -1 =>
           (IsMember(s, k, segmentsTill[s])' <=> IsMember(s, k, segmentsTill[s]))
    BY <1>3, <1>4 DEF IsMember
  <2> QED
    BY <1>2, <1>4, <2>1 DEF StoreExact, ItemKept, FromFile
<1> QED
  BY <1>5, <1>6, <1>7 DEF StoreExact

\* The second store written: the item is that of the new CN.
LEMMA StoreWritten ==
    ASSUME Typed, NEW s \in Segments, WriteItem(s), StoreExact(s)
    PROVE  StoreExact(s)'
<1> DEFINE T == segmentsTill[s]
           till == sync[s].till
           n(k) == History!LatestCN(log[s], k, till)
<1>1. /\ sync[s].pc = "db" /\ sync'[s].pc = "evict"
      /\ segmentsTill'[s] = till
      /\ \A k \in Keys : items'[s][k] = IF k \in sync[s].added THEN [cn |-> till, removed |-> FALSE]
                                        ELSE IF k \in sync[s].removed THEN [cn |-> till, removed |-> TRUE]
                                        ELSE items[s][k]
      /\ UNCHANGED <<log, mySegments, file, restarts>>
  BY DEF WriteItem, UpdateItem, Typed, StoreTyped, ItemsTyped, Sync
<1>2. /\ till \in 1..Len(log[s]) /\ T < till
      /\ \A k \in Keys :
            /\ k \in sync[s].added <=> IsMember(s, k, till) /\ n(k) > T
            /\ k \in sync[s].removed <=> n(k) > 0 /\ n(k) > T /\ T # -1 /\ ~IsMember(s, k, till)
  BY <1>1 DEF StoreExact, SyncExact
<1>3. T \in -1..MaxCN /\ T \in Int /\ till \in Nat /\ MaxCN \in Nat /\ Len(log[s]) \in Nat
  BY <1>2, ServingAssumption DEF Typed, LogTyped, StoreTyped
<1>4. ASSUME NEW k \in Keys
      PROVE  Live(items'[s][k]) <=> k \in sync[s].added \/ (Live(items[s][k]) /\ k \notin sync[s].removed)
  BY <1>1, <1>2 DEF Live, Unknown
<1>5. StoresAgree(s)'
  BY <1>1, <1>4 DEF StoreExact, StoresAgree
<1>6. ASSUME NEW k \in Keys, IsMember(s, k, till) PROVE Live(items'[s][k])
  <2>1. n(k) > 0 /\ n(k) \in 1..till
    BY <1>3, <1>6, MemberIs, LastIs
  <2>2. CASE n(k) > T
    BY <1>2, <1>4, <1>6, <2>2
  <2>3. CASE n(k) <= T
    <3>1. T \in Nat /\ History!LatestCN(log[s], k, T) = n(k)
      BY <1>2, <1>3, <2>1, <2>3, LastSettled
    <3>2. IsMember(s, k, T)
      BY <1>6, <3>1, MemberIs
    <3>3. Live(items[s][k]) /\ k \notin sync[s].removed
      BY <1>2, <1>6, <3>1, <3>2 DEF StoreExact, ItemKept
    <3> QED
      BY <1>4, <3>3
  <2> QED
    BY <1>3, <2>1, <2>2, <2>3
<1>7. ASSUME NEW k \in Keys, Live(items'[s][k]), ~IsMember(s, k, till) PROVE FromFile(s, k)
  <2>1. Live(items[s][k]) /\ k \notin sync[s].removed
    BY <1>2, <1>4, <1>7
  <2>2. ASSUME T # -1, IsMember(s, k, T) PROVE FALSE
    <3>1. History!LatestCN(log[s], k, T) > 0
      BY <2>2, MemberIs
    <3>2. n(k) > 0 /\ n(k) \in 1..till
      BY <1>2, <1>3, <3>1, LastGrows, LastIs
    <3>3. n(k) <= T
      BY <1>2, <1>3, <1>7, <2>1, <2>2, <3>2
    <3>4. History!LatestCN(log[s], k, T) = n(k)
      BY <1>2, <1>3, <3>2, <3>3, LastSettled
    <3> QED
      BY <1>7, <2>2, <3>4, MemberIs
  <2> QED
    BY <2>1, <2>2 DEF StoreExact, ItemKept
<1>8. ItemKept(s)'
  BY <1>1, <1>2, <1>3, <1>6, <1>7 DEF ItemKept, FromFile, IsMember
<1> QED
  BY <1>1, <1>5, <1>8 DEF StoreExact, SyncExact

LEMMA StoreStep == Typed /\ StoreInv /\ [Next]_vars => StoreInv'
<1> SUFFICES ASSUME Typed, StoreInv, [Next]_vars, NEW z \in Segments PROVE StoreExact(z)'
  BY DEF StoreInv
<1>0. StoreExact(z) /\ LogTyped /\ StoreTyped /\ sync \in [Segments -> Sync]
  BY DEF StoreInv, Typed, StoreTyped
<1>1. ASSUME UNCHANGED <<log, storageVars, sync, file, restarts>> PROVE StoreExact(z)'
  BY <1>0, <1>1, StoreFrame DEF storageVars
<1>2. CASE UNCHANGED vars
  BY <1>1, <1>2 DEF vars
<1>3. ASSUME NEW s \in Segments, NEW change \in History!Change, Publish(s, change)
      PROVE  StoreExact(z)'
  <2>1. CASE s = z
    BY <1>0, <1>3, <2>1, StorePublish
  <2>2. CASE s # z
    BY <1>0, <1>3, <2>2, StoreFrame DEF Publish, storageVars, LogTyped
  <2> QED
    BY <2>1, <2>2
<1>4. ASSUME NEW s \in Segments, FetchSegment(s) PROVE StoreExact(z)'
  <2>1. /\ sync' = [sync EXCEPT ![s] = [pc |-> "cache", added |-> Joined(s),
                                        removed |-> Left(s), till |-> Len(log[s])]]
        /\ sync[s].pc = "idle" /\ segmentsTill[s] < Len(log[s]) /\ Len(log[s]) \in 1..MaxCN
    BY <1>0, <1>4, FetchIs
  <2>2. UNCHANGED <<log, storageVars, file, restarts>>
    BY <1>4 DEF FetchSegment
  <2>3. CASE s = z
    <3>1. sync'[z].pc = "cache" /\ sync'[z].added = Joined(z) /\ sync'[z].removed = Left(z)
          /\ sync'[z].till = Len(log[z])
      BY <1>0, <2>1, <2>3
    <3>2. SyncExact(z)'
      BY <2>1, <2>2, <2>3, <3>1, MemberIs DEF SyncExact, Joined, Left, Changed, IsMember, storageVars
    <3>3. StoresAgree(z)'
      BY <1>0, <2>1, <2>2, <2>3, <3>1 DEF StoreExact, StoresAgree, storageVars
    <3>4. ItemKept(z)'
      BY <1>0, <2>2 DEF StoreExact, ItemKept, FromFile, IsMember, storageVars
    <3> QED
      BY <3>2, <3>3, <3>4 DEF StoreExact
  <2>4. CASE s # z
    BY <1>0, <2>1, <2>2, <2>4, StoreFrame DEF storageVars
  <2> QED
    BY <2>3, <2>4
<1>5. ASSUME NEW s \in Segments, WriteMySegments(s) PROVE StoreExact(z)'
  <2>1. /\ sync[s].pc = "cache" /\ sync'[s].pc = "db"
        /\ sync'[s].added = sync[s].added /\ sync'[s].removed = sync[s].removed
        /\ sync'[s].till = sync[s].till
        /\ \A x \in Segments : x # s => sync'[x] = sync[x]
        /\ UNCHANGED <<log, items, segmentsTill, file, restarts>>
    BY <1>0, <1>5 DEF WriteMySegments, Sync
  <2>2. \A k \in Keys : mySegments'[k] =
           LET added == IF k \in sync[s].added THEN mySegments[k] \cup {s} ELSE mySegments[k]
           IN  IF k \in sync[s].removed THEN added \ {s} ELSE added
    BY <1>5 DEF WriteMySegments, UpdateMySegments
  <2>3. CASE s = z
    <3>1. SyncExact(z)'
      BY <1>0, <2>1, <2>3 DEF StoreExact, SyncExact, IsMember
    <3>2. \A k \in sync[z].added : k \notin sync[z].removed
      BY <1>0, <2>1, <2>3 DEF StoreExact, SyncExact, StoreTyped, Sync
    <3>3. StoresAgree(z)'
      BY <1>0, <2>1, <2>2, <2>3, <3>2 DEF StoreExact, StoresAgree
    <3>4. ItemKept(z)'
      BY <1>0, <2>1 DEF StoreExact, ItemKept, FromFile, IsMember
    <3> QED
      BY <3>1, <3>3, <3>4 DEF StoreExact
  <2>4. CASE s # z
    <3>1. \A k \in Keys : z \in mySegments'[k] <=> z \in mySegments[k]
      BY <2>2, <2>4
    <3> QED
      BY <1>0, <2>1, <2>4, <3>1, StoreFrame
  <2> QED
    BY <2>3, <2>4
<1>6. ASSUME NEW s \in Segments, WriteItem(s) PROVE StoreExact(z)'
  <2>1. CASE s = z
    BY <1>0, <1>6, <2>1, StoreWritten
  <2>2. CASE s # z
    BY <1>0, <1>6, <2>2, StoreFrame DEF WriteItem, UpdateItem, StoreTyped, ItemsTyped
  <2> QED
    BY <2>1, <2>2
<1>7. ASSUME NEW s \in Segments, EvictSegment(s) PROVE StoreExact(z)'
  <2>1. sync[s].pc = "evict" /\ sync'[s] = NoSync /\ (s # z => sync'[z] = sync[z])
        /\ UNCHANGED <<log, storageVars, file, restarts>>
    BY <1>0, <1>7 DEF EvictSegment
  <2>2. CASE s = z
    BY <1>0, <2>1, <2>2 DEF StoreExact, SyncExact, StoresAgree, ItemKept, FromFile, IsMember,
       storageVars, NoSync
  <2>3. CASE s # z
    BY <1>0, <2>1, <2>3, StoreFrame DEF storageVars
  <2> QED
    BY <2>2, <2>3
<1>8. ASSUME NEW s \in Segments, Hit(s) PROVE StoreExact(z)'
  BY <1>1, <1>8 DEF Hit
<1>9. ASSUME NEW r, NEW own, Handle(r, own) PROVE StoreExact(z)'
  BY <1>1, <1>9 DEF Handle
<1>10. CASE Respond
  BY <1>1, <1>10 DEF Respond
<1>11. CASE Export
  <2>1. file' = items /\ UNCHANGED <<log, storageVars, sync, restarts>>
    BY <1>11 DEF Export
  <2>2. ItemKept(z)'
    BY <1>0, <2>1 DEF StoreExact, ItemKept, FromFile, IsMember, storageVars
  <2> QED
    BY <1>0, <2>1, <2>2 DEF StoreExact, SyncExact, StoresAgree, IsMember, storageVars
<1>12. ASSUME NEW db, db = NoItems \/ db = file, Restart(db) PROVE StoreExact(z)'
  <2>1. /\ items' = db /\ segmentsTill'[z] = -1 /\ sync'[z].pc = "idle" /\ restarts' = restarts + 1
        /\ \A k \in Keys : z \in mySegments'[k] <=> Live(db[z][k])
        /\ UNCHANGED <<log, file>>
    BY <1>12 DEF Restart, Open, Live, NoSync
  <2>2. \A k \in Keys : Live(db[z][k]) => Live(file[z][k])
    <3>1. \A k \in Keys : ~Live(NoItems[z][k])
      BY DEF Live, NoItems
    <3> QED
      BY <1>12, <3>1
  <2>3. restarts' > 0
    BY <2>1 DEF Typed, SdkTyped
  <2> QED
    BY <2>1, <2>2, <2>3 DEF StoreExact, SyncExact, StoresAgree, ItemKept, FromFile
<1> QED
  BY <1>2, <1>3, <1>4, <1>5, <1>6, <1>7, <1>8, <1>9, <1>10, <1>11, <1>12
  DEF Next, SynchronizeSegment, RestartBlank, RestartFromFile

\* Once a process has synchronized a segment, every key that was in it at that change
\* number is answered as a member, and of the other keys only those that were live in
\* the snapshot the process started from: for any number of segments, keys and restarts.
THEOREM MembersAreKept == Spec => []MembersKept
<1>1. Init => StoreInv
  BY DEF Init, StoreInv, StoreExact, SyncExact, StoresAgree, ItemKept, Live, NoItems, NoSync, Unknown
<1>2. StoreInv /\ Typed => MembersKept
  <2> SUFFICES ASSUME StoreInv, NEW s \in Segments, segmentsTill[s] # -1, sync[s].pc # "db"
               PROVE  LET served == { k \in Keys : s \in SegmentsFor(k) }
                          members == Members(s, segmentsTill[s])
                      IN  /\ members \subseteq served
                          /\ \A k \in served \ members :
                                Forgotten(s, k) /\ file[s][k] # Unknown /\ ~file[s][k].removed
    BY DEF MembersKept
  <2>1. \A k \in Keys : s \in SegmentsFor(k) <=> Live(items[s][k])
    BY DEF StoreInv, StoreExact, StoresAgree, SegmentsFor
  <2>2. \A k \in Keys : k \in Members(s, segmentsTill[s]) <=> IsMember(s, k, segmentsTill[s])
    BY DEF Members, IsMember
  <2>3. \A k \in Keys : /\ IsMember(s, k, segmentsTill[s]) => Live(items[s][k])
                        /\ Live(items[s][k]) => IsMember(s, k, segmentsTill[s]) \/ FromFile(s, k)
    BY DEF StoreInv, StoreExact, ItemKept
  <2> QED
    BY <2>1, <2>2, <2>3 DEF Forgotten, FromFile, Live, Members
<1> QED
  BY <1>1, <1>2, TypedInit, TypedStep, StoreStep, PTL DEF Spec

-----------------------------------------------------------------------------
(* No update is lost                                                       *)

Active(s, k) == log[s][Changed(s, k)].active

\* k's last change is at or below X.
Settled(s, k, X) == 0 < Changed(s, k) /\ Changed(s, k) <= X

\* A CN that some client or store has seen: the storage, once synchronized, and
\* any update on its way are not behind it.
Bounded(s, X) ==
    /\ X <= Len(log[s])
    /\ segmentsTill[s] # -1 => X <= segmentsTill[s]
    /\ sync[s].pc \in {"cache", "db"} => X <= sync[s].till

\* Item I of s holds the members whose last change is at or below X.
Covers(s, I, X) ==
    \A k \in Keys : Settled(s, k, X) /\ Active(s, k) => Live(I[k]) /\ Changed(s, k) <= I[k].cn

\* It has seen those leave that it knew.
Exact(s, X) ==
    \A k \in Keys : Settled(s, k, X) /\ ~Active(s, k) =>
        \/ items[s][k] = Unknown
        \/ items[s][k].removed /\ Changed(s, k) <= items[s][k].cn

\* An item is as far as the latest of its keys.
CoversItself(s, I) == \A j \in Keys : I[j].cn <= Len(log[s]) /\ Covers(s, I, I[j].cn)

ItemExact(s) ==
    /\ \A k \in Keys : Bounded(s, items[s][k].cn)
    /\ CoversItself(s, items[s]) /\ Covers(s, items[s], segmentsTill[s])
    /\ CoversItself(s, file[s])
    /\ restarts = 0 =>
        /\ \A j \in Keys : Exact(s, items[s][j].cn)
        /\ Exact(s, segmentsTill[s])
        /\ segmentsTill[s] = -1 => \A k \in Keys : items[s][k] = Unknown

\* The SDK's keys are those of its CN, and forgotten ones.
SdkExact(s) ==
    /\ Bounded(s, since[s])
    /\ since[s] = -1 => view[s] = {}
    /\ \A k \in Keys :
        /\ Settled(s, k, since[s]) /\ Active(s, k) => k \in view[s]
        /\ Settled(s, k, since[s]) /\ ~Active(s, k) /\ k \in view[s] => Forgotten(s, k)
        /\ restarts = 0 /\ k \in view[s] => items[s][k] # Unknown

\* Answer b takes a client of s from u to b.till without missing a change.
BodyExact(s, u, b) ==
    /\ u <= b.till
    /\ b.till = u => b.added = {} /\ b.removed = {}
    /\ b.till > u =>
        /\ Bounded(s, b.till)
        /\ \A k \in Keys : Settled(s, k, b.till) /\ Active(s, k) =>
                /\ u < Changed(s, k) => k \in b.added
                /\ k \notin b.removed
        /\ \A k \in Keys : Settled(s, k, b.till) /\ ~Active(s, k) =>
                /\ k \in b.added => Forgotten(s, k)
                /\ 0 <= u /\ u < Changed(s, k) =>
                      \/ k \in b.removed \/ Forgotten(s, k)
                      \/ restarts = 0 /\ items[s][k] = Unknown
        /\ \A k \in b.added : restarts = 0 => items[s][k] # Unknown

AnswerExact(e) == e.req.kind = "segmentChanges" => BodyExact(e.req.name, e.req.since, e.body)

AnswersExact ==
    /\ \A e \in cache : AnswerExact(e)
    /\ flight # NoFlight => AnswerExact(Filed)
    /\ flight # NoFlight /\ flight.own => flight.req = PollOf(flight.req.name)

UpdateInv == (\A s \in Segments : ItemExact(s) /\ SdkExact(s)) /\ AnswersExact

\* What a step that is no restart leaves as it is: a CN that was seen, and what was
\* settled at it; a key that has left by then is not written again.
Steady(s) ==
    /\ restarts' = restarts
    /\ \A X \in Int : Bounded(s, X) => Bounded(s, X)'
    /\ \A X \in Int, k \in Keys : Bounded(s, X) /\ Settled(s, k, X)' =>
        /\ Settled(s, k, X) /\ Changed(s, k)' = Changed(s, k) /\ (Active(s, k)' <=> Active(s, k))
        /\ ~Active(s, k) => items'[s][k] = items[s][k]
    /\ \A k \in Keys : items[s][k] # Unknown => items'[s][k] # Unknown

\* A change published later is above every CN seen.
LEMMA SettledStays ==
    ASSUME Typed, NEW s \in Segments, NEW change \in History!Change, Publish(s, change),
           NEW k \in Keys, NEW X \in Int, X <= Len(log[s]), Settled(s, k, X)'
    PROVE  Settled(s, k, X) /\ Changed(s, k)' = Changed(s, k) /\ (Active(s, k)' <=> Active(s, k))
<1>1. log[s] \in Seq(History!Change) /\ log'[s] = Append(log[s], change)
      /\ Len(log[s]) \in Nat /\ Len(log'[s]) = Len(log[s]) + 1
  BY DEF Publish, Typed, LogTyped
<1>2. Changed(s, k)' = History!LatestCN(Append(log[s], change), k, Len(log[s]) + 1)
  BY <1>1 DEF Changed
<1>3. Changed(s, k)' = Len(log[s]) + 1 \/ Changed(s, k)' = Changed(s, k)
  BY <1>1, <1>2, NewChange DEF Changed
<1>4. Changed(s, k)' = Changed(s, k) /\ Changed(s, k) > 0 /\ Changed(s, k) <= Len(log[s])
  <2>1. Changed(s, k) \in Int /\ 0 < Changed(s, k)' /\ Changed(s, k)' <= X
    BY <1>1, ChangedIs DEF Typed, Settled
  <2> QED
    BY <1>1, <1>3, <2>1
<1>5. Changed(s, k) \in 1..Len(log[s])
  BY <1>1, <1>4, ChangedIs DEF Typed
<1>6. log'[s][Changed(s, k)] = log[s][Changed(s, k)]
  BY <1>1, <1>5
<1> QED
  BY <1>4, <1>6 DEF Settled, Active

\* The second store written: what it does to a key.
LEMMA Written ==
    ASSUME Typed, StoreInv, NEW s \in Segments, WriteItem(s)
    PROVE  /\ sync[s].till \in 1..Len(log[s]) /\ segmentsTill[s] < sync[s].till
           /\ segmentsTill'[s] = sync[s].till /\ sync'[s].pc = "evict" /\ sync[s].pc = "db"
           /\ UNCHANGED <<log, file, restarts, since, view>>
           /\ \A k \in Keys :
                /\ items'[s][k] = IF k \in sync[s].added THEN [cn |-> sync[s].till, removed |-> FALSE]
                                  ELSE IF k \in sync[s].removed THEN [cn |-> sync[s].till, removed |-> TRUE]
                                  ELSE items[s][k]
                /\ Settled(s, k, sync[s].till) =>
                      /\ k \in sync[s].added <=> Active(s, k) /\ Changed(s, k) > segmentsTill[s]
                      /\ k \in sync[s].removed <=> /\ ~Active(s, k) /\ segmentsTill[s] # -1
                                                   /\ Changed(s, k) > segmentsTill[s]
<1> DEFINE till == sync[s].till
<1>1. /\ sync[s].pc = "db" /\ sync'[s].pc = "evict" /\ segmentsTill'[s] = till
      /\ \A k \in Keys : items'[s][k] = IF k \in sync[s].added THEN [cn |-> till, removed |-> FALSE]
                                        ELSE IF k \in sync[s].removed THEN [cn |-> till, removed |-> TRUE]
                                        ELSE items[s][k]
      /\ UNCHANGED <<log, file, restarts, since, view>>
  BY DEF WriteItem, UpdateItem, Typed, StoreTyped, ItemsTyped, Sync, sdkVars
<1>2. SyncExact(s)
  BY DEF StoreInv, StoreExact
<1>3. till \in 1..Len(log[s]) /\ segmentsTill[s] < till /\ Len(log[s]) \in Nat
  BY <1>1, <1>2, ChangedIs DEF SyncExact, Typed
<1>4. ASSUME NEW k \in Keys, Settled(s, k, till)
      PROVE  /\ k \in sync[s].added <=> Active(s, k) /\ Changed(s, k) > segmentsTill[s]
             /\ k \in sync[s].removed <=> /\ ~Active(s, k) /\ segmentsTill[s] # -1
                                          /\ Changed(s, k) > segmentsTill[s]
  <2>1. Changed(s, k) > 0 /\ History!LatestCN(log[s], k, till) = Changed(s, k)
    BY <1>3, <1>4, LastSettled DEF Settled, Changed
  <2>2. IsMember(s, k, till) <=> Active(s, k)
    BY <2>1, MemberIs DEF Active
  <2> QED
    BY <1>1, <1>2, <2>1, <2>2 DEF SyncExact
<1> QED
  BY <1>1, <1>3, <1>4

LEMMA SteadyStep ==
    ASSUME Typed, StoreInv, [Next]_vars, restarts' = restarts, NEW s \in Segments
    PROVE  Steady(s)
<1>0. sync \in [Segments -> Sync] /\ LogTyped /\ StoreTyped /\ Len(log[s]) \in Nat /\ SyncExact(s)
      /\ segmentsTill[s] \in Int
  BY ChangedIs, ServingAssumption DEF Typed, StoreTyped, StoreInv, StoreExact
<1>1. ASSUME log'[s] = log[s], items'[s] = items[s], segmentsTill'[s] = segmentsTill[s],
             \/ sync'[s] = sync[s] \/ sync'[s].pc \in {"idle", "evict"}
             \/ sync[s].pc = "cache" /\ sync'[s].till = sync[s].till
             \/ sync'[s].till = Len(log[s])
      PROVE  Steady(s)
  BY <1>0, <1>1 DEF Steady, Bounded, Settled, Active, Changed
<1>2. CASE UNCHANGED vars
  BY <1>1, <1>2 DEF vars, storageVars
<1>3. ASSUME NEW z \in Segments, NEW change \in History!Change, Publish(z, change) PROVE Steady(s)
  <2>1. CASE z = s
    <3>1. UNCHANGED <<items, segmentsTill, sync>> /\ Len(log'[s]) = Len(log[s]) + 1
      BY <1>0, <1>3, <2>1 DEF Publish, storageVars, LogTyped
    <3>2. \A X \in Int : Bounded(s, X) => Bounded(s, X)'
      BY <1>0, <3>1 DEF Bounded
    <3>3. ASSUME NEW X \in Int, NEW k \in Keys, Bounded(s, X), Settled(s, k, X)'
          PROVE  Settled(s, k, X) /\ Changed(s, k)' = Changed(s, k) /\ (Active(s, k)' <=> Active(s, k))
      BY <1>3, <2>1, <3>3, SettledStays DEF Bounded
    <3> QED
      BY <3>1, <3>2, <3>3 DEF Steady
  <2>2. CASE z # s
    BY <1>0, <1>1, <1>3, <2>2 DEF Publish, storageVars, LogTyped
  <2> QED
    BY <2>1, <2>2
<1>4. ASSUME NEW z \in Segments, FetchSegment(z) PROVE Steady(s)
  <2>1. sync' = [sync EXCEPT ![z] = [pc |-> "cache", added |-> Joined(z),
                                     removed |-> Left(z), till |-> Len(log[z])]]
    BY <1>0, <1>4, FetchIs
  <2>2. UNCHANGED <<log, items, segmentsTill>>
    BY <1>4 DEF FetchSegment, storageVars
  <2>3. sync'[s] = sync[s] \/ sync'[s].till = Len(log[s])
    BY <1>0, <2>1
  <2> QED
    BY <1>1, <2>2, <2>3
<1>5. ASSUME NEW z \in Segments, WriteMySegments(z) PROVE Steady(s)
  BY <1>0, <1>1, <1>5 DEF WriteMySegments, Sync
<1>6. ASSUME NEW z \in Segments, WriteItem(z) PROVE Steady(s)
  <2>1. CASE z = s
    <3> DEFINE till == sync[s].till
    <3>1. till \in 1..Len(log[s]) /\ segmentsTill[s] < till /\ segmentsTill'[s] = till
          /\ sync'[s].pc = "evict" /\ sync[s].pc = "db" /\ log' = log
      BY <1>6, <2>1, Written
    <3>2. \A X \in Int : Bounded(s, X) => Bounded(s, X)' /\ X <= till
      BY <1>0, <3>1 DEF Bounded
    <3>3. ASSUME NEW X \in Int, NEW k \in Keys, Bounded(s, X), Settled(s, k, X)'
          PROVE  /\ Settled(s, k, X) /\ Changed(s, k)' = Changed(s, k) /\ (Active(s, k)' <=> Active(s, k))
                 /\ ~Active(s, k) => items'[s][k] = items[s][k]
      <4>1. Settled(s, k, X) /\ Changed(s, k)' = Changed(s, k) /\ (Active(s, k)' <=> Active(s, k))
        BY <3>1, <3>3 DEF Settled, Changed, Active
      <4>2. Changed(s, k) \in Int /\ Settled(s, k, till) /\ X <= till
            /\ (segmentsTill[s] # -1 => Changed(s, k) <= segmentsTill[s])
        BY <1>0, <3>1, <3>2, <3>3, <4>1, ChangedIs DEF Settled, Bounded
      <4>3. /\ k \in sync[s].added => Active(s, k)
            /\ k \in sync[s].removed => segmentsTill[s] # -1 /\ Changed(s, k) > segmentsTill[s]
        BY <1>6, <2>1, <4>2, Written
      <4>4. k \notin sync[s].removed
        BY <1>0, <4>2, <4>3
      <4>5. items'[s][k] = IF k \in sync[s].added THEN [cn |-> sync[s].till, removed |-> FALSE]
                           ELSE IF k \in sync[s].removed THEN [cn |-> sync[s].till, removed |-> TRUE]
                           ELSE items[s][k]
        BY <1>6, <2>1, Written
      <4> QED
        BY <4>1, <4>3, <4>4, <4>5
    <3>4. ASSUME NEW k \in Keys, items[s][k] # Unknown PROVE items'[s][k] # Unknown
      <4>1. items'[s][k] = IF k \in sync[s].added THEN [cn |-> sync[s].till, removed |-> FALSE]
                           ELSE IF k \in sync[s].removed THEN [cn |-> sync[s].till, removed |-> TRUE]
                           ELSE items[s][k]
        BY <1>6, <2>1, Written
      <4>2. [cn |-> till, removed |-> FALSE].cn # Unknown.cn /\ [cn |-> till, removed |-> TRUE].cn # Unknown.cn
        BY <3>1 DEF Unknown
      <4> QED
        BY <3>4, <4>1, <4>2
    <3> QED
      BY <3>2, <3>3, <3>4 DEF Steady
  <2>2. CASE z # s
    BY <1>0, <1>1, <1>6, <2>2 DEF WriteItem, UpdateItem, StoreTyped, ItemsTyped
  <2> QED
    BY <2>1, <2>2
<1>7. ASSUME NEW z \in Segments, EvictSegment(z) PROVE Steady(s)
  BY <1>0, <1>1, <1>7 DEF EvictSegment, NoSync, storageVars
<1>8. ASSUME NEW z \in Segments, Hit(z) PROVE Steady(s)
  BY <1>1, <1>8 DEF Hit, storageVars
<1>9. ASSUME NEW r, NEW own, Handle(r, own) PROVE Steady(s)
  BY <1>1, <1>9 DEF Handle, storageVars
<1>10. CASE Respond
  BY <1>1, <1>10 DEF Respond, storageVars
<1>11. CASE Export
  BY <1>1, <1>11 DEF Export, storageVars
<1>12. ASSUME NEW db, Restart(db) PROVE FALSE
  BY <1>12 DEF Restart, Typed, SdkTyped
<1> QED
  BY <1>2, <1>3, <1>4, <1>5, <1>6, <1>7, <1>8, <1>9, <1>10, <1>11, <1>12
  DEF Next, SynchronizeSegment, RestartBlank, RestartFromFile


LEMMA BodyStays ==
    ASSUME Typed, NEW s \in Segments, Steady(s), NEW u \in -1..MaxCN, NEW b \in SegmentChangesBody,
           BodyExact(s, u, b)
    PROVE  BodyExact(s, u, b)'
<1>1. b.till \in Int /\ u \in Int /\ b.added \subseteq Keys
  BY ServingAssumption DEF SegmentChangesBody
<1> SUFFICES ASSUME b.till > u PROVE BodyExact(s, u, b)'
  BY DEF BodyExact
<1>2. Bounded(s, b.till) /\ Bounded(s, b.till)'
  BY <1>1 DEF BodyExact, Steady
<1>3. ASSUME NEW k \in Keys, Settled(s, k, b.till)'
      PROVE  /\ Settled(s, k, b.till) /\ Changed(s, k)' = Changed(s, k)
             /\ Active(s, k)' <=> Active(s, k)
             /\ ~Active(s, k) => items'[s][k] = items[s][k]
  BY <1>1, <1>2, <1>3 DEF Steady
<1>4. restarts' = restarts /\ \A k \in Keys : items[s][k] # Unknown => items'[s][k] # Unknown
  BY DEF Steady
<1>5. ASSUME NEW k \in Keys, Settled(s, k, b.till)', Active(s, k)'
      PROVE  (u < Changed(s, k)' => k \in b.added) /\ k \notin b.removed
  BY <1>3, <1>5 DEF BodyExact
<1>6. ASSUME NEW k \in Keys, Settled(s, k, b.till)', ~Active(s, k)'
      PROVE  /\ k \in b.added => Forgotten(s, k)'
             /\ 0 <= u /\ u < Changed(s, k)' =>
                   \/ k \in b.removed \/ Forgotten(s, k)'
                   \/ restarts' = 0 /\ items'[s][k] = Unknown
  <2>1. Forgotten(s, k)' <=> Forgotten(s, k)
    BY <1>3, <1>4, <1>6 DEF Forgotten
  <2> QED
    BY <1>3, <1>4, <1>6, <2>1 DEF BodyExact
<1>7. \A k \in b.added : restarts' = 0 => items'[s][k] # Unknown
  BY <1>1, <1>4 DEF BodyExact
<1> QED
  BY <1>2, <1>5, <1>6, <1>7 DEF BodyExact

\* The SDK that does not hear anything is still right.
LEMMA SdkStays ==
    ASSUME Typed, NEW s \in Segments, Steady(s), since'[s] = since[s], view'[s] = view[s], SdkExact(s)
    PROVE  SdkExact(s)'
<1>0. PICK X \in Int : X = since[s]
  BY ServingAssumption DEF Typed, SdkTyped
<1>1. X = since[s] /\ restarts' = restarts /\ since'[s] = X
  BY <1>0 DEF Steady
<1>2. Bounded(s, X) /\ Bounded(s, X)'
  BY <1>1 DEF SdkExact, Steady
<1>3. ASSUME NEW k \in Keys, Settled(s, k, X)'
      PROVE  /\ Settled(s, k, X) /\ Changed(s, k)' = Changed(s, k)
             /\ Active(s, k)' <=> Active(s, k)
             /\ ~Active(s, k) => items'[s][k] = items[s][k]
  BY <1>1, <1>2, <1>3 DEF Steady
<1>4. \A k \in Keys : items[s][k] # Unknown => items'[s][k] # Unknown
  BY DEF Steady
<1>5. ASSUME NEW k \in Keys, Settled(s, k, X)', Active(s, k)' PROVE k \in view[s]
  BY <1>1, <1>3, <1>5 DEF SdkExact
<1>6. ASSUME NEW k \in Keys, Settled(s, k, X)', ~Active(s, k)', k \in view[s] PROVE Forgotten(s, k)'
  <2>1. Forgotten(s, k)' <=> Forgotten(s, k)
    BY <1>1, <1>3, <1>6 DEF Forgotten
  <2> QED
    BY <1>1, <1>3, <1>6, <2>1 DEF SdkExact
<1>7. /\ X = -1 => view[s] = {}
      /\ \A k \in Keys : restarts' = 0 /\ k \in view[s] => items'[s][k] # Unknown
  BY <1>1, <1>4 DEF SdkExact
<1>8. \A k \in Keys : Settled(s, k, since[s])' <=> Settled(s, k, X)'
  BY <1>1 DEF Settled
<1>9. Bounded(s, since[s])'
  BY <1>1, <1>2 DEF Bounded
<1> QED
  BY <1>1, <1>5, <1>6, <1>7, <1>8, <1>9 DEF SdkExact

\* An answer for its CN keeps the SDK right.
LEMMA SdkReceives ==
    ASSUME Typed, NEW s \in Segments, NEW b \in SegmentChangesBody, SdkExact(s),
           BodyExact(s, since[s], b), Receive(s, b), UNCHANGED <<log, storageVars, sync, restarts>>
    PROVE  SdkExact(s)'
<1> DEFINE u == since[s]
<1>1. u \in Int /\ b.till \in Int /\ u <= b.till /\ u >= -1
      /\ since'[s] = b.till /\ view'[s] = (view[s] \cup b.added) \ b.removed
      /\ view[s] \subseteq Keys /\ b.added \subseteq Keys
  BY ServingAssumption DEF Typed, SdkTyped, Receive, SegmentChangesBody, BodyExact
<1>2. \A k \in Keys : /\ Changed(s, k)' = Changed(s, k) /\ (Active(s, k)' <=> Active(s, k))
                      /\ Forgotten(s, k)' <=> Forgotten(s, k)
  BY DEF Changed, Active, Forgotten, storageVars
<1>3. restarts' = restarts /\ items' = items
  BY DEF storageVars
<1>4. \A k \in Keys : Settled(s, k, since[s])' <=> Settled(s, k, b.till)
  BY <1>1, <1>2 DEF Settled
<1>5. Bounded(s, since[s])' <=> Bounded(s, b.till)
  BY <1>1 DEF Bounded, storageVars
<1>6. CASE b.till = u
  <2>1. since'[s] = since[s] /\ view'[s] = view[s]
    BY <1>1, <1>6 DEF BodyExact
  <2>2. \A k \in Keys : Settled(s, k, since[s])' <=> Settled(s, k, since[s])
    BY <1>4, <1>6
  <2> QED
    BY <1>2, <1>3, <1>5, <1>6, <2>1, <2>2 DEF SdkExact
<1>7. CASE b.till > u
  <2>1. Bounded(s, b.till) /\ b.till # -1
    BY <1>1, <1>7 DEF BodyExact
  <2>2. ASSUME NEW k \in Keys, Settled(s, k, b.till), Active(s, k) PROVE k \in view'[s]
    <3>1. Changed(s, k) \in Int
      BY ChangedIs DEF Typed
    <3>2. k \notin b.removed /\ (u < Changed(s, k) => k \in b.added)
      BY <1>7, <2>2 DEF BodyExact
    <3>3. Changed(s, k) <= u => k \in view[s]
      BY <2>2 DEF SdkExact, Settled
    <3> QED
      BY <1>1, <3>1, <3>2, <3>3
  <2>3. ASSUME NEW k \in Keys, Settled(s, k, b.till), ~Active(s, k), k \in view'[s]
        PROVE  Forgotten(s, k)
    <3>1. Changed(s, k) \in Int
      BY ChangedIs DEF Typed
    <3>2. CASE k \in b.added
      BY <1>7, <2>3, <3>2 DEF BodyExact
    <3>3. CASE k \notin b.added
      <4>1. k \in view[s] /\ k \notin b.removed
        BY <1>1, <2>3, <3>3
      <4>2. CASE Changed(s, k) <= u
        BY <2>3, <4>1, <4>2 DEF SdkExact, Settled
      <4>3. CASE u < Changed(s, k)
        <5>1. 0 <= u
          BY <1>1, <4>1 DEF SdkExact
        <5>2. Forgotten(s, k) \/ (restarts = 0 /\ items[s][k] = Unknown)
          BY <1>7, <2>3, <4>1, <4>3, <5>1 DEF BodyExact
        <5> QED
          BY <4>1, <5>2 DEF SdkExact
      <4> QED
        BY <1>1, <3>1, <4>2, <4>3
    <3> QED
      BY <3>2, <3>3
  <2>4. ASSUME NEW k \in Keys, restarts = 0, k \in view'[s] PROVE items[s][k] # Unknown
    BY <1>1, <1>7, <2>4 DEF SdkExact, BodyExact
  <2> QED
    BY <1>1, <1>2, <1>3, <1>4, <1>5, <2>1, <2>2, <2>3, <2>4 DEF SdkExact
<1> QED
  BY <1>1, <1>6, <1>7

\* What the handler of /segmentChanges answers is exact, as the storage is.
LEMMA AnswerIsExact ==
    ASSUME Typed, NEW s \in Segments, ItemExact(s), NEW u \in -1..MaxCN
    PROVE  BodyExact(s, u, ChangesSince(s, u))
<1> DEFINE b == ChangesSince(s, u)
           I == items[s]
<1>1. /\ b \in SegmentChangesBody
      /\ b.added = { k \in Keys : I[k] # Unknown /\ I[k].cn > u /\ ~I[k].removed }
      /\ b.removed = { k \in Keys : I[k] # Unknown /\ I[k].cn > u /\ I[k].removed /\ u >= 0 }
      /\ u <= b.till
      /\ b.till # u => \E k \in Keys : b.till = I[k].cn
      /\ \A k \in b.added \cup b.removed : I[k].cn <= b.till
  BY AnswerIs DEF Typed, StoreTyped
<1>2. b.till \in Int /\ u \in Int /\ b.added \subseteq Keys /\ b.removed \subseteq Keys
      /\ \A k \in Keys : I[k].cn \in Int /\ Changed(s, k) \in Int /\ I[k].removed \in BOOLEAN
  BY <1>1, ServingAssumption, ChangedIs DEF SegmentChangesBody, Typed, StoreTyped, ItemsTyped, SegmentKey
<1> HIDE DEF b, I
<1>3. b.till = u => b.added = {} /\ b.removed = {}
  BY <1>1, <1>2
<1>4. ASSUME b.till > u
      PROVE  /\ Bounded(s, b.till)
             /\ \A k \in Keys : Settled(s, k, b.till) /\ Active(s, k) =>
                     /\ u < Changed(s, k) => k \in b.added
                     /\ k \notin b.removed
             /\ \A k \in Keys : Settled(s, k, b.till) /\ ~Active(s, k) =>
                     /\ k \in b.added => Forgotten(s, k)
                     /\ 0 <= u /\ u < Changed(s, k) =>
                           \/ k \in b.removed \/ Forgotten(s, k)
                           \/ restarts = 0 /\ items[s][k] = Unknown
             /\ \A k \in b.added : restarts = 0 => items[s][k] # Unknown
  <2>1. PICK j \in Keys : b.till = I[j].cn
    BY <1>1, <1>2, <1>4
  <2>2. Bounded(s, b.till) /\ Covers(s, I, b.till) /\ (restarts = 0 => Exact(s, b.till))
    BY <2>1 DEF ItemExact, CoversItself, I
  <2>3. ASSUME NEW k \in Keys, Settled(s, k, b.till), Active(s, k)
        PROVE  (u < Changed(s, k) => k \in b.added) /\ k \notin b.removed
    <3>1. Live(I[k]) /\ Changed(s, k) <= I[k].cn
      BY <2>2, <2>3 DEF Covers
    <3> QED
      BY <1>1, <1>2, <3>1 DEF Live
  <2>4. ASSUME NEW k \in Keys, Settled(s, k, b.till), ~Active(s, k)
        PROVE  /\ k \in b.added => Forgotten(s, k)
               /\ 0 <= u /\ u < Changed(s, k) =>
                     \/ k \in b.removed \/ Forgotten(s, k)
                     \/ restarts = 0 /\ items[s][k] = Unknown
    <3>1. CASE restarts = 0
      <4>1. I[k] = Unknown \/ (I[k].removed /\ Changed(s, k) <= I[k].cn)
        BY <2>2, <2>4, <3>1 DEF Exact, I
      <4>2. k \notin b.added
        BY <1>1, <4>1
      <4>3. ASSUME 0 <= u, u < Changed(s, k), I[k] # Unknown PROVE k \in b.removed
        BY <1>1, <1>2, <4>1, <4>3
      <4> QED
        BY <3>1, <4>2, <4>3 DEF I
    <3>2. CASE restarts # 0
      <4>1. restarts > 0
        BY <3>2 DEF Typed, SdkTyped
      <4>2. k \in b.added => Forgotten(s, k)
        BY <1>1, <4>1 DEF Forgotten, I
      <4>3. ASSUME 0 <= u, u < Changed(s, k), ~Forgotten(s, k) PROVE k \in b.removed
        <5>1. I[k].removed /\ I[k].cn >= Changed(s, k)
          BY <4>1, <4>3 DEF Forgotten, I
        <5> QED
          BY <1>1, <1>2, <4>3, <5>1 DEF Unknown
      <4> QED
        BY <4>2, <4>3
    <3> QED
      BY <3>1, <3>2
  <2>5. \A k \in b.added : restarts = 0 => items[s][k] # Unknown
    BY <1>1 DEF I
  <2> QED
    BY <2>2, <2>3, <2>4, <2>5
<1> QED
  BY <1>1, <1>3, <1>4 DEF BodyExact, b

\* The past of a segment is fixed.
Past(s) ==
    /\ Len(log[s]) <= Len(log'[s]) /\ Len(log'[s]) \in Nat
    /\ \A X \in Int, k \in Keys : X <= Len(log[s]) /\ Settled(s, k, X)' =>
          Settled(s, k, X) /\ Changed(s, k)' = Changed(s, k) /\ (Active(s, k)' <=> Active(s, k))

LEMMA PastStep ==
    ASSUME Typed, [Next]_vars, NEW s \in Segments
    PROVE  Past(s)
<1>1. Len(log[s]) \in Nat /\ log \in [Segments -> Seq(History!Change)]
  BY ChangedIs DEF Typed, LogTyped
<1>2. ASSUME log'[s] = log[s] PROVE Past(s)
  BY <1>1, <1>2 DEF Past, Settled, Changed, Active
<1>3. ASSUME NEW z \in Segments, NEW change \in History!Change, Publish(z, change) PROVE Past(s)
  <2>1. CASE z = s
    <3>1. Len(log'[s]) = Len(log[s]) + 1
      BY <1>1, <1>3, <2>1 DEF Publish
    <3>2. \A X \in Int, k \in Keys : X <= Len(log[s]) /\ Settled(s, k, X)' =>
            Settled(s, k, X) /\ Changed(s, k)' = Changed(s, k) /\ (Active(s, k)' <=> Active(s, k))
      BY <1>3, <2>1, SettledStays
    <3> QED
      BY <1>1, <3>1, <3>2 DEF Past
  <2>2. CASE z # s
    BY <1>1, <1>2, <1>3, <2>2 DEF Publish
  <2> QED
    BY <2>1, <2>2
<1>4. ASSUME \A z \in Segments, change \in History!Change : ~Publish(z, change) PROVE log' = log
  BY <1>4 DEF Next, SynchronizeSegment, FetchSegment, WriteMySegments, WriteItem, EvictSegment, Hit,
     Handle, Respond, Export, RestartBlank, RestartFromFile, Restart, vars
<1> QED
  BY <1>2, <1>3, <1>4

\* What an item holds of the past, it goes on holding.
LEMMA CoversStay ==
    ASSUME NEW s \in Segments, Past(s), NEW I, NEW X \in Int, X <= Len(log[s]), Covers(s, I, X)
    PROVE  Covers(s, I, X)'
BY DEF Past, Covers

LEMMA CoversItselfStays ==
    ASSUME Typed, NEW s \in Segments, Past(s), NEW I \in [Keys -> SegmentKey], CoversItself(s, I)
    PROVE  CoversItself(s, I)'
<1>1. Len(log[s]) \in Nat
  BY ChangedIs DEF Typed
<1>2. \A j \in Keys : I[j].cn \in Int /\ I[j].cn <= Len(log[s]) /\ Covers(s, I, I[j].cn)
  BY ServingAssumption DEF SegmentKey, CoversItself
<1>3. \A j \in Keys : Covers(s, I, I[j].cn)'
  BY <1>2, CoversStay
<1>4. \A j \in Keys : I[j].cn <= Len(log[s])'
  BY <1>1, <1>2 DEF Past
<1> QED
  BY <1>3, <1>4 DEF CoversItself

\* The CN of the storage is one that it has seen.
LEMMA TillBounded ==
    ASSUME Typed, StoreInv, NEW s \in Segments
    PROVE  segmentsTill[s] \in Int /\ Bounded(s, segmentsTill[s]) /\ segmentsTill[s] <= Len(log[s])
<1>1. Len(log[s]) \in Nat /\ segmentsTill[s] \in -1..MaxCN /\ MaxCN \in Nat
  BY ChangedIs, ServingAssumption DEF Typed, StoreTyped
<1>2. (segmentsTill[s] # -1 => segmentsTill[s] \in 0..Len(log[s])) /\ SyncExact(s)
  BY DEF StoreInv, StoreExact, ItemKept
<1> QED
  BY <1>1, <1>2 DEF Bounded, SyncExact

\* Steps that write no item of s.
LEMMA ItemStays ==
    ASSUME Typed, StoreInv, NEW s \in Segments, ItemExact(s), Steady(s), Past(s),
           items'[s] = items[s], segmentsTill'[s] = segmentsTill[s],
           file'[s] = file[s] \/ file'[s] = items[s]
    PROVE  ItemExact(s)'
<1>0. PICK I \in [Keys -> SegmentKey], F \in [Keys -> SegmentKey], T \in Int :
         I = items[s] /\ F = file[s] /\ T = segmentsTill[s]
  BY TillBounded DEF Typed, StoreTyped, ItemsTyped
<1>1. T <= Len(log[s]) /\ restarts' = restarts
  BY <1>0, TillBounded DEF Steady
<1>2. \A j \in Keys : I[j].cn \in Int /\ Bounded(s, I[j].cn) /\ I[j].cn <= Len(log[s])
  BY <1>0, ServingAssumption DEF SegmentKey, ItemExact, CoversItself
<1>3. \A j \in Keys : Bounded(s, I[j].cn)'
  BY <1>2 DEF Steady
<1>4. CoversItself(s, I)' /\ CoversItself(s, F)' /\ Covers(s, I, T)'
  BY <1>0, <1>1, CoversItselfStays, CoversStay DEF ItemExact
<1>5. ASSUME restarts = 0, NEW X \in Int, X <= Len(log[s]), Exact(s, X) PROVE Exact(s, X)'
  BY <1>5 DEF Exact, Past
<1>6. restarts' = 0 =>
         /\ \A j \in Keys : Exact(s, I[j].cn)'
         /\ Exact(s, T)'
         /\ T = -1 => \A k \in Keys : I[k] = Unknown
  BY <1>0, <1>1, <1>2, <1>5 DEF ItemExact
<1>7. items'[s] = I /\ segmentsTill'[s] = T /\ (file'[s] = F \/ file'[s] = I)
  BY <1>0
<1>8. \A j \in Keys : Bounded(s, items[s][j].cn)'
  BY <1>3, <1>7 DEF Bounded
<1>9. CoversItself(s, items[s])' /\ Covers(s, items[s], segmentsTill[s])' /\ CoversItself(s, file[s])'
  BY <1>4, <1>7 DEF CoversItself, Covers, Settled
<1>10. restarts' = 0 =>
         /\ \A j \in Keys : Exact(s, items[s][j].cn)'
         /\ Exact(s, segmentsTill[s])'
         /\ segmentsTill'[s] = -1 => \A k \in Keys : items'[s][k] = Unknown
  BY <1>6, <1>7 DEF Exact, Settled
<1> QED
  BY <1>8, <1>9, <1>10 DEF ItemExact

\* An update written to the item of s.
LEMMA ItemWritten ==
    ASSUME Typed, StoreInv, NEW s \in Segments, ItemExact(s), WriteItem(s)
    PROVE  ItemExact(s)'
<1>0. PICK I \in {items[s]}, R \in {items'[s]}, T \in Int, till \in Int :
         I = items[s] /\ R = items'[s] /\ T = segmentsTill[s] /\ till = sync[s].till
  <2>1. segmentsTill[s] \in Int
    BY TillBounded
  <2>2. sync[s].till \in 1..Len(log[s])
    BY Written
  <2> QED
    BY <2>1, <2>2
<1>1. /\ till \in 1..Len(log[s]) /\ T < till /\ Len(log[s]) \in Nat
      /\ segmentsTill'[s] = till /\ sync'[s].pc = "evict" /\ sync[s].pc = "db"
      /\ UNCHANGED <<log, file, restarts>>
  BY <1>0, Written, ChangedIs DEF Typed
<1>2. ASSUME NEW k \in Keys
      PROVE  /\ R[k] = IF k \in sync[s].added THEN [cn |-> till, removed |-> FALSE]
                       ELSE IF k \in sync[s].removed THEN [cn |-> till, removed |-> TRUE]
                       ELSE I[k]
             /\ Settled(s, k, till) =>
                      /\ k \in sync[s].added <=> Active(s, k) /\ Changed(s, k) > T
                      /\ k \in sync[s].removed <=> ~Active(s, k) /\ T # -1 /\ Changed(s, k) > T
             /\ Changed(s, k) \in Int
             /\ I[k].cn \in Int /\ I[k].cn <= till /\ R[k].cn <= till /\ R[k].cn \in Int
  <2>1. /\ R[k] = IF k \in sync[s].added THEN [cn |-> till, removed |-> FALSE]
                  ELSE IF k \in sync[s].removed THEN [cn |-> till, removed |-> TRUE]
                  ELSE I[k]
        /\ Settled(s, k, till) =>
                 /\ k \in sync[s].added <=> Active(s, k) /\ Changed(s, k) > T
                 /\ k \in sync[s].removed <=> ~Active(s, k) /\ T # -1 /\ Changed(s, k) > T
    BY <1>0, Written
  <2>2. Changed(s, k) \in Int
    BY ChangedIs DEF Typed
  <2>3. I[k].cn \in Int /\ I[k].cn <= till
    BY <1>0, <1>1, ServingAssumption DEF ItemExact, Bounded, Typed, StoreTyped, ItemsTyped, SegmentKey
  <2>4. R[k].cn <= till /\ R[k].cn \in Int
    BY <2>1, <2>3
  <2> QED
    BY <2>1, <2>2, <2>3, <2>4
<1>3. ASSUME NEW k \in Keys, Settled(s, k, till), Active(s, k)
      PROVE  Live(R[k]) /\ Changed(s, k) <= R[k].cn
  <2>1. CASE Changed(s, k) > T
    <3>1. R[k] = [cn |-> till, removed |-> FALSE]
      BY <1>2, <1>3, <2>1
    <3> QED
      BY <1>1, <1>3, <3>1 DEF Live, Unknown, Settled
  <2>2. CASE Changed(s, k) <= T
    <3>1. R[k] = I[k]
      BY <1>2, <1>3, <2>2
    <3>2. Live(I[k]) /\ Changed(s, k) <= I[k].cn
      BY <1>0, <1>3, <2>2 DEF ItemExact, Covers, Settled
    <3> QED
      BY <3>1, <3>2
  <2> QED
    BY <1>2, <2>1, <2>2
<1>4. ASSUME NEW k \in Keys, Settled(s, k, till), ~Active(s, k), restarts = 0
      PROVE  R[k] = Unknown \/ (R[k].removed /\ Changed(s, k) <= R[k].cn)
  <2>1. CASE Changed(s, k) > T /\ T # -1
    <3>1. R[k] = [cn |-> till, removed |-> TRUE]
      BY <1>2, <1>4, <2>1
    <3> QED
      BY <1>4, <3>1 DEF Settled
  <2>2. CASE T = -1
    BY <1>0, <1>2, <1>4, <2>2 DEF ItemExact
  <2>3. CASE Changed(s, k) <= T
    <3>1. R[k] = I[k]
      BY <1>2, <1>4, <2>3
    <3> QED
      BY <1>0, <1>4, <2>3, <3>1 DEF ItemExact, Exact, Settled
  <2> QED
    BY <1>2, <2>1, <2>2, <2>3
<1>5. \A k \in Keys : Changed(s, k)' = Changed(s, k) /\ (Active(s, k)' <=> Active(s, k))
  BY <1>1 DEF Changed, Active
<1>6. ASSUME NEW X \in Int, X <= till
      PROVE  /\ Bounded(s, X)' /\ Covers(s, R, X)'
             /\ \A k \in Keys : restarts' = 0 /\ Settled(s, k, X)' /\ ~Active(s, k)' =>
                   R[k] = Unknown \/ (R[k].removed /\ Changed(s, k)' <= R[k].cn)
  <2>1. Bounded(s, X)'
    BY <1>1, <1>6 DEF Bounded
  <2>2. \A k \in Keys : Settled(s, k, X)' => Settled(s, k, till)
    BY <1>2, <1>5, <1>6 DEF Settled
  <2>3. Covers(s, R, X)'
    BY <1>3, <1>5, <2>2 DEF Covers
  <2>4. ASSUME NEW k \in Keys, restarts' = 0, Settled(s, k, X)', ~Active(s, k)'
        PROVE  R[k] = Unknown \/ (R[k].removed /\ Changed(s, k)' <= R[k].cn)
    BY <1>1, <1>4, <1>5, <2>2, <2>4
  <2> QED
    BY <2>1, <2>3, <2>4
<1>7. \A j \in Keys : /\ Bounded(s, R[j].cn)' /\ Covers(s, R, R[j].cn)'
                      /\ R[j].cn <= Len(log'[s])
  <2>1. ASSUME NEW j \in Keys PROVE R[j].cn \in Int /\ R[j].cn <= till /\ R[j].cn <= Len(log'[s])
    BY <1>1, <1>2
  <2> QED
    BY <1>6, <2>1
<1>8. items'[s] = R /\ segmentsTill'[s] = till /\ till # -1
  BY <1>0, <1>1
<1>9. \A j \in Keys : Bounded(s, items[s][j].cn)'
  BY <1>7, <1>8 DEF Bounded
<1>10. CoversItself(s, items[s])' /\ Covers(s, items[s], segmentsTill[s])'
  BY <1>6, <1>7, <1>8 DEF CoversItself, Covers, Settled
<1>11. CoversItself(s, file[s])'
  BY <1>1 DEF ItemExact, CoversItself, Covers, Settled, Active, Changed
<1>12. ASSUME restarts' = 0, NEW X \in Int, X <= till PROVE Exact(s, X)'
  BY <1>6, <1>8, <1>12 DEF Exact
<1>13. restarts' = 0 => (\A j \in Keys : Exact(s, items[s][j].cn)') /\ Exact(s, segmentsTill[s])'
  <2>1. ASSUME restarts' = 0, NEW j \in Keys PROVE Exact(s, items[s][j].cn)'
    <3>1. R[j].cn \in Int /\ R[j].cn <= till
      BY <1>2
    <3>2. Exact(s, R[j].cn)'
      BY <1>12, <2>1, <3>1
    <3> QED
      BY <1>8, <3>2 DEF Exact, Settled
  <2>2. ASSUME restarts' = 0 PROVE Exact(s, segmentsTill[s])'
    BY <1>8, <1>12, <2>2 DEF Exact, Settled
  <2> QED
    BY <2>1, <2>2
<1> QED
  BY <1>8, <1>9, <1>10, <1>11, <1>13 DEF ItemExact

\* A new process opens an empty database, or the snapshot.
LEMMA ItemRestarted ==
    ASSUME Typed, NEW s \in Segments, ItemExact(s), NEW db, Restart(db), db = NoItems \/ db = file
    PROVE  ItemExact(s)'
<1>0. PICK D \in [Keys -> SegmentKey] : D = db[s]
  <2>1. NoItems[s] \in [Keys -> SegmentKey]
    BY ServingAssumption DEF NoItems, Unknown, SegmentKey
  <2> QED
    BY <2>1 DEF Typed, StoreTyped
<1>1. /\ items'[s] = D /\ segmentsTill'[s] = -1 /\ sync'[s].pc = "idle"
      /\ restarts' = restarts + 1 /\ UNCHANGED <<log, file>> /\ Len(log[s]) \in Nat
  BY <1>0, ChangedIs DEF Restart, Open, NoSync, Typed
<1>2. restarts' # 0
  BY <1>1 DEF Typed, SdkTyped
<1>3. CoversItself(s, D)
  <2>1. CASE db = file
    BY <1>0, <2>1 DEF ItemExact
  <2>2. CASE db = NoItems
    <3>1. \A j \in Keys : D[j].cn = 0
      BY <1>0, <2>2 DEF NoItems, Unknown
    <3>2. \A j, k \in Keys : ~Settled(s, k, D[j].cn)
      BY <3>1, ChangedIs DEF Settled, Typed
    <3> QED
      BY <1>1, <3>1, <3>2 DEF CoversItself, Covers
  <2> QED
    BY <2>1, <2>2
<1>4. CoversItself(s, items[s])' /\ CoversItself(s, file[s])'
  BY <1>1, <1>3 DEF ItemExact, CoversItself, Covers, Settled, Active, Changed
<1>5. \A k \in Keys : Bounded(s, items[s][k].cn)'
  BY <1>1, <1>3 DEF CoversItself, Bounded
<1>6. Covers(s, items[s], segmentsTill[s])'
  <2>1. \A k \in Keys : Changed(s, k)' = Changed(s, k) /\ Changed(s, k) \in Int
    BY <1>1, ChangedIs DEF Changed, Typed
  <2> QED
    BY <1>1, <2>1 DEF Covers, Settled
<1> QED
  BY <1>2, <1>4, <1>5, <1>6 DEF ItemExact

LEMMA ItemStep ==
    ASSUME Typed, StoreInv, [Next]_vars, NEW s \in Segments, ItemExact(s)
    PROVE  ItemExact(s)'
<1>1. CASE \E db : (db = NoItems \/ db = file) /\ Restart(db)
  BY <1>1, ItemRestarted
<1>2. CASE ~\E db : (db = NoItems \/ db = file) /\ Restart(db)
  <2>1. restarts' = restarts
    BY <1>2 DEF Next, SynchronizeSegment, Publish, FetchSegment, WriteMySegments, WriteItem, EvictSegment,
       Hit, Handle, Respond, Export, RestartBlank, RestartFromFile, vars
  <2>2. Steady(s) /\ Past(s)
    BY <2>1, SteadyStep, PastStep
  <2>3. CASE WriteItem(s)
    BY <2>3, ItemWritten
  <2>4. CASE ~WriteItem(s)
    <3>1. items'[s] = items[s] /\ segmentsTill'[s] = segmentsTill[s]
      <4>1. ASSUME NEW z \in Segments, z # s, WriteItem(z) PROVE items'[s] = items[s] /\ segmentsTill'[s] = segmentsTill[s]
        BY <4>1 DEF WriteItem, UpdateItem, Typed, StoreTyped, ItemsTyped
      <4> QED
        BY <1>2, <2>4, <4>1 DEF Next, SynchronizeSegment, Publish, FetchSegment, WriteMySegments,
           EvictSegment, Hit, Handle, Respond, Export, RestartBlank, RestartFromFile, vars, storageVars
    <3>2. file'[s] = file[s] \/ file'[s] = items[s]
      BY <1>2 DEF Next, SynchronizeSegment, Publish, FetchSegment, WriteMySegments, WriteItem,
         EvictSegment, Hit, Handle, Respond, Export, RestartBlank, RestartFromFile, vars
    <3> QED
      BY <2>2, <3>1, <3>2, ItemStays
  <2> QED
    BY <2>3, <2>4
<1> QED
  BY <1>1, <1>2

\* A restart finds the SDK right without an exception, if there was none before.
LEMMA SdkRestarted ==
    ASSUME Typed, NEW s \in Segments, SdkExact(s), NEW db, Restart(db), MaxRestarts <= 1
    PROVE  SdkExact(s)'
<1>1. restarts = 0 /\ restarts' = 1
  BY ServingAssumption DEF Restart, Typed, SdkTyped
<1>2. /\ segmentsTill'[s] = -1 /\ sync'[s].pc = "idle" /\ UNCHANGED <<log, since, view>>
  BY DEF Restart, Open, NoSync, sdkVars
<1>3. \A k \in Keys : ~Forgotten(s, k)
  BY <1>1 DEF Forgotten
<1>4. \A k \in Keys : /\ Settled(s, k, since[s])' <=> Settled(s, k, since[s])
                      /\ Active(s, k)' <=> Active(s, k)
  BY <1>2 DEF Settled, Active, Changed
<1>5. Bounded(s, since[s])'
  BY <1>2 DEF SdkExact, Bounded
<1> QED
  BY <1>1, <1>2, <1>3, <1>4, <1>5 DEF SdkExact

\* An answer that is there before and after a step of the process.
LEMMA AnswerStays ==
    ASSUME Typed, NEW e \in Entry, AnswerExact(e), \A s \in Segments : Steady(s)
    PROVE  AnswerExact(e)'
<1> SUFFICES ASSUME e.req.kind = "segmentChanges" PROVE AnswerExact(e)'
  BY DEF AnswerExact
<1>1. PICK s \in Segments, u \in -1..MaxCN, b \in SegmentChangesBody :
         s = e.req.name /\ u = e.req.since /\ b = e.body
  BY EntryIs
<1>2. BodyExact(s, u, b)
  BY <1>1 DEF AnswerExact
<1>3. BodyExact(s, u, b)'
  BY <1>2, BodyStays
<1> QED
  BY <1>1, <1>3 DEF AnswerExact

LEMMA UpdateStep ==
    ASSUME MaxRestarts <= 1, Typed, StoreInv, UpdateInv, [Next]_vars
    PROVE  UpdateInv'
<1>0. /\ \A s \in Segments : ItemExact(s) /\ SdkExact(s)
      /\ \A s \in Segments : ItemExact(s)'
      /\ cache \subseteq Entry /\ (flight # NoFlight => Filed \in Entry)
  BY ItemStep DEF UpdateInv, Typed, CacheTyped, FlightTyped
<1>1. ASSUME NEW db, Restart(db) PROVE UpdateInv'
  <2>1. AnswersExact'
    BY <1>1 DEF Restart, AnswersExact
  <2> QED
    BY <1>0, <1>1, <2>1, SdkRestarted DEF UpdateInv
<1>2. CASE ~\E db : Restart(db)
  <2>1. restarts' = restarts
    BY <1>2 DEF Next, SynchronizeSegment, Publish, FetchSegment, WriteMySegments, WriteItem, EvictSegment,
       Hit, Handle, Respond, Export, RestartBlank, RestartFromFile, vars
  <2>2. \A s \in Segments : Steady(s)
    BY <2>1, SteadyStep
  <2>3. \A e \in Entry : AnswerExact(e) => AnswerExact(e)'
    BY <2>2, AnswerStays
  <2>4. \A e \in cache : AnswerExact(e)'
    BY <1>0, <2>3 DEF UpdateInv, AnswersExact
  <2>5. flight # NoFlight => AnswerExact(Filed) /\ (flight.own => flight.req = PollOf(flight.req.name))
    BY DEF UpdateInv, AnswersExact
  <2>6. ASSUME flight # NoFlight, flight'.req = flight.req, flight'.body = flight.body
        PROVE  AnswerExact(Filed)'
    <3>1. PICK e \in Entry : e = Filed
      BY <1>0, <2>6
    <3>2. AnswerExact(e)'
      BY <2>3, <2>5, <2>6, <3>1
    <3>3. e.req = Filed'.req /\ e.body = Filed'.body
      BY <2>6, <3>1 DEF Filed
    <3> QED
      BY <3>2, <3>3 DEF AnswerExact
  <2>7. ASSUME cache' \subseteq cache, UNCHANGED sdkVars,
               \/ flight' = NoFlight
               \/ /\ flight # NoFlight /\ flight'.own = flight.own
                  /\ flight'.req = flight.req /\ flight'.body = flight.body
        PROVE  UpdateInv'
    <3>1. \A s \in Segments : SdkExact(s)'
      BY <1>0, <2>2, <2>7, SdkStays DEF sdkVars
    <3>2. ASSUME flight' # NoFlight
          PROVE  AnswerExact(Filed)' /\ (flight'.own => flight'.req = PollOf(flight.req.name)')
      BY <2>5, <2>6, <2>7, <3>2 DEF PollOf, sdkVars
    <3>3. AnswersExact'
      BY <2>4, <2>7, <3>2 DEF AnswersExact
    <3> QED
      BY <1>0, <3>1, <3>3 DEF UpdateInv
  <2>8. CASE UNCHANGED <<cache, flight, sdkVars>>
    BY <2>7, <2>8
  <2>9. ASSUME NEW s \in Segments, EvictSegment(s) PROVE UpdateInv'
    <3>1. cache' \subseteq cache /\ UNCHANGED sdkVars
          /\ (flight' = flight \/ (flight # NoFlight /\ flight' = [flight EXCEPT !.late = TRUE]))
      BY <2>9 DEF EvictSegment
    <3>2. flight # NoFlight => flight = [req |-> flight.req, body |-> flight.body,
                                         late |-> flight.late, own |-> flight.own]
      BY DEF Typed, FlightTyped
    <3> QED
      BY <2>7, <3>1, <3>2
  <2>10. ASSUME NEW s \in Segments, NEW b \in SegmentChangesBody, BodyExact(s, since[s], b), Receive(s, b),
                UNCHANGED <<log, storageVars, sync, restarts>>, NEW z \in Segments
         PROVE  SdkExact(z)'
    <3>1. CASE z = s
      BY <1>0, <2>10, <3>1, SdkReceives
    <3>2. CASE z # s
      BY <1>0, <2>2, <2>10, <3>2, SdkStays DEF Receive, Typed, SdkTyped
    <3> QED
      BY <3>1, <3>2
  <2>11. ASSUME NEW s \in Segments, Hit(s) PROVE UpdateInv'
    <3>1. PICK e \in cache : e.req = PollOf(s) /\ Receive(s, e.body)
      BY <2>11 DEF Hit
    <3>2. e.body \in SegmentChangesBody /\ BodyExact(s, since[s], e.body)
      BY <1>0, <3>1, EntryIs, PollTyped DEF UpdateInv, AnswersExact, AnswerExact, Typed
    <3>3. UNCHANGED <<log, storageVars, sync, restarts, cache, flight>>
          /\ ~(flight.own /\ flight.req.name = s)
      BY <2>11 DEF Hit
    <3>4. \A z \in Segments : SdkExact(z)'
      BY <2>10, <3>1, <3>2, <3>3
    <3>5. ASSUME flight # NoFlight, flight.own PROVE flight.req = PollOf(flight.req.name)'
      <4>1. flight.req = PollOf(flight.req.name) /\ flight.req.name # s
        BY <2>5, <3>3, <3>5
      <4>2. flight.req.name \in Segments
        BY <1>0, <3>5, EntryIs DEF Typed, FlightTyped, Filed
      <4>3. since'[flight.req.name] = since[flight.req.name]
        BY <3>1, <4>1, <4>2 DEF Receive, Typed, SdkTyped
      <4> QED
        BY <3>3, <4>1, <4>3 DEF PollOf
    <3>6. AnswersExact'
      BY <2>4, <2>6, <3>3, <3>5 DEF AnswersExact
    <3> QED
      BY <1>0, <3>4, <3>6 DEF UpdateInv
  <2>12. ASSUME NEW r \in Request, NEW own \in BOOLEAN, Handle(r, own), own => r = PollOf(r.name)
         PROVE  UpdateInv'
    <3>1. /\ flight' = [req |-> r, body |-> Answer(r), late |-> FALSE, own |-> own]
          /\ UNCHANGED <<cache, sdkVars>>
      BY <2>12 DEF Handle
    <3>2. PICK e \in Entry : e.req = r /\ e.body = Answer(r)
      BY AnswerTyped DEF Typed
    <3>3. AnswerExact(e)
      <4> SUFFICES ASSUME r.kind = "segmentChanges" PROVE BodyExact(r.name, r.since, Answer(r))
        BY <3>2 DEF AnswerExact
      <4>1. r.name \in Segments /\ r.since \in -1..MaxCN
        BY <3>2, EntryIs
      <4> QED
        BY <1>0, <4>1, AnswerIsExact DEF Answer
    <3>4. AnswerExact(e)' /\ Filed'.req = e.req /\ Filed'.body = e.body
      BY <2>3, <3>1, <3>2, <3>3 DEF Filed
    <3>5. AnswerExact(Filed)'
      BY <3>4 DEF AnswerExact
    <3>6. own => flight'.req = PollOf(flight.req.name)'
      BY <2>12, <3>1 DEF PollOf, sdkVars
    <3>7. AnswersExact'
      BY <2>4, <3>1, <3>5, <3>6 DEF AnswersExact
    <3>8. \A s \in Segments : SdkExact(s)'
      BY <1>0, <2>2, <3>1, SdkStays DEF sdkVars
    <3> QED
      BY <1>0, <3>7, <3>8 DEF UpdateInv
  <2>13. CASE Respond
    <3>1. flight # NoFlight /\ cache' \in Stored(cache, Filed) /\ flight' = NoFlight
          /\ UNCHANGED <<log, storageVars, sync, restarts>>
      BY <2>13 DEF Respond, Filed
    <3>2. cache' \subseteq cache \cup {Filed}
      BY <1>0, <3>1, StoredIs DEF Typed
    <3>3. \A e \in cache' : AnswerExact(e)'
      <4> TAKE e \in cache'
      <4>1. e \in Entry /\ AnswerExact(e)
        BY <1>0, <2>5, <3>1, <3>2 DEF UpdateInv, AnswersExact
      <4> QED
        BY <2>3, <4>1
    <3>4. AnswersExact'
      BY <3>1, <3>3 DEF AnswersExact
    <3>5. \A s \in Segments : SdkExact(s)'
      <4>1. CASE flight.own
        <5>1. /\ flight.req = PollOf(flight.req.name) /\ flight.req.kind = "segmentChanges"
              /\ Receive(flight.req.name, flight.body)
          BY <2>5, <2>13, <3>1, <4>1 DEF Respond, Typed, FlightTyped
        <5>2. Filed.req = flight.req /\ Filed.body = flight.body
          BY DEF Filed
        <5>3. flight.req.name \in Segments /\ flight.body \in SegmentChangesBody
          BY <1>0, <3>1, <5>1, <5>2, EntryIs
        <5>4. BodyExact(flight.req.name, since[flight.req.name], flight.body)
          BY <2>5, <3>1, <5>1, <5>2, <5>3, PollTyped DEF AnswerExact, Typed
        <5> QED
          BY <2>10, <3>1, <5>1, <5>3, <5>4
      <4>2. CASE ~flight.own
        BY <1>0, <2>2, <2>13, <4>2, SdkStays DEF Respond, sdkVars
      <4> QED
        BY <4>1, <4>2
    <3> QED
      BY <1>0, <3>4, <3>5 DEF UpdateInv
  <2>14. ASSUME NEW s \in Segments, Handle(PollOf(s), TRUE) PROVE UpdateInv'
    BY <2>12, <2>14, PollTyped DEF Typed
  <2>15. ASSUME NEW r \in Request, Handle(r, FALSE) PROVE UpdateInv'
    BY <2>12, <2>15
  <2>16. CASE UNCHANGED vars
    BY <2>8, <2>16 DEF vars
  <2>17. ASSUME Next, \A s \in Segments : ~EvictSegment(s) /\ ~Hit(s) /\ ~Handle(PollOf(s), TRUE),
                \A r \in Request : ~Handle(r, FALSE), ~Respond
         PROVE  UNCHANGED <<cache, flight, sdkVars>>
    BY <1>2, <2>17 DEF Next, SynchronizeSegment, Publish, FetchSegment, WriteMySegments, WriteItem,
       Export, RestartBlank, RestartFromFile
  <2> QED
    BY <2>8, <2>9, <2>11, <2>13, <2>14, <2>15, <2>16, <2>17
<1> QED
  BY <1>1, <1>2

\* A server-side SDK that follows /segmentChanges misses no change of a segment at or
\* below its change number, through updates, evictions, answers filed late and one
\* restart of the proxy, with an empty database or from a snapshot; only a key that
\* left while no process was there to see it may stay with it.
THEOREM NoUpdateIsLost == ASSUME MaxRestarts <= 1 PROVE Spec => []NoLostUpdate
<1>1. Init => UpdateInv
  <2> SUFFICES ASSUME Init PROVE UpdateInv
    OBVIOUS
  <2>1. \A s \in Segments, k \in Keys : Len(log[s]) = 0 /\ Changed(s, k) = 0
    BY TypedInit, ChangedIs DEF Init, Typed
  <2>2. /\ \A s \in Segments : ItemExact(s)
        /\ \A s \in Segments : SdkExact(s)
    BY <2>1 DEF Init, ItemExact, SdkExact, CoversItself, Covers, Exact, Settled, Bounded, NoItems, NoSync, Unknown
  <2>3. AnswersExact
    BY DEF Init, AnswersExact
  <2> QED
    BY <2>2, <2>3 DEF UpdateInv
<1>2. UpdateInv => NoLostUpdate
  BY DEF UpdateInv, SdkExact, NoLostUpdate, Settled, Active
<1>3. Init => StoreInv
  BY DEF Init, StoreInv, StoreExact, SyncExact, StoresAgree, ItemKept, Live, NoItems, NoSync, Unknown
<1>4. Typed /\ StoreInv /\ UpdateInv /\ [Next]_vars => UpdateInv'
  BY UpdateStep
<1> QED
  BY <1>1, <1>2, <1>3, <1>4, TypedInit, TypedStep, StoreStep, PTL DEF Spec
=============================================================================
