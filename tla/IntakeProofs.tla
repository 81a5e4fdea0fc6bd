--------------------------- MODULE IntakeProofs ----------------------------
(***************************************************************************)
(* Theorems about what SDKs post to the proxy, for any number of bulks,    *)
(* workers and attempts and any size of the queues, and about the slices   *)
(* in which the proxy counts their requests.                               *)
(***************************************************************************)
EXTENDS Intake, EndpointMetrics, FiniteSetTheorems, WellFoundedInduction, TLAPS

-----------------------------------------------------------------------------
(* Sequences as queues                                                     *)

\* Append adds one element.
LEMMA RanOfAppend ==
    ASSUME NEW S, NEW s \in Seq(S), NEW x \in S
    PROVE  Ran(Append(s, x)) = Ran(s) \cup {x}
<1>1. Len(Append(s, x)) = Len(s) + 1 /\ Append(s, x)[Len(s) + 1] = x
  OBVIOUS
<1>2. \A i \in 1..Len(s) : Append(s, x)[i] = s[i]
  OBVIOUS
<1>3. Len(s) \in Nat /\ 1..(Len(s) + 1) = 1..Len(s) \cup {Len(s) + 1}
  OBVIOUS
<1> QED
  BY <1>1, <1>2, <1>3 DEF Ran

\* Appending what was not there keeps the elements distinct.
LEMMA DistinctAppend ==
    ASSUME NEW S, NEW s \in Seq(S), NEW x \in S, Distinct(s), x \notin Ran(s)
    PROVE  Distinct(Append(s, x))
<1>1. Len(Append(s, x)) = Len(s) + 1 /\ Append(s, x)[Len(s) + 1] = x /\ Len(s) \in Nat
  OBVIOUS
<1>2. \A i \in 1..Len(s) : Append(s, x)[i] = s[i] /\ s[i] # x
  BY DEF Ran
<1> QED
  BY <1>1, <1>2 DEF Distinct

\* The head of a queue without repetition leaves it for good.
LEMMA RanOfTail ==
    ASSUME NEW S, NEW s \in Seq(S), s # <<>>, Distinct(s)
    PROVE  /\ Head(s) \in Ran(s) /\ Head(s) \in S
           /\ Tail(s) \in Seq(S) /\ Len(Tail(s)) = Len(s) - 1
           /\ Ran(Tail(s)) = Ran(s) \ {Head(s)}
           /\ Distinct(Tail(s))
<1>1. Len(s) \in Nat \ {0} /\ Head(s) = s[1]
  OBVIOUS
<1>2. Tail(s) \in Seq(S) /\ Len(Tail(s)) = Len(s) - 1
  OBVIOUS
<1>3. \A i \in 1..(Len(s) - 1) : Tail(s)[i] = s[i + 1]
  OBVIOUS
<1>4. Distinct(Tail(s))
  BY <1>1, <1>2, <1>3 DEF Distinct
<1>5. ASSUME NEW y \in Ran(s) \ {s[1]} PROVE y \in Ran(Tail(s))
  <2>1. PICK i \in 1..Len(s) : s[i] = y
    BY DEF Ran
  <2>2. i - 1 \in 1..(Len(s) - 1) /\ Tail(s)[i - 1] = y
    BY <1>1, <1>3, <2>1
  <2> QED
    BY <1>2, <2>2 DEF Ran
<1>6. ASSUME NEW y \in Ran(Tail(s)) PROVE y \in Ran(s) \ {s[1]}
  <2>1. PICK i \in 1..(Len(s) - 1) : Tail(s)[i] = y
    BY <1>2 DEF Ran
  <2>2. i + 1 \in 1..Len(s) /\ s[i + 1] = y /\ 1 \in 1..Len(s) /\ i + 1 # 1
    BY <1>1, <1>3, <2>1
  <2> QED
    BY <2>2 DEF Ran, Distinct
<1>7. s[1] \in Ran(s) /\ s[1] \in S
  BY <1>1 DEF Ran
<1> QED
  BY <1>1, <1>2, <1>4, <1>5, <1>6, <1>7

\* A sequence without repetition has as many elements as places.
LEMMA CardinalityOfRan ==
    ASSUME NEW S, NEW s \in Seq(S), Distinct(s)
    PROVE  IsFiniteSet(Ran(s)) /\ Cardinality(Ran(s)) = Len(s)
<1> DEFINE f == [i \in 1..Len(s) |-> s[i]]
<1>1. Len(s) \in Nat
  OBVIOUS
<1>2. f \in Bijection(1..Len(s), Ran(s))
  BY DEF Bijection, Injection, IsInjective, Surjection, Ran, Distinct
<1>3. ExistsBijection(1..Len(s), Ran(s))
  BY <1>2 DEF ExistsBijection
<1> QED
  BY <1>1, <1>3, FS_NatBijection, FS_CountingElements

-----------------------------------------------------------------------------
(* Deferred recording                                                      *)

\* As long as it was never crowded, no more is under way than one queue holds.
CrowdIsCounted == UnderWay > QueueSize => crowded

RecordingInv == RecordingTypeOK /\ InOnePlace /\ DropNeedsCrowd /\ CrowdIsCounted

\* Bulks that were accepted keep their order when another one is.
LEMMA BeforeAppend ==
    ASSUME accepted \in Seq(Bulks), NEW b \in Bulks, accepted' = Append(accepted, b)
    PROVE  /\ \A x, y : Before(x, y) => Before(x, y)'
           /\ \A x \in Ran(accepted) : Before(x, b)'
<1>1. Len(accepted) \in Nat /\ Len(accepted') = Len(accepted) + 1 /\ accepted'[Len(accepted) + 1] = b
  OBVIOUS
<1>2. \A i \in 1..Len(accepted) : accepted'[i] = accepted[i]
  OBVIOUS
<1>3. ASSUME NEW x, NEW y, Before(x, y) PROVE Before(x, y)'
  <2>1. PICK i, j \in 1..Len(accepted) : i < j /\ accepted[i] = x /\ accepted[j] = y
    BY <1>3 DEF Before
  <2>2. i \in 1..Len(accepted') /\ j \in 1..Len(accepted')
    BY <1>1
  <2> QED
    BY <1>2, <2>1, <2>2 DEF Before
<1>4. ASSUME NEW x \in Ran(accepted) PROVE Before(x, b)'
  <2>1. PICK i \in 1..Len(accepted) : accepted[i] = x
    BY DEF Ran
  <2>2. i \in 1..Len(accepted') /\ Len(accepted) + 1 \in 1..Len(accepted') /\ i < Len(accepted) + 1
    BY <1>1
  <2> QED
    BY <1>1, <1>2, <2>1, <2>2 DEF Before
<1> QED
  BY <1>3, <1>4

\* A queue keeps its order without its head, and with a new last element.
LEMMA OrderedTail ==
    ASSUME NEW s \in Seq(Bulks), s # <<>>, Ordered(s)
    PROVE  /\ Ordered(Tail(s))
           /\ \A y \in Ran(Tail(s)) : Before(Head(s), y)
<1>1. Len(s) \in Nat \ {0} /\ Head(s) = s[1] /\ Len(Tail(s)) = Len(s) - 1
  OBVIOUS
<1>2. \A i \in 1..(Len(s) - 1) : Tail(s)[i] = s[i + 1] /\ i + 1 \in 1..Len(s) /\ 1 < i + 1
  BY <1>1
<1>3. Ordered(Tail(s))
  BY <1>1, <1>2 DEF Ordered
<1>4. ASSUME NEW y \in Ran(Tail(s)) PROVE Before(Head(s), y)
  <2>1. PICK i \in 1..(Len(s) - 1) : Tail(s)[i] = y
    BY <1>1 DEF Ran
  <2> QED
    BY <1>1, <1>2, <2>1 DEF Ordered
<1> QED
  BY <1>3, <1>4

\* A new last element that comes after all the others keeps the order.
LEMMA OrderedAppend ==
    ASSUME NEW s \in Seq(Bulks), NEW b \in Bulks, Ordered(s), \A x \in Ran(s) : Before(x, b)
    PROVE  Ordered(Append(s, b))
<1>1. Len(s) \in Nat /\ Len(Append(s, b)) = Len(s) + 1 /\ Append(s, b)[Len(s) + 1] = b
  OBVIOUS
<1>2. \A i \in 1..Len(s) : Append(s, b)[i] = s[i] /\ s[i] \in Ran(s)
  BY DEF Ran
<1> QED
  BY <1>1, <1>2 DEF Ordered

\* What is under way is finite, and counting less of it does not make it more.
LEMMA CountKept ==
    ASSUME RecordingInv, accepted' = accepted, Settled \subseteq Settled', crowded' = crowded
    PROVE  CrowdIsCounted'
<1> DEFINE A == Ran(accepted) \ Settled
           B == Ran(accepted') \ Settled'
<1>1. IsFiniteSet(Ran(accepted))
  BY CardinalityOfRan DEF RecordingInv, RecordingTypeOK, InOnePlace
<1>2. A \subseteq Ran(accepted) /\ B \subseteq A
  OBVIOUS
<1>3. IsFiniteSet(A)
  BY <1>1, <1>2, FS_Subset
<1>4. Cardinality(B) <= Cardinality(A) /\ Cardinality(A) \in Nat /\ Cardinality(B) \in Nat
  BY <1>2, <1>3, FS_Subset, FS_CardinalityType
<1> QED
  BY <1>4, RecordingAssumption DEF RecordingInv, CrowdIsCounted, UnderWay

\* The queue is empty at first.
LEMMA RecordingInitInv == RecordingInit => RecordingInv
<1> SUFFICES ASSUME RecordingInit PROVE RecordingInv
  OBVIOUS
<1> USE RecordingAssumption DEF RecordingInit
<1>1. Ran(queue) = {} /\ Ran(pool) = {} /\ Ran(accepted) = {} /\ Held = {} /\ Posting = {} /\ Settled = {}
  BY DEF Ran, Held, Posting, Settled
<1>2. RecordingTypeOK
  <2>1. queue \in Seq(Bulks) /\ pool \in Seq(Bulks) /\ accepted \in Seq(Bulks)
    OBVIOUS
  <2>2. Len(queue) = 0 /\ Len(pool) = 0 /\ 0 <= QueueSize
    OBVIOUS
  <2>3. worker \in [Workers -> Bulks \cup {Nothing}]
    OBVIOUS
  <2> QED
    BY <2>1, <2>2, <2>3 DEF RecordingTypeOK
<1>3. InOnePlace
  BY <1>1 DEF InOnePlace, Distinct, Ordered
<1>4. DropNeedsCrowd /\ CrowdIsCounted
  BY <1>1, FS_EmptySet DEF DropNeedsCrowd, CrowdIsCounted, UnderWay
<1> QED
  BY <1>2, <1>3, <1>4 DEF RecordingInv

\* A bulk that was not accepted before is staged (deferred.go, Stage).
LEMMA StageKeepsInv ==
    ASSUME RecordingInv, NEW b \in Bulks, b \notin Ran(accepted), Stage(b)
    PROVE  RecordingInv'
<1> USE DEF RecordingInv
<1> USE RecordingAssumption
<1>1. queue \in Seq(Bulks) /\ accepted \in Seq(Bulks)
  BY DEF RecordingTypeOK
<1>2. queue' = Append(queue, b) /\ accepted' = Append(accepted, b) /\ Len(queue) < QueueSize
  BY DEF Stage, Full, RecordingTypeOK
<1>3. /\ pool' = pool /\ Held' = Held /\ Posting' = Posting /\ Settled' = Settled
      /\ sent' = sent /\ dropped' = dropped /\ worker' = worker
  BY DEF Stage, Held, Posting, Settled
<1>4. Ran(queue') = Ran(queue) \cup {b} /\ Ran(accepted') = Ran(accepted) \cup {b}
  BY <1>1, <1>2, RanOfAppend
<1>5. RecordingTypeOK'
  BY <1>1, <1>2 DEF Stage, RecordingTypeOK
<1>6. b \notin Ran(queue) \cup Held \cup Ran(pool) \cup Posting \cup Settled
  BY DEF InOnePlace
<1>7. Distinct(queue)' /\ Distinct(accepted)' /\ Distinct(pool)'
  BY <1>1, <1>2, <1>3, <1>6, DistinctAppend DEF InOnePlace
<1>8. /\ \A x, y : Before(x, y) => Before(x, y)'
      /\ \A x \in Ran(accepted) : Before(x, b)'
  BY <1>1, <1>2, BeforeAppend
<1>9. Ordered(pool)'
  BY <1>3, <1>8 DEF InOnePlace, Ordered
<1>10. Ordered(queue)'
  <2>1. /\ Len(queue) \in Nat /\ Len(queue') = Len(queue) + 1 /\ queue'[Len(queue) + 1] = b
        /\ \A i \in 1..Len(queue) : queue'[i] = queue[i] /\ queue[i] \in Ran(queue)
    BY <1>1, <1>2 DEF Ran
  <2>2. Ran(queue) \subseteq Ran(accepted)
    BY DEF InOnePlace
  <2> QED
    BY <1>8, <2>1, <2>2 DEF InOnePlace, Ordered
<1>11. InOnePlace'
  BY <1>3, <1>4, <1>6, <1>7, <1>8, <1>9, <1>10 DEF InOnePlace
<1>12. CrowdIsCounted' /\ DropNeedsCrowd'
  <2> DEFINE A == Ran(accepted) \ Settled
  <2>1. IsFiniteSet(A)
    <3>1. IsFiniteSet(Ran(accepted)) /\ A \subseteq Ran(accepted)
      BY <1>1, CardinalityOfRan DEF InOnePlace
    <3> QED
      BY <3>1, FS_Subset
  <2>2. Ran(accepted') \ Settled' = A \cup {b} /\ b \notin A
    BY <1>3, <1>4, <1>6
  <2>3. UnderWay' = UnderWay + 1 /\ UnderWay \in Nat
    BY <2>1, <2>2, FS_AddElement, FS_CardinalityType DEF UnderWay
  <2>4. (UnderWay >= QueueSize => crowded') /\ (crowded => crowded')
    BY DEF Stage
  <2>5. CrowdIsCounted'
    BY <2>3, <2>4 DEF CrowdIsCounted
  <2>6. DropNeedsCrowd'
    BY <1>3, <2>4 DEF DropNeedsCrowd
  <2> QED
    BY <2>5, <2>6
<1> QED
  BY <1>5, <1>11, <1>12

\* No bulk moves while the task begins, ends or is woken (deferred.go).
LEMMA NothingMoves ==
    ASSUME RecordingInv, task' \in {"idle", "draining", "stopped"}, wakeup' \in BOOLEAN,
           UNCHANGED <<queue, pool, worker, held, accepted, sent, dropped, crowded>>
    PROVE  RecordingInv'
<1> USE DEF RecordingInv
<1>1. RecordingTypeOK'
  BY DEF RecordingTypeOK
<1>2. \A x, y : Before(x, y)' <=> Before(x, y)
  BY DEF Before
<1>3. Held' = Held /\ Posting' = Posting /\ Settled' = Settled
  BY DEF Held, Posting, Settled
<1>4. /\ Distinct(queue)' /\ Distinct(pool)' /\ Distinct(accepted)'
      /\ Ordered(queue)' /\ Ordered(pool)'
  BY <1>2 DEF InOnePlace, Ordered
<1>5. InOnePlace'
  BY <1>2, <1>3, <1>4 DEF InOnePlace
<1>6. DropNeedsCrowd' /\ CrowdIsCounted'
  BY <1>3, CountKept DEF DropNeedsCrowd
<1> QED
  BY <1>1, <1>5, <1>6

\* A bulk goes from the queue to the hand of the task.
LEMMA TakeKeepsInv ==
    ASSUME RecordingInv, Take
    PROVE  RecordingInv'
<1> USE RecordingAssumption DEF RecordingInv
<1> DEFINE b == Head(queue)
<1>1. /\ queue \in Seq(Bulks) /\ queue # <<>> /\ held = Nothing /\ Distinct(queue) /\ Ordered(queue)
      /\ held' = b /\ queue' = Tail(queue)
  BY DEF Take, RecordingTypeOK, InOnePlace
<1>2. UNCHANGED <<pool, worker, accepted, sent, dropped, crowded>>
  BY DEF Take
<1>3. /\ b \in Ran(queue) /\ b \in Bulks
      /\ Tail(queue) \in Seq(Bulks) /\ Len(Tail(queue)) = Len(queue) - 1
      /\ Ran(Tail(queue)) = Ran(queue) \ {b} /\ Distinct(Tail(queue))
  BY <1>1, RanOfTail
<1>4. Ordered(Tail(queue)) /\ \A y \in Ran(Tail(queue)) : Before(b, y)
  BY <1>1, OrderedTail
<1>5. RecordingTypeOK'
  BY <1>1, <1>3 DEF RecordingTypeOK, Take
<1>6. Held = {} /\ Held' = {b} /\ Ran(queue') = Ran(queue) \ {b}
  BY <1>1, <1>3 DEF Held
<1>7. Ran(pool)' = Ran(pool) /\ Ran(accepted)' = Ran(accepted) /\ Posting' = Posting /\ Settled' = Settled
  BY <1>2 DEF Posting, Settled
<1>8. \A x, y : Before(x, y)' <=> Before(x, y)
  BY <1>2 DEF Before
<1>9. Distinct(queue)' /\ Distinct(pool)' /\ Distinct(accepted)'
  BY <1>1, <1>2, <1>3 DEF InOnePlace
<1>10. Ordered(queue)' /\ Ordered(pool)'
  BY <1>1, <1>2, <1>4, <1>8 DEF InOnePlace, Ordered
<1>11. InOnePlace'
  BY <1>1, <1>2, <1>3, <1>4, <1>6, <1>7, <1>8, <1>9, <1>10 DEF InOnePlace
<1>12. DropNeedsCrowd' /\ CrowdIsCounted'
  BY <1>2, <1>7, CountKept DEF DropNeedsCrowd
<1> QED
  BY <1>5, <1>11, <1>12

\* A bulk goes from the hand of the task to the pool.
LEMMA HandOverKeepsInv ==
    ASSUME RecordingInv, held # Nothing, held' = Nothing, Len(pool) < QueueSize,
           pool' = Append(pool, held),
           UNCHANGED <<queue, worker, task, wakeup, accepted, sent, dropped, crowded>>
    PROVE  RecordingInv'
<1> USE RecordingAssumption DEF RecordingInv
<1>1. pool \in Seq(Bulks) /\ held \in Bulks /\ Held = {held} /\ Held' = {}
  BY DEF RecordingTypeOK, Held
<1>2. Ran(pool') = Ran(pool) \cup {held} /\ held \notin Ran(pool)
  BY <1>1, RanOfAppend DEF InOnePlace
<1>3. Ran(queue)' = Ran(queue) /\ Ran(accepted)' = Ran(accepted) /\ Posting' = Posting /\ Settled' = Settled
  BY DEF Posting, Settled
<1>4. \A x, y : Before(x, y)' <=> Before(x, y)
  BY DEF Before
<1>5. RecordingTypeOK'
  BY <1>1 DEF RecordingTypeOK
<1>6. Distinct(queue)' /\ Distinct(pool)' /\ Distinct(accepted)'
  BY <1>1, <1>2, DistinctAppend DEF InOnePlace
<1>7. Ordered(Append(pool, held))
  BY <1>1, OrderedAppend DEF InOnePlace
<1>8. Ordered(queue)' /\ Ordered(pool)'
  BY <1>4, <1>7 DEF InOnePlace, Ordered
<1>9. InOnePlace'
  BY <1>1, <1>2, <1>3, <1>4, <1>6, <1>8 DEF InOnePlace
<1>10. DropNeedsCrowd' /\ CrowdIsCounted'
  BY <1>3, CountKept DEF DropNeedsCrowd
<1> QED
  BY <1>5, <1>9, <1>10

\* A bulk is lost when the pool is full: with it, more were under way than the pool
\* holds.
LEMMA DropKeepsInv ==
    ASSUME RecordingInv, held # Nothing, held' = Nothing, Len(pool) = QueueSize,
           dropped' = dropped \cup {held},
           UNCHANGED <<queue, pool, worker, task, wakeup, accepted, sent, crowded>>
    PROVE  RecordingInv'
<1> USE RecordingAssumption DEF RecordingInv
<1>1. pool \in Seq(Bulks) /\ accepted \in Seq(Bulks) /\ held \in Bulks /\ Held = {held} /\ Held' = {}
  BY DEF RecordingTypeOK, Held
<1>2. /\ Ran(queue)' = Ran(queue) /\ Ran(accepted)' = Ran(accepted) /\ Ran(pool)' = Ran(pool)
      /\ Posting' = Posting /\ Settled' = Settled \cup {held}
  BY DEF Posting, Settled
<1>3. \A x, y : Before(x, y)' <=> Before(x, y)
  BY DEF Before
<1>4. RecordingTypeOK'
  BY <1>1 DEF RecordingTypeOK
<1>5. /\ Distinct(queue)' /\ Distinct(pool)' /\ Distinct(accepted)'
      /\ Ordered(queue)' /\ Ordered(pool)'
  BY <1>3 DEF InOnePlace, Ordered
<1>6. sent' \cap dropped' = {}
  BY <1>1 DEF InOnePlace, Settled
<1>7. InOnePlace'
  BY <1>1, <1>2, <1>3, <1>5, <1>6 DEF InOnePlace
<1>8. crowded
  <2> DEFINE A == Ran(accepted) \ Settled
             B == Ran(pool) \cup {held}
  <2>1. B \subseteq A
    BY <1>1 DEF InOnePlace
  <2>2. IsFiniteSet(Ran(accepted)) /\ A \subseteq Ran(accepted)
    BY <1>1, CardinalityOfRan DEF InOnePlace
  <2>3. IsFiniteSet(A)
    BY <2>2, FS_Subset
  <2>4. IsFiniteSet(Ran(pool)) /\ Cardinality(Ran(pool)) = QueueSize /\ held \notin Ran(pool)
    BY <1>1, CardinalityOfRan DEF InOnePlace
  <2>5. IsFiniteSet(B) /\ Cardinality(B) = QueueSize + 1
    BY <2>4, FS_AddElement
  <2>6. Cardinality(B) <= Cardinality(A) /\ Cardinality(A) \in Nat
    BY <2>1, <2>3, FS_Subset, FS_CardinalityType
  <2> QED
    BY <2>5, <2>6 DEF CrowdIsCounted, UnderWay
<1>9. DropNeedsCrowd' /\ CrowdIsCounted'
  BY <1>2, <1>8 DEF DropNeedsCrowd, CrowdIsCounted
<1> QED
  BY <1>4, <1>7, <1>9

\* A worker takes a bulk from the pool.
LEMMA WorkerTakeKeepsInv ==
    ASSUME RecordingInv, NEW w \in Workers, WorkerTake(w)
    PROVE  RecordingInv'
<1> USE RecordingAssumption DEF RecordingInv
<1> DEFINE b == Head(pool)
<1>1. /\ pool \in Seq(Bulks) /\ pool # <<>> /\ Distinct(pool) /\ Ordered(pool)
      /\ worker \in [Workers -> Bulks \cup {Nothing}] /\ worker[w] = Nothing
      /\ pool' = Tail(pool) /\ worker' = [worker EXCEPT ![w] = b]
  BY DEF WorkerTake, RecordingTypeOK, InOnePlace
<1>2. UNCHANGED <<queue, held, accepted, sent, dropped, crowded>>
  BY DEF WorkerTake
<1>3. /\ b \in Ran(pool) /\ b \in Bulks
      /\ Tail(pool) \in Seq(Bulks) /\ Len(Tail(pool)) = Len(pool) - 1
      /\ Ran(Tail(pool)) = Ran(pool) \ {b} /\ Distinct(Tail(pool))
  BY <1>1, RanOfTail
<1>4. Ordered(Tail(pool))
  BY <1>1, OrderedTail
<1>5. RecordingTypeOK'
  BY <1>1, <1>3 DEF RecordingTypeOK, WorkerTake
<1>6. b \notin Posting
  BY <1>3 DEF InOnePlace
<1>7. Posting' = Posting \cup {b}
  <2>1. b \in Posting'
    BY <1>1, <1>3 DEF Posting
  <2>2. \A v \in Workers \ {w} : worker'[v] = worker[v]
    BY <1>1
  <2>3. worker'[w] = b /\ b # Nothing
    BY <1>1, <1>3
  <2> QED
    BY <1>1, <2>1, <2>2, <2>3 DEF Posting
<1>8. \A u, v \in Workers : worker'[u] = worker'[v] => u = v \/ worker'[u] = Nothing
  <2>1. \A v \in Workers : worker[v] # b
    BY <1>3, <1>6 DEF Posting
  <2> QED
    BY <1>1, <2>1 DEF InOnePlace
<1>9. /\ Ran(pool') = Ran(pool) \ {b} /\ Ran(queue)' = Ran(queue) /\ Ran(accepted)' = Ran(accepted)
      /\ Held' = Held /\ Settled' = Settled
  BY <1>1, <1>2, <1>3 DEF Held, Settled
<1>10. \A x, y : Before(x, y)' <=> Before(x, y)
  BY <1>2 DEF Before
<1>11. /\ Distinct(queue)' /\ Distinct(pool)' /\ Distinct(accepted)'
       /\ Ordered(queue)' /\ Ordered(pool)'
  BY <1>1, <1>2, <1>3, <1>4, <1>10 DEF InOnePlace, Ordered
<1>12. /\ Ran(accepted') = Ran(queue') \cup Held' \cup Ran(pool') \cup Posting' \cup Settled'
       /\ Ran(queue') \cap (Held' \cup Ran(pool') \cup Posting' \cup Settled') = {}
       /\ Held' \cap (Ran(pool') \cup Posting' \cup Settled') = {}
       /\ Ran(pool') \cap (Posting' \cup Settled') = {}
       /\ Posting' \cap Settled' = {} /\ sent' \cap dropped' = {}
  BY <1>2, <1>3, <1>7, <1>9 DEF InOnePlace
<1>13. /\ \A x \in Ran(pool'), y \in Held' \cup Ran(queue') : Before(x, y)'
       /\ \A x \in Held', y \in Ran(queue') : Before(x, y)'
  BY <1>9, <1>10 DEF InOnePlace
<1>14. InOnePlace'
  BY <1>8, <1>11, <1>12, <1>13 DEF InOnePlace
<1>15. DropNeedsCrowd' /\ CrowdIsCounted'
  BY <1>2, <1>9, CountKept DEF DropNeedsCrowd
<1> QED
  BY <1>5, <1>14, <1>15

\* A worker has posted a bulk.
LEMMA DoWorkKeepsInv ==
    ASSUME RecordingInv, NEW w \in Workers, DoWork(w)
    PROVE  RecordingInv'
<1> USE RecordingAssumption DEF RecordingInv
<1> DEFINE b == worker[w]
<1>1. /\ worker \in [Workers -> Bulks \cup {Nothing}] /\ b # Nothing /\ b \in Bulks
      /\ worker' = [worker EXCEPT ![w] = Nothing] /\ sent' = sent \cup {b}
  BY DEF DoWork, RecordingTypeOK
<1>2. UNCHANGED <<queue, pool, held, accepted, dropped, crowded>>
  BY DEF DoWork
<1>3. RecordingTypeOK'
  BY <1>1 DEF RecordingTypeOK, DoWork
<1>4. b \in Posting
  BY <1>1 DEF Posting
<1>5. Posting' = Posting \ {b}
  <2>1. \A v \in Workers \ {w} : worker'[v] = worker[v] /\ worker[v] # b
    BY <1>1 DEF InOnePlace
  <2>2. worker'[w] = Nothing
    BY <1>1
  <2> QED
    BY <1>1, <2>1, <2>2 DEF Posting
<1>6. \A u, v \in Workers : worker'[u] = worker'[v] => u = v \/ worker'[u] = Nothing
  BY <1>1 DEF InOnePlace
<1>7. Settled' = Settled \cup {b} /\ Held' = Held
  BY <1>1, <1>2 DEF Settled, Held
<1>8. \A x, y : Before(x, y)' <=> Before(x, y)
  BY <1>2 DEF Before
<1>9. /\ Distinct(queue)' /\ Distinct(pool)' /\ Distinct(accepted)'
      /\ Ordered(queue)' /\ Ordered(pool)'
  BY <1>2, <1>8 DEF InOnePlace, Ordered
<1>10. sent' \cap dropped' = {}
  BY <1>1, <1>2, <1>4 DEF InOnePlace, Settled
<1>11. /\ Ran(accepted') = Ran(queue') \cup Held' \cup Ran(pool') \cup Posting' \cup Settled'
       /\ Ran(queue') \cap (Held' \cup Ran(pool') \cup Posting' \cup Settled') = {}
       /\ Held' \cap (Ran(pool') \cup Posting' \cup Settled') = {}
       /\ Ran(pool') \cap (Posting' \cup Settled') = {}
       /\ Posting' \cap Settled' = {}
  BY <1>2, <1>4, <1>5, <1>7 DEF InOnePlace
<1>12. /\ \A x \in Ran(pool'), y \in Held' \cup Ran(queue') : Before(x, y)'
       /\ \A x \in Held', y \in Ran(queue') : Before(x, y)'
  BY <1>2, <1>7, <1>8 DEF InOnePlace
<1>13. InOnePlace'
  BY <1>6, <1>9, <1>10, <1>11, <1>12 DEF InOnePlace
<1>14. DropNeedsCrowd' /\ CrowdIsCounted'
  BY <1>2, <1>7, CountKept DEF DropNeedsCrowd
<1> QED
  BY <1>3, <1>13, <1>14

\* Whatever the task and the workers do.
LEMMA RecordingKeepsInv ==
    ASSUME RecordingInv, Recording \/ StopTask
    PROVE  RecordingInv' /\ accepted' = accepted
<1>1. CASE Flush \/ FlushDone \/ StopTask
  <2>1. task' \in {"idle", "draining", "stopped"} /\ wakeup' \in BOOLEAN
    BY <1>1 DEF Flush, FlushDone, StopTask, RecordingInv, RecordingTypeOK
  <2>2. UNCHANGED <<queue, pool, worker, held, accepted, sent, dropped, crowded>>
    BY <1>1 DEF Flush, FlushDone, StopTask
  <2> QED
    BY <2>1, <2>2, NothingMoves
<1>2. CASE Take
  BY <1>2, TakeKeepsInv DEF Take
<1>3. CASE HandOver
  BY <1>3, HandOverKeepsInv, DropKeepsInv DEF HandOver
<1>4. ASSUME NEW w \in Workers, WorkerTake(w) PROVE RecordingInv' /\ accepted' = accepted
  BY <1>4, WorkerTakeKeepsInv DEF WorkerTake
<1>5. ASSUME NEW w \in Workers, DoWork(w) PROVE RecordingInv' /\ accepted' = accepted
  BY <1>5, DoWorkKeepsInv DEF DoWork
<1> QED
  BY <1>1, <1>2, <1>3, <1>4, <1>5 DEF Recording

-----------------------------------------------------------------------------
(* The endpoints                                                           *)

IntakeInv ==
    /\ RecordingInv
    /\ answer \in [Bulks -> {"none", "ok", "refused", "error"}]
    /\ AnswersAreTrue

\* A request stages a bulk that was not, and is told so, or nothing is staged.
LEMMA RequestKeepsInv ==
    ASSUME IntakeInv, NEW b \in Bulks, Request(b)
    PROVE  IntakeInv'
<1>1. answer[b] \in {"none", "error"} /\ b \notin Ran(accepted)
  BY DEF Request, IntakeInv, AnswersAreTrue
<1>2. \/ Stage(b) /\ Answer(b, "ok")
      \/ (Answer(b, "refused") \/ Answer(b, "error")) /\ UNCHANGED recordingVars
  BY DEF Request, Regular, Beacon, StageOrFail
<1>3. CASE Stage(b) /\ Answer(b, "ok")
  <2>1. RecordingInv'
    BY <1>1, <1>3, StageKeepsInv DEF IntakeInv
  <2>2. accepted \in Seq(Bulks) /\ accepted' = Append(accepted, b)
    BY <1>3 DEF Stage, IntakeInv, RecordingInv, RecordingTypeOK
  <2>3. Ran(accepted') = Ran(accepted) \cup {b}
    BY <2>2, RanOfAppend
  <2> QED
    BY <1>3, <2>1, <2>3 DEF IntakeInv, Answer, AnswersAreTrue
<1>4. CASE (Answer(b, "refused") \/ Answer(b, "error")) /\ UNCHANGED recordingVars
  <2>1. RecordingInv'
    BY <1>4, NothingMoves DEF IntakeInv, recordingVars, RecordingInv, RecordingTypeOK
  <2>2. Ran(accepted') = Ran(accepted)
    BY <1>4 DEF recordingVars
  <2> QED
    BY <1>1, <1>4, <2>1, <2>2 DEF IntakeInv, Answer, AnswersAreTrue
<1> QED
  BY <1>2, <1>3, <1>4

\* The inductive invariant of the endpoints and what they stage bulks in.
LEMMA IntakeInvariant == Spec => []IntakeInv
<1>1. Init => IntakeInv
  <2> SUFFICES ASSUME Init PROVE IntakeInv
    OBVIOUS
  <2>1. RecordingInv /\ Ran(accepted) = {}
    BY RecordingInitInv DEF Init, RecordingInit, Ran
  <2> QED
    BY <2>1 DEF Init, IntakeInv, AnswersAreTrue
<1>2. IntakeInv /\ [Next]_vars => IntakeInv'
  <2> SUFFICES ASSUME IntakeInv, [Next]_vars PROVE IntakeInv'
    OBVIOUS
  <2>1. CASE \E b \in Bulks : Request(b)
    BY <2>1, RequestKeepsInv
  <2>2. CASE Defer
    <3>1. RecordingInv' /\ accepted' = accepted /\ answer' = answer
      BY <2>2, RecordingKeepsInv DEF Defer, IntakeInv, intakeVars
    <3> QED
      BY <3>1 DEF IntakeInv, AnswersAreTrue
  <2>3. CASE UNCHANGED recordingVars /\ answer' = answer
    <3>1. RecordingInv'
      BY <2>3, NothingMoves DEF IntakeInv, recordingVars, RecordingInv, RecordingTypeOK
    <3> QED
      BY <2>3, <3>1 DEF IntakeInv, AnswersAreTrue, recordingVars
  <2>4. CASE \E b \in Bulks : SubmitToListener(b)
    BY <2>3, <2>4 DEF SubmitToListener
  <2>5. CASE Listen
    BY <2>3, <2>5 DEF Listen, intakeVars
  <2>6. CASE UNCHANGED vars
    BY <2>3, <2>6 DEF vars, intakeVars
  <2> QED
    BY <2>1, <2>2, <2>4, <2>5, <2>6 DEF Next
<1> QED
  BY <1>1, <1>2, PTL DEF Spec

\* A bulk the proxy has said yes to is in one place, and what is under way keeps
\* its order (deferred.go).
THEOREM BulksInOnePlace == Spec => []InOnePlace
<1>1. IntakeInv => InOnePlace
  BY DEF IntakeInv, RecordingInv
<1> QED
  BY <1>1, IntakeInvariant, PTL

\* Nothing is dropped between the two queues while what is under way would fit
\* into one (deferred.go:59).
THEOREM DropsNeedACrowd == Spec => []DropNeedsCrowd
<1>1. IntakeInv => DropNeedsCrowd
  BY DEF IntakeInv, RecordingInv
<1> QED
  BY <1>1, IntakeInvariant, PTL

\* An SDK is told that its bulk was taken exactly when it was (events.go).
THEOREM SdksAreToldTheTruth == Spec => []AnswersAreTrue
<1>1. IntakeInv => AnswersAreTrue
  BY DEF IntakeInv
<1> QED
  BY <1>1, IntakeInvariant, PTL

\* The copies of a bulk in a queue.
Copies(s, b) == {i \in 1..Len(s) : s[i] = b}

\* One more copy of a bulk that is queued...
LEMMA CopiesOfAppend ==
    ASSUME NEW s \in Seq(Bulks), NEW c \in Bulks, NEW b \in Bulks
    PROVE  /\ IsFiniteSet(Copies(s, b)) /\ Cardinality(Copies(s, b)) \in Nat
           /\ Cardinality(Copies(Append(s, c), b)) = Cardinality(Copies(s, b)) + (IF c = b THEN 1 ELSE 0)
<1>1. Len(s) \in Nat /\ Len(Append(s, c)) = Len(s) + 1 /\ Append(s, c)[Len(s) + 1] = c
      /\ \A i \in 1..Len(s) : Append(s, c)[i] = s[i]
  OBVIOUS
<1>2. IsFiniteSet(Copies(s, b)) /\ Cardinality(Copies(s, b)) \in Nat /\ Len(s) + 1 \notin Copies(s, b)
  <2>1. IsFiniteSet(1..Len(s))
    BY <1>1, FS_Interval
  <2>2. Copies(s, b) \subseteq 1..Len(s)
    BY DEF Copies
  <2> QED
    BY <1>1, <2>1, <2>2, FS_Subset, FS_CardinalityType
<1>3. Copies(Append(s, c), b) = IF c = b THEN Copies(s, b) \cup {Len(s) + 1} ELSE Copies(s, b)
  <2>1. 1..(Len(s) + 1) = 1..Len(s) \cup {Len(s) + 1}
    BY <1>1
  <2> QED
    BY <1>1, <2>1 DEF Copies
<1>4. Cardinality(Copies(s, b) \cup {Len(s) + 1}) = Cardinality(Copies(s, b)) + 1
  BY <1>2, FS_AddElement
<1> QED
  BY <1>2, <1>3, <1>4

\* ...and one less when it leaves the queue.
LEMMA CopiesOfTail ==
    ASSUME NEW s \in Seq(Bulks), s # <<>>, NEW b \in Bulks
    PROVE  Cardinality(Copies(s, b)) = Cardinality(Copies(Tail(s), b)) + (IF Head(s) = b THEN 1 ELSE 0)
<1>1. /\ Len(s) \in Nat \ {0} /\ Head(s) = s[1] /\ Tail(s) \in Seq(Bulks) /\ Len(Tail(s)) = Len(s) - 1
      /\ \A i \in 1..(Len(s) - 1) : Tail(s)[i] = s[i + 1]
  OBVIOUS
<1> DEFINE A == Copies(Tail(s), b)
           B == Copies(s, b) \ {1}
           f == [i \in A |-> i + 1]
<1>2. A \subseteq 1..(Len(s) - 1) /\ Copies(s, b) \subseteq 1..Len(s)
  BY <1>1 DEF Copies
<1>3. \A i \in A : i + 1 \in B
  BY <1>1 DEF Copies
<1>4. \A j \in B : j - 1 \in A /\ (j - 1) + 1 = j
  BY <1>1 DEF Copies
<1>5. IsFiniteSet(A) /\ IsFiniteSet(Copies(s, b)) /\ IsFiniteSet(B)
  <2>1. IsFiniteSet(1..Len(s)) /\ IsFiniteSet(1..(Len(s) - 1))
    BY <1>1, FS_Interval
  <2> QED
    BY <1>2, <2>1, FS_Subset
<1>6. Cardinality(A) = Cardinality(B)
  <2>1. \A i, j \in A : i + 1 = j + 1 => i = j
    BY <1>2
  <2>2. f \in [A -> B] /\ (\A i \in A : f[i] = i + 1) /\ \A j \in B : \E i \in A : f[i] = j
    BY <1>3, <1>4
  <2> HIDE DEF A, B, f
  <2>3. f \in Bijection(A, B)
    BY <2>1, <2>2 DEF Bijection, Injection, Surjection, IsInjective
  <2>4. ExistsBijection(A, B)
    BY <2>3 DEF ExistsBijection
  <2> QED
    BY <1>5, <2>4, FS_Bijection
<1>7. 1 \in Copies(s, b) <=> Head(s) = b
  BY <1>1 DEF Copies
<1>8. CASE Head(s) = b
  <2>1. Cardinality(B) = Cardinality(Copies(s, b)) - 1 /\ Cardinality(Copies(s, b)) \in Nat
    BY <1>5, <1>7, <1>8, FS_RemoveElement, FS_CardinalityType
  <2> QED
    BY <1>6, <1>8, <2>1
<1>9. CASE Head(s) # b
  <2>1. B = Copies(s, b)
    BY <1>7, <1>9
  <2>2. Cardinality(Copies(s, b)) = Cardinality(Copies(Tail(s), b)) /\ Cardinality(Copies(Tail(s), b)) \in Nat
    BY <1>5, <1>6, <2>1, FS_CardinalityType
  <2> QED
    BY <1>9, <2>2
<1> QED
  BY <1>8, <1>9

\* Where the attempts to post a bulk have gone: heard of, with a goroutine, in the queue
\* or with the listener.
Attempts(b) == heard[b] + forwarding[b] + Cardinality(Copies(bulks, b)) + (IF posting = b THEN 1 ELSE 0)

HeardInv ==
    /\ Listener!ListenerTypeOK
    /\ tries \in [Bulks -> 0..MaxTries] /\ forwarding \in [Bulks -> Nat]
    /\ \A b \in Bulks : Attempts(b) <= tries[b]

\* An SDK posts a bulk, and a goroutine is begun for it or is not.
LEMMA RequestKeepsHeard ==
    ASSUME HeardInv, NEW b \in Bulks, Request(b)
    PROVE  HeardInv'
<1> USE DEF HeardInv
<1>1. /\ UNCHANGED listenerVars /\ tries[b] < MaxTries /\ tries' = [tries EXCEPT ![b] = @ + 1]
      /\ forwarding' = forwarding \/ forwarding' = [forwarding EXCEPT ![b] = @ + 1]
  <2>1. tries[b] < MaxTries
    BY IntakeAssumption DEF Request
  <2> QED
    BY <2>1 DEF Request, Regular, Beacon
<1>2. bulks' = bulks /\ posting' = posting /\ heard' = heard /\ Listener!ListenerTypeOK'
  BY <1>1 DEF listenerVars, Listener!ListenerTypeOK
<1>3. tries' \in [Bulks -> 0..MaxTries] /\ forwarding' \in [Bulks -> Nat]
  BY <1>1, IntakeAssumption
<1>4. ASSUME NEW c \in Bulks PROVE Attempts(c)' <= tries'[c]
  <2>1. heard[c] \in Nat /\ Cardinality(Copies(bulks, c)) \in Nat /\ forwarding[c] \in Nat /\ tries[c] \in Nat
    BY CopiesOfAppend DEF Listener!ListenerTypeOK
  <2>2. Attempts(c) <= tries[c]
    OBVIOUS
  <2>3. Copies(bulks, c)' = Copies(bulks, c)
    BY <1>2 DEF Copies
  <2>4. CASE c = b
    <3>1. tries'[c] = tries[c] + 1 /\ forwarding'[c] \in {forwarding[c], forwarding[c] + 1}
      BY <1>1, <2>4
    <3> QED
      BY <1>2, <2>1, <2>2, <2>3, <3>1 DEF Attempts
  <2>5. CASE c # b
    <3>1. tries'[c] = tries[c] /\ forwarding'[c] = forwarding[c]
      BY <1>1, <2>5
    <3> QED
      BY <1>2, <2>1, <2>2, <2>3, <3>1 DEF Attempts
  <2> QED
    BY <2>4, <2>5
<1> QED
  BY <1>2, <1>3, <1>4

\* The goroutine submits it, and the queue takes it or does not.
LEMMA SubmitKeepsHeard ==
    ASSUME HeardInv, NEW b \in Bulks, SubmitToListener(b)
    PROVE  HeardInv'
<1> USE DEF HeardInv
<1>1. /\ forwarding[b] > 0 /\ forwarding' = [forwarding EXCEPT ![b] = @ - 1] /\ tries' = tries
      /\ status' = status /\ posting' = posting /\ heard' = heard
      /\ bulks' = bulks \/ (Len(bulks) < ListenerQueueSize /\ bulks' = Append(bulks, b))
  BY DEF SubmitToListener, Listener!Submit, listenerVars
<1>2. bulks \in Seq(Bulks) /\ Len(bulks) <= ListenerQueueSize /\ Len(bulks) \in Nat
  BY DEF Listener!ListenerTypeOK
<1>3. bulks' \in Seq(Bulks) /\ Len(bulks') <= ListenerQueueSize
  <2>1. Append(bulks, b) \in Seq(Bulks) /\ Len(Append(bulks, b)) = Len(bulks) + 1 /\ ListenerQueueSize \in Nat
    BY <1>2, IntakeAssumption
  <2>2. CASE bulks' = bulks
    BY <1>2, <2>2
  <2>3. CASE Len(bulks) < ListenerQueueSize /\ bulks' = Append(bulks, b)
    <3>1. Len(bulks') = Len(Append(bulks, b)) /\ bulks' \in Seq(Bulks)
      BY <2>1, <2>3
    <3> QED
      BY <1>2, <2>1, <2>3, <3>1
  <2> QED
    BY <1>1, <2>2, <2>3
<1>4. Listener!ListenerTypeOK' /\ forwarding' \in [Bulks -> Nat] /\ tries' \in [Bulks -> 0..MaxTries]
  BY <1>1, <1>3 DEF Listener!ListenerTypeOK
<1>5. ASSUME NEW c \in Bulks PROVE Attempts(c)' <= tries'[c]
  <2>1. heard[c] \in Nat /\ forwarding[c] \in Nat /\ tries[c] \in Nat
    BY DEF Listener!ListenerTypeOK
  <2>2. Attempts(c) <= tries[c] /\ Cardinality(Copies(bulks, c)) \in Nat
    BY <1>2, CopiesOfAppend
  <2>3. Cardinality(Copies(bulks, c)') <= Cardinality(Copies(bulks, c)) + (IF b = c THEN 1 ELSE 0)
        /\ Cardinality(Copies(bulks, c)') \in Nat
    <3>1. CASE bulks' = bulks
      <4>1. Copies(bulks, c)' = Copies(bulks, c)
        BY <3>1 DEF Copies
      <4> QED
        BY <2>2, <4>1
    <3>2. CASE bulks' = Append(bulks, b)
      <4>1. Copies(bulks, c)' = Copies(Append(bulks, b), c)
        BY <3>2 DEF Copies
      <4> QED
        BY <1>2, <2>2, <4>1, CopiesOfAppend
    <3> QED
      BY <1>1, <3>1, <3>2
  <2>4. forwarding'[c] = IF c = b THEN forwarding[c] - 1 ELSE forwarding[c]
    BY <1>1
  <2> QED
    BY <1>1, <2>1, <2>2, <2>3, <2>4 DEF Attempts
<1> QED
  BY <1>4, <1>5

\* The listener takes a bulk from the queue, and posts it once.
LEMMA ListenKeepsHeard ==
    ASSUME HeardInv, Listen
    PROVE  HeardInv'
<1> USE DEF HeardInv
<1>1. tries' = tries /\ forwarding' = forwarding
  BY DEF Listen, intakeVars
<1>2. /\ bulks \in Seq(Bulks) /\ Len(bulks) <= ListenerQueueSize /\ Len(bulks) \in Nat /\ Nothing \notin Bulks
      /\ \A c \in Bulks : /\ heard[c] \in Nat /\ forwarding[c] \in Nat /\ tries[c] \in Nat
                          /\ Cardinality(Copies(bulks, c)) \in Nat /\ Attempts(c) <= tries[c]
  BY CopiesOfAppend, RecordingAssumption DEF Listener!ListenerTypeOK
<1>3. CASE UNCHANGED <<bulks, posting, heard>> /\ status' \in {"idle", "starting", "running", "stopping", "stopped"}
  BY <1>1, <1>3 DEF Listener!ListenerTypeOK, Attempts, Copies
<1>4. CASE Listener!TakeBulk
  <2>1. posting = Nothing /\ bulks # <<>> /\ posting' = Head(bulks) /\ bulks' = Tail(bulks) /\ status' = status /\ heard' = heard
    BY <1>4 DEF Listener!TakeBulk
  <2>2. Head(bulks) \in Bulks /\ Tail(bulks) \in Seq(Bulks) /\ Len(Tail(bulks)) <= ListenerQueueSize
    BY <1>2, <2>1, IntakeAssumption
  <2>3. Listener!ListenerTypeOK'
    BY <2>1, <2>2 DEF Listener!ListenerTypeOK
  <2>4. ASSUME NEW c \in Bulks PROVE Attempts(c)' <= tries'[c]
    <3>1. Copies(bulks, c)' = Copies(Tail(bulks), c)
      BY <2>1 DEF Copies
    <3>2. Cardinality(Copies(bulks, c)) = Cardinality(Copies(Tail(bulks), c)) + (IF Head(bulks) = c THEN 1 ELSE 0)
      BY <1>2, <2>1, CopiesOfTail
    <3>3. Cardinality(Copies(Tail(bulks), c)) \in Nat
      BY <2>2, CopiesOfAppend
    <3>4. posting # c
      BY <1>2, <2>1
    <3> QED
      BY <1>1, <1>2, <2>1, <3>1, <3>2, <3>3, <3>4 DEF Attempts
  <2> QED
    BY <1>1, <2>3, <2>4
<1>5. CASE Listener!Post
  <2>1. posting # Nothing /\ heard' = [heard EXCEPT ![posting] = @ + 1] /\ posting' = Nothing /\ status' = status /\ bulks' = bulks
    BY <1>5 DEF Listener!Post
  <2>2. posting \in Bulks /\ heard \in [Bulks -> Nat]
    BY <2>1 DEF Listener!ListenerTypeOK
  <2>3. Listener!ListenerTypeOK'
    BY <2>1, <2>2 DEF Listener!ListenerTypeOK
  <2>4. ASSUME NEW c \in Bulks PROVE Attempts(c)' <= tries'[c]
    <3>1. Copies(bulks, c)' = Copies(bulks, c)
      BY <2>1 DEF Copies
    <3>2. heard'[c] = (IF posting = c THEN heard[c] + 1 ELSE heard[c]) /\ posting' # c
      BY <1>2, <2>1, <2>2
    <3> QED
      BY <1>1, <1>2, <2>1, <3>1, <3>2 DEF Attempts
  <2> QED
    BY <1>1, <2>3, <2>4
<1>6. \/ Listener!TakeBulk \/ Listener!Post
      \/ UNCHANGED <<bulks, posting, heard>> /\ status' \in {"idle", "starting", "running", "stopping", "stopped"}
  BY DEF Listen, Listener!Start, Listener!Stop, Listener!Listening, Listener!Started, Listener!Leave
<1> QED
  BY <1>3, <1>4, <1>5, <1>6

\* The user's endpoint hears of a bulk at most once for each time an SDK posted it: what it
\* heard of, what is queued and what goroutines are about to submit are never more together
\* (events.go:79, listener.go), for any number of attempts and any size of the queues.
THEOREM ListenerHearsNoMore == Spec => []HeardWithinTries
<1>1. Init => HeardInv
  <2> SUFFICES ASSUME Init PROVE HeardInv
    OBVIOUS
  <2> USE DEF Init, Listener!ListenerInit
  <2>1. Listener!ListenerTypeOK /\ tries \in [Bulks -> 0..MaxTries] /\ forwarding \in [Bulks -> Nat]
    BY IntakeAssumption DEF Listener!ListenerTypeOK
  <2>2. ASSUME NEW b \in Bulks PROVE Attempts(b) <= tries[b]
    <3>1. Copies(bulks, b) = {} /\ posting # b
      BY RecordingAssumption DEF Copies
    <3>2. Cardinality(Copies(bulks, b)) = 0
      BY <3>1, FS_EmptySet
    <3>3. heard[b] = 0 /\ forwarding[b] = 0 /\ tries[b] = 0
      OBVIOUS
    <3> QED
      BY <3>1, <3>2, <3>3 DEF Attempts
  <2> QED
    BY <2>1, <2>2 DEF HeardInv
<1>2. HeardInv /\ [Next]_vars => HeardInv'
  <2> SUFFICES ASSUME HeardInv, [Next]_vars PROVE HeardInv'
    OBVIOUS
  <2>1. ASSUME UNCHANGED <<status, bulks, posting, heard, tries, forwarding>> PROVE HeardInv'
    BY <2>1 DEF HeardInv, Listener!ListenerTypeOK, Attempts, Copies
  <2>2. CASE Defer \/ UNCHANGED vars
    BY <2>1, <2>2 DEF Defer, vars, listenerVars, intakeVars
  <2> QED
    BY <2>2, RequestKeepsHeard, SubmitKeepsHeard, ListenKeepsHeard DEF Next
<1>3. IntakeInv /\ HeardInv => HeardWithinTries
  <2> SUFFICES ASSUME IntakeInv, HeardInv PROVE HeardWithinTries
    OBVIOUS
  <2>1. ASSUME NEW b \in Bulks PROVE forwarding[b] \in 0..MaxTries
    <3>1. /\ heard[b] \in Nat /\ Cardinality(Copies(bulks, b)) \in Nat /\ forwarding[b] \in Nat /\ tries[b] \in 0..MaxTries
          /\ Attempts(b) <= tries[b]
      BY CopiesOfAppend DEF HeardInv, Listener!ListenerTypeOK
    <3> QED
      BY <3>1, IntakeAssumption DEF Attempts
  <2>2. TypeOK
    BY <2>1 DEF TypeOK, IntakeInv, RecordingInv, HeardInv
  <2>3. \A b \in Bulks : Attempts(b) <= tries[b]
    BY DEF HeardInv
  <2> QED
    BY <2>2, <2>3 DEF HeardWithinTries, Attempts, Copies
<1> QED
  BY <1>1, <1>2, <1>3, IntakeInvariant, PTL DEF Spec

-----------------------------------------------------------------------------
(* EndpointMetrics                                                         *)

\* A set of naturals has a first element.
LEMMA FirstOf ==
    ASSUME NEW S \in SUBSET Nat, S # {}
    PROVE  \E k \in S : \A j \in S : k <= j
<1> DEFINE R == {u \in Nat \X Nat : u[1] < u[2]}
<1>1. IsWellFoundedOn(R, Nat)
  <2>1. R = OpToRel(<, Nat)
    BY DEF OpToRel
  <2> QED
    BY <2>1, NatLessThanWellFounded
<1>2. PICK k \in S : \A j \in S : ~(<<j, k>> \in R)
  <2> HIDE DEF R
  <2> QED
    BY <1>1, WFMin
<1>3. ASSUME NEW j \in S PROVE k <= j
  <2>1. j \in Nat /\ k \in Nat
    OBVIOUS
  <2>2. ~(<<j, k>> \in R)
    BY <1>2
  <2>3. ~(j < k)
    BY <2>1, <2>2
  <2> QED
    BY <2>1, <2>3
<1> QED
  BY <1>3

\* A set of times has a last element.
LEMMA LastTime ==
    ASSUME NEW S \in SUBSET Times, S # {}
    PROVE  \E k \in S : \A j \in S : j <= k
<1> DEFINE T == {MaxTime - k : k \in S}
<1>1. MaxTime \in Nat /\ \A k \in S : k \in Nat /\ k <= MaxTime
  BY MetricsAssumption DEF Times
<1>2. T \in SUBSET Nat /\ T # {}
  BY <1>1
<1>3. PICK t \in T : \A u \in T : t <= u
  <2> HIDE DEF T
  <2> QED
    BY <1>2, FirstOf
<1>4. PICK k \in S : t = MaxTime - k
  OBVIOUS
<1>5. ASSUME NEW j \in S PROVE j <= k
  <2>1. t <= MaxTime - j
    BY <1>3
  <2> QED
    BY <1>1, <1>4, <2>1
<1> QED
  BY <1>5

\* There are finitely many times.
LEMMA TimesAreFinite == IsFiniteSet(Times)
<1>1. 0 \in Int /\ MaxTime \in Int
  BY MetricsAssumption
<1> QED
  BY <1>1, FS_Interval DEF Times

\* The keys above one of them.
Above(keys, k) == {j \in keys : j > k}

\* The rollover keeps the newest slices, as many as there may be, and all of them if
\* they are fewer (telemetryts.go, unsafeRollover).
LEMMA KeptAreNewest ==
    ASSUME NEW keys \in SUBSET Times
    PROVE  /\ Kept(keys) \subseteq keys
           /\ Cardinality(Kept(keys)) <= MaxSlices
           /\ \A j \in keys \ Kept(keys), k \in Kept(keys) : j < k
           /\ Cardinality(Kept(keys)) < MaxSlices => Kept(keys) = keys
<1> USE MetricsAssumption
<1>1. IsFiniteSet(keys)
  BY TimesAreFinite, FS_Subset
<1>2. \A k \in keys : k \in Nat
  BY DEF Times
<1>3. ASSUME NEW S \in SUBSET keys PROVE IsFiniteSet(S) /\ Cardinality(S) \in Nat
  BY <1>1, FS_Subset, FS_CardinalityType
<1>4. Kept(keys) = {k \in keys : Cardinality(Above(keys, k)) < MaxSlices}
  BY DEF Kept, Above
<1>5. Kept(keys) \subseteq keys
  BY <1>4
<1>6. ASSUME NEW j \in keys \ Kept(keys), NEW k \in Kept(keys) PROVE j < k
  <2>0. j \in Nat /\ k \in Nat
    BY <1>2, <1>5
  <2> SUFFICES ASSUME k <= j PROVE FALSE
    BY <2>0
  <2>1. Above(keys, j) \subseteq Above(keys, k) /\ Above(keys, k) \subseteq keys
    <3>1. ASSUME NEW i \in keys, i > j PROVE i > k
      BY <1>2, <2>0, <3>1
    <3> QED
      BY <3>1 DEF Above
  <2>2. Cardinality(Above(keys, j)) <= Cardinality(Above(keys, k))
    BY <1>3, <2>1, FS_Subset
  <2>3. Cardinality(Above(keys, k)) < MaxSlices
    BY <1>4
  <2>4. Cardinality(Above(keys, j)) < MaxSlices
    BY <1>3, <2>1, <2>2, <2>3
  <2> QED
    BY <1>4, <2>4
<1>7. Cardinality(Kept(keys)) <= MaxSlices
  <2>1. CASE Kept(keys) = {}
    BY <2>1, FS_EmptySet
  <2>2. CASE Kept(keys) # {}
    <3>1. PICK k \in Kept(keys) : \A j \in Kept(keys) : k <= j
      BY <1>2, <1>5, <2>2, FirstOf
    <3>2. Kept(keys) \ {k} \subseteq Above(keys, k) /\ Above(keys, k) \subseteq keys
      <4>1. ASSUME NEW j \in Kept(keys) \ {k} PROVE j \in keys /\ j > k
        <5>1. j \in Nat /\ k \in Nat /\ k <= j /\ j # k
          BY <1>2, <1>5, <3>1
        <5> QED
          BY <1>5, <5>1
      <4> QED
        BY <4>1 DEF Above
    <3>3. Cardinality(Kept(keys) \ {k}) <= Cardinality(Above(keys, k))
      BY <1>3, <3>2, FS_Subset
    <3>4. Cardinality(Kept(keys) \ {k}) = Cardinality(Kept(keys)) - 1
      BY <1>3, <1>5, FS_RemoveElement
    <3>5. Cardinality(Above(keys, k)) < MaxSlices
      BY <1>4
    <3>6. Cardinality(Above(keys, k)) \in Nat /\ Cardinality(Kept(keys)) \in Nat
      BY <1>3, <1>5, <3>2
    <3> QED
      BY <3>3, <3>4, <3>5, <3>6
  <2> QED
    BY <2>1, <2>2
<1>8. ASSUME Cardinality(Kept(keys)) < MaxSlices, Kept(keys) # keys PROVE FALSE
  <2>1. keys \ Kept(keys) \in SUBSET Times /\ keys \ Kept(keys) # {}
    BY <1>5, <1>8
  <2>2. PICK k \in keys \ Kept(keys) : \A j \in keys \ Kept(keys) : j <= k
    BY <2>1, LastTime
  <2>3. ASSUME NEW j \in Above(keys, k) PROVE j \in Kept(keys)
    <3>1. j \in keys /\ j > k /\ j \in Nat /\ k \in Nat
      BY <1>2 DEF Above
    <3>2. ~(j <= k)
      BY <3>1
    <3> QED
      BY <2>2, <3>1, <3>2
  <2>4. Cardinality(Above(keys, k)) <= Cardinality(Kept(keys))
    BY <1>3, <1>5, <2>3, FS_Subset
  <2>5. Cardinality(Above(keys, k)) < MaxSlices
    BY <1>3, <1>5, <1>8, <2>3, <2>4
  <2> QED
    BY <1>4, <2>2, <2>5
<1> QED
  BY <1>5, <1>6, <1>7, <1>8

\* What is counted was asked for, and so was a slice that is about to be counted in; a
\* slice that was handed out and dropped does not come back, because newer ones are kept.
MetricsInv ==
    /\ SlicesAreSound
    /\ \A x \in counted : x.slice \in seen
    /\ \A r \in Requests : track[r].at = "put" =>
          /\ track[r].slice \in seen
          /\ ~track[r].kept => track[r].slice \notin slices

\* Where a request may be.
TrackType == [at : {"handler", "clock", "slice", "put", "done"}, kind : Kinds,
              endpoint : Endpoints, slice : Times, kept : BOOLEAN]

\* No slice exists at first.
LEMMA MetricsInitInv == MetricsInit => MetricsInv
<1> SUFFICES ASSUME MetricsInit PROVE MetricsInv
  OBVIOUS
<1> USE MetricsAssumption DEF MetricsInit
<1>1. MetricsTypeOK
  <2>1. 0 \in Times /\ Cardinality({}) = 0 /\ 0 <= MaxSlices
    BY FS_EmptySet DEF Times
  <2>2. track \in [Requests -> TrackType]
    <3>1. \A e \in Endpoints : [at |-> "handler", kind |-> "latency", endpoint |-> e,
                               slice |-> 0, kept |-> TRUE] \in TrackType
      BY <2>1 DEF Kinds, TrackType
    <3> QED
      BY <3>1
  <2> QED
    BY <2>1, <2>2 DEF MetricsTypeOK, TrackType
<1>2. \A r \in Requests : track[r].at = "handler"
  OBVIOUS
<1> QED
  BY <1>1, <1>2 DEF MetricsInv, SlicesAreSound

\* A slice is handed out, and the oldest ones are dropped (telemetryts.go,
\* geHistoricForTS).
LEMMA SliceKeepsMetrics ==
    ASSUME MetricsInv, NEW r \in Requests, GetSlice(r)
    PROVE  MetricsInv'
<1> DEFINE k == track[r].slice
           all == slices \cup {k}
           keys == Kept(all)
<1> USE DEF MetricsInv, SlicesAreSound
<1>1. k \in Times /\ all \in SUBSET Times /\ slices \subseteq Times
  BY DEF MetricsTypeOK
<1>f. IsFiniteSet(slices) /\ IsFiniteSet(all)
  BY <1>1, TimesAreFinite, FS_Subset
<1>2. /\ slices' = keys /\ sliced' = {x \in sliced : x.slice \in keys}
      /\ seen' = seen \cup {k} /\ now' = now /\ totals' = totals /\ counted' = counted
      /\ track' = [q \in Requests |->
                      IF q = r THEN [track[r] EXCEPT !.at = "put", !.kept = k \in keys]
                      ELSE [track[q] EXCEPT !.kept = @ /\ track[q].slice \in keys]]
  BY DEF GetSlice
<1>3. /\ keys \subseteq all /\ Cardinality(keys) <= MaxSlices
      /\ \A j \in all \ keys, l \in keys : j < l
      /\ Cardinality(keys) < MaxSlices => keys = all
  BY <1>1, KeptAreNewest
<1> HIDE DEF keys
<1>4. \A q \in Requests : track'[q].slice = track[q].slice
  BY <1>2 DEF MetricsTypeOK
<1>5. MetricsTypeOK'
  <2>1. track' \in [Requests -> TrackType]
    <3>1. \A q \in Requests : track[q] \in TrackType
      BY DEF MetricsTypeOK, TrackType
    <3>2. ASSUME NEW q \in Requests, NEW b \in BOOLEAN
          PROVE  /\ [track[q] EXCEPT !.at = "put", !.kept = b] \in TrackType
                 /\ [track[q] EXCEPT !.kept = b] \in TrackType
      BY <3>1 DEF TrackType
    <3>3. (k \in keys) \in BOOLEAN
          /\ \A q \in Requests : (track[q].kept /\ track[q].slice \in keys) \in BOOLEAN
      OBVIOUS
    <3> HIDE DEF TrackType
    <3> QED
      BY <1>2, <3>2, <3>3
  <2> QED
    BY <1>1, <1>2, <1>3, <2>1 DEF MetricsTypeOK, TrackType
<1>6. ASSUME slices # seen, k \notin slices, k \in keys PROVE \E m \in slices : m < k
  <2>1. IsFiniteSet(slices) /\ Cardinality(slices) \in Nat
    BY <1>f, FS_CardinalityType
  <2>2. Cardinality(slices) = MaxSlices
    BY <1>6, <2>1, MetricsAssumption DEF MetricsTypeOK
  <2>3. Cardinality(all) = MaxSlices + 1
    BY <1>6, <2>1, <2>2, FS_AddElement
  <2>4. PICK m \in all : m \notin keys
    BY <1>3, <2>3, MetricsAssumption
  <2> QED
    BY <1>3, <1>6, <2>4
<1>7. ASSUME k \in seen \ slices PROVE k \notin keys
  <2> SUFFICES ASSUME k \in keys PROVE FALSE
    OBVIOUS
  <2>1. PICK m \in slices : m < k
    BY <1>6, <1>7
  <2>2. k < m
    BY <1>7
  <2> QED
    BY <1>1, <2>1, <2>2 DEF Times
<1>8. \A j \in seen' \ slices', l \in slices' : j < l
  <2> SUFFICES ASSUME NEW j \in seen' \ slices', NEW l \in slices' PROVE j < l
    OBVIOUS
  <2>1. CASE j \in all
    BY <1>2, <1>3, <2>1
  <2>2. CASE j \notin all
    <3>1. j \in seen \ slices /\ l \in all /\ l \in keys /\ j \in Times /\ l \in Times
      BY <1>1, <1>2, <1>3, <2>2 DEF MetricsTypeOK
    <3>2. CASE l \in slices
      BY <3>1, <3>2
    <3>3. CASE l \notin slices
      <4>1. l = k
        BY <3>1, <3>3
      <4>2. PICK m \in slices : m < k
        BY <1>6, <3>1, <3>3, <4>1
      <4>3. j < m
        BY <3>1
      <4> QED
        BY <1>1, <3>1, <4>1, <4>2, <4>3 DEF Times
    <3> QED
      BY <3>2, <3>3
  <2> QED
    BY <2>1, <2>2
<1>9. Cardinality(slices') < MaxSlices => slices' = seen'
  <2> SUFFICES ASSUME Cardinality(keys) < MaxSlices PROVE keys = seen'
    BY <1>2
  <2>1. IsFiniteSet(all)
    BY <1>f
  <2>2. Cardinality(slices) <= Cardinality(all) /\ keys = all
    BY <1>3, <2>1, FS_Subset
  <2>3. Cardinality(slices) < MaxSlices
    <3>1. IsFiniteSet(slices)
      BY <2>1, FS_Subset
    <3>2. Cardinality(slices) \in Nat /\ Cardinality(all) \in Nat
      BY <2>1, <3>1, FS_CardinalityType
    <3> QED
      BY <2>2, <3>2, MetricsAssumption
  <2> QED
    BY <1>2, <2>2, <2>3
<1>10. \A x \in counted' : x.slice \in seen' /\ (x.slice \in slices' => x \in sliced')
  BY <1>2, <1>3, <1>7
<1>11. ASSUME NEW q \in Requests, track'[q].at = "put"
       PROVE  /\ track'[q].slice \in seen'
              /\ ~track'[q].kept => track'[q].slice \notin slices'
  <2>1. CASE q = r
    BY <1>2, <1>4, <2>1 DEF MetricsTypeOK
  <2>2. CASE q # r
    <3>1. track'[q].at = track[q].at /\ (track[q].kept /\ track[q].slice \in keys => track'[q].kept)
      BY <1>2, <2>2 DEF MetricsTypeOK
    <3>2. track[q].slice \in seen /\ (~track[q].kept => track[q].slice \notin slices)
      BY <1>11, <3>1
    <3>3. ASSUME ~track'[q].kept PROVE track[q].slice \notin keys
      <4>1. CASE track[q].kept
        BY <3>1, <3>3, <4>1
      <4>2. CASE ~track[q].kept
        BY <1>3, <1>7, <3>2, <4>2
      <4> QED
        BY <4>1, <4>2
    <3> QED
      BY <1>2, <1>4, <3>2, <3>3
  <2> QED
    BY <2>1, <2>2
<1>12. slices' \subseteq seen'
  BY <1>2, <1>3
<1> QED
  BY <1>5, <1>8, <1>9, <1>10, <1>11, <1>12

\* A request counts in the slice it was handed (telemetry.go); Put records nothing for
\* the reports only where the slice is no longer kept.
LEMMA PutKeepsMetrics ==
    ASSUME MetricsInv, NEW r \in Requests, Put(r)
    PROVE  MetricsInv'
<1> DEFINE t == track[r]
           new == {x \in SlicedRecord : x.kind = t.kind /\ x.field = Field(t.kind, t.endpoint)
                                        /\ x.request = r /\ x.slice = t.slice}
<1> USE DEF MetricsInv, SlicesAreSound
<1>1. /\ t.at = "put" /\ counted' = counted \cup new
      /\ sliced' = IF t.kept THEN sliced \cup new ELSE sliced
      /\ track' = [track EXCEPT ![r].at = IF t.kind = "latency" THEN "clock" ELSE "done",
                                ![r].kind = "status", ![r].kept = TRUE]
      /\ now' = now /\ slices' = slices /\ totals' = totals /\ seen' = seen
  BY DEF Put
<1>2. \A x \in new : x \in SlicedRecord /\ x.slice = t.slice
  OBVIOUS
<1> HIDE DEF new
<1>3. MetricsTypeOK'
  <2>1. track' \in [Requests -> TrackType]
    <3>1. \A q \in Requests : track[q] \in TrackType
      BY DEF MetricsTypeOK, TrackType
    <3>2. ASSUME NEW a \in {"clock", "done"}
          PROVE  [t EXCEPT !.at = a, !.kind = "status", !.kept = TRUE] \in TrackType
      BY <3>1 DEF TrackType, Kinds
    <3>3. \A q \in Requests \ {r} : track'[q] = track[q]
      BY <1>1 DEF MetricsTypeOK
    <3>4. \E a \in {"clock", "done"} :
              track'[r] = [t EXCEPT !.at = a, !.kind = "status", !.kept = TRUE]
      BY <1>1 DEF MetricsTypeOK
    <3>5. track' = [q \in Requests |-> track'[q]]
      BY <1>1 DEF MetricsTypeOK
    <3>6. \A q \in Requests : track'[q] \in TrackType
      BY <3>1, <3>2, <3>3, <3>4
    <3> QED
      BY <3>5, <3>6
  <2> QED
    BY <1>1, <1>2, <2>1 DEF MetricsTypeOK, TrackType
<1>4. t.slice \in seen /\ (t.slice \in slices => t.kept)
  BY <1>1
<1>5. \A x \in counted' : x.slice \in seen' /\ (x.slice \in slices' => x \in sliced')
  BY <1>1, <1>2, <1>4
<1>6. \A q \in Requests : track'[q].at = "put" => q # r /\ track'[q] = track[q]
  BY <1>1 DEF MetricsTypeOK
<1>7. SlicesAreSound'
  BY <1>1, <1>3, <1>5
<1>8. ASSUME NEW q \in Requests, track'[q].at = "put"
      PROVE  track'[q].slice \in seen' /\ (~track'[q].kept => track'[q].slice \notin slices')
  <2>1. track'[q] = track[q]
    BY <1>6, <1>8
  <2>2. track[q].slice \in seen /\ (~track[q].kept => track[q].slice \notin slices)
    BY <1>8, <2>1
  <2> QED
    BY <1>1, <2>1, <2>2
<1> QED
  BY <1>5, <1>7, <1>8

\* The clock and the totals move on without a slice.
LEMMA OthersKeepMetrics ==
    ASSUME MetricsInv, Tick \/ (\E r \in Requests : CountTotal(r)) \/ UNCHANGED metricsVars
    PROVE  MetricsInv'
<1> USE DEF MetricsInv, SlicesAreSound
<1>1. slices' = slices /\ sliced' = sliced /\ seen' = seen /\ counted' = counted
  BY DEF Tick, CountTotal, metricsVars
<1>2. MetricsTypeOK' /\ \A q \in Requests : track'[q].at = "put" => track'[q] = track[q]
  <2>1. CASE Tick
    <3>1. now' \in Times
      BY <2>1, MetricsAssumption DEF Tick, Times, MetricsTypeOK
    <3> QED
      BY <1>1, <2>1, <3>1 DEF Tick, MetricsTypeOK
  <2>2. ASSUME NEW r \in Requests, CountTotal(r)
        PROVE  MetricsTypeOK' /\ \A q \in Requests : track'[q].at = "put" => track'[q] = track[q]
    <3>1. /\ track' = [track EXCEPT ![r].at = "slice", ![r].slice = now]
          /\ now' = now /\ totals' \subseteq Record
      BY <2>2 DEF CountTotal, MetricsTypeOK
    <3>2. track' \in [Requests -> TrackType]
      BY <3>1 DEF MetricsTypeOK, TrackType
    <3>3. \A q \in Requests : track'[q].at = "put" => track'[q] = track[q]
      BY <3>1 DEF MetricsTypeOK
    <3> QED
      BY <1>1, <3>1, <3>2, <3>3 DEF MetricsTypeOK, TrackType
  <2>3. CASE UNCHANGED metricsVars
    BY <2>3 DEF metricsVars, MetricsTypeOK
  <2> QED
    BY <2>1, <2>2, <2>3
<1> QED
  BY <1>1, <1>2

\* The slices the proxy keeps are the newest there ever were, and have all that was
\* counted for them (telemetryts.go), for any number of requests and slices.
THEOREM SlicesHaveTheirRecords == MetricsSpec => []SlicesAreSound
<1>1. MetricsInv /\ [Metrics]_metricsVars => MetricsInv'
  BY SliceKeepsMetrics, PutKeepsMetrics, OthersKeepMetrics DEF Metrics
<1>2. MetricsInv => SlicesAreSound
  BY DEF MetricsInv
<1> QED
  BY <1>1, <1>2, MetricsInitInv, PTL DEF MetricsSpec
=============================================================================
