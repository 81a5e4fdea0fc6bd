--------------------------- MODULE ChangeLogProofs --------------------------
(***************************************************************************)
(* Facts about the backend's change log, for proofs about the modules that *)
(* serve it.                                                               *)
(***************************************************************************)
EXTENDS ChangeLog, WellFoundedInduction, TLAPS

-----------------------------------------------------------------------------
(* The last change of a flag                                               *)

\* A non-empty set of change numbers has a last one.
LEMMA LastOf ==
    ASSUME NEW S, S # {}, NEW cn \in Nat, S \subseteq 1..cn
    PROVE  \E n \in S : \A m \in S : m <= n
<1> DEFINE T == { cn - n : n \in S }
<1>0. PICK k \in S : TRUE
  OBVIOUS
<1>1. T \subseteq Nat /\ T # {}
  <2>1. ASSUME NEW n \in S PROVE cn - n \in Nat
    <3>1. n \in 1..cn
      OBVIOUS
    <3> QED
      BY <3>1
  <2>2. cn - k \in T
    BY <1>0
  <2> QED
    BY <2>1, <2>2
<1> DEFINE R == { u \in Nat \X Nat : u[1] < u[2] }
<1>r. IsWellFoundedOn(R, Nat)
  <2>1. R = OpToRel(<, Nat)
    BY DEF OpToRel
  <2> QED
    BY <2>1, NatLessThanWellFounded
<1>2. PICK t \in T : \A u \in T : ~(<<u, t>> \in R)
  <2> HIDE DEF T, R
  <2> QED
    BY <1>1, <1>r, WFMin
<1>3. \A u \in T : ~(u < t)
  BY <1>1, <1>2
<1>4. PICK n \in S : t = cn - n
  OBVIOUS
<1>5. ASSUME NEW m \in S PROVE m <= n
  <2>1. cn - m \in T
    OBVIOUS
  <2>2. ~(cn - m < cn - n)
    BY <1>3, <1>4, <2>1
  <2>3. m \in Int /\ n \in Int
    OBVIOUS
  <2> QED
    BY <2>2, <2>3
<1> QED
  BY <1>5

\* LatestCN is 0 or the last of the flag's changes.
LEMMA LatestIsLast ==
    ASSUME NEW l, NEW f, NEW cn \in Nat
    PROVE  \/ ChangesOf(l, f, cn) = {} /\ LatestCN(l, f, cn) = 0
           \/ /\ LatestCN(l, f, cn) \in ChangesOf(l, f, cn)
              /\ LatestCN(l, f, cn) \in 1..cn
              /\ \A m \in ChangesOf(l, f, cn) : m <= LatestCN(l, f, cn)
<1>1. CASE ChangesOf(l, f, cn) = {}
  BY <1>1 DEF LatestCN
<1>2. CASE ChangesOf(l, f, cn) # {}
  <2>1. ChangesOf(l, f, cn) \subseteq 1..cn
    BY DEF ChangesOf
  <2>2. \E n \in ChangesOf(l, f, cn) : \A m \in ChangesOf(l, f, cn) : m <= n
    BY <1>2, <2>1, LastOf
  <2> QED
    BY <1>2, <2>1, <2>2 DEF LatestCN
<1> QED
  BY <1>1, <1>2

\* LatestCN is 0 or a change number of the flag within the range asked for.
LEMMA LatestInRange ==
    ASSUME NEW l, NEW f, NEW t \in Int
    PROVE  \/ LatestCN(l, f, t) = 0
           \/ LatestCN(l, f, t) \in 1..t /\ l[LatestCN(l, f, t)].name = f
<1>1. CASE t \in Nat
  BY <1>1, LatestIsLast DEF ChangesOf
<1>2. CASE t \notin Nat
  BY <1>2 DEF LatestCN, ChangesOf
<1> QED
  BY <1>1, <1>2

\* Publishing a change moves the last change of its own flag only.
LEMMA PublishMoves ==
    ASSUME NEW l \in Seq(Change), NEW c \in Change, NEW f
    PROVE  LET k == Append(l, c) IN
           IF c.name = f THEN LatestCN(k, f, Len(k)) = Len(l) + 1
           ELSE /\ LatestCN(k, f, Len(k)) = LatestCN(l, f, Len(l))
                /\ Served(k, f, Len(k)) = Served(l, f, Len(l))
<1> DEFINE k == Append(l, c)
<1>1. /\ k \in Seq(Change) /\ Len(k) = Len(l) + 1 /\ Len(l) \in Nat
      /\ k[Len(l) + 1] = c
      /\ \A n \in 1..Len(l) : k[n] = l[n]
  OBVIOUS
<1>2. CASE c.name = f
  <2>1. Len(l) + 1 \in ChangesOf(k, f, Len(k))
    BY <1>1, <1>2 DEF ChangesOf
  <2>2. /\ LatestCN(k, f, Len(k)) \in 1..Len(k)
        /\ Len(l) + 1 <= LatestCN(k, f, Len(k))
    BY <1>1, <2>1, LatestIsLast
  <2> QED
    BY <1>1, <1>2, <2>2
<1>3. CASE c.name # f
  <2>1. ChangesOf(k, f, Len(k)) = ChangesOf(l, f, Len(l))
    BY <1>1, <1>3 DEF ChangesOf
  <2>2. LatestCN(k, f, Len(k)) = LatestCN(l, f, Len(l))
    BY <2>1 DEF LatestCN
  <2>3. LatestCN(l, f, Len(l)) = 0 \/ LatestCN(l, f, Len(l)) \in 1..Len(l)
    BY <1>1, LatestIsLast
  <2>4. Served(k, f, Len(k)) = Served(l, f, Len(l))
    BY <1>1, <2>2, <2>3 DEF Served
  <2> QED
    BY <1>3, <2>2, <2>4
<1> QED
  BY <1>2, <1>3

\* Publishing a change leaves the past as it was.
LEMMA PublishKeeps ==
    ASSUME NEW l \in Seq(Change), NEW c \in Change, NEW f, NEW t \in -1..Len(l)
    PROVE  /\ LatestCN(Append(l, c), f, t) = LatestCN(l, f, t)
           /\ Served(Append(l, c), f, t) = Served(l, f, t)
<1> DEFINE k == Append(l, c)
<1>1. \A n \in 1..Len(l) : k[n] = l[n]
  OBVIOUS
<1>2. ChangesOf(k, f, t) = ChangesOf(l, f, t)
  BY <1>1 DEF ChangesOf
<1>3. LatestCN(k, f, t) = LatestCN(l, f, t)
  BY <1>2 DEF LatestCN
<1>4. LatestCN(l, f, t) = 0 \/ LatestCN(l, f, t) \in 1..Len(l)
  BY LatestInRange
<1>5. Served(k, f, t) = Served(l, f, t)
  BY <1>1, <1>3, <1>4 DEF Served
<1> QED
  BY <1>3, <1>5

\* A flag whose last change is at or before t had it as last change at t.
LEMMA LatestSettled ==
    ASSUME NEW l, NEW f, NEW cn \in Nat, NEW t \in Int, t <= cn,
           0 < LatestCN(l, f, cn), LatestCN(l, f, cn) <= t
    PROVE  LatestCN(l, f, t) = LatestCN(l, f, cn)
<1> DEFINE n == LatestCN(l, f, cn)
<1>1. n \in ChangesOf(l, f, cn) /\ n \in 1..cn /\ \A m \in ChangesOf(l, f, cn) : m <= n
  BY LatestIsLast
<1>2. t \in Nat /\ n \in ChangesOf(l, f, t)
  BY <1>1 DEF ChangesOf
<1>3. /\ LatestCN(l, f, t) \in ChangesOf(l, f, t)
      /\ LatestCN(l, f, t) \in 1..t
      /\ \A m \in ChangesOf(l, f, t) : m <= LatestCN(l, f, t)
  BY <1>2, LatestIsLast
<1>4. LatestCN(l, f, t) \in ChangesOf(l, f, cn)
  BY <1>3 DEF ChangesOf
<1> HIDE DEF n
<1>5. n <= LatestCN(l, f, t) /\ LatestCN(l, f, t) <= n
  BY <1>1, <1>2, <1>3, <1>4
<1> QED
  BY <1>1, <1>3, <1>5 DEF n

-----------------------------------------------------------------------------
(* What a store has of the log, up to a change number: its level           *)

\* The last change of f published in l, and the flags for which that is in the
\* range of a level t.
Current(l, f) == LatestCN(l, f, Len(l))
Due(l, f, t) == 0 < Current(l, f) /\ Current(l, f) <= t
Archived(l, f) == ~l[Current(l, f)].active

\* Nothing is held of a flag that never changed.
Known(l, w) == \A f \in Flags : Current(l, f) = 0 => w[f] = 0

\* A store at level t may have nothing of an archived flag.
Covers(l, w, t) == \A f \in Flags : Due(l, f, t) =>
                     w[f] = Current(l, f) \/ (w[f] = 0 /\ Archived(l, f))

\* The batch b is what was fetched from t when the backend was at till.
Batch(l, b, t, till) ==
    /\ \A n \in b : n > t /\ n <= till /\ n = LatestCN(l, l[n].name, till)
    /\ \A f \in Flags : LET n == LatestCN(l, f, till) IN
         n > 0 => n \in b \/ n <= t \/ (t = -1 /\ ~l[n].active)

\* The last change of a flag, if any, is one of that flag's.
LEMMA CurrentIs ==
    ASSUME NEW l \in Seq(Change), NEW f
    PROVE  \/ Current(l, f) = 0
           \/ Current(l, f) \in 1..Len(l) /\ l[Current(l, f)].name = f
<1>1. Len(l) \in Int
  OBVIOUS
<1> QED
  BY <1>1, LatestInRange DEF Current

\* No change of the flag comes after it.
LEMMA CurrentIsLast ==
    ASSUME NEW l \in Seq(Change), NEW n \in 1..Len(l)
    PROVE  n <= Current(l, l[n].name)
<1>1. Len(l) \in Nat /\ n \in ChangesOf(l, l[n].name, Len(l))
  BY DEF ChangesOf
<1> QED
  BY <1>1, LatestIsLast DEF Current

\* Complete, in terms of flags that are due.
LEMMA CompleteIs ==
    ASSUME NEW l \in Seq(Change), NEW t, NEW w
    PROVE  Complete(l, t, w) <=>
             \A f \in Flags : Due(l, f, t) => w[f] = IF Archived(l, f) THEN 0 ELSE Current(l, f)
BY DEF Complete, Served, Due, Archived, Current

\* A new change is above every level: it makes no flag due.
LEMMA PublishDue ==
    ASSUME NEW l \in Seq(Change), NEW c \in Change, NEW f
    PROVE  /\ Current(Append(l, c), f) = 0 => Current(l, f) = 0
           /\ Current(l, f) <= Current(Append(l, c), f)
           /\ \A t \in Int : t <= Len(l) /\ Due(Append(l, c), f, t) =>
                /\ Due(l, f, t)
                /\ Current(Append(l, c), f) = Current(l, f)
                /\ Archived(Append(l, c), f) = Archived(l, f)
<1> DEFINE k == Append(l, c)
<1>1. /\ Len(k) = Len(l) + 1 /\ Len(l) \in Nat
      /\ \A n \in 1..Len(l) : k[n] = l[n]
  OBVIOUS
<1>2. Current(l, f) = 0 \/ Current(l, f) \in 1..Len(l)
  BY CurrentIs
<1>3. CASE c.name = f
  <2>1. Current(k, f) = Len(l) + 1
    BY <1>3, PublishMoves DEF Current
  <2> QED
    BY <1>1, <1>2, <2>1 DEF Due
<1>4. CASE c.name # f
  <2>1. Current(k, f) = Current(l, f)
    BY <1>4, PublishMoves DEF Current
  <2>2. Current(l, f) > 0 => k[Current(k, f)] = l[Current(l, f)]
    BY <1>1, <1>2, <2>1
  <2> QED
    BY <1>1, <1>2, <2>1, <2>2 DEF Due, Archived
<1> QED
  BY <1>3, <1>4

\* A batch stays what was fetched.
LEMMA PublishBatch ==
    ASSUME NEW l \in Seq(Change), NEW c \in Change, NEW b \in SUBSET (1..Len(l)),
           NEW t \in Int, NEW till \in -1..Len(l), Batch(l, b, t, till)
    PROVE  Batch(Append(l, c), b, t, till)
<1> DEFINE k == Append(l, c)
<1>1. \A n \in 1..Len(l) : k[n] = l[n]
  OBVIOUS
<1>2. \A f : LatestCN(k, f, till) = LatestCN(l, f, till)
  BY PublishKeeps
<1>3. \A f : LatestCN(l, f, till) = 0 \/ LatestCN(l, f, till) \in 1..Len(l)
  BY LatestInRange
<1> HIDE DEF k
<1>4. \A n \in b : n > t /\ n <= till /\ n = LatestCN(k, k[n].name, till)
  BY <1>1, <1>2 DEF Batch
<1>5. ASSUME NEW f \in Flags, LatestCN(k, f, till) > 0
      PROVE  LET n == LatestCN(k, f, till) IN n \in b \/ n <= t \/ (t = -1 /\ ~k[n].active)
  BY <1>1, <1>2, <1>3, <1>5 DEF Batch
<1> QED
  BY <1>4, <1>5 DEF Batch, k

\* What is fetched from t is such a batch.
LEMMA FetchedBatch ==
    ASSUME NEW l \in Seq(Change), NEW t \in Int
    PROVE  /\ ChangedSince(l, t) \subseteq 1..Len(l)
           /\ Batch(l, ChangedSince(l, t), t, Len(l))
<1>1. Len(l) \in Int
  OBVIOUS
<1>2. \A f : LatestCN(l, f, Len(l)) = 0
              \/ (LatestCN(l, f, Len(l)) \in 1..Len(l) /\ l[LatestCN(l, f, Len(l))].name = f)
  BY <1>1, LatestInRange
<1>3. ASSUME NEW n \in ChangedSince(l, t)
      PROVE  n \in 1..Len(l) /\ n > t /\ n = LatestCN(l, l[n].name, Len(l))
  <2>1. PICK f \in Flags : n = LatestCN(l, f, Len(l)) /\ n > 0 /\ n > t
    BY DEF ChangedSince
  <2> QED
    BY <1>2, <2>1
<1>4. ASSUME NEW f \in Flags, LatestCN(l, f, Len(l)) > 0
      PROVE  LET n == LatestCN(l, f, Len(l)) IN
             n \in ChangedSince(l, t) \/ n <= t \/ (t = -1 /\ ~l[n].active)
  BY <1>1, <1>2, <1>4 DEF ChangedSince
<1> QED
  BY <1>3, <1>4 DEF Batch

\* What a batch says of a flag that is due at its till.
LEMMA BatchDue ==
    ASSUME NEW l \in Seq(Change), NEW b \in SUBSET (1..Len(l)), NEW t \in Int,
           NEW till \in -1..Len(l), Batch(l, b, t, till), NEW f \in Flags, Due(l, f, till)
    PROVE  \/ Current(l, f) \in b /\ \A n \in b : l[n].name = f => n = Current(l, f)
           \/ Current(l, f) <= t /\ \A n \in b : l[n].name # f
           \/ t = -1 /\ Archived(l, f) /\ \A n \in b : l[n].name # f
<1>1. LatestCN(l, f, till) = Current(l, f) /\ Current(l, f) > 0
  BY LatestSettled DEF Due, Current
<1>2. \A n \in b : l[n].name = f => n = Current(l, f)
  BY <1>1 DEF Batch
<1>3. Current(l, f) \in b \/ Current(l, f) <= t \/ (t = -1 /\ Archived(l, f))
  BY <1>1 DEF Batch, Archived
<1> QED
  BY <1>2, <1>3
=============================================================================
