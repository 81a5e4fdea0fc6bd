---------------------------- MODULE LoopProofs -----------------------------
(***************************************************************************)
(* Theorems about the components that work through slices in loops, for    *)
(* slices of every length: how loops are reasoned about; that the answers  *)
(* drawn from the change summaries bring a client up to date and name no   *)
(* flag in vain, and that the clean-up of an SDK's flag sets loses none,   *)
(* for any number of flags, sets and changes (IInv, Init, Next and Spec    *)
(* are those of HistoricChanges); that lambda tells whether a backlog      *)
(* grows, for every window and size of a fetch; and that what is observed  *)
(* of flags and segments is what is in Redis, for any number of them.      *)
(***************************************************************************)
EXTENDS HistoricChanges, EvictionMonitor, ObservableStorage, ChangeLogProofs, FiniteSetTheorems

-----------------------------------------------------------------------------
(* Loops                                                                   *)

\* What holds at first and is kept by every iteration holds after each.
LEMMA LoopInduction ==
    ASSUME NEW N \in Nat, NEW T, 0 \in T, \A n \in 0..N : n \in T /\ n < N => n + 1 \in T
    PROVE  \A n \in 0..N : n \in T
<1> DEFINE R == {u \in Nat \X Nat : u[1] < u[2]}
           S == (0..N) \ T
<1>1. IsWellFoundedOn(R, Nat)
  <2>1. R = OpToRel(<, Nat)
    BY DEF OpToRel
  <2> QED
    BY <2>1, NatLessThanWellFounded
<1> SUFFICES ASSUME S # {} PROVE FALSE
  OBVIOUS
<1>2. S \subseteq Nat
  OBVIOUS
<1>3. PICK k \in S : \A j \in S : ~(<<j, k>> \in R)
  <2> HIDE DEF R, S
  <2> QED
    BY <1>1, <1>2, WFMin
<1>4. k \in Nat \ {0} /\ k <= N /\ k \notin T
  OBVIOUS
<1>5. k - 1 \in 0..N /\ k - 1 < N /\ (k - 1) + 1 = k
  BY <1>4
<1>6. <<k - 1, k>> \in R
  BY <1>4, <1>5
<1>7. k - 1 \in T
  BY <1>3, <1>5, <1>6
<1> QED
  BY <1>4, <1>5, <1>7

\* A loop of N iterations over states in S, from a in steps of g; and its states.
IsLoop(S, a, N, g) == a \in S /\ N \in Nat /\ g \in [(1..N) \X S -> S]
RunsAs(S, a, N, g, f) ==
    f \in [0..N -> S] /\ f[0] = a /\ \A n \in 1..N : f[n] = g[<<n, f[n - 1]>>]

\* A loop has a state after each iteration.
LEMMA LoopExists ==
    ASSUME NEW S, NEW a, NEW N, NEW g, IsLoop(S, a, N, g)
    PROVE  \E f : RunsAs(S, a, N, g, f)
<1> DEFINE Runs(k) == \E f \in [0..k -> S] : f[0] = a /\ \A n \in 1..k : f[n] = g[<<n, f[n - 1]>>]
           T == {k \in 0..N : Runs(k)}
<1>0. a \in S /\ N \in Nat /\ g \in [(1..N) \X S -> S]
  BY DEF IsLoop
<1>1. 0 \in T
  <2> DEFINE c == [n \in 0..0 |-> a]
  <2>1. c \in [0..0 -> S] /\ c[0] = a /\ 1..0 = {} /\ 0 \in 0..N
    BY <1>0
  <2> HIDE DEF c
  <2>2. Runs(0)
    BY <2>1
  <2> HIDE DEF Runs
  <2> QED
    BY <2>1, <2>2
<1>2. ASSUME NEW k \in 0..N, k \in T, k < N PROVE k + 1 \in T
  <2>1. PICK f \in [0..k -> S] : f[0] = a /\ \A n \in 1..k : f[n] = g[<<n, f[n - 1]>>]
    BY <1>2
  <2> DEFINE h == [n \in 0..(k + 1) |-> IF n = k + 1 THEN g[<<k + 1, f[k]>>] ELSE f[n]]
  <2>2. k + 1 \in 1..N /\ k \in 0..k /\ f[k] \in S /\ g[<<k + 1, f[k]>>] \in S
    BY <1>0, <1>2, <2>1
  <2>3. h \in [0..(k + 1) -> S]
    BY <2>2
  <2>4. h[0] = a /\ \A n \in 0..k : h[n] = f[n]
    BY <2>1, <2>2
  <2>5. h[k + 1] = g[<<k + 1, h[k]>>]
    <3>1. h[k + 1] = g[<<k + 1, f[k]>>] /\ h[k] = f[k]
      BY <2>2, <2>4
    <3> HIDE DEF h
    <3> QED
      BY <3>1
  <2>6. ASSUME NEW n \in 1..(k + 1) PROVE h[n] = g[<<n, h[n - 1]>>]
    <3>1. CASE n = k + 1
      <4>1. n - 1 = k
        BY <3>1
      <4> HIDE DEF h
      <4> QED
        BY <2>5, <3>1, <4>1
    <3>2. CASE n # k + 1
      <4>1. n \in 1..k /\ n \in 0..k /\ n - 1 \in 0..k
        BY <3>2
      <4> HIDE DEF h
      <4> QED
        BY <2>1, <2>4, <4>1
    <3> QED
      BY <3>1, <3>2
  <2> HIDE DEF h
  <2>7. Runs(k + 1)
    BY <2>3, <2>4, <2>6
  <2> HIDE DEF Runs
  <2> QED
    BY <2>2, <2>7
<1>3. N \in T
  <2> HIDE DEF T
  <2> QED
    <3>1. \A n \in 0..N : n \in T
      BY <1>0, <1>1, <1>2, LoopInduction
    <3> QED
      BY <1>0, <3>1
<1> QED
  BY <1>3 DEF RunsAs

\* The states of a loop are states if every iteration leaves a state.
LEMMA LoopStays ==
    ASSUME NEW S, NEW N \in Nat, NEW f, f = [n \in 0..N |-> f[n]], f[0] \in S,
           \A n \in 1..N : f[n - 1] \in S => f[n] \in S
    PROVE  f \in [0..N -> S]
<1> DEFINE U == {k \in 0..N : f[k] \in S}
<1>1. 0 \in U
  OBVIOUS
<1>2. ASSUME NEW n \in 0..N, n \in U, n < N PROVE n + 1 \in U
  <2>1. n + 1 \in 1..N /\ n + 1 \in 0..N /\ (n + 1) - 1 = n
    BY <1>2
  <2> QED
    BY <1>2, <2>1
<1>3. \A n \in 0..N : n \in U
  <2> HIDE DEF U
  <2> QED
    BY <1>1, <1>2, LoopInduction
<1> QED
  BY <1>3

\* A strict order of the elements of S.
Orders(order, S) ==
    /\ \A x \in S : <<x, x>> \notin order
    /\ \A x, y \in S : x # y => <<x, y>> \in order \/ <<y, x>> \in order
    /\ \A x, y, z \in S : <<x, y>> \in order /\ <<y, z>> \in order => <<x, z>> \in order

\* The image of a finite set is finite.
LEMMA ImageIsFinite ==
    ASSUME NEW S, IsFiniteSet(S), NEW g
    PROVE  IsFiniteSet({g[x] : x \in S})
<1> DEFINE T == {g[x] : x \in S}
           h == [x \in S |-> g[x]]
<1>1. h \in Surjection(S, T)
  BY DEF Surjection
<1> QED
  BY <1>1, FS_Surjection

\* A finite set in order is a list of its elements, each before those it precedes.
LEMMA InOrderIs ==
    ASSUME NEW S, IsFiniteSet(S), NEW order, Orders(order, S)
    PROVE  LET q == InOrder(S, order) IN
           /\ q \in Seq(S) /\ Len(q) = Cardinality(S) /\ ToSet(q) = S
           /\ \A i, j \in 1..Len(q) : i < j => <<q[i], q[j]>> \in order
<1> DEFINE N == Cardinality(S)
           Below(x) == {y \in S : <<y, x>> \in order}
           rank == [x \in S |-> Cardinality(Below(x)) + 1]
           q == InOrder(S, order)
<1>1. N \in Nat
  BY FS_CardinalityType
<1>2. ASSUME NEW x \in S PROVE /\ IsFiniteSet(Below(x)) /\ Cardinality(Below(x)) \in Nat
                               /\ Cardinality(Below(x)) < N
  <2>1. Below(x) \in SUBSET S /\ x \notin Below(x)
    BY DEF Orders
  <2> HIDE DEF Below
  <2>2. IsFiniteSet(Below(x)) /\ Cardinality(Below(x)) <= N /\ Cardinality(Below(x)) # N
    BY <2>1, FS_Subset
  <2>3. Cardinality(Below(x)) \in Nat
    BY <2>2, FS_CardinalityType
  <2> QED
    BY <1>1, <2>2, <2>3
<1>3. ASSUME NEW x \in S, NEW y \in S, <<x, y>> \in order
      PROVE  Cardinality(Below(x)) < Cardinality(Below(y))
  <2>1. Below(x) \cup {x} \in SUBSET Below(y) /\ x \notin Below(x)
    BY <1>3 DEF Orders
  <2> HIDE DEF Below
  <2>2. IsFiniteSet(Below(x)) /\ IsFiniteSet(Below(y)) /\ Cardinality(Below(x)) \in Nat /\ Cardinality(Below(y)) \in Nat
    BY <1>2
  <2>3. Cardinality(Below(x) \cup {x}) = Cardinality(Below(x)) + 1
    BY <2>1, <2>2, FS_AddElement
  <2>4. Cardinality(Below(x) \cup {x}) <= Cardinality(Below(y))
    BY <2>1, <2>2, FS_Subset
  <2> QED
    BY <2>2, <2>3, <2>4
<1>4. rank \in [S -> 1..N] /\ \A x \in S : rank[x] = Cardinality(Below(x)) + 1
  <2>1. \A x \in S : Cardinality(Below(x)) + 1 \in 1..N
    <3> HIDE DEF Below, N
    <3> QED
      BY <1>1, <1>2
  <2> HIDE DEF Below, N
  <2> QED
    BY <2>1
<1> HIDE DEF rank
<1>5. \A x, y \in S : <<x, y>> \in order => rank[x] < rank[y]
  <2> HIDE DEF Below
  <2> QED
    BY <1>2, <1>3, <1>4
<1>6. \A x, y \in S : rank[x] = rank[y] => x = y
  <2> SUFFICES ASSUME NEW x \in S, NEW y \in S, rank[x] = rank[y], x # y PROVE FALSE
    OBVIOUS
  <2>1. rank[x] \in 1..N /\ rank[y] \in 1..N
    BY <1>4
  <2>2. <<x, y>> \in order \/ <<y, x>> \in order
    BY DEF Orders
  <2> HIDE DEF N
  <2> QED
    BY <1>1, <1>5, <2>1, <2>2
<1>7. \A k \in 1..N : \E x \in S : rank[x] = k
  <2>1. rank \in Injection(S, 1..N)
    BY <1>4, <1>6 DEF Injection, IsInjective
  <2>2. IsFiniteSet(1..N) /\ Cardinality(1..N) = N
    <3> HIDE DEF N
    <3>1. 1 \in Int /\ N \in Int /\ (1 > N => N = 0) /\ N - 1 + 1 = N
      BY <1>1
    <3> QED
      BY <3>1, FS_Interval
  <2>3. rank \in Surjection(S, 1..N)
    BY <2>1, <2>2, FS_Injection
  <2> QED
    BY <2>3 DEF Surjection
<1>8. ASSUME NEW k \in 1..N PROVE q[k] \in S /\ rank[q[k]] = k
  <2> DEFINE In(x) == Cardinality(Below(x)) = k - 1
  <2>1. q[k] = CHOOSE x \in S : In(x)
    BY DEF InOrder
  <2>2. \E x \in S : In(x)
    <3>1. PICK x \in S : rank[x] = k
      BY <1>7
    <3> HIDE DEF Below, N
    <3> QED
      BY <1>1, <1>2, <1>4, <3>1
  <2>3. q[k] \in S /\ In(q[k])
    <3> HIDE DEF In, q
    <3> QED
      BY <2>1, <2>2
  <2> HIDE DEF q, Below, N
  <2> QED
    BY <1>1, <1>2, <1>4, <2>3
<1>9. q \in [1..N -> S]
  <2> DEFINE pick(k) == CHOOSE x \in S : Cardinality({y \in S : <<y, x>> \in order}) = k - 1
             c == [k \in 1..N |-> pick(k)]
  <2>1. q = c
    BY DEF InOrder
  <2> HIDE DEF q, N, pick
  <2>2. \A k \in 1..N : pick(k) \in S
    BY <1>8, <2>1
  <2> QED
    BY <2>1, <2>2
<1> HIDE DEF q, N
<1>10. q \in Seq(S) /\ Len(q) = N /\ DOMAIN q = 1..N
  BY <1>1, <1>9
<1>11. ToSet(q) = S
  <2>1. ASSUME NEW x \in S PROVE x = q[rank[x]] /\ rank[x] \in 1..N
    BY <1>4, <1>6, <1>8
  <2> QED
    BY <1>8, <1>10, <2>1 DEF ToSet
<1>12. ASSUME NEW i \in 1..N, NEW j \in 1..N, i < j PROVE <<q[i], q[j]>> \in order
  <2>1. q[i] \in S /\ q[j] \in S /\ rank[q[i]] = i /\ rank[q[j]] = j /\ i \in Int /\ j \in Int
    BY <1>1, <1>8
  <2>2. q[i] # q[j] /\ ~(<<q[j], q[i]>> \in order)
    BY <1>5, <1>12, <2>1
  <2> QED
    BY <2>1, <2>2 DEF Orders
<1> QED
  BY <1>10, <1>11, <1>12 DEF q, N

-----------------------------------------------------------------------------
(* FlagSetMatcher                                                          *)

\* A list, sorted, has what it had.
LEMMA SortedIs ==
    ASSUME NEW T, T \subseteq Nat, NEW s \in Seq(T)
    PROVE  Sorted(s) \in Seq(T) /\ Len(Sorted(s)) = Len(s) /\ ToSet(Sorted(s)) = ToSet(s)
<1> DEFINE D == 1..Len(s)
           order == {p \in D \X D : s[p[1]] < s[p[2]] \/ (s[p[1]] = s[p[2]] /\ p[1] < p[2])}
           place == InOrder(D, order)
           r == [k \in 1..Len(s) |-> s[place[k]]]
<1>1. Len(s) \in Nat /\ DOMAIN s = D /\ \A i \in D : s[i] \in T /\ s[i] \in Nat /\ i \in Nat
  <2>1. Len(s) \in Nat /\ DOMAIN s = 1..Len(s)
    OBVIOUS
  <2>2. \A i \in 1..Len(s) : s[i] \in T /\ i \in Nat
    OBVIOUS
  <2> QED
    BY <2>1, <2>2
<1>2. IsFiniteSet(D) /\ Cardinality(D) = Len(s)
  <2> DEFINE N == Len(s)
  <2>1. 1 \in Int /\ N \in Int /\ (1 > N => N = 0) /\ N - 1 + 1 = N
    BY <1>1
  <2> HIDE DEF N
  <2>2. IsFiniteSet(1..N) /\ Cardinality(1..N) = N
    BY <2>1, FS_Interval
  <2> QED
    BY <2>2 DEF N
<1>3. Orders(order, D)
  <2>1. \A x, y \in D : <<x, y>> \in order <=> s[x] < s[y] \/ (s[x] = s[y] /\ x < y)
    OBVIOUS
  <2> HIDE DEF order, D
  <2>2. \A x \in D : <<x, x>> \notin order
    BY <1>1, <2>1
  <2>3. \A x, y \in D : x # y => <<x, y>> \in order \/ <<y, x>> \in order
    BY <1>1, <2>1
  <2>4. \A x, y, z \in D : <<x, y>> \in order /\ <<y, z>> \in order => <<x, z>> \in order
    BY <1>1, <2>1
  <2> QED
    BY <2>2, <2>3, <2>4 DEF Orders
<1>4. place \in Seq(D) /\ Len(place) = Len(s) /\ ToSet(place) = D
  <2> HIDE DEF order, D
  <2> QED
    BY <1>2, <1>3, InOrderIs
<1>5. Sorted(s) = r
  BY DEF Sorted
<1> HIDE DEF place, order
<1>6. DOMAIN place = D /\ \A k \in D : place[k] \in D
  BY <1>4
<1>7. r \in Seq(T) /\ Len(r) = Len(s) /\ DOMAIN r = D /\ \A k \in D : r[k] = s[place[k]]
  BY <1>1, <1>6
<1> HIDE DEF r, D
<1>8. ToSet(r) = ToSet(s)
  <2>1. ASSUME NEW k \in D PROVE r[k] \in ToSet(s)
    BY <1>1, <1>6, <1>7 DEF ToSet
  <2>2. ASSUME NEW i \in D PROVE s[i] \in ToSet(r)
    <3>1. PICK k \in D : place[k] = i
      BY <1>4, <1>6 DEF ToSet
    <3> QED
      BY <1>7, <3>1 DEF ToSet
  <2> QED
    BY <1>1, <1>7, <2>1, <2>2 DEF ToSet
<1> QED
  BY <1>5, <1>7, <1>8

\* What is dropped at i is replaced by the last item.
LEMMA DropAtIs ==
    ASSUME NEW T, NEW s \in Seq(T), NEW i \in 1..Len(s)
    PROVE  /\ DropAt(s, i) \in Seq(T) /\ Len(DropAt(s, i)) = Len(s) - 1
           /\ \A j \in 1..(Len(s) - 1) : DropAt(s, i)[j] = IF j = i THEN s[Len(s)] ELSE s[j]
<1> DEFINE t == IF i < Len(s) THEN [s EXCEPT ![i] = Last(s)] ELSE s
<1>1. Len(s) \in Nat /\ Len(s) >= 1 /\ Last(s) = s[Len(s)] /\ s[Len(s)] \in T
  BY DEF Last
<1>2. t \in Seq(T) /\ Len(t) = Len(s) /\ \A j \in 1..Len(s) : j # Len(s) => t[j] = IF j = i THEN s[Len(s)] ELSE s[j]
  BY <1>1
<1>3. DropAt(s, i) = SubSeq(t, 1, Len(t) - 1)
  BY DEF DropAt, Front
<1> HIDE DEF t
<1>4. DropAt(s, i) \in Seq(T) /\ Len(DropAt(s, i)) = Len(s) - 1
      /\ \A j \in 1..(Len(s) - 1) : DropAt(s, i)[j] = t[j]
  BY <1>1, <1>2, <1>3
<1> QED
  BY <1>1, <1>2, <1>4

\* A turn of the loop in Sanitize.
CleanTurn(m, n, s) ==
    IF n > Len(s.input) THEN s
    ELSE [input |-> IF Unwanted(m, s.input[n], s.seen) THEN DropAt(s.input, n) ELSE s.input,
          seen |-> s.seen \cup {s.input[n]}]

\* A turn leaves a list of the same kind.
LEMMA CleanTurnIs ==
    ASSUME NEW T, NEW m, NEW n \in Nat \ {0}, NEW s \in [input : Seq(T), seen : SUBSET T]
    PROVE  CleanTurn(m, n, s) \in [input : Seq(T), seen : SUBSET T]
<1>1. CASE n > Len(s.input)
  BY <1>1 DEF CleanTurn
<1>2. CASE ~(n > Len(s.input))
  <2>1. s.input \in Seq(T) /\ Len(s.input) \in Nat /\ n \in 1..Len(s.input) /\ s.input[n] \in T
    BY <1>2
  <2>2. DropAt(s.input, n) \in Seq(T)
    BY <2>1, DropAtIs
  <2> QED
    BY <1>2, <2>1, <2>2 DEF CleanTurn
<1> QED
  BY <1>1, <1>2

\* Sanitize, turn by turn.
CleansAs(T, m, l, after) ==
    /\ after \in [0..Len(l) -> [input : Seq(T), seen : SUBSET T]]
    /\ after[0] = [input |-> l, seen |-> {}]
    /\ \A n \in 1..Len(l) : after[n] = CleanTurn(m, n, after[n - 1])
    /\ Sanitize(m, l) = Sorted(after[Len(l)].input)

\* Sanitize runs turn by turn, and every turn has a state.
LEMMA SanitizeIs ==
    ASSUME NEW T, T \subseteq Nat, NEW m, NEW l \in Seq(T)
    PROVE  \E after : CleansAs(T, m, l, after)
<1> DEFINE N == Len(l)
           S == [input : Seq(T), seen : SUBSET T]
           a == [input |-> l, seen |-> {}]
           g == [x \in (1..N) \X S |-> CleanTurn(m, x[1], x[2])]
           Runs(h) == h = [n \in 0..N |-> IF n = 0 THEN [input |-> l, seen |-> {}]
                                          ELSE LET s == h[n - 1] IN
                                               IF n > Len(s.input) THEN s
                                               ELSE [input |-> IF Unwanted(m, s.input[n], s.seen)
                                                               THEN DropAt(s.input, n) ELSE s.input,
                                                     seen |-> s.seen \cup {s.input[n]}]]
           Turns(h) == h = [n \in 0..N |-> IF n = 0 THEN a ELSE CleanTurn(m, n, h[n - 1])]
           after == CHOOSE h : Runs(h)
<1>1. Sanitize(m, l) = Sorted(after[N].input)
  BY DEF Sanitize
<1>2. \A h : Runs(h) <=> Turns(h)
  BY DEF CleanTurn
<1>3. N \in Nat /\ a \in S
  OBVIOUS
<1>4. g \in [(1..N) \X S -> S] /\ \A n \in 1..N, s \in S : g[<<n, s>>] = CleanTurn(m, n, s)
  <2>1. \A n \in 1..N, s \in S : CleanTurn(m, n, s) \in S
    <3> SUFFICES ASSUME NEW n \in 1..N, NEW s \in S PROVE CleanTurn(m, n, s) \in S
      OBVIOUS
    <3>1. n \in Nat \ {0}
      BY <1>3
    <3> QED
      BY <3>1, CleanTurnIs
  <2> HIDE DEF S, N
  <2> QED
    BY <2>1
<1> HIDE DEF g, a, N, S
<1>5. PICK f \in [0..N -> S] : f[0] = a /\ \A n \in 1..N : f[n] = g[<<n, f[n - 1]>>]
  <2>1. IsLoop(S, a, N, g)
    BY <1>3, <1>4 DEF IsLoop
  <2> QED
    BY <2>1, LoopExists DEF RunsAs
<1>6. Turns(f)
  <2>1. \A n \in 1..N : f[n] = CleanTurn(m, n, f[n - 1])
    <3> SUFFICES ASSUME NEW n \in 1..N PROVE f[n] = CleanTurn(m, n, f[n - 1])
      OBVIOUS
    <3>1. n - 1 \in 0..N
      BY <1>3
    <3> QED
      BY <1>4, <1>5, <3>1
  <2>2. \A n \in 0..N : n = 0 \/ n \in 1..N
    BY <1>3
  <2>3. \A n \in 0..N : f[n] = IF n = 0 THEN a ELSE CleanTurn(m, n, f[n - 1])
    BY <1>5, <2>1, <2>2
  <2> QED
    BY <2>3
<1>7. Turns(after)
  <2> HIDE DEF Runs, Turns
  <2>1. Runs(f)
    BY <1>2, <1>6
  <2>2. Runs(after)
    BY <2>1
  <2> HIDE DEF after
  <2> QED
    BY <1>2, <2>2
<1> HIDE DEF after
<1>8. DOMAIN after = 0..N /\ after[0] = a /\ \A n \in 1..N : after[n] = CleanTurn(m, n, after[n - 1])
  <2>1. DOMAIN after = 0..N /\ \A n \in 0..N : after[n] = IF n = 0 THEN a ELSE CleanTurn(m, n, after[n - 1])
    BY <1>7
  <2>2. 0 \in 0..N /\ \A n \in 1..N : n \in 0..N /\ n # 0
    BY <1>3
  <2> HIDE DEF Turns
  <2> QED
    BY <2>1, <2>2
<1>9. after \in [0..N -> S]
  <2>1. after = [n \in 0..N |-> after[n]] /\ after[0] \in S
    BY <1>3, <1>7, <1>8
  <2>2. ASSUME NEW n \in 1..N, after[n - 1] \in S PROVE after[n] \in S
    <3> DEFINE s == after[n - 1]
    <3>1. n \in Nat \ {0} /\ s \in [input : Seq(T), seen : SUBSET T]
      BY <1>3, <2>2 DEF S
    <3> HIDE DEF s
    <3>2. CleanTurn(m, n, s) \in [input : Seq(T), seen : SUBSET T]
      BY <3>1, CleanTurnIs
    <3> QED
      BY <1>8, <3>2 DEF S, s
  <2> QED
    BY <1>3, <2>1, <2>2, LoopStays
<1> QED
  BY <1>1, <1>8, <1>9 DEF CleansAs, N, S, a

\* What Sanitize leaves is among what it was given, and has all that is wanted.
LEMMA SanitizeKeepsWanted ==
    ASSUME NEW T, T \subseteq Nat, NEW m, NEW l \in Seq(T)
    PROVE  Sanitize(m, l) \in Seq(T) /\ Wanted(m, l) \subseteq ToSet(Sanitize(m, l))
<1> DEFINE N == Len(l)
           S == [input : Seq(T), seen : SUBSET T]
<1>0. PICK after : CleansAs(T, m, l, after)
  BY SanitizeIs
<1>1. /\ after \in [0..N -> S] /\ after[0] = [input |-> l, seen |-> {}]
      /\ \A n \in 1..N : after[n] = CleanTurn(m, n, after[n - 1])
      /\ Sanitize(m, l) = Sorted(after[N].input)
  BY <1>0 DEF CleansAs
<1> DEFINE W == Wanted(m, l)
           At(s, x, n) == \E j \in 1..Len(s) : j <= n /\ s[j] = x
           Kept(n) == /\ \A x \in W : At(after[n].input, x, Len(after[n].input))
                      /\ \A x \in W \cap after[n].seen : At(after[n].input, x, n)
           U == {n \in 0..N : Kept(n)}
<1>2. N \in Nat /\ \A n \in 0..N : after[n].input \in Seq(T) /\ Len(after[n].input) \in Nat
  BY <1>1
<1>3. 0 \in U
  <2>1. \A x \in W : \E j \in 1..Len(l) : j <= Len(l) /\ l[j] = x
    BY DEF Wanted, ToSet
  <2>2. after[0].input = l /\ after[0].seen = {}
    BY <1>1
  <2>3. Kept(0)
    BY <2>1, <2>2
  <2> HIDE DEF Kept
  <2> QED
    BY <1>2, <2>3
<1>4. ASSUME NEW n \in 0..N, n \in U, n < N PROVE n + 1 \in U
  <2> DEFINE s == after[n].input
             seen == after[n].seen
             i == n + 1
             t == after[i].input
             drop == Unwanted(m, s[i], seen)
  <2>1. i \in 1..N /\ i \in 0..N /\ i - 1 = n /\ after[i] = CleanTurn(m, i, after[n])
    <3>1. i \in 1..N /\ i \in 0..N /\ i - 1 = n
      BY <1>2, <1>4
    <3> QED
      BY <1>1, <3>1
  <2>2. Kept(n)
    BY <1>4
  <2>3. CASE i > Len(s)
    <3>1. after[i] = after[n]
      BY <2>1, <2>3 DEF CleanTurn
    <3>2. Kept(i)
      BY <1>4, <2>2, <3>1
    <3> HIDE DEF Kept
    <3> QED
      BY <2>1, <3>2
  <2>4. CASE ~(i > Len(s))
    <3>1. t = (IF drop THEN DropAt(s, i) ELSE s) /\ after[i].seen = seen \cup {s[i]}
      BY <2>1, <2>4 DEF CleanTurn
    <3>2. s \in Seq(T) /\ Len(s) \in Nat /\ i \in 1..Len(s) /\ i \in Nat /\ n \in Nat /\ n < i
      BY <1>2, <2>1, <2>4
    <3>3. \A x \in W : At(s, x, Len(s))
      BY <2>2
    <3>4. \A x \in W \cap seen : At(s, x, n)
      BY <2>2
    <3>5. CASE ~drop
      <4>1. t = s
        BY <3>1, <3>5
      <4> HIDE DEF s, t, i, seen, drop, W
      <4>2. \A x \in W \cap (seen \cup {s[i]}) : At(s, x, i)
        BY <3>2, <3>4
      <4>3. Kept(i)
        BY <3>1, <3>3, <4>1, <4>2 DEF t
      <4> HIDE DEF Kept
      <4> QED
        BY <2>1, <4>3 DEF i
    <3>6. CASE drop
      <4>1. /\ Len(t) = Len(s) - 1
            /\ \A j \in 1..(Len(s) - 1) : t[j] = IF j = i THEN s[Len(s)] ELSE s[j]
        <5>1. t = DropAt(s, i)
          BY <3>1, <3>6
        <5> HIDE DEF s, t, i
        <5> QED
          BY <3>2, <5>1, DropAtIs
      <4>2. s[i] \in W => s[i] \in seen
        BY <3>6 DEF Unwanted, Wanted
      <4> HIDE DEF s, t, i, seen, drop, W
      <4>3. ASSUME NEW x \in W \cap (seen \cup {s[i]}) PROVE At(t, x, n)
        <5>1. PICK j \in 1..Len(s) : j <= n /\ s[j] = x
          BY <3>4, <4>2
        <5>2. j \in 1..(Len(s) - 1) /\ j # i
          BY <3>2, <5>1
        <5> QED
          BY <4>1, <5>1, <5>2
      <4>4. ASSUME NEW x \in W PROVE At(t, x, Len(t))
        <5>1. PICK j \in 1..Len(s) : s[j] = x
          BY <3>3
        <5>2. CASE j = i
          <6>1. PICK k \in 1..Len(t) : k <= n /\ t[k] = x
            BY <4>3, <5>1, <5>2
          <6> QED
            BY <3>2, <4>1, <6>1
        <5>3. CASE j # i /\ j = Len(s)
          <6>1. i \in 1..(Len(s) - 1) /\ t[i] = x
            BY <3>2, <4>1, <5>1, <5>3
          <6> QED
            BY <3>2, <4>1, <6>1
        <5>4. CASE j # i /\ j # Len(s)
          <6>1. j \in 1..(Len(s) - 1) /\ t[j] = x
            BY <3>2, <4>1, <5>1, <5>4
          <6> QED
            BY <3>2, <4>1, <6>1
        <5> QED
          BY <5>2, <5>3, <5>4
      <4>5. ASSUME NEW x \in W \cap (seen \cup {s[i]}) PROVE At(t, x, i)
        <5>1. PICK j \in 1..Len(t) : j <= n /\ t[j] = x
          BY <4>3, <4>5
        <5>2. j <= i
          BY <3>2, <4>1, <5>1
        <5> QED
          BY <5>1, <5>2
      <4>6. Kept(i)
        BY <3>1, <4>4, <4>5 DEF t
      <4> HIDE DEF Kept
      <4> QED
        BY <2>1, <4>6 DEF i
    <3> QED
      BY <3>5, <3>6
  <2> QED
    BY <2>3, <2>4
<1>5. N \in U
  <2> HIDE DEF U, N
  <2>1. \A n \in 0..N : n \in U
    BY <1>2, <1>3, <1>4, LoopInduction
  <2> QED
    BY <1>2, <2>1
<1>6. Sanitize(m, l) \in Seq(T) /\ ToSet(Sanitize(m, l)) = ToSet(after[N].input)
  <2> DEFINE s == after[N].input
  <2>1. s \in Seq(T) /\ Sanitize(m, l) = Sorted(s)
    BY <1>1, <1>2
  <2> HIDE DEF s
  <2>2. Sanitize(m, l) \in Seq(T) /\ ToSet(Sanitize(m, l)) = ToSet(s)
    BY <2>1, SortedIs
  <2> QED
    BY <2>2 DEF s
<1>7. \A x \in W : \E j \in 1..Len(after[N].input) : after[N].input[j] = x
  BY <1>5
<1>8. W \subseteq ToSet(after[N].input)
  <2> DEFINE s == after[N].input
  <2>1. s \in Seq(T) /\ \A x \in W : \E j \in 1..Len(s) : s[j] = x
    BY <1>2, <1>7
  <2> HIDE DEF s, W
  <2>2. W \subseteq ToSet(s)
    BY <2>1 DEF ToSet
  <2> QED
    BY <2>2 DEF s
<1> QED
  BY <1>6, <1>8

-----------------------------------------------------------------------------
(* The merge of the sets of a view with those requested                    *)

MergeStates(assocs, req) == [v : 1..(Len(assocs) + 1), r : 1..Len(req), hit : BOOLEAN]

\* The fields of an association.
LEMMA AssocIs ==
    ASSUME NEW assocs \in Seq(Assoc), NEW i \in 1..Len(assocs), NEW since \in Int
    PROVE  /\ assocs[i].name \in SetNames /\ assocs[i].name \in Nat /\ assocs[i].active \in BOOLEAN
           /\ assocs[i].lastUpdated \in Int /\ Considered(assocs[i], since) \in BOOLEAN
<1>1. assocs[i] \in Assoc
  OBVIOUS
<1>2. assocs[i].name \in SetNames /\ assocs[i].name \in Nat /\ assocs[i].lastUpdated \in Int
  <2> DEFINE a == assocs[i]
  <2>1. a.name \in SetNames /\ a.lastUpdated \in 1..MaxCN
    BY <1>1 DEF Assoc
  <2> HIDE DEF a
  <2>2. a.name \in Nat
    BY <2>1, HistoricAssumption
  <2>3. a.lastUpdated \in Int
    BY <2>1, HistoricAssumption
  <2> QED
    BY <2>1, <2>2, <2>3 DEF a
<1>3. assocs[i].active \in BOOLEAN
  BY <1>1 DEF Assoc
<1>4. Considered(assocs[i], since) \in BOOLEAN
  BY Zenon DEF Considered
<1> QED
  BY <1>2, <1>3, <1>4

\* What a turn of the merge does, case by case.
LEMMA MergeTurnIs ==
    ASSUME NEW assocs \in Seq(Assoc), NEW req \in Seq(SetNames), NEW since \in Int,
           NEW s \in MergeStates(assocs, req)
    PROVE  LET t == MergeTurn(assocs, since, req, s) IN
           /\ t \in MergeStates(assocs, req)
           /\ s.hit \/ s.v > Len(assocs) => t = s
           /\ ~s.hit /\ s.v <= Len(assocs) =>
                 /\ s.v + s.r < t.v + t.r \/ t.hit
                 /\ t.hit => assocs[s.v].name = req[s.r] /\ Considered(assocs[s.v], since)
                 /\ t.v = s.v \/ t.v = s.v + 1
                 /\ t.v = s.v + 1 /\ ~t.hit =>
                       \/ assocs[s.v].name > req[s.r]
                       \/ assocs[s.v].name < req[s.r]
                       \/ ~Considered(assocs[s.v], since)
<1> DEFINE t == MergeTurn(assocs, since, req, s)
           L == Len(assocs)
           M == Len(req)
           next == IncrUpTo(s.r, M)
<1>1. L \in Nat /\ M \in Nat
  OBVIOUS
<1>2. /\ s = [v |-> s.v, r |-> s.r, hit |-> s.hit]
      /\ s.v \in 1..(L + 1) /\ s.r \in 1..M /\ s.hit \in BOOLEAN
  BY DEF MergeStates
<1>3. next = (IF s.r >= M THEN s.r ELSE s.r + 1) /\ next \in 1..M
  BY <1>1, <1>2 DEF IncrUpTo
<1>4. CASE s.hit \/ s.v > L
  BY <1>1, <1>2, <1>4 DEF MergeTurn
<1>5. CASE ~(s.hit \/ s.v > L)
  <2> DEFINE a == assocs[s.v].name
             b == req[s.r]
             c == Considered(assocs[s.v], since)
  <2>1. a \in Nat /\ c \in BOOLEAN /\ b \in Nat
    <3>1. s.v \in 1..Len(assocs)
      BY <1>1, <1>2, <1>5
    <3>2. b \in SetNames
      BY <1>2
    <3> QED
      BY <3>1, <3>2, AssocIs, HistoricAssumption
  <2>2. t = IF a = b THEN [v |-> s.v + 1, r |-> next, hit |-> c]
            ELSE IF a < b THEN [v |-> s.v + 1, r |-> s.r, hit |-> FALSE]
            ELSE [v |-> IF next = M THEN s.v + 1 ELSE s.v, r |-> next, hit |-> FALSE]
    BY <1>5 DEF MergeTurn
  <2> HIDE DEF a, b, c, next, L, M, t
  <2>3. /\ t = [v |-> t.v, r |-> t.r, hit |-> t.hit] /\ t.v \in {s.v, s.v + 1} /\ t.r \in {s.r, next}
        /\ t.hit \in BOOLEAN
        /\ t.hit => a = b /\ c
        /\ s.v + s.r < t.v + t.r
        /\ t.v = s.v + 1 /\ ~t.hit => a > b \/ a < b \/ ~c
    <3>1. CASE a = b
      BY <1>1, <1>2, <1>3, <1>5, <2>1, <2>2, <3>1
    <3>2. CASE a < b
      <4>1. t = [v |-> s.v + 1, r |-> s.r, hit |-> FALSE]
        BY <2>1, <2>2, <3>2
      <4>2. t.v = s.v + 1 /\ t.r = s.r /\ ~t.hit /\ t.hit \in BOOLEAN /\ t = [v |-> t.v, r |-> t.r, hit |-> t.hit]
        BY <4>1
      <4> QED
        <5>1. s.v \in Nat /\ s.r \in Nat
          BY <1>1, <1>2
        <5>2. t.v \in {s.v, s.v + 1} /\ t.r \in {s.r, next} /\ s.v + s.r < t.v + t.r
          BY <4>2, <5>1
        <5> QED
          BY <3>2, <4>2, <5>2
    <3>3. CASE a > b
      <4> DEFINE w == IF next = M THEN s.v + 1 ELSE s.v
      <4>1. t = [v |-> w, r |-> next, hit |-> FALSE]
        BY <2>1, <2>2, <3>3
      <4>2. w \in {s.v, s.v + 1} /\ s.v + s.r < w + next
        BY <1>1, <1>2, <1>3
      <4> HIDE DEF w
      <4>3. t.v = w /\ t.r = next /\ ~t.hit /\ t.hit \in BOOLEAN /\ t = [v |-> t.v, r |-> t.r, hit |-> t.hit]
        BY <4>1
      <4> QED
        BY <3>3, <4>2, <4>3
    <3> QED
      BY <2>1, <3>1, <3>2, <3>3
  <2>4. t \in MergeStates(assocs, req)
    BY <1>1, <1>2, <1>3, <1>5, <2>3 DEF MergeStates, L, M
  <2> QED
    BY <1>5, <2>3, <2>4 DEF a, b, c, t, L
<1> QED
  BY <1>4, <1>5

MergesAs(assocs, since, req, after) ==
    LET N == Len(assocs) + Len(req) IN
    /\ after \in [0..N -> MergeStates(assocs, req)]
    /\ after[0] = [v |-> 1, r |-> 1, hit |-> FALSE]
    /\ \A n \in 1..N : after[n] = MergeTurn(assocs, since, req, after[n - 1])
    /\ MergeSets(assocs, since, req) = after[N].hit

\* The merge, turn by turn.
LEMMA MergeSetsIs ==
    ASSUME NEW assocs \in Seq(Assoc), NEW req \in Seq(SetNames), req # <<>>, NEW since \in Int
    PROVE  \E after : MergesAs(assocs, since, req, after)
<1> DEFINE N == Len(assocs) + Len(req)
           S == MergeStates(assocs, req)
           a == [v |-> 1, r |-> 1, hit |-> FALSE]
           g == [x \in (1..N) \X S |-> MergeTurn(assocs, since, req, x[2])]
           Turns(h) == h = [n \in 0..N |-> IF n = 0 THEN a ELSE MergeTurn(assocs, since, req, h[n - 1])]
           after == CHOOSE h : Turns(h)
<1>1. MergeSets(assocs, since, req) = after[N].hit
  BY DEF MergeSets
<1>2. N \in Nat /\ a \in S
  BY DEF MergeStates
<1>3. g \in [(1..N) \X S -> S] /\ \A n \in 1..N, s \in S : g[<<n, s>>] = MergeTurn(assocs, since, req, s)
  <2>1. \A s \in S : MergeTurn(assocs, since, req, s) \in S
    BY MergeTurnIs
  <2> HIDE DEF S, N
  <2> QED
    BY <2>1
<1> HIDE DEF g, a, N, S
<1>4. PICK f \in [0..N -> S] : f[0] = a /\ \A n \in 1..N : f[n] = g[<<n, f[n - 1]>>]
  <2>1. IsLoop(S, a, N, g)
    BY <1>2, <1>3 DEF IsLoop
  <2> QED
    BY <2>1, LoopExists DEF RunsAs
<1>5. Turns(f)
  <2>1. \A n \in 1..N : f[n] = MergeTurn(assocs, since, req, f[n - 1])
    <3> SUFFICES ASSUME NEW n \in 1..N PROVE f[n] = MergeTurn(assocs, since, req, f[n - 1])
      OBVIOUS
    <3>1. n - 1 \in 0..N
      BY <1>2
    <3> QED
      BY <1>3, <1>4, <3>1
  <2>2. \A n \in 0..N : n = 0 \/ n \in 1..N
    BY <1>2
  <2>3. \A n \in 0..N : f[n] = IF n = 0 THEN a ELSE MergeTurn(assocs, since, req, f[n - 1])
    BY <1>4, <2>1, <2>2
  <2> QED
    BY <2>3
<1>6. Turns(after)
  <2> HIDE DEF Turns
  <2> QED
    BY <1>5
<1> HIDE DEF after
<1>7. DOMAIN after = 0..N /\ after[0] = a /\ \A n \in 1..N : after[n] = MergeTurn(assocs, since, req, after[n - 1])
  <2>1. DOMAIN after = 0..N /\ \A n \in 0..N : after[n] = IF n = 0 THEN a ELSE MergeTurn(assocs, since, req, after[n - 1])
    BY <1>6
  <2>2. 0 \in 0..N /\ \A n \in 1..N : n \in 0..N /\ n # 0
    BY <1>2
  <2> HIDE DEF Turns
  <2> QED
    BY <2>1, <2>2
<1>8. after \in [0..N -> S]
  <2>1. after = [n \in 0..N |-> after[n]] /\ after[0] \in S
    BY <1>2, <1>6, <1>7
  <2>2. \A s \in S : MergeTurn(assocs, since, req, s) \in S
    BY MergeTurnIs DEF S
  <2>3. \A n \in 1..N : after[n - 1] \in S => after[n] \in S
    BY <1>7, <2>2
  <2> QED
    BY <1>2, <2>1, <2>3, LoopStays
<1> QED
  BY <1>1, <1>7, <1>8 DEF MergesAs, N, S, a

\* A requested set that the view is, or was until after since, associated to.
Matches(assocs, since, req) ==
    \E i \in 1..Len(assocs), k \in 1..Len(req) :
        assocs[i].name = req[k] /\ Considered(assocs[i], since)

\* The merge finds nothing that is not there.
LEMMA MergeIsSound ==
    ASSUME NEW assocs \in Seq(Assoc), NEW req \in Seq(SetNames), req # <<>>, NEW since \in Int,
           MergeSets(assocs, since, req)
    PROVE  Matches(assocs, since, req)
<1> DEFINE N == Len(assocs) + Len(req)
           S == MergeStates(assocs, req)
<1>1. PICK after : MergesAs(assocs, since, req, after)
  BY MergeSetsIs
<1>2. /\ after \in [0..N -> S] /\ after[0] = [v |-> 1, r |-> 1, hit |-> FALSE]
      /\ \A n \in 1..N : after[n] = MergeTurn(assocs, since, req, after[n - 1])
      /\ MergeSets(assocs, since, req) = after[N].hit
  BY <1>1 DEF MergesAs
<1> DEFINE U == {n \in 0..N : after[n].hit => Matches(assocs, since, req)}
<1>3. N \in Nat /\ 0 \in U
  BY <1>2
<1>4. ASSUME NEW n \in 0..N, n \in U, n < N PROVE n + 1 \in U
  <2> DEFINE s == after[n]
             t == after[n + 1]
  <2>1. n + 1 \in 0..N /\ s \in S /\ t = MergeTurn(assocs, since, req, s)
    <3>1. n + 1 \in 1..N /\ n + 1 \in 0..N /\ (n + 1) - 1 = n
      BY <1>3, <1>4
    <3> QED
      BY <1>2, <3>1
  <2>2. s.hit => Matches(assocs, since, req)
    BY <1>4
  <2> HIDE DEF s, t, N
  <2>3. /\ s.hit \/ s.v > Len(assocs) => t = s
        /\ ~s.hit /\ s.v <= Len(assocs) /\ t.hit => assocs[s.v].name = req[s.r] /\ Considered(assocs[s.v], since)
    BY <2>1, MergeTurnIs
  <2>4. s.v \in 1..(Len(assocs) + 1) /\ s.r \in 1..Len(req) /\ Len(assocs) \in Nat
    BY <2>1 DEF MergeStates
  <2>5. t.hit => Matches(assocs, since, req)
    <3>1. CASE s.hit \/ s.v > Len(assocs)
      BY <2>2, <2>3, <3>1
    <3>2. CASE ~(s.hit \/ s.v > Len(assocs))
      <4>1. s.v \in 1..Len(assocs) /\ s.v <= Len(assocs)
        BY <2>4, <3>2
      <4> QED
        BY <2>3, <2>4, <3>2, <4>1 DEF Matches
    <3> QED
      BY <3>1, <3>2
  <2> QED
    BY <2>1, <2>5 DEF t
<1>5. N \in U
  <2> HIDE DEF U, N
  <2>1. \A n \in 0..N : n \in U
    BY <1>3, <1>4, LoopInduction
  <2> QED
    BY <1>3, <2>1
<1> QED
  BY <1>2, <1>5

\* It misses nothing if a single set is requested, however often.
LEMMA MergeIsComplete ==
    ASSUME NEW assocs \in Seq(Assoc), NEW req \in Seq(SetNames), req # <<>>, NEW since \in Int,
           \A i, j \in 1..Len(req) : req[i] = req[j],
           Matches(assocs, since, req)
    PROVE  MergeSets(assocs, since, req)
<1> DEFINE N == Len(assocs) + Len(req)
           L == Len(assocs)
           S == MergeStates(assocs, req)
           Match(i) == assocs[i].name = req[1] /\ Considered(assocs[i], since)
<1>0. /\ L \in Nat /\ Len(req) \in Nat /\ Len(req) >= 1
      /\ \A k \in 1..Len(req) : req[k] = req[1] /\ req[k] \in Nat
  <2>1. L \in Nat /\ Len(req) \in Nat /\ Len(req) >= 1
    OBVIOUS
  <2>2. \A k \in 1..Len(req) : req[k] \in SetNames
    OBVIOUS
  <2>3. \A k \in 1..Len(req) : req[k] \in Nat
    BY <2>2, HistoricAssumption
  <2>4. 1 \in 1..Len(req)
    BY <2>1
  <2>5. \A k \in 1..Len(req) : req[k] = req[1]
    BY <2>4
  <2> QED
    BY <2>1, <2>3, <2>5
<1>1. PICK after : MergesAs(assocs, since, req, after)
  BY MergeSetsIs
<1>2. /\ after \in [0..N -> S] /\ after[0] = [v |-> 1, r |-> 1, hit |-> FALSE]
      /\ \A n \in 1..N : after[n] = MergeTurn(assocs, since, req, after[n - 1])
      /\ MergeSets(assocs, since, req) = after[N].hit
  BY <1>1 DEF MergesAs
<1> DEFINE Ahead(s) == \A i \in 1..L : Match(i) => i >= s.v
           Fine(n) == \/ after[n].hit
                      \/ Ahead(after[n]) /\ (after[n].v > L \/ after[n].v + after[n].r >= n + 2)
           U == {n \in 0..N : Fine(n)}
<1>3. N \in Nat /\ 0 \in U
  <2>1. N \in Nat /\ 0 \in 0..N
    BY <1>0
  <2> HIDE DEF N
  <2>2. Fine(0)
    BY <1>0, <1>2
  <2> HIDE DEF Fine
  <2> QED
    BY <2>1, <2>2
<1>4. ASSUME NEW n \in 0..N, n \in U, n < N PROVE n + 1 \in U
  <2> DEFINE s == after[n]
             t == after[n + 1]
  <2>1. n + 1 \in 0..N /\ n \in Nat /\ s \in S /\ t = MergeTurn(assocs, since, req, s)
    <3>1. n + 1 \in 1..N /\ n + 1 \in 0..N /\ (n + 1) - 1 = n /\ n \in Nat
      BY <1>3, <1>4
    <3> QED
      BY <1>2, <3>1
  <2>2. s.hit \/ (Ahead(s) /\ (s.v > L \/ s.v + s.r >= n + 2))
    BY <1>4
  <2> HIDE DEF s, t, N
  <2>3. /\ t \in MergeStates(assocs, req)
        /\ s.hit \/ s.v > Len(assocs) => t = s
        /\ ~s.hit /\ s.v <= Len(assocs) =>
              /\ s.v + s.r < t.v + t.r \/ t.hit
              /\ t.v = s.v \/ t.v = s.v + 1
              /\ t.v = s.v + 1 /\ ~t.hit =>
                    \/ assocs[s.v].name > req[s.r]
                    \/ assocs[s.v].name < req[s.r]
                    \/ ~Considered(assocs[s.v], since)
    BY <2>1, MergeTurnIs
  <2>4. /\ s.v \in 1..(L + 1) /\ s.r \in 1..Len(req) /\ t.v \in 1..(L + 1) /\ t.r \in 1..Len(req)
    BY <2>1, <2>3 DEF MergeStates
  <2>5. t.hit \/ (Ahead(t) /\ (t.v > L \/ t.v + t.r >= (n + 1) + 2))
    <3>1. CASE s.hit \/ s.v > L
      BY <2>2, <2>3, <3>1
    <3>2. CASE ~(s.hit \/ s.v > L) /\ ~t.hit
      <4>1. s.v <= L /\ s.v \in 1..L /\ ~s.hit
        BY <1>0, <2>4, <3>2
      <4>2. s.v + s.r < t.v + t.r /\ s.v + s.r >= n + 2
        BY <2>2, <2>3, <3>2, <4>1
      <4>3. t.v + t.r >= (n + 1) + 2
        BY <1>0, <2>1, <2>4, <4>2
      <4>4. Ahead(s)
        BY <2>2, <3>2
      <4>5. t.v = s.v + 1 => ~Match(s.v)
        <5>1. assocs[s.v].name \in Nat
          BY <4>1, AssocIs
        <5>2. req[s.r] = req[1] /\ req[1] \in Nat
          BY <1>0, <2>4
        <5>3. t.v = s.v + 1 => \/ assocs[s.v].name > req[1]
                               \/ assocs[s.v].name < req[1]
                               \/ ~Considered(assocs[s.v], since)
          BY <2>3, <3>2, <4>1, <5>2
        <5> QED
          BY <5>1, <5>2, <5>3
      <4> HIDE DEF Match
      <4>6. Ahead(t)
        <5>1. ASSUME NEW i \in 1..L, Match(i) PROVE i >= t.v
          <6>1. i >= s.v /\ i \in Nat
            BY <1>0, <4>4, <5>1
          <6>2. t.v = s.v + 1 => i # s.v
            BY <4>5, <5>1
          <6>3. t.v = s.v \/ t.v = s.v + 1
            BY <2>3, <3>2, <4>1
          <6> QED
            BY <1>0, <2>4, <6>1, <6>2, <6>3
        <5> QED
          BY <5>1
      <4> QED
        BY <4>3, <4>6
    <3> QED
      BY <3>1, <3>2
  <2>6. Fine(n + 1)
    BY <2>5 DEF t
  <2> HIDE DEF Fine
  <2> QED
    BY <2>1, <2>6
<1>5. N \in U
  <2> HIDE DEF U, N
  <2>1. \A n \in 0..N : n \in U
    BY <1>3, <1>4, LoopInduction
  <2> QED
    BY <1>3, <2>1
<1>6. after[N] \in S
  BY <1>2, <1>3
<1>7. after[N].v \in 1..(L + 1) /\ after[N].r \in 1..Len(req) /\ after[N].hit \in BOOLEAN
  BY <1>6 DEF MergeStates
<1>8. PICK i \in 1..L : Match(i)
  <2>1. PICK i \in 1..Len(assocs), k \in 1..Len(req) :
            assocs[i].name = req[k] /\ Considered(assocs[i], since)
    BY DEF Matches
  <2> QED
    BY <1>0, <2>1
<1>9. SUFFICES ASSUME ~after[N].hit PROVE FALSE
  BY <1>2, <1>7
<1>10. Ahead(after[N]) /\ (after[N].v > L \/ after[N].v + after[N].r >= N + 2)
  BY <1>5, <1>9
<1>11. after[N].v > L
  <2> DEFINE s == after[N]
             M == Len(req)
  <2>1. s.v \in 1..(L + 1) /\ s.r \in 1..M /\ (s.v > L \/ s.v + s.r >= L + M + 2) /\ M \in Nat /\ L \in Nat
    BY <1>0, <1>7, <1>10
  <2> HIDE DEF s, L, M
  <2>2. s.v > L
    BY <2>1
  <2> QED
    BY <2>2 DEF s
<1>12. i >= after[N].v
  <2> HIDE DEF Match
  <2> QED
    BY <1>8, <1>10
<1> QED
  BY <1>0, <1>7, <1>8, <1>11, <1>12

-----------------------------------------------------------------------------
(* The views                                                               *)

NamesOf(assocs) == {assocs[i].name : i \in 1..Len(assocs)}

View == [name : Flags, active : BOOLEAN, lastUpdated : 1..MaxCN, sets : Seq(Assoc)]

\* Associations of flag f, by name, to sets it had at change n or before.
AssocsPast(l, assocs, f, n) ==
    /\ assocs \in Seq(Assoc)
    /\ \A i, j \in 1..Len(assocs) : i < j => assocs[i].name < assocs[j].name
    /\ \A i \in 1..Len(assocs) :
          /\ assocs[i].lastUpdated <= n
          /\ \E m \in 1..n : l[m].name = f /\ assocs[i].name \in l[m].sets

\* As of change n: the sets it has then are active, the others inactive since n.
AssocsFit(l, assocs, f, n) ==
    /\ AssocsPast(l, assocs, f, n)
    /\ l[n].sets \subseteq NamesOf(assocs)
    /\ \A i \in 1..Len(assocs) :
          /\ assocs[i].active <=> assocs[i].name \in l[n].sets
          /\ ~assocs[i].active => assocs[i].lastUpdated = n

\* A view is that of the last change of its flag up to cn.
ViewFits(l, cn, v) ==
    /\ v \in View
    /\ v.lastUpdated \in 1..cn /\ v.lastUpdated = LatestCN(l, v.name, cn)
    /\ v.active = l[v.lastUpdated].active
    /\ AssocsFit(l, v.sets, v.name, v.lastUpdated)

\* Of the sets that flag f had when it was active at b there is a view that knows them.
Traced(l, views, f, b) ==
    LET n == LatestCN(l, f, b) IN
    n > 0 /\ l[n].active =>
        \E i \in 1..Len(views) : views[i].name = f /\ l[n].sets \subseteq NamesOf(views[i].sets)

Fits(l, cn, bs, views) ==
    /\ views \in Seq(View)
    /\ \A i, j \in 1..Len(views) : i < j => views[i].lastUpdated < views[j].lastUpdated
    /\ \A i \in 1..Len(views) : ViewFits(l, cn, views[i])
    /\ \A f \in Flags, b \in bs : b # -1 => Traced(l, views, f, b)

IInv ==
    /\ log \in Seq(FlagChange) /\ Len(log) <= MaxCN
    /\ synced \in -1..Len(log) /\ synced # 0 /\ synced \in bounds
    /\ bounds \subseteq -1..synced /\ 0 \notin bounds
    /\ synced = -1 => data = <<>>
    /\ Fits(log, synced, bounds, data)
    /\ list \in Seq(SetNames)

\* A change that is published leaves the past as it was.
LEMMA PastStays ==
    ASSUME NEW l \in Seq(FlagChange), NEW c \in FlagChange
    PROVE  /\ Append(l, c) \in Seq(FlagChange) /\ Len(Append(l, c)) = Len(l) + 1
           /\ \A n \in 1..Len(l) : Append(l, c)[n] = l[n]
           /\ \A f, t : t \in -1..Len(l) => LatestCN(Append(l, c), f, t) = LatestCN(l, f, t)
<1>1. \A n \in 1..Len(l) : Append(l, c)[n] = l[n]
  OBVIOUS
<1>2. ASSUME NEW f, NEW t \in -1..Len(l) PROVE LatestCN(Append(l, c), f, t) = LatestCN(l, f, t)
  <2>1. ChangesOf(Append(l, c), f, t) = ChangesOf(l, f, t)
    BY <1>1 DEF ChangesOf
  <2> QED
    BY <2>1 DEF LatestCN
<1> QED
  BY <1>1, <1>2

\* A change that is published does not disturb what the views know.
LEMMA FitsStays ==
    ASSUME NEW l \in Seq(FlagChange), NEW c \in FlagChange, NEW cn \in -1..Len(l),
           NEW bs, bs \subseteq -1..cn, NEW views, Fits(l, cn, bs, views)
    PROVE  Fits(Append(l, c), cn, bs, views)
<1> DEFINE k == Append(l, c)
<1>1. /\ \A n \in 1..Len(l) : k[n] = l[n]
      /\ \A f, t : t \in -1..Len(l) => LatestCN(k, f, t) = LatestCN(l, f, t)
  BY PastStays
<1>2. Len(l) \in Nat /\ cn \in Int
  OBVIOUS
<1> HIDE DEF k
<1>3. ASSUME NEW assocs, NEW f, NEW n \in 1..cn, AssocsFit(l, assocs, f, n) PROVE AssocsFit(k, assocs, f, n)
  <2>1. n \in 1..Len(l) /\ \A m \in 1..n : m \in 1..Len(l)
    BY <1>2
  <2>2. AssocsPast(k, assocs, f, n)
    BY <1>1, <1>3, <2>1 DEF AssocsFit, AssocsPast
  <2> QED
    BY <1>1, <1>3, <2>1, <2>2 DEF AssocsFit
<1>4. ASSUME NEW v, ViewFits(l, cn, v) PROVE ViewFits(k, cn, v)
  <2>1. v.lastUpdated \in 1..cn /\ AssocsFit(l, v.sets, v.name, v.lastUpdated)
    BY <1>4 DEF ViewFits
  <2>2. AssocsFit(k, v.sets, v.name, v.lastUpdated)
    BY <1>3, <2>1
  <2>3. v.lastUpdated \in 1..Len(l)
    BY <1>2, <2>1
  <2> QED
    BY <1>1, <1>4, <2>2, <2>3 DEF ViewFits
<1>5. ASSUME NEW f \in Flags, NEW b \in bs, b # -1, Traced(l, views, f, b) PROVE Traced(k, views, f, b)
  <2>1. b \in -1..Len(l) /\ b \in Nat
    BY <1>2, <1>5
  <2>2. LatestCN(k, f, b) = LatestCN(l, f, b)
    BY <1>1, <2>1
  <2>3. LatestCN(l, f, b) = 0 \/ LatestCN(l, f, b) \in 1..Len(l)
    BY <1>2, <2>1, LatestInRange
  <2> QED
    BY <1>1, <1>5, <2>2, <2>3 DEF Traced
<1> QED
  BY <1>4, <1>5 DEF Fits, k

-----------------------------------------------------------------------------
(* Updates                                                                 *)

\* The elements of a list.
LEMMA ListIsFinite ==
    ASSUME NEW T, NEW s \in Seq(T)
    PROVE  IsFiniteSet(ToSet(s)) /\ IsFiniteSet(1..Len(s)) /\ ToSet(s) = {s[i] : i \in 1..Len(s)}
<1>1. ToSet(s) = {s[i] : i \in 1..Len(s)}
  BY DEF ToSet
<1>2. Len(s) \in Int /\ 1 \in Int
  OBVIOUS
<1>3. IsFiniteSet(1..Len(s))
  <2> DEFINE N == Len(s)
  <2> HIDE DEF N
  <2>1. IsFiniteSet(1..N)
    BY <1>2, FS_Interval DEF N
  <2> QED
    BY <2>1 DEF N
<1>4. IsFiniteSet({s[i] : i \in 1..Len(s)})
  BY <1>3, ImageIsFinite
<1> QED
  BY <1>1, <1>3, <1>4

\* What becomes of an association.
Touched(a, incoming, cn) ==
    IF a.name \in incoming
    THEN IF a.active THEN a ELSE [a EXCEPT !.active = TRUE, !.lastUpdated = cn]
    ELSE [a EXCEPT !.active = FALSE, !.lastUpdated = cn]

\* An association follows whether its set comes in; if it is inactive, it is since now.
LEMMA TouchedIs ==
    ASSUME NEW a \in Assoc, NEW incoming, NEW cn \in 1..MaxCN, NEW t, t = Touched(a, incoming, cn)
    PROVE  /\ t \in Assoc /\ t.name = a.name
           /\ t.active <=> a.name \in incoming
           /\ ~t.active => t.lastUpdated = cn
           /\ t.lastUpdated = a.lastUpdated \/ t.lastUpdated = cn
<1>1. CASE a.name \in incoming /\ a.active
  <2>1. t = a
    BY <1>1 DEF Touched
  <2> QED
    BY <1>1, <2>1
<1>2. CASE a.name \in incoming /\ ~a.active
  <2>1. t = [a EXCEPT !.active = TRUE, !.lastUpdated = cn]
    BY <1>2 DEF Touched
  <2>2. t \in Assoc /\ t.name = a.name /\ t.active /\ t.lastUpdated = cn
    BY <2>1 DEF Assoc
  <2> QED
    BY <1>2, <2>2
<1>3. CASE a.name \notin incoming
  <2>1. t = [a EXCEPT !.active = FALSE, !.lastUpdated = cn]
    BY <1>3 DEF Touched
  <2>2. t \in Assoc /\ t.name = a.name /\ ~t.active /\ t.lastUpdated = cn
    BY <2>1 DEF Assoc
  <2> QED
    BY <1>3, <2>2
<1> QED
  BY <1>1, <1>2, <1>3

\* The associations after a change are those of before, and they fit the change.
LEMMA UpdateFlagSetsIs ==
    ASSUME NEW l \in Seq(FlagChange), Len(l) <= MaxCN, NEW n \in 1..Len(l),
           NEW f, f = l[n].name, NEW assocs, AssocsPast(l, assocs, f, n)
    PROVE  LET q == UpdateFlagSets(assocs, l[n].sets, n) IN
           AssocsFit(l, q, f, n) /\ NamesOf(assocs) \subseteq NamesOf(q)
<1> DEFINE incoming == l[n].sets
           known == {a.name : a \in ToSet(assocs)}
           touched == {Touched(a, incoming, n) : a \in ToSet(assocs)}
           added == {[name |-> s, active |-> TRUE, lastUpdated |-> n] : s \in incoming \ known}
           S == touched \cup added
           q == UpdateFlagSets(assocs, incoming, n)
           Had(x) == x.lastUpdated <= n /\ \E m \in 1..n : l[m].name = f /\ x.name \in l[m].sets
<1>1. q = InOrder(S, ByName(S))
  BY DEF UpdateFlagSets, Touched
<1>2. incoming \subseteq SetNames /\ IsFiniteSet(incoming) /\ n \in 1..MaxCN /\ n \in Int /\ SetNames \subseteq Nat
  <2>1. incoming \subseteq SetNames
    <3>1. l[n] \in FlagChange
      OBVIOUS
    <3> QED
      BY <3>1 DEF FlagChange
  <2>2. n \in 1..MaxCN /\ n \in Int
    BY HistoricAssumption
  <2>3. IsFiniteSet(SetNames) /\ SetNames \subseteq Nat
    BY HistoricAssumption
  <2>4. IsFiniteSet(incoming)
    BY <2>1, <2>3, FS_Subset
  <2> QED
    BY <2>1, <2>2, <2>3, <2>4
<1>3. /\ assocs \in Seq(Assoc) /\ ToSet(assocs) = {assocs[i] : i \in 1..Len(assocs)}
      /\ IsFiniteSet(ToSet(assocs)) /\ ToSet(assocs) \subseteq Assoc
      /\ \A a \in ToSet(assocs) : Had(a)
      /\ \A a, b \in ToSet(assocs) : a.name = b.name => a = b
  <2>1. assocs \in Seq(Assoc)
    BY DEF AssocsPast
  <2>2. ToSet(assocs) = {assocs[i] : i \in 1..Len(assocs)} /\ IsFiniteSet(ToSet(assocs))
    BY <2>1, ListIsFinite
  <2>3. \A i \in 1..Len(assocs) : assocs[i] \in Assoc /\ i \in Int
    BY <2>1
  <2>4. \A i \in 1..Len(assocs) : assocs[i].name \in Int
    <3>1. \A i \in 1..Len(assocs) : assocs[i].name \in SetNames
      BY <2>3 DEF Assoc
    <3>2. \A x \in SetNames : x \in Int
      BY <1>2
    <3> QED
      BY <3>1, <3>2
  <2>5. \A i, j \in 1..Len(assocs) : i < j => assocs[i].name < assocs[j].name
    BY DEF AssocsPast
  <2>6. \A i, j \in 1..Len(assocs) : assocs[i].name = assocs[j].name => i = j
    BY <2>3, <2>4, <2>5
  <2>7. \A i \in 1..Len(assocs) : Had(assocs[i])
    BY DEF AssocsPast
  <2> HIDE DEF Had
  <2> QED
    BY <2>1, <2>2, <2>3, <2>6, <2>7
<1> HIDE DEF q
<1>4. IsFiniteSet(S)
  <2>1. IsFiniteSet(touched)
    <3> DEFINE g == [a \in ToSet(assocs) |-> Touched(a, incoming, n)]
    <3>1. touched = {g[a] : a \in ToSet(assocs)}
      OBVIOUS
    <3> HIDE DEF g, touched
    <3> QED
      BY <1>3, <3>1, ImageIsFinite
  <2>2. IsFiniteSet(added)
    <3> DEFINE new == incoming \ known
               g == [s \in new |-> [name |-> s, active |-> TRUE, lastUpdated |-> n]]
    <3>1. IsFiniteSet(new)
      <4> HIDE DEF incoming, known
      <4> QED
        BY <1>2, FS_Difference
    <3>2. added = {g[s] : s \in new}
      OBVIOUS
    <3> HIDE DEF g, added, new
    <3> QED
      BY <3>1, <3>2, ImageIsFinite
  <2> HIDE DEF touched, added
  <2> QED
    BY <2>1, <2>2, FS_Union
<1>5. \A a \in ToSet(assocs) : LET t == Touched(a, incoming, n) IN
           /\ t \in Assoc /\ t.name = a.name
           /\ t.active <=> t.name \in incoming
           /\ ~t.active => t.lastUpdated = n
           /\ Had(t)
  <2> SUFFICES ASSUME NEW a \in ToSet(assocs), NEW t, t = Touched(a, incoming, n)
               PROVE  /\ t \in Assoc /\ t.name = a.name
                      /\ t.active <=> t.name \in incoming
                      /\ ~t.active => t.lastUpdated = n
                      /\ Had(t)
    OBVIOUS
  <2>1. a \in Assoc /\ a.lastUpdated <= n /\ \E m \in 1..n : l[m].name = f /\ a.name \in l[m].sets
    BY <1>3
  <2> HIDE DEF incoming
  <2>2. /\ t \in Assoc /\ t.name = a.name
        /\ t.active <=> a.name \in incoming
        /\ ~t.active => t.lastUpdated = n
        /\ t.lastUpdated = a.lastUpdated \/ t.lastUpdated = n
    BY <1>2, <2>1, TouchedIs
  <2>3. t.lastUpdated <= n
    BY <1>2, <2>1, <2>2
  <2> QED
    BY <2>1, <2>2, <2>3
<1>6. \A s \in incoming \ known : LET t == [name |-> s, active |-> TRUE, lastUpdated |-> n] IN
           t \in Assoc /\ t.name = s /\ t.active /\ ~(t.name \in known) /\ Had(t) /\ t.name \in incoming
  <2> SUFFICES ASSUME NEW s \in incoming \ known, NEW t, t = [name |-> s, active |-> TRUE, lastUpdated |-> n]
               PROVE  t \in Assoc /\ t.name = s /\ t.active /\ ~(t.name \in known) /\ Had(t) /\ t.name \in incoming
    OBVIOUS
  <2>1. t.name = s /\ t.active /\ t.lastUpdated = n /\ t \in Assoc
    BY <1>2 DEF Assoc
  <2>2. n \in 1..n /\ l[n].name = f /\ t.name \in l[n].sets
    BY <1>2, <2>1
  <2>3. Had(t)
    BY <1>2, <2>1, <2>2
  <2> HIDE DEF Had
  <2> QED
    BY <2>1, <2>3
<1>7. ASSUME NEW x \in S
      PROVE  /\ x \in Assoc /\ (x.active <=> x.name \in incoming) /\ (~x.active => x.lastUpdated = n) /\ Had(x)
             /\ x.name \in Nat
  <2>1. /\ x \in Assoc /\ (x.active <=> x.name \in incoming) /\ (~x.active => x.lastUpdated = n) /\ Had(x)
    <3>1. CASE x \in touched
      <4>1. PICK a \in ToSet(assocs) : x = Touched(a, incoming, n)
        BY <3>1
      <4> HIDE DEF Had, incoming
      <4> QED
        BY <1>5, <4>1
    <3>2. CASE x \in added
      <4>1. PICK s \in incoming \ known : x = [name |-> s, active |-> TRUE, lastUpdated |-> n]
        BY <3>2
      <4> HIDE DEF Had, incoming, known
      <4> QED
        BY <1>6, <4>1
    <3> QED
      BY <3>1, <3>2
  <2>2. x.name \in SetNames
    BY <2>1 DEF Assoc
  <2> QED
    BY <1>2, <2>1, <2>2
<1>8. \A x, y \in S : x.name = y.name => x = y
  <2> SUFFICES ASSUME NEW x \in S, NEW y \in S, x.name = y.name PROVE x = y
    OBVIOUS
  <2>1. ASSUME NEW a \in ToSet(assocs) PROVE Touched(a, incoming, n).name = a.name /\ a.name \in known
    <3>1. Touched(a, incoming, n).name = a.name
      BY <1>5
    <3> QED
      BY <3>1
  <2>2. ASSUME NEW s \in incoming \ known
        PROVE  [name |-> s, active |-> TRUE, lastUpdated |-> n].name = s /\ s \notin known
    OBVIOUS
  <2> HIDE DEF incoming, known
  <2>3. x \in touched => \E a \in ToSet(assocs) : x = Touched(a, incoming, n) /\ x.name = a.name /\ a.name \in known
    BY <2>1
  <2>4. y \in touched => \E a \in ToSet(assocs) : y = Touched(a, incoming, n) /\ y.name = a.name /\ a.name \in known
    BY <2>1
  <2>5. x \in added => x = [name |-> x.name, active |-> TRUE, lastUpdated |-> n] /\ x.name \notin known
    BY <2>2
  <2>6. y \in added => y = [name |-> y.name, active |-> TRUE, lastUpdated |-> n] /\ y.name \notin known
    BY <2>2
  <2>7. x \in touched \cup added /\ y \in touched \cup added
    OBVIOUS
  <2> HIDE DEF touched, added
  <2>8. CASE x \in touched /\ y \in touched
    BY <1>3, <2>3, <2>4, <2>8
  <2>9. CASE x \in added /\ y \in added
    BY <2>5, <2>6, <2>9
  <2> QED
    BY <2>3, <2>4, <2>5, <2>6, <2>7, <2>8, <2>9
<1>9. \A a \in ToSet(assocs) : \E x \in S : x.name = a.name
  BY <1>5
<1>10. \A s \in incoming : \E x \in S : x.name = s
  <2> SUFFICES ASSUME NEW s \in incoming PROVE \E x \in S : x.name = s
    OBVIOUS
  <2>1. CASE s \in known
    <3>1. PICK a \in ToSet(assocs) : a.name = s
      BY <2>1
    <3> HIDE DEF S
    <3> QED
      BY <1>9, <3>1
  <2>2. CASE s \notin known
    <3> DEFINE t == [name |-> s, active |-> TRUE, lastUpdated |-> n]
    <3>1. t \in S
      BY <2>2
    <3>2. t.name = s
      OBVIOUS
    <3> HIDE DEF S, t
    <3> QED
      BY <3>1, <3>2
  <2> QED
    BY <2>1, <2>2
<1> HIDE DEF S
<1>11. \A x, y \in S : <<x, y>> \in ByName(S) <=> x.name < y.name
  BY DEF ByName
<1>12. Orders(ByName(S), S)
  <2>1. \A x \in S : x.name \in Nat
    BY <1>7
  <2> QED
    BY <1>8, <1>11, <2>1 DEF Orders
<1>13. /\ q \in Seq(S) /\ ToSet(q) = S
       /\ \A i, j \in 1..Len(q) : i < j => <<q[i], q[j]>> \in ByName(S)
  BY <1>1, <1>4, <1>12, InOrderIs
<1>14. Len(q) \in Nat /\ \A i \in 1..Len(q) : q[i] \in S
  BY <1>13
<1>15. ToSet(q) = {q[i] : i \in 1..Len(q)}
  BY <1>13, ListIsFinite
<1>16. \A x \in S : x.name \in NamesOf(q)
  BY <1>13, <1>15 DEF NamesOf
<1>17. q \in Seq(Assoc)
  <2>1. S \subseteq Assoc
    BY <1>7
  <2> QED
    BY <1>13, <2>1
<1>18. AssocsPast(l, q, f, n)
  <2>1. \A i, j \in 1..Len(q) : i < j => q[i].name < q[j].name
    BY <1>11, <1>13, <1>14
  <2>2. \A i \in 1..Len(q) : Had(q[i])
    BY <1>7, <1>14
  <2> QED
    BY <1>17, <2>1, <2>2 DEF AssocsPast
<1>19. incoming \subseteq NamesOf(q)
  BY <1>10, <1>16
<1>20. \A i \in 1..Len(q) : (q[i].active <=> q[i].name \in incoming) /\ (~q[i].active => q[i].lastUpdated = n)
  BY <1>7, <1>14
<1>21. AssocsFit(l, q, f, n)
  BY <1>18, <1>19, <1>20 DEF AssocsFit
<1>22. NamesOf(assocs) \subseteq NamesOf(q)
  BY <1>3, <1>9, <1>16 DEF NamesOf
<1> QED
  BY <1>21, <1>22 DEF q

\* What is fetched from cn: the last changes of the flags that changed since.
LEMMA FetchedIs ==
    ASSUME NEW l \in Seq(FlagChange), NEW cn \in -1..Len(l)
    PROVE  /\ \A n \in ChangedSince(l, cn) :
                 n \in 1..Len(l) /\ n > cn /\ l[n].name \in Flags /\ n = LatestCN(l, l[n].name, Len(l))
           /\ \A f \in Flags : LET n == LatestCN(l, f, Len(l)) IN
                 n > 0 => /\ n \in 1..Len(l) /\ l[n].name = f
                          /\ n > cn /\ (cn = -1 => l[n].active) => n \in ChangedSince(l, cn)
<1>1. Len(l) \in Nat /\ Len(l) \in Int /\ cn \in Int
  OBVIOUS
<1>2. \A f : LatestCN(l, f, Len(l)) = 0
             \/ (LatestCN(l, f, Len(l)) \in 1..Len(l) /\ l[LatestCN(l, f, Len(l))].name = f)
  BY <1>1, LatestInRange
<1>3. ASSUME NEW n \in ChangedSince(l, cn)
      PROVE  n \in 1..Len(l) /\ n > cn /\ l[n].name \in Flags /\ n = LatestCN(l, l[n].name, Len(l))
  <2>1. PICK f \in Flags : n = LatestCN(l, f, Len(l)) /\ n > 0 /\ n > cn
    BY DEF ChangedSince
  <2> QED
    BY <1>2, <2>1
<1>4. ASSUME NEW f \in Flags, NEW n, n = LatestCN(l, f, Len(l)), n > 0
      PROVE  /\ n \in 1..Len(l) /\ l[n].name = f
             /\ n > cn /\ (cn = -1 => l[n].active) => n \in ChangedSince(l, cn)
  BY <1>2, <1>4 DEF ChangedSince
<1> QED
  BY <1>3, <1>4

\* The view of a flag, if it has one.
LEMMA FindByNameIs ==
    ASSUME NEW views \in Seq(View), NEW f
    PROVE  LET v == FindByName(views, f) IN
           \/ \E i \in 1..Len(views) : views[i].name = f /\ v = views[i]
           \/ (\A i \in 1..Len(views) : views[i].name # f) /\ v.sets = <<>>
<1>1. ToSet(views) = {views[i] : i \in 1..Len(views)}
  BY ListIsFinite
<1>2. CASE \E v \in ToSet(views) : v.name = f
  <2> DEFINE v == CHOOSE v \in ToSet(views) : v.name = f
  <2>1. v \in ToSet(views) /\ v.name = f
    BY <1>2
  <2>2. FindByName(views, f) = v
    BY <1>2 DEF FindByName
  <2> HIDE DEF v
  <2> QED
    BY <1>1, <2>1, <2>2
<1>3. CASE ~(\E v \in ToSet(views) : v.name = f)
  <2>1. FindByName(views, f) = NoView(f)
    BY <1>3 DEF FindByName
  <2>2. \A i \in 1..Len(views) : views[i].name # f
    BY <1>1, <1>3
  <2> QED
    BY <2>1, <2>2 DEF NoView
<1> QED
  BY <1>2, <1>3

\* What was so at m was so at n.
LEMMA PastGrows ==
    ASSUME NEW l, NEW assocs, NEW f, NEW m \in Nat, NEW n \in Nat, m <= n, AssocsPast(l, assocs, f, m)
    PROVE  AssocsPast(l, assocs, f, n)
<1>1. assocs \in Seq(Assoc) /\ \A i \in 1..Len(assocs) : assocs[i] \in Assoc /\ assocs[i].lastUpdated \in Int
  <2>1. assocs \in Seq(Assoc)
    BY DEF AssocsPast
  <2>2. \A i \in 1..Len(assocs) : assocs[i] \in Assoc
    BY <2>1
  <2>3. \A a \in Assoc : a.lastUpdated \in Int
    <3>1. \A a \in Assoc : a.lastUpdated \in 1..MaxCN
      BY DEF Assoc
    <3> QED
      BY <3>1
  <2> QED
    BY <2>1, <2>2, <2>3
<1>2. \A i \in 1..Len(assocs) : assocs[i].lastUpdated <= m /\ \E k \in 1..m : l[k].name = f /\ assocs[i].name \in l[k].sets
  BY DEF AssocsPast
<1>3. \A k \in 1..m : k \in 1..n
  OBVIOUS
<1>4. \A i \in 1..Len(assocs) : assocs[i].lastUpdated <= n /\ \E k \in 1..n : l[k].name = f /\ assocs[i].name \in l[k].sets
  BY <1>1, <1>2, <1>3
<1>5. \A i, j \in 1..Len(assocs) : i < j => assocs[i].name < assocs[j].name
  BY DEF AssocsPast
<1> QED
  BY <1>1, <1>4, <1>5 DEF AssocsPast

\* The view a change leaves.
LEMMA UpdateViewIs ==
    ASSUME NEW l \in Seq(FlagChange), Len(l) <= MaxCN, NEW n \in 1..Len(l), l[n].name \in Flags,
           n = LatestCN(l, l[n].name, Len(l)),
           NEW old, AssocsPast(l, old.sets, l[n].name, n)
    PROVE  LET w == UpdateView(old, l[n], n) IN
           /\ ViewFits(l, Len(l), w) /\ w.name = l[n].name /\ w.lastUpdated = n
           /\ NamesOf(old.sets) \subseteq NamesOf(w.sets) /\ l[n].sets \subseteq NamesOf(w.sets)
<1> DEFINE w == UpdateView(old, l[n], n)
           q == UpdateFlagSets(old.sets, l[n].sets, n)
<1>1. AssocsFit(l, q, l[n].name, n) /\ NamesOf(old.sets) \subseteq NamesOf(q)
  BY UpdateFlagSetsIs
<1> HIDE DEF q
<1>2. w = [name |-> l[n].name, active |-> l[n].active, lastUpdated |-> n, sets |-> q]
  BY DEF UpdateView, q
<1> HIDE DEF w
<1>3. w.name = l[n].name /\ w.active = l[n].active /\ w.lastUpdated = n /\ w.sets = q
  BY <1>2
<1>4. q \in Seq(Assoc) /\ l[n].sets \subseteq NamesOf(q)
  BY <1>1 DEF AssocsFit, AssocsPast
<1>5. l[n].active \in BOOLEAN /\ n \in 1..MaxCN
  <2>1. l[n] \in FlagChange
    OBVIOUS
  <2>2. n \in 1..MaxCN
    BY HistoricAssumption
  <2> QED
    BY <2>1, <2>2 DEF FlagChange
<1>6. w \in View
  BY <1>2, <1>4, <1>5 DEF View
<1> QED
  BY <1>1, <1>3, <1>4, <1>6 DEF ViewFits, w

\* After an update the views fit what the proxy has then, at every change number it had.
LEMMA UpdateFits ==
    ASSUME log \in Seq(FlagChange), Len(log) <= MaxCN, Len(log) > 0,
           NEW cn \in -1..Len(log), cn # 0, NEW bs, cn \in bs, bs \subseteq -1..cn, 0 \notin bs,
           NEW views, cn = -1 => views = <<>>, Fits(log, cn, bs, views)
    PROVE  Fits(log, Len(log), bs \cup {Len(log)}, UpdateData(views, ChangedSince(log, cn)))
<1> DEFINE B == ChangedSince(log, cn)
           N == Len(log)
           Old(n) == FindByName(views, log[n].name)
           New(n) == UpdateView(Old(n), log[n], n)
           changed == {New(n) : n \in B}
           kept == {v \in ToSet(views) : \A w \in changed : w.name # v.name}
           S == kept \cup changed
           q == UpdateData(views, B)
<1>1. q = InOrder(S, ByLastUpdated(S))
  BY DEF UpdateData
<1>2. /\ views \in Seq(View)
      /\ \A i, j \in 1..Len(views) : i < j => views[i].lastUpdated < views[j].lastUpdated
      /\ \A i \in 1..Len(views) : ViewFits(log, cn, views[i])
      /\ \A f \in Flags, b \in bs : b # -1 => Traced(log, views, f, b)
  BY DEF Fits
<1>3. /\ N \in Nat /\ N > 0 /\ cn \in Int /\ cn <= N
      /\ ToSet(views) = {views[i] : i \in 1..Len(views)} /\ IsFiniteSet(ToSet(views))
  <2>1. N \in Nat /\ N > 0 /\ cn \in Int /\ cn <= N
    OBVIOUS
  <2> QED
    BY <1>2, <2>1, ListIsFinite
<1>4. \A n \in B : n \in 1..N /\ n > cn /\ log[n].name \in Flags /\ n = LatestCN(log, log[n].name, N)
  BY FetchedIs
<1>5. \A f \in Flags : LET n == LatestCN(log, f, N) IN
          n > 0 => /\ n \in 1..N /\ log[n].name = f
                   /\ n > cn /\ (cn = -1 => log[n].active) => n \in B
  BY FetchedIs
<1> HIDE DEF B, q
<1>6. \A n \in B : AssocsPast(log, Old(n).sets, log[n].name, n)
  <2> SUFFICES ASSUME NEW n \in B PROVE AssocsPast(log, Old(n).sets, log[n].name, n)
    OBVIOUS
  <2> DEFINE f == log[n].name
  <2>1. CASE \E i \in 1..Len(views) : views[i].name = f /\ Old(n) = views[i]
    <3>1. PICK i \in 1..Len(views) : views[i].name = f /\ Old(n) = views[i]
      BY <2>1
    <3> DEFINE v == views[i]
    <3>2. ViewFits(log, cn, v)
      BY <1>2
    <3> HIDE DEF v
    <3>3. v.lastUpdated \in 1..cn /\ AssocsPast(log, v.sets, v.name, v.lastUpdated)
      BY <3>2 DEF ViewFits, AssocsFit
    <3>4. v.lastUpdated \in Nat /\ n \in Nat /\ v.lastUpdated <= n
      BY <1>3, <1>4, <3>3
    <3>5. AssocsPast(log, v.sets, v.name, n)
      BY <3>3, <3>4, PastGrows
    <3> QED
      BY <3>1, <3>5 DEF v
  <2>2. CASE Old(n).sets = <<>>
    <3>1. Old(n).sets \in Seq(Assoc) /\ Len(Old(n).sets) = 0
      BY <2>2
    <3> HIDE DEF Old
    <3> QED
      BY <3>1 DEF AssocsPast
  <2> QED
    BY <1>2, <2>1, <2>2, FindByNameIs
<1>7. \A n \in B : /\ ViewFits(log, N, New(n)) /\ New(n).name = log[n].name /\ New(n).lastUpdated = n
                   /\ NamesOf(Old(n).sets) \subseteq NamesOf(New(n).sets)
                   /\ log[n].sets \subseteq NamesOf(New(n).sets)
  <2> SUFFICES ASSUME NEW n \in B
               PROVE  /\ ViewFits(log, N, New(n)) /\ New(n).name = log[n].name /\ New(n).lastUpdated = n
                      /\ NamesOf(Old(n).sets) \subseteq NamesOf(New(n).sets)
                      /\ log[n].sets \subseteq NamesOf(New(n).sets)
    OBVIOUS
  <2>1. n \in 1..Len(log) /\ log[n].name \in Flags /\ n = LatestCN(log, log[n].name, Len(log))
    BY <1>4
  <2>2. AssocsPast(log, Old(n).sets, log[n].name, n)
    BY <1>6
  <2> HIDE DEF Old, N
  <2> QED
    BY <2>1, <2>2, UpdateViewIs DEF N
<1> HIDE DEF New
<1>8. \A v \in ToSet(views) : /\ ViewFits(log, cn, v) /\ v.lastUpdated \in 1..cn /\ v.name \in Flags
                              /\ v.lastUpdated = LatestCN(log, v.name, cn)
  <2> SUFFICES ASSUME NEW v \in ToSet(views)
               PROVE  /\ ViewFits(log, cn, v) /\ v.lastUpdated \in 1..cn /\ v.name \in Flags
                      /\ v.lastUpdated = LatestCN(log, v.name, cn)
    OBVIOUS
  <2>1. ViewFits(log, cn, v)
    BY <1>2, <1>3
  <2> QED
    BY <2>1 DEF ViewFits, View
<1>9. \A v, w \in ToSet(views) : v.lastUpdated = w.lastUpdated => v = w
  <2>1. \A i \in 1..Len(views) : views[i].lastUpdated \in Int /\ i \in Int
    BY <1>3, <1>8
  <2> QED
    BY <1>2, <1>3, <2>1
<1>10. \A v \in kept : ViewFits(log, N, v)
  <2> SUFFICES ASSUME NEW v \in kept PROVE ViewFits(log, N, v)
    OBVIOUS
  <2> DEFINE n == LatestCN(log, v.name, N)
  <2>1. /\ v \in ToSet(views) /\ ViewFits(log, cn, v) /\ v.lastUpdated \in 1..cn /\ v.name \in Flags
        /\ v.lastUpdated = LatestCN(log, v.name, cn)
    BY <1>8
  <2>2. cn # -1 /\ cn \in Nat
    BY <1>3, <2>1
  <2>3. LatestCN(log, v.name, cn) \in ChangesOf(log, v.name, cn)
    <3>1. LatestCN(log, v.name, cn) # 0
      BY <2>1
    <3> QED
      BY <2>2, <3>1, LatestIsLast
  <2>4. LatestCN(log, v.name, cn) \in ChangesOf(log, v.name, N)
    BY <1>3, <2>2, <2>3 DEF ChangesOf
  <2>5. n \in 1..N
    BY <1>3, <2>4, LatestIsLast
  <2>6. ~(n > cn)
    <3> SUFFICES ASSUME n > cn PROVE FALSE
      OBVIOUS
    <3>1. n \in B /\ log[n].name = v.name
      BY <1>5, <2>1, <2>2, <2>5
    <3>2. New(n) \in changed /\ New(n).name = v.name
      BY <1>7, <3>1
    <3> QED
      BY <3>2
  <2>7. LatestCN(log, v.name, cn) = n
    BY <1>3, <2>5, <2>6, LatestSettled
  <2>8. v.lastUpdated \in 1..N
    BY <1>3, <2>1
  <2> QED
    BY <2>1, <2>7, <2>8 DEF ViewFits
<1>11. \A x \in S : ViewFits(log, N, x)
  BY <1>7, <1>10
<1>12. \A x \in S : x \in View /\ x.lastUpdated \in 1..N /\ x.lastUpdated = LatestCN(log, x.name, N)
                    /\ log[x.lastUpdated].name = x.name
  <2> SUFFICES ASSUME NEW x \in S
               PROVE  x \in View /\ x.lastUpdated \in 1..N /\ x.lastUpdated = LatestCN(log, x.name, N)
                      /\ log[x.lastUpdated].name = x.name
    OBVIOUS
  <2>1. x \in View /\ x.lastUpdated \in 1..N /\ x.lastUpdated = LatestCN(log, x.name, N)
    BY <1>11 DEF ViewFits
  <2>2. log[LatestCN(log, x.name, N)].name = x.name
    BY <1>3, <2>1, LatestInRange
  <2> QED
    BY <2>1, <2>2
<1>13. \A x, y \in S : x.lastUpdated = y.lastUpdated => x = y
  <2> SUFFICES ASSUME NEW x \in S, NEW y \in S, x.lastUpdated = y.lastUpdated PROVE x = y
    OBVIOUS
  <2>1. x.name = y.name
    BY <1>12
  <2>2. CASE x \in kept /\ y \in kept
    BY <1>9, <2>2
  <2>3. CASE x \in changed /\ y \in changed
    <3>1. PICK n \in B : x = New(n)
      BY <2>3
    <3>2. PICK m \in B : y = New(m)
      BY <2>3
    <3> QED
      BY <1>7, <3>1, <3>2
  <2>4. CASE x \in kept /\ y \in changed
    BY <2>1, <2>4
  <2>5. CASE x \in changed /\ y \in kept
    BY <2>1, <2>5
  <2> QED
    BY <2>2, <2>3, <2>4, <2>5
<1>14. IsFiniteSet(S)
  <2>1. IsFiniteSet(kept)
    BY <1>3, FS_Subset
  <2>2. IsFiniteSet(B)
    <3>1. B \subseteq 1..N
      BY <1>4
    <3>2. IsFiniteSet(1..N)
      <4> HIDE DEF N
      <4> QED
        BY <1>3, FS_Interval
    <3> QED
      BY <3>1, <3>2, FS_Subset
  <2>3. IsFiniteSet(changed)
    <3> DEFINE g == [n \in B |-> New(n)]
    <3>1. changed = {g[n] : n \in B}
      OBVIOUS
    <3> HIDE DEF g, changed
    <3> QED
      BY <2>2, <3>1, ImageIsFinite
  <2> HIDE DEF kept, changed
  <2> QED
    BY <2>1, <2>3, FS_Union
<1>15. ASSUME NEW v \in ToSet(views)
       PROVE  \E w \in S : w.name = v.name /\ NamesOf(v.sets) \subseteq NamesOf(w.sets)
  <2>1. CASE v \in kept
    BY <2>1
  <2>2. CASE v \notin kept
    <3>1. PICK n \in B : New(n).name = v.name
      BY <2>2
    <3>2. log[n].name = v.name
      BY <1>7, <3>1
    <3>3. \E i \in 1..Len(views) : views[i].name = v.name /\ Old(n) = views[i]
      <4>1. \E i \in 1..Len(views) : views[i].name = log[n].name
        BY <1>3, <3>2
      <4> QED
        BY <1>2, <3>2, <4>1, FindByNameIs
    <3>4. Old(n) \in ToSet(views) /\ Old(n).name = v.name
      BY <1>3, <3>3
    <3> HIDE DEF Old
    <3>5. Old(n) = v
      BY <1>8, <1>9, <3>4
    <3>6. New(n) \in S
      OBVIOUS
    <3> HIDE DEF S
    <3> QED
      BY <1>7, <3>1, <3>5, <3>6
  <2> QED
    BY <2>1, <2>2
<1>16. ASSUME NEW n \in B
       PROVE  \E w \in S : w.name = log[n].name /\ log[n].sets \subseteq NamesOf(w.sets)
  <2>1. New(n) \in S
    OBVIOUS
  <2> HIDE DEF S
  <2> QED
    BY <1>7, <2>1
<1> HIDE DEF S, Old, changed, kept
<1>17. \A x, y \in S : <<x, y>> \in ByLastUpdated(S) <=> x.lastUpdated < y.lastUpdated
  BY DEF ByLastUpdated
<1>18. Orders(ByLastUpdated(S), S)
  <2>1. \A x \in S : x.lastUpdated \in Int
    BY <1>12
  <2> QED
    BY <1>13, <1>17, <2>1 DEF Orders
<1>19. /\ q \in Seq(S) /\ ToSet(q) = S
       /\ \A i, j \in 1..Len(q) : i < j => <<q[i], q[j]>> \in ByLastUpdated(S)
  BY <1>1, <1>14, <1>18, InOrderIs
<1>20. /\ \A i \in 1..Len(q) : q[i] \in S
       /\ \A x \in S : \E i \in 1..Len(q) : q[i] = x
  <2>1. ToSet(q) = {q[i] : i \in 1..Len(q)}
    BY <1>19, ListIsFinite
  <2> QED
    BY <1>19, <2>1
<1>21. ASSUME NEW f \in Flags, NEW n \in 1..N, \E w \in S : w.name = f /\ log[n].sets \subseteq NamesOf(w.sets)
       PROVE  \E i \in 1..Len(q) : q[i].name = f /\ log[n].sets \subseteq NamesOf(q[i].sets)
  BY <1>20, <1>21
<1>22. ASSUME NEW f \in Flags, NEW b \in bs, b # -1 PROVE Traced(log, q, f, b)
  <2> DEFINE n == LatestCN(log, f, b)
  <2>1. SUFFICES ASSUME n > 0, log[n].active
                 PROVE  \E i \in 1..Len(q) : q[i].name = f /\ log[n].sets \subseteq NamesOf(q[i].sets)
    BY DEF Traced
  <2>2. n \in 1..N
    <3>1. b \in Int /\ b <= N
      BY <1>3
    <3> QED
      BY <1>3, <2>1, <3>1, LatestInRange
  <2>3. PICK i \in 1..Len(views) : views[i].name = f /\ log[n].sets \subseteq NamesOf(views[i].sets)
    BY <1>2, <1>22, <2>1 DEF Traced
  <2>4. PICK w \in S : w.name = f /\ NamesOf(views[i].sets) \subseteq NamesOf(w.sets)
    BY <1>3, <1>15, <2>3
  <2> HIDE DEF n
  <2> QED
    BY <1>21, <2>2, <2>3, <2>4
<1>23. ASSUME NEW f \in Flags PROVE Traced(log, q, f, N)
  <2> DEFINE n == LatestCN(log, f, N)
  <2>1. SUFFICES ASSUME n > 0, log[n].active
                 PROVE  \E i \in 1..Len(q) : q[i].name = f /\ log[n].sets \subseteq NamesOf(q[i].sets)
    BY DEF Traced
  <2>2. n \in 1..N /\ log[n].name = f
    BY <1>5, <2>1
  <2>3. CASE n > cn
    <3>1. n \in B
      BY <1>5, <2>1, <2>3
    <3> HIDE DEF n
    <3> QED
      BY <1>16, <1>21, <2>2, <3>1
  <2>4. CASE ~(n > cn)
    <3>1. cn # -1 /\ n <= cn
      BY <1>3, <2>2, <2>4
    <3>2. LatestCN(log, f, cn) = n
      BY <1>3, <2>2, <3>1, LatestSettled
    <3>3. PICK i \in 1..Len(views) : views[i].name = f /\ log[n].sets \subseteq NamesOf(views[i].sets)
      BY <1>2, <2>1, <3>1, <3>2 DEF Traced
    <3>4. PICK w \in S : w.name = f /\ NamesOf(views[i].sets) \subseteq NamesOf(w.sets)
      BY <1>3, <1>15, <3>3
    <3> HIDE DEF n
    <3> QED
      BY <1>21, <2>2, <3>3, <3>4
  <2> QED
    BY <2>3, <2>4
<1>24. q \in Seq(View)
  <2>1. S \subseteq View
    BY <1>12
  <2> QED
    BY <1>19, <2>1
<1>25. \A i, j \in 1..Len(q) : i < j => q[i].lastUpdated < q[j].lastUpdated
  BY <1>17, <1>19, <1>20
<1>26. \A i \in 1..Len(q) : ViewFits(log, N, q[i])
  BY <1>11, <1>20
<1> QED
  BY <1>22, <1>23, <1>24, <1>25, <1>26 DEF Fits, q, B

-----------------------------------------------------------------------------
(* The invariant                                                           *)

\* Nothing is published, processed or known at first.
LEMMA IInvInit == Init => IInv
<1> SUFFICES ASSUME Init PROVE IInv
  OBVIOUS
<1>1. /\ log = <<>> /\ synced = -1 /\ bounds = {-1} /\ data = <<>>
      /\ list \in UNION {[1..n -> SetNames] : n \in 0..MaxSets}
  BY DEF Init
<1>2. log \in Seq(FlagChange) /\ Len(log) = 0 /\ Len(log) <= MaxCN
  BY <1>1, HistoricAssumption
<1>3. list \in Seq(SetNames)
  <2>1. PICK n \in 0..MaxSets : list \in [1..n -> SetNames]
    BY <1>1
  <2>2. n \in Nat
    BY HistoricAssumption
  <2> QED
    BY <2>1, <2>2
<1>4. Fits(log, synced, bounds, data)
  <2>1. data \in Seq(View) /\ Len(data) = 0
    BY <1>1
  <2>2. \A b \in bounds : b = -1
    BY <1>1
  <2> QED
    BY <2>1, <2>2 DEF Fits
<1> QED
  BY <1>1, <1>2, <1>3, <1>4 DEF IInv

\* Publishing disturbs nothing, and an update brings the views to the end of the log.
LEMMA IInvStep == IInv /\ [Next]_vars => IInv'
<1> SUFFICES ASSUME IInv, [Next]_vars PROVE IInv'
  OBVIOUS
<1>0. /\ log \in Seq(FlagChange) /\ Len(log) <= MaxCN /\ Len(log) \in Nat
      /\ synced \in -1..Len(log) /\ synced # 0 /\ synced \in bounds
      /\ bounds \subseteq -1..synced /\ 0 \notin bounds
      /\ synced = -1 => data = <<>>
      /\ Fits(log, synced, bounds, data)
      /\ list \in Seq(SetNames)
  BY DEF IInv
<1>1. ASSUME NEW c \in FlagChange, Publish(c) PROVE IInv'
  <2>1. /\ Len(log) < MaxCN /\ log' = Append(log, c) /\ synced' = synced /\ bounds' = bounds
        /\ data' = data /\ list' = list
    BY <1>1 DEF Publish
  <2>2. Fits(Append(log, c), synced, bounds, data)
    BY <1>0, FitsStays
  <2>3. Fits(log', synced', bounds', data')
    BY <2>1, <2>2
  <2>4. log' \in Seq(FlagChange) /\ Len(log') = Len(log) + 1
    BY <1>0, <2>1
  <2>5. Len(log') <= MaxCN /\ synced' \in -1..Len(log')
    BY <1>0, <2>1, <2>4, HistoricAssumption
  <2>6. bounds' \subseteq -1..synced'
    BY <1>0, <2>1
  <2>7. Fits(log, synced, bounds, data)'
    BY <2>3 DEF Fits, ViewFits, Traced, AssocsFit, AssocsPast, NamesOf, View
  <2> QED
    BY <1>0, <2>1, <2>4, <2>5, <2>6, <2>7 DEF IInv
<1>2. CASE Update
  <2>1. /\ Len(log) > synced /\ Len(log) > 0 /\ data' = UpdateData(data, ChangedSince(log, synced))
        /\ synced' = Len(log) /\ bounds' = bounds \cup {Len(log)} /\ log' = log /\ list' = list
    BY <1>2 DEF Update
  <2>2. Fits(log, Len(log), bounds \cup {Len(log)}, UpdateData(data, ChangedSince(log, synced)))
    BY <1>0, <2>1, UpdateFits
  <2>3. Fits(log', synced', bounds', data')
    BY <2>1, <2>2
  <2>4. bounds' \subseteq -1..synced' /\ 0 \notin bounds' /\ synced' \in bounds'
    <3>1. Len(log) \in Int /\ synced \in Int /\ synced < Len(log)
      BY <1>0, <2>1
    <3>2. \A b \in bounds : b \in -1..Len(log)
      BY <1>0, <3>1
    <3>3. Len(log) \in -1..Len(log) /\ Len(log) # 0
      BY <2>1, <3>1
    <3> QED
      BY <1>0, <2>1, <3>2, <3>3
  <2>5. synced' \in -1..Len(log') /\ synced' # 0 /\ synced' # -1
    BY <1>0, <2>1
  <2>6. Fits(log, synced, bounds, data)'
    BY <2>3
  <2> QED
    BY <1>0, <2>1, <2>4, <2>5, <2>6 DEF IInv
<1>3. CASE UNCHANGED vars
  BY <1>0, <1>3 DEF vars, IInv
<1> QED
  BY <1>1, <1>2, <1>3 DEF Next

-----------------------------------------------------------------------------
(* The answers                                                             *)

\* What the change summaries answer.
LEMMA AnswersAre ==
    ASSUME IInv, NEW since \in bounds, NEW req
    PROVE  GetUpdatedSince(data, since, req) =
             {v \in ToSet(data) : /\ v.lastUpdated > since
                                  /\ ~(since = -1 /\ ~v.active)
                                  /\ req = <<>> \/ MergeSets(v.sets, since, req)}
<1> DEFINE newer == {i \in DOMAIN data : data[i].lastUpdated > since}
<1>1. /\ data \in Seq(View) /\ Len(data) \in Nat /\ DOMAIN data = 1..Len(data)
      /\ \A i, j \in 1..Len(data) : i < j => data[i].lastUpdated < data[j].lastUpdated
      /\ ToSet(data) = {data[i] : i \in 1..Len(data)}
  <2>1. data \in Seq(View) /\ \A i, j \in 1..Len(data) : i < j => data[i].lastUpdated < data[j].lastUpdated
    BY DEF IInv, Fits
  <2> QED
    BY <2>1, ListIsFinite
<1>2. since \in Int
  BY DEF IInv
<1>3. \A i \in 1..Len(data) : data[i].lastUpdated \in Int /\ i \in Int
  <2>1. \A i \in 1..Len(data) : data[i] \in View
    BY <1>1
  <2>2. \A v \in View : v.lastUpdated \in 1..MaxCN
    BY DEF View
  <2> QED
    BY <1>1, <2>1, <2>2
<1>4. \A v \in ToSet(data) : v.lastUpdated \in Int
  BY <1>1, <1>3
<1>5. FindNewerThan(data, since) = {v \in ToSet(data) : v.lastUpdated > since}
  <2>1. CASE newer = {}
    <3>1. FindNewerThan(data, since) = {}
      BY <2>1 DEF FindNewerThan
    <3> QED
      BY <1>1, <2>1, <3>1
  <2>2. CASE newer # {}
    <3> DEFINE m == Min(newer)
    <3>1. FindNewerThan(data, since) = {data[i] : i \in m..Len(data)}
      BY <2>2 DEF FindNewerThan
    <3>2. m \in newer /\ \A i \in newer : m <= i
      <4>1. \E k \in newer : \A i \in newer : k <= i
        <5>1. newer \subseteq Nat
          BY <1>1
        <5> DEFINE N == Len(data)
                   T == {N + 1 - i : i \in newer}
        <5>2. T # {} /\ T \subseteq 1..N
          BY <1>1, <2>2
        <5> HIDE DEF T
        <5>3. PICK t \in T : \A u \in T : u <= t
          BY <1>1, <5>2, LastOf
        <5>4. PICK k \in newer : t = N + 1 - k
          BY DEF T
        <5>5. \A i \in newer : N + 1 - i \in T
          BY DEF T
        <5> HIDE DEF newer
        <5>6. ASSUME NEW i \in newer PROVE k <= i
          <6>1. N + 1 - i <= N + 1 - k /\ i \in Nat /\ k \in Nat /\ N \in Nat
            BY <1>1, <5>1, <5>3, <5>4, <5>5
          <6> QED
            BY <6>1
        <5> QED
          BY <5>6
      <4> HIDE DEF newer
      <4>2. m = CHOOSE k \in newer : \A i \in newer : k <= i
        BY DEF Min
      <4> HIDE DEF m
      <4> QED
        BY <4>1, <4>2
    <3> HIDE DEF m
    <3>3. m \in 1..Len(data) /\ data[m].lastUpdated > since
      BY <1>1, <3>2
    <3>4. \A i \in 1..Len(data) : i \in m..Len(data) <=> data[i].lastUpdated > since
      <4> SUFFICES ASSUME NEW i \in 1..Len(data)
                   PROVE  i \in m..Len(data) <=> data[i].lastUpdated > since
        OBVIOUS
      <4>1. CASE data[i].lastUpdated > since
        <5>1. i \in newer
          BY <1>1, <4>1
        <5> QED
          BY <1>1, <1>3, <3>2, <3>3, <4>1, <5>1
      <4>2. CASE i \in m..Len(data)
        <5>1. i = m \/ data[m].lastUpdated < data[i].lastUpdated
          BY <1>1, <1>3, <3>3, <4>2
        <5> QED
          BY <1>2, <1>3, <3>3, <4>2, <5>1
      <4> QED
        BY <4>1, <4>2
    <3>5. m..Len(data) \subseteq 1..Len(data)
      BY <1>1, <3>3
    <3> QED
      BY <1>1, <3>1, <3>4, <3>5
  <2> QED
    BY <2>1, <2>2
<1>6. \A v \in ToSet(data) : v.lastUpdated > since =>
          (FeatureShouldBeReturned(v, since, req) <=>
             ~(since = -1 /\ ~v.active) /\ (req = <<>> \/ MergeSets(v.sets, since, req)))
  BY <1>2, <1>4 DEF FeatureShouldBeReturned
<1> QED
  BY <1>5, <1>6 DEF GetUpdatedSince

\* A single set: the items of the list are all the same.
LEMMA OneRequested ==
    ASSUME NEW req \in Seq(SetNames), Cardinality(ToSet(req)) <= 1
    PROVE  \A i, j \in 1..Len(req) : req[i] = req[j]
<1>1. IsFiniteSet(ToSet(req)) /\ ToSet(req) = {req[i] : i \in 1..Len(req)}
  BY ListIsFinite
<1> DEFINE Q == ToSet(req)
<1>2. \A i \in 1..Len(req) : req[i] \in Q
  BY <1>1
<1>3. IsFiniteSet(Q) /\ Cardinality(Q) <= 1
  BY <1>1
<1> HIDE DEF Q
<1>4. Cardinality(Q) \in Nat
  BY <1>3, FS_CardinalityType
<1>5. CASE Cardinality(Q) = 0
  BY <1>2, <1>3, <1>5, FS_EmptySet
<1>6. CASE Cardinality(Q) = 1
  <2>1. PICK x : Q = {x}
    BY <1>3, <1>6, FS_Singleton
  <2> QED
    BY <1>2, <2>1
<1> QED
  BY <1>3, <1>4, <1>5, <1>6

\* Change n leaves its flag on a client that filters by req.
Shown(n, req) == log[n].active /\ (req = <<>> \/ log[n].sets \cap ToSet(req) # {})

\* What the invariant says of a view.
LEMMA ViewIs ==
    ASSUME IInv, NEW v \in ToSet(data), NEW req \in Seq(SetNames)
    PROVE  /\ v.name \in Flags /\ v.active \in BOOLEAN /\ v.lastUpdated \in 1..MaxCN
           /\ v.lastUpdated \in 1..synced /\ v.lastUpdated = LatestCN(log, v.name, synced)
           /\ v.sets \in Seq(Assoc) /\ ToSet(v.sets) = {v.sets[i] : i \in 1..Len(v.sets)}
           /\ v.active = log[v.lastUpdated].active
           /\ AssocsFit(log, v.sets, v.name, v.lastUpdated)
           /\ \E i \in 1..Len(data) : v = data[i]
           /\ (/\ v.active
               /\ req = <<>> \/ \E a \in ToSet(v.sets) : a.active /\ a.name \in ToSet(req))
              <=> Shown(v.lastUpdated, req)
<1>1. data \in Seq(View) /\ \A i \in 1..Len(data) : ViewFits(log, synced, data[i])
  BY DEF IInv, Fits
<1>2. PICK i \in 1..Len(data) : v = data[i]
  BY <1>1, ListIsFinite
<1>3. ViewFits(log, synced, v)
  BY <1>1, <1>2
<1>4. /\ v \in View /\ v.lastUpdated \in 1..synced /\ v.lastUpdated = LatestCN(log, v.name, synced)
      /\ v.active = log[v.lastUpdated].active /\ AssocsFit(log, v.sets, v.name, v.lastUpdated)
  BY <1>3 DEF ViewFits
<1>5. v.name \in Flags /\ v.active \in BOOLEAN /\ v.lastUpdated \in 1..MaxCN /\ v.sets \in Seq(Assoc)
  BY <1>4 DEF View
<1>6. ToSet(v.sets) = {v.sets[k] : k \in 1..Len(v.sets)}
  BY <1>5, ListIsFinite
<1> DEFINE assocs == v.sets
           now == log[v.lastUpdated].sets
<1>7. /\ now \subseteq NamesOf(assocs)
      /\ \A k \in 1..Len(assocs) : assocs[k].active <=> assocs[k].name \in now
  BY <1>4 DEF AssocsFit
<1>8. (\E a \in ToSet(assocs) : a.active /\ a.name \in ToSet(req)) <=> now \cap ToSet(req) # {}
  <2> HIDE DEF assocs, now
  <2>1. \A k \in 1..Len(assocs) : assocs[k] \in ToSet(assocs)
    BY <1>6 DEF assocs
  <2>2. \A a \in ToSet(assocs) : \E k \in 1..Len(assocs) : a = assocs[k]
    BY <1>6 DEF assocs
  <2>3. \A x \in now : \E k \in 1..Len(assocs) : x = assocs[k].name
    BY <1>7 DEF NamesOf
  <2> QED
    BY <1>7, <2>1, <2>2, <2>3
<1> QED
  BY <1>2, <1>4, <1>5, <1>6, <1>8 DEF Shown

\* The views are one for each flag, as TypeOK has it.
LEMMA IInvType == IInv => TypeOK
<1> SUFFICES ASSUME IInv PROVE TypeOK
  OBVIOUS
<1>1. /\ log \in Seq(FlagChange) /\ Len(log) <= MaxCN /\ Len(log) \in Nat /\ MaxCN \in Nat
      /\ synced \in -1..Len(log) /\ bounds \subseteq -1..synced
      /\ \A i, j \in 1..Len(data) : i < j => data[i].lastUpdated < data[j].lastUpdated
  BY HistoricAssumption DEF IInv, Fits
<1>2. data \in Seq(View)
  BY DEF IInv, Fits
<1>3. \A i \in 1..Len(data) : data[i] \in ToSet(data)
  BY <1>2, ListIsFinite
<1>4. <<>> \in Seq(SetNames)
  OBVIOUS
<1>5. \A v \in ToSet(data) : /\ v.name \in Flags /\ v.active \in BOOLEAN /\ v.lastUpdated \in 1..MaxCN
                             /\ ToSet(v.sets) \subseteq Assoc
  <2> SUFFICES ASSUME NEW v \in ToSet(data)
               PROVE  /\ v.name \in Flags /\ v.active \in BOOLEAN /\ v.lastUpdated \in 1..MaxCN
                      /\ ToSet(v.sets) \subseteq Assoc
    OBVIOUS
  <2>1. /\ v.name \in Flags /\ v.active \in BOOLEAN /\ v.lastUpdated \in 1..MaxCN
        /\ v.sets \in Seq(Assoc) /\ ToSet(v.sets) = {v.sets[i] : i \in 1..Len(v.sets)}
    BY <1>4, ViewIs
  <2> QED
    BY <2>1
<1>6. ASSUME NEW i \in 1..Len(data), NEW j \in 1..Len(data), i < j PROVE data[i].name # data[j].name
  <2>1. /\ data[i].lastUpdated = LatestCN(log, data[i].name, synced)
        /\ data[j].lastUpdated = LatestCN(log, data[j].name, synced)
        /\ data[i].lastUpdated \in 1..MaxCN
    BY <1>3, <1>4, ViewIs
  <2> QED
    BY <1>1, <1>6, <2>1
<1>7. synced \in -1..MaxCN /\ bounds \subseteq -1..MaxCN
  BY <1>1
<1> QED
  BY <1>1, <1>5, <1>6, <1>7 DEF TypeOK

\* The filter of a request, after the clean-up.
LEMMA IInvFilter == IInv => Filter \in Seq(SetNames) /\ NoWantedSetLost
BY SanitizeKeepsWanted, HistoricAssumption DEF IInv, Filter, NoWantedSetLost

\* A view in an answer matched a set, which its flag had in a change it processed.
LEMMA IInvWithinSets == IInv => AnswerWithinSets
<1> SUFFICES ASSUME IInv, Filter # <<>>, NEW since \in bounds, NEW v \in GetUpdatedSince(data, since, Filter)
             PROVE  \E n \in 1..synced : log[n].name = v.name /\ log[n].sets \cap ToSet(Filter) # {}
  BY IInvType DEF AnswerWithinSets
<1> DEFINE req == Filter
<1>1. req \in Seq(SetNames) /\ ToSet(req) = {req[k] : k \in 1..Len(req)}
  BY IInvFilter, ListIsFinite
<1>2. since \in Int /\ synced \in Int
  BY DEF IInv
<1> HIDE DEF req
<1>3. v \in ToSet(data) /\ MergeSets(v.sets, since, req)
  BY AnswersAre DEF req
<1>4. v.sets \in Seq(Assoc) /\ v.lastUpdated \in 1..synced /\ AssocsFit(log, v.sets, v.name, v.lastUpdated)
  BY <1>1, <1>3, ViewIs
<1>5. Matches(v.sets, since, req)
  <2>1. req # <<>>
    BY DEF req
  <2> QED
    BY <1>1, <1>2, <1>3, <1>4, <2>1, MergeIsSound
<1>6. PICK i \in 1..Len(v.sets), k \in 1..Len(req) : v.sets[i].name = req[k]
  BY <1>5 DEF Matches
<1>7. PICK n \in 1..v.lastUpdated : log[n].name = v.name /\ v.sets[i].name \in log[n].sets
  BY <1>4 DEF AssocsFit, AssocsPast
<1>8. n \in 1..synced
  BY <1>2, <1>4
<1>9. req[k] \in ToSet(req)
  BY <1>1
<1> QED
  BY <1>6, <1>7, <1>8, <1>9 DEF req

\* With one set at most, a view that is newer than since is left out of the
\* answer only if it never had the set or lost it before.
LEMMA AnsweredIs ==
    ASSUME IInv, NEW since \in bounds, NEW req \in Seq(SetNames),
           \A i, j \in 1..Len(req) : req[i] = req[j],
           NEW v \in ToSet(data), v.lastUpdated > since, v.active \/ since # -1,
           req = <<>> \/ Matches(v.sets, since, req)
    PROVE  v \in GetUpdatedSince(data, since, req)
<1>1. since \in Int /\ v.sets \in Seq(Assoc)
  BY ViewIs DEF IInv
<1>2. req = <<>> \/ MergeSets(v.sets, since, req)
  BY <1>1, MergeIsComplete
<1> QED
  BY <1>2, AnswersAre

\* What a client holds, flag by flag.
LEMMA HoldsIs ==
    ASSUME NEW cn, NEW req
    PROVE  \A h : h \in Holds(cn, req) <=>
                    /\ cn # -1
                    /\ \E f \in Flags : LET n == LatestCN(log, f, cn) IN h = <<f, n>> /\ n > 0 /\ Shown(n, req)
BY DEF Holds, Shown

\* Flag by flag, what a client held and an answer brings is what is held at synced.
LEMMA IInvIncremental == IInv => IncrementalEqualsFresh
<1> SUFFICES ASSUME IInv, Cardinality(ToSet(Filter)) <= 1, NEW since \in bounds
             PROVE  Applied(Holds(since, Filter), GetUpdatedSince(data, since, Filter), Filter)
                      = Holds(synced, Filter)
  BY DEF IncrementalEqualsFresh
<1> DEFINE req == Filter
           answer == GetUpdatedSince(data, since, req)
           before == Holds(since, req)
           after == Holds(synced, req)
<1>1. req \in Seq(SetNames) /\ ToSet(req) = {req[k] : k \in 1..Len(req)}
  BY IInvFilter, ListIsFinite
<1>2. \A i, j \in 1..Len(req) : req[i] = req[j]
  BY <1>1, OneRequested
<1>3. /\ since \in Int /\ synced \in Int /\ since <= synced /\ since >= -1 /\ synced \in bounds
      /\ since # -1 => since \in Nat /\ synced \in Nat /\ synced # -1
      /\ data \in Seq(View) /\ (synced = -1 => data = <<>>)
      /\ \A f \in Flags, b \in bounds : b # -1 => Traced(log, data, f, b)
  BY DEF IInv, Fits
<1> HIDE DEF req
<1>4. \A v \in answer : v \in ToSet(data) /\ v.lastUpdated > since
  BY AnswersAre
<1>5. \A v \in ToSet(data) : /\ v.name \in Flags /\ v.lastUpdated \in 1..synced
                             /\ v.lastUpdated = LatestCN(log, v.name, synced)
                             /\ (/\ v.active
                                 /\ req = <<>> \/ \E a \in ToSet(v.sets) : a.active /\ a.name \in ToSet(req))
                                <=> Shown(v.lastUpdated, req)
  BY <1>1, ViewIs
<1> DEFINE gained == {<<v.name, v.lastUpdated>> :
                        v \in {w \in answer :
                                 /\ w.active
                                 /\ req = <<>> \/ \E a \in ToSet(w.sets) : a.active /\ a.name \in ToSet(req)}}
           stays == {h \in before : \A v \in answer : v.name # h[1]}
<1>6. Applied(before, answer, req) = stays \cup gained
  BY DEF Applied
<1> HIDE DEF answer, before, after
<1>7. \A h : h \in gained <=> \E v \in answer : h = <<v.name, v.lastUpdated>> /\ Shown(v.lastUpdated, req)
  BY <1>4, <1>5
<1> HIDE DEF gained
<1>8. ASSUME NEW f \in Flags, NEW b \in bounds, b # -1, LatestCN(log, f, b) > 0, log[LatestCN(log, f, b)].active
      PROVE  \E v \in ToSet(data) : v.name = f /\ log[LatestCN(log, f, b)].sets \subseteq NamesOf(v.sets)
  <2>1. Traced(log, data, f, b)
    BY <1>3, <1>8
  <2>2. \A i \in 1..Len(data) : data[i] \in ToSet(data)
    BY <1>3, ListIsFinite
  <2> QED
    BY <1>8, <2>1, <2>2 DEF Traced
<1>9. ASSUME NEW f \in Flags, NEW v \in ToSet(data), v.name = f, LatestCN(log, f, synced) > since,
             NEW n, log[n].sets \subseteq NamesOf(v.sets), Shown(n, req),
             v.active \/ since # -1, since # -1 \/ n = v.lastUpdated
      PROVE  v \in answer
  <2>1. /\ v.sets \in Seq(Assoc) /\ AssocsFit(log, v.sets, v.name, v.lastUpdated)
        /\ v.lastUpdated = LatestCN(log, v.name, synced)
    BY <1>1, ViewIs
  <2>2. CASE req = <<>>
    BY <1>1, <1>2, <1>9, <2>1, <2>2, AnsweredIs DEF answer
  <2>3. CASE req # <<>>
    <3> DEFINE assocs == v.sets
               u == v.lastUpdated
    <3>1. PICK x \in log[n].sets : x \in ToSet(req)
      BY <1>9, <2>3 DEF Shown
    <3>2. PICK k \in 1..Len(req) : x = req[k]
      BY <1>1, <3>1
    <3>3. PICK i \in 1..Len(assocs) : x = assocs[i].name
      BY <1>9, <3>1 DEF NamesOf
    <3>4. /\ assocs[i].active <=> assocs[i].name \in log[u].sets
          /\ ~assocs[i].active => assocs[i].lastUpdated = u
      BY <2>1 DEF AssocsFit
    <3> HIDE DEF assocs
    <3>5. Considered(assocs[i], since)
      <4>1. CASE since = -1
        BY <1>9, <3>1, <3>3, <3>4, <4>1 DEF Considered
      <4>2. CASE since # -1
        BY <1>3, <1>9, <2>1, <3>4, <4>2 DEF Considered
      <4> QED
        BY <4>1, <4>2
    <3>6. Matches(assocs, since, req)
      BY <3>2, <3>3, <3>5 DEF Matches
    <3> QED
      BY <1>1, <1>2, <1>9, <2>1, <3>6, AnsweredIs DEF answer, assocs
  <2> QED
    BY <2>2, <2>3
<1>10. ASSUME NEW h \in after PROVE h \in stays \cup gained
  <2>1. synced # -1
    BY <1>10, HoldsIs DEF after
  <2>2. PICK f \in Flags : LET n == LatestCN(log, f, synced) IN h = <<f, n>> /\ n > 0 /\ Shown(n, req)
    BY <1>10, HoldsIs DEF after
  <2> DEFINE n == LatestCN(log, f, synced)
  <2>3. h = <<f, n>> /\ n > 0 /\ Shown(n, req) /\ log[n].active
    BY <2>2 DEF Shown
  <2>4. n \in 1..synced
    BY <1>3, <2>3, LatestInRange
  <2>5. PICK v \in ToSet(data) : v.name = f /\ log[n].sets \subseteq NamesOf(v.sets)
    BY <1>3, <1>8, <2>1, <2>3
  <2>6. v.lastUpdated = n /\ v.active
    BY <1>5, <2>3, <2>5
  <2>7. CASE n > since
    <3>1. v \in answer
      BY <1>9, <2>3, <2>5, <2>6, <2>7
    <3> QED
      BY <1>7, <2>3, <2>5, <2>6, <3>1
  <2>8. CASE n <= since
    <3>1. since # -1 /\ synced \in Nat
      BY <1>3, <2>4, <2>8
    <3>2. LatestCN(log, f, since) = n
      BY <1>3, <2>3, <2>8, <3>1, LatestSettled
    <3>3. h \in before
      BY <2>3, <3>1, <3>2, HoldsIs DEF before
    <3>4. \A w \in answer : w.name # h[1]
      <4> SUFFICES ASSUME NEW w \in answer, w.name = f PROVE FALSE
        BY <2>3
      <4>1. w.lastUpdated = n /\ w.lastUpdated > since
        BY <1>4, <1>5
      <4> QED
        BY <1>3, <2>4, <2>8, <4>1
    <3> QED
      BY <3>3, <3>4
  <2> QED
    BY <1>3, <2>4, <2>7, <2>8
<1>11. ASSUME NEW h \in gained PROVE h \in after
  <2>1. PICK v \in answer : h = <<v.name, v.lastUpdated>> /\ Shown(v.lastUpdated, req)
    BY <1>7, <1>11
  <2>2. /\ v \in ToSet(data) /\ v.name \in Flags /\ v.lastUpdated \in 1..synced
        /\ v.lastUpdated = LatestCN(log, v.name, synced)
    BY <1>4, <1>5
  <2>3. synced # -1 /\ v.lastUpdated > 0
    BY <1>3, <2>2
  <2> QED
    BY <2>1, <2>2, <2>3, HoldsIs DEF after
<1>12. ASSUME NEW h \in stays PROVE h \in after
  <2>1. since # -1 /\ h \in before /\ \A v \in answer : v.name # h[1]
    BY <1>12, HoldsIs DEF before
  <2>2. PICK f \in Flags : LET m == LatestCN(log, f, since) IN h = <<f, m>> /\ m > 0 /\ Shown(m, req)
    BY <2>1, HoldsIs DEF before
  <2> DEFINE m == LatestCN(log, f, since)
             n == LatestCN(log, f, synced)
  <2>3. h = <<f, m>> /\ m > 0 /\ Shown(m, req) /\ log[m].active
    BY <2>2 DEF Shown
  <2>4. since \in Nat /\ synced \in Nat /\ synced # -1
    BY <1>3, <2>1
  <2>5. m \in ChangesOf(log, f, synced)
    <3>1. m \in ChangesOf(log, f, since)
      BY <2>3, <2>4, LatestIsLast
    <3> QED
      BY <1>3, <3>1 DEF ChangesOf
  <2>6. n \in 1..synced /\ n > 0
    BY <2>4, <2>5, LatestIsLast
  <2>7. n <= since
    <3> SUFFICES ASSUME n > since PROVE FALSE
      BY <1>3, <2>6
    <3>1. PICK v \in ToSet(data) : v.name = f /\ log[m].sets \subseteq NamesOf(v.sets)
      BY <1>8, <2>1, <2>3
    <3>2. v \in answer
      BY <1>9, <2>1, <2>3, <3>1
    <3> QED
      BY <2>1, <2>3, <3>1, <3>2
  <2>8. m = n
    BY <1>3, <2>4, <2>6, <2>7, LatestSettled
  <2> QED
    BY <2>3, <2>4, <2>8, HoldsIs DEF after
<1> QED
  BY <1>6, <1>10, <1>11, <1>12 DEF req, answer, before, after

-----------------------------------------------------------------------------
(* The theorems                                                            *)

\* The invariant holds throughout.
LEMMA IInvAlways == Spec => []IInv
BY IInvInit, IInvStep, PTL DEF Spec

\* However an SDK orders or repeats its sets, the clean-up in place loses none
\* that it asks for and may have (flagsets.go:30-39).
THEOREM WantedSetsStay == Spec => []NoWantedSetLost
BY IInvAlways, IInvFilter, PTL

\* A client that was up to date with any change number the proxy handed out, and
\* filters by one set at most, is up to date with the proxy after one answer
\* (historic.go GetUpdatedSince).
THEOREM AnswersCatchUp == Spec => []IncrementalEqualsFresh
BY IInvAlways, IInvIncremental, PTL

\* The views are one for each flag, in the order of their last update, and an
\* answer names no flag that never had one of the sets asked for
\* (historic.go featureShouldBeReturned).
THEOREM AnswersStayWithin == Spec => []AnswerWithinSets
BY IInvAlways, IInvWithinSets, PTL

-----------------------------------------------------------------------------
(* EvictionMonitor                                                         *)

\* Differences add up.
LEMMA Differences ==
    ASSUME NEW a \in Nat, NEW b \in Nat, NEW c \in Nat, NEW x \in Nat, NEW y \in Nat, NEW z \in Nat,
           NEW m \in Nat, NEW n \in Nat, b - a = y - x + m
    PROVE  (c - a = z - x + (m + n)) <=> (c - b = z - y + n)
OBVIOUS

\* The ratio of what was evicted to what was generated, and the growth of what is in Redis.
LEMMA Ratio ==
    ASSUME NEW a \in Nat, NEW b \in Nat, NEW x \in Nat, NEW y \in Nat, NEW m \in Nat, NEW u \in Nat,
           a <= b, b - a = y - x + u, NEW t, t = m + u, NEW g, g = y - x + t
    PROVE  g \in Nat /\ t \in Nat /\ (g # 0 => (t < g <=> b - a > u)) /\ (g = 0 => ~(b - a > u))
OBVIOUS

\* The fields of a record, and of the records of a window.
LEMMA RecordNats ==
    ASSUME NEW r \in FlushRecord
    PROVE  r.flushed \in Nat /\ r.left \in Nat /\ r.before \in Nat
BY DEF FlushRecord

LEMMA WindowNats ==
    ASSUME NEW w \in Seq(FlushRecord)
    PROVE  /\ Len(w) \in Nat /\ (w # <<>> <=> Len(w) > 0)
           /\ \A n \in 1..Len(w) : /\ w[n] \in FlushRecord
                                  /\ w[n].flushed \in Nat /\ w[n].left \in Nat /\ w[n].before \in Nat
<1>1. \A n \in 1..Len(w) : w[n] \in FlushRecord
  OBVIOUS
<1>2. Len(w) \in Nat /\ (w # <<>> <=> Len(w) > 0)
  OBVIOUS
<1> QED
  BY <1>1, <1>2, RecordNats

\* The sum of a window, record by record.
LEMMA FlushedIs ==
    ASSUME NEW w \in Seq(FlushRecord)
    PROVE  \E sum \in [0..Len(w) -> Nat] :
              /\ sum[0] = 0 /\ \A n \in 1..Len(w) : sum[n] = sum[n - 1] + w[n].flushed
              /\ Flushed(w) = sum[Len(w)]
<1> DEFINE N == Len(w)
           g == [x \in (1..N) \X Nat |-> x[2] + w[x[1]].flushed]
           Sums(h) == h = [n \in 0..N |-> IF n = 0 THEN 0 ELSE h[n - 1] + w[n].flushed]
           s == CHOOSE h : Sums(h)
<1>1. N \in Nat /\ \A n \in 1..N : w[n].flushed \in Nat
  BY WindowNats
<1>2. g \in [(1..N) \X Nat -> Nat] /\ \A n \in 1..N, k \in Nat : g[<<n, k>>] = k + w[n].flushed
  BY <1>1
<1>3. Flushed(w) = s[N]
  BY DEF Flushed
<1> HIDE DEF g, N
<1>4. PICK f \in [0..N -> Nat] : f[0] = 0 /\ \A n \in 1..N : f[n] = g[<<n, f[n - 1]>>]
  <2>1. IsLoop(Nat, 0, N, g)
    BY <1>1, <1>2 DEF IsLoop
  <2> QED
    BY <2>1, LoopExists DEF RunsAs
<1>5. \A n \in 1..N : f[n] = f[n - 1] + w[n].flushed
  <2> SUFFICES ASSUME NEW n \in 1..N PROVE f[n] = f[n - 1] + w[n].flushed
    OBVIOUS
  <2>1. n - 1 \in 0..N
    BY <1>1
  <2> QED
    BY <1>2, <1>4, <2>1
<1>6. Sums(f)
  <2>1. \A n \in 0..N : n = 0 \/ n \in 1..N
    BY <1>1
  <2>2. \A n \in 0..N : f[n] = IF n = 0 THEN 0 ELSE f[n - 1] + w[n].flushed
    BY <1>4, <1>5, <2>1
  <2> QED
    BY <2>2
<1>7. Sums(s)
  <2> HIDE DEF Sums
  <2> QED
    BY <1>6
<1> HIDE DEF s
<1>8. DOMAIN s = 0..N /\ s[0] = 0 /\ \A n \in 1..N : s[n] = s[n - 1] + w[n].flushed
  <2>1. DOMAIN s = 0..N /\ \A n \in 0..N : s[n] = IF n = 0 THEN 0 ELSE s[n - 1] + w[n].flushed
    BY <1>7
  <2>2. 0 \in 0..N /\ \A n \in 1..N : n \in 0..N /\ n # 0
    BY <1>1
  <2> HIDE DEF Sums
  <2> QED
    BY <2>1, <2>2
<1>9. \A n \in 0..N : n \in {k \in 0..N : s[k] = f[k]}
  <2> DEFINE T == {k \in 0..N : s[k] = f[k]}
  <2>1. 0 \in T
    BY <1>1, <1>4, <1>8
  <2>2. ASSUME NEW n \in 0..N, n \in T, n < N PROVE n + 1 \in T
    <3>1. n + 1 \in 1..N /\ n + 1 \in 0..N /\ (n + 1) - 1 = n
      BY <1>1, <2>2
    <3> QED
      BY <1>5, <1>8, <2>2, <3>1
  <2> HIDE DEF T
  <2>3. \A n \in 0..N : n \in T
    BY <1>1, <2>1, <2>2, LoopInduction
  <2> QED
    BY <2>3 DEF T
<1>10. f[N] = s[N]
  BY <1>1, <1>9
<1> QED
  BY <1>3, <1>4, <1>5, <1>10 DEF N

\* A record adds what it flushed.
LEMMA FlushedAppend ==
    ASSUME NEW w \in Seq(FlushRecord), NEW r \in FlushRecord
    PROVE  Flushed(Append(w, r)) = Flushed(w) + r.flushed /\ Flushed(w) \in Nat
<1> DEFINE v == Append(w, r)
           N == Len(w)
<1>1. N \in Nat /\ v \in Seq(FlushRecord) /\ Len(v) = N + 1 /\ v[N + 1] = r /\ \A n \in 1..N : v[n] = w[n]
  OBVIOUS
<1>2. PICK f \in [0..N -> Nat] : f[0] = 0 /\ (\A n \in 1..N : f[n] = f[n - 1] + w[n].flushed) /\ Flushed(w) = f[N]
  BY FlushedIs
<1> HIDE DEF v, N
<1>3. PICK h \in [0..(N + 1) -> Nat] : h[0] = 0 /\ (\A n \in 1..(N + 1) : h[n] = h[n - 1] + v[n].flushed) /\ Flushed(v) = h[N + 1]
  BY <1>1, FlushedIs
<1> DEFINE T == {k \in 0..N : f[k] = h[k]}
<1>4. 0 \in T
  BY <1>1, <1>2, <1>3
<1>5. ASSUME NEW n \in 0..N, n \in T, n < N PROVE n + 1 \in T
  <2>1. n + 1 \in 1..N /\ n + 1 \in 1..(N + 1) /\ n + 1 \in 0..N /\ (n + 1) - 1 = n
    BY <1>1, <1>5
  <2> QED
    BY <1>1, <1>2, <1>3, <1>5, <2>1
<1> HIDE DEF T
<1>6. N \in T
  <2>1. \A n \in 0..N : n \in T
    BY <1>1, <1>4, <1>5, LoopInduction
  <2> QED
    BY <1>1, <2>1
<1>7. f[N] = h[N] /\ N + 1 \in 1..(N + 1) /\ (N + 1) - 1 = N
  BY <1>1, <1>6 DEF T
<1>8. Flushed(v) = Flushed(w) + r.flushed
  BY <1>1, <1>2, <1>3, <1>7
<1> QED
  BY <1>1, <1>2, <1>8 DEF v

\* Without its first record a window lacks what that flushed.
LEMMA FlushedTail ==
    ASSUME NEW w \in Seq(FlushRecord), w # <<>>
    PROVE  Flushed(w) = w[1].flushed + Flushed(Tail(w))
<1> DEFINE v == Tail(w)
           N == Len(w) - 1
<1>1. N \in Nat /\ v \in Seq(FlushRecord) /\ Len(v) = N /\ Len(w) = N + 1 /\ \A n \in 1..N : v[n] = w[n + 1]
  OBVIOUS
<1> HIDE DEF v, N
<1>2. PICK f \in [0..(N + 1) -> Nat] : f[0] = 0 /\ (\A n \in 1..(N + 1) : f[n] = f[n - 1] + w[n].flushed) /\ Flushed(w) = f[N + 1]
  BY <1>1, FlushedIs
<1>3. PICK h \in [0..N -> Nat] : h[0] = 0 /\ (\A n \in 1..N : h[n] = h[n - 1] + v[n].flushed) /\ Flushed(v) = h[N]
  BY <1>1, FlushedIs
<1>4. w[1].flushed \in Nat /\ \A n \in 1..N : w[n + 1].flushed \in Nat
  <2>1. 1 \in 1..Len(w) /\ \A n \in 1..N : n + 1 \in 1..Len(w)
    BY <1>1
  <2> QED
    BY <2>1, WindowNats
<1> DEFINE T == {k \in 0..N : f[k + 1] = w[1].flushed + h[k]}
<1>5. 0 \in T
  <2>1. 1 \in 1..(N + 1) /\ 1 - 1 = 0 /\ 0 + 1 = 1 /\ 0 \in 0..N
    BY <1>1
  <2> QED
    BY <1>2, <1>3, <1>4, <2>1
<1>6. ASSUME NEW n \in 0..N, n \in T, n < N PROVE n + 1 \in T
  <2>1. n + 1 \in 1..N /\ (n + 1) + 1 \in 1..(N + 1) /\ n + 1 \in 0..N /\ (n + 1) - 1 = n /\ ((n + 1) + 1) - 1 = n + 1
    BY <1>1, <1>6
  <2>2. f[(n + 1) + 1] = f[n + 1] + w[(n + 1) + 1].flushed /\ h[n + 1] = h[n] + v[n + 1].flushed /\ v[n + 1] = w[(n + 1) + 1]
    BY <1>1, <1>2, <1>3, <2>1
  <2>3. f[n + 1] = w[1].flushed + h[n] /\ h[n] \in Nat /\ w[(n + 1) + 1].flushed \in Nat
    BY <1>3, <1>4, <1>6, <2>1
  <2>4. f[(n + 1) + 1] = w[1].flushed + h[n + 1]
    BY <1>4, <2>2, <2>3
  <2> QED
    BY <2>1, <2>4
<1> HIDE DEF T
<1>7. N \in T
  <2>1. \A n \in 0..N : n \in T
    BY <1>1, <1>5, <1>6, LoopInduction
  <2> QED
    BY <1>1, <2>1
<1> QED
  BY <1>2, <1>3, <1>7 DEF T, v

\* One fetch after another: what came in between is what was evicted or is left.
Follows(r, q) == r.before <= q.before /\ q.before - r.before = q.left - r.left + q.flushed

\* A window of such fetches.
WindowOK(w) ==
    /\ w \in Seq(FlushRecord)
    /\ \A i, j \in 1..Len(w) : i < j => w[i].before <= w[j].before
    /\ \A i \in 1..Len(w) : i + 1 <= Len(w) => Follows(w[i], w[i + 1])
    /\ w # <<>> => w[Len(w)].before - w[1].before = w[Len(w)].left - w[1].left + Flushed(Tail(w))

\* An empty window has flushed nothing.
LEMMA NothingFlushed == Flushed(<<>>) = 0
<1>1. <<>> \in Seq(FlushRecord) /\ Len(<<>>) = 0
  OBVIOUS
<1>2. PICK f \in [0..0 -> Nat] : f[0] = 0 /\ Flushed(<<>>) = f[0]
  BY <1>1, FlushedIs
<1> QED
  BY <1>2

\* Without its first record a window fits still.
LEMMA TailOK ==
    ASSUME NEW w, WindowOK(w), w # <<>>
    PROVE  WindowOK(Tail(w))
<1> DEFINE v == Tail(w)
           N == Len(w) - 1
<1>1. w \in Seq(FlushRecord) /\ N \in Nat /\ v \in Seq(FlushRecord) /\ Len(v) = N /\ Len(w) = N + 1 /\ \A n \in 1..N : v[n] = w[n + 1]
  BY DEF WindowOK
<1>2. \A n \in 1..N : n + 1 \in 1..Len(w) /\ n \in 1..Len(w)
  BY <1>1
<1>3. \A i, j \in 1..N : i < j => v[i].before <= v[j].before
  BY <1>1, <1>2 DEF WindowOK
<1>4. ASSUME NEW i \in 1..N, i + 1 <= N PROVE Follows(v[i], v[i + 1])
  <2>1. i + 1 \in 1..N /\ (i + 1) + 1 <= Len(w)
    BY <1>1, <1>4
  <2> QED
    BY <1>1, <1>2, <2>1 DEF WindowOK
<1>5. ASSUME v # <<>> PROVE v[N].before - v[1].before = v[N].left - v[1].left + Flushed(Tail(v))
  <2>1. N \in Nat \ {0} /\ 1 \in 1..N /\ N \in 1..N /\ 1 \in 1..Len(w) /\ 1 + 1 <= Len(w) /\ N + 1 \in 1..Len(w)
    BY <1>1, <1>5
  <2>2. v[1] = w[2] /\ v[N] = w[N + 1] /\ Follows(w[1], w[2])
    <3>1. 1 + 1 = 2
      OBVIOUS
    <3> QED
      BY <1>1, <2>1, <3>1 DEF WindowOK
  <2>3. Flushed(v) = v[1].flushed + Flushed(Tail(v))
    BY <1>1, <1>5, FlushedTail
  <2>4. w[N + 1].before - w[1].before = w[N + 1].left - w[1].left + Flushed(v)
    BY <1>1 DEF WindowOK
  <2>5. v[1] \in FlushRecord /\ v[N] \in FlushRecord /\ w[1] \in FlushRecord /\ Tail(v) \in Seq(FlushRecord)
    BY <1>1, <1>5, <2>1
  <2>6. Flushed(Tail(v)) \in Nat
    BY <2>5, FlushedAppend
  <2>7. /\ v[1].before \in Nat /\ v[1].left \in Nat /\ v[1].flushed \in Nat
        /\ v[N].before \in Nat /\ v[N].left \in Nat /\ w[1].before \in Nat /\ w[1].left \in Nat
    BY <2>5, RecordNats
  <2>8. v[1].before - w[1].before = v[1].left - w[1].left + v[1].flushed
    BY <2>2 DEF Follows
  <2>9. v[N].before - w[1].before = v[N].left - w[1].left + (v[1].flushed + Flushed(Tail(v)))
    BY <2>2, <2>3, <2>4
  <2> DEFINE a == w[1].before  b == v[1].before  c == v[N].before
             x == w[1].left    y == v[1].left    z == v[N].left
             m == v[1].flushed n == Flushed(Tail(v))
  <2>10. /\ a \in Nat /\ b \in Nat /\ c \in Nat /\ x \in Nat /\ y \in Nat /\ z \in Nat /\ m \in Nat /\ n \in Nat
         /\ b - a = y - x + m /\ c - a = z - x + (m + n)
    BY <2>6, <2>7, <2>8, <2>9
  <2> HIDE DEF v, N
  <2>11. c - b = z - y + n
    <3> HIDE DEF a, b, c, x, y, z, m, n
    <3> QED
      BY <2>10, Differences
  <2> QED
    BY <2>11
<1> HIDE DEF v, N
<1>6. WindowOK(v)
  BY <1>1, <1>3, <1>4, <1>5 DEF WindowOK
<1> QED
  BY <1>6 DEF v

\* A window fits with a record that follows its last.
LEMMA AppendOK ==
    ASSUME NEW w, WindowOK(w), NEW r \in FlushRecord, w # <<>> => Follows(w[Len(w)], r)
    PROVE  WindowOK(Append(w, r))
<1> DEFINE v == Append(w, r)
           N == Len(w)
<1>0. w \in Seq(FlushRecord)
  BY DEF WindowOK
<1>1. /\ w \in Seq(FlushRecord) /\ N \in Nat /\ v \in Seq(FlushRecord) /\ Len(v) = N + 1 /\ v[N + 1] = r
      /\ (\A n \in 1..N : v[n] = w[n] /\ w[n] \in FlushRecord) /\ (w # <<>> <=> N > 0) /\ v # <<>>
  <2>1. v \in Seq(FlushRecord) /\ Len(v) = N + 1 /\ v[N + 1] = r /\ \A n \in 1..N : v[n] = w[n]
    BY <1>0
  <2>2. v # <<>>
    BY <1>0
  <2> QED
    BY <1>0, <2>1, <2>2, WindowNats
<1> HIDE DEF v, N
<1>2. \A n \in 1..(N + 1) : n = N + 1 \/ n \in 1..N
  BY <1>1
<1>3. \A i \in 1..N : v[i].before <= v[N + 1].before
  <2> SUFFICES ASSUME NEW i \in 1..N PROVE w[i].before <= r.before
    BY <1>1
  <2>1. N \in 1..N /\ w # <<>> /\ w[i].before \in Nat /\ w[N].before \in Nat /\ r.before \in Nat
    BY <1>1, RecordNats
  <2>2. w[N].before <= r.before
    BY <2>1 DEF Follows, N
  <2>3. i = N \/ w[i].before <= w[N].before
    BY <1>1, <2>1 DEF WindowOK, N
  <2> QED
    BY <2>1, <2>2, <2>3
<1>4. ASSUME NEW i \in 1..(N + 1), NEW j \in 1..(N + 1), i < j PROVE v[i].before <= v[j].before
  <2>1. i \in 1..N
    BY <1>1, <1>4
  <2>2. CASE j = N + 1
    BY <1>3, <2>1, <2>2
  <2>3. CASE j \in 1..N
    BY <1>1, <1>4, <2>1, <2>3 DEF WindowOK, N
  <2> QED
    BY <1>2, <2>2, <2>3
<1>5. ASSUME NEW i \in 1..(N + 1), i + 1 <= N + 1 PROVE Follows(v[i], v[i + 1])
  <2>1. i \in 1..N
    BY <1>1, <1>5
  <2>2. CASE i = N
    BY <1>1, <2>1, <2>2 DEF N
  <2>3. CASE i # N
    <3>1. i + 1 \in 1..N /\ i + 1 <= N
      BY <1>1, <2>1, <2>3
    <3> QED
      BY <1>1, <2>1, <3>1 DEF WindowOK, N
  <2> QED
    BY <2>2, <2>3
<1>6. v[N + 1].before - v[1].before = v[N + 1].left - v[1].left + Flushed(Tail(v))
  <2>1. CASE w = <<>>
    <3>1. N = 0 /\ Tail(v) = <<>>
      BY <2>1 DEF v, N
    <3>2. v[N + 1] = r /\ v[1] = r /\ r.before \in Nat /\ r.left \in Nat
      BY <1>1, <3>1, RecordNats
    <3>5. \A k \in Nat : k - k = 0
      OBVIOUS
    <3>3. v[N + 1].before - v[1].before = 0 /\ v[N + 1].left - v[1].left = 0 /\ Flushed(Tail(v)) = 0
      <4>1. v[N + 1] = v[1]
        BY <3>2
      <4> QED
        BY <3>1, <3>2, <3>5, <4>1, NothingFlushed
    <3>4. 0 = 0 + 0
      OBVIOUS
    <3> QED
      BY <3>3, <3>4
  <2>2. CASE w # <<>>
    <3>1. Tail(v) = Append(Tail(w), r) /\ Tail(w) \in Seq(FlushRecord)
      BY <1>1, <2>2 DEF v
    <3>2. Flushed(Tail(v)) = Flushed(Tail(w)) + r.flushed /\ Flushed(Tail(w)) \in Nat
      BY <3>1, FlushedAppend
    <3>3. /\ w[N].before - w[1].before = w[N].left - w[1].left + Flushed(Tail(w)) /\ Follows(w[N], r)
          /\ 1 \in 1..N /\ N \in 1..N /\ v[1] = w[1] /\ v[N + 1] = r /\ w[1] \in FlushRecord /\ w[N] \in FlushRecord
      BY <1>1, <2>2 DEF WindowOK, N
    <3>4. /\ w[N].before \in Nat /\ w[N].left \in Nat /\ w[1].before \in Nat /\ w[1].left \in Nat
          /\ r.before \in Nat /\ r.left \in Nat /\ r.flushed \in Nat
      BY <3>3, RecordNats
    <3>5. r.before - w[N].before = r.left - w[N].left + r.flushed
      BY <3>3 DEF Follows
    <3>6. r.before - w[1].before = r.left - w[1].left + (Flushed(Tail(w)) + r.flushed)
      <4> DEFINE a == w[1].before  b == w[N].before  c == r.before
                 x == w[1].left    y == w[N].left    z == r.left
                 n == r.flushed m == Flushed(Tail(w))
      <4>1. /\ a \in Nat /\ b \in Nat /\ c \in Nat /\ x \in Nat /\ y \in Nat /\ z \in Nat /\ m \in Nat /\ n \in Nat
            /\ b - a = y - x + m /\ c - b = z - y + n
        BY <3>2, <3>3, <3>4, <3>5
      <4>2. c - a = z - x + (m + n)
        <5> HIDE DEF a, b, c, x, y, z, m, n
        <5> QED
          BY <4>1, Differences
      <4> QED
        BY <4>2
    <3> QED
      BY <3>2, <3>3, <3>6
  <2> QED
    BY <2>1, <2>2
<1>7. WindowOK(v)
  BY <1>1, <1>4, <1>5, <1>6 DEF WindowOK
<1> QED
  BY <1>7 DEF v

\* What lambda tells of a window that fits.
LEMMA LambdaOf ==
    ASSUME NEW w, WindowOK(w), w # <<>>
    PROVE  LET l == CalculateLambda(w) IN
           /\ l \in Int \X Int /\ l[1] >= 0 /\ l[2] > 0
           /\ l[1] < l[2] <=> w[Len(w)].before - w[1].before > Flushed(Tail(w))
<1> DEFINE t == Flushed(w)
           u == Flushed(Tail(w))
           a == w[1]
           z == w[Len(w)]
           g == z.left - a.left + t
<1>1. a \in FlushRecord /\ z \in FlushRecord /\ Tail(w) \in Seq(FlushRecord) /\ w \in Seq(FlushRecord) /\ Len(w) \in Nat \ {0}
  BY DEF WindowOK
<1>2. t = a.flushed + u /\ u \in Nat
  BY <1>1, FlushedTail, FlushedAppend
<1>3. z.before - a.before = z.left - a.left + u
  BY DEF WindowOK
<1>4. a.before <= z.before
  <2>1. \A n \in Nat \ {0} : n = 1 \/ 1 < n
    OBVIOUS
  <2>2. a.before \in Nat /\ 1 \in 1..Len(w) /\ Len(w) \in 1..Len(w)
    BY <1>1, RecordNats
  <2>3. CASE Len(w) = 1
    BY <2>2, <2>3
  <2>4. CASE 1 < Len(w)
    BY <2>2, <2>4 DEF WindowOK
  <2> QED
    BY <1>1, <2>1, <2>3, <2>4
<1>5. CalculateLambda(w) = IF g = 0 THEN <<1, 1>> ELSE <<t, g>>
  BY DEF CalculateLambda
<1>9. /\ a.flushed \in Nat /\ a.left \in Nat /\ a.before \in Nat
      /\ z.flushed \in Nat /\ z.left \in Nat /\ z.before \in Nat
  BY <1>1, RecordNats
<1> HIDE DEF t, u, a, z
<1>6. g \in Nat /\ t \in Nat /\ (g # 0 => (t < g <=> z.before - a.before > u)) /\ (g = 0 => ~(z.before - a.before > u))
  <2> DEFINE b == a.before  c == z.before  x == a.left  y == z.left  m == a.flushed
  <2>1. /\ b \in Nat /\ c \in Nat /\ x \in Nat /\ y \in Nat /\ m \in Nat /\ u \in Nat
        /\ b <= c /\ c - b = y - x + u /\ t = m + u /\ g = y - x + t
    BY <1>2, <1>3, <1>4, <1>9
  <2>2. g \in Nat /\ t \in Nat /\ (g # 0 => (t < g <=> c - b > u)) /\ (g = 0 => ~(c - b > u))
    <3> HIDE DEF b, c, x, y, m, g
    <3> QED
      BY <2>1, Ratio
  <2> QED
    BY <2>2
<1> HIDE DEF g
<1> DEFINE l == CalculateLambda(w)
<1>7. CASE g = 0
  <2>1. l = <<1, 1>> /\ ~(z.before - a.before > u)
    BY <1>5, <1>6, <1>7
  <2> QED
    BY <2>1 DEF u, a, z
<1>8. CASE g # 0
  <2>1. l = <<t, g>> /\ t \in Nat /\ g \in Nat \ {0} /\ (t < g <=> z.before - a.before > u)
    BY <1>5, <1>6, <1>8
  <2>2. l \in Int \X Int /\ l[1] >= 0 /\ l[2] > 0 /\ (l[1] < l[2] <=> z.before - a.before > u)
    BY <2>1
  <2> QED
    BY <2>2 DEF u, a, z
<1> QED
  BY <1>7, <1>8

\* What is in Redis is what the last fetch left and what was generated since.
SinceFetch(r) == r.before <= generated /\ inRedis = r.left + (generated - r.before)

MonitorInv ==
    /\ MonitorTypeOK /\ WindowOK(flushingStats)
    /\ inRedis <= generated
    /\ \/ taken = Idle
       \/ /\ taken.before <= MaxItems /\ SinceFetch(taken)
          /\ flushingStats # <<>> => Follows(flushingStats[Len(flushingStats)], taken)
    /\ taken = Idle /\ flushingStats # <<>> => SinceFetch(flushingStats[Len(flushingStats)])
    /\ flushingStats # <<>> => lambda = CalculateLambda(flushingStats)

\* The window starts empty.
LEMMA MonitorStarts == MonitorInit => MonitorInv
<1> SUFFICES ASSUME MonitorInit PROVE MonitorInv
  OBVIOUS
<1> USE MonitorAssumption DEF MonitorInit
<1>1. MonitorTypeOK
  BY DEF MonitorTypeOK, FlushRecord, Idle
<1>2. WindowOK(<<>>)
  BY DEF WindowOK
<1> QED
  BY <1>1, <1>2 DEF MonitorInv

\* What is generated adds to what is in Redis.
LEMMA GenerateKeeps == ASSUME MonitorInv, Generate PROVE MonitorInv'
<1>1. /\ generated < MaxItems /\ generated' = generated + 1 /\ inRedis' = inRedis + 1
      /\ taken' = taken /\ flushingStats' = flushingStats /\ lambda' = lambda
  BY DEF Generate
<1>2. generated \in 0..MaxItems /\ inRedis \in 0..MaxItems /\ MaxItems \in Nat
  BY MonitorAssumption DEF MonitorInv, MonitorTypeOK
<1>3. ASSUME NEW r \in FlushRecord, SinceFetch(r) PROVE r.before <= generated' /\ inRedis' = r.left + (generated' - r.before)
  BY <1>1, <1>2, <1>3, RecordNats DEF SinceFetch
<1>4. taken \in FlushRecord /\ flushingStats \in Seq(FlushRecord)
  BY DEF MonitorInv, MonitorTypeOK
<1>5. flushingStats # <<>> => flushingStats[Len(flushingStats)] \in FlushRecord
  BY <1>4
<1>6. inRedis + 1 \in 0..MaxItems /\ generated + 1 \in 0..MaxItems
  <2> QED
    BY <1>1, <1>2 DEF MonitorInv
<1>7. MonitorTypeOK'
  BY <1>1, <1>6 DEF MonitorInv, MonitorTypeOK
<1>8. WindowOK(flushingStats)' /\ (inRedis <= generated)'
  BY <1>1, <1>2 DEF MonitorInv
<1>9. \/ taken' = Idle
      \/ /\ taken'.before <= MaxItems /\ SinceFetch(taken)'
         /\ flushingStats' # <<>> => Follows(flushingStats[Len(flushingStats)], taken)'
  <2>1. CASE taken = Idle
    BY <1>1, <2>1
  <2>2. CASE taken # Idle
    BY <1>1, <1>3, <1>4, <2>2 DEF MonitorInv, SinceFetch
  <2> QED
    BY <2>1, <2>2
<1>10. ASSUME taken' = Idle, flushingStats' # <<>> PROVE SinceFetch(flushingStats[Len(flushingStats)])'
  BY <1>1, <1>3, <1>5, <1>10 DEF MonitorInv, SinceFetch
<1>11. (flushingStats # <<>> => lambda = CalculateLambda(flushingStats))'
  BY <1>1 DEF MonitorInv
<1> QED
  BY <1>7, <1>8, <1>9, <1>10, <1>11 DEF MonitorInv

\* A fetch follows the one before it.
LEMMA FetchKeeps == ASSUME MonitorInv, FetchItems PROVE MonitorInv'
<1> DEFINE n == IF inRedis < FetchSize THEN inRedis ELSE FetchSize
           r == [flushed |-> n, left |-> inRedis - n, before |-> generated]
           w == flushingStats
           z == w[Len(w)]
<1>1. /\ taken = Idle /\ taken' = r /\ inRedis' = inRedis - n
      /\ generated' = generated /\ flushingStats' = flushingStats /\ lambda' = lambda
  BY DEF FetchItems
<1>2. generated \in 0..MaxItems /\ inRedis \in 0..MaxItems /\ MaxItems \in Nat /\ FetchSize \in Nat \ {0}
  BY MonitorAssumption DEF MonitorInv, MonitorTypeOK
<1>3. n \in 0..inRedis /\ n \in Nat /\ inRedis - n \in Nat /\ inRedis - n \in 0..MaxItems
  BY <1>2
<1> HIDE DEF n
<1>4. r \in FlushRecord /\ r.flushed = n /\ r.left = inRedis - n /\ r.before = generated
  BY <1>2, <1>3 DEF FlushRecord
<1> HIDE DEF r
<1>5. MonitorTypeOK'
  BY <1>1, <1>2, <1>3, <1>4 DEF MonitorInv, MonitorTypeOK
<1>6. WindowOK(flushingStats)' /\ (inRedis <= generated)'
  BY <1>1, <1>2, <1>3 DEF MonitorInv
<1>7. taken'.before <= MaxItems /\ SinceFetch(taken)'
  <2>1. r.before <= generated' /\ inRedis' = r.left + (generated' - r.before)
    BY <1>1, <1>2, <1>3, <1>4
  <2> QED
    BY <1>1, <1>2, <1>4, <2>1 DEF SinceFetch
<1>8. ASSUME flushingStats # <<>> PROVE Follows(z, r)
  <2>1. SinceFetch(z) /\ z \in FlushRecord
    <3>1. w \in Seq(FlushRecord)
      BY DEF MonitorInv, MonitorTypeOK
    <3>2. Len(w) \in 1..Len(w)
      BY <1>8, <3>1, WindowNats
    <3> QED
      BY <1>1, <1>8, <3>1, <3>2, WindowNats DEF MonitorInv
  <2>2. z.before \in Nat /\ z.left \in Nat
    BY <2>1, RecordNats
  <2>3. z.before <= generated /\ inRedis = z.left + (generated - z.before)
    BY <2>1 DEF SinceFetch
  <2> HIDE DEF z
  <2>4. generated - z.before = (inRedis - n) - z.left + n
    BY <1>2, <1>3, <2>2, <2>3
  <2> QED
    BY <1>4, <2>3, <2>4 DEF Follows
<1>9. taken' # Idle
  <2>1. r.before # Idle.before
    BY <1>2, <1>4 DEF Idle
  <2> QED
    BY <1>1, <2>1
<1>10. flushingStats' # <<>> => Follows(flushingStats[Len(flushingStats)], taken)'
  <2>1. Follows(flushingStats[Len(flushingStats)], taken)' = Follows(z, r)
    BY <1>1 DEF Follows
  <2> QED
    BY <1>1, <1>8, <2>1
<1>11. (flushingStats # <<>> => lambda = CalculateLambda(flushingStats))'
  BY <1>1 DEF MonitorInv
<1> QED
  BY <1>5, <1>6, <1>7, <1>9, <1>10, <1>11 DEF MonitorInv

\* The record of a fetch is the last of the window that it joins.
LEMMA StoreKeeps == ASSUME MonitorInv, StoreDataFlushed PROVE MonitorInv'
<1> DEFINE u == Shifted(flushingStats)
           w == Append(u, taken)
<1>1. /\ taken # Idle /\ taken' = Idle /\ flushingStats' = w /\ lambda' = CalculateLambda(w)
      /\ inRedis' = inRedis /\ generated' = generated
  BY DEF StoreDataFlushed
<1>2. /\ taken \in FlushRecord /\ taken.before <= MaxItems /\ SinceFetch(taken)
      /\ flushingStats # <<>> => Follows(flushingStats[Len(flushingStats)], taken)
  BY <1>1 DEF MonitorInv, MonitorTypeOK
<1>3. flushingStats \in Seq(FlushRecord) /\ Len(flushingStats) <= MaxLength /\ MaxLength \in Nat \ {0}
  BY MonitorAssumption DEF MonitorInv, MonitorTypeOK
<1>4. /\ WindowOK(u) /\ u \in Seq(FlushRecord) /\ Len(u) < MaxLength
      /\ u # <<>> => Follows(u[Len(u)], taken)
  <2>1. CASE Len(flushingStats) >= MaxLength
    <3>1. u = Tail(flushingStats) /\ flushingStats # <<>> /\ Len(u) = Len(flushingStats) - 1 /\ u \in Seq(FlushRecord)
      BY <1>3, <2>1 DEF Shifted
    <3>2. WindowOK(u)
      BY <3>1, TailOK DEF MonitorInv
    <3>3. u # <<>> => u[Len(u)] = flushingStats[Len(flushingStats)]
      BY <1>3, <3>1
    <3> HIDE DEF u
    <3> QED
      BY <1>2, <1>3, <2>1, <3>1, <3>2, <3>3
  <2>2. CASE ~(Len(flushingStats) >= MaxLength)
    <3>1. u = flushingStats
      BY <2>2 DEF Shifted
    <3> HIDE DEF u
    <3> QED
      BY <1>2, <1>3, <2>2, <3>1 DEF MonitorInv
  <2> QED
    BY <2>1, <2>2
<1> HIDE DEF u
<1>5. WindowOK(w)
  BY <1>2, <1>4, AppendOK
<1>6. w \in Seq(FlushRecord) /\ w # <<>> /\ Len(w) = Len(u) + 1 /\ w[Len(w)] = taken
  BY <1>2, <1>4
<1>7. CalculateLambda(w) \in Int \X Int
  BY <1>5, <1>6, LambdaOf
<1> HIDE DEF w
<1>8. Idle \in FlushRecord
  BY MonitorAssumption DEF Idle, FlushRecord
<1>9. MonitorTypeOK'
  <2>1. Len(w) <= MaxLength
    BY <1>3, <1>4, <1>6
  <2> QED
    BY <1>1, <1>6, <1>7, <1>8, <2>1 DEF MonitorInv, MonitorTypeOK
<1>10. WindowOK(flushingStats)' /\ (inRedis <= generated)'
  BY <1>1, <1>5 DEF MonitorInv
<1>11. SinceFetch(flushingStats[Len(flushingStats)])'
  <2>1. SinceFetch(flushingStats[Len(flushingStats)])' = SinceFetch(taken)
    BY <1>1, <1>6 DEF SinceFetch
  <2> QED
    BY <1>2, <2>1
<1>12. (flushingStats # <<>> => lambda = CalculateLambda(flushingStats))'
  BY <1>1
<1> QED
  BY <1>1, <1>9, <1>10, <1>11, <1>12 DEF MonitorInv

\* The invariant has the property.
LEMMA MonitorTells == MonitorInv => LambdaTellsBacklog
<1> SUFFICES ASSUME MonitorInv PROVE LambdaTellsBacklog
  OBVIOUS
<1> DEFINE w == flushingStats
<1>1. MonitorTypeOK
  BY DEF MonitorInv
<1>2. ASSUME w # <<>>
      PROVE  /\ lambda[1] >= 0 /\ lambda[2] > 0
             /\ lambda[1] < lambda[2] <=> w[Len(w)].before - w[1].before > Flushed(Tail(w))
  BY <1>2, LambdaOf DEF MonitorInv
<1> QED
  BY <1>1, <1>2 DEF LambdaTellsBacklog

\* The eviction monitor: whatever the window, and whenever items are generated, lambda is
\* below one exactly when SDKs generate more than is evicted.
THEOREM LambdaIsTold == MonitorSpec => []LambdaTellsBacklog
<1>1. ASSUME MonitorInv, UNCHANGED monitorVars PROVE MonitorInv'
  <2>1. /\ taken' = taken /\ flushingStats' = flushingStats /\ lambda' = lambda
        /\ inRedis' = inRedis /\ generated' = generated
    BY <1>1 DEF monitorVars
  <2> QED
    BY <1>1, <2>1 DEF MonitorInv, MonitorTypeOK, SinceFetch, Follows
<1>2. MonitorInv /\ [MonitorNext]_monitorVars => MonitorInv'
  BY <1>1, GenerateKeeps, FetchKeeps, StoreKeeps DEF MonitorNext
<1> QED
  BY <1>2, MonitorStarts, MonitorTells, PTL DEF MonitorSpec

-----------------------------------------------------------------------------
(* ObservableStorage                                                       *)

\* The state of the loop of filterFailed after n iterations: the items before idx did not
\* fail, those up to end have all that did not, and every iteration brings idx and end closer.
LoopStates(in) == [list : [1..Len(in) -> FlagNames], idx : 1..(Len(in) + 1), end : 0..Len(in)]
Shortened(t) == {t.list[i] : i \in 1..t.end}
Filtering(in, failed, n, t) ==
    /\ t \in LoopStates(in)
    /\ t.idx <= t.end + 1
    /\ \A i \in 1..(t.idx - 1) : t.list[i] \notin failed
    /\ Shortened(t) \subseteq Names(in) /\ Names(in) \ failed \subseteq Shortened(t)
    /\ t.idx > t.end \/ t.end - t.idx + 1 <= Len(in) - n

\* An iteration keeps the loop invariant.
LEMMA ShrunkFilters ==
    ASSUME NEW in \in Seq(FlagNames), NEW failed, NEW n \in 0..Len(in), NEW t, Filtering(in, failed, n, t)
    PROVE  Filtering(in, failed, n + 1, Shrunk(t, failed))
<1> DEFINE L == Len(in)
           l == t.list
           i == t.idx
           e == t.end
           u == Shrunk(t, failed)
<1>1. /\ t \in LoopStates(in) /\ L \in Nat /\ l \in [1..L -> FlagNames] /\ i \in 1..(L + 1) /\ e \in 0..L /\ n \in 0..L
      /\ i <= e + 1 /\ (\A k \in 1..(i - 1) : l[k] \notin failed)
      /\ Shortened(t) \subseteq Names(in) /\ Names(in) \ failed \subseteq Shortened(t) /\ Shortened(t) = {l[k] : k \in 1..e}
      /\ i > e \/ e - i + 1 <= L - n
  BY DEF Filtering, LoopStates, Shortened
<1>2. CASE i > e
  <2>1. u = t
    BY <1>2 DEF Shrunk
  <2> HIDE DEF u
  <2> QED
    <3>1. Filtering(in, failed, n + 1, t)
      <4>1. t.idx > t.end
        BY <1>2
      <4> QED
        BY <4>1 DEF Filtering
    <3> QED
      BY <2>1, <3>1 DEF u
<1>3. CASE i <= e /\ l[i] \in failed
  <2> DEFINE m == [l EXCEPT ![i] = l[e]]
  <2>1. u = [list |-> m, idx |-> i, end |-> e - 1] /\ i \in Nat /\ e \in Nat /\ ~(i > e)
    BY <1>1, <1>3 DEF Shrunk, NextIndex
  <2>2. i \in 1..L /\ e \in 1..L /\ l[e] \in FlagNames
    BY <1>1, <1>3
  <2>3. m \in [1..L -> FlagNames] /\ m[i] = l[e] /\ \A k \in 1..L : k # i => m[k] = l[k]
    BY <1>1, <2>2
  <2> HIDE DEF m, u
  <2>4. u.list = m /\ u.idx = i /\ u.end = e - 1 /\ u \in LoopStates(in)
    BY <1>1, <2>1, <2>2, <2>3 DEF LoopStates
  <2>5. Shortened(u) = {m[k] : k \in 1..(e - 1)}
    BY <2>4 DEF Shortened
  <2>6. Shortened(u) \subseteq Shortened(t)
    <3> SUFFICES ASSUME NEW k \in 1..(e - 1) PROVE m[k] \in {l[j] : j \in 1..e}
      BY <1>1, <2>5
    <3>1. k \in 1..L /\ k \in 1..e /\ e \in 1..e
      BY <2>2
    <3> QED
      BY <2>3, <3>1
  <2>7. Shortened(t) \ failed \subseteq Shortened(u)
    <3> SUFFICES ASSUME NEW k \in 1..e, l[k] \notin failed PROVE l[k] \in {m[j] : j \in 1..(e - 1)}
      BY <1>1, <2>5
    <3>1. k # i /\ k \in 1..L
      BY <1>3, <2>2
    <3>2. CASE k = e
      <4>1. i \in 1..(e - 1)
        BY <1>1, <1>3, <2>2, <3>1, <3>2
      <4> QED
        BY <2>3, <3>2, <4>1
    <3>3. CASE k # e
      <4>1. k \in 1..(e - 1)
        BY <2>2, <3>3
      <4> QED
        BY <2>3, <3>1, <4>1
    <3> QED
      BY <3>2, <3>3
  <2>8. \A k \in 1..(i - 1) : m[k] \notin failed
    <3> SUFFICES ASSUME NEW k \in 1..(i - 1) PROVE m[k] \notin failed
      OBVIOUS
    <3>1. k \in 1..L /\ k # i
      BY <2>2
    <3> QED
      BY <1>1, <2>3, <3>1
  <2>9. i <= (e - 1) + 1 /\ (i > e - 1 \/ (e - 1) - i + 1 <= L - (n + 1))
    BY <1>1, <1>3, <2>2
  <2> QED
    <3>1. u.idx <= u.end + 1 /\ (u.idx > u.end \/ u.end - u.idx + 1 <= L - (n + 1))
      BY <2>4, <2>9
    <3>2. \A k \in 1..(u.idx - 1) : u.list[k] \notin failed
      BY <2>4, <2>8
    <3>3. Shortened(u) \subseteq Names(in) /\ Names(in) \ failed \subseteq Shortened(u)
      BY <1>1, <2>6, <2>7
    <3>4. Filtering(in, failed, n + 1, u)
      BY <2>4, <3>1, <3>2, <3>3 DEF Filtering
    <3> QED
      BY <3>4 DEF u
<1>4. CASE i <= e /\ l[i] \notin failed
  <2>1. u = [t EXCEPT !.idx = i + 1]
    BY <1>1, <1>4 DEF Shrunk
  <2>2. i \in 1..L /\ e \in 1..L
    BY <1>1, <1>4
  <2>3. u.list = l /\ u.idx = i + 1 /\ u.end = e /\ u \in LoopStates(in)
    BY <1>1, <2>1, <2>2 DEF LoopStates
  <2> HIDE DEF u
  <2>4. Shortened(u) = Shortened(t)
    BY <2>3 DEF Shortened
  <2>5. \A k \in 1..((i + 1) - 1) : l[k] \notin failed
    <3> SUFFICES ASSUME NEW k \in 1..((i + 1) - 1) PROVE l[k] \notin failed
      OBVIOUS
    <3>1. k = i \/ k \in 1..(i - 1)
      BY <2>2
    <3> QED
      BY <1>1, <1>4, <3>1
  <2>6. i + 1 <= e + 1 /\ (i + 1 > e \/ e - (i + 1) + 1 <= L - (n + 1))
    BY <1>1, <1>4, <2>2
  <2> QED
    <3>1. u.idx <= u.end + 1 /\ (u.idx > u.end \/ u.end - u.idx + 1 <= L - (n + 1))
      BY <2>3, <2>6
    <3>2. \A k \in 1..(u.idx - 1) : u.list[k] \notin failed
      BY <2>3, <2>5
    <3>3. Shortened(u) \subseteq Names(in) /\ Names(in) \ failed \subseteq Shortened(u)
      BY <1>1, <2>4
    <3>4. Filtering(in, failed, n + 1, u)
      BY <2>3, <3>1, <3>2, <3>3 DEF Filtering
    <3> QED
      BY <3>4 DEF u
<1> QED
  BY <1>1, <1>2, <1>3, <1>4

\* filterFailed keeps the items that did not fail.
LEMMA FilterFailedKeeps ==
    ASSUME NEW in \in Seq(FlagNames), NEW failed
    PROVE  Names(FilterFailed(in, failed)) = Names(in) \ failed
<1> DEFINE N == Len(in)
           S == LoopStates(in)
           a == [list |-> in, idx |-> 1, end |-> N]
           R == {t \in S : \E n \in 0..N : Filtering(in, failed, n, t)}
           Step(n, t) == IF Filtering(in, failed, n - 1, t) THEN Shrunk(t, failed) ELSE a
           g == [x \in (1..N) \X S |-> Step(x[1], x[2])]
           After(h) == h = [n \in 0..N |-> IF n = 0 THEN a ELSE Shrunk(h[n - 1], failed)]
           s == CHOOSE h : After(h)
           done == s[N]
<1>1. N \in Nat /\ in \in [1..N -> FlagNames]
  OBVIOUS
<1>2. Filtering(in, failed, 0, a) /\ a \in S
  <2>1. a \in S /\ a.idx = 1 /\ a.end = N /\ a.list = in
    BY <1>1 DEF LoopStates
  <2> HIDE DEF a
  <2>2. Shortened(a) = Names(in)
    BY <2>1 DEF Shortened, Names
  <2>3. a.idx <= a.end + 1 /\ 1..(a.idx - 1) = {} /\ a.end - a.idx + 1 <= N - 0
    BY <1>1, <2>1
  <2> QED
    BY <2>1, <2>2, <2>3 DEF Filtering
<1>3. FilterFailed(in, failed) = SubSeq(done.list, 1, done.end)
  BY DEF FilterFailed
<1>4. \A n \in 1..N : n - 1 \in 0..N
  BY <1>1
<1>5. g \in [(1..N) \X S -> S]
  <2> SUFFICES ASSUME NEW n \in 1..N, NEW t \in S PROVE Step(n, t) \in S
    OBVIOUS
  <2>1. CASE Filtering(in, failed, n - 1, t)
    <3>1. Filtering(in, failed, (n - 1) + 1, Shrunk(t, failed))
      BY <1>4, <2>1, ShrunkFilters
    <3>2. Shrunk(t, failed) \in S
      BY <3>1 DEF Filtering
    <3> QED
      BY <2>1, <3>2
  <2>2. CASE ~Filtering(in, failed, n - 1, t)
    BY <1>2, <2>2
  <2> QED
    BY <2>1, <2>2
<1>6. \A n \in 1..N, t \in S : g[<<n, t>>] = Step(n, t)
  OBVIOUS
<1> HIDE DEF N, S, a, g
<1>7. PICK f : RunsAs(S, a, N, g, f)
  BY <1>1, <1>2, <1>5, LoopExists DEF IsLoop
<1>8. f \in [0..N -> S] /\ f[0] = a /\ \A n \in 1..N : f[n] = Step(n, f[n - 1])
  BY <1>4, <1>6, <1>7 DEF RunsAs
<1>9. \A n \in 0..N : Filtering(in, failed, n, f[n])
  <2> DEFINE T == {n \in 0..N : Filtering(in, failed, n, f[n])}
  <2>1. 0 \in T
    BY <1>1, <1>2, <1>8
  <2>2. ASSUME NEW n \in 0..N, n \in T, n < N PROVE n + 1 \in T
    <3>1. n + 1 \in 1..N /\ (n + 1) - 1 = n /\ n + 1 \in 0..N
      BY <1>1, <2>2
    <3>2. f[n + 1] = Shrunk(f[n], failed)
      BY <1>8, <2>2, <3>1
    <3>3. Filtering(in, failed, n + 1, Shrunk(f[n], failed))
      BY <2>2, ShrunkFilters DEF N
    <3> QED
      BY <3>1, <3>2, <3>3
  <2> HIDE DEF T
  <2>3. \A n \in 0..N : n \in T
    BY <1>1, <2>1, <2>2, LoopInduction
  <2> QED
    BY <2>3 DEF T
<1>10. After(f)
  <2>1. \A n \in 0..N : n = 0 \/ n \in 1..N
    BY <1>1
  <2>2. \A n \in 1..N : f[n] = Shrunk(f[n - 1], failed)
    <3> SUFFICES ASSUME NEW n \in 1..N PROVE f[n] = Shrunk(f[n - 1], failed)
      OBVIOUS
    <3>1. Filtering(in, failed, n - 1, f[n - 1])
      BY <1>4, <1>9
    <3> QED
      BY <1>8, <3>1
  <2>3. \A n \in 0..N : f[n] = IF n = 0 THEN a ELSE Shrunk(f[n - 1], failed)
    BY <1>8, <2>1, <2>2
  <2> QED
    BY <1>8, <2>3
<1>11. After(s)
  <2> HIDE DEF After
  <2> QED
    BY <1>10
<1> HIDE DEF s
<1>12. Filtering(in, failed, N, done)
  <2> DEFINE T == {n \in 0..N : Filtering(in, failed, n, s[n])}
  <2>1. \A n \in 0..N : s[n] = IF n = 0 THEN a ELSE Shrunk(s[n - 1], failed)
    BY <1>11
  <2>2. 0 \in T
    BY <1>1, <1>2, <2>1
  <2>3. ASSUME NEW n \in 0..N, n \in T, n < N PROVE n + 1 \in T
    <3>1. n + 1 # 0 /\ (n + 1) - 1 = n /\ n + 1 \in 0..N
      BY <1>1, <2>3
    <3>2. s[n + 1] = Shrunk(s[n], failed)
      BY <2>1, <3>1
    <3>3. Filtering(in, failed, n + 1, Shrunk(s[n], failed))
      BY <2>3, ShrunkFilters DEF N
    <3> QED
      BY <3>1, <3>2, <3>3
  <2> HIDE DEF T
  <2>4. \A n \in 0..N : n \in T
    BY <1>1, <2>2, <2>3, LoopInduction
  <2>5. N \in T
    BY <1>1, <2>4
  <2> QED
    BY <2>5 DEF T
<1> HIDE DEF done
<1>13. /\ done.list \in [1..N -> FlagNames] /\ done.idx \in 1..(N + 1) /\ done.end \in 0..N
       /\ done.idx > done.end /\ done.idx <= done.end + 1
  BY <1>1, <1>12 DEF Filtering, LoopStates, N
<1>14. done.idx - 1 = done.end
  BY <1>1, <1>13
<1>15. Shortened(done) = Names(in) \ failed
  BY <1>12, <1>14 DEF Filtering, Shortened
<1>16. Names(SubSeq(done.list, 1, done.end)) = Shortened(done)
  <2> DEFINE q == SubSeq(done.list, 1, done.end)
  <2>1. done.list \in Seq(FlagNames) /\ Len(done.list) = N
    BY <1>1, <1>13
  <2>2. Len(q) = done.end /\ \A k \in 1..done.end : q[k] = done.list[k]
    BY <1>1, <1>13, <2>1
  <2> HIDE DEF q
  <2> QED
    BY <2>2 DEF Names, Shortened, q
<1> QED
  BY <1>3, <1>15, <1>16

\* The keys of a segment in Redis are those overlooked at the start and those that are shown
\* once the update in progress is counted.
Uncounted(s) == IF writing[s] = <<>> THEN 0 ELSE writing[s][1] - writing[s][2]
CountOf(s) == IF s \in DOMAIN cardinality THEN cardinality[s] ELSE 0
AtLeastNone(n) == IF n <= 0 THEN 0 ELSE n
ObservableInv ==
    /\ ObservableTypeOK
    /\ active = flagsInRedis \ unlisted
    /\ \A s \in SegmentNames :
          Cardinality(keysInRedis[s]) = overlooked[s] + AtLeastNone(CountOf(s) + Uncounted(s))

\* Keys can be counted.
LEMMA KeysAreFinite ==
    ASSUME NEW K \in SUBSET SegmentKeys
    PROVE  IsFiniteSet(K) /\ Cardinality(K) \in Nat
BY ObservableAssumption, FS_Subset, FS_CardinalityType

\* The trackers start from what is in Redis.
LEMMA ObservableStarts == ObservableInit => ObservableInv
<1> SUFFICES ASSUME ObservableInit PROVE ObservableInv
  OBVIOUS
<1>1. /\ flagsInRedis \subseteq FlagNames /\ active \subseteq FlagNames /\ unlisted \subseteq FlagNames
      /\ active = flagsInRedis \ unlisted
      /\ keysInRedis \in [SegmentNames -> SUBSET SegmentKeys]
      /\ writing \in [SegmentNames -> {<<>>} \cup (Nat \X Nat)]
      /\ \A s \in SegmentNames : writing[s] = <<>>
  BY DEF ObservableInit, FlagsListed
<1>2. PICK counted \in SUBSET SegmentNames :
          /\ cardinality = [s \in {r \in counted : keysInRedis[r] # {}} |-> Cardinality(keysInRedis[s])]
          /\ overlooked = [s \in SegmentNames |-> IF s \in counted THEN 0 ELSE Cardinality(keysInRedis[s])]
  BY DEF ObservableInit, SegmentsCounted
<1>3. \A s \in SegmentNames : Cardinality(keysInRedis[s]) \in Nat /\ (Cardinality(keysInRedis[s]) = 0 <=> keysInRedis[s] = {})
  BY <1>1, KeysAreFinite, FS_EmptySet
<1>4. /\ overlooked \in [SegmentNames -> Nat]
      /\ DOMAIN cardinality \subseteq SegmentNames
      /\ \A s \in DOMAIN cardinality : cardinality[s] \in Nat \ {0}
  BY <1>2, <1>3
<1>5. ObservableTypeOK
  BY <1>1, <1>4 DEF ObservableTypeOK
<1>6. ASSUME NEW s \in SegmentNames
      PROVE  Cardinality(keysInRedis[s]) = overlooked[s] + AtLeastNone(CountOf(s) + Uncounted(s))
  <2>1. CountOf(s) \in Nat /\ CountOf(s) + Uncounted(s) = CountOf(s)
    BY <1>1, <1>4 DEF CountOf, Uncounted
  <2>2. AtLeastNone(CountOf(s) + Uncounted(s)) = CountOf(s)
    BY <2>1 DEF AtLeastNone
  <2>3. CASE s \in counted
    BY <1>2, <1>3, <2>2, <2>3 DEF CountOf
  <2>4. CASE s \notin counted
    BY <1>2, <1>3, <2>2, <2>4 DEF CountOf
  <2> QED
    BY <2>3, <2>4
<1> QED
  BY <1>1, <1>5, <1>6 DEF ObservableInv

\* Names that were stored or removed are so in both.
LEMMA UpdateFlagsKeeps ==
    ASSUME ObservableInv, NEW toAdd \in Lists(FlagNames), NEW toRemove \in Lists(FlagNames), NEW failed \in SUBSET FlagNames,
           UpdateFlags(toAdd, toRemove, failed)
    PROVE  ObservableInv'
<1>1. keysInRedis' = keysInRedis /\ cardinality' = cardinality /\ writing' = writing /\ overlooked' = overlooked
  BY DEF UpdateFlags
<1>2. toAdd \in Seq(FlagNames) /\ toRemove \in Seq(FlagNames)
  <2>1. Cardinality(FlagNames) \in Nat
    BY ObservableAssumption, FS_CardinalityType
  <2>2. \A n \in 0..Cardinality(FlagNames) : [1..n -> FlagNames] \subseteq Seq(FlagNames)
    BY <2>1
  <2> QED
    BY <2>2 DEF Lists
<1>3. \A s \in Seq(FlagNames) : Names(s) \subseteq FlagNames
  BY DEF Names
<1>4. /\ active' = flagsInRedis' \ unlisted'
      /\ flagsInRedis' \subseteq FlagNames /\ active' \subseteq FlagNames /\ unlisted' \subseteq FlagNames
  <2>1. CASE UNCHANGED <<flagsInRedis, active, unlisted>>
    BY <2>1 DEF ObservableInv, ObservableTypeOK
  <2>2. CASE /\ flagsInRedis' = (flagsInRedis \cup (Names(toAdd) \ failed)) \ (Names(toRemove) \ failed)
             /\ active' = (active \cup Names(FilterFailed(toAdd, failed))) \ Names(FilterFailed(toRemove, failed))
             /\ unlisted' = unlisted \ ((Names(toAdd) \cup Names(toRemove)) \ failed)
    <3>1. active' = (active \cup (Names(toAdd) \ failed)) \ (Names(toRemove) \ failed)
      BY <1>2, <2>2, FilterFailedKeeps
    <3>2. active = flagsInRedis \ unlisted /\ flagsInRedis \subseteq FlagNames /\ unlisted \subseteq FlagNames
      BY DEF ObservableInv, ObservableTypeOK
    <3> QED
      BY <1>2, <1>3, <2>2, <3>1, <3>2
  <2> QED
    BY <2>1, <2>2 DEF UpdateFlags
<1>5. ObservableTypeOK'
  BY <1>1, <1>4 DEF ObservableInv, ObservableTypeOK
<1>6. ASSUME NEW s \in SegmentNames
      PROVE  Cardinality(keysInRedis'[s]) = overlooked'[s] + AtLeastNone(CountOf(s)' + Uncounted(s)')
  BY <1>1 DEF ObservableInv, CountOf, Uncounted
<1> QED
  BY <1>4, <1>5, <1>6 DEF ObservableInv, AtLeastNone

\* What an update of a segment changed is not counted yet.
LEMMA UpdateSegmentKeeps ==
    ASSUME ObservableInv, NEW s \in SegmentNames, NEW toAdd \in SUBSET SegmentKeys, NEW toRemove \in SUBSET SegmentKeys,
           UpdateSegment(s, toAdd, toRemove)
    PROVE  ObservableInv'
<1>1. PICK added \in {toAdd, {}}, removed \in {toRemove, {}} :
          /\ keysInRedis' = [keysInRedis EXCEPT ![s] = (@ \cup added) \ removed]
          /\ writing' = [writing EXCEPT ![s] = <<Cardinality(added \ keysInRedis[s]),
                                                 Cardinality(removed \cap keysInRedis[s])>>]
  BY DEF UpdateSegment
<1>2. /\ writing[s] = <<>> /\ toAdd \cap toRemove = {} /\ cardinality' = cardinality
      /\ flagsInRedis' = flagsInRedis /\ active' = active /\ unlisted' = unlisted
      /\ overlooked' = [overlooked EXCEPT ![s] = AtMost(@, Cardinality(keysInRedis'[s]))]
  BY DEF UpdateSegment
<1> DEFINE K == keysInRedis[s]
           A == added \ K
           R == removed \cap K
           Z == (K \cup added) \ removed
<1>3. /\ keysInRedis \in [SegmentNames -> SUBSET SegmentKeys]
      /\ writing \in [SegmentNames -> {<<>>} \cup (Nat \X Nat)]
      /\ overlooked \in [SegmentNames -> Nat]
      /\ K \subseteq SegmentKeys /\ A \subseteq SegmentKeys /\ R \subseteq SegmentKeys /\ Z \subseteq SegmentKeys
  BY <1>1 DEF ObservableInv, ObservableTypeOK
<1>4. Cardinality(A) \in Nat /\ Cardinality(R) \in Nat /\ Cardinality(K) \in Nat /\ Cardinality(Z) \in Nat
  BY <1>3, KeysAreFinite
<1>5. /\ keysInRedis' \in [SegmentNames -> SUBSET SegmentKeys]
      /\ keysInRedis'[s] = Z /\ \A r \in SegmentNames : r # s => keysInRedis'[r] = keysInRedis[r]
  BY <1>1, <1>3
<1>6. /\ writing' \in [SegmentNames -> {<<>>} \cup (Nat \X Nat)]
      /\ writing'[s] = <<Cardinality(A), Cardinality(R)>> /\ \A r \in SegmentNames : r # s => writing'[r] = writing[r]
  BY <1>1, <1>3, <1>4
<1>7. Cardinality(Z) = Cardinality(K) + Cardinality(A) - Cardinality(R)
  <2>1. Z = (K \ R) \cup A /\ (K \ R) \cap A = {}
    BY <1>1, <1>2
  <2>2. IsFiniteSet(K) /\ IsFiniteSet(A) /\ IsFiniteSet(R)
    BY <1>3, KeysAreFinite
  <2>3. K \cap R = R
    OBVIOUS
  <2> HIDE DEF K, A, R, Z
  <2>4. IsFiniteSet(K \ R) /\ Cardinality(K \ R) = Cardinality(K) - Cardinality(R)
    BY <2>2, <2>3, FS_Difference
  <2>5. Cardinality(Z) = Cardinality(K \ R) + Cardinality(A) - Cardinality({})
    BY <2>1, <2>2, <2>4, FS_Union
  <2>6. Cardinality({}) = 0
    BY FS_EmptySet
  <2> QED
    BY <1>4, <2>4, <2>5, <2>6
<1>8. writing'[s] # <<>> /\ writing'[s][1] = Cardinality(A) /\ writing'[s][2] = Cardinality(R)
  <2> HIDE DEF A, R
  <2>1. \A x, y \in Nat : <<x, y>> # <<>>
    OBVIOUS
  <2> QED
    BY <1>4, <1>6, <2>1
<1>9. CountOf(s) \in Nat /\ overlooked[s] \in Nat /\ Cardinality(K) = overlooked[s] + CountOf(s)
  <2>1. CountOf(s) \in Nat /\ CountOf(s) + Uncounted(s) = CountOf(s)
    BY <1>2 DEF ObservableInv, Uncounted, CountOf, ObservableTypeOK
  <2>2. AtLeastNone(CountOf(s) + Uncounted(s)) = CountOf(s)
    BY <2>1 DEF AtLeastNone
  <2> QED
    BY <1>3, <2>1, <2>2 DEF ObservableInv
<1> HIDE DEF K, A, R, Z
<1>10. /\ overlooked' \in [SegmentNames -> Nat]
       /\ overlooked'[s] = AtMost(overlooked[s], Cardinality(Z)) /\ \A r \in SegmentNames : r # s => overlooked'[r] = overlooked[r]
  BY <1>2, <1>3, <1>4, <1>5, <1>9 DEF AtMost
<1>11. Cardinality(keysInRedis'[s]) = overlooked'[s] + AtLeastNone(CountOf(s)' + Uncounted(s)')
  <2>1. CountOf(s)' = CountOf(s)
    BY <1>2 DEF CountOf
  <2>2. Uncounted(s)' = Cardinality(A) - Cardinality(R)
    BY <1>8 DEF Uncounted
  <2>3. CountOf(s)' + Uncounted(s)' = Cardinality(Z) - overlooked[s]
    BY <1>4, <1>7, <1>9, <2>1, <2>2
  <2> QED
    BY <1>4, <1>5, <1>9, <1>10, <2>3 DEF AtMost, AtLeastNone
<1>12. ASSUME NEW r \in SegmentNames, r # s
       PROVE  Cardinality(keysInRedis'[r]) = overlooked'[r] + AtLeastNone(CountOf(r)' + Uncounted(r)')
  BY <1>2, <1>5, <1>6, <1>10, <1>12 DEF ObservableInv, CountOf, Uncounted
<1>13. ObservableTypeOK'
  BY <1>2, <1>5, <1>6, <1>10 DEF ObservableInv, ObservableTypeOK
<1> QED
  BY <1>2, <1>11, <1>12, <1>13 DEF ObservableInv, AtLeastNone

\* Then it is counted.
LEMMA CountSegmentKeeps ==
    ASSUME ObservableInv, NEW s \in SegmentNames, CountSegment(s)
    PROVE  ObservableInv'
<1> DEFINE n == CountOf(s) + writing[s][1] - writing[s][2]
<1>1. /\ writing[s] # <<>> /\ cardinality' = Counted(s, n) /\ writing' = [writing EXCEPT ![s] = <<>>]
      /\ flagsInRedis' = flagsInRedis /\ active' = active /\ keysInRedis' = keysInRedis
      /\ unlisted' = unlisted /\ overlooked' = overlooked
  BY DEF CountSegment, CountOf
<1>2. /\ keysInRedis \in [SegmentNames -> SUBSET SegmentKeys]
      /\ writing \in [SegmentNames -> {<<>>} \cup (Nat \X Nat)]
      /\ DOMAIN cardinality \subseteq SegmentNames
      /\ \A r \in DOMAIN cardinality : cardinality[r] \in Nat \ {0}
  BY DEF ObservableInv, ObservableTypeOK
<1>3. CountOf(s) \in Nat /\ writing[s] \in Nat \X Nat
  BY <1>1, <1>2 DEF CountOf
<1>4. Cardinality(keysInRedis[s]) = overlooked[s] + AtLeastNone(n) /\ n \in Int
  <2>1. Uncounted(s) = writing[s][1] - writing[s][2]
    BY <1>1 DEF Uncounted
  <2>2. n = CountOf(s) + Uncounted(s)
    BY <1>3, <2>1
  <2> QED
    BY <1>3, <2>2 DEF ObservableInv
<1> HIDE DEF n
<1>5. /\ DOMAIN cardinality' \subseteq SegmentNames
      /\ \A r \in DOMAIN cardinality' : cardinality'[r] \in Nat \ {0}
      /\ (IF s \in DOMAIN cardinality' THEN cardinality'[s] ELSE 0) = AtLeastNone(n)
      /\ \A r \in SegmentNames : r # s => CountOf(r)' = CountOf(r)
  <2>1. CASE n <= 0
    <3>1. DOMAIN cardinality' = DOMAIN cardinality \ {s} /\ \A r \in DOMAIN cardinality \ {s} : cardinality'[r] = cardinality[r]
      BY <1>1, <2>1 DEF Counted
    <3> QED
      BY <1>2, <1>4, <2>1, <3>1 DEF CountOf, AtLeastNone
  <2>2. CASE ~(n <= 0)
    <3>1. /\ DOMAIN cardinality' = DOMAIN cardinality \cup {s} /\ cardinality'[s] = n
          /\ \A r \in DOMAIN cardinality : r # s => cardinality'[r] = cardinality[r]
      BY <1>1, <2>2 DEF Counted
    <3> QED
      BY <1>2, <1>4, <2>2, <3>1 DEF CountOf, AtLeastNone
  <2> QED
    BY <2>1, <2>2
<1>6. /\ writing' \in [SegmentNames -> {<<>>} \cup (Nat \X Nat)] /\ writing'[s] = <<>>
      /\ \A r \in SegmentNames : r # s => writing'[r] = writing[r]
  BY <1>1, <1>2
<1>7. Cardinality(keysInRedis'[s]) = overlooked'[s] + AtLeastNone(CountOf(s)' + Uncounted(s)')
  <2>1. CountOf(s)' = AtLeastNone(n) /\ Uncounted(s)' = 0
    BY <1>5, <1>6 DEF CountOf, Uncounted
  <2>2. AtLeastNone(CountOf(s)' + Uncounted(s)') = AtLeastNone(n)
    BY <1>4, <2>1 DEF AtLeastNone
  <2> QED
    BY <1>1, <1>4, <2>2
<1>8. ASSUME NEW r \in SegmentNames, r # s
      PROVE  Cardinality(keysInRedis'[r]) = overlooked'[r] + AtLeastNone(CountOf(r)' + Uncounted(r)')
  <2>1. CountOf(r)' = CountOf(r) /\ Uncounted(r)' = Uncounted(r)
    BY <1>5, <1>6, <1>8 DEF Uncounted
  <2> QED
    BY <1>1, <2>1 DEF ObservableInv
<1>9. ObservableTypeOK'
  BY <1>1, <1>5, <1>6 DEF ObservableInv, ObservableTypeOK
<1> QED
  BY <1>1, <1>7, <1>8, <1>9 DEF ObservableInv, AtLeastNone

\* The invariant has the property.
LEMMA ObservableShows == ObservableInv => TrackersMirrorRedis
<1> SUFFICES ASSUME ObservableInv PROVE TrackersMirrorRedis
  OBVIOUS
<1>1. ASSUME NEW s \in SegmentNames, writing[s] = <<>>
      PROVE  Cardinality(keysInRedis[s]) = overlooked[s] + IF s \in DOMAIN cardinality THEN cardinality[s] ELSE 0
  <2>1. CountOf(s) \in Nat /\ CountOf(s) + Uncounted(s) = CountOf(s)
    BY <1>1 DEF ObservableInv, ObservableTypeOK, CountOf, Uncounted
  <2>2. AtLeastNone(CountOf(s) + Uncounted(s)) = CountOf(s)
    BY <2>1 DEF AtLeastNone
  <2> QED
    BY <2>2 DEF ObservableInv, CountOf
<1> QED
  BY <1>1 DEF ObservableInv, TrackersMirrorRedis

\* The observable storages: whatever could be read at the start, whatever lists are stored
\* and removed, and whatever of them fails, the names and the numbers that are shown are
\* those of Redis without what was overlooked at the start and has not come up since.
THEOREM TrackersMirror == ObservableSpec => []TrackersMirrorRedis
<1>1. ASSUME ObservableInv, UNCHANGED observableVars PROVE ObservableInv'
  BY <1>1 DEF observableVars, ObservableInv, ObservableTypeOK, CountOf, Uncounted, AtLeastNone
<1>2. ASSUME ObservableInv, ObserveFlags PROVE ObservableInv'
  BY <1>2, UpdateFlagsKeeps DEF ObserveFlags
<1>3. ASSUME ObservableInv, ObserveSegments PROVE ObservableInv'
  BY <1>3, UpdateSegmentKeeps, CountSegmentKeeps DEF ObserveSegments
<1>4. ObservableInv /\ [ObservableNext]_observableVars => ObservableInv'
  BY <1>1, <1>2, <1>3 DEF ObservableNext
<1> QED
  BY <1>4, ObservableStarts, ObservableShows, PTL DEF ObservableSpec
=============================================================================
