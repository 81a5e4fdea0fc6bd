--------------------------- MODULE FlagSetMatcher ---------------------------
(***************************************************************************)
(* The in-place clean-up of the flag sets an SDK sends in its request      *)
(* (proxy/flagsets/flagsets.go, Sanitize).  An item that is removed is     *)
(* overwritten by the last one and the slice is shrunk, all within a       *)
(* single loop over a growing index.  Flag sets are numbers: the code only *)
(* compares their names.                                                   *)
(***************************************************************************)
EXTENDS Naturals, Sequences, FiniteSets, SequencesExt

\* FlagSetMatcher: whether only the sets the proxy fetches are let through.
Matcher(strict, fetched) == [strict |-> strict, sets |-> fetched]

Unwanted(matcher, item, seen) == (matcher.strict /\ item \notin matcher.sets) \/ item \in seen

\* The elements of a finite set in a strict order, given as a set of pairs (sort.Slice
\* and slices.Sort; external).
InOrder(S, order) ==
    [k \in 1..Cardinality(S) |->
        CHOOSE x \in S : Cardinality({ y \in S : <<y, x>> \in order }) = k - 1]

Sorted(s) ==
    LET order == { p \in (1..Len(s)) \X (1..Len(s)) :
                     s[p[1]] < s[p[2]] \/ (s[p[1]] = s[p[2]] /\ p[1] < p[2]) }
        place == InOrder(1..Len(s), order)
    IN  [k \in 1..Len(s) |-> s[place[k]]]

\* Mutant of DropAt: the slice shrinks without saving its last item.
CutAt(s, i) == Front(s)

\* The item at i is replaced by the last one and the slice shrinks by one.
DropAt(s, i) == Front(IF i < Len(s) THEN [s EXCEPT ![i] = Last(s)] ELSE s)

\* The slice and the items seen after n iterations of the loop, then sorted.
Sanitize(matcher, list) ==
    LET after[n \in 0..Len(list)] ==
          IF n = 0 THEN [input |-> list, seen |-> {}]
          ELSE LET s == after[n - 1]
               IN  IF n > Len(s.input) THEN s
                   ELSE [input |-> IF Unwanted(matcher, s.input[n], s.seen)
                                   THEN DropAt(s.input, n) ELSE s.input,
                         seen |-> s.seen \cup {s.input[n]}]
    IN  Sorted(after[Len(list)].input)

\* What a correct clean-up keeps.
Wanted(matcher, list) == { item \in ToSet(list) : matcher.strict => item \in matcher.sets }
=============================================================================
