--------------------------------- MODULE Orders ---------------------------------
(***************************************************************************)
(* The ascending order of a finite set, as sorted() and std::sort give it  *)
(* for keys no two of which are equal.                                     *)
(***************************************************************************)
EXTENDS Integers, FiniteSets

\* The pairs of S whose first element comes before the second are less.
Below(S, less, x) == {y \in S : <<y, x>> \in less}

\* S in that order: the element at place k has k - 1 elements below it.
InOrder(S, less) ==
    [k \in 1..Cardinality(S) |-> CHOOSE x \in S : Cardinality(Below(S, less, x)) = k - 1]

\* A set of numbers in their order.
Ascending(S) == InOrder(S, {e \in S \X S : e[1] < e[2]})

\* Of two elements one is less than the other, and not both; and less is transitive.
IsStrictOrder(S, less) ==
    /\ \A x \in S : <<x, x>> \notin less
    /\ \A x, y \in S : x = y \/ <<x, y>> \in less \/ <<y, x>> \in less
    /\ \A x, y, z \in S : <<x, y>> \in less /\ <<y, z>> \in less => <<x, z>> \in less
=============================================================================
