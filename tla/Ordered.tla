------------------------------- MODULE Ordered -------------------------------
(***************************************************************************)
(* Sets of numbers as sequences, the way the program sorts versions (by    *)
(* semver precedence, newest first) and packages (by name).                *)
(***************************************************************************)
EXTENDS Integers, Sequences, FiniteSets

Descending(S) == [i \in 1..Cardinality(S) |-> CHOOSE v \in S : Cardinality({w \in S : w > v}) = i - 1]
Ascending(S) == [i \in 1..Cardinality(S) |-> CHOOSE v \in S : Cardinality({w \in S : w < v}) = i - 1]

\* The first n, or all if there are no more.
Take(s, n) == SubSeq(s, 1, IF Len(s) < n THEN Len(s) ELSE n)
=============================================================================
