------------------------------- MODULE Lists -------------------------------
(***************************************************************************)
(* What comprehensions do to lists.                                        *)
(***************************************************************************)
EXTENDS Naturals, Sequences, FiniteSets

\* What a comprehension with a condition keeps of a list: the elements at the positions
\* that satisfy it, in order.
Picked(s, positions) ==
  [k \in 1..Cardinality(positions) |-> s[CHOOSE i \in positions : Cardinality({j \in positions : j <= i}) = k]]
=============================================================================
