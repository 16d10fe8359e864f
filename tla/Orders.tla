------------------------------- MODULE Orders -------------------------------
(***************************************************************************)
(* Distances, and sorting with a comparison that tells any two members     *)
(* apart. The sorts of the community modules look for the order among all  *)
(* sequences of the set, which is too slow for more than four members.     *)
(***************************************************************************)
EXTENDS Integers, FiniteSets

Apart(m, n) == IF m < n THEN n - m ELSE m - n

InOrder(S, Before(_, _)) == [i \in 1..Cardinality(S) |-> CHOOSE x \in S : Cardinality({y \in S : Before(y, x)}) = i - 1]
=============================================================================
