----------------------------- MODULE Subsequences -----------------------------
(***************************************************************************)
(* What is left of a list when a loop over it erases some of its entries:  *)
(* "i = list.erase(i)" in a while loop of CommCenter.cpp.                  *)
(***************************************************************************)
EXTENDS Naturals, FiniteSets

\* The entries of list at the positions in kept, in their order: one sequence,
\* as the only element of a set.
OnlyAt(list, kept) ==
  LET n == Cardinality(kept)
  IN  {[k \in 1..n |-> list[at[k]]] :
         at \in {f \in [1..n -> kept] : \A j, k \in 1..n : j < k => f[j] < f[k]}}
=============================================================================
