------------------------------ MODULE MCBudget ------------------------------
(* Budget for TLC: claims, nodes and actors are interchangeable.           *)
EXTENDS Budget, TLC

BudgetSymmetry == Permutations(Requests) \cup Permutations(Nodes) \cup Permutations(Actors)
=============================================================================
