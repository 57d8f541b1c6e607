-------------------------- MODULE MCLifecycleGate --------------------------
(* LifecycleGate on small instances. Sessions, and threads of one kind, are  *)
(* interchangeable: the specification compares them only for equality.       *)
EXTENDS LifecycleGate, TLC

Symmetry == Permutations(Sessions) \cup Permutations(Operations) \cup Permutations(Writers)
=============================================================================
