---------------------------- MODULE MCCoordinator ----------------------------
(* Model-checking instance of Coordinator: service calls and register      *)
(* contents are interchangeable.                                           *)
EXTENDS Coordinator, TLC

CallSymmetry == Permutations(Writers) \cup Permutations(Values)
==============================================================================
