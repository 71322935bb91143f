-------------------------- MODULE MCCircuitHistory --------------------------
(* TLC instances of CircuitHistory.                                        *)
EXTENDS CircuitHistory, TLC

Symmetry == Permutations(Servers) \cup Permutations(Callers)
=============================================================================
