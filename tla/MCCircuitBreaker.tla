--------------------------- MODULE MCCircuitBreaker ---------------------------
(***************************************************************************)
(* CircuitBreaker for TLC: callers are interchangeable.                    *)
(***************************************************************************)
EXTENDS CircuitBreaker, TLC

Symmetry == Permutations(Callers)
=============================================================================
