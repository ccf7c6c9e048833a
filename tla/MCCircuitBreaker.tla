-------------------------- MODULE MCCircuitBreaker --------------------------
(* Small instances of CircuitBreaker for TLC.                              *)
EXTENDS CircuitBreaker, TLC

CONSTANTS llm, skill, h1, h2, h3

Handlers == Permutations({h1, h2, h3})
Routes == Permutations(Keys)
Symmetry == Handlers \cup Routes
=============================================================================
