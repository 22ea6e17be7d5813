----------------------------- MODULE MCRuntime -----------------------------
(* A small instance of the runtime over its mutation boundary.              *)
EXTENDS ResilienceRuntime, TLC

\* Invocations are interchangeable.
Symmetry == Permutations(Callers)
=============================================================================
