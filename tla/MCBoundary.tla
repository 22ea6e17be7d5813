----------------------------- MODULE MCBoundary -----------------------------
(* A small instance of the privileged mutation boundary: two concurrent     *)
(* callers and three calls, so that runs collide on a resource, join each   *)
(* other's promise, replay and rebind keys, and evict the entry of a key    *)
(* that is running again.                                                   *)
EXTENDS PrivilegedMutationBoundary, TLC

\* Callers, keys and resources are interchangeable.
Symmetry == Permutations(Callers) \cup Permutations(Keys)
            \cup Permutations(Resources)

\* The locals of a run die with it, and nobody reads the request and the outcome
\* of a caller that has been answered.
Running(c) == pc[c] \in Holding \cup Recovering
Living ==
    <<pc, phases, effect, held, inFlight, joined, completed, epoch, issued,
      [c \in Callers |-> IF Free(c) THEN None ELSE req[c]],
      [c \in Callers |-> IF Owner(c) THEN out[c] ELSE None],
      [c \in Callers |-> IF Running(c)
                           THEN <<halt[c], execution[c], compensated[c]>>
                           ELSE <<>>]>>
=============================================================================
