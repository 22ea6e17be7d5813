----------------------------- MODULE MCFailover -----------------------------
(* Two recoveries, of one domain or of two, so that they meet on the lock   *)
(* and on the shared state.                                                 *)
EXTENDS FailoverEngine, TLC

=============================================================================
