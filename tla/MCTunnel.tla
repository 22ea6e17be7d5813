------------------------------ MODULE MCTunnel ------------------------------
(* Calls on one tunnel, established by the first of them or there before.   *)
EXTENDS TunnelLifecycle, TLC
=============================================================================
