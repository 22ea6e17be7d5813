------------------------------ MODULE MCDaemon ------------------------------
(* A daemon that restarts, with two shutdown signals per process.           *)
EXTENDS DaemonHost, TLC
=============================================================================
