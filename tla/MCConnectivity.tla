--------------------------- MODULE MCConnectivity ---------------------------
(* Two sources and calls of every kind on them.                             *)
EXTENDS ConnectivityManager, TLC

CONSTANT s1
=============================================================================
