------------------------------ MODULE MCRoutes ------------------------------
(* Three plans for one target.  Plans of different metrics stack routes, so  *)
(* that a rollback takes two commands; plans of one metric replace each      *)
(* other's route; p1 and p2 share a next hop, and p2 names no metric, so     *)
(* that its delete may take the route of p1.                                 *)
EXTENDS LinuxRouteExecutor, TLC

CONSTANTS p1, p2, p3, t1, g1, g2

MCTarget == p1 :> t1 @@ p2 :> t1 @@ p3 :> t1
MCGateway == p1 :> g1 @@ p2 :> g1 @@ p3 :> g2
MixedMetrics == p1 :> 1 @@ p2 :> 0 @@ p3 :> 1
=============================================================================
