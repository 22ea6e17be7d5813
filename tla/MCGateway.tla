----------------------------- MODULE MCGateway -----------------------------
(* Two gateways and three or four operations on them.                       *)
EXTENDS GatewayPlane, TLC

\* Operations are interchangeable, and so are gateways.
Symmetry == Permutations(Ops) \cup Permutations(Gateways)
=============================================================================
