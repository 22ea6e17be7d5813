--------------------------- MODULE MCDnsTransport ---------------------------
(* Resolvers with both endpoints, and with a DoT endpoint only.             *)
EXTENDS SecureDnsTransport, TLC

MCPlans == {<<"doh", "dot">>, <<"dot">>}
=============================================================================
