------------------------------ MODULE MCGateway ------------------------------
(* TLC instances of Gateway. *)
EXTENDS Gateway, TLC

Symmetric ==
    Permutations(Gateways) \cup Permutations(Logicals) \cup Permutations(Sessions)
    \cup Permutations(Handoffs) \cup Permutations(Requests) \cup Permutations(Upstreams)
=============================================================================
