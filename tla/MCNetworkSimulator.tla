-------------------------- MODULE MCNetworkSimulator --------------------------
(* Two endpoints that send to each other, as alice and bob do. *)
EXTENDS NetworkSimulator

CONSTANTS alice, bob, Long, Short

MCDest == [e \in Endpoints |-> IF e = alice THEN bob ELSE alice]
MCMaxSends == [e \in Endpoints |-> IF e = alice THEN Long ELSE Short]
=============================================================================
