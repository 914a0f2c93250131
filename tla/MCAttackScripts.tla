---------------------------- MODULE MCAttackScripts ----------------------------
(* AttackScripts: two handshakes, each with a server key pair of its own, as   *)
(* make_endpoints builds them.                                                 *)
EXTENDS AttackScripts

CONSTANTS bob1, bob2, alice1, alice2, key1, key2

Pairs == {<<bob1, alice1>>, <<bob2, alice2>>}
MCPeer == [e \in Endpoints |->
  CHOOSE p \in Endpoints : <<e, p>> \in Pairs \/ <<p, e>> \in Pairs]
MCServerKey == [e \in Endpoints |-> IF e \in {bob1, alice1} THEN key1 ELSE key2]
=============================================================================
