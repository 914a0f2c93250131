---------------------------- MODULE MCLiveHandshake ----------------------------
(* LiveHandshake: up to two simultaneous handshakes with one server identity. *)
EXTENDS LiveHandshake

CONSTANTS bob1, bob2, alice1, alice2, key1

MCServerKey == [e \in Endpoints |-> key1]
Pairs == {<<bob1, alice1>>, <<bob2, alice2>>}
MCPeer == [e \in Endpoints |->
  CHOOSE p \in Endpoints : <<e, p>> \in Pairs \/ <<p, e>> \in Pairs]
=============================================================================
