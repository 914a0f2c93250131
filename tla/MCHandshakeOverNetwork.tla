------------------------ MODULE MCHandshakeOverNetwork ------------------------
(* HandshakeOverNetwork: the two threads of one handshake. *)
EXTENDS HandshakeOverNetwork

CONSTANTS bob1, alice1, key1

MCServerKey == [e \in Endpoints |-> key1]
MCPeer == [e \in Endpoints |-> IF e = bob1 THEN alice1 ELSE bob1]
=============================================================================
