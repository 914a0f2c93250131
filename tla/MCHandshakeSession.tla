------------------------- MODULE MCHandshakeSession -------------------------
(* HandshakeSession on small sets of sessions of one server identity: every  *)
(* session of the harness and the CLI is built with the same ML-DSA-87 pair. *)
EXTENDS HandshakeAgreement, TLC

CONSTANT key1

MCServerKey == [e \in Endpoints |-> key1]

\* With one key, nothing tells two servers or two clients apart.
Symmetry == Permutations(Servers) \cup Permutations(Clients)
=============================================================================
