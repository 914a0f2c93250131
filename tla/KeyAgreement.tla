----------------------------- MODULE KeyAgreement -----------------------------
(***************************************************************************)
(* What a set of handshakes promises its users, without messages: the key   *)
(* of a server and a client is made of contributions of both; a client      *)
(* accepts a key only after the server that made it for this client; a      *)
(* server accepts only after that client; a party that gave up never        *)
(* accepts.                                                                 *)
(***************************************************************************)
CONSTANTS Servers, Clients,
          KeyOf(_, _),     \* the key server s and client c contribute to
          NoKey

VARIABLES key,      \* the session key each party holds
          status    \* "open", "established" or "aborted"
vars == <<key, status>>

Parties == Servers \cup Clients

Init ==
  /\ key = [p \in Parties |-> NoKey]
  /\ status = [p \in Parties |-> "open"]

\* The server has seen the contribution of client c.
Derive(s) ==
  /\ status[s] = "open" /\ key[s] = NoKey
  /\ \E c \in Clients : key' = [key EXCEPT ![s] = KeyOf(s, c)]
  /\ UNCHANGED status

Confirm(c) ==
  /\ status[c] = "open"
  /\ \E s \in Servers : key[s] = KeyOf(s, c) /\ key' = [key EXCEPT ![c] = key[s]]
  /\ status' = [status EXCEPT ![c] = "established"]

Accept(s) ==
  /\ status[s] = "open"
  /\ \E c \in Clients : /\ key[s] = KeyOf(s, c) /\ key[c] = key[s]
                        /\ status[c] = "established"
  /\ status' = [status EXCEPT ![s] = "established"]
  /\ UNCHANGED key

Abort(p) ==
  /\ status[p] = "open"
  /\ status' = [status EXCEPT ![p] = "aborted"]
  /\ UNCHANGED key

Next ==
  \/ \E s \in Servers : Derive(s) \/ Accept(s)
  \/ \E c \in Clients : Confirm(c)
  \/ \E p \in Parties : Abort(p)

Spec == Init /\ [][Next]_vars
=============================================================================
