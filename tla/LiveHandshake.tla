----------------------------- MODULE LiveHandshake -----------------------------
(***************************************************************************)
(* Handshakes as the harness and the CLI run them: one thread per session   *)
(* (attacks/_harness.py, scripts/run_handshake_cli.py), which receives from *)
(* its queue of the NetworkSimulator, decodes, calls the next handler and   *)
(* sends what the handler returned.  Any exception ends the thread.         *)
(*                                                                          *)
(* Messages pass through the primitives of network/attacker.py: drop,       *)
(* duplicate, modify (one field, or the bytes into something that is no     *)
(* message), replay; or send raises.  Each of these, each draw that fails   *)
(* the health tests and each message later than the receive timeout costs   *)
(* one unit of faults, which MaxFaults bounds.                              *)
(***************************************************************************)
EXTENDS HandshakeSession, Sequences

CONSTANTS Peer,        \* whom a thread sends to
          MaxFaults    \* bound: faults in one behaviour

\* A simulator serves one server and one client, which knows its public key.
ASSUME PeerAssumption ==
  /\ Peer \in [Endpoints -> Endpoints]
  /\ \A s \in Servers : Peer[s] \in Clients
  /\ \A c \in Clients : Peer[c] \in Servers
  /\ \A e \in Endpoints : Peer[Peer[e]] = e /\ ServerKey[Peer[e]] = ServerKey[e]
ASSUME FaultsAssumption == MaxFaults \in Nat

VARIABLES thread,    \* "running", "done" or "error"
          queue,     \* the FIFO of each registered endpoint
          outbox,    \* what the thread passed to send, not yet enqueued
          faults     \* faults that may still happen
liveVars == <<vars, thread, queue, outbox, faults>>

LiveInit ==
  /\ Init
  /\ thread = [e \in Endpoints |-> "running"]
  /\ queue = [e \in Endpoints |-> <<>>]
  /\ outbox = [e \in Endpoints |-> <<>>]
  /\ faults = MaxFaults

-----------------------------------------------------------------------------
(* The threads. *)

Receiving(e) ==
  /\ thread[e] = "running" /\ outbox[e] = <<>>
  /\ ~(e \in Servers /\ sess[e].state = "INIT")

\* The message the thread decodes next: each receive of the thread's straight
\* code is the one that belongs to the session state it is reached in.
Expected == [INIT |-> "M1", M1_CREATED |-> "M2", M2_CREATED |-> "M3",
             M3_CREATED |-> "M4", M4_CREATED |-> "M5", M5_CREATED |-> "M6"]

\* deserialize_m*: the names each looks up in the JSON object it was handed,
\* whatever else is in it; there is no field for the type.
Reads == [M1 |-> {"sid", "TS", "pkS", "quote", "SigS"}, M2 |-> {"sid", "ct", "CommitC"},
          M3 |-> {"CommitS", "MAC1"}, M4 |-> {"wrappedC"},
          M5 |-> {"wrappedS", "MACS"}, M6 |-> {"MACC"}]
Decodes(e, m) == Reads[Expected[sess[e].state]] \subseteq DOMAIN m

\* Faulty variant: the state is looked at before the exception.
ThreadAfterHandlerByState(e) ==
  thread' = [thread EXCEPT ![e] =
    IF e \in Servers /\ sess'[e].state = "ESTABLISHED" THEN "done"
    ELSE IF exc'[e] # Ok THEN "error" ELSE @]

\* After a handler call: an exception ends the thread, the server's last
\* handler ends it too.
ThreadAfterHandler(e) ==
  thread' = [thread EXCEPT ![e] =
    IF exc'[e] # Ok THEN "error"
    ELSE IF e \in Servers /\ sess'[e].state = "ESTABLISHED" THEN "done" ELSE @]

\* What the handler returned, as a sequence of no or one message.
Returned == IF wire' = wire THEN <<>> ELSE <<CHOOSE m \in wire' : m \notin wire>>

\* A returned message goes to send.
Outcome(e) == ThreadAfterHandler(e) /\ outbox' = [outbox EXCEPT ![e] = Returned]

CallHandler(e, m) ==
  \/ ProcessM1(e, m) \/ ProcessM2(e, m) \/ ProcessM3(e, m)
  \/ ProcessM4(e, m) \/ ProcessM5(e, m) \/ ProcessM6(e, m)

\* No sample of a healthy source passed: a fault.
EntropyFault(e) ==
  IF exc'[e] = "RuntimeError" THEN faults > 0 /\ faults' = faults - 1
                              ELSE UNCHANGED faults

Start(e) ==
  /\ e \in Servers /\ thread[e] = "running"
  /\ CreateM1(e) /\ Outcome(e)
  /\ UNCHANGED <<queue, faults>>

Respond(e) ==
  /\ Receiving(e) /\ queue[e] # <<>>
  /\ Decodes(e, Head(queue[e])) /\ CallHandler(e, Head(queue[e]))
  /\ Outcome(e)
  /\ queue' = [queue EXCEPT ![e] = Tail(@)]

Handle(e) == Respond(e) /\ EntropyFault(e)

\* Faulty variant: the transition is made before the message is decoded.
UndecodableAfterTransition(e) ==
  /\ Receiving(e) /\ queue[e] # <<>>
  /\ ~Decodes(e, Head(queue[e]))
  /\ sess' = [sess EXCEPT ![e].state = Advance(e, @)]
  /\ thread' = [thread EXCEPT ![e] = "error"]
  /\ queue' = [queue EXCEPT ![e] = Tail(@)]
  /\ UNCHANGED <<wire, exc, rejected, outbox, faults>>

\* The bytes are no JSON, a field is not hex or not there (ValueError, KeyError).
Undecodable(e) ==
  /\ Receiving(e) /\ queue[e] # <<>>
  /\ ~Decodes(e, Head(queue[e]))
  /\ thread' = [thread EXCEPT ![e] = "error"]
  /\ queue' = [queue EXCEPT ![e] = Tail(@)]
  /\ UNCHANGED <<vars, outbox, faults>>

\* Nothing is on its way to e and nobody will send anything to it.
Starved(e) ==
  /\ queue[e] = <<>>
  /\ \A p \in Endpoints : Peer[p] = e =>
       thread[p] # "running" \/ (Receiving(p) /\ queue[p] = <<>>)

\* Faulty variant: receive waits without a timeout.
NoTimeout(e) == FALSE /\ UNCHANGED liveVars

\* receive raises TimeoutError when nothing came in time: nothing comes, or
\* what comes is late.
Timeout(e) ==
  /\ Receiving(e) /\ queue[e] = <<>>
  /\ thread' = [thread EXCEPT ![e] = "error"]
  /\ UNCHANGED <<vars, queue, outbox>>
  /\ \/ Starved(e) /\ UNCHANGED faults
     \/ ~Starved(e) /\ faults > 0 /\ faults' = faults - 1

-----------------------------------------------------------------------------
(* The simulator. *)

\* send returns: the thread goes on, and a client that sent M6 is done.
ThreadAfterSend(e) ==
  thread' = [thread EXCEPT ![e] =
    IF e \in Clients /\ sess[e].state = "ESTABLISHED" THEN "done" ELSE @]

Sent(e) ==
  /\ ThreadAfterSend(e) /\ outbox' = [outbox EXCEPT ![e] = <<>>]
  /\ UNCHANGED vars

Enqueue(e, ms) == queue' = [queue EXCEPT ![e] = @ \o ms]

Deliver(e) ==
  /\ outbox[e] # <<>> /\ Enqueue(Peer[e], outbox[e]) /\ Sent(e)
  /\ UNCHANGED faults

Drop(e) ==
  /\ outbox[e] # <<>> /\ UNCHANGED queue /\ Sent(e)
  /\ faults > 0 /\ faults' = faults - 1

\* Bytes that deserialize_m* cannot read.
Malformed == [type |-> "malformed"]

\* What hooks may make of a message.
Altered(m) == Damaged(m) \cup {Malformed}

\* The extra copy is put into the queue while the send goes on, as the hooks
\* before have left the message.
Duplicate(e) ==
  /\ outbox[e] # <<>>
  /\ \E m \in {outbox[e][1]} \cup Altered(outbox[e][1]) : Enqueue(Peer[e], <<m>>)
  /\ faults > 0 /\ faults' = faults - 1
  /\ UNCHANGED <<vars, thread, outbox>>

Modify(e) ==
  /\ outbox[e] # <<>> /\ Sent(e)
  /\ \E m \in Altered(outbox[e][1]) : Enqueue(Peer[e], <<m>>)
  /\ faults > 0 /\ faults' = faults - 1

\* send raises: a mutation function fails, or the attacker is detached between
\* the two places that read it.
SendFails(e) ==
  /\ outbox[e] # <<>>
  /\ outbox' = [outbox EXCEPT ![e] = <<>>]
  /\ thread' = [thread EXCEPT ![e] = "error"]
  /\ UNCHANGED <<vars, queue>>
  /\ faults > 0 /\ faults' = faults - 1

\* A captured message is put into any queue, out of turn; it is captured
\* before the hooks run, so possibly before the original is delivered.
Replay(e) ==
  /\ \E m \in wire : Enqueue(e, <<m>>)
  /\ faults > 0 /\ faults' = faults - 1
  /\ UNCHANGED <<vars, thread, outbox>>

-----------------------------------------------------------------------------
Step(e) == Start(e) \/ Handle(e) \/ Undecodable(e) \/ Deliver(e)

LiveNext ==
  \E e \in Endpoints :
    \/ Start(e) \/ Handle(e) \/ Undecodable(e) \/ Timeout(e)
    \/ Deliver(e) \/ Drop(e) \/ Duplicate(e) \/ Modify(e) \/ SendFails(e) \/ Replay(e)

\* The threads are scheduled, and a receive nobody will answer times out.
LiveSpec ==
  /\ LiveInit /\ [][LiveNext]_liveVars
  /\ \A e \in Endpoints : /\ WF_liveVars(Step(e))
                          /\ WF_liveVars(Starved(e) /\ Timeout(e))

-----------------------------------------------------------------------------
Erased(s) == s.ss = None /\ s.tefc = None /\ s.tefs = None /\ s.skS = None
Agreed(e) ==
  /\ sess[e].key # None /\ sess[e].key = sess[Peer[e]].key
  /\ \A p \in {e, Peer[e]} : /\ sess[p].state = "ESTABLISHED" /\ exc[p] = Ok
                             /\ Erased(sess[p])

\* If both threads of a handshake end without an exception, the empty errors
\* list of run_live_handshake means what its callers take it to mean: both
\* sides are ESTABLISHED with one key, their handlers verified everything and
\* no ephemeral secret is left, whatever the network did (session.py 203-210,
\* _harness.py 85-138, run_handshake_cli.py 142-171).
QuietMeansAgreed ==
  \A e \in Endpoints : thread[e] = "done" /\ thread[Peer[e]] = "done" => Agreed(e)

\* M6 has no answer, and one side may end quietly while the other does not.
\* The server's quiet end alone means that both sides agreed, even if the
\* client's thread still runs or failed in its last send; the client's quiet
\* end alone means that it is ESTABLISHED without secrets on the key its server
\* derived, whatever becomes of M6 (session.py 129-135, 183-199,
\* _harness.py 85-120).
DoneMeansConfirmed ==
  \A e \in Endpoints : thread[e] = "done" =>
    IF e \in Servers THEN Agreed(e)
    ELSE /\ sess[e].key # None /\ sess[e].key = sess[Peer[e]].key
         /\ sess[e].state = "ESTABLISHED" /\ exc[e] = Ok /\ Erased(sess[e])

\* A handshake no fault touched raises nothing, timeouts included
\* (_harness.py 85-120).
NoFalseAlarm ==
  faults = MaxFaults => \A e \in Endpoints : thread[e] # "error"

\* However messages are lost, repeated, damaged or replayed, no thread waits
\* forever (simulator.py 102-114, _harness.py 85-120).
ThreadsEnd == \A e \in Endpoints : <>(thread[e] # "running")

\* Left alone, every handshake ends with both sides agreed (_harness.py 85-120).
Completes ==
  [](faults = MaxFaults) => \A e \in Endpoints : <>[](thread[e] = "done" /\ Agreed(e))

\* The threads and the network do to the sessions only what a caller of
\* HandshakeSession does, so what holds of every caller holds here
\* (session.py 4-6).
SessionSpec == Spec
=============================================================================
