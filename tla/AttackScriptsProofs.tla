-------------------------- MODULE AttackScriptsProofs --------------------------
(***************************************************************************)
(* Proofs about AttackScripts for every pair of handshakes and any number   *)
(* of faults: a result with blocked=True is the truth.                      *)
(***************************************************************************)
EXTENDS AttackScripts, LiveHandshakeProofs

\* What the hook of forged_attestation makes of the M1 of server s.
ForgedM1(s) ==
  [M1Of(s) EXCEPT !.pkS = AttackerKey, !.quote = Quote(AttackerKey, Sid(s))]

\* Which message a session returned when it came to its state.
ReturnedIn == [M1_CREATED |-> "M1", M2_CREATED |-> "M2", M3_CREATED |-> "M3",
               M4_CREATED |-> "M4", M5_CREATED |-> "M5", ESTABLISHED |-> "M6"]

\* What a queue of a script may hold.
AttackTraffic == Traffic \cup {ForgedM1(s) : s \in Servers}

\* A message that waits for send is what the state of its session returned.
OutboxOK(e) ==
  outbox[e] # <<>> =>
    /\ thread[e] = "running"
    /\ sess[e].state \in DOMAIN ReturnedIn
    /\ outbox[e][1].type = ReturnedIn[sess[e].state]
    /\ sess[e].state = "M1_CREATED" => e \in Servers /\ outbox[e][1] = M1Of(e)

\* Only the M1 of its own server comes to a client, forged or not, and that
\* server is the one the client takes its session id from.
ClientRoutes(c) ==
  /\ \A i \in DOMAIN queue[c] : queue[c][i].type = "M1" =>
       M1Of(Peer[c]) \in wire /\ queue[c][i] \in {M1Of(Peer[c]), ForgedM1(Peer[c])}
  /\ sess[c].sid \in {None, Sid(Peer[c])}

RoutesOK ==
  /\ thread \in [Endpoints -> {"running", "done", "error"}]
  /\ queue \in [Endpoints -> Seq(AttackTraffic)]
  /\ outbox \in [Endpoints -> {<<>>} \cup {<<m>> : m \in wire}]
  /\ \A e \in Endpoints : OutboxOK(e) /\ (thread[e] # "error" => exc[e] = Ok)
  /\ \A c \in Clients : ClientRoutes(c)

\* The state in which each exception a script looks for leaves the session:
\* before it could hold a key.
RaisedOK ==
  /\ \A c \in Clients : /\ exc[c] = "AttestationError" => sess[c].state = "M1_VERIFIED"
                        /\ exc[c] = "RuntimeError" => sess[c].state = "M2_CREATED"
  /\ \A s \in Servers : /\ exc[s] = "SessionIDMismatch" => sess[s].state = "M2_VERIFIED"
                        /\ exc[s] = "AEADError" => sess[s].state = "M4_VERIFIED"

\* Endpoint e has not passed its first message, which state returned, to send.
FirstUnsent(e, state) ==
  \/ thread[e] # "running" \/ sess[e].state = "INIT"
  \/ sess[e].state = state /\ outbox[e] # <<>>

\* What the hook of each script has done so far.
ReplayOK ==
  /\ count \in 0..1
  /\ captured # None => captured \in M2s /\ captured \in wire
  /\ captured = None => phase = "first" /\ FirstUnsent(Peer[First], "M2_CREATED")
  /\ count = 0 => queue[Second] = <<>> /\ exc[Second] # "SessionIDMismatch"

ModificationOK ==
  LET c == Peer[First]
  IN /\ count \in 0..2
     /\ sess[First].key = None
     /\ \A i \in DOMAIN queue[First] : queue[First][i].type = "M4" =>
          count = 2 /\ queue[First][i].wrappedC = Garbled
     /\ exc[First] = "AEADError" => count = 2
     /\ thread[c] = "running" =>
          /\ sess[c].state = "INIT" => count = 0
          /\ sess[c].state = "M2_CREATED" => count = IF outbox[c] = <<>> THEN 1 ELSE 0
          /\ sess[c].state = "M4_CREATED" /\ outbox[c] # <<>> => count = 1

ForgedOK ==
  /\ count \in 0..1
  /\ count = 0 => /\ queue[Peer[First]] = <<>> /\ exc[Peer[First]] # "AttestationError"
                  /\ FirstUnsent(First, "M1_CREATED")

RushingOK == count = 0 /\ (captured # None => sess[First].key # None)

ScriptOK ==
  /\ script \in Scripts /\ phase \in {"first", "second"}
  /\ script = "replay" => ReplayOK
  /\ script = "modification" => ModificationOK
  /\ script = "forged_attestation" => ForgedOK
  /\ script = "rushing" => RushingOK
  /\ script = "entropy_failure" => count = 0

\* The defence a verdict "blocked" rests on has worked, and has for good.
Rejected ==
  \/ script = "replay" /\ Raised(Second, "SessionIDMismatch")
  \/ script = "modification" /\ Raised(First, "AEADError")
  \/ script = "forged_attestation" /\ Raised(Peer[First], "AttestationError")
  \/ script = "entropy_failure" /\ Raised(Peer[First], "RuntimeError")
  \/ script = "rushing" /\ sess[First].key # None /\ sess[Second].key # None

VerdictOK ==
  /\ verdict \in {"none", "blocked", "not blocked", "AssertionError"}
  /\ verdict = "blocked" => Rejected

\* What the sessions, the messages and the threads are known to be.
BaseInv == AgreementInv /\ Announced /\ RoutesOK

AttackInv == BaseInv /\ RaisedOK /\ ScriptOK /\ VerdictOK

-----------------------------------------------------------------------------
(* What a thread of a script calls. *)

\* A handler, with the message the thread decoded; of an M1 it matters only
\* whose public key and session id it brings.
Handles(e) ==
  LET m == Head(queue[e])
  IN \/ /\ e \in Clients
        /\ \E n \in Inbound("M1") : /\ n.sid = Sid(Peer[e]) /\ n.pkS = Pk(Peer[e])
                                    /\ ProcessM1(e, n)
     \/ e \in Servers /\ m \in Inbound("M2") /\ ProcessM2(e, m)
     \/ e \in Clients /\ m \in Inbound("M3") /\ ProcessM3(e, m)
     \/ e \in Servers /\ m \in Inbound("M4") /\ ProcessM4(e, m)
     \/ e \in Clients /\ m \in Inbound("M5") /\ ProcessM5(e, m)
     \/ e \in Servers /\ m \in Inbound("M6") /\ ProcessM6(e, m)

\* The fields of an M1 and of what the hook makes of it.
LEMMA M1Fields ==
  ASSUME NEW s \in Servers
  PROVE  LET m == M1Of(s)
             f == ForgedM1(s)
             d == [m EXCEPT !.quote = Garbled]
         IN /\ m.type = "M1" /\ m.sid = Sid(s) /\ m.pkS = Pk(s)
            /\ m.quote = Quote(Pk(s), Sid(s))
            /\ m.SigS = Signature(ServerKey[s], Quote(Pk(s), Sid(s)))
            /\ f.type = "M1" /\ f.quote = Quote(AttackerKey, Sid(s)) /\ f.SigS = m.SigS
            /\ DOMAIN f = DOMAIN m /\ DOMAIN m = {"type", "sid", "TS", "pkS", "quote", "SigS"}
            /\ d.sid = Sid(s) /\ d.pkS = Pk(s) /\ d.quote = Garbled /\ d \in Damaged(m)
            /\ Pk(s) = AttackerKey => f = m
<1> DEFINE m == M1Of(s)
           f == ForgedM1(s)
           d == [m EXCEPT !.quote = Garbled]
<1>1. m = [type |-> "M1", sid |-> Sid(s), TS |-> Timestamp, pkS |-> Pk(s),
           quote |-> Quote(Pk(s), Sid(s)),
           SigS |-> Signature(ServerKey[s], Quote(Pk(s), Sid(s)))]
  BY DEF M1Of, M1
<1>2. f = [m EXCEPT !.pkS = AttackerKey, !.quote = Quote(AttackerKey, Sid(s))]
  BY DEF ForgedM1
<1> HIDE DEF m, f
<1>3. /\ m.type = "M1" /\ m.sid = Sid(s) /\ m.pkS = Pk(s)
      /\ m.quote = Quote(Pk(s), Sid(s))
      /\ m.SigS = Signature(ServerKey[s], Quote(Pk(s), Sid(s)))
      /\ DOMAIN m = {"type", "sid", "TS", "pkS", "quote", "SigS"}
  BY <1>1
<1>4. /\ f.type = "M1" /\ f.quote = Quote(AttackerKey, Sid(s)) /\ f.SigS = m.SigS
      /\ DOMAIN f = DOMAIN m
  BY <1>1, <1>2
<1>5. Pk(s) = AttackerKey => f = m
  <2>1. f = [type |-> "M1", sid |-> Sid(s), TS |-> Timestamp, pkS |-> AttackerKey,
             quote |-> Quote(AttackerKey, Sid(s)),
             SigS |-> Signature(ServerKey[s], Quote(Pk(s), Sid(s)))]
    BY <1>1, <1>2
  <2> QED  BY <1>1, <2>1
<1>6. d.sid = Sid(s) /\ d.pkS = Pk(s) /\ d.quote = Garbled
  BY <1>1
<1>7. d \in Damaged(m)
  <2>1. "quote" \in DOMAIN m \ {"type"}
    BY <1>3
  <2> QED  BY <2>1 DEF Damaged
<1> QED  BY <1>3, <1>4, <1>5, <1>6, <1>7 DEF m, f

\* verify_m1 rejects the forged M1 as it rejects one whose quote is damaged:
\* the signature is not one of its quote (m1.py).
LEMMA ForgedRejected ==
  ASSUME NEW e \in Clients, M1Of(Peer[e]) \in wire, ProcessM1(e, ForgedM1(Peer[e]))
  PROVE  \E n \in Inbound("M1") : /\ n.sid = Sid(Peer[e]) /\ n.pkS = Pk(Peer[e])
                                  /\ ProcessM1(e, n)
<1> DEFINE m == M1Of(Peer[e])
           f == ForgedM1(Peer[e])
           d == [m EXCEPT !.quote = Garbled]
<1>1. Peer[e] \in Servers
  BY PeerAssumption
<1>2. /\ m.type = "M1" /\ m.sid = Sid(Peer[e]) /\ m.pkS = Pk(Peer[e])
      /\ m.SigS = Signature(ServerKey[Peer[e]], Quote(Pk(Peer[e]), Sid(Peer[e])))
      /\ f.quote = Quote(AttackerKey, Sid(Peer[e])) /\ f.SigS = m.SigS
      /\ d.sid = Sid(Peer[e]) /\ d.pkS = Pk(Peer[e]) /\ d.quote = Garbled /\ d \in Damaged(m)
      /\ Pk(Peer[e]) = AttackerKey => f = m
  BY <1>1, M1Fields
<1>3. m \in Inbound("M1") /\ d \in Inbound("M1")
  BY <1>2 DEF Inbound
<1> HIDE DEF m, f, d
<1>4. CASE Pk(Peer[e]) = AttackerKey
  BY <1>2, <1>3, <1>4 DEF f
<1>5. CASE Pk(Peer[e]) # AttackerKey
  <2>1. \A k, a, b, i, j : Signature(k, Quote(a, i)) = Signature(k, Quote(b, j)) => a = b
    BY DEF Signature, Quote
  <2>2. f.SigS # Signature(ServerKey[e], f.quote)
    <3>1. ServerKey[Peer[e]] = ServerKey[e]
      BY PeerAssumption DEF Endpoints
    <3> QED  BY <1>2, <1>5, <2>1, <3>1
  <2>3. /\ VerifyM1(f, ServerKey[e]) = "AttestationError"
        /\ VerifyM1(d, ServerKey[e]) = "AttestationError"
    BY <1>2, <2>2 DEF VerifyM1
  <2>4. ProcessM1(e, d)
    BY <2>3 DEF ProcessM1, f, Ok
  <2> QED  BY <1>2, <1>3, <2>4
<1> QED  BY <1>4, <1>5

\* Every message of a queue is traffic of the handshakes, or a forged M1.
LEMMA HeadOf ==
  ASSUME RoutesOK, NEW e \in Endpoints, queue[e] # <<>>
  PROVE  /\ Head(queue[e]) \in AttackTraffic /\ Tail(queue[e]) \in Seq(AttackTraffic)
         /\ 1 \in DOMAIN queue[e] /\ Head(queue[e]) = queue[e][1]
<1>1. queue[e] \in Seq(AttackTraffic)
  BY DEF RoutesOK
<1> HIDE DEF AttackTraffic
<1> QED  BY <1>1

\* A handler is called with a message of the type it expects.
LEMMA RespondCalls ==
  ASSUME BaseInv, NEW e \in Endpoints, Respond(e)
  PROVE  Handles(e) /\ queue[e] # <<>>
<1> DEFINE m == Head(queue[e])
<1>1. /\ m \in AttackTraffic /\ m = queue[e][1] /\ 1 \in DOMAIN queue[e]
      /\ Decodes(e, m) /\ CallHandler(e, m) /\ queue[e] # <<>>
      /\ ~(e \in Servers /\ sess[e].state = "INIT")
  BY HeadOf DEF Respond, Receiving, BaseInv
<1>2. IndInv /\ e \in Servers => sess[e].state \in ServerStates
  BY DEF BaseInv, AgreementInv, IndInv, TypeOK
<1>3. IndInv /\ wire \subseteq Messages /\ (e \in Clients => sess[e].state \in ClientStates)
  BY DEF BaseInv, AgreementInv, IndInv, TypeOK
<1> HIDE DEF m
<1>4. CASE m \in Traffic
  <2>1. \/ m \in Inbound("M1") /\ ProcessM1(e, m)
        \/ m \in Inbound("M2") /\ ProcessM2(e, m)
        \/ m \in Inbound("M3") /\ ProcessM3(e, m)
        \/ m \in Inbound("M4") /\ ProcessM4(e, m)
        \/ m \in Inbound("M5") /\ ProcessM5(e, m)
        \/ m \in Inbound("M6") /\ ProcessM6(e, m)
    BY <1>1, <1>3, <1>4, HandleCalls
  <2>2. CASE m \in Inbound("M1") /\ ProcessM1(e, m)
    <3>1. e \in Clients /\ m.type = "M1"
      <4>1. sess[e].state = "INIT"
        BY <2>2 DEF ProcessM1
      <4>2. m.type = "M1"
        BY <1>3, <2>2, InboundType DEF M1s
      <4> QED  BY <1>1, <4>1, <4>2 DEF Endpoints
    <3>2. M1Of(Peer[e]) \in wire /\ m \in {M1Of(Peer[e]), ForgedM1(Peer[e])}
      BY <1>1, <3>1 DEF BaseInv, RoutesOK, ClientRoutes
    <3>3. CASE m = M1Of(Peer[e])
      <4>1. m.sid = Sid(Peer[e]) /\ m.pkS = Pk(Peer[e])
        BY <3>1, <3>3, M1Fields, PeerAssumption
      <4> QED  BY <1>1, <2>2, <3>1, <4>1 DEF Handles
    <3>4. CASE m = ForgedM1(Peer[e])
      BY <1>1, <2>2, <3>1, <3>2, <3>4, ForgedRejected DEF Handles
    <3> QED  BY <3>2, <3>3, <3>4
  <2>3. sess[e].state \in {"M1_CREATED", "M3_CREATED", "M5_CREATED"} => e \in Servers
    BY <1>3 DEF Endpoints, ClientStates
  <2>4. sess[e].state \in {"M2_CREATED", "M4_CREATED"} => e \in Clients
    BY <1>2, <1>3 DEF Endpoints, ServerStates
  <2>5. CASE m \in Inbound("M2") /\ ProcessM2(e, m)
    BY <1>1, <2>3, <2>5 DEF Handles, ProcessM2, m
  <2>6. CASE m \in Inbound("M3") /\ ProcessM3(e, m)
    BY <1>1, <2>4, <2>6 DEF Handles, ProcessM3, m
  <2>7. CASE m \in Inbound("M4") /\ ProcessM4(e, m)
    BY <1>1, <2>3, <2>7 DEF Handles, ProcessM4, m
  <2>8. CASE m \in Inbound("M5") /\ ProcessM5(e, m)
    BY <1>1, <2>4, <2>8 DEF Handles, ProcessM5, m
  <2>9. CASE m \in Inbound("M6") /\ ProcessM6(e, m)
    BY <1>1, <2>3, <2>9 DEF Handles, ProcessM6, m
  <2> QED  BY <1>1, <2>1, <2>2, <2>5, <2>6, <2>7, <2>8, <2>9
<1>5. CASE \E s \in Servers : m = ForgedM1(s)
  <2>1. m.type = "M1" /\ DOMAIN m = {"type", "sid", "TS", "pkS", "quote", "SigS"}
    BY <1>5, M1Fields
  <2>2. ProcessM1(e, m)
    <3>1. /\ ProcessM2(e, m) => sess[e].state = "M1_CREATED"
          /\ ProcessM3(e, m) => sess[e].state = "M2_CREATED"
          /\ ProcessM4(e, m) => sess[e].state = "M3_CREATED"
          /\ ProcessM5(e, m) => sess[e].state = "M4_CREATED"
          /\ ProcessM6(e, m) => sess[e].state = "M5_CREATED"
      BY DEF ProcessM2, ProcessM3, ProcessM4, ProcessM5, ProcessM6
    <3>2. /\ "CommitC" \notin DOMAIN m /\ "MAC1" \notin DOMAIN m /\ "wrappedC" \notin DOMAIN m
          /\ "MACS" \notin DOMAIN m /\ "MACC" \notin DOMAIN m
      BY <2>1
    <3>3. sess[e].state \notin {"M1_CREATED", "M2_CREATED", "M3_CREATED", "M4_CREATED",
                               "M5_CREATED"}
      BY <1>1, <3>2 DEF Decodes, Reads, Expected
    <3> QED  BY <1>1, <3>1, <3>3 DEF CallHandler
  <2>3. e \in Clients
    BY <1>1, <2>2 DEF ProcessM1, Endpoints
  <2>4. M1Of(Peer[e]) \in wire /\ m \in {M1Of(Peer[e]), ForgedM1(Peer[e])}
    BY <1>1, <2>1, <2>3 DEF BaseInv, RoutesOK, ClientRoutes
  <2>5. CASE m = M1Of(Peer[e])
    BY <1>4, <2>4, <2>5 DEF Traffic
  <2>6. CASE m = ForgedM1(Peer[e])
    BY <1>1, <2>2, <2>3, <2>4, <2>6, ForgedRejected DEF Handles
  <2> QED  BY <2>4, <2>5, <2>6
<1> QED  BY <1>1, <1>4, <1>5 DEF AttackTraffic
\* A step of a thread that calls a handler.
LEMMA WorkCalls ==
  ASSUME BaseInv, NEW e \in Endpoints, Work(e)
  PROVE  /\ Started(e) /\ thread[e] = "running" /\ exc[e] = Ok /\ outbox[e] = <<>>
         /\ Outcome(e) /\ UNCHANGED scriptVars
         /\ \/ e \in Servers /\ CreateM1(e) /\ queue' = queue
            \/ Handles(e) /\ queue[e] # <<>> /\ queue' = [queue EXCEPT ![e] = Tail(@)]
<1>1. thread[e] # "error" => exc[e] = Ok
  BY DEF BaseInv, RoutesOK
<1>2. CASE Start(e)
  <2>1. sess[e].state = "INIT"
    BY <1>2 DEF Start, CreateM1
  <2>2. outbox[e] = <<>>
    BY <2>1 DEF BaseInv, RoutesOK, OutboxOK, ReturnedIn
  <2> QED  BY <1>1, <1>2, <2>2 DEF Start, Work
<1>3. CASE Respond(e)
  <2>1. Handles(e) /\ queue[e] # <<>>
    BY <1>3, RespondCalls
  <2> QED  BY <1>1, <1>3, <2>1 DEF Respond, Receiving, Work
<1> QED  BY <1>2, <1>3 DEF Work, Handle, PoisonedHandle

\* It is a call some caller of HandshakeSession may make.
LEMMA WorkKeeps ==
  ASSUME BaseInv, NEW e \in Endpoints, Work(e)
  PROVE  Kept(e) /\ AgreementInv' /\ Announced' /\ wire \subseteq wire'
<1>1. HandlerCall(e)
  BY WorkCalls DEF HandlerCall, Handles
<1>2. [Next]_vars
  BY <1>1 DEF HandlerCall, Next
<1> QED  BY <1>1, <1>2, HandlerErases, NextFacts, CallAnnounced, WireGrows DEF BaseInv

\* The message a handler returns goes to send, if it is a new one.
LEMMA ReturnedOne ==
  ASSUME NEW m, wire' = wire \cup {m}
  PROVE  Returned \in {<<>>, <<m>>}
<1>1. CASE m \in wire
  BY <1>1 DEF Returned
<1>2. CASE m \notin wire
  BY <1>2, ReturnedFirst
<1> QED  BY <1>1, <1>2

\* How a call moves the session on, and what its thread sends next.
Moves(e, role, from, to) ==
  /\ e \in role /\ sess[e].state = from /\ sess'[e].state = to /\ exc'[e] = Ok

Sends(e, type) ==
  outbox'[e] = <<>> \/ \E m \in wire' : outbox'[e] = <<m>> /\ m.type = type

Answers(e) ==
  \/ Failing(e) /\ exc'[e] # Ok /\ outbox'[e] = <<>>
  \/ /\ Moves(e, Servers, "INIT", "M1_CREATED")
     /\ outbox'[e] = <<M1Of(e)>> /\ M1Of(e) \in wire'
  \/ /\ Moves(e, Clients, "INIT", "M2_CREATED")
     /\ \E m \in wire' : outbox'[e] = <<m>> /\ m.type = "M2"
  \/ Moves(e, Servers, "M1_CREATED", "M3_CREATED") /\ Sends(e, "M3")
  \/ Moves(e, Clients, "M2_CREATED", "M4_CREATED") /\ Sends(e, "M4")
  \/ /\ Moves(e, Servers, "M3_CREATED", "M5_CREATED") /\ Sends(e, "M5")
     /\ queue[e] # <<>> /\ Head(queue[e]).type = "M4" /\ Head(queue[e]).wrappedC # Garbled
  \/ Moves(e, Clients, "M4_CREATED", "ESTABLISHED") /\ Sends(e, "M6")
  \/ Moves(e, Servers, "M5_CREATED", "ESTABLISHED") /\ outbox'[e] = <<>>
\* A thread at work fails, or answers with the message of its turn.
LEMMA WorkAnswers ==
  ASSUME BaseInv, NEW e \in Endpoints, Work(e)
  PROVE  Answers(e)
<1>1. /\ exc[e] = Ok /\ outbox[e] = <<>> /\ outbox' = [outbox EXCEPT ![e] = Returned]
      /\ \/ e \in Servers /\ CreateM1(e)
         \/ Handles(e) /\ queue[e] # <<>>
  BY WorkCalls DEF Outcome
<1>2. /\ AgreementInv /\ IndInv /\ Announced /\ wire \subseteq Messages
      /\ sess \in [Endpoints -> Session]
  BY DEF BaseInv, AgreementInv, IndInv, TypeOK
<1>3. outbox'[e] = Returned
  BY <1>1 DEF BaseInv, RoutesOK
<1>4. Failing(e) => Answers(e)
  BY <1>3 DEF Failing, Answers, Returned
<1>5. ASSUME NEW m, wire' = wire \cup {m}, NEW type, m.type = type
      PROVE  Sends(e, type)
  BY <1>3, <1>5, ReturnedOne DEF Sends
<1>6. exc' = exc => exc'[e] = Ok
  BY <1>1
<1>7. CASE e \in Servers /\ CreateM1(e)
  <2>1. CASE wire' = wire \cup {M1Of(e)} /\ sess'[e].state = "M1_CREATED" /\ exc' = exc
    <3>1. sess[e].state = "INIT"
      BY <1>7 DEF CreateM1
    <3>2. M1Of(e) \notin wire
      <4>1. Peer[e] \in Clients
        BY <1>7, PeerAssumption
      <4> QED  BY <1>2, <1>7, <3>1, <4>1, NotYetReturned DEF M1Of
    <3>3. Returned = <<M1Of(e)>>
      BY <2>1, <3>2, ReturnedFirst
    <3> QED  BY <1>3, <1>6, <1>7, <2>1, <3>1, <3>3 DEF Answers, Moves
  <2> QED  BY <1>2, <1>4, <1>7, <2>1, CreateM1Outcome DEF M1Of
<1>8. ASSUME e \in Clients, NEW n \in Inbound("M1"),
             n.sid = Sid(Peer[e]), n.pkS = Pk(Peer[e]), ProcessM1(e, n)
      PROVE  Answers(e)
  <2> DEFINE m2 == M2(n.sid, Ciphertext(e, n.pkS), Commit(Tef(e), n.sid))
  <2>1. m2 = M2Of(e, Peer[e]) /\ m2.type = "M2"
    BY <1>8 DEF M2Of, M2
  <2> HIDE DEF m2
  <2>2. CASE wire' = wire \cup {m2} /\ sess'[e].state = "M2_CREATED" /\ exc' = exc
    <3>1. sess[e].state = "INIT"
      BY <1>8 DEF ProcessM1
    <3>2. m2 \notin wire
      BY <1>2, <1>8, <2>1, <3>1, PeerAssumption, NotYetReturned
    <3>3. Returned = <<m2>>
      BY <2>2, <3>2, ReturnedFirst
    <3> QED  BY <1>3, <1>6, <1>8, <2>1, <2>2, <3>1, <3>3 DEF Answers, Moves
  <2>3. n \in M1s
    BY <1>2, <1>8, InboundType
  <2> QED  BY <1>2, <1>4, <1>8, <2>2, <2>3, ProcessM1Outcome DEF m2
<1> DEFINE m == Head(queue[e])
<1>9. CASE e \in Servers /\ m \in Inbound("M2") /\ ProcessM2(e, m)
  <2>1. m \in M2s /\ sess[e].state = "M1_CREATED"
    BY <1>2, <1>9, InboundType DEF ProcessM2
  <2>2. M3Of(e, m).type = "M3"
    BY DEF M3Of, M3
  <2> HIDE DEF m
  <2> QED  BY <1>2, <1>4, <1>5, <1>6, <1>9, <2>1, <2>2, ProcessM2Outcome DEF Answers, Moves
<1>10. CASE e \in Clients /\ m \in Inbound("M3") /\ ProcessM3(e, m)
  <2>1. m \in M3s /\ sess[e].state = "M2_CREATED"
    BY <1>2, <1>10, InboundType DEF ProcessM3
  <2>2. \A ss, tef, th : M4(ss, tef, th).type = "M4"
    BY DEF M4
  <2> HIDE DEF m
  <2> QED  BY <1>2, <1>4, <1>5, <1>6, <1>10, <2>1, <2>2, ProcessM3Outcome DEF Answers, Moves
<1>11. CASE e \in Servers /\ m \in Inbound("M4") /\ ProcessM4(e, m)
  <2>1. m \in M4s /\ sess[e].state = "M3_CREATED"
    BY <1>2, <1>11, InboundType DEF ProcessM4
  <2>2. \A w, key, th : M5(w, key, th).type = "M5"
    BY DEF M5
  <2>3. m.type = "M4"
    BY <2>1 DEF M4s
  <2>4. \A key, th : Opens(key, m.wrappedC, th) => m.wrappedC # Garbled
    BY DEF Opens
  <2> HIDE DEF m
  <2>6. \/ Failing(e)
        \/ exc' = exc /\ sess'[e].state = "M5_CREATED" /\ Sends(e, "M5") /\ m.wrappedC # Garbled
    BY <1>2, <1>5, <1>11, <2>1, <2>2, <2>4, ProcessM4Outcome
  <2>7. queue[e] # <<>>
    BY <1>1, <2>1 DEF CreateM1
  <2> QED  BY <1>4, <1>6, <1>11, <2>1, <2>3, <2>6, <2>7 DEF Answers, Moves, m
<1>12. CASE e \in Clients /\ m \in Inbound("M5") /\ ProcessM5(e, m)
  <2>1. m \in M5s /\ sess[e].state = "M4_CREATED"
    BY <1>2, <1>12, InboundType DEF ProcessM5
  <2>2. \A key, th, m5 : M6(key, th, m5).type = "M6"
    BY DEF M6
  <2> HIDE DEF m
  <2> QED  BY <1>2, <1>4, <1>5, <1>6, <1>12, <2>1, <2>2, ProcessM5Outcome DEF Answers, Moves
<1>13. CASE e \in Servers /\ m \in Inbound("M6") /\ ProcessM6(e, m)
  <2>1. m \in M6s /\ sess[e].state = "M5_CREATED"
    BY <1>2, <1>13, InboundType DEF ProcessM6
  <2> HIDE DEF m
  <2>2. \/ Failing(e)
        \/ exc' = exc /\ sess'[e].state = "ESTABLISHED" /\ wire' = wire
    BY <1>2, <1>13, <2>1, ProcessM6Outcome
  <2> QED  BY <1>3, <1>4, <1>6, <1>13, <2>1, <2>2 DEF Answers, Moves, Returned
<1> HIDE DEF m
<1> QED  BY <1>1, <1>7, <1>8, <1>9, <1>10, <1>11, <1>12, <1>13 DEF Handles, m

\* The session id of a client, and the state an exception leaves behind.
LEMMA WorkRaises ==
  ASSUME BaseInv, NEW e \in Endpoints, Work(e)
  PROVE  /\ e \in Clients =>
              /\ sess'[e].sid \in {sess[e].sid, Sid(Peer[e])}
              /\ exc'[e] = "AttestationError" => sess'[e].state = "M1_VERIFIED"
              /\ exc'[e] = "RuntimeError" => sess'[e].state = "M2_CREATED"
         /\ e \in Servers =>
              /\ exc'[e] = "SessionIDMismatch" => sess'[e].state = "M2_VERIFIED"
              /\ exc'[e] = "AEADError" =>
                   sess'[e].state = "M4_VERIFIED" /\ Head(queue[e]).type = "M4"
         /\ exc'[e] # Ok => queue[e] # <<>>
<1> DEFINE Claim ==
             /\ e \in Clients =>
                  /\ sess'[e].sid \in {sess[e].sid, Sid(Peer[e])}
                  /\ exc'[e] = "AttestationError" => sess'[e].state = "M1_VERIFIED"
                  /\ exc'[e] = "RuntimeError" => sess'[e].state = "M2_CREATED"
             /\ e \in Servers =>
                  /\ exc'[e] = "SessionIDMismatch" => sess'[e].state = "M2_VERIFIED"
                  /\ exc'[e] = "AEADError" =>
                       sess'[e].state = "M4_VERIFIED" /\ Head(queue[e]).type = "M4"
<1>1. /\ exc[e] = Ok
      /\ \/ e \in Servers /\ CreateM1(e)
         \/ Handles(e) /\ queue[e] # <<>>
  BY WorkCalls
<1>2. /\ IndInv /\ wire \subseteq Messages
      /\ sess \in [Endpoints -> Session]
      /\ exc \in [Endpoints -> Exceptions \cup {Ok}]
  BY DEF BaseInv, AgreementInv, IndInv, TypeOK
<1>3. (e \in Servers => e \notin Clients) /\ sess[e] \in Session
  BY <1>2, RolesAssumption
<1>4. CASE e \in Servers /\ CreateM1(e)
  BY <1>1, <1>3, <1>4 DEF CreateM1, Return, Ok
<1>5. ASSUME e \in Clients, NEW n \in Inbound("M1"),
             n.sid = Sid(Peer[e]), n.pkS = Pk(Peer[e]), ProcessM1(e, n)
      PROVE  /\ sess'[e].sid \in {sess[e].sid, Sid(Peer[e])}
             /\ exc'[e] = "AttestationError" => sess'[e].state = "M1_VERIFIED"
             /\ exc'[e] = "RuntimeError" => sess'[e].state = "M2_CREATED"
  <2> DEFINE s1 == [sess[e] EXCEPT !.state = Advance(e, @)]
             s2 == [s1 EXCEPT !.sid = n.sid, !.th = Ext(TH0(n.sid), n)]
             s3 == [s2 EXCEPT !.state = Advance(e, @)]
             x  == VerifyM1(n, ServerKey[e])
  <2>1. /\ Advance(e, "INIT") = "M1_VERIFIED" /\ Advance(e, "M1_VERIFIED") = "M2_CREATED"
        /\ sess[e].state = "INIT"
    BY <1>5, AdvanceValues DEF ProcessM1
  <2>2. /\ s1.sid = sess[e].sid /\ s1.state = "M1_VERIFIED"
        /\ s3.sid = Sid(Peer[e]) /\ s3.state = "M2_CREATED"
    BY <1>3, <1>5, <2>1 DEF Session
  <2>3. x \in {"AttestationError", "SessionIDMismatch", Ok}
    BY DEF VerifyM1
  <2> HIDE DEF s1, s2, s3, x
  <2>4. \/ Raise(e, s1, x) \/ Raise(e, s3, "RuntimeError") \/ exc' = exc
    BY <1>3, <1>5 DEF ProcessM1, Return, s1, s2, s3, x
  <2>5. sess[e].sid # sess'[e].sid => sess'[e].sid = Sid(Peer[e])
    <3>1. CASE Raise(e, s1, x) \/ Raise(e, s3, "RuntimeError")
      BY <1>2, <2>2, <3>1, RaiseOutcome
    <3>2. n \in M1s
      BY <1>2, InboundType
    <3>3. CASE exc' = exc
      BY <1>1, <1>2, <1>5, <3>2, <3>3, ProcessM1Outcome DEF Failing
    <3> QED  BY <2>4, <3>1, <3>3
  <2>6. CASE Raise(e, s1, x)
    BY <1>2, <2>2, <2>3, <2>5, <2>6, RaiseOutcome DEF Ok
  <2>7. CASE Raise(e, s3, "RuntimeError")
    BY <1>2, <2>2, <2>5, <2>7, RaiseOutcome
  <2>8. CASE exc' = exc
    BY <1>1, <2>5, <2>8 DEF Ok
  <2> QED  BY <2>4, <2>6, <2>7, <2>8
<1> DEFINE m  == Head(queue[e])
           s1 == [sess[e] EXCEPT !.state = Advance(e, @)]
<1>6. s1.sid = sess[e].sid /\ s1.state = Advance(e, sess[e].state)
  BY <1>3 DEF Session
<1>7. ASSUME e \in Servers, m \in Inbound("M2"), ProcessM2(e, m)
      PROVE  Claim
  <2> HIDE DEF m
  <2>1. \/ Raise(e, s1, VerifyM2(m, s1.sid))
        \/ \E s : Raise(e, s, "AttributeError") \/ Raise(e, s, "RuntimeError")
        \/ exc' = exc
    BY <1>7 DEF ProcessM2, Return
  <2>2. VerifyM2(m, s1.sid) \in {"SessionIDMismatch", Ok}
    BY DEF VerifyM2
  <2>3. s1.state = "M2_VERIFIED"
    BY <1>6, <1>7, AdvanceValues DEF ProcessM2
  <2> HIDE DEF s1
  <2> QED  BY <1>1, <1>2, <1>3, <1>7, <2>1, <2>2, <2>3, RaiseOutcome DEF Ok
<1>8. ASSUME e \in Clients, m \in Inbound("M3"), ProcessM3(e, m)
      PROVE  Claim
  <2>1. sess'[e].sid = sess[e].sid
    <3>1. CASE exc' = exc
      BY <1>1, <1>3, <1>8, <3>1, InboundType, ProcessM3Outcome, <1>2 DEF BaseInv, Failing
    <3> DEFINE x == IF s1.ss = None THEN "TypeError" ELSE VerifyM3(m, s1.ss, s1.th)
    <3>2. Raise(e, s1, x) \/ exc' = exc
      BY <1>8 DEF ProcessM3, Return
    <3> HIDE DEF x, s1
    <3> QED  BY <1>2, <1>6, <3>1, <3>2, RaiseOutcome
  <2> HIDE DEF m
  <2>2. exc'[e] \in {"TypeError", "MACError", Ok}
    BY <1>1, <1>2, <1>8 DEF ProcessM3, VerifyM3, Raise, Return
  <2> QED  BY <1>1, <1>3, <1>8, <2>1, <2>2 DEF Ok
<1>9. ASSUME e \in Servers, m \in Inbound("M4"), ProcessM4(e, m)
      PROVE  Claim
  <2>1. m.type = "M4"
    BY <1>2, <1>9, InboundType DEF M4s
  <2>2. s1.state = "M4_VERIFIED"
    BY <1>6, <1>9, AdvanceValues DEF ProcessM4
  <2> DEFINE x == IF s1.ss = None THEN "TypeError"
                  ELSE VerifyM4(m, s1.ss, s1.commitC, s1.sid, s1.th)
  <2>3. x \in {"TypeError", "AEADError", "CommitmentError", Ok}
    BY DEF VerifyM4
  <2>4. Raise(e, s1, x) \/ exc' = exc
    BY <1>9 DEF ProcessM4, Return
  <2> HIDE DEF m, s1, x
  <2> QED  BY <1>1, <1>2, <1>3, <1>9, <2>1, <2>2, <2>3, <2>4, RaiseOutcome DEF Ok, m
<1>10. ASSUME e \in Clients, m \in Inbound("M5"), ProcessM5(e, m)
      PROVE  Claim
  <2>1. sess'[e].sid = sess[e].sid
    <3>1. CASE exc' = exc
      BY <1>1, <1>3, <1>10, <3>1, InboundType, ProcessM5Outcome, <1>2 DEF BaseInv, Failing
    <3> DEFINE x == VerifyM5(m, s1)
    <3>2. Raise(e, s1, x) \/ exc' = exc
      BY <1>10 DEF ProcessM5, Return
    <3> HIDE DEF x, s1
    <3> QED  BY <1>2, <1>6, <3>1, <3>2, RaiseOutcome
  <2> HIDE DEF m
  <2>2. exc'[e] \in {"AEADError", "CommitmentError", "MACError", Ok}
    BY <1>1, <1>2, <1>10 DEF ProcessM5, VerifyM5, Raise, Return
  <2> QED  BY <1>1, <1>3, <1>10, <2>1, <2>2 DEF Ok
<1>11. ASSUME e \in Servers, m \in Inbound("M6"), ProcessM6(e, m)
      PROVE  Claim
  <2> HIDE DEF m
  <2>1. exc'[e] \in {"MACError", Ok}
    BY <1>1, <1>2, <1>11 DEF ProcessM6, VerifyM6, Raise
  <2> QED  BY <1>1, <1>3, <1>11, <2>1 DEF Ok
<1>12. exc'[e] # Ok => queue[e] # <<>>
  BY <1>1, <1>3, <1>4 DEF CreateM1, Return
<1> HIDE DEF m
<1> QED  BY <1>1, <1>3, <1>4, <1>5, <1>7, <1>8, <1>9, <1>10, <1>11, <1>12 DEF Handles, m, Claim
-----------------------------------------------------------------------------
(* What a hook lets through. *)

\* No client of one handshake belongs to the other.
LEMMA PairsApart ==
  /\ First \in Servers /\ Second \in Servers /\ First # Second
  /\ Peer[First] \in Clients /\ Peer[Second] \in Clients /\ Peer[First] # Peer[Second]
  /\ First \notin Clients /\ Second \notin Clients
  /\ Peer[First] \notin Servers /\ Peer[Second] \notin Servers
  /\ First \in Endpoints /\ Second \in Endpoints
  /\ Peer[First] \in Endpoints /\ Peer[Second] \in Endpoints
  /\ Peer[Peer[First]] = First /\ Peer[Peer[Second]] = Second
BY HandshakesAssumption, RolesAssumption, PeerAssumption DEF Endpoints

\* A client without a server's key has none, and a server has the key of its
\* own client, as each client takes its session id from its own server.
LEMMA KeysOfPairs ==
  ASSUME BaseInv, NEW s \in Servers
  PROVE  /\ sess[s].key # None =>
              ServerKeyed(s, Peer[s]) /\ sess[s].key = SessionKeyOf(s, Peer[s])
         /\ sess[Peer[s]].key # None => sess[s].key # None
<1>1. \A c \in Clients, t \in Servers :
        sess[c].sid = Sid(t) => Peer[c] = t /\ Peer[t] = c
  <2> SUFFICES ASSUME NEW c \in Clients, NEW t \in Servers, sess[c].sid = Sid(t)
               PROVE  Peer[c] = t /\ Peer[t] = c
    OBVIOUS
  <2>1. sess[c].sid \in {None, Sid(Peer[c])} /\ Sid(t) # None
    BY DEF BaseInv, RoutesOK, ClientRoutes, Sid, None
  <2> QED  BY <2>1, SidInjective, PeerAssumption DEF Endpoints
<1>2. FactsOK
  BY DEF BaseInv, AgreementInv
<1>3. ASSUME sess[s].key # None
      PROVE  ServerKeyed(s, Peer[s]) /\ sess[s].key = SessionKeyOf(s, Peer[s])
  <2>1. PICK c \in Clients : ServerKeyed(s, c)
    BY <1>2, <1>3 DEF FactsOK, ServerFacts
  <2>2. sess[c].sid = Sid(s) /\ sess[s].key = SessionKeyOf(s, c)
    BY <2>1 DEF ServerKeyed, Revealed
  <2> QED  BY <1>1, <2>1, <2>2
<1>4. ASSUME sess[Peer[s]].key # None
      PROVE  sess[s].key # None
  <2>1. Peer[s] \in Clients /\ Peer[Peer[s]] = s
    BY PeerAssumption DEF Endpoints
  <2>2. PICK t \in Servers : ClientKeyed(Peer[s], t)
    BY <1>2, <1>4, <2>1 DEF FactsOK, ClientFacts
  <2>3. sess[Peer[s]].sid = Sid(t) /\ sess[t].key = SessionKeyOf(t, Peer[s])
    BY <2>2 DEF ClientKeyed, ServerKeyed, Revealed
  <2>4. t = s
    BY <1>1, <2>1, <2>3
  <2> QED  BY <2>3, <2>4, KeyInjective
<1> QED  BY <1>3, <1>4

\* The message m that waits in the outbox of e goes on as n.
Passes(e, m, n) ==
  /\ outbox[e] = <<m>> /\ queue' = [queue EXCEPT ![Peer[e]] = @ \o <<n>>]
  /\ thread[e] = "running"
  /\ sess[e].state \in DOMAIN ReturnedIn /\ m.type = ReturnedIn[sess[e].state]
  /\ n.type = "M1" => e \in Servers /\ M1Of(e) \in wire /\ n \in {M1Of(e), ForgedM1(e)}
  /\ script = "modification" /\ e = Peer[First] =>
       \/ n = m /\ sess[e].state = "M2_CREATED" /\ count = 0 /\ count' = 1
       \/ /\ n.type = "M4" /\ n.wrappedC = Garbled
          /\ sess[e].state = "M4_CREATED" /\ count = 1 /\ count' = 2
  /\ script = "replay" /\ captured = None /\ e = Peer[First] => m.type = "M2"

\* What a send of the scripts puts into the queue of the peer, hook included.
LEMMA TransmitPasses ==
  ASSUME BaseInv, ScriptOK, NEW e \in Endpoints, Transmit(e)
  PROVE  \E m \in wire, n \in AttackTraffic : Passes(e, m, n)
<1>1. /\ outbox[e] # <<>> /\ outbox[e] \in {<<>>} \cup {<<k>> : k \in wire} /\ OutboxOK(e)
      /\ Started(e)
  BY DEF Transmit, BaseInv, RoutesOK
<1>2. PICK m \in wire : outbox[e] = <<m>>
  BY <1>1
<1>3. outbox[e][1] = m
  BY <1>2
<1>4. /\ thread[e] = "running" /\ sess[e].state \in DOMAIN ReturnedIn
      /\ m.type = ReturnedIn[sess[e].state]
      /\ sess[e].state = "M1_CREATED" => e \in Servers /\ m = M1Of(e)
  BY <1>1, <1>3 DEF OutboxOK
<1>5. m.type = "M1" => e \in Servers /\ m = M1Of(e)
  BY <1>4 DEF ReturnedIn
<1>6. /\ wire \subseteq Messages /\ IndInv /\ FactsOK
      /\ e \in Clients => sess[e].state \in ClientStates
  BY DEF BaseInv, AgreementInv, IndInv, TypeOK
<1> DEFINE fires == Targeted(e) /\ count = TargetIndex
<1>7. /\ queue' = [queue EXCEPT ![Peer[e]] = @ \o (IF fires THEN <<Forged(m)>> ELSE <<m>>)]
      /\ count' = IF fires \/ (Targeted(e) /\ script = "modification") THEN count + 1 ELSE count
  BY <1>2, <1>3 DEF Transmit, Enqueue
<1>8. script = "modification" /\ e = Peer[First] =>
        \/ sess[e].state = "M2_CREATED" /\ count = 0
        \/ sess[e].state = "M4_CREATED" /\ count = 1
  <2> SUFFICES ASSUME script = "modification", e = Peer[First]
               PROVE  \/ sess[e].state = "M2_CREATED" /\ count = 0
                      \/ sess[e].state = "M4_CREATED" /\ count = 1
    OBVIOUS
  <2>1. ModificationOK /\ e \in Clients /\ Peer[First] = e
    BY PairsApart DEF ScriptOK
  <2>2. sess[e].state # "ESTABLISHED"
    <3>1. sess[e].key = None
      BY <2>1, PairsApart, KeysOfPairs DEF ModificationOK
    <3>2. ClientFacts(e)
      BY <1>6, <2>1 DEF FactsOK
    <3> QED  BY <3>1, <3>2 DEF ClientFacts
  <2>3. sess[e].state \in {"M2_CREATED", "M4_CREATED"}
    <3>1. sess[e].state \in ClientStates
      BY <1>6, <2>1
    <3>2. sess[e].state \in {"M1_CREATED", "M2_CREATED", "M3_CREATED", "M4_CREATED",
                            "M5_CREATED", "ESTABLISHED"}
      BY <1>4 DEF ReturnedIn
    <3> QED  BY <2>2, <3>1, <3>2 DEF ClientStates
  <2> QED  BY <1>1, <1>4, <2>1, <2>3 DEF ModificationOK
<1>9. script = "replay" /\ captured = None /\ e = Peer[First] => m.type = "M2"
  BY <1>1, <1>4 DEF ScriptOK, ReplayOK, FirstUnsent, ReturnedIn
<1>10. CASE ~fires
  <2>1. m \in AttackTraffic
    BY DEF AttackTraffic, Traffic
  <2>2. script = "modification" /\ e = Peer[First] =>
          sess[e].state = "M2_CREATED" /\ count = 0 /\ count' = 1
    BY <1>7, <1>8, <1>10 DEF Targeted, TargetIndex
  <2> HIDE DEF fires
  <2> QED  BY <1>2, <1>4, <1>5, <1>7, <1>9, <1>10, <2>1, <2>2 DEF Passes
<1>11. CASE fires /\ script = "replay"
  <2>1. e = Peer[Second]
    BY <1>11 DEF Targeted
  <2>2. phase = "second"
    BY <1>1, <2>1, PairsApart DEF Started, Pair
  <2>3. captured \in M2s /\ captured \in wire
    BY <1>11, <2>2 DEF ScriptOK, ReplayOK
  <2>4. Forged(m) = captured
    BY <1>11 DEF Forged
  <2>5. captured \in AttackTraffic /\ captured.type = "M2"
    BY <2>3 DEF AttackTraffic, Traffic, M2s
  <2> HIDE DEF fires
  <2> QED  BY <1>2, <1>4, <1>7, <1>9, <1>11, <2>4, <2>5 DEF Passes
<1>12. CASE fires /\ script = "modification"
  <2>1. e = Peer[First] /\ count = 1 /\ sess[e].state = "M4_CREATED" /\ count' = 2
    BY <1>7, <1>8, <1>12 DEF Targeted, TargetIndex
  <2>2. m.type = "M4"
    BY <1>4, <2>1 DEF ReturnedIn
  <2>3. m \in M4s
    BY <1>6, <2>2, InboundType DEF Inbound
  <2>4. Forged(m) = [m EXCEPT !.wrappedC = Garbled]
    BY <1>12 DEF Forged
  <2>5. /\ Forged(m).type = "M4" /\ Forged(m).wrappedC = Garbled
        /\ "wrappedC" \in DOMAIN m \ {"type"}
    BY <2>3, <2>4 DEF M4s
  <2>6. Forged(m) \in AttackTraffic
    <3>1. Forged(m) \in Damaged(m)
      BY <2>4, <2>5 DEF Damaged
    <3> QED  BY <3>1 DEF AttackTraffic, Traffic
  <2> HIDE DEF fires
  <2> QED  BY <1>2, <1>4, <1>7, <1>9, <1>12, <2>1, <2>5, <2>6 DEF Passes
<1>13. CASE fires /\ script = "forged_attestation"
  <2>1. e = First /\ count = 0
    BY <1>13 DEF Targeted, TargetIndex
  <2>2. sess[e].state = "M1_CREATED"
    <3>1. FirstUnsent(First, "M1_CREATED")
      BY <1>13, <2>1 DEF ScriptOK, ForgedOK
    <3> QED  BY <1>4, <2>1, <3>1 DEF FirstUnsent, ReturnedIn
  <2>3. m = M1Of(e) /\ e \in Servers
    BY <1>4, <2>2
  <2>4. Forged(m) = ForgedM1(e)
    <3>1. m.sid = Sid(e)
      BY <2>3, M1Fields
    <3> QED  BY <1>13, <2>3, <3>1 DEF Forged, ForgedM1
  <2>5. ForgedM1(e) \in AttackTraffic
    BY <2>3 DEF AttackTraffic
  <2> HIDE DEF fires
  <2> QED  BY <1>2, <1>4, <1>7, <1>13, <2>3, <2>4, <2>5 DEF Passes
<1>14. fires => script \in {"replay", "modification", "forged_attestation"}
  BY DEF Targeted
<1> QED  BY <1>10, <1>11, <1>12, <1>13, <1>14
-----------------------------------------------------------------------------
(* Every step keeps what sessions, messages and threads are known to be. *)

\* What a queue may hold before a step it may hold after it.
LEMMA AttackTrafficGrows ==
  ASSUME wire \subseteq wire'
  PROVE  AttackTraffic \subseteq AttackTraffic' /\ Seq(AttackTraffic) \subseteq Seq(AttackTraffic')
<1>1. AttackTraffic \subseteq AttackTraffic'
  <2>1. Traffic \subseteq Traffic'
    BY TrafficGrows
  <2>2. {ForgedM1(s) : s \in Servers}' = {ForgedM1(s) : s \in Servers}
    BY DEF ForgedM1, M1Of, M1, Quote, Signature
  <2> QED  BY <2>1, <2>2 DEF AttackTraffic
<1> HIDE DEF AttackTraffic
<1> QED  BY <1>1

\* A handler call keeps the routing: a client takes its id from its own M1.
LEMMA WorkRoutes ==
  ASSUME BaseInv, NEW e \in Endpoints, Work(e)
  PROVE  RoutesOK'
<1>1. /\ thread[e] = "running" /\ exc[e] = Ok /\ outbox[e] = <<>>
      /\ ThreadAfterHandler(e) /\ outbox' = [outbox EXCEPT ![e] = Returned]
      /\ \/ queue' = queue
         \/ queue[e] # <<>> /\ queue' = [queue EXCEPT ![e] = Tail(@)]
  BY WorkCalls DEF Outcome
<1>2. Kept(e) /\ wire \subseteq wire'
  BY WorkKeeps
<1>3. Answers(e)
  BY WorkAnswers
<1>4. /\ thread \in [Endpoints -> {"running", "done", "error"}]
      /\ queue \in [Endpoints -> Seq(AttackTraffic)]
      /\ outbox \in [Endpoints -> {<<>>} \cup {<<m>> : m \in wire}]
      /\ \A d \in Endpoints : OutboxOK(d) /\ (thread[d] # "error" => exc[d] = Ok)
      /\ \A c \in Clients : ClientRoutes(c)
  BY DEF BaseInv, RoutesOK
<1>5. /\ \A d \in Endpoints \ {e} : /\ sess'[d] = sess[d] /\ exc'[d] = exc[d]
                                    /\ thread'[d] = thread[d] /\ outbox'[d] = outbox[d]
                                    /\ queue'[d] = queue[d]
      /\ thread' \in [Endpoints -> {"running", "done", "error"}]
      /\ thread'[e] = IF exc'[e] # Ok THEN "error"
                      ELSE IF e \in Servers /\ sess'[e].state = "ESTABLISHED" THEN "done"
                      ELSE "running"
  <2>1. \A d \in Endpoints \ {e} : sess'[d] = sess[d] /\ exc'[d] = exc[d]
    BY <1>2 DEF Kept
  <2>2. \A d \in Endpoints \ {e} : queue'[d] = queue[d]
    BY <1>1, <1>4
  <2> QED  BY <1>1, <1>4, <2>1, <2>2 DEF ThreadAfterHandler
<1>6. queue' \in [Endpoints -> Seq(AttackTraffic)']
  <2>1. Seq(AttackTraffic) \subseteq Seq(AttackTraffic)'
    BY <1>2, AttackTrafficGrows
  <2>2. queue[e] # <<>> => Tail(queue[e]) \in Seq(AttackTraffic)
    BY HeadOf DEF BaseInv
  <2> HIDE DEF AttackTraffic
  <2> QED  BY <1>1, <1>4, <2>1, <2>2
<1>7. outbox'[e] = <<>> \/ \E m \in wire' : outbox'[e] = <<m>>
  BY <1>3 DEF Answers, Sends
<1>8. outbox' \in [Endpoints -> {<<>>} \cup {<<m>> : m \in wire'}]
  <2>1. \A d \in Endpoints : outbox'[d] \in {<<>>} \cup {<<m>> : m \in wire'}
    <3>1. \A d \in Endpoints : outbox[d] = <<>> \/ \E m \in wire : outbox[d] = <<m>>
      BY <1>4
    <3>2. \A d \in Endpoints : outbox'[d] = <<>> \/ \E m \in wire' : outbox'[d] = <<m>>
      BY <1>2, <1>5, <1>7, <3>1
    <3> QED  BY <3>2
  <2> QED  BY <1>1, <1>4, <2>1
<1>9. OutboxOK(e)'
  <2>1. \A m : <<m>>[1] = m /\ <<m>> # <<>>
    OBVIOUS
  <2> QED  BY <1>3, <1>5, <2>1, RolesAssumption
           DEF OutboxOK, Answers, Moves, Sends, ReturnedIn, M1Of, M1
<1>10. \A d \in Endpoints : OutboxOK(d)'
  BY <1>4, <1>5, <1>9 DEF OutboxOK, M1Of
<1>11. \A d \in Endpoints : thread'[d] # "error" => exc'[d] = Ok
  BY <1>4, <1>5
<1>12. ASSUME NEW c \in Clients
       PROVE  ClientRoutes(c)'
  <2>1. c \in Endpoints /\ ClientRoutes(c)
    BY <1>4 DEF Endpoints
  <2>2. sess'[c].sid \in {None, Sid(Peer[c])}
    BY <1>5, <2>1, WorkRaises DEF ClientRoutes
  <2>3. \/ queue'[c] = queue[c]
        \/ queue[c] # <<>> /\ queue'[c] = Tail(queue[c])
    BY <1>1, <1>4, <2>1
  <2>4. \A i \in DOMAIN queue'[c] : \E j \in DOMAIN queue[c] : queue'[c][i] = queue[c][j]
    <3>1. queue[c] \in Seq(AttackTraffic)
      BY <1>4, <2>1
    <3> HIDE DEF AttackTraffic
    <3>2. CASE queue'[c] = queue[c]
      BY <3>2
    <3>3. CASE queue[c] # <<>> /\ queue'[c] = Tail(queue[c])
      <4> SUFFICES ASSUME NEW i \in DOMAIN Tail(queue[c])
                   PROVE  i + 1 \in DOMAIN queue[c] /\ Tail(queue[c])[i] = queue[c][i + 1]
        BY <3>3
      <4> QED  BY <3>1, <3>3
    <3> QED  BY <2>3, <3>2, <3>3
  <2>5. ForgedM1(Peer[c])' = ForgedM1(Peer[c]) /\ M1Of(Peer[c])' = M1Of(Peer[c])
    BY DEF ForgedM1, M1Of, M1
  <2> QED  BY <1>2, <2>1, <2>2, <2>4, <2>5 DEF ClientRoutes
<1> QED  BY <1>5, <1>6, <1>8, <1>10, <1>11, <1>12 DEF RoutesOK

\* So does a send: it goes to the peer, whatever the hook makes of it.
LEMMA TransmitRoutes ==
  ASSUME BaseInv, ScriptOK, NEW e \in Endpoints, Transmit(e)
  PROVE  RoutesOK'
<1>1. PICK m \in wire, n \in AttackTraffic : Passes(e, m, n)
  BY TransmitPasses
<1>2. /\ thread \in [Endpoints -> {"running", "done", "error"}]
      /\ queue \in [Endpoints -> Seq(AttackTraffic)]
      /\ outbox \in [Endpoints -> {<<>>} \cup {<<k>> : k \in wire}]
      /\ \A d \in Endpoints : OutboxOK(d) /\ (thread[d] # "error" => exc[d] = Ok)
      /\ \A c \in Clients : ClientRoutes(c)
  BY DEF BaseInv, RoutesOK
<1>3. /\ ThreadAfterSend(e) /\ outbox' = [outbox EXCEPT ![e] = <<>>]
      /\ sess' = sess /\ exc' = exc /\ wire' = wire
      /\ queue' = [queue EXCEPT ![Peer[e]] = @ \o <<n>>] /\ thread[e] = "running"
      /\ n.type = "M1" => e \in Servers /\ M1Of(e) \in wire /\ n \in {M1Of(e), ForgedM1(e)}
  BY <1>1 DEF Transmit, Sent, vars, Passes
<1>4. /\ thread' \in [Endpoints -> {"running", "done", "error"}]
      /\ \A d \in Endpoints \ {e} : thread'[d] = thread[d] /\ outbox'[d] = outbox[d]
      /\ outbox' \in [Endpoints -> {<<>>} \cup {<<k>> : k \in wire'}] /\ outbox'[e] = <<>>
  BY <1>2, <1>3 DEF ThreadAfterSend
<1>5. queue' \in [Endpoints -> Seq(AttackTraffic)']
  <2>1. Seq(AttackTraffic) \subseteq Seq(AttackTraffic)'
    BY <1>3, AttackTrafficGrows
  <2>2. Peer[e] \in Endpoints
    BY PeerAssumption
  <2> HIDE DEF AttackTraffic
  <2>3. queue[Peer[e]] \o <<n>> \in Seq(AttackTraffic)
    BY <1>2, <2>2
  <2> QED  BY <1>2, <1>3, <2>1, <2>3
<1>6. \A d \in Endpoints : OutboxOK(d)'
  BY <1>2, <1>3, <1>4 DEF OutboxOK, M1Of
<1>7. \A d \in Endpoints : thread'[d] # "error" => exc'[d] = Ok
  BY <1>2, <1>3, <1>4
<1>8. ASSUME NEW c \in Clients
      PROVE  ClientRoutes(c)'
  <2>1. c \in Endpoints /\ ClientRoutes(c)
    BY <1>2 DEF Endpoints
  <2>2. ForgedM1(Peer[c])' = ForgedM1(Peer[c]) /\ M1Of(Peer[c])' = M1Of(Peer[c])
    BY DEF ForgedM1, M1Of, M1
  <2>3. CASE c # Peer[e]
    <3>1. queue'[c] = queue[c]
      BY <1>2, <1>3, <2>1, <2>3
    <3> QED  BY <1>3, <2>1, <2>2, <3>1 DEF ClientRoutes
  <2>4. CASE c = Peer[e]
    <3>1. Peer[c] = e
      BY <2>4, PeerAssumption
    <3>2. \A i \in DOMAIN queue'[c] :
            queue'[c][i] = n \/ (i \in DOMAIN queue[c] /\ queue'[c][i] = queue[c][i])
      <4>1. queue'[c] = queue[c] \o <<n>> /\ queue[c] \in Seq(AttackTraffic)
        BY <1>2, <1>3, <2>1, <2>4
      <4> HIDE DEF AttackTraffic
      <4> QED  BY <4>1
    <3> QED  BY <1>3, <2>1, <2>2, <3>1, <3>2 DEF ClientRoutes
  <2> QED  BY <2>3, <2>4
<1> QED  BY <1>4, <1>5, <1>6, <1>7, <1>8 DEF RoutesOK

\* So does a timeout: it touches no session and no message.
LEMMA GiveUpRoutes ==
  ASSUME BaseInv, NEW e \in Endpoints, GiveUp(e)
  PROVE  RoutesOK'
<1>1. /\ sess' = sess /\ exc' = exc /\ wire' = wire /\ queue' = queue /\ outbox' = outbox
      /\ thread' = [thread EXCEPT ![e] = "error"] /\ outbox[e] = <<>>
  BY DEF GiveUp, Timeout, Receiving, vars
<1>2. Seq(AttackTraffic)' = Seq(AttackTraffic)
  BY <1>1 DEF AttackTraffic, Traffic, Damaged, ForgedM1, M1Of
<1>3. /\ thread' \in [Endpoints -> {"running", "done", "error"}] /\ thread'[e] = "error"
      /\ \A d \in Endpoints \ {e} : thread'[d] = thread[d]
  BY <1>1 DEF BaseInv, RoutesOK
<1>4. \A d \in Endpoints : OutboxOK(d)'
  BY <1>1, <1>3 DEF BaseInv, RoutesOK, OutboxOK, M1Of
<1>5. \A c \in Clients : ClientRoutes(c)'
  <2>1. \A c \in Clients : ClientRoutes(c)
    BY DEF BaseInv, RoutesOK
  <2> QED  BY ONLY <1>1, <2>1 DEF ClientRoutes, M1Of, ForgedM1
<1> QED  BY <1>1, <1>2, <1>3, <1>4, <1>5 DEF BaseInv, RoutesOK

\* A step that leaves the threads and the messages alone.
LEMMA SameRoutes ==
  ASSUME BaseInv, UNCHANGED <<vars, thread, queue, outbox>>
  PROVE  BaseInv'
<1>1. /\ sess' = sess /\ exc' = exc /\ wire' = wire /\ queue' = queue /\ outbox' = outbox
      /\ thread' = thread /\ UNCHANGED vars
  BY DEF vars
<1>2. AgreementInv'
  BY <1>1, NextFacts DEF BaseInv
<1>3. Announced'
  BY <1>1 DEF BaseInv, Announced
<1>4. Seq(AttackTraffic)' = Seq(AttackTraffic)
  BY <1>1 DEF AttackTraffic, Traffic, Damaged, ForgedM1, M1Of
<1>5. \A d \in Endpoints : OutboxOK(d)'
  BY <1>1 DEF BaseInv, RoutesOK, OutboxOK, M1Of
<1>6. \A c \in Clients : ClientRoutes(c)'
  <2>1. \A c \in Clients : ClientRoutes(c)
    BY DEF BaseInv, RoutesOK
  <2> QED  BY ONLY <1>1, <2>1 DEF ClientRoutes, M1Of, ForgedM1
<1> QED  BY <1>1, <1>2, <1>3, <1>4, <1>5, <1>6 DEF BaseInv, RoutesOK

\* The steps of the threads keep it.
LEMMA NextBase ==
  ASSUME BaseInv, ScriptOK, NEW e \in Endpoints, Work(e) \/ Transmit(e) \/ GiveUp(e)
  PROVE  BaseInv'
<1>1. CASE Work(e)
  BY <1>1, WorkKeeps, WorkRoutes DEF BaseInv
<1>2. CASE Transmit(e) \/ GiveUp(e)
  <2>1. UNCHANGED vars
    BY <1>2 DEF Transmit, Sent, GiveUp, Timeout
  <2>2. AgreementInv'
    BY <2>1, NextFacts DEF BaseInv
  <2>3. Announced'
    BY <2>1 DEF BaseInv, Announced, vars
  <2> QED  BY <1>2, <2>2, <2>3, TransmitRoutes, GiveUpRoutes DEF BaseInv
<1> QED  BY <1>1, <1>2
-----------------------------------------------------------------------------
(* What the threads leave of the scripts. *)

\* A step of e leaves the sessions and threads of the others as they are; only
\* the queue of its peer may change, which is no part of this.
Others(e) ==
  \A d \in Endpoints \ {e} : /\ sess'[d] = sess[d] /\ exc'[d] = exc[d]
                             /\ thread'[d] = thread[d] /\ outbox'[d] = outbox[d]

\* What a handler call of e does, as far as the scripts are concerned.
LEMMA WorkEffect ==
  ASSUME BaseInv, NEW e \in Endpoints, Work(e)
  PROVE  /\ Others(e) /\ thread[e] = "running" /\ exc[e] = Ok /\ outbox[e] = <<>>
         /\ thread'[e] = "running" => exc'[e] = Ok
         /\ \A d \in Endpoints :
              /\ queue[d] = <<>> => queue'[d] = <<>>
              /\ \A i \in DOMAIN queue'[d] : \E j \in DOMAIN queue[d] : queue'[d][i] = queue[d][j]
<1>1. /\ thread[e] = "running" /\ exc[e] = Ok /\ outbox[e] = <<>>
      /\ ThreadAfterHandler(e) /\ outbox' = [outbox EXCEPT ![e] = Returned]
      /\ \/ queue' = queue
         \/ queue[e] # <<>> /\ queue' = [queue EXCEPT ![e] = Tail(@)]
  BY WorkCalls DEF Outcome
<1>2. /\ thread \in [Endpoints -> {"running", "done", "error"}]
      /\ queue \in [Endpoints -> Seq(AttackTraffic)]
      /\ outbox \in [Endpoints -> {<<>>} \cup {<<m>> : m \in wire}]
  BY DEF BaseInv, RoutesOK
<1>3. Others(e)
  BY <1>1, <1>2, WorkKeeps DEF Others, Kept, ThreadAfterHandler
<1>4. thread'[e] = "running" => exc'[e] = Ok
  BY <1>1, <1>2 DEF ThreadAfterHandler
<1>5. ASSUME NEW d \in Endpoints
      PROVE  /\ queue[d] = <<>> => queue'[d] = <<>>
             /\ \A i \in DOMAIN queue'[d] : \E j \in DOMAIN queue[d] :
                  queue'[d][i] = queue[d][j]
  <2>1. queue[d] \in Seq(AttackTraffic)
    BY <1>2
  <2> HIDE DEF AttackTraffic
  <2>2. CASE queue'[d] = queue[d]
    BY <2>2
  <2>3. CASE queue[d] # <<>> /\ queue'[d] = Tail(queue[d])
    <3> SUFFICES ASSUME NEW i \in DOMAIN Tail(queue[d])
                 PROVE  i + 1 \in DOMAIN queue[d] /\ Tail(queue[d])[i] = queue[d][i + 1]
      BY <2>3
    <3> QED  BY <2>1, <2>3
  <2>4. \/ queue'[d] = queue[d]
        \/ queue[d] # <<>> /\ queue'[d] = Tail(queue[d])
    BY <1>1, <1>2
  <2> QED  BY <2>2, <2>3, <2>4
<1> QED  BY <1>1, <1>3, <1>4, <1>5

\* A key a server holds it keeps.
LEMMA KeyStays ==
  ASSUME BaseInv, NEW e \in Endpoints, Work(e), NEW s \in Servers, sess[s].key # None
  PROVE  sess'[s].key # None
<1>1. IndInv /\ FactsOK /\ Kept(e)
  BY WorkKeeps DEF BaseInv, AgreementInv
<1>2. PICK c \in Clients : ServerKeyed(s, c)
  BY <1>1 DEF FactsOK, ServerFacts
<1>3. ServerKeyed(s, c)'
  BY <1>1, <1>2, StableFacts
<1>4. sess'[s].key = SessionKeyOf(s, c)
  BY <1>3 DEF ServerKeyed, SessionKeyOf, DeriveSessionKey, SharedSecret, Fusion, Tef, Sid, Pk
<1> QED  BY <1>4, KeyInjective

\* An endpoint that has not sent its first message when it is called sends it
\* now.
LEMMA FirstStays ==
  ASSUME BaseInv, NEW e \in Endpoints, Work(e), NEW d \in Endpoints, NEW state,
         FirstUnsent(d, state),
         \/ state = "M1_CREATED" /\ d \in Servers
         \/ state = "M2_CREATED" /\ d \in Clients
  PROVE  FirstUnsent(d, state)'
<1>1. CASE d # e
  BY <1>1, WorkEffect DEF FirstUnsent, Others
<1>2. CASE d = e
  <2>1. sess[e].state = "INIT"
    BY <1>2, WorkEffect DEF FirstUnsent
  <2>2. Failing(e) /\ exc'[e] # Ok => thread'[e] # "running"
    BY WorkEffect
  <2>3. \A m : <<m>> # <<>>
    OBVIOUS
  <2> QED  BY <1>2, <2>1, <2>2, <2>3, WorkAnswers, RolesAssumption
           DEF Answers, Moves, FirstUnsent
<1> QED  BY <1>1, <1>2

\* The exceptions the scripts look for leave a session in one state each.
LEMMA WorkRaisedOK ==
  ASSUME BaseInv, RaisedOK, NEW e \in Endpoints, Work(e)
  PROVE  RaisedOK'
<1>1. Others(e)
  BY WorkEffect
<1>2. ASSUME NEW c \in Clients
      PROVE  /\ exc'[c] = "AttestationError" => sess'[c].state = "M1_VERIFIED"
             /\ exc'[c] = "RuntimeError" => sess'[c].state = "M2_CREATED"
  <2>1. CASE c = e
    BY <2>1, WorkRaises
  <2>2. CASE c # e
    BY <1>1, <2>2 DEF Others, RaisedOK, Endpoints
  <2> QED  BY <2>1, <2>2
<1>3. ASSUME NEW s \in Servers
      PROVE  /\ exc'[s] = "SessionIDMismatch" => sess'[s].state = "M2_VERIFIED"
             /\ exc'[s] = "AEADError" => sess'[s].state = "M4_VERIFIED"
  <2>1. CASE s = e
    BY <2>1, WorkRaises
  <2>2. CASE s # e
    BY <1>1, <2>2 DEF Others, RaisedOK, Endpoints
  <2> QED  BY <2>1, <2>2
<1> QED  BY <1>2, <1>3 DEF RaisedOK

\* modification.py: once M4 is damaged no server goes on from it.
LEMMA WorkModification ==
  ASSUME BaseInv, ModificationOK, NEW e \in Endpoints, Work(e)
  PROVE  ModificationOK'
<1> DEFINE c == Peer[First]
<1>1. /\ c \in Clients /\ c \in Endpoints /\ c \notin Servers
      /\ First \in Servers /\ First \in Endpoints /\ First \notin Clients
  BY PairsApart
<1>2. count' = count /\ Answers(e) /\ Others(e) /\ outbox[e] = <<>> /\ thread[e] = "running"
  BY WorkCalls, WorkAnswers, WorkEffect DEF scriptVars
<1>3. sess'[First].key = None
  <2>1. CASE e # First
    BY <1>1, <1>2, <2>1 DEF Others, ModificationOK
  <2>2. CASE e = First
    <3> SUFFICES ASSUME sess'[First].key # None PROVE FALSE
      OBVIOUS
    <3>1. FactsOK' /\ FactsOK
      BY WorkKeeps DEF BaseInv, AgreementInv
    <3>2. sess'[First].state \in {"M5_CREATED", "ESTABLISHED"}
      BY <1>1, <3>1 DEF FactsOK, ServerFacts, ServerKeyed
    <3>3. sess[First].state \notin {"M5_CREATED", "ESTABLISHED"}
      <4>1. ServerFacts(First)
        BY <1>1, <3>1 DEF FactsOK
      <4> QED  BY <4>1 DEF ServerFacts, ModificationOK
    <3>4. ~Failing(e)
      BY <2>2 DEF Failing, ModificationOK
    <3>5. /\ queue[First] # <<>> /\ Head(queue[First]).type = "M4"
          /\ Head(queue[First]).wrappedC # Garbled
      BY <1>1, <1>2, <2>2, <3>2, <3>3, <3>4 DEF Answers, Moves
    <3>6. 1 \in DOMAIN queue[First] /\ Head(queue[First]) = queue[First][1]
      BY <1>1, <3>5, HeadOf DEF BaseInv
    <3> QED  BY <3>5, <3>6 DEF ModificationOK
  <2> QED  BY <2>1, <2>2
<1>4. \A i \in DOMAIN queue'[First] : queue'[First][i].type = "M4" =>
        count' = 2 /\ queue'[First][i].wrappedC = Garbled
  BY <1>1, <1>2, WorkEffect DEF ModificationOK
<1>5. exc'[First] = "AEADError" => count' = 2
  <2>1. CASE e # First
    BY <1>1, <1>2, <2>1 DEF Others, ModificationOK
  <2>2. CASE e = First
    <3> SUFFICES ASSUME exc'[First] = "AEADError" PROVE count = 2
      BY <1>2
    <3>1. queue[First] # <<>> /\ Head(queue[First]).type = "M4"
      BY <1>1, <2>2, WorkRaises DEF Ok
    <3>2. 1 \in DOMAIN queue[First] /\ Head(queue[First]) = queue[First][1]
      BY <1>1, <3>1, HeadOf DEF BaseInv
    <3> QED  BY <3>1, <3>2 DEF ModificationOK
  <2> QED  BY <2>1, <2>2
<1>6. thread'[c] = "running" =>
        /\ sess'[c].state = "INIT" => count' = 0
        /\ sess'[c].state = "M2_CREATED" => count' = IF outbox'[c] = <<>> THEN 1 ELSE 0
        /\ sess'[c].state = "M4_CREATED" /\ outbox'[c] # <<>> => count' = 1
  <2>1. CASE e # c
    BY <1>1, <1>2, <2>1 DEF Others, ModificationOK
  <2>2. CASE e = c
    <3>1. thread'[c] = "running" => ~(Failing(e) /\ exc'[e] # Ok)
      BY <2>2, WorkEffect
    <3>2. \A m : <<m>> # <<>>
      OBVIOUS
    <3> QED  BY <1>1, <1>2, <2>2, <3>1, <3>2 DEF Answers, Moves, ModificationOK
  <2> QED  BY <2>1, <2>2
<1>7. count' \in 0..2
  BY <1>2 DEF ModificationOK
<1> QED  BY <1>3, <1>4, <1>5, <1>6, <1>7 DEF ModificationOK

\* A handler call keeps what each script relies on.
LEMMA WorkScript ==
  ASSUME BaseInv, ScriptOK, NEW e \in Endpoints, Work(e)
  PROVE  ScriptOK'
<1>1. /\ script' = script /\ phase' = phase /\ captured' = captured /\ count' = count
      /\ Others(e) /\ wire \subseteq wire'
  BY WorkCalls, WorkEffect, WorkKeeps DEF scriptVars
<1>2. ASSUME script = "replay"
      PROVE  ReplayOK'
  <2>1. ReplayOK
    BY <1>2 DEF ScriptOK
  <2>2. captured = None => FirstUnsent(Peer[First], "M2_CREATED")'
    BY <2>1, FirstStays, PairsApart DEF ReplayOK
  <2>3. count = 0 => queue'[Second] = <<>> /\ exc'[Second] # "SessionIDMismatch"
    <3>1. count = 0 => queue'[Second] = <<>>
      BY <2>1, WorkEffect, PairsApart DEF ReplayOK
    <3>2. CASE e = Second
      BY <2>1, <3>1, <3>2, WorkRaises DEF ReplayOK, Ok
    <3>3. CASE e # Second
      BY <1>1, <2>1, <3>1, <3>3, PairsApart DEF ReplayOK, Others
    <3> QED  BY <3>2, <3>3
  <2>4. M2s' = M2s
    BY DEF M2s
  <2> QED  BY <1>1, <2>1, <2>2, <2>3, <2>4 DEF ReplayOK
<1>3. script = "modification" => ModificationOK'
  BY WorkModification DEF ScriptOK
<1>4. ASSUME script = "forged_attestation"
      PROVE  ForgedOK'
  <2>1. ForgedOK
    BY <1>4 DEF ScriptOK
  <2>2. count = 0 => FirstUnsent(First, "M1_CREATED")'
    BY <2>1, FirstStays, PairsApart DEF ForgedOK
  <2>3. count = 0 => queue'[Peer[First]] = <<>> /\ exc'[Peer[First]] # "AttestationError"
    <3>1. count = 0 => queue'[Peer[First]] = <<>>
      BY <2>1, WorkEffect, PairsApart DEF ForgedOK
    <3>2. CASE e = Peer[First]
      BY <2>1, <3>1, <3>2, WorkRaises DEF ForgedOK, Ok
    <3>3. CASE e # Peer[First]
      BY <1>1, <2>1, <3>1, <3>3, PairsApart DEF ForgedOK, Others
    <3> QED  BY <3>2, <3>3
  <2> QED  BY <1>1, <2>1, <2>2, <2>3 DEF ForgedOK
<1>5. script = "rushing" => RushingOK'
  BY <1>1, KeyStays, PairsApart DEF ScriptOK, RushingOK
<1> QED  BY <1>1, <1>2, <1>3, <1>4, <1>5 DEF ScriptOK, Scripts

\* A thread that has failed does nothing more, and nothing happens to it.
LEMMA ThreadVerdict ==
  ASSUME BaseInv, VerdictOK, NEW e \in Endpoints, thread[e] = "running", Others(e),
         script' = script, verdict' = verdict,
         \A s \in Servers : sess[s].key # None => sess'[s].key # None
  PROVE  VerdictOK'
<1>1. \A d \in Endpoints : \A x : Raised(d, x) => Raised(d, x)'
  BY DEF Raised, Others
<1>2. Rejected => Rejected'
  BY <1>1, PairsApart DEF Rejected
<1> QED  BY <1>2 DEF VerdictOK

\* A handler call keeps the invariant.
LEMMA WorkAttack ==
  ASSUME AttackInv, NEW e \in Endpoints, Work(e)
  PROVE  AttackInv'
<1>1. BaseInv' /\ RaisedOK' /\ ScriptOK'
  BY NextBase, WorkRaisedOK, WorkScript DEF AttackInv
<1>2. /\ thread[e] = "running" /\ Others(e) /\ script' = script /\ verdict' = verdict
      /\ \A s \in Servers : sess[s].key # None => sess'[s].key # None
  BY WorkEffect, WorkCalls, KeyStays DEF AttackInv, scriptVars
<1>3. VerdictOK'
  BY <1>2, ThreadVerdict DEF AttackInv
<1> QED  BY <1>1, <1>3 DEF AttackInv
-----------------------------------------------------------------------------
(* What the hooks leave of the scripts. *)

\* What a send of e does, as far as the scripts are concerned.
LEMMA TransmitEffect ==
  ASSUME BaseInv, NEW e \in Endpoints, Transmit(e)
  PROVE  /\ Others(e) /\ sess' = sess /\ exc' = exc /\ wire' = wire /\ outbox'[e] = <<>>
         /\ script' = script /\ phase' = phase /\ verdict' = verdict
         /\ thread[e] = "running" /\ outbox[e] # <<>>
         /\ \A d \in Endpoints \ {Peer[e]} : queue'[d] = queue[d]
         /\ captured' = IF Captures(e) THEN outbox[e][1] ELSE captured
         /\ count' = IF (Targeted(e) /\ count = TargetIndex)
                          \/ (Targeted(e) /\ script = "modification")
                     THEN count + 1 ELSE count
<1>1. OutboxOK(e) /\ outbox[e] # <<>>
  BY DEF BaseInv, RoutesOK, Transmit
<1>2. /\ thread \in [Endpoints -> {"running", "done", "error"}]
      /\ queue \in [Endpoints -> Seq(AttackTraffic)]
      /\ outbox \in [Endpoints -> {<<>>} \cup {<<m>> : m \in wire}]
  BY DEF BaseInv, RoutesOK
<1>3. /\ sess' = sess /\ exc' = exc /\ wire' = wire /\ ThreadAfterSend(e)
      /\ outbox' = [outbox EXCEPT ![e] = <<>>]
      /\ script' = script /\ phase' = phase /\ verdict' = verdict
  BY DEF Transmit, Sent, vars
<1>4. Others(e) /\ outbox'[e] = <<>>
  BY <1>2, <1>3 DEF ThreadAfterSend, Others
<1>5. \A d \in Endpoints \ {Peer[e]} : queue'[d] = queue[d]
  BY <1>2 DEF Transmit, Enqueue
<1>6. /\ captured' = IF Captures(e) THEN outbox[e][1] ELSE captured
      /\ count' = IF (Targeted(e) /\ count = TargetIndex)
                       \/ (Targeted(e) /\ script = "modification")
                  THEN count + 1 ELSE count
  BY DEF Transmit
<1> QED  BY <1>1, <1>3, <1>4, <1>5, <1>6 DEF OutboxOK

\* replay.py: the message captured is an M2, and only the hook sets it.
LEMMA TransmitReplay ==
  ASSUME BaseInv, ScriptOK, script = "replay", NEW e \in Endpoints, Transmit(e)
  PROVE  ReplayOK'
<1>1. ReplayOK
  BY DEF ScriptOK
<1>2. PICK m \in wire, n \in AttackTraffic : Passes(e, m, n)
  BY TransmitPasses
<1>3. outbox[e][1] = m /\ (captured = None /\ e = Peer[First] => m.type = "M2")
  BY <1>2 DEF Passes
<1>4. wire \subseteq Messages
  BY DEF BaseInv, AgreementInv, IndInv, TypeOK
<1>5. m.type = "M2" => m \in M2s
  BY <1>4, InboundType DEF Inbound
<1>6. M2s' = M2s
  BY DEF M2s
<1>7. captured' # None => captured' \in M2s /\ captured' \in wire'
  BY <1>1, <1>3, <1>5, TransmitEffect DEF ReplayOK, Captures
<1>8. captured' = None => phase' = "first" /\ FirstUnsent(Peer[First], "M2_CREATED")'
  <2> SUFFICES ASSUME captured' = None
               PROVE  phase' = "first" /\ FirstUnsent(Peer[First], "M2_CREATED")'
    OBVIOUS
  <2>1. e # Peer[First] /\ captured = None
    <3>1. e = Peer[First] /\ captured = None => m # None
      BY <1>3, <1>5 DEF M2s, None
    <3> QED  BY <1>3, <3>1, TransmitEffect DEF Captures
  <2> QED  BY <1>1, <2>1, TransmitEffect, PairsApart DEF ReplayOK, FirstUnsent, Others
<1>9. count' \in 0..1 /\ (count' = 0 => count = 0 /\ e # Peer[Second])
  BY <1>1, TransmitEffect DEF ReplayOK, Targeted, TargetIndex
<1>10. count' = 0 => queue'[Second] = <<>> /\ exc'[Second] # "SessionIDMismatch"
  <2>1. e # Peer[Second] => Peer[e] # Second
    BY PeerAssumption
  <2> QED  BY <1>1, <1>9, <2>1, TransmitEffect, PairsApart DEF ReplayOK
<1> QED  BY <1>6, <1>7, <1>8, <1>9, <1>10 DEF ReplayOK

\* modification.py: the hook counts the messages of the client and damages M4.
LEMMA TransmitModification ==
  ASSUME BaseInv, ScriptOK, script = "modification", NEW e \in Endpoints, Transmit(e)
  PROVE  ModificationOK'
<1> DEFINE c == Peer[First]
<1>1. ModificationOK /\ c \in Clients /\ c \in Endpoints /\ First \in Endpoints
  BY PairsApart DEF ScriptOK
<1>2. CASE e # c
  <2>1. Peer[e] # First
    BY <1>2, PeerAssumption
  <2>2. queue'[First] = queue[First] /\ count' = count
    BY <1>1, <1>2, <2>1, TransmitEffect DEF Targeted
  <2>3. thread'[c] = thread[c] /\ outbox'[c] = outbox[c]
    BY <1>1, <1>2, TransmitEffect DEF Others
  <2> QED  BY <1>1, <2>2, <2>3, TransmitEffect DEF ModificationOK
<1>3. CASE e = c
  <2>1. PICK m \in wire, n \in AttackTraffic : Passes(e, m, n)
    BY TransmitPasses
  <2>2. /\ queue' = [queue EXCEPT ![First] = @ \o <<n>>]
        /\ m.type = ReturnedIn[sess[e].state]
        /\ \/ n = m /\ sess[e].state = "M2_CREATED" /\ count = 0 /\ count' = 1
           \/ /\ n.type = "M4" /\ n.wrappedC = Garbled
              /\ sess[e].state = "M4_CREATED" /\ count = 1 /\ count' = 2
    BY <1>3, <2>1, PairsApart DEF Passes
  <2>3. n.type = "M4" => count' = 2 /\ n.wrappedC = Garbled
    BY <2>2 DEF ReturnedIn
  <2>4. \A i \in DOMAIN queue'[First] : queue'[First][i] = n
           \/ (i \in DOMAIN queue[First] /\ queue'[First][i] = queue[First][i])
    <3>1. queue \in [Endpoints -> Seq(AttackTraffic)]
      BY DEF BaseInv, RoutesOK
    <3>2. queue'[First] = queue[First] \o <<n>> /\ queue[First] \in Seq(AttackTraffic)
      BY <1>1, <2>2, <3>1
    <3> HIDE DEF AttackTraffic
    <3> QED  BY <3>2
  <2>5. \A i \in DOMAIN queue[First] : queue[First][i].type # "M4"
    BY <1>1, <2>2 DEF ModificationOK
  <2>6. /\ sess' = sess /\ exc' = exc /\ outbox'[c] = <<>>
    BY <1>3, TransmitEffect
  <2>7. \A i \in DOMAIN queue'[First] : queue'[First][i].type = "M4" =>
          count' = 2 /\ queue'[First][i].wrappedC = Garbled
    BY <2>3, <2>4, <2>5
  <2>8. /\ sess'[c].state # "INIT" /\ (sess'[c].state = "M2_CREATED" => count' = 1)
        /\ count' \in 0..2
    BY <1>3, <2>2, <2>6
  <2>9. exc'[First] # "AEADError" /\ sess'[First].key = None
    BY <1>1, <2>2, <2>6 DEF ModificationOK
  <2> QED  BY <2>6, <2>7, <2>8, <2>9 DEF ModificationOK
<1> QED  BY <1>2, <1>3

\* forged_attestation.py: the hook replaces the one M1 there is.
LEMMA TransmitForged ==
  ASSUME BaseInv, ScriptOK, script = "forged_attestation", NEW e \in Endpoints, Transmit(e)
  PROVE  ForgedOK'
<1>1. ForgedOK
  BY DEF ScriptOK
<1>2. count' \in 0..1 /\ (count' = 0 => count = 0 /\ e # First)
  BY <1>1, TransmitEffect DEF ForgedOK, Targeted, TargetIndex
<1>3. ASSUME count' = 0
      PROVE  /\ queue'[Peer[First]] = <<>> /\ exc'[Peer[First]] # "AttestationError"
             /\ FirstUnsent(First, "M1_CREATED")'
  <2>1. Peer[e] # Peer[First]
    BY <1>2, <1>3, PairsApart, PeerAssumption
  <2>2. thread'[First] = thread[First] /\ outbox'[First] = outbox[First]
    BY <1>2, <1>3, TransmitEffect, PairsApart DEF Others
  <2> QED  BY <1>1, <1>2, <1>3, <2>1, <2>2, TransmitEffect, PairsApart
           DEF ForgedOK, FirstUnsent
<1> QED  BY <1>2, <1>3 DEF ForgedOK

\* A send keeps the invariant.
LEMMA TransmitAttack ==
  ASSUME AttackInv, NEW e \in Endpoints, Transmit(e)
  PROVE  AttackInv'
<1>1. BaseInv /\ RaisedOK /\ ScriptOK /\ VerdictOK
  BY DEF AttackInv
<1>2. BaseInv'
  BY <1>1, NextBase
<1>3. RaisedOK'
  BY <1>1, TransmitEffect DEF RaisedOK
<1>4. script' = script /\ phase' = phase /\ sess' = sess
  BY <1>1, TransmitEffect
<1>5. script = "rushing" => RushingOK'
  BY <1>1, <1>4, TransmitEffect DEF ScriptOK, RushingOK, Targeted, Captures
<1>6. script = "entropy_failure" => count' = 0
  BY <1>1, TransmitEffect DEF ScriptOK, Targeted
<1>7. ScriptOK'
  BY <1>1, <1>4, <1>5, <1>6, TransmitReplay, TransmitModification, TransmitForged
     DEF ScriptOK, Scripts
<1>8. VerdictOK'
  BY <1>1, <1>4, TransmitEffect, ThreadVerdict
<1> QED  BY <1>2, <1>3, <1>7, <1>8 DEF AttackInv

-----------------------------------------------------------------------------
(* A timeout, and what the main thread does. *)

\* A timeout keeps it: the thread had nothing to send.
LEMMA GiveUpAttack ==
  ASSUME AttackInv, NEW e \in Endpoints, GiveUp(e)
  PROVE  AttackInv'
<1>1. BaseInv /\ RaisedOK /\ ScriptOK /\ VerdictOK
  BY DEF AttackInv
<1>2. BaseInv'
  BY <1>1, NextBase
<1>3. /\ sess' = sess /\ exc' = exc /\ wire' = wire /\ queue' = queue /\ outbox' = outbox
      /\ thread[e] = "running" /\ thread' = [thread EXCEPT ![e] = "error"]
      /\ script' = script /\ phase' = phase /\ verdict' = verdict
      /\ captured' = captured /\ count' = count
  BY DEF GiveUp, Timeout, Receiving, vars, scriptVars
<1>4. Others(e) /\ thread'[e] = "error"
  BY <1>1, <1>3 DEF Others, BaseInv, RoutesOK
<1>5. RaisedOK'
  BY <1>1, <1>3 DEF RaisedOK
<1>6. \A d \in Endpoints : \A state : FirstUnsent(d, state) => FirstUnsent(d, state)'
  BY <1>3, <1>4 DEF FirstUnsent, Others
<1>7. M2s' = M2s
  BY DEF M2s
<1>8. ReplayOK => ReplayOK'
  BY <1>3, <1>6, <1>7, PairsApart DEF ReplayOK
<1>9. ModificationOK => ModificationOK'
  <2>1. thread'[Peer[First]] = "running" => thread[Peer[First]] = "running"
    BY <1>4, PairsApart DEF Others
  <2> QED  BY <1>3, <2>1 DEF ModificationOK
<1>10. ForgedOK => ForgedOK'
  BY <1>3, <1>6, PairsApart DEF ForgedOK
<1>11. RushingOK => RushingOK'
  BY <1>3 DEF RushingOK
<1>12. ScriptOK'
  BY <1>1, <1>3, <1>8, <1>9, <1>10, <1>11 DEF ScriptOK
<1>13. VerdictOK'
  BY <1>1, <1>3, <1>4, ThreadVerdict
<1> QED  BY <1>2, <1>5, <1>12, <1>13 DEF AttackInv

\* The value of AttackResult.blocked rests on a defence that has worked.
LEMMA BlockedRejected ==
  ASSUME ScriptOK, Blocked
  PROVE  Rejected
<1>1. script \in Scripts
  BY DEF ScriptOK
<1>2. CASE script = "replay"
  BY <1>2 DEF Blocked, Rejected
<1>3. CASE script = "modification"
  BY <1>3 DEF Blocked, Rejected
<1>4. CASE script = "forged_attestation"
  BY <1>4 DEF Blocked, Rejected
<1>5. CASE script = "entropy_failure"
  BY <1>5 DEF Blocked, Rejected
<1>6. CASE script = "rushing"
  <2>1. captured # None /\ BuiltFusion(Second) # None
    BY <1>6 DEF Blocked
  <2>2. sess[Second].key # None
    BY <2>1 DEF BuiltFusion
  <2>3. sess[First].key # None
    BY <1>6, <2>1 DEF ScriptOK, RushingOK
  <2> QED  BY <1>6, <2>2, <2>3 DEF Rejected
<1> QED  BY <1>1, <1>2, <1>3, <1>4, <1>5, <1>6 DEF Scripts

\* Between and after its handshakes the main thread only looks at the threads.
LEMMA MainAttack ==
  ASSUME AttackInv, FirstReturns \/ LastReturns \/ UNCHANGED attackVars
  PROVE  AttackInv'
<1>1. BaseInv /\ RaisedOK /\ ScriptOK /\ VerdictOK
  BY DEF AttackInv
<1>2. UNCHANGED <<vars, thread, queue, outbox>> /\ script' = script /\ count' = count
  BY DEF FirstReturns, LastReturns, attackVars, liveVars, scriptVars
<1>3. /\ sess' = sess /\ exc' = exc /\ wire' = wire /\ queue' = queue /\ outbox' = outbox
      /\ thread' = thread
  BY <1>2 DEF vars
<1>4. BaseInv' /\ RaisedOK'
  BY <1>1, <1>2, <1>3, SameRoutes DEF RaisedOK
<1>5. \A d \in Endpoints : \A state : FirstUnsent(d, state) => FirstUnsent(d, state)'
  BY <1>3 DEF FirstUnsent
<1>6. M2s' = M2s
  BY DEF M2s
<1>7. Rejected => Rejected'
  BY <1>2, <1>3 DEF Rejected, Raised
<1>8. ForgedOK => ForgedOK'
  BY <1>2, <1>3, <1>5, PairsApart DEF ForgedOK
<1>9. ModificationOK => ModificationOK'
  BY <1>2, <1>3 DEF ModificationOK
<1>10. CASE UNCHANGED attackVars
  <2>1. phase' = phase /\ captured' = captured /\ verdict' = verdict
    BY <1>10 DEF attackVars, scriptVars
  <2>2. ReplayOK => ReplayOK'
    BY <1>2, <1>3, <1>5, <1>6, <2>1, PairsApart DEF ReplayOK
  <2>3. RushingOK => RushingOK'
    BY <1>2, <1>3, <2>1 DEF RushingOK
  <2> QED  BY <1>1, <1>2, <1>4, <1>7, <1>8, <1>9, <2>1, <2>2, <2>3
           DEF AttackInv, ScriptOK, VerdictOK
<1>11. CASE LastReturns
  <2>1. /\ phase' = phase /\ captured' = captured
        /\ verdict' = IF Blocked THEN "blocked" ELSE "not blocked"
    BY <1>11 DEF LastReturns
  <2>2. ReplayOK => ReplayOK'
    BY <1>2, <1>3, <1>5, <1>6, <2>1, PairsApart DEF ReplayOK
  <2>3. RushingOK => RushingOK'
    BY <1>2, <1>3, <2>1 DEF RushingOK
  <2>4. verdict' = "blocked" => Rejected
    BY <1>1, <2>1, BlockedRejected
  <2> QED  BY <1>1, <1>2, <1>4, <1>7, <1>8, <1>9, <2>1, <2>2, <2>3, <2>4
           DEF AttackInv, ScriptOK, VerdictOK
<1>12. CASE FirstReturns
  <2>1. /\ verdict = "none" /\ script \in {"replay", "rushing"}
        /\ verdict' \in {"none", "not blocked", "AssertionError"}
        /\ phase' \in {"first", "second"}
        /\ script = "replay" => /\ captured' = captured
                                /\ captured = None => phase' = phase
        /\ script = "rushing" => captured' = BuiltFusion(First)
    BY <1>1, <1>12 DEF FirstReturns, TwoHandshakes, ScriptOK
  <2>2. script = "replay" => ReplayOK'
    BY <1>1, <1>2, <1>3, <1>5, <1>6, <2>1, PairsApart DEF ReplayOK, ScriptOK
  <2>3. script = "rushing" => RushingOK'
    BY <1>1, <1>2, <1>3, <2>1 DEF RushingOK, ScriptOK, BuiltFusion
  <2> QED  BY <1>1, <1>2, <1>4, <2>1, <2>2, <2>3 DEF AttackInv, ScriptOK, VerdictOK
<1> QED  BY <1>10, <1>11, <1>12

-----------------------------------------------------------------------------
(* The theorems. *)

\* The invariant holds where a script starts its first handshake.
LEMMA InitAttack ==
  ASSUME AttackInit
  PROVE  AttackInv
<1>1. /\ sess = [e \in Endpoints |-> NewSession] /\ wire = {} /\ exc = [e \in Endpoints |-> Ok]
      /\ thread = [e \in Endpoints |-> "running"] /\ queue = [e \in Endpoints |-> <<>>]
      /\ outbox = [e \in Endpoints |-> <<>>] /\ Init
      /\ script \in Scripts /\ phase = "first" /\ verdict = "none"
      /\ captured = None /\ count = 0
  BY DEF AttackInit, LiveInit, Init
<1>2. AgreementInv
  BY <1>1, InitFacts
<1>3. Announced
  BY <1>1 DEF Announced
<1>4. \A e \in Endpoints : /\ sess[e].state = "INIT" /\ sess[e].sid = None /\ sess[e].key = None
                           /\ exc[e] = Ok /\ thread[e] = "running"
                           /\ queue[e] = <<>> /\ outbox[e] = <<>>
  BY <1>1 DEF NewSession
<1>5. RoutesOK
  <2>1. /\ thread \in [Endpoints -> {"running", "done", "error"}]
        /\ outbox \in [Endpoints -> {<<>>} \cup {<<m>> : m \in wire}]
    BY <1>1
  <2>2. queue \in [Endpoints -> Seq(AttackTraffic)]
    <3> HIDE DEF AttackTraffic
    <3> QED  BY <1>1
  <2>3. \A e \in Endpoints : OutboxOK(e)
    BY <1>4 DEF OutboxOK
  <2>4. \A c \in Clients : ClientRoutes(c)
    BY <1>4 DEF ClientRoutes, Endpoints
  <2> QED  BY <1>4, <2>1, <2>2, <2>3, <2>4 DEF RoutesOK
<1>6. RaisedOK
  BY <1>4 DEF RaisedOK, Endpoints, Ok
<1>7. ReplayOK /\ ModificationOK /\ ForgedOK /\ RushingOK
  BY <1>1, <1>4, PairsApart
     DEF ReplayOK, ModificationOK, ForgedOK, RushingOK, FirstUnsent, Ok
<1>8. ScriptOK /\ VerdictOK
  BY <1>1, <1>7 DEF ScriptOK, VerdictOK
<1> QED  BY <1>2, <1>3, <1>5, <1>6, <1>8 DEF AttackInv, BaseInv

\* Every step of a script keeps it.
LEMMA NextAttack ==
  ASSUME AttackInv, [AttackNext]_attackVars
  PROVE  AttackInv'
BY WorkAttack, TransmitAttack, GiveUpAttack, MainAttack DEF AttackNext

\* The invariant holds of every behaviour of the scripts.
THEOREM AttackInvariance == AttackSpec => []AttackInv
<1>1. AttackInit => AttackInv
  BY InitAttack
<1>2. AttackInv /\ [AttackNext]_attackVars => AttackInv'
  BY NextAttack
<1> QED  BY <1>1, <1>2, PTL DEF AttackSpec

\* The sessions keep their types, and a hook that captures or counts does it
\* for the message it is meant for, whichever threads outlive a join, for
\* every set of handshakes (replay.py 55-59, 85-90, modification.py 55-59).
THEOREM AttackTypeCorrect == AttackSpec => []AttackTypeOK
<1>1. AttackInv => AttackTypeOK
  <2> SUFFICES ASSUME AttackInv PROVE AttackTypeOK
    OBVIOUS
  <2>1. TypeOK
    BY DEF AttackInv, BaseInv, AgreementInv, IndInv
  <2>2. ScriptOK /\ VerdictOK
    BY DEF AttackInv
  <2>3. script = "replay" => captured \in OrNone(M2s)
    BY <2>2 DEF ScriptOK, ReplayOK, OrNone
  <2>4. count \in 0..TargetIndex + 1
    BY <2>2 DEF ScriptOK, Scripts, ReplayOK, ModificationOK, ForgedOK, RushingOK, TargetIndex
  <2> QED  BY <2>1, <2>2, <2>3, <2>4 DEF AttackTypeOK, ScriptOK, VerdictOK
<1> QED  BY <1>1, AttackInvariance, PTL

\* No key is left where a session raised what a script looks for.
LEMMA RejectedHoldsNoKey ==
  ASSUME AttackInv, NEW s \in Servers,
         \/ Raised(s, "SessionIDMismatch") \/ Raised(s, "AEADError")
         \/ Raised(Peer[s], "AttestationError") \/ Raised(Peer[s], "RuntimeError")
  PROVE  \A e \in Pair(s) : sess[e].key = None
<1>1. BaseInv /\ RaisedOK /\ FactsOK /\ Peer[s] \in Clients
  BY PeerAssumption DEF AttackInv, BaseInv, AgreementInv
<1>2. sess[s].key # None => /\ sess[s].state \in {"M5_CREATED", "ESTABLISHED"}
                            /\ sess[Peer[s]].state \in {"M4_CREATED", "M5_VERIFIED", "ESTABLISHED"}
  BY <1>1, KeysOfPairs DEF ServerKeyed, Revealed
<1>3. sess[s].key = None
  BY <1>1, <1>2 DEF RaisedOK, Raised
<1>4. sess[Peer[s]].key = None
  BY <1>1, <1>3, KeysOfPairs
<1> QED  BY <1>3, <1>4 DEF Pair

\* A result with blocked=True is the truth, for every set of handshakes, any
\* number of faults and threads that outlive a join: the hook had done its
\* work and the attacked handshake has no key; for rushing, each server has
\* the key of its own client's and its own TEF (_harness.py 33-48).
THEOREM BlockedIsTrue == AttackSpec => []BlockedMeansRejected
<1>1. AttackInv => BlockedMeansRejected
  <2> SUFFICES ASSUME AttackInv, verdict = "blocked" PROVE BlockedMeansRejected
    BY DEF BlockedMeansRejected
  <2>1. BaseInv /\ ScriptOK /\ Rejected
    BY DEF AttackInv, VerdictOK
  <2>2. First \in Servers /\ Second \in Servers
    BY PairsApart
  <2>3. CASE script = "replay" /\ Raised(Second, "SessionIDMismatch")
    <3>1. count = TargetIndex + 1
      BY <2>1, <2>3 DEF ScriptOK, ReplayOK, Raised, TargetIndex
    <3> QED  BY <2>2, <2>3, <3>1, RejectedHoldsNoKey DEF BlockedMeansRejected, Attacked
  <2>4. CASE script = "modification" /\ Raised(First, "AEADError")
    <3>1. count = TargetIndex + 1
      BY <2>1, <2>4 DEF ScriptOK, ModificationOK, Raised, TargetIndex
    <3> QED  BY <2>2, <2>4, <3>1, RejectedHoldsNoKey DEF BlockedMeansRejected, Attacked
  <2>5. CASE script = "forged_attestation" /\ Raised(Peer[First], "AttestationError")
    <3>1. count = TargetIndex + 1
      BY <2>1, <2>5 DEF ScriptOK, ForgedOK, Raised, TargetIndex
    <3> QED  BY <2>2, <2>5, <3>1, RejectedHoldsNoKey DEF BlockedMeansRejected, Attacked
  <2>6. CASE script = "entropy_failure" /\ Raised(Peer[First], "RuntimeError")
    BY <2>2, <2>6, RejectedHoldsNoKey DEF BlockedMeansRejected, Attacked
  <2>7. CASE script = "rushing" /\ sess[First].key # None /\ sess[Second].key # None
    BY <2>1, <2>2, <2>7, KeysOfPairs DEF BlockedMeansRejected
  <2> QED  BY <2>1, <2>3, <2>4, <2>5, <2>6, <2>7 DEF Rejected
<1> QED  BY <1>1, AttackInvariance, PTL
================================================================================
