--------------------------- MODULE LiveHandshakeProofs ---------------------------
(***************************************************************************)
(* Proofs about LiveHandshake for every set of handshakes and any number of *)
(* faults: the threads and the network do to the sessions only what a       *)
(* caller of HandshakeSession does.                                         *)
(***************************************************************************)
EXTENDS LiveHandshake, HandshakeAgreementProofs

\* What a queue may hold: messages of the handlers, damaged or not, and bytes
\* that are no message.
Traffic == wire \cup {Malformed} \cup UNION {Damaged(m) : m \in wire}

\* The types, with what a queue holds.
TrafficOK ==
  /\ thread \in [Endpoints -> {"running", "done", "error"}]
  /\ queue \in [Endpoints -> Seq(Traffic)]
  /\ outbox \in [Endpoints -> {<<>>} \cup {<<m>> : m \in wire}]
  /\ faults \in 0..MaxFaults

LiveInv == AgreementInv /\ TrafficOK

-----------------------------------------------------------------------------
(* Decoding. *)

\* The fields tell the six messages apart, and bytes that are no message have
\* none: what deserialize_m* accepts is a message of its type (wire.py).
LEMMA DecodedType ==
  ASSUME wire \subseteq Messages, NEW m \in Traffic
  PROVE  \A type \in {"M1", "M2", "M3", "M4", "M5", "M6"} :
           Reads[type] \subseteq DOMAIN m => m \in Inbound(type)
<1>1. \A n \in Messages : \A d \in Damaged(n) : d.type = n.type /\ DOMAIN d = DOMAIN n
  BY DEF Damaged, Messages, M1s, M2s, M3s, M4s, M5s, M6s
<1>2. CASE m = Malformed
  BY <1>2 DEF Malformed, Reads
<1>3. CASE m \in wire
  BY <1>3 DEF Reads, Inbound, Messages, M1s, M2s, M3s, M4s, M5s, M6s
<1>4. CASE \E n \in wire : m \in Damaged(n)
  <2>1. PICK n \in wire : m \in Damaged(n)
    BY <1>4
  <2>2. \A type \in {"M1", "M2", "M3", "M4", "M5", "M6"} :
          Reads[type] \subseteq DOMAIN n => n.type = type
    BY DEF Reads, Messages, M1s, M2s, M3s, M4s, M5s, M6s
  <2> QED  BY <1>1, <2>1, <2>2 DEF Inbound
<1> QED  BY <1>2, <1>3, <1>4 DEF Traffic

\* A handler that is called with what its thread decoded is called with a
\* message of the type it expects, as some handler returned it or damaged.
LEMMA HandleCalls ==
  ASSUME IndInv, NEW e \in Endpoints, NEW m \in Traffic, Decodes(e, m), CallHandler(e, m)
  PROVE  \/ m \in Inbound("M1") /\ ProcessM1(e, m)
         \/ m \in Inbound("M2") /\ ProcessM2(e, m)
         \/ m \in Inbound("M3") /\ ProcessM3(e, m)
         \/ m \in Inbound("M4") /\ ProcessM4(e, m)
         \/ m \in Inbound("M5") /\ ProcessM5(e, m)
         \/ m \in Inbound("M6") /\ ProcessM6(e, m)
<1>1. wire \subseteq Messages
  BY DEF IndInv, TypeOK
<1>2. \A type \in {"M1", "M2", "M3", "M4", "M5", "M6"} :
        Expected[sess[e].state] = type => m \in Inbound(type)
  BY <1>1, DecodedType DEF Decodes
<1>3. CASE ProcessM1(e, m)
  BY <1>2, <1>3 DEF ProcessM1, Expected
<1>4. CASE ProcessM2(e, m)
  BY <1>2, <1>4 DEF ProcessM2, Expected
<1>5. CASE ProcessM3(e, m)
  BY <1>2, <1>5 DEF ProcessM3, Expected
<1>6. CASE ProcessM4(e, m)
  BY <1>2, <1>6 DEF ProcessM4, Expected
<1>7. CASE ProcessM5(e, m)
  BY <1>2, <1>7 DEF ProcessM5, Expected
<1>8. CASE ProcessM6(e, m)
  BY <1>2, <1>8 DEF ProcessM6, Expected
<1> QED  BY <1>3, <1>4, <1>5, <1>6, <1>7, <1>8 DEF CallHandler

\* The head of a queue that is not empty.
LEMMA HeadTraffic ==
  ASSUME TrafficOK, NEW e \in Endpoints, queue[e] # <<>>
  PROVE  /\ Head(queue[e]) \in Traffic
         /\ Tail(queue[e]) \in Seq(Traffic)
BY DEF TrafficOK

\* Every step of a thread or of the network is a handler call or leaves the
\* sessions alone.
LEMMA LiveStep ==
  ASSUME IndInv, TrafficOK, [LiveNext]_liveVars
  PROVE  [Next]_vars
<1>1. CASE UNCHANGED liveVars
  BY <1>1 DEF liveVars
<1>2. CASE LiveNext
  <2>1. PICK e \in Endpoints :
          \/ Start(e) \/ Handle(e) \/ Undecodable(e) \/ Timeout(e)
          \/ Deliver(e) \/ Drop(e) \/ Duplicate(e) \/ Modify(e) \/ SendFails(e) \/ Replay(e)
    BY <1>2 DEF LiveNext
  <2>2. CASE Start(e)
    BY <2>2 DEF Start, Next
  <2>3. CASE Handle(e)
    <3> DEFINE m == Head(queue[e])
    <3>1. m \in Traffic /\ Decodes(e, m) /\ CallHandler(e, m)
      BY <2>3, HeadTraffic DEF Handle, Respond
    <3> HIDE DEF m
    <3> QED  BY <3>1, HandleCalls DEF Next
  <2>4. CASE \/ Undecodable(e) \/ Timeout(e) \/ Duplicate(e) \/ SendFails(e) \/ Replay(e)
    BY <2>4 DEF Undecodable, Timeout, Duplicate, SendFails, Replay
  <2>5. CASE Deliver(e) \/ Drop(e) \/ Modify(e)
    BY <2>5 DEF Deliver, Drop, Modify, Sent
  <2> QED  BY <2>1, <2>2, <2>3, <2>4, <2>5
<1> QED  BY <1>1, <1>2
-----------------------------------------------------------------------------
(* The types. *)

\* What a queue may hold before a step it may hold after it.
LEMMA TrafficGrows ==
  ASSUME wire \subseteq wire'
  PROVE  Traffic \subseteq Traffic' /\ Seq(Traffic) \subseteq Seq(Traffic')
<1>1. Traffic \subseteq Traffic'
  BY DEF Traffic, Damaged, Malformed
<1> QED  BY <1>1

\* No step takes back a message.
LEMMA WireGrows ==
  ASSUME [Next]_vars
  PROVE  wire \subseteq wire'
<1>1. \A e, s, m : Return(e, s, m) => wire \subseteq wire'
  BY DEF Return
<1>2. \A e, s, x : Raise(e, s, x) => wire \subseteq wire'
  BY DEF Raise
<1>3. \A e : CreateM1(e) => wire \subseteq wire'
  BY <1>1, <1>2 DEF CreateM1
<1>4. \A e, m : ProcessM1(e, m) => wire \subseteq wire'
  BY <1>1, <1>2 DEF ProcessM1
<1>5. \A e, m : ProcessM2(e, m) => wire \subseteq wire'
  BY <1>1, <1>2 DEF ProcessM2
<1>6. \A e, m : ProcessM3(e, m) => wire \subseteq wire'
  BY <1>1, <1>2 DEF ProcessM3
<1>7. \A e, m : ProcessM4(e, m) => wire \subseteq wire'
  BY <1>1, <1>2 DEF ProcessM4
<1>8. \A e, m : ProcessM5(e, m) => wire \subseteq wire'
  BY <1>1, <1>2 DEF ProcessM5
<1>9. \A e, m : ProcessM6(e, m) => wire \subseteq wire'
  BY <1>1, <1>2 DEF ProcessM6
<1> QED  BY <1>3, <1>4, <1>5, <1>6, <1>7, <1>8, <1>9 DEF Next, vars, OutOfSequence
\* What the network puts into a queue is traffic.
LEMMA EnqueueTraffic ==
  ASSUME TrafficOK, wire \subseteq wire', NEW e \in Endpoints, NEW ms \in Seq(Traffic),
         Enqueue(e, ms)
  PROVE  queue' \in [Endpoints -> Seq(Traffic)']
<1>1. queue' \in [Endpoints -> Seq(Traffic)]
  BY DEF TrafficOK, Enqueue
<1> QED  BY <1>1, TrafficGrows

\* What the hooks make of a message in an outbox is traffic.
LEMMA OutboxTraffic ==
  ASSUME TrafficOK, NEW e \in Endpoints, outbox[e] # <<>>
  PROVE  /\ outbox[e] \in Seq(Traffic)
         /\ \A m \in {outbox[e][1]} \cup Altered(outbox[e][1]) : <<m>> \in Seq(Traffic)
<1>1. PICK m \in wire : outbox[e] = <<m>>
  BY DEF TrafficOK
<1>2. {m} \cup Altered(m) \subseteq Traffic
  BY DEF Altered, Traffic
<1> QED  BY <1>1, <1>2

\* A handler returns no message or one that is on the wire.
LEMMA ReturnedTraffic ==
  ASSUME TrafficOK, wire \subseteq wire', NEW e \in Endpoints, Outcome(e)
  PROVE  outbox' \in [Endpoints -> {<<>>} \cup {<<m>> : m \in wire'}]
<1>1. Returned \in {<<>>} \cup {<<m>> : m \in wire'}
  BY DEF Returned
<1> QED  BY <1>1 DEF TrafficOK, Outcome

\* A thread is still running, or done, or it failed.
LEMMA ThreadTraffic ==
  ASSUME TrafficOK, NEW e \in Endpoints,
         \/ ThreadAfterHandler(e) \/ ThreadAfterSend(e)
         \/ thread' = [thread EXCEPT ![e] = "error"]
         \/ UNCHANGED thread
  PROVE  thread' \in [Endpoints -> {"running", "done", "error"}]
BY DEF TrafficOK, ThreadAfterHandler, ThreadAfterSend

\* Every step keeps the types.
LEMMA NextTraffic ==
  ASSUME IndInv, TrafficOK, [LiveNext]_liveVars
  PROVE  TrafficOK'
<1>1. wire \subseteq wire'
  BY LiveStep, WireGrows
<1>2. \A q \in [Endpoints -> Seq(Traffic)] : q \in [Endpoints -> Seq(Traffic)']
  BY <1>1, TrafficGrows
<1>3. \A o : o \in [Endpoints -> {<<>>} \cup {<<m>> : m \in wire}] =>
             o \in [Endpoints -> {<<>>} \cup {<<m>> : m \in wire'}]
  BY <1>1
<1>4. faults > 0 => faults - 1 \in 0..MaxFaults
  BY FaultsAssumption DEF TrafficOK
<1>5. CASE UNCHANGED liveVars
  BY <1>2, <1>3, <1>5 DEF liveVars, TrafficOK
<1>6. CASE LiveNext
  <2>1. PICK e \in Endpoints :
          \/ Start(e) \/ Handle(e) \/ Undecodable(e) \/ Timeout(e)
          \/ Deliver(e) \/ Drop(e) \/ Duplicate(e) \/ Modify(e) \/ SendFails(e) \/ Replay(e)
    BY <1>6 DEF LiveNext
  <2>2. Peer[e] \in Endpoints
    BY PeerAssumption
  <2>3. queue[e] # <<>> => [queue EXCEPT ![e] = Tail(@)] \in [Endpoints -> Seq(Traffic)]
    BY HeadTraffic DEF TrafficOK
  <2>4. [outbox EXCEPT ![e] = <<>>] \in [Endpoints -> {<<>>} \cup {<<m>> : m \in wire'}]
    BY <1>3 DEF TrafficOK
  <2>5. CASE Start(e)
    BY <1>1, <1>2, <2>5, ThreadTraffic, ReturnedTraffic DEF Start, Outcome, TrafficOK
  <2>6. CASE Handle(e)
    BY <1>1, <1>2, <1>4, <2>3, <2>6, ThreadTraffic, ReturnedTraffic
       DEF Handle, Respond, EntropyFault, Outcome, TrafficOK
  <2>7. CASE Undecodable(e)
    BY <1>2, <1>3, <2>3, <2>7, ThreadTraffic DEF Undecodable, TrafficOK
  <2>8. CASE Timeout(e)
    BY <1>2, <1>3, <1>4, <2>8, ThreadTraffic DEF Timeout, TrafficOK
  <2>9. CASE Deliver(e)
    BY <1>1, <2>2, <2>4, <2>9, ThreadTraffic, EnqueueTraffic, OutboxTraffic
       DEF Deliver, Sent, TrafficOK
  <2>10. CASE Drop(e)
    BY <1>2, <1>4, <2>4, <2>10, ThreadTraffic DEF Drop, Sent, TrafficOK
  <2>11. CASE Duplicate(e)
    BY <1>1, <1>3, <1>4, <2>2, <2>11, EnqueueTraffic, OutboxTraffic DEF Duplicate, TrafficOK
  <2>12. CASE Modify(e)
    BY <1>1, <1>4, <2>2, <2>4, <2>12, ThreadTraffic, EnqueueTraffic, OutboxTraffic
       DEF Modify, Sent, TrafficOK
  <2>13. CASE SendFails(e)
    BY <1>2, <1>4, <2>4, <2>13, ThreadTraffic DEF SendFails, TrafficOK
  <2>14. CASE Replay(e)
    <3>1. \A m \in wire : <<m>> \in Seq(Traffic)
      BY DEF Traffic
    <3> QED  BY <1>1, <1>3, <1>4, <2>14, <3>1, EnqueueTraffic DEF Replay, TrafficOK
  <2> QED  BY <2>1, <2>5, <2>6, <2>7, <2>8, <2>9, <2>10, <2>11, <2>12, <2>13, <2>14
<1> QED  BY <1>5, <1>6

\* No thread has started.
LEMMA InitLive ==
  ASSUME LiveInit
  PROVE  LiveInv
BY InitFacts, FaultsAssumption DEF LiveInit, LiveInv, TrafficOK

\* Every step keeps the invariant of the sessions and the types.
LEMMA NextLive ==
  ASSUME LiveInv, [LiveNext]_liveVars
  PROVE  LiveInv' /\ [Next]_vars
BY LiveStep, NextTraffic, NextFacts DEF LiveInv, AgreementInv

\* The invariant holds of every behaviour of the threads.
THEOREM LiveInvariance == LiveSpec => []LiveInv
<1>1. LiveInit => LiveInv
  BY InitLive
<1>2. LiveInv /\ [LiveNext]_liveVars => LiveInv'
  BY NextLive
<1> QED  BY <1>1, <1>2, PTL DEF LiveSpec

\* The threads and the network do to the sessions only what a caller of
\* HandshakeSession does, for every set of handshakes and any number of
\* faults, so every theorem about HandshakeSession holds here (session.py 4-6).
THEOREM ThreadsAreCallers == LiveSpec => SessionSpec
<1>1. LiveInit => Init
  BY DEF LiveInit
<1>2. LiveInv /\ [LiveNext]_liveVars => [Next]_vars
  BY NextLive
<1> QED  BY <1>1, <1>2, LiveInvariance, PTL DEF LiveSpec, Spec, SessionSpec

-----------------------------------------------------------------------------
(* Where threads end. *)

\* A thread that has not failed has had no exception, one that is done has
\* established its session, and an established session holds no secret.
EndedOK ==
  \A e \in Endpoints :
    /\ thread[e] # "error" => exc[e] = Ok
    /\ thread[e] = "done" => sess[e].state = "ESTABLISHED"
    /\ sess[e].state = "ESTABLISHED" /\ exc[e] = Ok => Erased(sess[e])

\* A thread that calls a handler.
LEMMA ThreadCalls ==
  ASSUME LiveInv, NEW e \in Endpoints, Start(e) \/ Handle(e)
  PROVE  HandlerCall(e) /\ thread[e] = "running" /\ ThreadAfterHandler(e)
<1>1. CASE Start(e)
  BY <1>1 DEF Start, Outcome, HandlerCall
<1>2. CASE Handle(e)
  <2> DEFINE m == Head(queue[e])
  <2>1. /\ m \in Traffic /\ Decodes(e, m) /\ CallHandler(e, m) /\ IndInv
        /\ thread[e] = "running" /\ ThreadAfterHandler(e)
    BY <1>2, HeadTraffic DEF Handle, Respond, Receiving, Outcome, LiveInv, AgreementInv
  <2> HIDE DEF m
  <2> QED  BY <2>1, HandleCalls DEF HandlerCall
<1> QED  BY <1>1, <1>2

\* Every step keeps what is known of threads that have ended.
LEMMA NextEnded ==
  ASSUME LiveInv, EndedOK, [LiveNext]_liveVars
  PROVE  EndedOK'
<1>1. thread \in [Endpoints -> {"running", "done", "error"}]
  BY DEF LiveInv, TrafficOK
<1>2. \A e \in Endpoints : thread[e] = "running" => exc[e] = Ok
  BY DEF EndedOK
<1>3. CASE UNCHANGED liveVars
  BY <1>3 DEF liveVars, vars, EndedOK
<1>4. CASE LiveNext
  <2>1. PICK e \in Endpoints :
          \/ Start(e) \/ Handle(e) \/ Undecodable(e) \/ Timeout(e)
          \/ Deliver(e) \/ Drop(e) \/ Duplicate(e) \/ Modify(e) \/ SendFails(e) \/ Replay(e)
    BY <1>4 DEF LiveNext
  <2>2. CASE Start(e) \/ Handle(e)
    <3>1. HandlerCall(e) /\ thread[e] = "running" /\ ThreadAfterHandler(e)
      BY <2>2, ThreadCalls
    <3>2. /\ \A d \in Endpoints \ {e} : sess'[d] = sess[d] /\ exc'[d] = exc[d]
          /\ sess'[e].state = "ESTABLISHED" /\ exc'[e] = Ok => Erased(sess'[e])
      BY <3>1, HandlerErases DEF LiveInv, Kept, Wiped, Erased
    <3>3. \A d \in Endpoints \ {e} : thread'[d] = thread[d]
      BY <1>1, <3>1 DEF ThreadAfterHandler
    <3>4. /\ thread'[e] # "error" => exc'[e] = Ok
          /\ thread'[e] = "done" => sess'[e].state = "ESTABLISHED"
      BY <1>1, <3>1 DEF ThreadAfterHandler
    <3> QED  BY <3>2, <3>3, <3>4 DEF EndedOK
  <2>3. CASE Undecodable(e) \/ Timeout(e) \/ SendFails(e)
    <3>1. sess' = sess /\ exc' = exc /\ thread' = [thread EXCEPT ![e] = "error"]
      BY <2>3 DEF Undecodable, Timeout, SendFails, vars
    <3> QED  BY <1>1, <3>1 DEF EndedOK
  <2>4. CASE Deliver(e) \/ Drop(e) \/ Modify(e)
    <3>1. sess' = sess /\ exc' = exc /\ ThreadAfterSend(e)
      BY <2>4 DEF Deliver, Drop, Modify, Sent, vars
    <3>2. e \in Clients /\ sess[e].state = "ESTABLISHED" => exc[e] = Ok
      BY DEF LiveInv, AgreementInv, FactsOK, ClientFacts, ClientKeyed
    <3> QED  BY <1>1, <3>1, <3>2 DEF EndedOK, ThreadAfterSend
  <2>5. CASE Duplicate(e) \/ Replay(e)
    <3>1. sess' = sess /\ exc' = exc /\ thread' = thread
      BY <2>5 DEF Duplicate, Replay, vars
    <3> QED  BY <3>1 DEF EndedOK
  <2> QED  BY <2>1, <2>2, <2>3, <2>4, <2>5
<1> QED  BY <1>3, <1>4

\* A step that changes a session or the wire is a handler call.
LEMMA StepCalls ==
  ASSUME LiveInv, [LiveNext]_liveVars
  PROVE  (wire' = wire /\ sess' = sess) \/ \E e \in Endpoints : HandlerCall(e)
<1>1. ASSUME NEW e \in Endpoints, Start(e) \/ Handle(e)
      PROVE  HandlerCall(e)
  BY <1>1, ThreadCalls
<1>2. ASSUME NEW e \in Endpoints,
             \/ Undecodable(e) \/ Timeout(e) \/ Deliver(e) \/ Drop(e) \/ Duplicate(e)
             \/ Modify(e) \/ SendFails(e) \/ Replay(e)
      PROVE  wire' = wire /\ sess' = sess
  BY <1>2 DEF Undecodable, Timeout, Deliver, Drop, Duplicate, Modify, SendFails, Replay, Sent, vars
<1> QED  BY <1>1, <1>2 DEF LiveNext, liveVars, vars

\* Every step announces what it puts on the wire.
LEMMA NextAnnounced ==
  ASSUME LiveInv, Announced, [LiveNext]_liveVars
  PROVE  Announced'
<1>1. wire' = wire /\ sess' = sess => Announced'
  BY DEF Announced
<1> QED  BY <1>1, StepCalls, CallAnnounced DEF LiveInv

\* Every step leaves the clients trusting only the key they were given.
LEMMA NextTrusting ==
  ASSUME LiveInv, Announced, Trusting, [LiveNext]_liveVars
  PROVE  Trusting'
<1>1. wire' = wire /\ sess' = sess => Trusting'
  BY DEF Trusting
<1> QED  BY <1>1, StepCalls, CallTrusting DEF LiveInv

LiveEndInv == LiveInv /\ EndedOK /\ Announced /\ Trusting

\* What holds of threads that have ended holds of every behaviour.
THEOREM EndedInvariance == LiveSpec => []LiveEndInv
<1>1. LiveInit => LiveEndInv
  <2> SUFFICES ASSUME LiveInit
               PROVE  LiveEndInv
    OBVIOUS
  <2>1. EndedOK
    BY DEF LiveInit, Init, EndedOK, NewSession
  <2>2. Announced /\ Trusting
    BY InitIntroduced DEF LiveInit
  <2> QED  BY <2>1, <2>2, InitLive DEF LiveEndInv
<1>2. LiveEndInv /\ [LiveNext]_liveVars => LiveEndInv'
  BY NextLive, NextEnded, NextAnnounced, NextTrusting DEF LiveEndInv
<1> QED  BY <1>1, <1>2, PTL DEF LiveSpec

\* Handshakes whose servers have a signing key each, as run_live_handshake and
\* the CLI make them: the server's quiet end alone means that both sides hold
\* one verified key and no secret, and the client's alone means that its server
\* holds its key, whatever became of M6 (session.py 129-135, 183-199,
\* _harness.py 61, 85-120).
THEOREM DoneConfirmed ==
  ASSUME OwnKeys
  PROVE  LiveSpec => []DoneMeansConfirmed
<1>1. ASSUME LiveEndInv
      PROVE  DoneMeansConfirmed
  <2>1. ASSUME NEW d \in Endpoints, thread[d] = "done"
        PROVE  sess[d].state = "ESTABLISHED" /\ exc[d] = Ok /\ Erased(sess[d])
    BY <1>1, <2>1 DEF LiveEndInv, EndedOK
  <2>2. ASSUME NEW c \in Clients, NEW s \in Servers, ClientKeyed(c, s)
        PROVE  /\ s = Peer[c] /\ c = Peer[s]
               /\ sess[c].key = sess[s].key /\ sess[s].key # None
    <3>1. ServerKey[c] = ServerKey[s]
      BY <1>1, <2>2, KeyedAndTrusted DEF LiveEndInv
    <3>2. Peer[c] \in Servers /\ Peer[Peer[c]] = c /\ ServerKey[Peer[c]] = ServerKey[c]
      BY PeerAssumption DEF Endpoints
    <3>3. Peer[c] = s
      BY <3>1, <3>2 DEF OwnKeys
    <3> QED  BY <2>2, <3>2, <3>3, KeyInjective DEF ClientKeyed, ServerKeyed
  <2>3. ASSUME NEW s \in Servers, thread[s] = "done"
        PROVE  Agreed(s)
    <3>1. sess[s].state = "ESTABLISHED" /\ exc[s] = Ok /\ Erased(sess[s])
      BY <2>1, <2>3 DEF Endpoints
    <3>2. PICK c \in Clients : ClientKeyed(c, s)
      BY <1>1, <3>1 DEF LiveEndInv, LiveInv, AgreementInv, FactsOK, ServerFacts
    <3>3. sess[c].state = "ESTABLISHED" /\ exc[c] = Ok
      BY <3>2 DEF ClientKeyed
    <3>4. Erased(sess[c])
      BY <1>1, <3>3 DEF LiveEndInv, EndedOK, Endpoints
    <3>5. c = Peer[s] /\ sess[c].key = sess[s].key /\ sess[s].key # None
      BY <2>2, <3>2
    <3> QED  BY <3>1, <3>3, <3>4, <3>5 DEF Agreed
  <2>4. ASSUME NEW c \in Clients, thread[c] = "done"
        PROVE  sess[c].key # None /\ sess[c].key = sess[Peer[c]].key
    <3>1. sess[c].state = "ESTABLISHED"
      BY <2>1, <2>4 DEF Endpoints
    <3>2. PICK s \in Servers : ClientKeyed(c, s)
      BY <1>1, <3>1 DEF LiveEndInv, LiveInv, AgreementInv, FactsOK, ClientFacts
    <3> QED  BY <2>2, <3>2
  <2> QED  BY <2>1, <2>3, <2>4 DEF DoneMeansConfirmed, Endpoints
<1> QED  BY <1>1, EndedInvariance, PTL

\* If both threads of such a handshake end without an exception, its sessions
\* agree: they hold one key, verified and with all secrets erased, however many
\* faults the network made and whatever it carried from one handshake to
\* another (session.py 203-210, _harness.py 61, 85-138).
THEOREM QuietAgreed ==
  ASSUME OwnKeys
  PROVE  LiveSpec => []QuietMeansAgreed
<1>1. ASSUME DoneMeansConfirmed
      PROVE  QuietMeansAgreed
  <2>1. ASSUME NEW s \in Servers, thread[s] = "done"
        PROVE  Agreed(s) /\ Agreed(Peer[s])
    <3>1. Peer[s] \in Endpoints /\ Peer[Peer[s]] = s
      BY PeerAssumption DEF Endpoints
    <3>2. Agreed(s)
      BY <1>1, <2>1 DEF DoneMeansConfirmed, Endpoints
    <3> QED  BY <3>1, <3>2 DEF Agreed
  <2>2. \A c \in Clients : Peer[c] \in Servers /\ Peer[Peer[c]] = c
    BY PeerAssumption DEF Endpoints
  <2> QED  BY <2>1, <2>2 DEF QuietMeansAgreed, Endpoints
<1> QED  BY <1>1, DoneConfirmed, PTL

-----------------------------------------------------------------------------
(* A handshake no fault has touched.                                         *)

\* The message m of p is on its way to the other side, and nothing else is.
Carries(p, m) ==
  LET q == Peer[p]
  IN /\ outbox[q] = <<>> /\ queue[p] = <<>>
     /\ \/ outbox[p] = <<m>> /\ queue[q] = <<>>
        \/ outbox[p] = <<>> /\ queue[q] = <<m>>

NothingMoves(s, c) ==
  outbox[s] = <<>> /\ outbox[c] = <<>> /\ queue[s] = <<>> /\ queue[c] = <<>>

\* Client c has answered the M1 of server s.
Answered(c, s) ==
  LET h == sess[c]
  IN /\ h.state = "M2_CREATED" /\ h.sid = Sid(s) /\ h.th = TH2Of(s, M2Of(c, s))
     /\ h.ss = SharedSecret(c, Pk(s)) /\ h.tefc = Tef(c)
     /\ h.commitC = Commit(Tef(c), Sid(s))

\* The states of a handshake of server s and client c, in their order.
NotStarted(s, c) ==
  sess[s].state = "INIT" /\ sess[c].state = "INIT" /\ NothingMoves(s, c)
SentM1(s, c) ==
  /\ sess[s].state = "M1_CREATED" /\ sess[c].state = "INIT"
  /\ Carries(s, M1(Sid(s), Pk(s), ServerKey[s]))
SentM2(s, c) ==
  sess[s].state = "M1_CREATED" /\ Answered(c, s) /\ Carries(c, M2Of(c, s))
SentM3(s, c) ==
  /\ sess[s].state = "M3_CREATED" /\ Committed(s, M2Of(c, s)) /\ Answered(c, s)
  /\ Carries(s, AgreedM3(s, c))
SentM4(s, c) ==
  /\ sess[s].state = "M3_CREATED"
  /\ sess[c].state = "M4_CREATED" /\ Revealed(c, s, AgreedM3(s, c))
  /\ Carries(c, M4Of(c, s, AgreedM3(s, c)))
SentM5(s, c) ==
  /\ sess[s].state = "M5_CREATED" /\ sess[c].state = "M4_CREATED" /\ ServerKeyed(s, c)
  /\ Carries(s, M5Of(s, c))
SentM6(s, c) ==
  sess[s].state = "M5_CREATED" /\ ClientKeyed(c, s) /\ Carries(c, M6Of(s, c))
Finished(s, c) ==
  sess[s].state = "ESTABLISHED" /\ sess[c].state = "ESTABLISHED" /\ NothingMoves(s, c)

\* Both threads go on, or have ended as they should.
BothWell(s, c) ==
  /\ exc[s] = Ok /\ exc[c] = Ok
  /\ thread[s] = IF sess[s].state = "ESTABLISHED" THEN "done" ELSE "running"
  /\ thread[c] = IF sess[c].state = "ESTABLISHED" /\ outbox[c] = <<>> THEN "done" ELSE "running"

Calm(s, c) ==
  /\ BothWell(s, c)
  /\ \/ NotStarted(s, c) \/ SentM1(s, c) \/ SentM2(s, c) \/ SentM3(s, c)
     \/ SentM4(s, c) \/ SentM5(s, c) \/ SentM6(s, c) \/ Finished(s, c)

\* Without a fault every handshake is where it should be.
CalmOK ==
  Announced /\ (faults = MaxFaults => \A s \in Servers : Calm(s, Peer[s]))

-----------------------------------------------------------------------------
(* A message that is returned for the first time. *)

\* A session has not yet returned what its state will make it return next.
LEMMA NotYetReturned ==
  ASSUME AgreementInv, Announced, NEW s \in Servers, NEW c \in Clients
  PROVE  /\ sess[s].state = "INIT" => M1(Sid(s), Pk(s), ServerKey[s]) \notin wire
         /\ sess[c].state = "INIT" => M2Of(c, s) \notin wire
         /\ sess[s].state = "M1_CREATED" => AgreedM3(s, c) \notin wire
         /\ sess[c].state = "M2_CREATED" => M4Of(c, s, AgreedM3(s, c)) \notin wire
         /\ sess[s].state = "M3_CREATED" => M5Of(s, c) \notin wire
         /\ sess[c].state = "M4_CREATED" => M6Of(s, c) \notin wire
<1>1. s \in Endpoints /\ c \in Endpoints
  BY DEF Endpoints
<1>2. M2Of(c, s).type = "M2" /\ M2Of(c, s).ct[2] = c
  BY DEF M2Of, M2, Ciphertext
<1>3. SessionKeyOf(s, c)[3][2] = Tef(c)
  BY KeyInjective
<1> QED  BY <1>1, <1>2, <1>3, NotYetSaid
         DEF M1Of, AgreedM3, M4Of, M5Of, WrapOf, M6Of

-----------------------------------------------------------------------------
(* The exceptions a handler has a reason for. *)

\* A handler whose checks pass raises nothing, but what an entropy source
\* without a good sample makes process_m1 and process_m2 raise.
LEMMA ProcessM1Passes ==
  ASSUME NEW e \in Clients, NEW m, ProcessM1(e, m), VerifyM1(m, ServerKey[e]) = Ok
  PROVE  exc' = exc \/ exc' = [exc EXCEPT ![e] = "RuntimeError"]
<1>1. e \notin Servers
  BY RolesAssumption
<1> QED  BY <1>1 DEF ProcessM1, Raise, Return

\* A server with its keys raises nothing on a verified M2, but what an entropy
\* source without a good sample makes it raise.
LEMMA ProcessM2Passes ==
  ASSUME IndInv, NEW e \in Servers, NEW m, ProcessM2(e, m),
         VerifyM2(m, sess[e].sid) = Ok, sess[e].skS # None
  PROVE  exc' = exc \/ exc' = [exc EXCEPT ![e] = "RuntimeError"]
<1> DEFINE s1 == [sess[e] EXCEPT !.state = Advance(e, @)]
<1>1. sess[e] \in Session
  BY DEF IndInv, TypeOK, Endpoints
<1>2. s1.sid = sess[e].sid /\ s1.skS = sess[e].skS
  BY <1>1 DEF Session
<1> QED  BY <1>2 DEF ProcessM2, Raise, Return

\* A client raises nothing on a verified M3.
LEMMA ProcessM3Passes ==
  ASSUME IndInv, NEW e \in Clients, NEW m, ProcessM3(e, m),
         sess[e].ss # None, VerifyM3(m, sess[e].ss, sess[e].th) = Ok
  PROVE  exc' = exc
<1> DEFINE s1 == [sess[e] EXCEPT !.state = Advance(e, @)]
<1>1. sess[e] \in Session
  BY DEF IndInv, TypeOK, Endpoints
<1>2. s1.ss = sess[e].ss /\ s1.th = sess[e].th
  BY <1>1 DEF Session
<1> QED  BY <1>2 DEF ProcessM3, Raise, Return

\* A server raises nothing on a verified M4.
LEMMA ProcessM4Passes ==
  ASSUME IndInv, NEW e \in Servers, NEW m, ProcessM4(e, m), sess[e].ss # None,
         VerifyM4(m, sess[e].ss, sess[e].commitC, sess[e].sid, sess[e].th) = Ok
  PROVE  exc' = exc
<1> DEFINE s1 == [sess[e] EXCEPT !.state = Advance(e, @)]
<1>1. sess[e] \in Session
  BY DEF IndInv, TypeOK, Endpoints
<1>2. /\ s1.ss = sess[e].ss /\ s1.th = sess[e].th /\ s1.commitC = sess[e].commitC
      /\ s1.sid = sess[e].sid
  BY <1>1 DEF Session
<1> QED  BY <1>2 DEF ProcessM4, Raise, Return

\* A client raises nothing on a verified M5.
LEMMA ProcessM5Passes ==
  ASSUME IndInv, NEW e \in Clients, NEW m, ProcessM5(e, m), VerifyM5(m, sess[e]) = Ok
  PROVE  exc' = exc
<1> DEFINE s1 == [sess[e] EXCEPT !.state = Advance(e, @)]
<1>1. sess[e] \in Session
  BY DEF IndInv, TypeOK, Endpoints
<1>2. /\ s1.ss = sess[e].ss /\ s1.th = sess[e].th /\ s1.commitS = sess[e].commitS
      /\ s1.sid = sess[e].sid /\ s1.tefc = sess[e].tefc
  BY <1>1 DEF Session
<1>3. VerifyM5(m, s1) = VerifyM5(m, sess[e])
  <2> HIDE DEF s1
  <2> QED  BY <1>2 DEF VerifyM5, KeyFromM5
<1> QED  BY <1>3 DEF ProcessM5, Raise, Return

\* A server raises nothing on a verified M6.
LEMMA ProcessM6Passes ==
  ASSUME IndInv, NEW e \in Servers, NEW m, ProcessM6(e, m),
         VerifyM6(m, sess[e].key, sess[e].m5, sess[e].th) = Ok
  PROVE  exc' = exc
<1> DEFINE s1 == [sess[e] EXCEPT !.state = Advance(e, @)]
<1>1. sess[e] \in Session
  BY DEF IndInv, TypeOK, Endpoints
<1>2. s1.key = sess[e].key /\ s1.m5 = sess[e].m5 /\ s1.th = sess[e].th
  BY <1>1 DEF Session
<1> QED  BY <1>2 DEF ProcessM6, Raise, Return

-----------------------------------------------------------------------------
(* A step without a fault. *)

\* The two sides of a handshake.
LEMMA PairOf ==
  ASSUME NEW s \in Servers
  PROVE  /\ Peer[s] \in Clients /\ Peer[Peer[s]] = s
         /\ s \in Endpoints /\ Peer[s] \in Endpoints
         /\ s # Peer[s] /\ s \notin Clients /\ Peer[s] \notin Servers
         /\ ServerKey[Peer[s]] = ServerKey[s]
BY PeerAssumption, RolesAssumption DEF Endpoints

\* What a step of e leaves of another handshake, or of one that waits.
Untouched(s, c) ==
  \A e \in {s, c} : /\ sess'[e] = sess[e] /\ exc'[e] = exc[e] /\ thread'[e] = thread[e]
                    /\ outbox'[e] = outbox[e] /\ queue'[e] = queue[e]

\* Without a fault a thread starts, calls a handler, fails to decode, waits
\* in vain, or its message is delivered.
LEMMA FaultlessStep ==
  ASSUME LiveInv, LiveNext, faults' = faults
  PROVE  \E e \in Endpoints :
           \/ Start(e) \/ Handle(e) \/ Undecodable(e) \/ Deliver(e)
           \/ Timeout(e) /\ Starved(e)
<1>1. faults # faults - 1
  BY FaultsAssumption DEF LiveInv, TrafficOK
<1>2. PICK e \in Endpoints :
        \/ Start(e) \/ Handle(e) \/ Undecodable(e) \/ Timeout(e)
        \/ Deliver(e) \/ Drop(e) \/ Duplicate(e) \/ Modify(e) \/ SendFails(e) \/ Replay(e)
  BY DEF LiveNext
<1>3. ~(Drop(e) \/ Duplicate(e) \/ Modify(e) \/ SendFails(e) \/ Replay(e))
  BY <1>1 DEF Drop, Duplicate, Modify, SendFails, Replay
<1>4. Timeout(e) => Starved(e)
  BY <1>1 DEF Timeout
<1> QED  BY <1>2, <1>3, <1>4

\* A step of a thread touches no handshake but its own.
LEMMA OtherHandshake ==
  ASSUME LiveInv, NEW s \in Servers, NEW e \in Endpoints \ {s, Peer[s]},
         Start(e) \/ Handle(e) \/ Undecodable(e) \/ Deliver(e) \/ Timeout(e)
  PROVE  Untouched(s, Peer[s])
<1>1. s \in Endpoints /\ Peer[s] \in Endpoints /\ s # e /\ Peer[s] # e
  BY PairOf
<1>2. Peer[e] # s /\ Peer[e] # Peer[s]
  BY PairOf, PeerAssumption
<1>3. /\ thread \in [Endpoints -> {"running", "done", "error"}]
      /\ queue \in [Endpoints -> Seq(Traffic)]
      /\ outbox \in [Endpoints -> {<<>>} \cup {<<m>> : m \in wire}]
  BY DEF LiveInv, TrafficOK
<1>4. CASE Start(e) \/ Handle(e)
  <2>1. Kept(e)
    BY <1>4, ThreadCalls, HandlerErases DEF LiveInv
  <2>2. \A d \in {s, Peer[s]} : thread'[d] = thread[d] /\ outbox'[d] = outbox[d]
    BY <1>1, <1>3, <1>4 DEF Start, Handle, Respond, Outcome, ThreadAfterHandler
  <2>3. \A d \in {s, Peer[s]} : queue'[d] = queue[d]
    BY <1>1, <1>3, <1>4 DEF Start, Handle, Respond
  <2> QED  BY <1>1, <2>1, <2>2, <2>3 DEF Untouched, Kept
<1>5. CASE Undecodable(e) \/ Timeout(e)
  BY <1>1, <1>3, <1>5 DEF Undecodable, Timeout, vars, Untouched
<1>6. CASE Deliver(e)
  BY <1>1, <1>2, <1>3, <1>6 DEF Deliver, Sent, ThreadAfterSend, Enqueue, vars, Untouched
<1> QED  BY <1>4, <1>5, <1>6

\* A handshake nothing touched is where it was.
LEMMA UntouchedCalm ==
  ASSUME NEW s \in Servers, NEW c \in Clients, Peer[s] = c, Peer[c] = s,
         Calm(s, c), Untouched(s, c)
  PROVE  Calm(s, c)'
<1>1. BothWell(s, c)'
  BY DEF Calm, BothWell, Untouched
<1>2. \A m2 : Committed(s, m2) => Committed(s, m2)'
  BY DEF Committed, Untouched
<1>3. \A m3 : Revealed(c, s, m3) => Revealed(c, s, m3)'
  BY <1>2 DEF Revealed, Untouched
<1>4. ServerKeyed(s, c) => ServerKeyed(s, c)'
  BY <1>3 DEF ServerKeyed, Untouched
<1>5. ClientKeyed(c, s) => ClientKeyed(c, s)'
  BY <1>4 DEF ClientKeyed, Untouched
<1>6. Answered(c, s) => Answered(c, s)'
  BY DEF Answered, Untouched
<1>7. \A m : /\ Carries(s, m) => Carries(s, m)'
             /\ Carries(c, m) => Carries(c, m)'
  BY DEF Carries, Untouched
<1>8. NothingMoves(s, c) => NothingMoves(s, c)'
  BY DEF NothingMoves, Untouched
<1>9. sess'[s].state = sess[s].state /\ sess'[c].state = sess[c].state
  BY DEF Untouched
<1>10. NotStarted(s, c) => NotStarted(s, c)'
  BY <1>8, <1>9 DEF NotStarted
<1>11. SentM1(s, c) => SentM1(s, c)'
  BY <1>7, <1>9 DEF SentM1
<1>12. SentM2(s, c) => SentM2(s, c)'
  BY <1>6, <1>7, <1>9 DEF SentM2
<1>13. SentM3(s, c) => SentM3(s, c)'
  BY <1>2, <1>6, <1>7, <1>9 DEF SentM3
<1>14. SentM4(s, c) => SentM4(s, c)'
  BY <1>3, <1>7, <1>9 DEF SentM4
<1>15. SentM5(s, c) => SentM5(s, c)'
  BY <1>4, <1>7, <1>9 DEF SentM5
<1>16. SentM6(s, c) => SentM6(s, c)'
  BY <1>5, <1>7, <1>9 DEF SentM6
<1>17. Finished(s, c) => Finished(s, c)'
  BY <1>8, <1>9 DEF Finished
<1> QED  BY <1>1, <1>10, <1>11, <1>12, <1>13, <1>14, <1>15, <1>16, <1>17 DEF Calm

\* While m is on its way from p to q, and neither is in its first state with
\* nothing received, the next step of the two delivers m or has q handle it.
LEMMA InFlight ==
  ASSUME LiveInv, NEW p \in Endpoints, NEW q \in Endpoints, p # q,
         Peer[p] = q, Peer[q] = p, NEW m, Carries(p, m), Decodes(q, m),
         thread[q] = "running", outbox[p] # <<>> => thread[p] = "running",
         \A d \in {p, q} \cap Servers : sess[d].state # "INIT",
         NEW e \in {p, q},
         \/ Start(e) \/ Handle(e) \/ Undecodable(e) \/ Deliver(e)
         \/ Timeout(e) /\ Starved(e)
  PROVE  \/ Handle(q) /\ queue[q] = <<m>>
         \/ Deliver(p) /\ outbox[p] = <<m>> /\ queue[q] = <<>>
<1>1. /\ outbox[q] = <<>> /\ queue[p] = <<>>
      /\ \/ outbox[p] = <<m>> /\ queue[q] = <<>>
         \/ outbox[p] = <<>> /\ queue[q] = <<m>>
  BY DEF Carries
<1>2. Head(<<m>>) = m /\ <<m>> # <<>>
  OBVIOUS
<1>3. ~Start(e)
  BY DEF Start, CreateM1
<1>4. CASE Handle(e)
  BY <1>1, <1>4 DEF Handle, Respond
<1>5. CASE Undecodable(e)
  BY <1>1, <1>2, <1>5 DEF Undecodable
<1>6. CASE Deliver(e)
  BY <1>1, <1>6 DEF Deliver
<1>7. CASE Timeout(e) /\ Starved(e)
  <2>1. CASE e = q
    <3>1. thread[p] # "running" \/ Receiving(p)
      BY <1>7, <2>1 DEF Starved
    <3>2. outbox[p] = <<m>>
      BY <1>1, <1>2, <1>7, <2>1 DEF Timeout
    <3> QED  BY <1>2, <3>1, <3>2 DEF Receiving
  <2>2. CASE e = p
    <3>1. queue[q] = <<>>
      BY <1>7, <2>2 DEF Starved
    <3>2. outbox[p] = <<m>>
      BY <1>1, <1>2, <3>1
    <3> QED  BY <1>2, <1>7, <2>2, <3>2 DEF Timeout, Receiving
  <2> QED  BY <2>1, <2>2
<1> QED  BY <1>3, <1>4, <1>5, <1>6, <1>7

\* Delivery takes m from p's outbox into q's queue, and p goes on.
LEMMA Delivered ==
  ASSUME LiveInv, NEW p \in Endpoints, NEW q \in Endpoints, p # q,
         Peer[p] = q, Peer[q] = p, NEW m, Carries(p, m),
         Deliver(p), outbox[p] = <<m>>, queue[q] = <<>>
  PROVE  /\ Carries(p, m)' /\ sess' = sess /\ exc' = exc
         /\ outbox'[p] = <<>> /\ outbox'[q] = outbox[q] /\ thread'[q] = thread[q]
         /\ thread'[p] = IF p \in Clients /\ sess[p].state = "ESTABLISHED" THEN "done"
                         ELSE thread[p]
<1>1. /\ thread \in [Endpoints -> {"running", "done", "error"}]
      /\ queue \in [Endpoints -> Seq(Traffic)]
      /\ outbox \in [Endpoints -> {<<>>} \cup {<<n>> : n \in wire}]
  BY DEF LiveInv, TrafficOK
<1>2. /\ sess' = sess /\ exc' = exc /\ ThreadAfterSend(p)
      /\ outbox' = [outbox EXCEPT ![p] = <<>>]
      /\ queue' = [queue EXCEPT ![q] = @ \o outbox[p]]
  BY DEF Deliver, Sent, Enqueue, vars
<1>3. outbox'[p] = <<>> /\ outbox'[q] = outbox[q] /\ queue'[p] = queue[p]
  BY <1>1, <1>2
<1>4. queue'[q] = <<m>>
  <2>1. queue'[q] = queue[q] \o outbox[p]
    BY <1>1, <1>2
  <2>2. <<>> \o <<m>> = <<m>>
    OBVIOUS
  <2> QED  BY <2>1, <2>2
<1>5. Carries(p, m)'
  BY <1>3, <1>4 DEF Carries
<1> QED  BY <1>1, <1>2, <1>3, <1>5 DEF ThreadAfterSend

\* A handler that gets m without a fault, and returns n for the first time.
LEMMA Handled ==
  ASSUME LiveInv, NEW p \in Endpoints, NEW q \in Endpoints, p # q,
         Peer[p] = q, Peer[q] = p, NEW m, Carries(p, m), Handle(q), queue[q] = <<m>>
  PROVE  /\ m \in Traffic /\ Decodes(q, m) /\ CallHandler(q, m)
         /\ outbox[p] = <<>> /\ outbox'[p] = <<>> /\ outbox'[q] = Returned
         /\ queue'[p] = <<>> /\ queue'[q] = <<>> /\ thread'[p] = thread[p]
         /\ thread'[q] = IF exc'[q] # Ok THEN "error"
                         ELSE IF q \in Servers /\ sess'[q].state = "ESTABLISHED" THEN "done"
                         ELSE thread[q]
         /\ faults' = faults => exc'[q] # "RuntimeError"
<1>1. /\ thread \in [Endpoints -> {"running", "done", "error"}]
      /\ queue \in [Endpoints -> Seq(Traffic)]
      /\ outbox \in [Endpoints -> {<<>>} \cup {<<n>> : n \in wire}]
      /\ faults # faults - 1
  BY FaultsAssumption DEF LiveInv, TrafficOK
<1>2. Head(<<m>>) = m /\ Tail(<<m>>) = <<>> /\ <<m>> # <<>>
  OBVIOUS
<1>3. /\ outbox[p] = <<>> /\ queue[p] = <<>>
  BY <1>2 DEF Carries
<1>4. /\ Decodes(q, m) /\ CallHandler(q, m) /\ Outcome(q) /\ EntropyFault(q)
      /\ queue' = [queue EXCEPT ![q] = <<>>]
  BY <1>1, <1>2 DEF Handle, Respond
<1>5. m \in Traffic
  BY <1>1, <1>2, HeadTraffic DEF LiveInv
<1>6. /\ outbox'[p] = <<>> /\ outbox'[q] = Returned /\ thread'[p] = thread[p]
      /\ thread'[q] = IF exc'[q] # Ok THEN "error"
                      ELSE IF q \in Servers /\ sess'[q].state = "ESTABLISHED" THEN "done"
                      ELSE thread[q]
  BY <1>1, <1>3, <1>4 DEF Outcome, ThreadAfterHandler
<1>7. faults' = faults => exc'[q] # "RuntimeError"
  BY <1>1, <1>4 DEF EntropyFault
<1> QED  BY <1>1, <1>3, <1>4, <1>5, <1>6, <1>7

\* The message a handler returns for the first time.
LEMMA ReturnedFirst ==
  ASSUME NEW n, n \notin wire, wire' = wire \cup {n}
  PROVE  Returned = <<n>>
<1>1. wire' # wire /\ \A m \in wire' : m \notin wire <=> m = n
  OBVIOUS
<1>2. (CHOOSE m \in wire' : m \notin wire) = n
  BY <1>1
<1> QED  BY <1>1, <1>2 DEF Returned

\* A handler that raises nothing sends its message on its way back.
LEMMA Replied ==
  ASSUME LiveInv, NEW p \in Endpoints, NEW q \in Endpoints, p # q,
         Peer[p] = q, Peer[q] = p, NEW m, Carries(p, m), Handle(q), queue[q] = <<m>>,
         NEW n, n \notin wire, wire' = wire \cup {n}, exc'[q] = Ok
  PROVE  /\ Carries(q, n)' /\ outbox'[p] = outbox[p] /\ outbox'[q] # <<>>
         /\ thread'[p] = thread[p]
         /\ thread'[q] = IF q \in Servers /\ sess'[q].state = "ESTABLISHED" THEN "done"
                         ELSE thread[q]
<1>1. outbox'[q] = <<n>> /\ <<n>> # <<>>
  BY Handled, ReturnedFirst
<1>2. Carries(q, n)'
  BY <1>1, Handled DEF Carries
<1> QED  BY <1>1, <1>2, Handled

-----------------------------------------------------------------------------
(* Each message of a handshake no fault has touched is answered. *)

\* The two sides of a handshake no fault has touched.
BothSides(s, c) ==
  /\ s \in Servers /\ c \in Clients /\ Peer[s] = c /\ Peer[c] = s
  /\ ServerKey[c] = ServerKey[s] /\ BothWell(s, c)

\* The two sides of a handshake are two endpoints, neither with an exception.
LEMMA PairFacts ==
  ASSUME NEW s, NEW c, BothSides(s, c)
  PROVE  /\ s \in Endpoints /\ c \in Endpoints /\ s # c /\ s \notin Clients /\ c \notin Servers
         /\ exc[s] = Ok /\ exc[c] = Ok
BY RolesAssumption DEF BothSides, BothWell, Endpoints

\* On an untouched M1 the client sends its M2.
LEMMA AnswersM1 ==
  ASSUME LiveInv, Announced, faults' = faults, NEW s, NEW c, BothSides(s, c), SentM1(s, c),
         Handle(c), queue[c] = <<M1(Sid(s), Pk(s), ServerKey[s])>>
  PROVE  SentM2(s, c)' /\ BothWell(s, c)'
<1> DEFINE m == M1(Sid(s), Pk(s), ServerKey[s])
           n == M2Of(c, s)
<1>1. IndInv /\ AgreementInv /\ wire \subseteq Messages
  BY DEF LiveInv, AgreementInv, IndInv, TypeOK
<1>2. /\ m.sid = Sid(s) /\ m.pkS = Pk(s) /\ m.quote = Quote(Pk(s), Sid(s))
      /\ m.SigS = Signature(ServerKey[s], Quote(Pk(s), Sid(s)))
  BY DEF M1
<1>3. TH1Of(s) = Ext(TH0(Sid(s)), m)
  BY DEF TH1Of
<1>4. Carries(s, m)
  BY DEF SentM1
<1>5. sess[c].state = "INIT" /\ sess[s].state = "M1_CREATED"
  BY DEF SentM1
<1> HIDE DEF m
<1>6. m \in Inbound("M1") /\ ProcessM1(c, m)
  <2>1. m \in Traffic /\ Decodes(c, m) /\ CallHandler(c, m)
    BY <1>4, PairFacts, Handled DEF BothSides, m
  <2> QED  BY <1>1, <1>5, <2>1, PairFacts, HandleCalls
           DEF ProcessM2, ProcessM3, ProcessM4, ProcessM5, ProcessM6
<1>7. VerifyM1(m, ServerKey[c]) = Ok
  BY <1>2 DEF VerifyM1, BothSides, Quote, Garbled
<1>8. exc'[c] = Ok
  <2>1. exc'[c] # "RuntimeError"
    BY <1>4, PairFacts, Handled DEF BothSides, m
  <2>2. exc \in [Endpoints -> Exceptions \cup {Ok}]
    BY <1>1 DEF IndInv, TypeOK
  <2> QED  BY <1>6, <1>7, <2>1, <2>2, PairFacts, ProcessM1Passes DEF BothSides
<1>9. m \in M1s
  BY <1>1, <1>6, InboundType
<1>10. n = M2(m.sid, Ciphertext(c, m.pkS), Commit(Tef(c), m.sid))
  BY <1>2 DEF M2Of
<1> HIDE DEF n
<1>11. /\ Kept(c) /\ wire' = wire \cup {n}
       /\ sess'[c].state = "M2_CREATED" /\ sess'[c].sid = Sid(s)
       /\ sess'[c].ss = SharedSecret(c, Pk(s)) /\ sess'[c].tefc = Tef(c)
       /\ sess'[c].commitC = Commit(Tef(c), Sid(s))
       /\ sess'[c].th = Ext(Ext(TH0(Sid(s)), m), n)
  BY <1>1, <1>2, <1>6, <1>8, <1>9, <1>10, PairFacts, ProcessM1Outcome DEF Failing
<1>12. Answered(c, s)'
  BY <1>3, <1>11 DEF Answered, TH2Of, n
<1>13. n \notin wire
  BY <1>1, <1>5, NotYetReturned DEF BothSides, n
<1>14. /\ Carries(c, n)' /\ outbox'[c] # <<>> /\ thread'[s] = thread[s]
       /\ thread'[c] = thread[c]
  BY <1>4, <1>8, <1>11, <1>13, PairFacts, Replied DEF BothSides, m
<1>15. sess'[s] = sess[s] /\ exc'[s] = exc[s]
  BY <1>11, PairFacts DEF Kept
<1> QED  BY <1>5, <1>8, <1>11, <1>12, <1>14, <1>15 DEF SentM2, BothWell, BothSides, n

\* On an untouched M2 the server sends its M3.
LEMMA AnswersM2 ==
  ASSUME LiveInv, Announced, faults' = faults, NEW s, NEW c, BothSides(s, c), SentM2(s, c),
         Handle(s), queue[s] = <<M2Of(c, s)>>
  PROVE  SentM3(s, c)' /\ BothWell(s, c)'
<1> DEFINE m == M2Of(c, s)
           n == AgreedM3(s, c)
<1>1. IndInv /\ AgreementInv /\ wire \subseteq Messages
  BY DEF LiveInv, AgreementInv, IndInv, TypeOK
<1>2. m.sid = Sid(s) /\ m.CommitC = Commit(Tef(c), Sid(s)) /\ n = M3Of(s, m)
  BY DEF M2Of, M2, AgreedM3
<1>3. sess[s].state = "M1_CREATED" /\ Answered(c, s) /\ Carries(c, m)
  BY DEF SentM2
<1> HIDE DEF m, n
<1>4. m \in Inbound("M2") /\ ProcessM2(s, m)
  <2>1. m \in Traffic /\ Decodes(s, m) /\ CallHandler(s, m)
    BY <1>3, PairFacts, Handled DEF BothSides, m
  <2> QED  BY <1>1, <1>3, <2>1, PairFacts, HandleCalls
           DEF ProcessM1, ProcessM3, ProcessM4, ProcessM5, ProcessM6
<1>5. sess[s].sid = Sid(s) /\ sess[s].skS = Sk(s) /\ Sk(s) # None
  BY <1>1, <1>3, PairFacts DEF BothSides, AgreementInv, FactsOK, ServerFacts, Sk, None
<1>6. exc'[s] = Ok
  <2>1. exc'[s] # "RuntimeError"
    BY <1>3, PairFacts, Handled DEF BothSides, m
  <2>2. VerifyM2(m, sess[s].sid) = Ok
    BY <1>2, <1>5 DEF VerifyM2
  <2>3. exc \in [Endpoints -> Exceptions \cup {Ok}]
    BY <1>1 DEF IndInv, TypeOK
  <2> QED  BY <1>1, <1>4, <1>5, <2>1, <2>2, <2>3, PairFacts, ProcessM2Passes DEF BothSides
<1>7. m \in M2s
  BY <1>1, <1>4, InboundType
<1>8. /\ Kept(s) /\ wire' = wire \cup {n}
      /\ sess'[s].state = "M3_CREATED" /\ sess'[s].sid = Sid(s)
      /\ sess'[s].commitC = m.CommitC /\ sess'[s].commitS = Commit(Tef(s), Sid(s))
      /\ sess'[s].ss = SsOf(s, m) /\ sess'[s].tefs = Tef(s)
      /\ sess'[s].th = Ext(TH2Of(s, m), M3Of(s, m)) /\ sess'[s].key = None
  BY <1>1, <1>2, <1>4, <1>6, <1>7, PairFacts, ProcessM2Outcome DEF Failing
<1>9. Committed(s, M2Of(c, s))'
  BY <1>6, <1>8 DEF Committed, m
<1>10. n \notin wire
  BY <1>1, <1>3, NotYetReturned DEF BothSides, n
<1>11. /\ Carries(s, n)' /\ outbox'[c] = outbox[c] /\ thread'[s] = thread[s]
       /\ thread'[c] = thread[c]
  BY <1>3, <1>6, <1>8, <1>10, PairFacts, Replied DEF BothSides, m
<1>12. sess'[c] = sess[c] /\ exc'[c] = exc[c]
  BY <1>8, PairFacts DEF Kept
<1>13. Answered(c, s)'
  BY <1>3, <1>12 DEF Answered
<1>14. SentM3(s, c)'
  BY <1>8, <1>9, <1>11, <1>13 DEF SentM3, n
<1> QED  BY <1>3, <1>6, <1>8, <1>11, <1>12, <1>14 DEF BothWell, BothSides, Answered

\* On an untouched M3 the client sends its M4.
LEMMA AnswersM3 ==
  ASSUME LiveInv, Announced, faults' = faults, NEW s, NEW c, BothSides(s, c), SentM3(s, c),
         Handle(c), queue[c] = <<AgreedM3(s, c)>>
  PROVE  SentM4(s, c)' /\ BothWell(s, c)'
<1> DEFINE m == AgreedM3(s, c)
           n == M4Of(c, s, AgreedM3(s, c))
<1>1. IndInv /\ AgreementInv /\ wire \subseteq Messages
  BY DEF LiveInv, AgreementInv, IndInv, TypeOK
<1>2. sess[s].state = "M3_CREATED" /\ Committed(s, M2Of(c, s)) /\ Answered(c, s) /\ Carries(s, m)
  BY DEF SentM3
<1>3. /\ sess[c].state = "M2_CREATED" /\ sess[c].sid = Sid(s)
      /\ sess[c].th = TH2Of(s, M2Of(c, s))
      /\ sess[c].ss = SharedSecret(c, Pk(s)) /\ sess[c].tefc = Tef(c)
      /\ sess[c].commitC = Commit(Tef(c), Sid(s))
  BY <1>2 DEF Answered
<1>4. SharedSecret(c, Pk(s)) # None
  BY DEF SharedSecret, None
<1>5. m.MAC1 = Hmac(DeriveTK(SharedSecret(c, Pk(s))), "commit", TH2Of(s, M2Of(c, s)))
  <2>1. m = M3Of(s, M2Of(c, s))
    BY DEF AgreedM3
  <2> QED  BY <2>1, FieldsOf, SsAgreed
<1> HIDE DEF m, n
<1>6. m \in Inbound("M3") /\ ProcessM3(c, m)
  <2>1. m \in Traffic /\ Decodes(c, m) /\ CallHandler(c, m)
    BY <1>2, PairFacts, Handled DEF BothSides, m
  <2> QED  BY <1>1, <1>3, <2>1, PairFacts, HandleCalls
           DEF ProcessM1, ProcessM2, ProcessM4, ProcessM5, ProcessM6
<1>7. exc'[c] = Ok
  <2>1. VerifyM3(m, sess[c].ss, sess[c].th) = Ok
    BY <1>3, <1>5 DEF VerifyM3
  <2> QED  BY <1>1, <1>3, <1>4, <1>6, <2>1, PairFacts, ProcessM3Passes DEF BothSides
<1>8. m \in M3s
  BY <1>1, <1>6, InboundType
<1>9. /\ Ext(sess[c].th, m) = TH3Of(c, s, m)
      /\ M4(sess[c].ss, sess[c].tefc, TH3Of(c, s, m)) = n
  BY <1>3 DEF TH3Of, M4Of, m, n
<1>10. /\ Kept(c) /\ wire' = wire \cup {n}
       /\ sess'[c].state = "M4_CREATED" /\ sess'[c].sid = sess[c].sid
       /\ sess'[c].commitC = sess[c].commitC /\ sess'[c].commitS = m.CommitS
       /\ sess'[c].ss = sess[c].ss /\ sess'[c].tefc = sess[c].tefc
       /\ sess'[c].th = Ext(TH3Of(c, s, m), n) /\ sess'[c].key = sess[c].key
  BY <1>1, <1>6, <1>7, <1>8, <1>9, PairFacts, ProcessM3Outcome DEF Failing
<1>11. sess[c].key = None
  BY <1>1, <1>3 DEF BothSides, AgreementInv, FactsOK, ClientFacts, ClientKeyed
<1>12. sess'[s] = sess[s] /\ exc'[s] = exc[s]
  BY <1>10, PairFacts DEF Kept
<1>13. Committed(s, M2Of(c, s))'
  BY <1>2, <1>12 DEF Committed
<1>14. Revealed(c, s, AgreedM3(s, c))'
  BY <1>3, <1>10, <1>11, <1>13 DEF Revealed, TH4Of, m, n
<1>15. n \notin wire
  BY <1>1, <1>3, NotYetReturned DEF BothSides, n
<1>16. /\ Carries(c, n)' /\ outbox'[c] # <<>> /\ thread'[s] = thread[s]
       /\ thread'[c] = thread[c]
  BY <1>2, <1>7, <1>10, <1>15, PairFacts, Replied DEF BothSides, m
<1>17. SentM4(s, c)'
  BY <1>2, <1>10, <1>12, <1>14, <1>16 DEF SentM4, n
<1> QED  BY <1>2, <1>3, <1>7, <1>10, <1>12, <1>16, <1>17 DEF BothWell, BothSides

\* On an untouched M4 the server sends its M5.
LEMMA AnswersM4 ==
  ASSUME LiveInv, Announced, faults' = faults, NEW s, NEW c, BothSides(s, c), SentM4(s, c),
         Handle(s), queue[s] = <<M4Of(c, s, AgreedM3(s, c))>>
  PROVE  SentM5(s, c)' /\ BothWell(s, c)'
<1> DEFINE m3 == AgreedM3(s, c)
           m  == M4Of(c, s, AgreedM3(s, c))
           n  == M5Of(s, c)
<1>1. IndInv /\ AgreementInv /\ wire \subseteq Messages
  BY DEF LiveInv, AgreementInv, IndInv, TypeOK
<1>2. /\ sess[s].state = "M3_CREATED" /\ sess[c].state = "M4_CREATED"
      /\ Revealed(c, s, m3) /\ Committed(s, M2Of(c, s)) /\ Carries(c, m)
  BY DEF SentM4, Revealed
<1>3. /\ sess[s].sid = Sid(s) /\ sess[s].commitC = Commit(Tef(c), Sid(s))
      /\ sess[s].th = TH3Of(c, s, m3) /\ sess[s].tefs = Tef(s)
      /\ sess[s].ss = SharedSecret(c, Pk(s))
  BY <1>2, FieldsOf, SsAgreed DEF Committed, TH3Of, AgreedM3
<1>4. m.wrappedC = Encrypt(DeriveKwrapC(SharedSecret(c, Pk(s))), Tef(c), TH3Of(c, s, m3))
  BY FieldsOf
<1>5. SharedSecret(c, Pk(s)) # None
  BY DEF SharedSecret, None
<1>6. /\ Opens(DeriveKwrapC(SharedSecret(c, Pk(s))), m.wrappedC, TH3Of(c, s, m3))
      /\ Plaintext(m.wrappedC) = Tef(c)
  BY <1>4 DEF Opens, Encrypt, Garbled, Plaintext
<1> HIDE DEF m, n, m3
<1>7. m \in Inbound("M4") /\ ProcessM4(s, m)
  <2>1. m \in Traffic /\ Decodes(s, m) /\ CallHandler(s, m)
    BY <1>2, PairFacts, Handled DEF BothSides, m
  <2> QED  BY <1>1, <1>2, <2>1, PairFacts, HandleCalls
           DEF ProcessM1, ProcessM2, ProcessM3, ProcessM5, ProcessM6
<1>8. exc'[s] = Ok
  <2>1. VerifyM4(m, sess[s].ss, sess[s].commitC, sess[s].sid, sess[s].th) = Ok
    BY <1>3, <1>6 DEF VerifyM4
  <2> QED  BY <1>1, <1>3, <1>5, <1>7, <2>1, PairFacts, ProcessM4Passes DEF BothSides
<1>9. m \in M4s
  BY <1>1, <1>7, InboundType
<1>10. /\ Ext(sess[s].th, m) = TH4Of(c, s, m3)
       /\ DeriveSessionKey(sess[s].ss, Fusion(Plaintext(m.wrappedC), sess[s].tefs, sess[s].sid))
            = SessionKeyOf(s, c)
       /\ WrapS(sess[s].ss, sess[s].tefs, TH4Of(c, s, m3)) = WrapOf(s, c)
       /\ Ext(TH4Of(c, s, m3), WrapOf(s, c)) = TH5Of(s, c)
       /\ M5(WrapOf(s, c), SessionKeyOf(s, c), TH5Of(s, c)) = n
  BY <1>3, <1>6 DEF TH4Of, SessionKeyOf, WrapOf, TH5Of, M5Of, m, n, m3
<1>11. /\ Kept(s) /\ wire' = wire \cup {n}
       /\ sess'[s].state = "M5_CREATED" /\ sess'[s].key = SessionKeyOf(s, c)
       /\ sess'[s].m5 = n /\ sess'[s].th = TH5Of(s, c)
  BY <1>1, <1>7, <1>8, <1>9, <1>10, PairFacts, ProcessM4Outcome DEF Failing
<1>12. sess'[c] = sess[c] /\ exc'[c] = exc[c]
  BY <1>11, PairFacts DEF Kept
<1>13. Revealed(c, s, AgreedM3(s, c))'
  BY <1>1, <1>2, <1>11, PairFacts, StableFacts DEF BothSides, m3
<1>14. ServerKeyed(s, c)'
  BY <1>11, <1>13 DEF ServerKeyed, n
<1>15. n \notin wire
  BY <1>1, <1>2, NotYetReturned DEF BothSides, n
<1>16. /\ Carries(s, n)' /\ outbox'[c] = outbox[c] /\ thread'[s] = thread[s]
       /\ thread'[c] = thread[c]
  BY <1>2, <1>8, <1>11, <1>15, PairFacts, Replied DEF BothSides, m
<1>17. SentM5(s, c)'
  BY <1>2, <1>11, <1>12, <1>14, <1>16 DEF SentM5, n
<1> QED  BY <1>2, <1>8, <1>11, <1>12, <1>16, <1>17 DEF BothWell, BothSides

\* On an untouched M5 the client sends its M6 and is established.
LEMMA AnswersM5 ==
  ASSUME LiveInv, Announced, faults' = faults, NEW s, NEW c, BothSides(s, c), SentM5(s, c),
         Handle(c), queue[c] = <<M5Of(s, c)>>
  PROVE  SentM6(s, c)' /\ BothWell(s, c)'
<1> DEFINE m3 == AgreedM3(s, c)
           m  == M5Of(s, c)
           n  == M6Of(s, c)
<1>1. IndInv /\ AgreementInv /\ wire \subseteq Messages
  BY DEF LiveInv, AgreementInv, IndInv, TypeOK
<1>2. /\ sess[s].state = "M5_CREATED" /\ sess[c].state = "M4_CREATED" /\ ServerKeyed(s, c)
      /\ Revealed(c, s, m3) /\ Carries(s, m)
  BY DEF SentM5, ServerKeyed
<1>3. /\ sess[c].sid = Sid(s) /\ sess[c].commitS = Commit(Tef(s), Sid(s))
      /\ sess[c].th = TH4Of(c, s, m3) /\ sess[c].tefc = Tef(c)
      /\ sess[c].ss = SharedSecret(c, Pk(s))
  BY <1>2, FieldsOf DEF Revealed
<1>4. /\ m.wrappedS = WrapOf(s, c)
      /\ m.MACS = Hmac(SessionKeyOf(s, c), "confirm-S", TH5Of(s, c))
  BY DEF M5Of, M5
<1>5. /\ Opens(DeriveKwrapS(SharedSecret(c, Pk(s))), WrapOf(s, c), TH4Of(c, s, m3))
      /\ Plaintext(WrapOf(s, c)) = Tef(s)
  BY DEF Opens, WrapOf, WrapS, Encrypt, Garbled, Plaintext
<1>6. Ext(TH4Of(c, s, m3), WrapOf(s, c)) = TH5Of(s, c)
  BY DEF TH5Of
<1> HIDE DEF m, n, m3
<1>7. DeriveSessionKey(sess[c].ss, Fusion(sess[c].tefc, Plaintext(m.wrappedS), sess[c].sid))
        = SessionKeyOf(s, c)
  BY <1>3, <1>4, <1>5 DEF SessionKeyOf
<1>8. m \in Inbound("M5") /\ ProcessM5(c, m)
  <2>1. m \in Traffic /\ Decodes(c, m) /\ CallHandler(c, m)
    BY <1>2, PairFacts, Handled DEF BothSides, m
  <2> QED  BY <1>1, <1>2, <2>1, PairFacts, HandleCalls
           DEF ProcessM1, ProcessM2, ProcessM3, ProcessM4, ProcessM6
<1>9. exc'[c] = Ok
  <2>1. KeyFromM5(m, sess[c]) = SessionKeyOf(s, c)
    BY <1>7 DEF KeyFromM5
  <2>2. VerifyM5(m, sess[c]) = Ok
    BY <1>3, <1>4, <1>5, <1>6, <2>1 DEF VerifyM5
  <2> QED  BY <1>1, <1>8, <2>2, PairFacts, ProcessM5Passes DEF BothSides
<1>10. m \in M5s
  BY <1>1, <1>8, InboundType
<1>11. M6(SessionKeyOf(s, c), TH5Of(s, c), m) = n
  BY DEF M6Of, m, n
<1>12. /\ Kept(c) /\ wire' = wire \cup {n}
       /\ sess'[c].state = "ESTABLISHED" /\ sess'[c].key = SessionKeyOf(s, c)
       /\ sess'[c].m5 = m /\ sess'[c].th = TH5Of(s, c)
  BY <1>1, <1>3, <1>4, <1>6, <1>7, <1>8, <1>9, <1>10, <1>11, PairFacts, ProcessM5Outcome
     DEF Failing
<1>13. sess'[s] = sess[s] /\ exc'[s] = exc[s]
  BY <1>12, PairFacts DEF Kept
<1>14. ServerKeyed(s, c)'
  BY <1>1, <1>2, <1>12, PairFacts, StableFacts DEF BothSides
<1>15. ClientKeyed(c, s)'
  BY <1>9, <1>12, <1>14 DEF ClientKeyed, m
<1>16. n \notin wire
  BY <1>1, <1>2, NotYetReturned DEF BothSides, n
<1>17. /\ Carries(c, n)' /\ outbox'[c] # <<>> /\ thread'[s] = thread[s]
       /\ thread'[c] = thread[c]
  BY <1>2, <1>9, <1>12, <1>16, PairFacts, Replied DEF BothSides, m
<1>18. SentM6(s, c)'
  BY <1>2, <1>13, <1>15, <1>17 DEF SentM6, n
<1> QED  BY <1>2, <1>9, <1>12, <1>13, <1>17, <1>18 DEF BothWell, BothSides

\* On an untouched M6 the server is established: both are done.
LEMMA AnswersM6 ==
  ASSUME LiveInv, Announced, faults' = faults, NEW s, NEW c, BothSides(s, c), SentM6(s, c),
         Handle(s), queue[s] = <<M6Of(s, c)>>
  PROVE  Finished(s, c)' /\ BothWell(s, c)'
<1> DEFINE m == M6Of(s, c)
<1>1. IndInv /\ AgreementInv /\ wire \subseteq Messages
  BY DEF LiveInv, AgreementInv, IndInv, TypeOK
<1>2. /\ sess[s].state = "M5_CREATED" /\ sess[c].state = "ESTABLISHED"
      /\ ClientKeyed(c, s) /\ ServerKeyed(s, c) /\ Carries(c, m)
  BY DEF SentM6, ClientKeyed
<1>3. sess[s].key = SessionKeyOf(s, c) /\ sess[s].m5 = M5Of(s, c) /\ sess[s].th = TH5Of(s, c)
  BY <1>2 DEF ServerKeyed
<1>4. m.MACC = Hmac(SessionKeyOf(s, c), "confirm-C", Ext(TH5Of(s, c), M5Of(s, c)))
  BY DEF M6Of, M6
<1> HIDE DEF m
<1>5. m \in Inbound("M6") /\ ProcessM6(s, m)
  <2>1. m \in Traffic /\ Decodes(s, m) /\ CallHandler(s, m)
    BY <1>2, PairFacts, Handled DEF BothSides, m
  <2> QED  BY <1>1, <1>2, <2>1, PairFacts, HandleCalls
           DEF ProcessM1, ProcessM2, ProcessM3, ProcessM4, ProcessM5
<1>6. exc'[s] = Ok
  <2>1. VerifyM6(m, sess[s].key, sess[s].m5, sess[s].th) = Ok
    BY <1>3, <1>4 DEF VerifyM6
  <2> QED  BY <1>1, <1>5, <2>1, PairFacts, ProcessM6Passes DEF BothSides
<1>7. m \in M6s
  BY <1>1, <1>5, InboundType
<1>8. Kept(s) /\ wire' = wire /\ sess'[s].state = "ESTABLISHED"
  BY <1>1, <1>5, <1>6, <1>7, PairFacts, ProcessM6Outcome DEF Failing
<1>9. sess'[c] = sess[c] /\ exc'[c] = exc[c]
  BY <1>8, PairFacts DEF Kept
<1>10. /\ outbox[c] = <<>> /\ outbox'[c] = <<>> /\ outbox'[s] = <<>>
       /\ queue'[c] = <<>> /\ queue'[s] = <<>> /\ thread'[c] = thread[c]
       /\ thread'[s] = "done"
  BY <1>2, <1>6, <1>8, PairFacts, Handled DEF BothSides, Returned, m
<1>11. Finished(s, c)'
  BY <1>2, <1>8, <1>9, <1>10 DEF Finished, NothingMoves
<1> QED  BY <1>2, <1>6, <1>8, <1>9, <1>10, <1>11 DEF BothWell, BothSides

\* A server's thread starts the handshake.
LEMMA StartsM1 ==
  ASSUME LiveInv, Announced, NEW s, NEW c, BothSides(s, c), NotStarted(s, c), Start(s)
  PROVE  SentM1(s, c)' /\ BothWell(s, c)'
<1> DEFINE n == M1(Sid(s), Pk(s), ServerKey[s])
<1>1. IndInv /\ AgreementInv /\ CreateM1(s) /\ Outcome(s) /\ queue' = queue
  BY DEF LiveInv, AgreementInv, Start
<1>2. /\ sess[s].state = "INIT" /\ sess[c].state = "INIT"
      /\ outbox[c] = <<>> /\ queue[s] = <<>> /\ queue[c] = <<>>
  BY DEF NotStarted, NothingMoves
<1>3. /\ thread \in [Endpoints -> {"running", "done", "error"}]
      /\ outbox \in [Endpoints -> {<<>>} \cup {<<m>> : m \in wire}]
  BY DEF LiveInv, TrafficOK
<1>4. exc' = exc
  BY <1>1, PairFacts DEF CreateM1, Return
<1>5. Kept(s) /\ wire' = wire \cup {n} /\ sess'[s].state = "M1_CREATED"
  BY <1>1, <1>4, PairFacts, CreateM1Outcome DEF Failing
<1>6. sess'[c] = sess[c]
  BY <1>5, PairFacts DEF Kept
<1>7. n \notin wire
  BY <1>1, <1>2, NotYetReturned DEF BothSides
<1> HIDE DEF n
<1>8. outbox'[s] = <<n>> /\ outbox'[c] = <<>>
  BY <1>1, <1>2, <1>3, <1>5, <1>7, PairFacts, ReturnedFirst DEF Outcome
<1>9. thread' = thread
  BY <1>1, <1>3, <1>4, <1>5, PairFacts DEF Outcome, ThreadAfterHandler
<1>10. Carries(s, n)'
  BY <1>1, <1>2, <1>8 DEF Carries, BothSides
<1>11. SentM1(s, c)'
  BY <1>2, <1>5, <1>6, <1>10 DEF SentM1, n
<1> QED  BY <1>2, <1>4, <1>5, <1>6, <1>9, <1>11 DEF BothWell, BothSides

\* Before the first message the server can only start, and after the last
\* one nothing is left to do.
LEMMA AtRest ==
  ASSUME NEW s, NEW c, BothSides(s, c), NotStarted(s, c) \/ Finished(s, c), NEW e \in {s, c},
         \/ Start(e) \/ Handle(e) \/ Undecodable(e) \/ Deliver(e)
         \/ Timeout(e) /\ Starved(e)
  PROVE  NotStarted(s, c) /\ Start(s)
<1>1. outbox[e] = <<>> /\ queue[e] = <<>>
  BY DEF NotStarted, Finished, NothingMoves
<1>2. ~Handle(e) /\ ~Undecodable(e) /\ ~Deliver(e)
  BY <1>1 DEF Handle, Respond, Undecodable, Deliver
<1>3. CASE Start(e)
  BY <1>3, PairFacts DEF Start, CreateM1, Finished
<1>4. CASE Timeout(e) /\ Starved(e)
  <2>1. thread[e] = "running" /\ Receiving(e)
    BY <1>4 DEF Timeout, Receiving
  <2>2. NotStarted(s, c)
    BY <1>1, <2>1 DEF BothSides, BothWell, Finished, NothingMoves
  <2>3. s \in Servers /\ sess[s].state = "INIT" /\ thread[s] = "running"
    BY <2>2 DEF NotStarted, BothSides, BothWell
  <2>4. e # s
    BY <2>1, <2>3 DEF Receiving
  <2> QED  BY <1>4, <2>3, <2>4, PairFacts DEF Starved, Receiving, BothSides
<1> QED  BY <1>2, <1>3, <1>4

\* What is on its way can be decoded where it goes.
LEMMA CalmDecodes ==
  ASSUME NEW s, NEW c
  PROVE  /\ SentM1(s, c) => Decodes(c, M1(Sid(s), Pk(s), ServerKey[s]))
         /\ SentM2(s, c) => Decodes(s, M2Of(c, s))
         /\ SentM3(s, c) => Decodes(c, AgreedM3(s, c))
         /\ SentM4(s, c) => Decodes(s, M4Of(c, s, AgreedM3(s, c)))
         /\ SentM5(s, c) => Decodes(c, M5Of(s, c))
         /\ SentM6(s, c) => Decodes(s, M6Of(s, c))
<1>1. SentM1(s, c) => Decodes(c, M1(Sid(s), Pk(s), ServerKey[s]))
  BY DEF SentM1, Decodes, Reads, Expected, M1
<1>2. SentM2(s, c) => Decodes(s, M2Of(c, s))
  BY DEF SentM2, Decodes, Reads, Expected, M2Of, M2
<1>3. SentM3(s, c) => Decodes(c, AgreedM3(s, c))
  BY DEF SentM3, Answered, Decodes, Reads, Expected, AgreedM3, M3Of, M3
<1>4. SentM4(s, c) => Decodes(s, M4Of(c, s, AgreedM3(s, c)))
  BY DEF SentM4, Decodes, Reads, Expected, M4Of, M4
<1>5. SentM5(s, c) => Decodes(c, M5Of(s, c))
  BY DEF SentM5, Decodes, Reads, Expected, M5Of, M5
<1>6. SentM6(s, c) => Decodes(s, M6Of(s, c))
  BY DEF SentM6, Decodes, Reads, Expected, M6Of, M6
<1> QED  BY <1>1, <1>2, <1>3, <1>4, <1>5, <1>6

\* A message on its way is delivered, or it is handled.
LEMMA CalmFlight ==
  ASSUME LiveInv, NEW s, NEW c, BothSides(s, c), NEW p, NEW q, {p, q} = {s, c}, p # q, NEW m,
         Carries(p, m), Decodes(q, m), sess[s].state \notin {"INIT", "ESTABLISHED"},
         sess[q].state # "ESTABLISHED", NEW e \in {s, c},
         \/ Start(e) \/ Handle(e) \/ Undecodable(e) \/ Deliver(e)
         \/ Timeout(e) /\ Starved(e)
  PROVE  \/ Handle(q) /\ queue[q] = <<m>>
         \/ Carries(p, m)' /\ sess' = sess /\ exc' = exc /\ BothWell(s, c)'
<1>1. p \in Endpoints /\ q \in Endpoints /\ Peer[p] = q /\ Peer[q] = p /\ e \in {p, q}
  BY PairFacts DEF BothSides
<1>2. thread[q] = "running" /\ (outbox[p] # <<>> => thread[p] = "running")
  BY DEF BothSides, BothWell
<1>3. \A d \in {p, q} \cap Servers : sess[d].state # "INIT"
  BY PairFacts
<1>4. CASE Deliver(p) /\ outbox[p] = <<m>> /\ queue[q] = <<>>
  <2>1. /\ Carries(p, m)' /\ sess' = sess /\ exc' = exc
        /\ outbox'[p] = <<>> /\ outbox'[q] = outbox[q] /\ thread'[q] = thread[q]
        /\ thread'[p] = IF p \in Clients /\ sess[p].state = "ESTABLISHED" THEN "done"
                        ELSE thread[p]
    BY <1>1, <1>4, Delivered
  <2>2. thread[p] = "running"
    <3>1. <<m>> # <<>>
      OBVIOUS
    <3> QED  BY <1>2, <1>4, <3>1
  <2>3. CASE p = s /\ q = c
    BY <2>1, <2>2, <2>3, <1>2, PairFacts DEF BothSides, BothWell
  <2>4. CASE p = c /\ q = s
    BY <2>1, <2>2, <2>4, <1>2, PairFacts DEF BothSides, BothWell
  <2> QED  BY <2>1, <2>3, <2>4
<1>5. LiveInv /\ Carries(p, m) /\ Decodes(q, m) /\ p # q
  OBVIOUS
<1>6. \/ Start(e) \/ Handle(e) \/ Undecodable(e) \/ Deliver(e)
      \/ Timeout(e) /\ Starved(e)
  OBVIOUS
<1>7. \/ Handle(q) /\ queue[q] = <<m>>
      \/ Deliver(p) /\ outbox[p] = <<m>> /\ queue[q] = <<>>
  BY ONLY <1>1, <1>2, <1>3, <1>5, <1>6, InFlight
<1> QED  BY <1>4, <1>7

\* Where nothing but the network moves, the two sides stay where they were.
LEMMA SameFacts ==
  ASSUME sess' = sess, exc' = exc
  PROVE  \A s, c : /\ Answered(c, s)' <=> Answered(c, s)
                   /\ \A m2 : Committed(s, m2)' <=> Committed(s, m2)
                   /\ \A m3 : Revealed(c, s, m3)' <=> Revealed(c, s, m3)
                   /\ ServerKeyed(s, c)' <=> ServerKeyed(s, c)
                   /\ ClientKeyed(c, s)' <=> ClientKeyed(c, s)
BY DEF Answered, Committed, Revealed, ServerKeyed, ClientKeyed

\* A step of the two threads leads a handshake from one of its states to the
\* same or to the next.
LEMMA CalmMoves ==
  ASSUME LiveInv, Announced, faults' = faults, NEW s, NEW c, BothSides(s, c), Calm(s, c),
         NEW e \in {s, c},
         \/ Start(e) \/ Handle(e) \/ Undecodable(e) \/ Deliver(e)
         \/ Timeout(e) /\ Starved(e)
  PROVE  Calm(s, c)'
<1>1. s # c
  BY PairFacts
<1>2. CASE NotStarted(s, c) \/ Finished(s, c)
  BY <1>2, AtRest, StartsM1 DEF Calm
<1>3. CASE SentM1(s, c)
  <2> DEFINE m == M1(Sid(s), Pk(s), ServerKey[s])
  <2>1. /\ Carries(s, m) /\ Decodes(c, m)
        /\ sess[s].state = "M1_CREATED" /\ sess[c].state = "INIT"
    BY <1>3, CalmDecodes DEF SentM1
  <2> HIDE DEF m
  <2>2. CASE Carries(s, m)' /\ sess' = sess /\ BothWell(s, c)'
    BY <2>1, <2>2 DEF Calm, SentM1, m
  <2>3. \/ Handle(c) /\ queue[c] = <<m>>
        \/ Carries(s, m)' /\ sess' = sess /\ BothWell(s, c)'
    BY <1>1, <2>1, CalmFlight
  <2> QED  BY <1>3, <2>2, <2>3, AnswersM1 DEF Calm, m
<1>4. CASE SentM2(s, c)
  <2> DEFINE m == M2Of(c, s)
  <2>1. Carries(c, m) /\ Decodes(s, m) /\ sess[s].state = "M1_CREATED" /\ Answered(c, s)
    BY <1>4, CalmDecodes DEF SentM2
  <2> HIDE DEF m
  <2>2. CASE Carries(c, m)' /\ sess' = sess /\ exc' = exc /\ BothWell(s, c)'
    BY <2>1, <2>2, SameFacts DEF Calm, SentM2, m
  <2>3. \/ Handle(s) /\ queue[s] = <<m>>
        \/ Carries(c, m)' /\ sess' = sess /\ exc' = exc /\ BothWell(s, c)'
    BY <1>1, <2>1, CalmFlight
  <2> QED  BY <1>4, <2>2, <2>3, AnswersM2 DEF Calm, m
<1>5. CASE SentM3(s, c)
  <2> DEFINE m == AgreedM3(s, c)
  <2>1. /\ Carries(s, m) /\ Decodes(c, m) /\ sess[s].state = "M3_CREATED"
        /\ sess[c].state = "M2_CREATED" /\ Answered(c, s) /\ Committed(s, M2Of(c, s))
    BY <1>5, CalmDecodes DEF SentM3, Answered
  <2> HIDE DEF m
  <2>2. CASE Carries(s, m)' /\ sess' = sess /\ exc' = exc /\ BothWell(s, c)'
    BY <2>1, <2>2, SameFacts DEF Calm, SentM3, m
  <2>3. \/ Handle(c) /\ queue[c] = <<m>>
        \/ Carries(s, m)' /\ sess' = sess /\ exc' = exc /\ BothWell(s, c)'
    BY <1>1, <2>1, CalmFlight
  <2> QED  BY <1>5, <2>2, <2>3, AnswersM3 DEF Calm, m
<1>6. CASE SentM4(s, c)
  <2> DEFINE m == M4Of(c, s, AgreedM3(s, c))
  <2>1. /\ Carries(c, m) /\ Decodes(s, m) /\ sess[s].state = "M3_CREATED"
        /\ sess[c].state = "M4_CREATED" /\ Revealed(c, s, AgreedM3(s, c))
    BY <1>6, CalmDecodes DEF SentM4
  <2> HIDE DEF m
  <2>2. CASE Carries(c, m)' /\ sess' = sess /\ exc' = exc /\ BothWell(s, c)'
    BY <2>1, <2>2, SameFacts DEF Calm, SentM4, m
  <2>3. \/ Handle(s) /\ queue[s] = <<m>>
        \/ Carries(c, m)' /\ sess' = sess /\ exc' = exc /\ BothWell(s, c)'
    BY <1>1, <2>1, CalmFlight
  <2> QED  BY <1>6, <2>2, <2>3, AnswersM4 DEF Calm, m
<1>7. CASE SentM5(s, c)
  <2> DEFINE m == M5Of(s, c)
  <2>1. /\ Carries(s, m) /\ Decodes(c, m) /\ sess[s].state = "M5_CREATED"
        /\ sess[c].state = "M4_CREATED" /\ ServerKeyed(s, c)
    BY <1>7, CalmDecodes DEF SentM5
  <2> HIDE DEF m
  <2>2. CASE Carries(s, m)' /\ sess' = sess /\ exc' = exc /\ BothWell(s, c)'
    BY <2>1, <2>2, SameFacts DEF Calm, SentM5, m
  <2>3. \/ Handle(c) /\ queue[c] = <<m>>
        \/ Carries(s, m)' /\ sess' = sess /\ exc' = exc /\ BothWell(s, c)'
    BY <1>1, <2>1, CalmFlight
  <2> QED  BY <1>7, <2>2, <2>3, AnswersM5 DEF Calm, m
<1>8. CASE SentM6(s, c)
  <2> DEFINE m == M6Of(s, c)
  <2>1. Carries(c, m) /\ Decodes(s, m) /\ sess[s].state = "M5_CREATED" /\ ClientKeyed(c, s)
    BY <1>8, CalmDecodes DEF SentM6
  <2> HIDE DEF m
  <2>2. CASE Carries(c, m)' /\ sess' = sess /\ exc' = exc /\ BothWell(s, c)'
    BY <2>1, <2>2, SameFacts DEF Calm, SentM6, m
  <2>3. \/ Handle(s) /\ queue[s] = <<m>>
        \/ Carries(c, m)' /\ sess' = sess /\ exc' = exc /\ BothWell(s, c)'
    BY <1>1, <2>1, CalmFlight
  <2> QED  BY <1>8, <2>2, <2>3, AnswersM6 DEF Calm, m
<1> QED  BY <1>2, <1>3, <1>4, <1>5, <1>6, <1>7, <1>8 DEF Calm

-----------------------------------------------------------------------------
(* No false alarm. *)

\* Faults are only used up.
LEMMA FaultsFall ==
  ASSUME LiveInv, [LiveNext]_liveVars, faults' = MaxFaults
  PROVE  faults' = faults
<1>1. faults \in 0..MaxFaults /\ MaxFaults \in Nat
  BY FaultsAssumption DEF LiveInv, TrafficOK
<1>2. faults' \in {faults, faults - 1}
  BY DEF LiveNext, Start, Handle, EntropyFault, Undecodable, Timeout, Deliver, Drop, Duplicate,
         Modify, SendFails, Replay, liveVars
<1> QED  BY <1>1, <1>2

\* Every step keeps each handshake in its states as long as nothing fails.
LEMMA NextCalm ==
  ASSUME LiveInv, CalmOK, [LiveNext]_liveVars
  PROVE  CalmOK'
<1>1. Announced'
  BY NextAnnounced DEF CalmOK
<1>2. ASSUME faults' = MaxFaults, NEW s \in Servers
      PROVE  Calm(s, Peer[s])'
  <2>1. faults' = faults /\ Calm(s, Peer[s]) /\ Announced
    BY <1>2, FaultsFall DEF CalmOK
  <2>2. /\ BothSides(s, Peer[s]) /\ Peer[s] \in Clients /\ Peer[Peer[s]] = s
    BY <2>1, PairOf DEF BothSides, Calm
  <2>3. CASE UNCHANGED liveVars
    <3>1. Untouched(s, Peer[s])
      BY <2>3 DEF liveVars, vars, Untouched
    <3> QED  BY <2>1, <2>2, <3>1, UntouchedCalm
  <2>4. CASE LiveNext
    <3>1. PICK e \in Endpoints : \/ Start(e) \/ Handle(e) \/ Undecodable(e) \/ Deliver(e)
                                 \/ Timeout(e) /\ Starved(e)
      BY <2>1, <2>4, FaultlessStep
    <3>2. CASE e \in {s, Peer[s]}
      BY <2>1, <2>2, <3>1, <3>2, CalmMoves
    <3>3. CASE e \notin {s, Peer[s]}
      <4>1. Untouched(s, Peer[s])
        BY <3>1, <3>3, OtherHandshake
      <4> QED  BY <2>1, <2>2, <4>1, UntouchedCalm
    <3> QED  BY <3>2, <3>3
  <2> QED  BY <2>3, <2>4
<1> QED  BY <1>1, <1>2 DEF CalmOK

\* No thread of a handshake ends with an exception as long as no fault has
\* happened, for every set of handshakes (_harness.py 85-120).
THEOREM CalmRaisesNothing == LiveSpec => []NoFalseAlarm
<1>1. LiveInit => CalmOK
  <2> SUFFICES ASSUME LiveInit
               PROVE  CalmOK
    OBVIOUS
  <2>1. \A e \in Endpoints : /\ sess[e].state = "INIT" /\ exc[e] = Ok /\ thread[e] = "running"
                             /\ queue[e] = <<>> /\ outbox[e] = <<>>
    BY DEF LiveInit, Init, NewSession
  <2>2. Announced
    BY DEF LiveInit, Init, Announced
  <2>3. \A s \in Servers : Calm(s, Peer[s])
    BY <2>1, PairOf DEF Calm, BothWell, NotStarted, NothingMoves
  <2> QED  BY <2>2, <2>3 DEF CalmOK
<1>2. LiveInv /\ CalmOK /\ [LiveNext]_liveVars => CalmOK'
  BY NextCalm
<1>3. CalmOK => NoFalseAlarm
  <2> SUFFICES ASSUME CalmOK, faults = MaxFaults, NEW e \in Endpoints
               PROVE  thread[e] # "error"
    BY DEF NoFalseAlarm
  <2>1. PICK s \in Servers : e \in {s, Peer[s]}
    BY PeerAssumption DEF Endpoints
  <2> QED  BY <2>1 DEF CalmOK, Calm, BothWell
<1> QED  BY <1>1, <1>2, <1>3, LiveInvariance, PTL DEF LiveSpec
=============================================================================
