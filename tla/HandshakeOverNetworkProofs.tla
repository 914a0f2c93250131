---------------------- MODULE HandshakeOverNetworkProofs ----------------------
(***************************************************************************)
(* Proof that the threads of a handshake on the simulator with its locks    *)
(* and hooks do what LiveHandshake says, for every set of handshakes and    *)
(* every set of hooks; and that two threads that both end a handshake       *)
(* without an exception have heard what the other said.                     *)
(***************************************************************************)
EXTENDS HandshakeOverNetwork, HandshakeAgreementProofs, SequenceTheorems, TLAPS

\* What NetworkSimulatorProofs proves holds of this simulator too.
NP == INSTANCE NetworkSimulatorProofs
        WITH Dest <- Peer, MaxSends <- [e \in Endpoints |-> Sends], MaxReceives <- Sends

\* The messages handlers returned, and what a modify hook can make of them.
Msgs == wire \cup UNION {Live!Altered(m) : m \in wire}

\* What modify made of the n-th message of e will not change any more.
Settled(e, n) ==
  \/ n \in 1..Len(fate[e])
  \/ n = NP!This(e) /\ at[e] = "hooks" /\ "modify" \notin NP!ToSet(pending[e])

\* A token stands for a message that was sent.
TokenOK(t) ==
  /\ t.seq \in 1..Len(sent[t.from])
  /\ t.altered => Settled(t.from, t.seq)

\* How the threads and the simulator hang together: a thread is in a send, or
\* about to enter it, while its last message has no fate.
ThreadOK(e) ==
  /\ Len(arrived[e]) = Len(sent[e])
  /\ Len(sent[e]) = Len(fate[e]) \/ Len(sent[e]) = Len(fate[e]) + 1
  /\ at[e] # "idle" => Len(sent[e]) = Len(fate[e]) + 1
  /\ at[e] = "hooks" /\ current[e].altered =>
       arrived[e][NP!This(e)] \in Live!Altered(sent[e][NP!This(e)]) /\ Settled(e, NP!This(e))
Threads == \A e \in Endpoints : ThreadOK(e)
Typed ==
  /\ sent \in [Endpoints -> Seq(wire)] /\ arrived \in [Endpoints -> Seq(Msgs)]
  /\ faults \in Int
QueuesOK ==
  /\ queue \in [Endpoints -> Seq(NP!MessageType)]
  /\ \A d \in Endpoints : \A t \in NP!ToSet(queue[d]) : TokenOK(t)

NetInv == NP!SimInv /\ Typed /\ Threads /\ QueuesOK

-----------------------------------------------------------------------------
(* The simulator of the composition is the one of NetworkSimulator.         *)

\* The constants of the simulator are as its own module assumes.
LEMMA SimAssumptions ==
  /\ Peer \in [Endpoints -> Endpoints] /\ Hooks \subseteq NP!HookKinds /\ DropNext \in Nat
  /\ [e \in Endpoints |-> Sends] \in [Endpoints -> Nat] /\ Sends \in Nat /\ MaxCalls \in Nat
BY NetworkAssumption DEF Sends, NP!HookKinds

\* The steps of a send are those NetworkSimulatorProofs reasons about.
LEMMA SameSends ==
  ASSUME NEW e \in Endpoints
  PROVE  /\ Net!Send(e) => NP!Send(e)
         /\ Net!CallProcess(e) => NP!CallProcess(e)
         /\ Net!Snapshot(e) => NP!Snapshot(e)
         /\ Net!Detached(e) => NP!Detached(e)
         /\ Net!Capture(e) => NP!Capture(e)
         /\ Net!DropHook(e) => NP!DropHook(e)
         /\ Net!DropNextHook(e) => NP!DropNextHook(e)
         /\ Net!DuplicateHook(e) => NP!DuplicateHook(e)
         /\ Net!ModifyHook(e) => NP!ModifyHook(e)
         /\ Net!PutOriginal(e) => NP!PutOriginal(e)
         /\ Net!Receive(e) => NP!Receive(e)
<1> USE DEF Net!attackerVars, Net!sendVars, Net!history, Net!captures,
            NP!attackerVars, NP!sendVars, NP!history, NP!captures
<1>1. Net!Send(e) => NP!Send(e)
  BY Zenon DEF Net!Send, NP!Send, Net!Message, NP!Message, Net!ToSet, NP!ToSet
<1>2. /\ Net!CallProcess(e) => NP!CallProcess(e)
      /\ Net!Snapshot(e) => NP!Snapshot(e)
  BY Zenon DEF Net!CallProcess, NP!CallProcess, Net!Snapshot, NP!Snapshot
<1>3. Net!Detached(e) => NP!Detached(e)
  BY Zenon DEF Net!Detached, NP!Detached, Net!End, NP!End, Net!NoMessage, NP!NoMessage
<1>4. Net!Capture(e) => NP!Capture(e)
  BY Zenon DEF Net!Capture, NP!Capture
<1>5. Net!DropHook(e) => NP!DropHook(e)
  BY Zenon DEF Net!DropHook, NP!DropHook, Net!End, NP!End, Net!NoMessage, NP!NoMessage,
               Net!Runs, NP!Runs
<1>6. Net!DropNextHook(e) => NP!DropNextHook(e)
  BY Zenon DEF Net!DropNextHook, NP!DropNextHook, Net!End, NP!End, Net!NoMessage, NP!NoMessage,
               Net!Runs, NP!Runs, Net!Passed, NP!Passed
<1>7. Net!DuplicateHook(e) => NP!DuplicateHook(e)
  BY Zenon DEF Net!DuplicateHook, NP!DuplicateHook, Net!Runs, NP!Runs, Net!Passed, NP!Passed,
               Net!Put, NP!Put
<1>8. Net!ModifyHook(e) => NP!ModifyHook(e)
  BY Zenon DEF Net!ModifyHook, NP!ModifyHook, Net!End, NP!End, Net!NoMessage, NP!NoMessage,
               Net!Runs, NP!Runs, Net!Passed, NP!Passed
<1>9. Net!PutOriginal(e) => NP!PutOriginal(e)
  BY Zenon DEF Net!PutOriginal, NP!PutOriginal, Net!End, NP!End, Net!NoMessage, NP!NoMessage,
               Net!Put, NP!Put
<1>10. Net!Receive(e) => NP!Receive(e)
  BY Zenon DEF Net!Receive, NP!Receive
<1> QED  BY <1>1, <1>2, <1>3, <1>4, <1>5, <1>6, <1>7, <1>8, <1>9, <1>10

\* So are the calls that register hooks, the replay and the initial state.
LEMMA SameConfiguration ==
  /\ Net!SetAttacker => NP!SetAttacker
  /\ \A h \in Hooks : (Net!AddHook(h) => NP!AddHook(h)) /\ (Net!RemoveHook(h) => NP!RemoveHook(h))
  /\ \A m, to : Net!Replay(m, to) => NP!Replay(m, to)
  /\ Net!Init => NP!Init
<1> USE DEF Net!attackerVars, Net!sendVars, Net!history, Net!captures,
            NP!attackerVars, NP!sendVars, NP!history, NP!captures, Net!Call, NP!Call
<1>1. Net!SetAttacker => NP!SetAttacker
  BY Zenon DEF Net!SetAttacker, NP!SetAttacker
<1>2. \A h \in Hooks : Net!AddHook(h) => NP!AddHook(h)
  BY Zenon DEF Net!AddHook, NP!AddHook, Net!ToSet, NP!ToSet
<1>3. \A h \in Hooks : Net!RemoveHook(h) => NP!RemoveHook(h)
  BY Zenon DEF Net!RemoveHook, NP!RemoveHook, Net!RemoveAt, NP!RemoveAt
<1>4. \A m, to : Net!Replay(m, to) => NP!Replay(m, to)
  BY Zenon DEF Net!Replay, NP!Replay, Net!Put, NP!Put
<1>5. Net!Init => NP!Init
  BY Zenon DEF Net!Init, NP!Init, Net!NoMessage, NP!NoMessage
<1> QED  BY <1>1, <1>2, <1>3, <1>4, <1>5

\* What the capture list holds was captured.
LEMMA CapturedIsEver ==
  ASSUME NP!SimInv, NEW i \in DOMAIN captured
  PROVE  captured[i] \in NP!ToSet(ever)
<1>1. ever \in Seq(NP!MessageType)
  BY DEF NP!SimInv, NP!Types
<1>2. PICK k \in 0..Len(ever) : captured = SubSeq(ever, k + 1, Len(ever))
  BY DEF NP!SimInv, NP!RestOK
<1>3. Len(ever) \in Nat /\ DOMAIN ever = 1..Len(ever)
  BY <1>1, LenProperties
<1>4. /\ captured \in Seq(NP!MessageType) /\ Len(captured) = Len(ever) - k
      /\ \A j \in 1..Len(ever) - k : captured[j] = ever[k + j]
  <2> DEFINE c == SubSeq(ever, k + 1, Len(ever))
             T == NP!MessageType
  <2>1. ever \in Seq(T)
    BY <1>1
  <2> HIDE DEF T
  <2>2. c \in Seq(T) /\ Len(c) = Len(ever) - k /\ \A j \in 1..Len(ever) - k : c[j] = ever[k + j]
    <3>1. k \in Nat /\ k + 1 \in Int /\ Len(ever) \in Int
      BY <1>2, <1>3
    <3>2. \A j \in k + 1..Len(ever) : ever[j] \in T
      BY <1>3, <2>1, <3>1, ElementOfSeq
    <3>3. /\ c \in Seq(T) /\ Len(c) = IF k + 1 <= Len(ever) THEN Len(ever) - (k + 1) + 1 ELSE 0
          /\ \A j \in 1..Len(ever) - (k + 1) + 1 : c[j] = ever[k + 1 + j - 1]
      BY <3>1, <3>2, SubSeqProperties
    <3> HIDE DEF c
    <3>4. Len(c) = Len(ever) - k
      <4>1. CASE k < Len(ever)
        <5>1. k + 1 <= Len(ever) /\ Len(ever) - (k + 1) + 1 = Len(ever) - k
          BY <1>3, <3>1, <4>1
        <5> QED  BY <3>3, <5>1
      <4>2. CASE k = Len(ever)
        <5>1. ~(k + 1 <= Len(ever)) /\ Len(ever) - k = 0
          BY <1>3, <4>2
        <5> QED  BY <3>3, <5>1
      <4>3. \A n \in Nat : k \in 0..n => k < n \/ k = n
        BY <3>1
      <4>4. k < Len(ever) \/ k = Len(ever)
        BY <1>2, <1>3, <4>3, Zenon
      <4> QED  BY <4>1, <4>2, <4>4
    <3>5. /\ Len(ever) - (k + 1) + 1 = Len(ever) - k
          /\ \A j \in 1..Len(ever) - k : k + 1 + j - 1 = k + j
      BY <1>3, <3>1
    <3> QED  BY <3>3, <3>4, <3>5
  <2> QED  BY <1>2, <2>2 DEF T
<1>5. i \in 1..Len(ever) - k
  BY <1>4, LenProperties
<1>6. captured[i] = ever[k + i] /\ k + i \in DOMAIN ever
  <2>1. captured[i] = ever[k + i]
    BY <1>4, <1>5
  <2>2. k + i \in 1..Len(ever)
    BY <1>3, <1>5
  <2> QED  BY <1>3, <2>1, <2>2
<1> QED  BY <1>6 DEF NP!ToSet

\* The simulator's invariant holds along its steps here too.
LEMMA StepInv ==
  ASSUME NP!SimInv, NP!Next \/ UNCHANGED NP!vars
  PROVE  NP!SimInv'
BY NP!NextInv, SimAssumptions

\* Every step is a step of the simulator or leaves it alone.
LEMMA SimSteps ==
  ASSUME NP!SimInv, [NetNext]_netVars
  PROVE  NP!SimInv'
<1> USE DEF NP!vars, NP!attackerVars, NP!sendVars, NP!history, NP!captures
<1>1. (NP!Next \/ UNCHANGED NP!vars) => NP!SimInv'
  BY StepInv
<1>2. UNCHANGED simVars => UNCHANGED NP!vars
  BY DEF simVars
<1>3. ASSUME NEW e \in Endpoints,
             \/ Start(e) \/ Respond(e) \/ Undecodable(e) \/ Timeout(e)
             \/ Send(e) \/ Duplicate(e) \/ Modify(e)
      PROVE  NP!Next \/ UNCHANGED NP!vars
  <2>1. CASE Start(e) \/ Timeout(e)
    BY <1>2, <2>1 DEF Start, Timeout
  <2>2. CASE Respond(e) \/ Undecodable(e)
    BY <2>2, SameSends, Zenon DEF Respond, Undecodable, NP!Next
  <2>3. CASE Send(e)
    BY <2>3, SameSends, Zenon DEF Send, NP!Next
  <2>4. CASE Duplicate(e)
    BY <2>4, SameSends, Zenon DEF Duplicate, NP!Next
  <2>5. CASE Modify(e)
    BY <2>5, SameSends, Zenon DEF Modify, NP!Next
  <2> QED  BY <1>3, <2>1, <2>2, <2>3, <2>4, <2>5
<1>4. Configure => NP!Next
  BY SameConfiguration, Zenon DEF Configure, NP!Next
<1>5. ASSUME NEW to \in Endpoints, NEW i \in DOMAIN captured, Replay(captured[i], to)
      PROVE  NP!Next
  <2>1. captured[i] \in NP!ToSet(ever)
    BY CapturedIsEver
  <2> QED  BY <1>5, <2>1, SameConfiguration, Zenon DEF Replay, NP!Next
<1>6. UNCHANGED netVars => UNCHANGED NP!vars
  BY <1>2 DEF netVars
<1> QED  BY <1>1, <1>3, <1>4, <1>5, <1>6 DEF NetNext

-----------------------------------------------------------------------------
(* What the tokens in a queue stand for.                                    *)

Mapped(q, f) == [i \in DOMAIN q |-> f[q[i]]]
Reading == [t \in NP!MessageType |-> Bytes(t)]

\* Reading a longer queue reads its last message last.
LEMMA MappedAppend ==
  ASSUME NEW S, NEW q \in Seq(S), NEW x \in S, NEW f
  PROVE  Mapped(Append(q, x), f) = Mapped(q, f) \o <<f[x]>>
<1> DEFINE T == {f[s] : s \in S}
           n == Len(q)
           l == Mapped(Append(q, x), f)
           r == Mapped(q, f) \o <<f[x]>>
<1>1. n \in Nat /\ DOMAIN q = 1..n /\ q \in [1..n -> S]
  BY LenProperties
<1>2. /\ Append(q, x) \in Seq(S) /\ Len(Append(q, x)) = n + 1
      /\ \A i \in 1..n : Append(q, x)[i] = q[i]
      /\ Append(q, x)[n + 1] = x
  BY AppendProperties
<1>3. DOMAIN Append(q, x) = 1..n + 1
  BY <1>2, LenProperties
<1>4. l = [i \in 1..n + 1 |-> f[Append(q, x)[i]]] /\ Mapped(q, f) = [i \in 1..n |-> f[q[i]]]
  BY <1>1, <1>3 DEF Mapped
<1>5. /\ Mapped(q, f) \in Seq(T) /\ Len(Mapped(q, f)) = n
      /\ <<f[x]>> \in Seq(T) /\ Len(<<f[x]>>) = 1 /\ <<f[x]>>[1] = f[x]
  BY <1>1, <1>4
<1>6. l \in Seq(T) /\ Len(l) = n + 1
  <2>1. \A i \in 1..n + 1 : Append(q, x)[i] \in S
    BY <1>2, ElementOfSeq
  <2>2. \A i \in 1..n + 1 : f[Append(q, x)[i]] \in T
    BY <2>1
  <2>3. l \in [1..n + 1 -> T]
    BY <1>4, <2>2
  <2> QED  BY <1>1, <1>4, <2>3
<1>7. /\ r \in Seq(T) /\ Len(r) = n + 1
      /\ \A i \in 1..n + 1 : r[i] = IF i <= n THEN Mapped(q, f)[i] ELSE <<f[x]>>[i - n]
  BY <1>1, <1>5, ConcatProperties
<1>8. \A i \in 1..n + 1 : l[i] = r[i]
  <2>1. \A i \in 1..n : l[i] = r[i]
    <3>1. \A i \in 1..n : l[i] = f[q[i]] /\ Mapped(q, f)[i] = f[q[i]] /\ i \in 1..n + 1 /\ i <= n
      BY <1>1, <1>2, <1>4
    <3> QED  BY <1>7, <3>1
  <2>2. l[n + 1] = r[n + 1]
    <3>1. n + 1 \in 1..n + 1 /\ ~(n + 1 <= n) /\ n + 1 - n = 1
      BY <1>1
    <3>2. l[n + 1] = f[x]
      BY <1>2, <1>4, <3>1
    <3> QED  BY <1>5, <1>7, <3>1, <3>2
  <2>3. \A i \in 1..n + 1 : i \in 1..n \/ i = n + 1
    BY <1>1
  <2> QED  BY <2>1, <2>2, <2>3
<1> QED  BY <1>6, <1>7, <1>8, SeqEqual

\* Reading a queue without its head leaves out the first reading.
LEMMA MappedTail ==
  ASSUME NEW S, NEW q \in Seq(S), NEW f, q # <<>>
  PROVE  /\ Mapped(q, f) # <<>> /\ Head(Mapped(q, f)) = f[Head(q)]
         /\ Tail(Mapped(q, f)) = Mapped(Tail(q), f)
<1> DEFINE T == {f[s] : s \in S}
           n == Len(q)
           l == Tail(Mapped(q, f))
           r == Mapped(Tail(q), f)
<1>1. n \in Nat \ {0} /\ DOMAIN q = 1..n /\ q \in [1..n -> S]
  BY LenProperties, EmptySeq
<1>2. /\ Tail(q) \in Seq(S) /\ Len(Tail(q)) = n - 1
      /\ \A i \in 1..n - 1 : Tail(q)[i] = q[i + 1]
  BY HeadTailProperties
<1>3. DOMAIN Tail(q) = 1..n - 1
  BY <1>2, LenProperties
<1>4. Mapped(q, f) = [i \in 1..n |-> f[q[i]]] /\ r = [i \in 1..n - 1 |-> f[Tail(q)[i]]]
  BY <1>1, <1>3 DEF Mapped
<1>5. Mapped(q, f) \in Seq(T) /\ Len(Mapped(q, f)) = n
  BY <1>1, <1>4
<1>6. Mapped(q, f) # <<>>
  BY <1>1, <1>5, EmptySeq
<1>7. l \in Seq(T) /\ Len(l) = n - 1 /\ \A i \in 1..n - 1 : l[i] = Mapped(q, f)[i + 1]
  BY <1>1, <1>5, <1>6, HeadTailProperties
<1>8. r \in Seq(T) /\ Len(r) = n - 1
  <2>1. \A i \in 1..n - 1 : Tail(q)[i] \in S
    BY <1>2, ElementOfSeq
  <2>2. r \in [1..n - 1 -> T]
    BY <1>4, <2>1
  <2>3. n - 1 \in Nat
    BY <1>1
  <2> QED  BY <1>4, <2>2, <2>3
<1>9. \A i \in 1..n - 1 : l[i] = r[i]
  <2>1. \A i \in 1..n - 1 : i + 1 \in 1..n
    BY <1>1
  <2> QED  BY <1>2, <1>4, <1>7, <2>1
<1>10. Head(Mapped(q, f)) = f[Head(q)]
  <2>1. 1 \in 1..n
    BY <1>1
  <2> QED  BY <1>4, <1>5, <1>6, <2>1
<1> QED  BY <1>6, <1>7, <1>8, <1>9, <1>10, SeqEqual

\* A step takes back no message that was sent and nothing that modify settled.
Lasting ==
  \A e \in Endpoints :
    /\ Len(sent[e]) \in Nat /\ Len(sent'[e]) \in Nat /\ Len(sent[e]) <= Len(sent'[e])
    /\ \A n \in 1..Len(sent[e]) :
         /\ sent'[e][n] = sent[e][n]
         /\ Settled(e, n) => arrived'[e][n] = arrived[e][n] /\ Settled(e, n)'

\* The bytes a token stands for stay what they are.
LEMMA TokenStays ==
  ASSUME Lasting, NEW t \in NP!MessageType, TokenOK(t)
  PROVE  Bytes(t)' = Bytes(t) /\ TokenOK(t)'
<1>1. /\ t.from \in Endpoints /\ t.seq \in 1..Len(sent[t.from])
      /\ t.altered => Settled(t.from, t.seq)
  BY DEF TokenOK, NP!MessageType
<1>2. /\ sent'[t.from][t.seq] = sent[t.from][t.seq]
      /\ t.altered => arrived'[t.from][t.seq] = arrived[t.from][t.seq] /\ Settled(t.from, t.seq)'
  BY <1>1, Zenon DEF Lasting
<1>3. t.seq \in 1..Len(sent'[t.from])
  <2>1. /\ Len(sent[t.from]) \in Nat /\ Len(sent'[t.from]) \in Nat
        /\ Len(sent[t.from]) <= Len(sent'[t.from])
    BY <1>1, Zenon DEF Lasting
  <2> QED  BY <1>1, <2>1
<1>4. Bytes(t)' = Bytes(t)
  BY <1>2, Zenon DEF Bytes
<1>5. TokenOK(t)'
  BY <1>2, <1>3, Zenon DEF TokenOK
<1> QED  BY <1>4, <1>5

\* The queues of LiveHandshake, token by token.
LEMMA BarIsMapped ==
  ASSUME queue \in [Endpoints -> Seq(NP!MessageType)]
  PROVE  \A e \in Endpoints : queueBar[e] = Mapped(queue[e], Reading)
<1> SUFFICES ASSUME NEW e \in Endpoints
             PROVE  queueBar[e] = Mapped(queue[e], Reading)
  OBVIOUS
<1>1. \A i \in DOMAIN queue[e] : queue[e][i] \in NP!MessageType
  <2> DEFINE T == NP!MessageType
  <2>1. queue[e] \in Seq(T)
    OBVIOUS
  <2> HIDE DEF T
  <2>2. \A i \in DOMAIN queue[e] : queue[e][i] \in T
    BY <2>1, LenProperties, ElementOfSeq
  <2> QED  BY <2>2 DEF T
<1>2. \A i \in DOMAIN queue[e] : Reading[queue[e][i]] = Bytes(queue[e][i])
  BY <1>1, Zenon DEF Reading
<1>3. queueBar[e] = [i \in DOMAIN queue[e] |-> Bytes(queue[e][i])]
  BY Zenon DEF queueBar
<1> QED  BY <1>2, <1>3, Zenon DEF Mapped

\* After a step too, the abstract queue is the queue as it would be read.
LEMMA BarIsMappedNext ==
  ASSUME queue' \in [Endpoints -> Seq(NP!MessageType)]
  PROVE  \A e \in Endpoints : queueBar'[e] = Mapped(queue'[e], Reading')
<1> SUFFICES ASSUME NEW e \in Endpoints
             PROVE  queueBar'[e] = Mapped(queue'[e], Reading')
  OBVIOUS
<1>1. \A i \in DOMAIN queue'[e] : queue'[e][i] \in NP!MessageType
  <2> DEFINE T == NP!MessageType
  <2>1. queue'[e] \in Seq(T)
    OBVIOUS
  <2> HIDE DEF T
  <2>2. \A i \in DOMAIN queue'[e] : queue'[e][i] \in T
    BY <2>1, LenProperties, ElementOfSeq
  <2> QED  BY <2>2 DEF T
<1>2. Reading' = [t \in NP!MessageType |->
                    IF t.altered THEN arrived'[t.from][t.seq] ELSE sent'[t.from][t.seq]]
  BY Zenon DEF Reading, Bytes
<1>3. queueBar'[e] = [i \in DOMAIN queue'[e] |->
                        IF queue'[e][i].altered
                        THEN arrived'[queue'[e][i].from][queue'[e][i].seq]
                        ELSE sent'[queue'[e][i].from][queue'[e][i].seq]]
  BY Zenon DEF queueBar, Bytes
<1> HIDE DEF NP!MessageType
<1>4. \A i \in DOMAIN queue'[e] :
        Reading'[queue'[e][i]] = IF queue'[e][i].altered
                                 THEN arrived'[queue'[e][i].from][queue'[e][i].seq]
                                 ELSE sent'[queue'[e][i].from][queue'[e][i].seq]
  BY <1>1, <1>2, Zenon
<1> QED  BY <1>3, <1>4, Zenon DEF Mapped

\* What a queue stood for it stands for after the step.
LEMMA MappedStays ==
  ASSUME Lasting, NEW q \in Seq(NP!MessageType), \A t \in NP!ToSet(q) : TokenOK(t)
  PROVE  Mapped(q, Reading') = Mapped(q, Reading)
<1>1. \A i \in DOMAIN q : q[i] \in NP!MessageType /\ q[i] \in NP!ToSet(q)
  <2> DEFINE T == NP!MessageType
  <2>1. q \in Seq(T)
    OBVIOUS
  <2> HIDE DEF T
  <2>2. \A i \in DOMAIN q : q[i] \in T
    BY <2>1, LenProperties, ElementOfSeq
  <2> QED  BY <2>2 DEF T, NP!ToSet
<1>2. \A t \in NP!MessageType : Reading[t] = Bytes(t)
  BY Zenon DEF Reading
<1>3. \A t \in NP!MessageType : Reading'[t] = Bytes(t)'
  BY Zenon DEF Reading
<1>4. \A i \in DOMAIN q : Reading'[q[i]] = Reading[q[i]]
  <2> SUFFICES ASSUME NEW i \in DOMAIN q
               PROVE  Reading'[q[i]] = Reading[q[i]]
    OBVIOUS
  <2>1. PICK t \in NP!MessageType : t = q[i] /\ TokenOK(t)
    BY <1>1
  <2> HIDE DEF NP!MessageType
  <2>2. Reading'[t] = Reading[t]
    BY <1>2, <1>3, <2>1, TokenStays
  <2> QED  BY <2>1, <2>2
<1> QED  BY <1>4, Zenon DEF Mapped

\* The tokens in a queue stand for messages that were sent.
LEMMA ElementsOK ==
  ASSUME QueuesOK, NEW d \in Endpoints
  PROVE  /\ queue[d] \in Seq(NP!MessageType)
         /\ NP!ToSet(queue[d]) \subseteq {t \in NP!MessageType : TokenOK(t)}
<1> DEFINE T == NP!MessageType
<1>1. queue[d] \in Seq(T) /\ \A t \in NP!ToSet(queue[d]) : TokenOK(t)
  BY DEF QueuesOK
<1> HIDE DEF T
<1>2. NP!ToSet(queue[d]) \subseteq T
  BY <1>1, LenProperties, ElementOfSeq DEF NP!ToSet
<1> QED  BY <1>1, <1>2 DEF T

\* The elements of a new queue are old ones or t.
LEMMA ElementsStay ==
  ASSUME Lasting, QueuesOK, queue' \in [Endpoints -> Seq(NP!MessageType)],
         NEW t \in NP!MessageType, TokenOK(t),
         \A d \in Endpoints : NP!ToSet(queue'[d]) \subseteq NP!ToSet(queue[d]) \cup {t}
  PROVE  QueuesOK'
<1>1. \A d \in Endpoints : \A u \in NP!ToSet(queue'[d]) : TokenOK(u)'
  <2> SUFFICES ASSUME NEW d \in Endpoints, NEW u \in NP!ToSet(queue'[d])
               PROVE  TokenOK(u)'
    OBVIOUS
  <2>1. PICK v \in NP!MessageType : v = u /\ TokenOK(v)
    BY ElementsOK
  <2>2. TokenOK(v)'
    BY <2>1, TokenStays
  <2> QED  BY <2>1, <2>2
<1> QED  BY <1>1, Zenon DEF QueuesOK

\* A queue nobody touches reads the same, though messages are sent.
LEMMA QueueStays ==
  ASSUME Lasting, QueuesOK, UNCHANGED queue
  PROVE  UNCHANGED queueBar /\ QueuesOK'
<1>1. \A d \in Endpoints : queueBar'[d] = queueBar[d]
  <2> SUFFICES ASSUME NEW d \in Endpoints
               PROVE  queueBar'[d] = queueBar[d]
    OBVIOUS
  <2>1. queueBar[d] = Mapped(queue[d], Reading) /\ queueBar'[d] = Mapped(queue'[d], Reading')
    BY BarIsMapped, BarIsMappedNext DEF QueuesOK
  <2>2. Mapped(queue[d], Reading') = Mapped(queue[d], Reading)
    BY MappedStays, ElementsOK
  <2> QED  BY <2>1, <2>2
<1>2. UNCHANGED queueBar
  BY <1>1, Zenon DEF queueBar
<1>3. \A d \in Endpoints : \A u \in NP!ToSet(queue'[d]) : TokenOK(u)'
  <2> SUFFICES ASSUME NEW d \in Endpoints, NEW u \in NP!ToSet(queue'[d])
               PROVE  TokenOK(u)'
    OBVIOUS
  <2>1. PICK v \in NP!MessageType : v = u /\ TokenOK(v)
    BY ElementsOK
  <2>2. TokenOK(v)'
    BY <2>1, TokenStays
  <2> QED  BY <2>1, <2>2
<1> QED  BY <1>2, <1>3, Zenon DEF QueuesOK

\* A put appends to the abstract queue what its token stands for.
LEMMA QueueGrows ==
  ASSUME Lasting, QueuesOK, NEW d \in Endpoints, NEW t \in NP!MessageType, TokenOK(t),
         queue' = [queue EXCEPT ![d] = Append(@, t)]
  PROVE  queueBar' = [queueBar EXCEPT ![d] = @ \o <<Bytes(t)>>] /\ QueuesOK'
<1> HIDE DEF NP!MessageType
<1>1. queue \in [Endpoints -> Seq(NP!MessageType)]
  BY DEF QueuesOK
<1>2. queue[d] \in Seq(NP!MessageType)
  BY <1>1
<1>3. /\ Append(queue[d], t) \in Seq(NP!MessageType)
      /\ NP!ToSet(Append(queue[d], t)) = NP!ToSet(queue[d]) \cup {t}
  BY <1>2, NP!AppendSet, SimAssumptions
<1>4. /\ queue' \in [Endpoints -> Seq(NP!MessageType)]
      /\ queue'[d] = Append(queue[d], t) /\ \A c \in Endpoints : c # d => queue'[c] = queue[c]
  BY <1>1, <1>3
<1>5. Reading'[t] = Bytes(t)
  <2>1. Reading'[t] = Bytes(t)'
    BY Zenon DEF Reading
  <2> QED  BY <2>1, TokenStays
<1>6. queueBar'[d] = queueBar[d] \o <<Bytes(t)>>
  <2>1. queueBar[d] = Mapped(queue[d], Reading) /\ queueBar'[d] = Mapped(queue'[d], Reading')
    BY <1>1, <1>4, BarIsMapped, BarIsMappedNext
  <2>2. Mapped(queue[d], Reading') = Mapped(queue[d], Reading)
    BY MappedStays, ElementsOK
  <2>3. Mapped(Append(queue[d], t), Reading') = Mapped(queue[d], Reading') \o <<Reading'[t]>>
    BY <1>2, MappedAppend
  <2> QED  BY <1>4, <1>5, <2>1, <2>2, <2>3
<1>7. \A c \in Endpoints : c # d => queueBar'[c] = queueBar[c]
  <2> SUFFICES ASSUME NEW c \in Endpoints, c # d
               PROVE  queueBar'[c] = queueBar[c]
    OBVIOUS
  <2>1. queueBar[c] = Mapped(queue[c], Reading) /\ queueBar'[c] = Mapped(queue'[c], Reading')
    BY <1>1, <1>4, BarIsMapped, BarIsMappedNext
  <2>2. Mapped(queue[c], Reading') = Mapped(queue[c], Reading)
    BY MappedStays, ElementsOK
  <2> QED  BY <1>4, <2>1, <2>2
<1>8. queueBar' = [queueBar EXCEPT ![d] = @ \o <<Bytes(t)>>]
  BY <1>6, <1>7, Zenon DEF queueBar
<1>9. \A c \in Endpoints : NP!ToSet(queue'[c]) \subseteq NP!ToSet(queue[c]) \cup {t}
  BY <1>3, <1>4
<1> QED  BY <1>4, <1>8, <1>9, ElementsStay

\* A get removes from the abstract queue what its token stands for.
LEMMA QueueShrinks ==
  ASSUME Lasting, QueuesOK, NEW d \in Endpoints, queue[d] # <<>>,
         queue' = [queue EXCEPT ![d] = Tail(@)]
  PROVE  /\ queueBar[d] # <<>> /\ Head(queueBar[d]) = Bytes(Head(queue[d]))
         /\ queueBar' = [queueBar EXCEPT ![d] = Tail(@)] /\ QueuesOK'
<1> HIDE DEF NP!MessageType
<1>1. queue \in [Endpoints -> Seq(NP!MessageType)]
  BY DEF QueuesOK
<1>2. queue[d] \in Seq(NP!MessageType)
  BY <1>1
<1>3. /\ Head(queue[d]) \in NP!MessageType /\ Tail(queue[d]) \in Seq(NP!MessageType)
      /\ NP!ToSet(queue[d]) = {Head(queue[d])} \cup NP!ToSet(Tail(queue[d]))
  BY <1>2, NP!TailSet, SimAssumptions
<1>4. /\ queue' \in [Endpoints -> Seq(NP!MessageType)]
      /\ queue'[d] = Tail(queue[d]) /\ \A c \in Endpoints : c # d => queue'[c] = queue[c]
  BY <1>1, <1>3
<1>5. /\ queueBar[d] # <<>> /\ Head(queueBar[d]) = Bytes(Head(queue[d]))
      /\ Tail(queueBar[d]) = Mapped(Tail(queue[d]), Reading)
  <2>1. queueBar[d] = Mapped(queue[d], Reading)
    BY <1>1, BarIsMapped
  <2>2. Reading[Head(queue[d])] = Bytes(Head(queue[d]))
    BY <1>3, Zenon DEF Reading
  <2> QED  BY <1>2, <2>1, <2>2, MappedTail
<1>6. \A c \in Endpoints : NP!ToSet(queue'[c]) \subseteq NP!ToSet(queue[c]) \cup {Head(queue[d])}
  BY <1>3, <1>4
<1>7. TokenOK(Head(queue[d]))
  BY <1>3, ElementsOK
<1>8. QueuesOK'
  BY <1>3, <1>4, <1>6, <1>7, ElementsStay
<1>9. queueBar'[d] = Tail(queueBar[d])
  <2>1. queueBar'[d] = Mapped(queue'[d], Reading')
    BY <1>4, BarIsMappedNext
  <2>2. NP!ToSet(Tail(queue[d])) \subseteq {t \in NP!MessageType : TokenOK(t)}
    BY <1>3, ElementsOK
  <2>3. Mapped(Tail(queue[d]), Reading') = Mapped(Tail(queue[d]), Reading)
    BY <1>3, <2>2, MappedStays
  <2> QED  BY <1>4, <1>5, <2>1, <2>3
<1>10. \A c \in Endpoints : c # d => queueBar'[c] = queueBar[c]
  <2> SUFFICES ASSUME NEW c \in Endpoints, c # d
               PROVE  queueBar'[c] = queueBar[c]
    OBVIOUS
  <2>1. queueBar[c] = Mapped(queue[c], Reading) /\ queueBar'[c] = Mapped(queue'[c], Reading')
    BY <1>1, <1>4, BarIsMapped, BarIsMappedNext
  <2>2. Mapped(queue[c], Reading') = Mapped(queue[c], Reading)
    BY MappedStays, ElementsOK
  <2> QED  BY <1>4, <2>1, <2>2
<1>11. queueBar' = [queueBar EXCEPT ![d] = Tail(@)]
  BY <1>9, <1>10, Zenon DEF queueBar
<1> QED  BY <1>5, <1>8, <1>11
-----------------------------------------------------------------------------
(* The ways a send goes on.                                                 *)

SendState == <<at, current, pending, fate>>

\* A thread has at most one message without a fate, and one while in a send.
LEMMA Lengths ==
  ASSUME NetInv, NEW e \in Endpoints
  PROVE  /\ Len(sent[e]) \in Nat /\ Len(fate[e]) \in Nat /\ Len(arrived[e]) = Len(sent[e])
         /\ fate[e] \in Seq(NP!Fates) /\ pending[e] \in Seq(Hooks)
         /\ sent[e] \in Seq(wire) /\ arrived[e] \in Seq(Msgs)
         /\ Len(sent[e]) = Len(fate[e]) \/ Len(sent[e]) = Len(fate[e]) + 1
         /\ at[e] # "idle" => Len(sent[e]) = Len(fate[e]) + 1
<1>1. /\ fate[e] \in Seq(NP!Fates) /\ pending[e] \in Seq(Hooks)
      /\ sent[e] \in Seq(wire) /\ arrived[e] \in Seq(Msgs)
  BY DEF NetInv, NP!SimInv, NP!Types, Typed
<1> HIDE DEF NP!Fates, Msgs
<1>2. Len(sent[e]) \in Nat /\ Len(fate[e]) \in Nat
  BY <1>1, LenProperties
<1> QED  BY <1>1, <1>2, Zenon DEF NetInv, Threads, ThreadOK

\* Nothing happens to e.
Rests(e) ==
  /\ at'[e] = at[e] /\ current'[e] = current[e] /\ pending'[e] = pending[e]
  /\ fate'[e] = fate[e] /\ sent'[e] = sent[e] /\ arrived'[e] = arrived[e]

LastingOf(e) ==
  /\ Len(sent[e]) \in Nat /\ Len(sent'[e]) \in Nat /\ Len(sent[e]) <= Len(sent'[e])
  /\ \A n \in 1..Len(sent[e]) :
       /\ sent'[e][n] = sent[e][n]
       /\ Settled(e, n) => arrived'[e][n] = arrived[e][n] /\ Settled(e, n)'

\* A thread that rests keeps its part of the coupling.
LEMMA RestStep ==
  ASSUME NetInv, NEW e \in Endpoints, Rests(e)
  PROVE  LastingOf(e) /\ ThreadOK(e)' /\ outboxBar'[e] = outboxBar[e]
<1>1. \A n : Settled(e, n)' <=> Settled(e, n)
  BY Zenon DEF Rests, Settled, NP!This
<1>2. LastingOf(e)
  BY <1>1, Lengths DEF LastingOf, Rests
<1>3. outboxBar'[e] = outboxBar[e]
  BY Zenon DEF outboxBar, Rests
<1>4. NP!This(e)' = NP!This(e)
  BY Zenon DEF NP!This, Rests
<1>5. ThreadOK(e)
  BY DEF NetInv, Threads
<1>6. Settled(e, NP!This(e)) => (Settled(e, NP!This(e)))'
  <2> DEFINE n == NP!This(e)
  <2>1. n' = n
    BY <1>4
  <2>2. Settled(e, n)' <=> Settled(e, n)
    BY <1>4, Zenon DEF Rests, Settled, NP!This
  <2> QED  BY <2>2
<1>7. ThreadOK(e)'
  BY <1>4, <1>5, <1>6, Zenon DEF ThreadOK, Rests
<1> QED  BY <1>2, <1>3, <1>7

\* The send goes on to the next lock.
LEMMA EnterStep ==
  ASSUME NetInv, NEW e \in Endpoints, Len(sent[e]) = Len(fate[e]) + 1, at[e] # "hooks",
         fate'[e] = fate[e], sent'[e] = sent[e], arrived'[e] = arrived[e],
         at'[e] = "hooks" => ~current'[e].altered
  PROVE  LastingOf(e) /\ ThreadOK(e)' /\ outboxBar'[e] = outboxBar[e]
<1>1. \A n : Settled(e, n) => Settled(e, n)'
  BY Zenon DEF Settled, NP!This
<1>2. LastingOf(e)
  BY <1>1, Lengths DEF LastingOf
<1>3. outboxBar'[e] = outboxBar[e]
  BY Zenon DEF outboxBar
<1>4. ThreadOK(e)'
  BY Lengths DEF ThreadOK
<1> QED  BY <1>2, <1>3, <1>4

\* The send returns or raises.
LEMMA EndStep ==
  ASSUME NetInv, NEW e \in Endpoints, Len(sent[e]) = Len(fate[e]) + 1, NEW how \in NP!Fates,
         fate'[e] = Append(fate[e], how), at'[e] = "idle",
         sent'[e] = sent[e], arrived'[e] = arrived[e]
  PROVE  /\ LastingOf(e) /\ ThreadOK(e)' /\ outboxBar'[e] = <<>>
         /\ outboxBar[e] = <<sent[e][Len(sent[e])]>>
         /\ fate'[e] # fate[e] /\ Net!Last(fate'[e]) = how
<1> HIDE DEF NP!Fates
<1>1. /\ Len(sent[e]) \in Nat /\ Len(fate[e]) \in Nat /\ fate[e] \in Seq(NP!Fates)
      /\ Len(arrived[e]) = Len(sent[e])
  BY Lengths
<1>2. Len(fate'[e]) = Len(fate[e]) + 1 /\ fate'[e][Len(fate[e]) + 1] = how
  BY <1>1, AppendProperties
<1>3. \A n \in 1..Len(sent[e]) : Settled(e, n)'
  BY <1>2, Zenon DEF Settled
<1>4. LastingOf(e)
  BY <1>1, <1>3 DEF LastingOf
<1>5. outboxBar[e] = <<sent[e][Len(sent[e])]>> /\ outboxBar'[e] = <<>>
  <2>1. Len(sent[e]) # Len(fate[e]) /\ Len(sent'[e]) = Len(fate'[e])
    BY <1>1, <1>2
  <2> QED  BY <2>1, Zenon DEF outboxBar
<1>6. ThreadOK(e)'
  BY <1>1, <1>2 DEF ThreadOK
<1>7. fate'[e] # fate[e] /\ Net!Last(fate'[e]) = how
  BY <1>1, <1>2 DEF Net!Last
<1> QED  BY <1>4, <1>5, <1>6, <1>7

\* A hook passes the message on as it is.
LEMMA PassStep ==
  ASSUME NetInv, NEW e \in Endpoints, at[e] = "hooks", pending[e] # <<>>,
         fate'[e] = fate[e], at'[e] = at[e], pending'[e] = Tail(pending[e]),
         current'[e] = current[e], sent'[e] = sent[e], arrived'[e] = arrived[e]
  PROVE  LastingOf(e) /\ ThreadOK(e)' /\ outboxBar'[e] = outboxBar[e]
<1>1. NP!ToSet(Tail(pending[e])) \subseteq NP!ToSet(pending[e])
  BY Lengths, NP!TailSet, SimAssumptions
<1>2. \A n : Settled(e, n) => Settled(e, n)'
  BY <1>1, Zenon DEF Settled, NP!This
<1>3. LastingOf(e)
  BY <1>2, Lengths DEF LastingOf
<1>4. outboxBar'[e] = outboxBar[e]
  BY Zenon DEF outboxBar
<1>5. NP!This(e)' = NP!This(e)
  BY Zenon DEF NP!This
<1>6. Settled(e, NP!This(e)) => (Settled(e, NP!This(e)))'
  BY <1>1, <1>5, Zenon DEF Settled
<1>7. ThreadOK(e)
  BY DEF NetInv, Threads
<1>8. ThreadOK(e)'
  BY <1>5, <1>6, <1>7, Zenon DEF ThreadOK
<1> QED  BY <1>3, <1>4, <1>8

\* A modify hook makes other bytes of it.
LEMMA AlterStep ==
  ASSUME NetInv, NEW e \in Endpoints, at[e] = "hooks", pending[e] # <<>>,
         Head(pending[e]) = "modify",
         NEW m \in Live!Altered(sent[e][Len(sent[e])]),
         fate'[e] = fate[e], at'[e] = at[e], pending'[e] = Tail(pending[e]),
         sent'[e] = sent[e], arrived'[e] = [arrived[e] EXCEPT ![Len(sent[e])] = m]
  PROVE  LastingOf(e) /\ ThreadOK(e)' /\ outboxBar'[e] = outboxBar[e] /\ m \in Msgs
<1> DEFINE n == Len(sent[e])
<1>1. /\ n \in Nat /\ Len(fate[e]) \in Nat /\ n = Len(fate[e]) + 1
      /\ sent[e] \in Seq(wire) /\ arrived[e] \in Seq(Msgs) /\ Len(arrived[e]) = n
  BY Lengths
<1>2. /\ NP!ToSet(pending[e]) = {"modify"} \cup NP!ToSet(Tail(pending[e]))
      /\ "modify" \notin NP!ToSet(Tail(pending[e]))
  <2>1. NP!IsInjective(pending[e])
    BY DEF NetInv, NP!SimInv, NP!HooksOK
  <2> QED  BY <2>1, Lengths, NP!TailSet, SimAssumptions
<1>3. n = NP!This(e) /\ NP!This(e)' = n
  BY <1>1 DEF NP!This
<1>4. \A k : Settled(e, k) => k # n /\ Settled(e, k)'
  <2>1. \A k \in 1..Len(fate[e]) : k # n
    BY <1>1
  <2>2. "modify" \in NP!ToSet(pending[e])
    BY <1>2
  <2> QED  BY <1>1, <1>3, <2>1, <2>2, Zenon DEF Settled
<1>5. n \in 1..n /\ sent[e][n] \in wire
  <2>1. n \in 1..n
    BY <1>1
  <2> QED  BY <1>1, <2>1, ElementOfSeq
<1>6. m \in Msgs
  BY <1>5 DEF Msgs
<1> HIDE DEF Msgs
<1>7. /\ Len(arrived'[e]) = n /\ arrived'[e][n] = m
      /\ \A k \in 1..n : k # n => arrived'[e][k] = arrived[e][k]
  BY <1>1, <1>5, <1>6, ExceptSeq
<1>8. LastingOf(e)
  <2>1. \A k \in 1..n : Settled(e, k) => arrived'[e][k] = arrived[e][k] /\ Settled(e, k)'
    BY <1>4, <1>7, Zenon
  <2> QED  BY <1>1, <2>1 DEF LastingOf
<1>9. outboxBar'[e] = outboxBar[e]
  BY Zenon DEF outboxBar
<1>10. Settled(e, n)'
  BY <1>2, <1>3, Zenon DEF Settled
<1>11. ThreadOK(e)'
  <2>1. NP!This(e)' = n /\ (Settled(e, NP!This(e)))'
    BY <1>2, <1>3, Zenon DEF Settled
  <2>2. Len(arrived'[e]) = Len(sent'[e]) /\ Len(sent'[e]) = Len(fate'[e]) + 1
    BY <1>1, <1>7
  <2>3. arrived'[e][n] \in Live!Altered(sent'[e][n])
    BY <1>7
  <2> QED  BY <1>3, <2>1, <2>2, <2>3, Zenon DEF ThreadOK
<1> QED  BY <1>6, <1>8, <1>9, <1>11

\* A sequence with at most one element more begins as before.
LEMMA Extended ==
  ASSUME NEW S, NEW q \in Seq(S), NEW r \in Seq(S), Len(r) \in {0, 1}
  PROVE  /\ q \o r \in Seq(S) /\ Len(q \o r) = Len(q) + Len(r)
         /\ \A i \in 1..Len(q) : (q \o r)[i] = q[i]
         /\ Len(r) = 1 => (q \o r)[Len(q) + 1] = r[1]
<1>1. Len(q) \in Nat
  BY LenProperties
<1>2. /\ q \o r \in Seq(S) /\ Len(q \o r) = Len(q) + Len(r)
      /\ \A i \in 1..Len(q) + Len(r) :
           (q \o r)[i] = IF i <= Len(q) THEN q[i] ELSE r[i - Len(q)]
  BY ConcatProperties
<1>3. \A i \in 1..Len(q) : (q \o r)[i] = q[i]
  <2>1. \A i \in 1..Len(q) : i \in 1..Len(q) + Len(r) /\ i <= Len(q)
    BY <1>1
  <2> QED  BY <1>2, <2>1
<1>4. ASSUME Len(r) = 1
      PROVE  (q \o r)[Len(q) + 1] = r[1]
  <2>1. Len(q) + 1 \in 1..Len(q) + Len(r) /\ ~(Len(q) + 1 <= Len(q)) /\ Len(q) + 1 - Len(q) = 1
    BY <1>1, <1>4
  <2> QED  BY <1>2, <2>1
<1> QED  BY <1>2, <1>3, <1>4

\* What a handler returned is a sequence of at most one message.
LEMMA NoneOrOne ==
  ASSUME NEW S, NEW r, r = <<>> \/ \E m \in S : r = <<m>>
  PROVE  r \in Seq(S) /\ Len(r) \in {0, 1} /\ (r # <<>> => Len(r) = 1 /\ r = <<r[1]>>)
<1>1. CASE r = <<>>
  BY <1>1, EmptySeq
<1>2. CASE \E m \in S : r = <<m>>
  BY <1>2
<1> QED  BY <1>1, <1>2

\* A handler returned, perhaps a message to send.
LEMMA HandlerStep ==
  ASSUME NetInv, NEW e \in Endpoints, Len(sent[e]) = Len(fate[e]), wire \subseteq wire',
         NEW r, r = <<>> \/ \E m \in wire' : r = <<m>>,
         at'[e] = at[e], pending'[e] = pending[e], fate'[e] = fate[e],
         sent'[e] = sent[e] \o r, arrived'[e] = arrived[e] \o r
  PROVE  /\ LastingOf(e) /\ ThreadOK(e)' /\ outboxBar[e] = <<>> /\ outboxBar'[e] = r
         /\ sent'[e] \in Seq(wire') /\ arrived'[e] \in Seq(Msgs')
<1> DEFINE n == Len(sent[e])
<1>1. /\ n \in Nat /\ Len(fate[e]) = n /\ Len(arrived[e]) = n /\ at[e] = "idle"
      /\ sent[e] \in Seq(wire) /\ arrived[e] \in Seq(Msgs)
  BY Lengths
<1>2. Msgs \subseteq Msgs' /\ wire' \subseteq Msgs'
  BY DEF Msgs, Live!Altered, Live!Damaged, Live!Malformed
<1> HIDE DEF Msgs
<1>3. sent[e] \in Seq(wire') /\ arrived[e] \in Seq(Msgs')
  BY <1>1, <1>2
<1>4. /\ sent'[e] \in Seq(wire') /\ Len(sent'[e]) = n + Len(r) /\ Len(r) \in {0, 1}
      /\ \A i \in 1..n : sent'[e][i] = sent[e][i]
      /\ r # <<>> => Len(r) = 1 /\ r = <<sent'[e][n + 1]>>
  <2> DEFINE W == wire'
  <2>1. sent[e] \in Seq(W) /\ r \in Seq(W) /\ Len(r) \in {0, 1}
    BY <1>3, NoneOrOne
  <2>2. r # <<>> => Len(r) = 1 /\ r = <<r[1]>>
    BY NoneOrOne
  <2> HIDE DEF W
  <2>3. /\ sent[e] \o r \in Seq(W) /\ Len(sent[e] \o r) = Len(sent[e]) + Len(r)
        /\ \A i \in 1..Len(sent[e]) : (sent[e] \o r)[i] = sent[e][i]
        /\ Len(r) = 1 => (sent[e] \o r)[Len(sent[e]) + 1] = r[1]
    BY <2>1, Extended
  <2> QED  BY <2>1, <2>2, <2>3, Zenon DEF W
<1>5. /\ arrived'[e] \in Seq(Msgs') /\ Len(arrived'[e]) = n + Len(r)
      /\ \A i \in 1..n : arrived'[e][i] = arrived[e][i]
  <2> DEFINE W == Msgs'
  <2>1. arrived[e] \in Seq(W) /\ r \in Seq(W) /\ Len(r) \in {0, 1}
    BY <1>2, <1>3, NoneOrOne
  <2> HIDE DEF W
  <2>2. /\ arrived[e] \o r \in Seq(W) /\ Len(arrived[e] \o r) = Len(arrived[e]) + Len(r)
        /\ \A i \in 1..Len(arrived[e]) : (arrived[e] \o r)[i] = arrived[e][i]
    BY <2>1, Extended
  <2> QED  BY <1>1, <2>2, Zenon DEF W
<1>6. \A k : Settled(e, k) => Settled(e, k)'
  BY Zenon DEF Settled, NP!This
<1>7. LastingOf(e)
  <2>1. n + Len(r) \in Nat /\ n <= n + Len(r)
    BY <1>1, <1>4
  <2> QED  BY <1>1, <1>4, <1>5, <1>6, <2>1, Zenon DEF LastingOf
<1>8. ThreadOK(e)'
  <2>1. Len(arrived'[e]) = Len(sent'[e]) /\ Len(fate'[e]) = n
    BY <1>1, <1>4, <1>5, Zenon
  <2>2. \A k \in {0, 1} : n + k = n \/ n + k = n + 1
    BY <1>1
  <2>3. Len(sent'[e]) = n \/ Len(sent'[e]) = n + 1
    BY <1>4, <2>2, Zenon
  <2>4. at'[e] = "idle" /\ "idle" # "hooks"
    BY <1>1
  <2> QED  BY <2>1, <2>3, <2>4, Zenon DEF ThreadOK
<1>9. outboxBar[e] = <<>>
  BY <1>1, Zenon DEF outboxBar
<1>10. outboxBar'[e] = r
  <2>1. CASE r = <<>>
    <3>1. Len(sent'[e]) = Len(fate'[e])
      BY <1>1, <1>4, <2>1
    <3> QED  BY <2>1, <3>1, Zenon DEF outboxBar
  <2>2. CASE r # <<>>
    <3>1. Len(sent'[e]) = n + 1 /\ Len(fate'[e]) = n
      BY <1>1, <1>4, <2>2, Zenon
    <3>2. Len(sent'[e]) # Len(fate'[e])
      BY <1>1, <3>1
    <3> QED  BY <1>4, <2>2, <3>1, <3>2, Zenon DEF outboxBar
  <2> QED  BY <2>1, <2>2
<1> QED  BY <1>4, <1>5, <1>7, <1>8, <1>9, <1>10

\* One thread goes on while the others rest.
LEMMA OneGoesOn ==
  ASSUME NetInv, NEW e \in Endpoints, LastingOf(e), ThreadOK(e)',
         \A c \in Endpoints \ {e} : Rests(c)
  PROVE  /\ Lasting /\ Threads'
         /\ outboxBar' = [outboxBar EXCEPT ![e] = outboxBar'[e]]
<1>1. \A c \in Endpoints \ {e} : LastingOf(c) /\ ThreadOK(c)' /\ outboxBar'[c] = outboxBar[c]
  BY RestStep
<1>2. Lasting
  BY <1>1, Zenon DEF Lasting, LastingOf
<1>3. Threads'
  BY <1>1, Zenon DEF Threads
<1>4. \A c \in Endpoints : outboxBar'[c] = [outboxBar EXCEPT ![e] = outboxBar'[e]][c]
  BY <1>1, Zenon DEF outboxBar
<1> QED  BY <1>2, <1>3, <1>4, Zenon DEF outboxBar

\* A step in which every thread rests keeps the coupling of all.
LEMMA AllRest ==
  ASSUME NetInv, \A c \in Endpoints : Rests(c)
  PROVE  Lasting /\ Threads' /\ UNCHANGED outboxBar
<1>1. \A c \in Endpoints : LastingOf(c) /\ ThreadOK(c)' /\ outboxBar'[c] = outboxBar[c]
  BY RestStep
<1>2. Lasting
  BY <1>1, Zenon DEF Lasting, LastingOf
<1>3. Threads'
  BY <1>1, Zenon DEF Threads
<1> QED  BY <1>1, <1>2, <1>3, Zenon DEF outboxBar

-----------------------------------------------------------------------------
(* The threads.                                                             *)

\* A handler takes back no message.
LEMMA CallGrows ==
  ASSUME NEW e \in Endpoints, Live!CreateM1(e) \/ \E m : Live!CallHandler(e, m)
  PROVE  wire \subseteq wire'
<1>1. \A s, m : Live!Return(e, s, m) => wire \subseteq wire'
  BY DEF Live!Return
<1>2. \A s, x : Live!Raise(e, s, x) => wire \subseteq wire'
  BY DEF Live!Raise
<1>3. Live!CreateM1(e) => wire \subseteq wire'
  BY <1>1, <1>2 DEF Live!CreateM1
<1>4. \A m : Live!ProcessM1(e, m) => wire \subseteq wire'
  BY <1>1, <1>2 DEF Live!ProcessM1
<1>5. \A m : Live!ProcessM2(e, m) => wire \subseteq wire'
  BY <1>1, <1>2 DEF Live!ProcessM2
<1>6. \A m : Live!ProcessM3(e, m) => wire \subseteq wire'
  BY <1>1, <1>2 DEF Live!ProcessM3
<1>7. \A m : Live!ProcessM4(e, m) => wire \subseteq wire'
  BY <1>1, <1>2 DEF Live!ProcessM4
<1>8. \A m : Live!ProcessM5(e, m) => wire \subseteq wire'
  BY <1>1, <1>2 DEF Live!ProcessM5
<1>9. \A m : Live!ProcessM6(e, m) => wire \subseteq wire'
  BY <1>2 DEF Live!ProcessM6
<1> QED  BY <1>3, <1>4, <1>5, <1>6, <1>7, <1>8, <1>9, Zenon DEF Live!CallHandler

\* Its message, if it returned one, is the thread's to send.
LEMMA CallReturns ==
  ASSUME NetInv, NEW e \in Endpoints, Live!CreateM1(e) \/ \E m : Live!CallHandler(e, m),
         HandlerReturns(e), Len(sent[e]) = Len(fate[e]), UNCHANGED SendState
  PROVE  /\ Lasting /\ Threads' /\ outboxBar[e] = <<>>
         /\ outboxBar' = [outboxBar EXCEPT ![e] = Live!Returned]
         /\ sent' \in [Endpoints -> Seq(wire')] /\ arrived' \in [Endpoints -> Seq(Msgs')]
<1> DEFINE r == Live!Returned
<1>1. wire \subseteq wire'
  BY CallGrows
<1>2. r = <<>> \/ \E m \in wire' : r = <<m>>
  BY <1>1 DEF Live!Returned
<1>3. /\ sent \in [Endpoints -> Seq(wire)] /\ arrived \in [Endpoints -> Seq(Msgs)]
      /\ sent' = [sent EXCEPT ![e] = @ \o r] /\ arrived' = [arrived EXCEPT ![e] = @ \o r]
  BY DEF NetInv, Typed, HandlerReturns
<1> HIDE DEF r
<1>4. /\ sent'[e] = sent[e] \o r /\ arrived'[e] = arrived[e] \o r
      /\ \A c \in Endpoints \ {e} : sent'[c] = sent[c] /\ arrived'[c] = arrived[c]
  BY <1>3
<1>5. /\ LastingOf(e) /\ ThreadOK(e)' /\ outboxBar[e] = <<>> /\ outboxBar'[e] = r
      /\ sent'[e] \in Seq(wire') /\ arrived'[e] \in Seq(Msgs')
  BY <1>1, <1>2, <1>4, HandlerStep DEF SendState
<1>6. \A c \in Endpoints \ {e} : Rests(c)
  BY <1>4, Zenon DEF Rests, SendState
<1>7. Lasting /\ Threads' /\ outboxBar' = [outboxBar EXCEPT ![e] = r]
  BY <1>5, <1>6, OneGoesOn
<1>8. sent' \in [Endpoints -> Seq(wire')]
  BY <1>1, <1>3, <1>5
<1>9. arrived' \in [Endpoints -> Seq(Msgs')]
  <2>1. Msgs \subseteq Msgs'
    BY <1>1 DEF Msgs, Live!Altered, Live!Damaged, Live!Malformed
  <2> HIDE DEF Msgs
  <2> QED  BY <1>3, <1>5, <2>1
<1> QED  BY <1>5, <1>7, <1>8, <1>9 DEF r

\* What is left to show of the invariant, beside what StepInv gives.
Rest == Typed /\ Threads /\ QueuesOK
After == Lasting /\ Rest'

\* create_m1 is the abstract start (_harness.py 85-88).
LEMMA StartMaps ==
  ASSUME NetInv, NEW e \in Endpoints, Start(e)
  PROVE  Live!Start(e) /\ After
<1>1. /\ sent[e] = <<>> /\ Live!CreateM1(e) /\ HandlerReturns(e)
      /\ UNCHANGED <<faults, simVars>> /\ e \in Servers /\ thread[e] = "running"
  BY Zenon DEF Start
<1>2. Len(sent[e]) = Len(fate[e])
  <2>1. Len(sent[e]) = 0
    BY <1>1
  <2> QED  BY <2>1, Lengths
<1>3. UNCHANGED SendState /\ UNCHANGED queue
  BY <1>1, Zenon DEF simVars, SendState
<1>4. /\ Lasting /\ Threads' /\ outboxBar' = [outboxBar EXCEPT ![e] = Live!Returned]
      /\ sent' \in [Endpoints -> Seq(wire')] /\ arrived' \in [Endpoints -> Seq(Msgs')]
  BY <1>1, <1>2, <1>3, CallReturns
<1>5. UNCHANGED queueBar /\ QueuesOK'
  BY <1>3, <1>4, QueueStays DEF NetInv
<1>6. Typed'
  BY <1>1, <1>4 DEF Typed, NetInv
<1>7. Live!Start(e)
  BY <1>1, <1>4, <1>5, Zenon DEF Live!Start, Live!Outcome, HandlerReturns
<1> QED  BY <1>4, <1>5, <1>6, <1>7 DEF Rest, After

\* A thread that receives is outside send.
LEMMA ReceivingOutside ==
  ASSUME NetInv, NEW e \in Endpoints, Live!Receiving(e)
  PROVE  Len(sent[e]) = Len(fate[e]) /\ outboxBar[e] = <<>>
<1>1. outboxBar[e] = <<>>
  BY Zenon DEF Live!Receiving
<1>2. outboxBar[e] = IF Len(sent[e]) = Len(fate[e]) THEN <<>> ELSE <<sent[e][Len(sent[e])]>>
  BY Zenon DEF outboxBar
<1>3. <<sent[e][Len(sent[e])]>> # <<>>
  OBVIOUS
<1> QED  BY <1>1, <1>2, <1>3, Zenon

\* receive takes the head of the queue.
LEMMA ReceiveTakes ==
  ASSUME NetInv, NEW e \in Endpoints, Net!Receive(e), Lasting
  PROVE  /\ queueBar[e] # <<>> /\ Head(queueBar[e]) = Bytes(Head(queue[e]))
         /\ queueBar' = [queueBar EXCEPT ![e] = Tail(@)] /\ QueuesOK'
<1>1. queue[e] # <<>> /\ queue' = [queue EXCEPT ![e] = Tail(@)]
  BY Zenon DEF Net!Receive
<1> QED  BY <1>1, QueueShrinks DEF NetInv

\* A message handled is handled by the abstract thread.
LEMMA RespondMaps ==
  ASSUME NetInv, NEW e \in Endpoints, Respond(e)
  PROVE  After /\ (faults' >= 0 => Live!Handle(e))
<1> DEFINE m == Bytes(Head(queue[e]))
<1>1. /\ Live!Receiving(e) /\ Net!Receive(e) /\ HandlerReturns(e)
      /\ Live!Decodes(e, m) /\ Live!CallHandler(e, m)
      /\ faults' = IF exc'[e] = "RuntimeError" THEN faults - 1 ELSE faults
  BY Zenon DEF Respond
<1> HIDE DEF m
<1>2. Len(sent[e]) = Len(fate[e])
  BY <1>1, ReceivingOutside
<1>3. UNCHANGED SendState
  BY <1>1, Zenon DEF Net!Receive, Net!sendVars, SendState
<1>4. \E n : Live!CallHandler(e, n)
  BY <1>1, Zenon
<1>5. /\ Lasting /\ Threads' /\ outboxBar' = [outboxBar EXCEPT ![e] = Live!Returned]
      /\ sent' \in [Endpoints -> Seq(wire')] /\ arrived' \in [Endpoints -> Seq(Msgs')]
  BY <1>1, <1>2, <1>3, <1>4, CallReturns
<1>6. /\ queueBar[e] # <<>> /\ Head(queueBar[e]) = m
      /\ queueBar' = [queueBar EXCEPT ![e] = Tail(@)] /\ QueuesOK'
  BY <1>1, <1>5, ReceiveTakes DEF m
<1>7. faults \in Int
  BY DEF NetInv, Typed
<1>8. faults' \in Int /\ (faults' >= 0 => Live!EntropyFault(e))
  BY <1>1, <1>7 DEF Live!EntropyFault
<1>9. Typed'
  BY <1>5, <1>8 DEF Typed
<1>10. faults' >= 0 => Live!Handle(e)
  BY <1>1, <1>5, <1>6, <1>8, Zenon
     DEF Live!Handle, Live!Respond, Live!Outcome, HandlerReturns
<1> QED  BY <1>5, <1>6, <1>9, <1>10 DEF Rest, After

\* No thread's place changes, and no message.
LEMMA AsideKeeps ==
  ASSUME NetInv, UNCHANGED <<sent, arrived, SendState>>
  PROVE  /\ Lasting /\ Threads' /\ UNCHANGED outboxBar
         /\ wire' = wire /\ faults' \in Int => Typed'
<1>1. \A c \in Endpoints : Rests(c)
  BY Zenon DEF Rests, SendState
<1>2. Lasting /\ Threads' /\ UNCHANGED outboxBar
  BY <1>1, AllRest
<1>3. ASSUME wire' = wire, faults' \in Int
      PROVE  Typed'
  <2>1. Msgs' = Msgs
    BY <1>3, Zenon DEF Msgs
  <2> HIDE DEF Msgs
  <2> QED  BY <1>3, <2>1 DEF Typed, NetInv
<1> QED  BY <1>2, <1>3

\* Bytes that do not decode end the abstract thread too.
LEMMA UndecodableMaps ==
  ASSUME NetInv, NEW e \in Endpoints, Undecodable(e)
  PROVE  Live!Undecodable(e) /\ After
<1>1. /\ Live!Receiving(e) /\ Net!Receive(e) /\ ~Live!Decodes(e, Bytes(Head(queue[e])))
      /\ thread' = [thread EXCEPT ![e] = "error"]
      /\ UNCHANGED <<vars, sent, arrived, faults>>
  BY Zenon DEF Undecodable
<1>2. UNCHANGED <<sent, arrived, SendState>> /\ wire' = wire /\ faults' \in Int
  <2>1. UNCHANGED SendState
    BY <1>1, Zenon DEF Net!Receive, Net!sendVars, SendState
  <2>2. faults' \in Int
    BY <1>1 DEF NetInv, Typed
  <2> QED  BY <1>1, <2>1, <2>2, Zenon DEF vars
<1>3. Lasting /\ Threads' /\ UNCHANGED outboxBar /\ Typed'
  BY <1>2, AsideKeeps
<1>4. /\ queueBar[e] # <<>> /\ Head(queueBar[e]) = Bytes(Head(queue[e]))
      /\ queueBar' = [queueBar EXCEPT ![e] = Tail(@)] /\ QueuesOK'
  BY <1>1, <1>3, ReceiveTakes
<1>5. Live!Undecodable(e)
  BY <1>1, <1>3, <1>4, Zenon DEF Live!Undecodable, Live!vars, vars
<1> QED  BY <1>3, <1>4, <1>5 DEF Rest, After

\* A receive timeout is an abstract one, a fault unless nothing was to come.
LEMMA TimeoutMaps ==
  ASSUME NetInv, NEW e \in Endpoints, Timeout(e)
  PROVE  After /\ (faults' >= 0 => Live!Timeout(e))
<1>1. /\ Live!Receiving(e) /\ queue[e] = <<>>
      /\ thread' = [thread EXCEPT ![e] = "error"]
      /\ faults' = IF Live!Starved(e) THEN faults ELSE faults - 1
      /\ UNCHANGED <<vars, sent, arrived, simVars>>
  BY Zenon DEF Timeout
<1>2. UNCHANGED <<sent, arrived, SendState>> /\ UNCHANGED queue /\ wire' = wire
  BY <1>1, Zenon DEF simVars, SendState, vars
<1>3. /\ faults' \in Int
      /\ \/ Live!Starved(e) /\ UNCHANGED faults
         \/ /\ ~Live!Starved(e) /\ faults' = faults - 1
            /\ faults' >= 0 => faults > 0
  <2>1. faults \in Int
    BY DEF NetInv, Typed
  <2> HIDE DEF Live!Starved
  <2>2. CASE Live!Starved(e)
    BY <1>1, <2>1, <2>2
  <2>3. CASE ~Live!Starved(e)
    <3>1. faults' = faults - 1
      BY <1>1, <2>3
    <3>2. faults' \in Int /\ (faults' >= 0 => faults > 0)
      BY <2>1, <3>1
    <3> QED  BY <2>3, <3>1, <3>2
  <2> QED  BY <2>2, <2>3
<1>4. Lasting /\ Threads' /\ UNCHANGED outboxBar /\ Typed'
  BY <1>2, <1>3, AsideKeeps
<1>5. UNCHANGED queueBar /\ QueuesOK'
  BY <1>2, <1>4, QueueStays DEF NetInv
<1>6. queueBar[e] = <<>>
  <2>1. queueBar[e] = [i \in DOMAIN queue[e] |-> Bytes(queue[e][i])]
    BY Zenon DEF queueBar
  <2>2. DOMAIN queue[e] = {}
    BY <1>1
  <2>3. queueBar[e] = [i \in {} |-> Bytes(queue[e][i])]
    BY <2>1, <2>2, Zenon
  <2> QED  BY <2>3
<1>7. faults' >= 0 => Live!Timeout(e)
  BY <1>1, <1>3, <1>4, <1>5, <1>6, Zenon DEF Live!Timeout, Live!vars, vars
<1> QED  BY <1>4, <1>5, <1>7 DEF Rest, After

-----------------------------------------------------------------------------
(* The sends.                                                               *)

\* The end of a send empties the abstract outbox and settles the message.
LEMMA EndMaps ==
  ASSUME NetInv, NEW e \in Endpoints, Len(sent[e]) = Len(fate[e]) + 1,
         NEW how \in NP!Fates, Net!End(e, how), UNCHANGED <<vars, sent, arrived>>,
         faults' \in Int
  PROVE  /\ Lasting /\ Threads' /\ Typed'
         /\ outboxBar[e] = <<sent[e][Len(sent[e])]>>
         /\ outboxBar' = [outboxBar EXCEPT ![e] = <<>>]
         /\ fate'[e] # fate[e] /\ Net!Last(fate'[e]) = how
<1>1. /\ at' = [at EXCEPT ![e] = "idle"] /\ current' = [current EXCEPT ![e] = Net!NoMessage]
      /\ pending' = [pending EXCEPT ![e] = <<>>] /\ fate' = [fate EXCEPT ![e] = Append(@, how)]
  BY Zenon DEF Net!End
<1>2. /\ at \in [Endpoints -> NP!Places] /\ DOMAIN current = Endpoints
      /\ pending \in [Endpoints -> Seq(Hooks)] /\ fate \in [Endpoints -> Seq(NP!Fates)]
  BY DEF NetInv, NP!SimInv, NP!Types
<1> HIDE DEF NP!Places, NP!Fates
<1>3. /\ fate'[e] = Append(fate[e], how) /\ at'[e] = "idle"
      /\ \A c \in Endpoints \ {e} : /\ at'[c] = at[c] /\ fate'[c] = fate[c]
                                    /\ pending'[c] = pending[c]
  BY <1>1, <1>2
<1>4. \A c \in Endpoints \ {e} : current'[c] = current[c]
  BY <1>1, <1>2
<1>5. \A c \in Endpoints \ {e} : Rests(c)
  BY <1>3, <1>4, Zenon DEF Rests
<1>6. /\ LastingOf(e) /\ ThreadOK(e)' /\ outboxBar'[e] = <<>>
      /\ outboxBar[e] = <<sent[e][Len(sent[e])]>>
      /\ fate'[e] # fate[e] /\ Net!Last(fate'[e]) = how
  BY <1>3, EndStep, Zenon
<1>7. Lasting /\ Threads' /\ outboxBar' = [outboxBar EXCEPT ![e] = <<>>]
  BY <1>5, <1>6, OneGoesOn
<1>8. Typed'
  <2>1. Msgs' = Msgs /\ wire' = wire
    BY Zenon DEF Msgs, vars
  <2> HIDE DEF Msgs
  <2> QED  BY <2>1 DEF Typed, NetInv
<1> QED  BY <1>6, <1>7, <1>8

\* What a send carries stands for the message its thread sends, as it was or
\* as modify left it.
LEMMA CurrentToken ==
  ASSUME NetInv, NEW e \in Endpoints, at[e] \in {"put", "hooks"}
  PROVE  /\ Len(sent[e]) = Len(fate[e]) + 1 /\ current[e].altered \in BOOLEAN
         /\ \A via \in {"send", "duplicate"} :
              LET t == [current[e] EXCEPT !.via = via]
              IN /\ t \in NP!MessageType /\ TokenOK(t)
                 /\ ~current[e].altered => Bytes(t) = sent[e][Len(sent[e])]
                 /\ current[e].altered => Bytes(t) \in Live!Altered(sent[e][Len(sent[e])])
         /\ current[e] = [current[e] EXCEPT !.via = "send"]
<1> DEFINE n == Len(sent[e])
<1>1. /\ n = Len(fate[e]) + 1 /\ Len(fate[e]) \in Nat /\ n \in Nat /\ n = NP!This(e)
  BY Lengths DEF NP!This
<1>2. /\ current[e] \in NP!MessageType /\ current[e].from = e /\ current[e].seq = n
      /\ current[e].via = "send" /\ (at[e] = "put" => ~current[e].altered)
  <2>1. NP!SendOK(e)
    BY DEF NetInv, NP!SimInv, NP!Senders
  <2>2. CASE at[e] = "put"
    <3>1. current[e] = NP!Message(e, n)
      BY <1>1, <2>1, <2>2 DEF NP!SendOK
    <3>2. n \in Nat \ {0}
      BY <1>1
    <3> QED  BY <3>1, <3>2 DEF NP!Message, NP!MessageType
  <2>3. CASE at[e] = "hooks"
    BY <1>1, <2>1, <2>3 DEF NP!SendOK
  <2> QED  BY <2>2, <2>3
<1>3. current[e].altered \in BOOLEAN /\ n \in 1..n
  <2>1. n \in 1..n
    BY <1>1
  <2> QED  BY <1>2, <2>1 DEF NP!MessageType
<1>4. current[e].altered =>
        arrived[e][n] \in Live!Altered(sent[e][n]) /\ Settled(e, n)
  <2>1. ThreadOK(e)
    BY DEF NetInv, Threads
  <2> QED  BY <1>1, <1>2, <2>1, Zenon DEF ThreadOK
<1>5. ASSUME NEW via \in {"send", "duplicate"}
      PROVE  LET t == [current[e] EXCEPT !.via = via]
             IN /\ t \in NP!MessageType /\ TokenOK(t)
                /\ ~current[e].altered => Bytes(t) = sent[e][n]
                /\ current[e].altered => Bytes(t) \in Live!Altered(sent[e][n])
  <2> DEFINE t == [current[e] EXCEPT !.via = via]
  <2>1. /\ t \in NP!MessageType /\ t.from = e /\ t.seq = n /\ t.altered = current[e].altered
    BY <1>2, <1>5 DEF NP!MessageType
  <2> HIDE DEF t
  <2>2. TokenOK(t)
    BY <1>3, <1>4, <2>1, Zenon DEF TokenOK
  <2>3. Bytes(t) = IF current[e].altered THEN arrived[e][n] ELSE sent[e][n]
    BY <2>1, Zenon DEF Bytes
  <2>4. /\ t \in NP!MessageType /\ TokenOK(t)
        /\ ~current[e].altered => Bytes(t) = sent[e][n]
        /\ current[e].altered => Bytes(t) \in Live!Altered(sent[e][n])
    BY <1>3, <1>4, <2>1, <2>2, <2>3, Zenon
  <2> QED  BY <2>4 DEF t
<1>6. current[e] = [current[e] EXCEPT !.via = "send"]
  BY <1>2 DEF NP!MessageType
<1> QED  BY <1>1, <1>3, <1>5, <1>6

\* What is left when neither a thread nor a queue of LiveHandshake changes.
LEMMA Stutters ==
  ASSUME NetInv, Lasting, Threads', UNCHANGED outboxBar,
         UNCHANGED <<vars, sent, thread, faults, queue>>, arrived' \in [Endpoints -> Seq(Msgs)]
  PROVE  After /\ UNCHANGED Live!liveVars
<1>1. UNCHANGED queueBar /\ QueuesOK'
  BY QueueStays DEF NetInv
<1>2. Typed'
  <2>1. Msgs' = Msgs /\ wire' = wire
    BY Zenon DEF Msgs, vars
  <2> HIDE DEF Msgs
  <2> QED  BY <2>1 DEF Typed, NetInv
<1>3. UNCHANGED Live!liveVars
  BY <1>1, Zenon DEF Live!liveVars, Live!vars, vars
<1> QED  BY <1>1, <1>2, <1>3 DEF Rest, After

\* Entering send and taking its locks.
LEMMA QuietMaps ==
  ASSUME NetInv, NEW e \in Endpoints, Len(sent[e]) = Len(fate[e]) + 1,
         Net!Send(e) \/ Net!CallProcess(e) \/ Net!Snapshot(e) \/ Net!Capture(e),
         UNCHANGED <<vars, sent, arrived, thread, faults>>
  PROVE  After /\ UNCHANGED Live!liveVars /\ fate'[e] = fate[e]
<1> DEFINE m == Net!Message(e, Len(fate[e]) + 1)
<1>1. /\ at \in [Endpoints -> NP!Places] /\ DOMAIN current = Endpoints
      /\ pending \in [Endpoints -> Seq(Hooks)]
  BY DEF NetInv, NP!SimInv, NP!Types
<1> HIDE DEF NP!Places
<1>2. /\ fate' = fate /\ queue' = queue
      /\ \/ /\ at[e] = "idle" /\ pending' = pending
            /\ current' = [current EXCEPT ![e] = m]
            /\ at' = [at EXCEPT ![e] = IF attached THEN "checked" ELSE "put"]
         \/ /\ at[e] = "checked" /\ current' = current /\ pending' = pending
            /\ at' = [at EXCEPT ![e] = "process"]
         \/ /\ at[e] = "process" /\ current' = current
            /\ at' = [at EXCEPT ![e] = "capture"] /\ pending' = [pending EXCEPT ![e] = hooks]
         \/ /\ at[e] = "capture" /\ current' = current /\ pending' = pending
            /\ at' = [at EXCEPT ![e] = "hooks"]
  <2>1. CASE Net!Send(e)
    BY <2>1, Zenon DEF Net!Send
  <2>2. CASE Net!Snapshot(e)
    BY <2>2, Zenon DEF Net!Snapshot, Net!captures
  <2>3. CASE Net!Capture(e)
    BY <2>3, Zenon DEF Net!Capture
  <2>4. CASE Net!CallProcess(e)
    BY <2>4, Zenon DEF Net!CallProcess, Net!captures
  <2> QED  BY <2>1, <2>2, <2>3, <2>4
<1>3. at[e] # "hooks"
  BY <1>2
<1>4. at'[e] = "hooks" => ~current'[e].altered
  <2>1. at'[e] = "hooks" => at[e] = "capture" /\ current' = current
    BY <1>1, <1>2
  <2>2. at[e] = "capture" => ~current[e].altered
    <3>1. NP!SendOK(e)
      BY DEF NetInv, NP!SimInv, NP!Senders
    <3>2. at[e] = "capture" => current[e] = NP!Message(e, NP!This(e))
      BY <3>1 DEF NP!SendOK
    <3>3. ~NP!Message(e, NP!This(e)).altered
      BY DEF NP!Message
    <3> QED  BY <3>2, <3>3
  <2> QED  BY <2>1, <2>2, Zenon
<1>5. \A c \in Endpoints \ {e} : Rests(c)
  <2>1. \A c \in Endpoints \ {e} : at'[c] = at[c] /\ pending'[c] = pending[c]
    BY <1>1, <1>2
  <2>2. \A c \in Endpoints \ {e} : current'[c] = current[c]
    BY <1>1, <1>2
  <2> QED  BY <1>2, <2>1, <2>2, Zenon DEF Rests
<1>6. LastingOf(e) /\ ThreadOK(e)' /\ outboxBar'[e] = outboxBar[e]
  BY <1>2, <1>3, <1>4, EnterStep, Zenon
<1>7. Lasting /\ Threads' /\ outboxBar' = [outboxBar EXCEPT ![e] = outboxBar[e]]
  BY <1>5, <1>6, OneGoesOn
<1>8. UNCHANGED outboxBar
  BY <1>7 DEF outboxBar
<1>9. arrived' \in [Endpoints -> Seq(Msgs)]
  BY Zenon DEF NetInv, Typed
<1> QED  BY <1>2, <1>7, <1>8, <1>9, Stutters

\* A hook passes the message on, as it is or altered.
LEMMA PassMaps ==
  ASSUME NetInv, NEW e \in Endpoints, NEW h, Net!Runs(e, h),
         \/ /\ Net!Passed(e, current[e]) /\ UNCHANGED arrived
         \/ /\ h = "modify" /\ Net!Passed(e, [current[e] EXCEPT !.altered = TRUE])
            /\ \E m \in Live!Altered(sent[e][Len(sent[e])]) :
                 arrived' = [arrived EXCEPT ![e][Len(sent[e])] = m],
         UNCHANGED sent
  PROVE  /\ Lasting /\ Threads' /\ UNCHANGED outboxBar
         /\ arrived' \in [Endpoints -> Seq(Msgs)] /\ fate' = fate
<1> DEFINE n == Len(sent[e])
<1>1. /\ DOMAIN current = Endpoints /\ pending \in [Endpoints -> Seq(Hooks)]
      /\ arrived \in [Endpoints -> Seq(Msgs)] /\ sent[e] \in Seq(wire)
  BY DEF NetInv, NP!SimInv, NP!Types, Typed
<1>2. at[e] = "hooks" /\ pending[e] # <<>> /\ Head(pending[e]) = h
  BY Zenon DEF Net!Runs
<1> HIDE DEF Msgs
<1>3. /\ fate' = fate /\ at' = at /\ pending' = [pending EXCEPT ![e] = Tail(@)]
      /\ \A c \in Endpoints \ {e} : current'[c] = current[c]
  <2>1. \A m : Net!Passed(e, m) =>
          /\ fate' = fate /\ at' = at /\ pending' = [pending EXCEPT ![e] = Tail(@)]
          /\ current' = [current EXCEPT ![e] = m]
    BY Zenon DEF Net!Passed
  <2> QED  BY <1>1, <2>1
<1>4. pending'[e] = Tail(pending[e]) /\ \A c \in Endpoints \ {e} : pending'[c] = pending[c]
  BY <1>1, <1>3
<1>5. n \in Nat /\ n \in 1..n /\ Len(arrived[e]) = n
  BY <1>2, Lengths
<1>6. CASE Net!Passed(e, current[e]) /\ UNCHANGED arrived
  <2>1. current'[e] = current[e]
    BY <1>1, <1>6 DEF Net!Passed
  <2>2. LastingOf(e) /\ ThreadOK(e)' /\ outboxBar'[e] = outboxBar[e]
    BY <1>2, <1>3, <1>4, <1>6, <2>1, PassStep
  <2>3. \A c \in Endpoints \ {e} : Rests(c)
    BY <1>3, <1>4, <1>6, Zenon DEF Rests
  <2>4. Lasting /\ Threads' /\ outboxBar' = [outboxBar EXCEPT ![e] = outboxBar[e]]
    BY <2>2, <2>3, OneGoesOn
  <2>5. UNCHANGED outboxBar
    BY <2>4 DEF outboxBar
  <2> QED  BY <1>1, <1>3, <1>6, <2>4, <2>5, Zenon
<1>7. ASSUME h = "modify", NEW m \in Live!Altered(sent[e][Len(sent[e])]),
             arrived' = [arrived EXCEPT ![e][Len(sent[e])] = m]
      PROVE  /\ Lasting /\ Threads' /\ UNCHANGED outboxBar
             /\ arrived' \in [Endpoints -> Seq(Msgs)] /\ fate' = fate
  <2>1. /\ arrived'[e] = [arrived[e] EXCEPT ![n] = m]
        /\ \A c \in Endpoints \ {e} : arrived'[c] = arrived[c]
    BY <1>1, <1>7
  <2>2. LastingOf(e) /\ ThreadOK(e)' /\ outboxBar'[e] = outboxBar[e] /\ m \in Msgs
    BY <1>2, <1>3, <1>4, <1>7, <2>1, AlterStep
  <2>3. \A c \in Endpoints \ {e} : Rests(c)
    BY <1>3, <1>4, <2>1, Zenon DEF Rests
  <2>4. Lasting /\ Threads' /\ outboxBar' = [outboxBar EXCEPT ![e] = outboxBar[e]]
    BY <2>2, <2>3, OneGoesOn
  <2>5. UNCHANGED outboxBar
    BY <2>4 DEF outboxBar
  <2>6. arrived' \in [Endpoints -> Seq(Msgs)]
    <3>1. [arrived[e] EXCEPT ![n] = m] \in Seq(Msgs)
      BY <1>1, <1>5, <2>2, ExceptSeq
    <3> QED  BY <1>1, <1>7, <3>1
  <2> QED  BY <1>3, <2>4, <2>5, <2>6
<1> QED  BY <1>6, <1>7, Zenon

\* A unit of faults was there to be spent.
LEMMA Spent ==
  ASSUME NetInv, faults' = faults - 1
  PROVE  faults' \in Int /\ (faults' >= 0 => faults > 0)
<1>1. faults \in Int
  BY DEF NetInv, Typed
<1> QED  BY <1>1

\* A send that raises ends its thread.
LEMMA RaisingMaps ==
  ASSUME NetInv, NEW e \in Endpoints, Len(sent[e]) = Len(fate[e]) + 1,
         NEW how \in {"raised", "hook_raised"}, Net!End(e, how), UNCHANGED queue,
         SendEnds(e), UNCHANGED <<vars, sent, arrived>>,
         faults' = faults - 1
  PROVE  After /\ (faults' >= 0 => Live!SendFails(e))
<1>1. how \in NP!Fates
  BY DEF NP!Fates
<1>2. faults' \in Int /\ (faults' >= 0 => faults > 0)
  BY Spent
<1>3. /\ Lasting /\ Threads' /\ Typed'
      /\ outboxBar[e] = <<sent[e][Len(sent[e])]>>
      /\ outboxBar' = [outboxBar EXCEPT ![e] = <<>>]
      /\ Net!Last(fate'[e]) = how
  BY <1>1, <1>2, EndMaps
<1>4. UNCHANGED queueBar /\ QueuesOK'
  BY <1>3, QueueStays DEF NetInv
<1>5. thread' = [thread EXCEPT ![e] = "error"]
  BY <1>3 DEF SendEnds
<1>6. outboxBar[e] # <<>>
  BY <1>3
<1>7. faults' >= 0 => Live!SendFails(e)
  BY <1>2, <1>3, <1>4, <1>5, <1>6, Zenon DEF Live!SendFails, Live!vars, vars
<1> QED  BY <1>3, <1>4, <1>7 DEF Rest, After

\* A hook that drops a message loses it.
LEMMA DroppingMaps ==
  ASSUME NetInv, NEW e \in Endpoints, Len(sent[e]) = Len(fate[e]) + 1,
         NEW how \in {"dropped", "drop_next"}, Net!End(e, how), UNCHANGED queue,
         SendEnds(e), UNCHANGED <<vars, sent, arrived>>,
         faults' = faults - 1
  PROVE  After /\ (faults' >= 0 => Live!Drop(e))
<1>1. how \in NP!Fates
  BY DEF NP!Fates
<1>2. faults' \in Int /\ (faults' >= 0 => faults > 0)
  BY Spent
<1>3. /\ Lasting /\ Threads' /\ Typed'
      /\ outboxBar[e] = <<sent[e][Len(sent[e])]>>
      /\ outboxBar' = [outboxBar EXCEPT ![e] = <<>>]
      /\ Net!Last(fate'[e]) = how
  BY <1>1, <1>2, EndMaps
<1>4. UNCHANGED queueBar /\ QueuesOK'
  BY <1>3, QueueStays DEF NetInv
<1>5. Live!ThreadAfterSend(e)
  BY <1>3 DEF SendEnds
<1>6. outboxBar[e] # <<>>
  BY <1>3
<1>7. faults' >= 0 => Live!Drop(e)
  BY <1>2, <1>3, <1>4, <1>5, <1>6, Zenon DEF Live!Drop, Live!Sent, Live!vars, vars
<1> QED  BY <1>3, <1>4, <1>7 DEF Rest, After

\* What a send puts into the queue is the thread's message or what modify made
\* of it.
LEMMA PuttingMaps ==
  ASSUME NetInv, NEW e \in Endpoints, Net!PutOriginal(e),
         SendEnds(e), UNCHANGED <<vars, sent, arrived>>,
         faults' = IF ~current[e].altered THEN faults ELSE faults - 1
  PROVE  After /\ (faults' >= 0 => Live!Deliver(e) \/ Live!Modify(e))
<1> DEFINE m == sent[e][Len(sent[e])]
<1>1. /\ at[e] \in {"put", "hooks"} /\ Net!End(e, "delivered")
      /\ queue' = [queue EXCEPT ![Peer[e]] = Append(@, current[e])]
  BY DEF Net!PutOriginal, Net!Put
<1>2. "delivered" \in NP!Fates
  BY DEF NP!Fates
<1>3. /\ Len(sent[e]) = Len(fate[e]) + 1 /\ current[e].altered \in BOOLEAN
      /\ current[e] \in NP!MessageType /\ TokenOK(current[e])
      /\ ~current[e].altered => Bytes(current[e]) = m
      /\ current[e].altered => Bytes(current[e]) \in Live!Altered(m)
  BY <1>1, CurrentToken, Zenon
<1>4. faults \in Int /\ faults' \in Int
  BY <1>3 DEF NetInv, Typed
<1>5. /\ Lasting /\ Threads' /\ Typed' /\ outboxBar[e] = <<m>>
      /\ outboxBar' = [outboxBar EXCEPT ![e] = <<>>]
      /\ Net!Last(fate'[e]) = "delivered"
  BY <1>1, <1>2, <1>3, <1>4, EndMaps
<1>6. Peer[e] \in Endpoints
  BY NetworkAssumption
<1>7. queueBar' = [queueBar EXCEPT ![Peer[e]] = @ \o <<Bytes(current[e])>>] /\ QueuesOK'
  BY <1>1, <1>3, <1>5, <1>6, QueueGrows DEF NetInv
<1>8. Live!ThreadAfterSend(e)
  BY <1>5 DEF SendEnds
<1>9. outboxBar[e] # <<>> /\ outboxBar[e][1] = m
  BY <1>5
<1>10. Live!Sent(e)
  BY <1>5, <1>8, Zenon DEF Live!Sent, Live!vars, vars
<1>11. CASE ~current[e].altered
  <2>1. faults' = faults /\ Bytes(current[e]) = m
    BY <1>3, <1>11
  <2>2. Live!Enqueue(Peer[e], outboxBar[e])
    BY <1>5, <1>7, <2>1, Zenon DEF Live!Enqueue
  <2>3. Live!Deliver(e)
    BY <1>9, <1>10, <2>1, <2>2, Zenon DEF Live!Deliver
  <2> QED  BY <1>5, <1>7, <2>3 DEF Rest, After
<1>12. CASE current[e].altered
  <2>1. faults' = faults - 1 /\ Bytes(current[e]) \in Live!Altered(m)
    BY <1>3, <1>12
  <2>2. faults' >= 0 => faults > 0
    BY <1>4, <2>1
  <2>3. \E k \in Live!Altered(outboxBar[e][1]) : Live!Enqueue(Peer[e], <<k>>)
    BY <1>7, <1>9, <2>1, Zenon DEF Live!Enqueue
  <2>4. faults' >= 0 => Live!Modify(e)
    BY <1>9, <1>10, <2>1, <2>2, <2>3, Zenon DEF Live!Modify
  <2> QED  BY <1>5, <1>7, <2>4 DEF Rest, After
<1> QED  BY <1>3, <1>11, <1>12

\* What the network does to a message is an abstract step.
LEMMA NetworkStep ==
  ASSUME NEW e \in Endpoints
  PROVE  Live!Deliver(e) \/ Live!Drop(e) \/ Live!Modify(e) \/ Live!SendFails(e) => Live!LiveNext
BY DEF Live!LiveNext, Endpoints, Live!Endpoints

\* A step of send is an abstract delivery, drop or failure, or none.
LEMMA SendMaps ==
  ASSUME NetInv, NEW e \in Endpoints, Send(e)
  PROVE  After /\ (faults' >= 0 => [Live!LiveNext]_(Live!liveVars))
<1>1. /\ Len(sent[e]) > Len(fate[e])
      /\ \/ Net!Send(e) \/ Net!CallProcess(e) \/ Net!Detached(e) \/ Net!Snapshot(e)
         \/ Net!Capture(e) \/ Net!DropHook(e) \/ Net!DropNextHook(e) \/ Net!PutOriginal(e)
      /\ IF fate'[e] = fate[e] THEN UNCHANGED thread ELSE SendEnds(e)
      /\ faults' = IF fate'[e] = fate[e] \/ (Net!PutOriginal(e) /\ ~current[e].altered)
                   THEN faults ELSE faults - 1
      /\ UNCHANGED <<vars, sent, arrived>>
  BY Zenon DEF Send
<1>2. Len(sent[e]) = Len(fate[e]) + 1
  BY <1>1, Lengths
<1>3. \A how \in NP!Fates : Net!End(e, how) => fate'[e] # fate[e]
  <2> SUFFICES ASSUME NEW how \in NP!Fates, Net!End(e, how)
               PROVE  fate'[e] # fate[e]
    OBVIOUS
  <2>1. fate \in [Endpoints -> Seq(NP!Fates)] /\ Len(fate[e]) \in Nat
    BY Lengths DEF NetInv, NP!SimInv, NP!Types
  <2> HIDE DEF NP!Fates
  <2>2. fate'[e] = Append(fate[e], how)
    BY <2>1, Zenon DEF Net!End
  <2>3. Len(fate'[e]) = Len(fate[e]) + 1
    BY <2>1, <2>2, AppendProperties
  <2> QED  BY <2>1, <2>3
<1>4. ASSUME NEW how \in {"raised", "hook_raised", "dropped", "drop_next"}, Net!End(e, how),
             UNCHANGED queue, ~Net!PutOriginal(e)
      PROVE  After /\ (faults' >= 0 => Live!SendFails(e) \/ Live!Drop(e))
  <2>1. how \in NP!Fates
    BY DEF NP!Fates
  <2>2. SendEnds(e) /\ faults' = faults - 1
    BY <1>1, <1>3, <1>4, <2>1, Zenon
  <2>3. CASE how \in {"raised", "hook_raised"}
    BY <1>1, <1>2, <1>4, <2>2, <2>3, RaisingMaps
  <2>4. CASE how \in {"dropped", "drop_next"}
    BY <1>1, <1>2, <1>4, <2>2, <2>4, DroppingMaps
  <2> QED  BY <2>3, <2>4
<1>5. CASE Net!Send(e) \/ Net!CallProcess(e) \/ Net!Snapshot(e) \/ Net!Capture(e)
  <2>1. fate' = fate
    BY <1>5, Zenon DEF Net!Send, Net!CallProcess, Net!Snapshot, Net!Capture
  <2>2. UNCHANGED <<vars, sent, arrived, thread, faults>>
    BY <1>1, <2>1, Zenon
  <2> QED  BY <1>2, <1>5, <2>2, QuietMaps
<1>6. CASE Net!Detached(e)
  <2>1. Net!End(e, "raised") /\ UNCHANGED queue /\ ~Net!PutOriginal(e)
    BY <1>6 DEF Net!Detached, Net!PutOriginal
  <2>2. After /\ (faults' >= 0 => Live!SendFails(e) \/ Live!Drop(e))
    BY <1>4, <2>1
  <2> QED  BY <2>2, NetworkStep
<1>7. CASE Net!DropHook(e)
  <2>1. Net!End(e, "dropped") /\ UNCHANGED queue /\ ~Net!PutOriginal(e)
    BY <1>7 DEF Net!DropHook, Net!PutOriginal, Net!Runs
  <2>2. After /\ (faults' >= 0 => Live!SendFails(e) \/ Live!Drop(e))
    BY <1>4, <2>1
  <2> QED  BY <2>2, NetworkStep
<1>8. CASE Net!DropNextHook(e)
  <2>1. /\ Net!Runs(e, "drop_next") /\ UNCHANGED queue /\ ~Net!PutOriginal(e)
        /\ Net!End(e, "drop_next") \/ Net!Passed(e, current[e])
    BY <1>8 DEF Net!DropNextHook, Net!PutOriginal, Net!Runs
  <2>2. CASE Net!End(e, "drop_next")
    <3>1. After /\ (faults' >= 0 => Live!SendFails(e) \/ Live!Drop(e))
      BY <1>4, <2>1, <2>2
    <3> QED  BY <3>1, NetworkStep
  <2>3. CASE Net!Passed(e, current[e])
    <3>1. /\ Lasting /\ Threads' /\ UNCHANGED outboxBar
          /\ arrived' \in [Endpoints -> Seq(Msgs)] /\ fate' = fate
      BY <1>1, <2>1, <2>3, PassMaps, Zenon
    <3>2. UNCHANGED <<vars, sent, thread, faults, queue>>
      BY <1>1, <2>1, <3>1, Zenon
    <3>3. After /\ UNCHANGED Live!liveVars
      BY <3>1, <3>2, Stutters
    <3> QED  BY <3>3
  <2> QED  BY <2>1, <2>2, <2>3
<1>9. CASE Net!PutOriginal(e)
  <2>1. Net!End(e, "delivered") /\ "delivered" \in NP!Fates
    BY <1>9 DEF Net!PutOriginal, NP!Fates
  <2>2. fate'[e] # fate[e]
    BY <1>3, <2>1
  <2>3. SendEnds(e) /\ faults' = IF ~current[e].altered THEN faults ELSE faults - 1
    BY <1>1, <1>9, <2>2, Zenon
  <2>4. After /\ (faults' >= 0 => Live!Deliver(e) \/ Live!Modify(e))
    BY <1>1, <1>9, <2>3, PuttingMaps
  <2> QED  BY <2>4, NetworkStep
<1> QED  BY <1>1, <1>5, <1>6, <1>7, <1>8, <1>9

\* A duplicate hook that puts a copy is the abstract duplication.
LEMMA DuplicateMaps ==
  ASSUME NetInv, NEW e \in Endpoints, Duplicate(e)
  PROVE  After /\ (faults' >= 0 => Live!Duplicate(e))
<1> DEFINE m == sent[e][Len(sent[e])]
           t == [current[e] EXCEPT !.via = "duplicate"]
<1>1. /\ Net!Runs(e, "duplicate") /\ Net!Passed(e, current[e])
      /\ queue' = [queue EXCEPT ![Peer[e]] = Append(@, t)]
      /\ faults' = faults - 1 /\ UNCHANGED <<vars, thread, sent, arrived>>
  BY Zenon DEF Duplicate, Net!DuplicateHook, Net!Put
<1>2. at[e] \in {"put", "hooks"}
  BY <1>1 DEF Net!Runs
<1>3. /\ Len(sent[e]) = Len(fate[e]) + 1 /\ current[e].altered \in BOOLEAN
      /\ t \in NP!MessageType /\ TokenOK(t)
      /\ ~current[e].altered => Bytes(t) = m
      /\ current[e].altered => Bytes(t) \in Live!Altered(m)
  BY <1>2, CurrentToken, Zenon
<1> HIDE DEF t
<1>4. faults' \in Int /\ (faults' >= 0 => faults > 0)
  BY <1>1, Spent
<1>5. /\ Lasting /\ Threads' /\ UNCHANGED outboxBar
      /\ arrived' \in [Endpoints -> Seq(Msgs)]
  BY <1>1, PassMaps, Zenon
<1>6. Peer[e] \in Endpoints
  BY NetworkAssumption
<1>7. queueBar' = [queueBar EXCEPT ![Peer[e]] = @ \o <<Bytes(t)>>] /\ QueuesOK'
  BY <1>1, <1>3, <1>5, <1>6, QueueGrows DEF NetInv
<1>8. Typed'
  <2>1. Msgs' = Msgs /\ wire' = wire
    BY <1>1, Zenon DEF Msgs, vars
  <2> HIDE DEF Msgs
  <2> QED  BY <1>1, <1>4, <1>5, <2>1 DEF Typed, NetInv
<1>9. outboxBar[e] # <<>> /\ outboxBar[e][1] = m
  <2>1. outboxBar[e] = <<m>>
    <3>1. Len(sent[e]) # Len(fate[e])
      BY <1>3, Lengths
    <3> QED  BY <3>1, Zenon DEF outboxBar
  <2> QED  BY <2>1
<1>10. \E k \in {outboxBar[e][1]} \cup Live!Altered(outboxBar[e][1]) :
          Live!Enqueue(Peer[e], <<k>>)
  <2>1. Bytes(t) \in {m} \cup Live!Altered(m)
    BY <1>3
  <2> QED  BY <1>7, <1>9, <2>1, Zenon DEF Live!Enqueue
<1>11. faults' >= 0 => Live!Duplicate(e)
  BY <1>1, <1>4, <1>5, <1>9, <1>10, Zenon DEF Live!Duplicate, Live!vars, vars
<1> QED  BY <1>5, <1>7, <1>8, <1>11 DEF Rest, After

\* A modify hook is the abstract modification, its failure, or no step.
LEMMA ModifyMaps ==
  ASSUME NetInv, NEW e \in Endpoints, Modify(e)
  PROVE  After /\ (faults' >= 0 => [Live!LiveNext]_(Live!liveVars))
<1>1. /\ Net!Runs(e, "modify") /\ UNCHANGED queue
      /\ \/ Net!Passed(e, [current[e] EXCEPT !.altered = TRUE])
         \/ Net!End(e, "hook_raised")
      /\ IF fate'[e] = fate[e]
         THEN /\ \E m \in Live!Altered(sent[e][Len(sent[e])]) :
                   arrived' = [arrived EXCEPT ![e][Len(sent[e])] = m]
              /\ UNCHANGED <<thread, faults>>
         ELSE SendEnds(e) /\ faults' = faults - 1 /\ UNCHANGED arrived
      /\ UNCHANGED <<vars, sent>>
  BY Zenon DEF Modify, Net!ModifyHook
<1>2. at[e] = "hooks"
  BY <1>1 DEF Net!Runs
<1>3. Len(sent[e]) = Len(fate[e]) + 1
  BY <1>2, Lengths
<1>4. CASE Net!Passed(e, [current[e] EXCEPT !.altered = TRUE])
  <2>1. fate' = fate
    BY <1>4, Zenon DEF Net!Passed
  <2>2. /\ \E m \in Live!Altered(sent[e][Len(sent[e])]) :
             arrived' = [arrived EXCEPT ![e][Len(sent[e])] = m]
        /\ UNCHANGED <<thread, faults>>
    BY <1>1, <2>1, Zenon
  <2>3. /\ Lasting /\ Threads' /\ UNCHANGED outboxBar
        /\ arrived' \in [Endpoints -> Seq(Msgs)]
    BY <1>1, <1>4, <2>2, PassMaps, Zenon
  <2>4. UNCHANGED <<vars, sent, thread, faults, queue>>
    BY <1>1, <2>2, Zenon
  <2>5. After /\ UNCHANGED Live!liveVars
    BY <2>3, <2>4, Stutters
  <2> QED  BY <2>5
<1>5. CASE Net!End(e, "hook_raised")
  <2>1. fate'[e] # fate[e]
    <3>1. fate \in [Endpoints -> Seq(NP!Fates)] /\ Len(fate[e]) \in Nat
          /\ "hook_raised" \in NP!Fates
      BY Lengths DEF NetInv, NP!SimInv, NP!Types, NP!Fates
    <3> HIDE DEF NP!Fates
    <3>2. fate'[e] = Append(fate[e], "hook_raised")
      BY <1>5, <3>1, Zenon DEF Net!End
    <3>3. Len(fate'[e]) = Len(fate[e]) + 1
      BY <3>1, <3>2, AppendProperties
    <3> QED  BY <3>1, <3>3
  <2>2. SendEnds(e) /\ faults' = faults - 1 /\ UNCHANGED <<vars, sent, arrived>>
    BY <1>1, <2>1, Zenon
  <2>3. After /\ (faults' >= 0 => Live!SendFails(e))
    BY <1>1, <1>3, <1>5, <2>2, RaisingMaps
  <2> QED  BY <2>3, NetworkStep
<1> QED  BY <1>1, <1>4, <1>5
-----------------------------------------------------------------------------
(* The thread that configures the attacker, and the theorem.                *)

\* Registering and removing hooks is no abstract step.
LEMMA ConfigureMaps ==
  ASSUME NetInv, Configure
  PROVE  After /\ UNCHANGED Live!liveVars
<1> USE DEF Net!attackerVars, Net!sendVars, Net!history, Net!captures
<1>1. UNCHANGED <<SendState, queue>>
  <2>1. \A h : Net!AddHook(h) \/ Net!RemoveHook(h) => UNCHANGED <<SendState, queue>>
    BY Zenon DEF Net!AddHook, Net!RemoveHook, SendState
  <2>2. Net!SetAttacker => UNCHANGED <<SendState, queue>>
    BY Zenon DEF Net!SetAttacker, SendState
  <2> QED  BY <2>1, <2>2, Zenon DEF Configure
<1>2. UNCHANGED <<vars, thread, sent, arrived, faults>>
  BY Zenon DEF Configure, threadVars
<1>3. Lasting /\ Threads' /\ UNCHANGED outboxBar
  BY <1>1, <1>2, AsideKeeps, Zenon
<1>4. arrived' \in [Endpoints -> Seq(Msgs)]
  BY <1>2, Zenon DEF NetInv, Typed
<1> QED  BY <1>1, <1>2, <1>3, <1>4, Stutters

\* What was captured is a message some handler returned.
LEMMA ReplayMaps ==
  ASSUME NetInv, NEW to \in Endpoints, NEW i \in DOMAIN captured, Replay(captured[i], to)
  PROVE  After /\ (faults' >= 0 => Live!Replay(to))
<1> DEFINE t == [captured[i] EXCEPT !.via = "replay"]
           e == captured[i].from
           n == captured[i].seq
<1>1. /\ queue' = [queue EXCEPT ![to] = Append(@, t)] /\ UNCHANGED SendState
      /\ faults' = faults - 1 /\ UNCHANGED <<vars, thread, sent, arrived>>
  BY Zenon DEF Replay, Net!Replay, Net!Put, Net!sendVars, SendState
<1>2. captured[i] \in NP!ToSet(ever) /\ captured[i] \in NP!MessageType
  <2>1. captured[i] \in NP!ToSet(ever)
    BY CapturedIsEver DEF NetInv
  <2> DEFINE T == NP!MessageType
  <2>2. ever \in Seq(T)
    BY DEF NetInv, NP!SimInv, NP!Types
  <2> HIDE DEF T
  <2>3. NP!ToSet(ever) \subseteq T
    BY <2>2, LenProperties, ElementOfSeq DEF NP!ToSet
  <2> QED  BY <2>1, <2>3 DEF T
<1>3. /\ captured[i] = NP!Message(e, n) /\ e \in Endpoints /\ n \in Nat \ {0}
      /\ n \in DOMAIN fate[e] \/ (n = NP!This(e) /\ at[e] = "hooks")
  BY <1>2, Zenon DEF NetInv, NP!SimInv, NP!EverOK, NP!MessageType
<1>4. t \in NP!MessageType /\ t.from = e /\ t.seq = n /\ ~t.altered
  <2>1. ~captured[i].altered
    BY <1>3 DEF NP!Message
  <2>2. t \in NP!MessageType /\ t.from = e /\ t.seq = n /\ t.altered = captured[i].altered
    BY <1>2 DEF NP!MessageType
  <2> QED  BY <2>1, <2>2
<1> HIDE DEF t
<1>5. n \in 1..Len(sent[e])
  <2>1. /\ fate[e] \in Seq(NP!Fates) /\ Len(sent[e]) \in Nat /\ Len(fate[e]) \in Nat
        /\ Len(sent[e]) = Len(fate[e]) \/ Len(sent[e]) = Len(fate[e]) + 1
        /\ at[e] # "idle" => Len(sent[e]) = Len(fate[e]) + 1
    BY <1>3, Lengths
  <2>2. DOMAIN fate[e] = 1..Len(fate[e])
    <3> HIDE DEF NP!Fates
    <3> QED  BY <2>1, LenProperties
  <2>3. CASE n \in DOMAIN fate[e]
    <3>1. n \in 1..Len(fate[e])
      BY <2>2, <2>3
    <3> QED  BY <2>1, <3>1
  <2>4. CASE n = NP!This(e) /\ at[e] = "hooks"
    <3>1. n = Len(fate[e]) + 1 /\ Len(sent[e]) = Len(fate[e]) + 1
      BY <2>1, <2>4 DEF NP!This
    <3> QED  BY <2>1, <3>1
  <2> QED  BY <1>3, <2>3, <2>4
<1>6. TokenOK(t) /\ Bytes(t) = sent[e][n]
  BY <1>4, <1>5, Zenon DEF TokenOK, Bytes
<1>7. Bytes(t) \in wire
  <2>1. sent[e] \in Seq(wire)
    BY <1>3, Lengths
  <2> QED  BY <1>5, <1>6, <2>1, ElementOfSeq
<1>8. faults' \in Int /\ (faults' >= 0 => faults > 0)
  BY <1>1, Spent
<1>9. Lasting /\ Threads' /\ UNCHANGED outboxBar /\ Typed'
  <2>1. wire' = wire /\ UNCHANGED <<sent, arrived, SendState>>
    BY <1>1, Zenon DEF vars
  <2> QED  BY <1>8, <2>1, AsideKeeps
<1>10. queueBar' = [queueBar EXCEPT ![to] = @ \o <<Bytes(t)>>] /\ QueuesOK'
  BY <1>1, <1>4, <1>6, <1>9, QueueGrows DEF NetInv
<1>11. \E m \in wire : Live!Enqueue(to, <<m>>)
  BY <1>7, <1>10, Zenon DEF Live!Enqueue
<1>12. faults' >= 0 => Live!Replay(to)
  BY <1>1, <1>8, <1>9, <1>11, Zenon DEF Live!Replay, Live!vars, vars
<1> QED  BY <1>9, <1>10, <1>12 DEF Rest, After

\* The coupling holds when the threads start.
LEMMA InitCoupled == NetInit => NetInv /\ Live!LiveInit
<1> SUFFICES ASSUME NetInit
             PROVE  NetInv /\ Live!LiveInit
  OBVIOUS
<1>1. NP!SimInv
  BY SameConfiguration, NP!InitInv, SimAssumptions DEF NetInit
<1>2. /\ queue = [e \in Endpoints |-> <<>>] /\ at = [e \in Endpoints |-> "idle"]
      /\ fate = [e \in Endpoints |-> <<>>]
      /\ sent = [e \in Endpoints |-> <<>>] /\ arrived = [e \in Endpoints |-> <<>>]
      /\ thread = [e \in Endpoints |-> "running"] /\ faults = MaxFaults /\ Init
  BY Zenon DEF NetInit, Net!Init
<1>3. Typed
  <2>1. <<>> \in Seq(wire) /\ <<>> \in Seq(Msgs)
    BY EmptySeq
  <2> HIDE DEF Msgs
  <2> QED  BY <1>2, <2>1, NetworkAssumption DEF Typed
<1>4. Threads
  BY <1>2 DEF Threads, ThreadOK
<1>5. QueuesOK
  <2>1. <<>> \in Seq(NP!MessageType) /\ NP!ToSet(<<>>) = {}
    BY NP!Empty, SimAssumptions
  <2> HIDE DEF NP!MessageType
  <2> QED  BY <1>2, <2>1 DEF QueuesOK
<1>6. Live!LiveInit
  <2>1. Live!Init
    BY <1>2 DEF Init, Live!Init, NewSession, Live!NewSession, Endpoints, Live!Endpoints,
                Ok, Live!Ok, None, Live!None
  <2>2. queueBar = [e \in Endpoints |-> <<>>]
    BY <1>2 DEF queueBar
  <2>3. outboxBar = [e \in Endpoints |-> <<>>]
    BY <1>2 DEF outboxBar
  <2> QED  BY <1>2, <2>1, <2>2, <2>3, Zenon
           DEF Live!LiveInit, Endpoints, Live!Endpoints
<1> QED  BY <1>1, <1>3, <1>4, <1>5, <1>6 DEF NetInv

\* Every step of the threads on the simulator is one of LiveHandshake or none.
LEMMA NetStep ==
  ASSUME NetInv, [NetNext]_netVars
  PROVE  /\ NetInv' /\ Lasting
         /\ faults' >= 0 => [Live!LiveNext]_(Live!liveVars)
<1>1. NP!SimInv'
  BY SimSteps DEF NetInv
<1>2. ASSUME NEW e \in Endpoints,
             \/ Start(e) \/ Respond(e) \/ Undecodable(e) \/ Timeout(e)
             \/ Send(e) \/ Duplicate(e) \/ Modify(e)
      PROVE  After /\ (faults' >= 0 => [Live!LiveNext]_(Live!liveVars))
  <2>1. /\ Live!Start(e) => Live!LiveNext
        /\ Live!Handle(e) => Live!LiveNext
        /\ Live!Undecodable(e) => Live!LiveNext
        /\ Live!Timeout(e) => Live!LiveNext
        /\ Live!Duplicate(e) => Live!LiveNext
    BY DEF Live!LiveNext, Endpoints, Live!Endpoints
  <2>2. CASE Start(e)
    BY <2>1, <2>2, StartMaps
  <2>3. CASE Respond(e)
    BY <2>1, <2>3, RespondMaps
  <2>4. CASE Undecodable(e)
    BY <2>1, <2>4, UndecodableMaps
  <2>5. CASE Timeout(e)
    BY <2>1, <2>5, TimeoutMaps
  <2>6. CASE Send(e)
    BY <2>6, SendMaps
  <2>7. CASE Duplicate(e)
    BY <2>1, <2>7, DuplicateMaps
  <2>8. CASE Modify(e)
    BY <2>8, ModifyMaps
  <2> QED  BY <1>2, <2>2, <2>3, <2>4, <2>5, <2>6, <2>7, <2>8
<1>3. Configure => After /\ UNCHANGED Live!liveVars
  BY ConfigureMaps
<1>4. ASSUME NEW to \in Endpoints, NEW i \in DOMAIN captured, Replay(captured[i], to)
      PROVE  After /\ (faults' >= 0 => Live!LiveNext)
  <2>1. After /\ (faults' >= 0 => Live!Replay(to))
    BY <1>4, ReplayMaps
  <2>2. Live!Replay(to) => Live!LiveNext
    BY DEF Live!LiveNext, Endpoints, Live!Endpoints
  <2> QED  BY <2>1, <2>2
<1>5. UNCHANGED netVars => After /\ UNCHANGED Live!liveVars
  <2> SUFFICES ASSUME UNCHANGED netVars
               PROVE  After /\ UNCHANGED Live!liveVars
    OBVIOUS
  <2>1. UNCHANGED <<vars, thread, sent, arrived, faults, queue, SendState>>
    BY Zenon DEF netVars, threadVars, simVars, SendState
  <2>2. Lasting /\ Threads' /\ UNCHANGED outboxBar
    BY <2>1, AsideKeeps, Zenon
  <2>3. arrived' \in [Endpoints -> Seq(Msgs)]
    BY <2>1, Zenon DEF NetInv, Typed
  <2> QED  BY <2>1, <2>2, <2>3, Stutters
<1>6. After /\ (faults' >= 0 => [Live!LiveNext]_(Live!liveVars))
  BY <1>2, <1>3, <1>4, <1>5 DEF NetNext
<1> QED  BY <1>1, <1>6 DEF NetInv, Rest, After

\* The threads on the simulator, with its locks and hooks, do what
\* LiveHandshake says, as long as what the network does is within the account
\* of faults, which every finite behaviour is for some MaxFaults
\* (simulator.py 83-114, attacker.py 56-86, _harness.py 85-120).
THEOREM NetworkRefines == NetSpec /\ [](faults >= 0) => LiveRefined
<1>1. NetInit => NetInv /\ Live!LiveInit
  BY InitCoupled
<1>2. NetInv /\ [NetNext]_netVars /\ (faults >= 0)'
        => NetInv' /\ [Live!LiveNext]_(Live!liveVars)
  BY NetStep
<1> QED  BY <1>1, <1>2, PTL DEF NetSpec, LiveRefined

-----------------------------------------------------------------------------
(* What a thread has heard.                                                 *)

\* The messages e received, as its thread read them.
Heard(e) == Mapped(received[e], Reading)

\* They do not change any more.
HeardOK ==
  /\ received \in [Endpoints -> Seq(NP!MessageType)]
  /\ \A e \in Endpoints : \A t \in NP!ToSet(received[e]) : TokenOK(t)

\* The tokens a thread received stand for messages that were sent.
LEMMA ReceivedTokens ==
  ASSUME HeardOK, NEW e \in Endpoints
  PROVE  /\ received[e] \in Seq(NP!MessageType)
         /\ \A t \in NP!ToSet(received[e]) : t \in NP!MessageType /\ TokenOK(t)
<1> DEFINE T == NP!MessageType
<1>1. received[e] \in Seq(T) /\ \A t \in NP!ToSet(received[e]) : TokenOK(t)
  BY DEF HeardOK
<1> HIDE DEF T
<1>2. NP!ToSet(received[e]) \subseteq T
  BY <1>1, LenProperties, ElementOfSeq DEF NP!ToSet
<1> QED  BY <1>1, <1>2 DEF T

\* The tokens received later are old ones or t.
LEMMA TokensStay ==
  ASSUME Lasting, HeardOK, received' \in [Endpoints -> Seq(NP!MessageType)],
         NEW t \in NP!MessageType, TokenOK(t),
         \A e \in Endpoints : NP!ToSet(received'[e]) \subseteq NP!ToSet(received[e]) \cup {t}
  PROVE  HeardOK'
<1>1. \A e \in Endpoints : \A u \in NP!ToSet(received'[e]) : TokenOK(u)'
  <2> SUFFICES ASSUME NEW e \in Endpoints, NEW u \in NP!ToSet(received'[e])
               PROVE  TokenOK(u)'
    OBVIOUS
  <2>1. PICK v \in NP!MessageType : v = u /\ TokenOK(v)
    BY ReceivedTokens
  <2>2. TokenOK(v)'
    BY <2>1, TokenStays
  <2> QED  BY <2>1, <2>2
<1> QED  BY <1>1, Zenon DEF HeardOK

\* Where nobody receives, nobody hears anything.
LEMMA HeardStays ==
  ASSUME Lasting, HeardOK, UNCHANGED received
  PROVE  HeardOK' /\ \A e \in Endpoints : Heard(e)' = Heard(e)
<1>1. \A e \in Endpoints : Heard(e)' = Heard(e)
  <2> SUFFICES ASSUME NEW e \in Endpoints
               PROVE  Heard(e)' = Heard(e)
    OBVIOUS
  <2>1. Mapped(received[e], Reading') = Mapped(received[e], Reading)
    BY ReceivedTokens, MappedStays
  <2> QED  BY <2>1, Zenon DEF Heard
<1>2. \A e \in Endpoints : \A u \in NP!ToSet(received'[e]) : TokenOK(u)'
  <2> SUFFICES ASSUME NEW e \in Endpoints, NEW u \in NP!ToSet(received'[e])
               PROVE  TokenOK(u)'
    OBVIOUS
  <2>1. PICK v \in NP!MessageType : v = u /\ TokenOK(v)
    BY ReceivedTokens
  <2>2. TokenOK(v)'
    BY <2>1, TokenStays
  <2> QED  BY <2>1, <2>2
<1> QED  BY <1>1, <1>2, Zenon DEF HeardOK

\* A receive adds the message the thread reads.
LEMMA HeardGrows ==
  ASSUME NetInv, Lasting, HeardOK, NEW e \in Endpoints, Net!Receive(e)
  PROVE  /\ HeardOK' /\ Heard(e)' = Heard(e) \o <<Bytes(Head(queue[e]))>>
         /\ \A d \in Endpoints \ {e} : Heard(d)' = Heard(d)
<1> HIDE DEF NP!MessageType
<1>1. queue[e] # <<>> /\ received' = [received EXCEPT ![e] = Append(@, Head(queue[e]))]
  BY Zenon DEF Net!Receive
<1>2. /\ received \in [Endpoints -> Seq(NP!MessageType)]
      /\ received[e] \in Seq(NP!MessageType) /\ queue[e] \in Seq(NP!MessageType)
  BY DEF HeardOK, NetInv, QueuesOK
<1>3. PICK t \in NP!MessageType : t = Head(queue[e]) /\ TokenOK(t)
  <2>1. /\ Head(queue[e]) \in NP!MessageType
        /\ NP!ToSet(queue[e]) = {Head(queue[e])} \cup NP!ToSet(Tail(queue[e]))
    BY <1>1, <1>2, NP!TailSet, SimAssumptions
  <2> QED  BY <2>1, ElementsOK DEF NetInv
<1>4. /\ Append(received[e], t) \in Seq(NP!MessageType)
      /\ NP!ToSet(Append(received[e], t)) = NP!ToSet(received[e]) \cup {t}
  BY <1>2, NP!AppendSet, SimAssumptions
<1>5. /\ received' \in [Endpoints -> Seq(NP!MessageType)]
      /\ received'[e] = Append(received[e], t)
      /\ \A d \in Endpoints \ {e} : received'[d] = received[d]
  BY <1>1, <1>2, <1>3, <1>4
<1>6. \A d \in Endpoints : Mapped(received[d], Reading') = Heard(d)
  BY ReceivedTokens, MappedStays DEF Heard
<1>7. Heard(e)' = Heard(e) \o <<Bytes(Head(queue[e]))>>
  <2>1. Reading'[t] = Bytes(t)
    <3>1. Reading'[t] = Bytes(t)'
      BY Zenon DEF Reading
    <3> QED  BY <1>3, <3>1, TokenStays
  <2>2. Mapped(Append(received[e], t), Reading')
          = Mapped(received[e], Reading') \o <<Reading'[t]>>
    BY <1>2, MappedAppend
  <2>3. Heard(e)' = Mapped(received'[e], Reading')
    BY Zenon DEF Heard
  <2> QED  BY <1>3, <1>5, <1>6, <2>1, <2>2, <2>3
<1>8. \A d \in Endpoints \ {e} : Heard(d)' = Heard(d)
  BY <1>5, <1>6, Zenon DEF Heard
<1>9. \A d \in Endpoints : NP!ToSet(received'[d]) \subseteq NP!ToSet(received[d]) \cup {t}
  BY <1>4, <1>5
<1>10. HeardOK'
  BY <1>3, <1>5, <1>9, TokensStay
<1> QED  BY <1>7, <1>8, <1>10

\* What MatchingConversations says a thread received is what it heard.
LEMMA HeardRead ==
  ASSUME HeardOK, NEW e \in Endpoints
  PROVE  Heard(e) = [i \in DOMAIN received[e] |-> Bytes(received[e][i])]
<1>1. \A i \in DOMAIN received[e] : received[e][i] \in NP!MessageType
  BY ReceivedTokens DEF NP!ToSet
<1>2. \A i \in DOMAIN received[e] : Reading[received[e][i]] = Bytes(received[e][i])
  BY <1>1, Zenon DEF Reading
<1> QED  BY <1>2, Zenon DEF Heard, Mapped

-----------------------------------------------------------------------------
(* Sequences of messages.                                                   *)

\* Sequences of up to three messages, one at a time.
LEMMA Longer ==
  /\ \A x : <<>> \o <<x>> = <<x>>
  /\ \A x, y : <<x>> \o <<y>> = <<x, y>>
  /\ \A x, y, z : <<x, y>> \o <<z>> = <<x, y, z>>
<1>1. \A x : <<>> \o <<x>> = <<x>>
  OBVIOUS
<1>2. ASSUME NEW x, NEW y
      PROVE  <<x>> \o <<y>> = <<x, y>>
  <2> DEFINE q == <<x>> \o <<y>>
  <2>1. <<x>> \in Seq({x, y}) /\ <<y>> \in Seq({x, y}) /\ Len(<<y>>) = 1 /\ Len(<<x>>) = 1
    OBVIOUS
  <2>2. q \in Seq({x, y}) /\ Len(q) = 2 /\ q[1] = x /\ q[2] = y
    <3>1. /\ q \in Seq({x, y}) /\ Len(q) = 1 + 1
          /\ \A i \in 1..1 : q[i] = <<x>>[i]
          /\ q[1 + 1] = <<y>>[1]
      BY <2>1, Extended
    <3> QED  BY <3>1
  <2> HIDE DEF q
  <2>3. <<x, y>> \in Seq({x, y}) /\ Len(<<x, y>>) = 2 /\ \A i \in 1..2 : q[i] = <<x, y>>[i]
    BY <2>2
  <2>4. q = <<x, y>>
    BY <2>2, <2>3, SeqEqual
  <2> QED  BY <2>4 DEF q
<1>3. ASSUME NEW x, NEW y, NEW z
      PROVE  <<x, y>> \o <<z>> = <<x, y, z>>
  <2> DEFINE q == <<x, y>> \o <<z>>
  <2>1. /\ <<x, y>> \in Seq({x, y, z}) /\ <<z>> \in Seq({x, y, z})
        /\ Len(<<z>>) = 1 /\ Len(<<x, y>>) = 2
    OBVIOUS
  <2>2. q \in Seq({x, y, z}) /\ Len(q) = 3 /\ q[1] = x /\ q[2] = y /\ q[3] = z
    <3>1. /\ q \in Seq({x, y, z}) /\ Len(q) = 2 + 1
          /\ \A i \in 1..2 : q[i] = <<x, y>>[i]
          /\ q[2 + 1] = <<z>>[1]
      BY <2>1, Extended
    <3> QED  BY <3>1
  <2> HIDE DEF q
  <2>3. /\ <<x, y, z>> \in Seq({x, y, z}) /\ Len(<<x, y, z>>) = 3
        /\ \A i \in 1..3 : q[i] = <<x, y, z>>[i]
    BY <2>2
  <2>4. q = <<x, y, z>>
    BY <2>2, <2>3, SeqEqual
  <2> QED  BY <2>4 DEF q
<1> QED  BY <1>1, <1>2, <1>3

\* The handlers a thread calls are the handlers of HandshakeSession.
LEMMA SameHandlers ==
  ASSUME NEW e \in Endpoints
  PROVE  /\ Live!CreateM1(e) => CreateM1(e)
         /\ \A m : /\ Live!ProcessM1(e, m) => ProcessM1(e, m)
                   /\ Live!ProcessM2(e, m) => ProcessM2(e, m)
                   /\ Live!ProcessM3(e, m) => ProcessM3(e, m)
                   /\ Live!ProcessM4(e, m) => ProcessM4(e, m)
                   /\ Live!ProcessM5(e, m) => ProcessM5(e, m)
                   /\ Live!ProcessM6(e, m) => ProcessM6(e, m)
<1> USE DEF Live!Sid, Sid, Live!Pk, Pk, Live!Sk, Sk, Live!Tef, Tef, Live!TH0, TH0, Live!Plaintext,
            Plaintext, Live!DeriveTK, DeriveTK, Live!DeriveKwrapC, DeriveKwrapC,
            Live!DeriveKwrapS, DeriveKwrapS, Live!Ext, Ext, Live!Commit, Commit, Live!Quote,
            Quote, Live!Signature, Signature, Live!Ciphertext, Ciphertext, Live!SharedSecret,
            SharedSecret, Live!DeriveSessionKey, DeriveSessionKey, Live!Hmac, Hmac, Live!Encrypt,
            Encrypt, Live!Fusion, Fusion, Live!Opens, Opens, Live!Garbled, Garbled,
            Live!Timestamp, Timestamp, Live!None, None, Live!Ok, Ok, Live!Raise, Raise,
            Live!Return, Return, Live!Advance, Advance, Live!ServerTransitions, ServerTransitions,
            Live!ClientTransitions, ClientTransitions, Live!Zeroize, Zeroize,
            Live!Established, Established, Live!Decapsulate,
            Decapsulate, Live!M1, M1, Live!M2, M2, Live!M3, M3, Live!M4, M4, Live!M5, M5, Live!M6,
            M6, Live!WrapS, WrapS, Live!KeyFromM5, KeyFromM5, Live!VerifyM1, VerifyM1,
            Live!VerifyM2, VerifyM2, Live!VerifyM3, VerifyM3, Live!VerifyM4, VerifyM4,
            Live!VerifyM5, VerifyM5, Live!VerifyM6, VerifyM6
<1>0. Live!CreateM1(e) => CreateM1(e)
  BY Zenon DEF Live!CreateM1, CreateM1
<1>1. \A m : Live!ProcessM1(e, m) => ProcessM1(e, m)
  BY Zenon DEF Live!ProcessM1, ProcessM1
<1>2. \A m : Live!ProcessM2(e, m) => ProcessM2(e, m)
  BY Zenon DEF Live!ProcessM2, ProcessM2
<1>3. \A m : Live!ProcessM3(e, m) => ProcessM3(e, m)
  BY Zenon DEF Live!ProcessM3, ProcessM3
<1>4. \A m : Live!ProcessM4(e, m) => ProcessM4(e, m)
  BY Zenon DEF Live!ProcessM4, ProcessM4
<1>5. \A m : Live!ProcessM5(e, m) => ProcessM5(e, m)
  BY Zenon DEF Live!ProcessM5, ProcessM5
<1>6. \A m : Live!ProcessM6(e, m) => ProcessM6(e, m)
  BY Zenon DEF Live!ProcessM6, ProcessM6
<1> QED  BY <1>0, <1>1, <1>2, <1>3, <1>4, <1>5, <1>6, Zenon

\* The fields tell the six messages apart, and bytes that are no message have
\* none: what deserialize_m* accepts is a message of its type (wire.py).
LEMMA DecodedMessage ==
  ASSUME wire \subseteq Messages, NEW m \in Msgs
  PROVE  \A type \in {"M1", "M2", "M3", "M4", "M5", "M6"} :
           Live!Reads[type] \subseteq DOMAIN m => m \in Inbound(type)
<1>1. \A n \in Messages : \A d \in Damaged(n) : d.type = n.type /\ DOMAIN d = DOMAIN n
  BY DEF Damaged, Messages, M1s, M2s, M3s, M4s, M5s, M6s
<1>2. CASE m = Live!Malformed
  BY <1>2 DEF Live!Malformed, Live!Reads
<1>3. CASE m \in wire
  BY <1>3 DEF Live!Reads, Inbound, Messages, M1s, M2s, M3s, M4s, M5s, M6s
<1>4. CASE \E n \in wire : m \in Damaged(n)
  <2>1. PICK n \in wire : m \in Damaged(n)
    BY <1>4
  <2>2. \A type \in {"M1", "M2", "M3", "M4", "M5", "M6"} :
          Live!Reads[type] \subseteq DOMAIN n => n.type = type
    BY DEF Live!Reads, Messages, M1s, M2s, M3s, M4s, M5s, M6s
  <2> QED  BY <1>1, <2>1, <2>2 DEF Inbound
<1>5. \A n \in wire : Live!Altered(n) = Damaged(n) \cup {Live!Malformed}
  BY Zenon DEF Live!Altered, Live!Damaged, Damaged, Live!Garbled, Garbled
<1> QED  BY <1>2, <1>3, <1>4, <1>5 DEF Msgs

\* What a thread reads some handler returned, or a hook made of that.
LEMMA ReadsMessages ==
  ASSUME NetInv, NEW e \in Endpoints, queue[e] # <<>>
  PROVE  Bytes(Head(queue[e])) \in Msgs
<1> HIDE DEF NP!MessageType
<1>1. queue[e] \in Seq(NP!MessageType)
  BY DEF NetInv, QueuesOK
<1>2. PICK t \in NP!MessageType : t = Head(queue[e]) /\ TokenOK(t)
  <2>1. /\ Head(queue[e]) \in NP!MessageType
        /\ NP!ToSet(queue[e]) = {Head(queue[e])} \cup NP!ToSet(Tail(queue[e]))
    BY <1>1, NP!TailSet, SimAssumptions
  <2> QED  BY <2>1, ElementsOK DEF NetInv
<1>3. t.from \in Endpoints /\ t.seq \in 1..Len(sent[t.from])
  BY <1>2 DEF NP!MessageType, TokenOK
<1>4. /\ sent[t.from] \in Seq(wire) /\ arrived[t.from] \in Seq(Msgs)
      /\ Len(arrived[t.from]) = Len(sent[t.from]) /\ wire \subseteq Msgs
  BY <1>3, Lengths DEF Msgs
<1> HIDE DEF Msgs
<1>5. sent[t.from][t.seq] \in Msgs /\ arrived[t.from][t.seq] \in Msgs
  BY <1>3, <1>4, ElementOfSeq
<1> QED  BY <1>2, <1>5 DEF Bytes

\* A thread calls a handler with a message of the type it takes.
LEMMA ThreadCalls ==
  ASSUME NetInv, wire \subseteq Messages, NEW e \in Endpoints, Respond(e)
  PROVE  LET m == Bytes(Head(queue[e]))
         IN \/ m \in Inbound("M1") /\ ProcessM1(e, m)
            \/ m \in Inbound("M2") /\ ProcessM2(e, m)
            \/ m \in Inbound("M3") /\ ProcessM3(e, m)
            \/ m \in Inbound("M4") /\ ProcessM4(e, m)
            \/ m \in Inbound("M5") /\ ProcessM5(e, m)
            \/ m \in Inbound("M6") /\ ProcessM6(e, m)
<1> DEFINE m == Bytes(Head(queue[e]))
<1>1. Live!Decodes(e, m) /\ Live!CallHandler(e, m) /\ queue[e] # <<>>
  BY Zenon DEF Respond, Net!Receive
<1>2. m \in Msgs
  BY <1>1, ReadsMessages
<1> HIDE DEF m
<1>3. \A type \in {"M1", "M2", "M3", "M4", "M5", "M6"} :
        Live!Expected[sess[e].state] = type => m \in Inbound(type)
  BY <1>1, <1>2, DecodedMessage DEF Live!Decodes
<1>4. \/ ProcessM1(e, m) \/ ProcessM2(e, m) \/ ProcessM3(e, m)
      \/ ProcessM4(e, m) \/ ProcessM5(e, m) \/ ProcessM6(e, m)
  BY <1>1, SameHandlers, Zenon DEF Live!CallHandler
<1>5. CASE ProcessM1(e, m)
  BY <1>3, <1>5 DEF ProcessM1, Live!Expected, m
<1>6. CASE ProcessM2(e, m)
  BY <1>3, <1>6 DEF ProcessM2, Live!Expected, m
<1>7. CASE ProcessM3(e, m)
  BY <1>3, <1>7 DEF ProcessM3, Live!Expected, m
<1>8. CASE ProcessM4(e, m)
  BY <1>3, <1>8 DEF ProcessM4, Live!Expected, m
<1>9. CASE ProcessM5(e, m)
  BY <1>3, <1>9 DEF ProcessM5, Live!Expected, m
<1>10. CASE ProcessM6(e, m)
  BY <1>3, <1>10 DEF ProcessM6, Live!Expected, m
<1> QED  BY <1>4, <1>5, <1>6, <1>7, <1>8, <1>9, <1>10

\* A handler that returns a new message leaves it to its thread to send.
LEMMA MessageSent ==
  ASSUME NetInv, NEW e \in Endpoints, HandlerReturns(e),
         NEW m, m \notin wire, wire' = wire \cup {m}
  PROVE  /\ sent'[e] = sent[e] \o <<m>>
         /\ \A d \in Endpoints \ {e} : sent'[d] = sent[d]
<1>1. Live!Returned = <<m>>
  BY DEF Live!Returned
<1>2. sent' = [sent EXCEPT ![e] = @ \o <<m>>]
  BY <1>1, Zenon DEF HandlerReturns
<1>3. sent \in [Endpoints -> Seq(wire)]
  BY DEF NetInv, Typed
<1> QED  BY <1>2, <1>3

\* A handler that adds nothing to the wire sends nothing.
LEMMA NothingSent ==
  ASSUME NetInv, NEW e \in Endpoints, HandlerReturns(e), wire' = wire
  PROVE  \A d \in Endpoints : sent'[d] = sent[d]
<1>1. sent' = [sent EXCEPT ![e] = @ \o <<>>]
  BY Zenon DEF HandlerReturns, Live!Returned
<1>2. sent \in [Endpoints -> Seq(wire)]
  BY DEF NetInv, Typed
<1>3. \A d \in Endpoints : sent[d] \o <<>> = sent[d]
  BY <1>2, ConcatEmptySeq
<1> QED  BY <1>1, <1>2, <1>3

-----------------------------------------------------------------------------
(* What each side of a handshake has sent and heard.                        *)

\* The transcripts of a handshake, from what was heard.
ServerTH3(s, m2) == Ext(TH2Of(s, m2), M3Of(s, m2))

\* What a server sent and heard by the state of its session, and the
\* transcript it has from that.
ServerStory(s) ==
  LET h == sess[s]
  IN \/ /\ h.state = "INIT"
        /\ sent[s] = <<>> /\ Heard(s) = <<>>
     \/ /\ h.state = "M1_CREATED"
        /\ sent[s] = <<M1Of(s)>> /\ Heard(s) = <<>>
     \/ \E m2 :
          /\ h.state = "M3_CREATED"
          /\ sent[s] = <<M1Of(s), M3Of(s, m2)>> /\ Heard(s) = <<m2>>
          /\ h.th = ServerTH3(s, m2)
     \/ \E m2, m4 :
          /\ h.state = "M5_CREATED"
          /\ sent[s] = <<M1Of(s), M3Of(s, m2), h.m5>> /\ Heard(s) = <<m2, m4>>
          /\ h.th = Ext(Ext(ServerTH3(s, m2), m4), h.m5.wrappedS)
     \/ \E m2, m4 :
          /\ h.state = "ESTABLISHED"
          /\ sent[s] = <<M1Of(s), M3Of(s, m2), h.m5>>
          /\ Heard(s) = <<m2, m4, M6(h.key, h.th, h.m5)>>
          /\ h.th = Ext(Ext(ServerTH3(s, m2), m4), h.m5.wrappedS)

ClientTH2(m1, m2) == Ext(Ext(TH0(m1.sid), m1), m2)
ClientTH4(m1, m2, m3, m4) == Ext(Ext(ClientTH2(m1, m2), m3), m4)

\* The same of a client.
ClientStory(c) ==
  LET h == sess[c]
  IN \/ /\ h.state = "INIT"
        /\ sent[c] = <<>> /\ Heard(c) = <<>>
     \/ \E m1, m2 :
          /\ h.state = "M2_CREATED"
          /\ sent[c] = <<m2>> /\ Heard(c) = <<m1>>
          /\ h.th = ClientTH2(m1, m2)
     \/ \E m1, m2, m3, m4 :
          /\ h.state = "M4_CREATED"
          /\ sent[c] = <<m2, m4>> /\ Heard(c) = <<m1, m3>>
          /\ h.th = ClientTH4(m1, m2, m3, m4)
     \/ \E m1, m2, m3, m4 :
          /\ h.state = "ESTABLISHED"
          /\ sent[c] = <<m2, m4, M6(h.key, h.th, h.m5)>> /\ Heard(c) = <<m1, m3, h.m5>>
          /\ h.th = Ext(ClientTH4(m1, m2, m3, m4), h.m5.wrappedS)

\* A thread without an exception is where its session is.
Story(e) ==
  thread[e] # "error" =>
    /\ exc[e] = Ok /\ (thread[e] = "done" => sess[e].state = "ESTABLISHED")
    /\ e \in Servers => ServerStory(e)
    /\ e \in Clients => ClientStory(e)

ThreadsOK == thread \in [Endpoints -> {"running", "done", "error"}]

\* What a handler of e leaves behind.
Tells(e) ==
  Kept(e) /\ Story(e)' /\ (thread'[e] = "error" => wire' = wire)

\* How a thread goes on after a handler returned (_harness.py 85-120).
LEMMA ThreadAfter ==
  ASSUME ThreadsOK, NEW e \in Endpoints, HandlerReturns(e)
  PROVE  /\ ThreadsOK' /\ \A d \in Endpoints \ {e} : thread'[d] = thread[d]
         /\ exc'[e] # Ok => thread'[e] = "error"
         /\ exc'[e] = Ok => thread'[e] =
              IF e \in Servers /\ sess'[e].state = "ESTABLISHED" THEN "done" ELSE thread[e]
<1>1. Live!Ok = Ok
  BY DEF Live!Ok, Ok
<1>2. thread' = [thread EXCEPT ![e] =
        IF exc'[e] # Ok THEN "error"
        ELSE IF e \in Servers /\ sess'[e].state = "ESTABLISHED" THEN "done" ELSE thread[e]]
  BY <1>1, Zenon DEF HandlerReturns, Live!ThreadAfterHandler
<1> QED  BY <1>2 DEF ThreadsOK

\* A handler that raised ends its thread: it has no story to keep.
LEMMA TellsNothing ==
  ASSUME ThreadsOK, NEW e \in Endpoints, HandlerReturns(e), Kept(e), Failing(e)
  PROVE  Tells(e)
<1>1. thread'[e] = "error"
  BY ThreadAfter DEF Failing
<1>2. Story(e)'
  BY <1>1 DEF Story
<1> QED  BY <1>2 DEF Tells, Failing

\* The server announces itself.
LEMMA CreateM1Tells ==
  ASSUME NetInv, AgreementInv, Announced, ThreadsOK, NEW e \in Servers, Story(e),
         thread[e] = "running", CreateM1(e), HandlerReturns(e), Heard(e)' = Heard(e)
  PROVE  Tells(e)
<1> DEFINE m == M1Of(e)
<1>1. IndInv /\ e \in Endpoints /\ e \notin Clients /\ sess[e].state = "INIT"
  BY RolesAssumption DEF Endpoints, CreateM1, AgreementInv
<1>2. CASE Failing(e)
  BY <1>1, <1>2, CreateM1Outcome, TellsNothing
<1>3. CASE ~Failing(e)
  <2>1. /\ Kept(e) /\ exc' = exc /\ wire' = wire \cup {m} /\ sess'[e].state = "M1_CREATED"
    BY <1>1, <1>3, CreateM1Outcome DEF M1Of
  <2>2. exc[e] = Ok /\ sent[e] = <<>> /\ Heard(e) = <<>>
    BY <1>1 DEF Story, ServerStory
  <2> HIDE DEF m
  <2>3. sent'[e] = <<m>>
    <3>1. m \notin wire
      BY <1>1, NotYetSaid DEF m
    <3> QED  BY <1>1, <2>1, <2>2, <3>1, MessageSent, Longer
  <2>4. thread'[e] = "running"
    BY <1>1, <2>1, <2>2, ThreadAfter
  <2>5. ServerStory(e)'
    BY <2>1, <2>2, <2>3 DEF ServerStory, m
  <2>6. Story(e)'
    BY <1>1, <2>1, <2>2, <2>4, <2>5 DEF Story
  <2> QED  BY <2>1, <2>4, <2>6 DEF Tells
<1> QED  BY <1>2, <1>3

\* The client answers an M1.
LEMMA ProcessM1Tells ==
  ASSUME NetInv, AgreementInv, Announced, ThreadsOK, NEW e \in Endpoints, Story(e),
         thread[e] = "running", NEW m \in M1s, ProcessM1(e, m), HandlerReturns(e),
         Heard(e)' = Heard(e) \o <<m>>
  PROVE  Tells(e)
<1>1. IndInv /\ sess[e].state = "INIT"
  BY DEF ProcessM1, AgreementInv
<1>2. CASE Failing(e)
  BY <1>1, <1>2, ProcessM1Outcome, TellsNothing
<1>3. CASE ~Failing(e)
  <2>1. PICK n : n = M2(m.sid, Ciphertext(e, m.pkS), Commit(Tef(e), m.sid))
    OBVIOUS
  <2>2. /\ Kept(e) /\ e \in Clients /\ exc' = exc /\ wire' = wire \cup {n}
        /\ sess'[e].state = "M2_CREATED" /\ sess'[e].th = ClientTH2(m, n)
    BY <1>1, <1>3, <2>1, ProcessM1Outcome DEF ClientTH2
  <2>3. e \notin Servers
    BY <2>2, RolesAssumption
  <2>4. exc[e] = Ok /\ sent[e] = <<>> /\ Heard(e) = <<>>
    BY <1>1, <2>2 DEF Story, ClientStory
  <2>5. n.type = "M2" /\ n.ct[2] = e
    BY <2>1 DEF M2, Ciphertext
  <2>6. sent'[e] = <<n>> /\ Heard(e)' = <<m>>
    <3>1. n \notin wire
      BY <1>1, <2>5, NotYetSaid
    <3> QED  BY <2>2, <2>4, <3>1, MessageSent, Longer
  <2>7. thread'[e] = "running"
    BY <2>2, <2>3, <2>4, ThreadAfter
  <2>8. ClientStory(e)'
    BY <2>2, <2>6 DEF ClientStory
  <2>9. Story(e)'
    BY <2>2, <2>3, <2>4, <2>7, <2>8 DEF Story
  <2> QED  BY <2>2, <2>7, <2>9 DEF Tells
<1> QED  BY <1>2, <1>3

\* The server answers an M2.
LEMMA ProcessM2Tells ==
  ASSUME NetInv, AgreementInv, Announced, ThreadsOK, NEW e \in Endpoints, Story(e),
         thread[e] = "running", NEW m \in M2s, ProcessM2(e, m), HandlerReturns(e),
         Heard(e)' = Heard(e) \o <<m>>
  PROVE  Tells(e)
<1>1. sess[e].state = "M1_CREATED"
  BY DEF ProcessM2
<1>2. CASE Failing(e)
  BY <1>2, ProcessM2Outcome, TellsNothing
<1>3. CASE ~Failing(e)
  <2>1. PICK n : n = M3Of(e, m)
    OBVIOUS
  <2>2. /\ Kept(e) /\ e \in Servers /\ exc' = exc /\ exc[e] = Ok /\ wire' = wire \cup {n}
        /\ sess'[e].state = "M3_CREATED" /\ sess'[e].th = ServerTH3(e, m)
    BY <1>3, <2>1, ProcessM2Outcome DEF ServerTH3
  <2>3. e \notin Clients
    BY <2>2, RolesAssumption
  <2>4. sent[e] = <<M1Of(e)>> /\ Heard(e) = <<>>
    BY <1>1, <2>2 DEF Story, ServerStory
  <2>5. sent'[e] = <<M1Of(e), n>> /\ Heard(e)' = <<m>>
    <3>1. n \notin wire
      BY <1>1, <2>1, NotYetSaid
    <3>2. sent'[e] = sent[e] \o <<n>>
      BY <2>2, <3>1, MessageSent
    <3>3. /\ <<M1Of(e)>> \o <<n>> = <<M1Of(e), n>>
          /\ <<>> \o <<m>> = <<m>>
      BY Longer, Zenon
    <3> QED  BY <2>4, <3>2, <3>3, Zenon
  <2>6. thread'[e] = "running"
    BY <2>2, ThreadAfter
  <2>7. ServerStory(e)'
    BY <2>1, <2>2, <2>5 DEF ServerStory
  <2>8. Story(e)'
    BY <2>2, <2>3, <2>6, <2>7 DEF Story
  <2> QED  BY <2>2, <2>6, <2>8 DEF Tells
<1> QED  BY <1>2, <1>3

\* The client answers an M3.
LEMMA ProcessM3Tells ==
  ASSUME NetInv, AgreementInv, Announced, ThreadsOK, NEW e \in Endpoints, Story(e),
         thread[e] = "running", NEW m \in M3s, ProcessM3(e, m), HandlerReturns(e),
         Heard(e)' = Heard(e) \o <<m>>
  PROVE  Tells(e)
<1>1. CASE Failing(e)
  BY <1>1, ProcessM3Outcome, TellsNothing
<1>2. CASE ~Failing(e)
  <2>1. PICK n : n = M4(sess[e].ss, sess[e].tefc, Ext(sess[e].th, m))
    OBVIOUS
  <2>2. /\ Kept(e) /\ e \in Clients /\ exc' = exc /\ exc[e] = Ok /\ wire' = wire \cup {n}
        /\ sess[e].state = "M2_CREATED" /\ sess'[e].state = "M4_CREATED"
        /\ sess'[e].th = Ext(Ext(sess[e].th, m), n)
    BY <1>2, <2>1, ProcessM3Outcome
  <2>3. e \notin Servers
    BY <2>2, RolesAssumption
  <2>4. PICK m1, m2 : /\ sent[e] = <<m2>> /\ Heard(e) = <<m1>>
                      /\ sess[e].th = ClientTH2(m1, m2)
    BY <2>2 DEF Story, ClientStory
  <2>5. sess[e].tefc = Tef(e)
    BY <2>2 DEF AgreementInv, FactsOK, ClientFacts
  <2>6. sent'[e] = <<m2, n>> /\ Heard(e)' = <<m1, m>>
    <3>1. n \notin wire
      BY <2>1, <2>2, <2>5, NotYetSaid
    <3>2. sent'[e] = sent[e] \o <<n>>
      BY <2>2, <3>1, MessageSent
    <3>3. /\ <<m2>> \o <<n>> = <<m2, n>>
          /\ <<m1>> \o <<m>> = <<m1, m>>
      BY Longer, Zenon
    <3> QED  BY <2>4, <3>2, <3>3, Zenon
  <2>7. thread'[e] = "running"
    BY <2>2, <2>3, ThreadAfter
  <2>8. sess'[e].th = ClientTH4(m1, m2, m, n)
    BY <2>2, <2>4 DEF ClientTH4
  <2>9. ClientStory(e)'
    BY <2>2, <2>6, <2>8 DEF ClientStory
  <2>10. Story(e)'
    BY <2>2, <2>3, <2>7, <2>9 DEF Story
  <2> QED  BY <2>2, <2>7, <2>10 DEF Tells
<1> QED  BY <1>1, <1>2

\* The server answers an M4.
LEMMA ProcessM4Tells ==
  ASSUME NetInv, AgreementInv, Announced, ThreadsOK, NEW e \in Endpoints, Story(e),
         thread[e] = "running", NEW m \in M4s, ProcessM4(e, m), HandlerReturns(e),
         Heard(e)' = Heard(e) \o <<m>>
  PROVE  Tells(e)
<1>1. CASE Failing(e)
  BY <1>1, ProcessM4Outcome, TellsNothing
<1>2. CASE ~Failing(e)
  <2>1. PICK w, key : \E th4 :
          /\ th4 = Ext(sess[e].th, m) /\ w = WrapS(sess[e].ss, sess[e].tefs, th4)
          /\ key = DeriveSessionKey(sess[e].ss,
                     Fusion(Plaintext(m.wrappedC), sess[e].tefs, sess[e].sid))
    OBVIOUS
  <2>2. PICK n : n = M5(w, key, Ext(Ext(sess[e].th, m), w))
    OBVIOUS
  <2>3. /\ Kept(e) /\ e \in Servers /\ exc' = exc /\ exc[e] = Ok /\ wire' = wire \cup {n}
        /\ sess[e].state = "M3_CREATED" /\ sess'[e].state = "M5_CREATED"
        /\ sess'[e].m5 = n /\ sess'[e].th = Ext(Ext(sess[e].th, m), w)
    BY <1>2, <2>1, <2>2, ProcessM4Outcome
  <2>4. e \notin Clients
    BY <2>3, RolesAssumption
  <2>5. PICK m2 : /\ sent[e] = <<M1Of(e), M3Of(e, m2)>> /\ Heard(e) = <<m2>>
                  /\ sess[e].th = ServerTH3(e, m2)
    BY <2>3 DEF Story, ServerStory
  <2>6. n.wrappedS = w /\ sess[e].tefs = Tef(e)
    BY <2>2, <2>3 DEF M5, AgreementInv, FactsOK, ServerFacts, Committed
  <2>7. sent'[e] = <<M1Of(e), M3Of(e, m2), n>> /\ Heard(e)' = <<m2, m>>
    <3>1. n \notin wire
      BY <2>1, <2>2, <2>3, <2>6, NotYetSaid
    <3>2. sent'[e] = sent[e] \o <<n>>
      BY <2>3, <3>1, MessageSent
    <3>3. /\ <<M1Of(e), M3Of(e, m2)>> \o <<n>> = <<M1Of(e), M3Of(e, m2), n>>
          /\ <<m2>> \o <<m>> = <<m2, m>>
      BY Longer, Zenon
    <3> QED  BY <2>5, <3>2, <3>3, Zenon
  <2>8. thread'[e] = "running"
    BY <2>3, ThreadAfter
  <2>9. sess'[e].th = Ext(Ext(ServerTH3(e, m2), m), sess'[e].m5.wrappedS)
    BY <2>3, <2>5, <2>6
  <2>10. ServerStory(e)'
    BY <2>3, <2>7, <2>9 DEF ServerStory
  <2>11. Story(e)'
    BY <2>3, <2>4, <2>8, <2>10 DEF Story
  <2> QED  BY <2>3, <2>8, <2>11 DEF Tells
<1> QED  BY <1>1, <1>2

\* The client accepts an M5 and answers it.
LEMMA ProcessM5Tells ==
  ASSUME NetInv, AgreementInv, Announced, ThreadsOK, NEW e \in Endpoints, Story(e),
         thread[e] = "running", NEW m \in M5s, ProcessM5(e, m), HandlerReturns(e),
         Heard(e)' = Heard(e) \o <<m>>
  PROVE  Tells(e)
<1>1. CASE Failing(e)
  BY <1>1, ProcessM5Outcome, TellsNothing
<1>2. CASE ~Failing(e)
  <2>1. PICK key : key = DeriveSessionKey(sess[e].ss,
                     Fusion(sess[e].tefc, Plaintext(m.wrappedS), sess[e].sid))
    OBVIOUS
  <2>2. PICK n : n = M6(key, Ext(sess[e].th, m.wrappedS), m)
    OBVIOUS
  <2>3. /\ Kept(e) /\ e \in Clients /\ exc' = exc /\ exc[e] = Ok /\ wire' = wire \cup {n}
        /\ sess[e].state = "M4_CREATED" /\ sess'[e].state = "ESTABLISHED"
        /\ sess'[e].key = key /\ sess'[e].m5 = m
        /\ sess'[e].th = Ext(sess[e].th, m.wrappedS)
    BY <1>2, <2>1, <2>2, ProcessM5Outcome
  <2>4. e \notin Servers
    BY <2>3, RolesAssumption
  <2>5. PICK m1, m2, m3, m4 : /\ sent[e] = <<m2, m4>> /\ Heard(e) = <<m1, m3>>
                              /\ sess[e].th = ClientTH4(m1, m2, m3, m4)
    BY <2>3 DEF Story, ClientStory
  <2>6. key[3][2] = Tef(e)
    <3>1. sess[e].tefc = Tef(e)
      BY <2>3 DEF AgreementInv, FactsOK, ClientFacts, Revealed
    <3> QED  BY <2>1, <3>1 DEF DeriveSessionKey, Fusion
  <2>7. sent'[e] = <<m2, m4, n>> /\ Heard(e)' = <<m1, m3, m>>
    <3>1. n \notin wire
      BY <2>2, <2>3, <2>6, NotYetSaid
    <3>2. sent'[e] = sent[e] \o <<n>>
      BY <2>3, <3>1, MessageSent
    <3>3. /\ <<m2, m4>> \o <<n>> = <<m2, m4, n>>
          /\ <<m1, m3>> \o <<m>> = <<m1, m3, m>>
      BY Longer, Zenon
    <3> QED  BY <2>5, <3>2, <3>3, Zenon
  <2>8. thread'[e] = "running"
    BY <2>3, <2>4, ThreadAfter
  <2>9. /\ n = M6(sess'[e].key, sess'[e].th, sess'[e].m5)
        /\ sess'[e].th = Ext(ClientTH4(m1, m2, m3, m4), sess'[e].m5.wrappedS)
    BY <2>2, <2>3, <2>5
  <2>10. ClientStory(e)'
    BY <2>3, <2>7, <2>9 DEF ClientStory
  <2>11. Story(e)'
    BY <2>3, <2>4, <2>8, <2>10 DEF Story
  <2> QED  BY <2>3, <2>8, <2>11 DEF Tells
<1> QED  BY <1>1, <1>2

\* The server accepts the M6 of its peer, and no other message of that type.
LEMMA ProcessM6Tells ==
  ASSUME NetInv, AgreementInv, Announced, ThreadsOK, NEW e \in Endpoints, Story(e),
         thread[e] = "running", NEW m \in M6s, ProcessM6(e, m), HandlerReturns(e),
         Heard(e)' = Heard(e) \o <<m>>
  PROVE  Tells(e)
<1>1. CASE Failing(e)
  BY <1>1, ProcessM6Outcome, TellsNothing
<1>2. CASE ~Failing(e)
  <2>1. /\ Kept(e) /\ e \in Servers /\ exc' = exc /\ exc[e] = Ok /\ wire' = wire
        /\ sess[e].state = "M5_CREATED" /\ sess'[e].state = "ESTABLISHED"
        /\ m.MACC = Hmac(sess[e].key, "confirm-C", Ext(sess[e].th, sess[e].m5))
    BY <1>2, ProcessM6Outcome
  <2>2. e \notin Clients
    BY <2>1, RolesAssumption
  <2>3. /\ sess'[e].key = sess[e].key /\ sess'[e].m5 = sess[e].m5
        /\ sess'[e].th = sess[e].th
    BY <2>1 DEF Kept
  <2>4. PICK m2, m4 :
          /\ sent[e] = <<M1Of(e), M3Of(e, m2), sess[e].m5>> /\ Heard(e) = <<m2, m4>>
          /\ sess[e].th = Ext(Ext(ServerTH3(e, m2), m4), sess[e].m5.wrappedS)
    BY <2>1 DEF Story, ServerStory
  <2>5. m = M6(sess'[e].key, sess'[e].th, sess'[e].m5)
    BY <2>1, <2>3 DEF M6, M6s
  <2>6. sent'[e] = sent[e] /\ Heard(e)' = <<m2, m4, m>>
    BY <2>1, <2>4, NothingSent, Longer
  <2>7. thread'[e] = "done"
    BY <2>1, ThreadAfter
  <2>8. ServerStory(e)'
    BY <2>1, <2>3, <2>4, <2>5, <2>6 DEF ServerStory
  <2>9. Story(e)'
    BY <2>1, <2>2, <2>7, <2>8 DEF Story
  <2> QED  BY <2>1, <2>9 DEF Tells
<1> QED  BY <1>1, <1>2

-----------------------------------------------------------------------------
(* Every step keeps the stories.                                            *)

\* A thread that ended with an exception is outside send.
EndingsOK == \A e \in Endpoints : thread[e] = "error" => Len(sent[e]) = Len(fate[e])

StoryInv ==
  /\ AgreementInv /\ Announced /\ Trusting
  /\ HeardOK /\ ThreadsOK /\ EndingsOK /\ \A e \in Endpoints : Story(e)

\* What one session is told is no news to the story of another.
LEMMA OthersStory ==
  ASSUME ThreadsOK, NEW e \in Endpoints, Tells(e), HandlerReturns(e),
         NEW d \in Endpoints \ {e}, Story(d), Heard(d)' = Heard(d), sent'[d] = sent[d]
  PROVE  Story(d)'
<1>1. sess'[d] = sess[d] /\ exc'[d] = exc[d] /\ thread'[d] = thread[d]
  BY ThreadAfter DEF Tells, Kept
<1>2. ServerStory(d) => ServerStory(d)'
  BY <1>1, Zenon DEF ServerStory
<1>3. ClientStory(d) => ClientStory(d)'
  BY <1>1 DEF ClientStory
<1> QED  BY <1>1, <1>2, <1>3 DEF Story

\* A handler call keeps the stories.
LEMMA CallKeeps ==
  ASSUME NetInv, StoryInv, NEW e \in Endpoints, Tells(e), HandlerReturns(e), HandlerCall(e),
         Len(sent[e]) = Len(fate[e]), UNCHANGED fate, HeardOK',
         \A d \in Endpoints \ {e} : Heard(d)' = Heard(d)
  PROVE  StoryInv'
<1>1. \A d \in Endpoints \ {e} : sent'[d] = sent[d]
  BY DEF HandlerReturns, NetInv, Typed
<1>2. \A d \in Endpoints \ {e} : Story(d)'
  BY <1>1, OthersStory DEF StoryInv
<1>3. ThreadsOK' /\ \A d \in Endpoints \ {e} : thread'[d] = thread[d]
  BY ThreadAfter DEF StoryInv
<1>4. EndingsOK'
  <2>1. thread'[e] = "error" => sent'[e] = sent[e]
    BY NothingSent DEF Tells
  <2> QED  BY <1>1, <1>3, <2>1 DEF EndingsOK, StoryInv
<1>5. AgreementInv'
  <2>1. Next
    BY Zenon DEF HandlerCall, Next
  <2> QED  BY <2>1, NextFacts DEF StoryInv
<1>6. Announced' /\ Trusting'
  BY CallAnnounced, CallTrusting DEF StoryInv
<1> QED  BY <1>2, <1>3, <1>4, <1>5, <1>6 DEF StoryInv, Tells

\* create_m1 keeps the stories.
LEMMA StartKeeps ==
  ASSUME NetInv, StoryInv, Lasting, NEW e \in Endpoints, Start(e)
  PROVE  StoryInv'
<1>1. /\ e \in Servers /\ thread[e] = "running" /\ sent[e] = <<>>
      /\ CreateM1(e) /\ HandlerReturns(e) /\ UNCHANGED <<received, fate>>
  BY SameHandlers, Zenon DEF Start, simVars
<1>2. Len(sent[e]) = Len(fate[e])
  <2>1. Len(sent[e]) = 0
    BY <1>1
  <2> QED  BY <2>1, Lengths
<1>3. HeardOK' /\ \A d \in Endpoints : Heard(d)' = Heard(d)
  BY <1>1, HeardStays DEF StoryInv
<1>4. Tells(e)
  BY <1>1, <1>3, CreateM1Tells DEF StoryInv
<1>5. HandlerCall(e)
  BY <1>1 DEF HandlerCall
<1> QED  BY <1>1, <1>2, <1>3, <1>4, <1>5, CallKeeps

\* A message handled keeps the stories.
LEMMA RespondKeeps ==
  ASSUME NetInv, StoryInv, Lasting, NEW e \in Endpoints, Respond(e)
  PROVE  StoryInv'
<1> DEFINE m == Bytes(Head(queue[e]))
<1>1. Live!Receiving(e) /\ Net!Receive(e) /\ HandlerReturns(e) /\ UNCHANGED fate
  BY Zenon DEF Respond, Net!Receive, Net!sendVars
<1>2. Len(sent[e]) = Len(fate[e]) /\ thread[e] = "running"
  BY <1>1, ReceivingOutside DEF Live!Receiving
<1>3. /\ HeardOK' /\ Heard(e)' = Heard(e) \o <<m>>
      /\ \A d \in Endpoints \ {e} : Heard(d)' = Heard(d)
  BY <1>1, HeardGrows DEF StoryInv
<1>4. /\ wire \subseteq Messages /\ IndInv /\ AgreementInv /\ Announced
      /\ ThreadsOK /\ Story(e)
  BY DEF StoryInv, AgreementInv, IndInv, TypeOK
<1>5. \/ m \in Inbound("M1") /\ ProcessM1(e, m)
      \/ m \in Inbound("M2") /\ ProcessM2(e, m)
      \/ m \in Inbound("M3") /\ ProcessM3(e, m)
      \/ m \in Inbound("M4") /\ ProcessM4(e, m)
      \/ m \in Inbound("M5") /\ ProcessM5(e, m)
      \/ m \in Inbound("M6") /\ ProcessM6(e, m)
  BY <1>4, ThreadCalls
<1> HIDE DEF m
<1>6. HandlerCall(e)
  BY <1>5, Zenon DEF HandlerCall
<1>7. Tells(e)
  <2>1. CASE m \in Inbound("M1") /\ ProcessM1(e, m)
    <3>1. m \in M1s
      BY <1>4, <2>1, InboundType
    <3> QED  BY <1>1, <1>2, <1>3, <1>4, <2>1, <3>1, ProcessM1Tells
  <2>2. CASE m \in Inbound("M2") /\ ProcessM2(e, m)
    <3>1. m \in M2s
      BY <1>4, <2>2, InboundType
    <3> QED  BY <1>1, <1>2, <1>3, <1>4, <2>2, <3>1, ProcessM2Tells
  <2>3. CASE m \in Inbound("M3") /\ ProcessM3(e, m)
    <3>1. m \in M3s
      BY <1>4, <2>3, InboundType
    <3> QED  BY <1>1, <1>2, <1>3, <1>4, <2>3, <3>1, ProcessM3Tells
  <2>4. CASE m \in Inbound("M4") /\ ProcessM4(e, m)
    <3>1. m \in M4s
      BY <1>4, <2>4, InboundType
    <3> QED  BY <1>1, <1>2, <1>3, <1>4, <2>4, <3>1, ProcessM4Tells
  <2>5. CASE m \in Inbound("M5") /\ ProcessM5(e, m)
    <3>1. m \in M5s
      BY <1>4, <2>5, InboundType
    <3> QED  BY <1>1, <1>2, <1>3, <1>4, <2>5, <3>1, ProcessM5Tells
  <2>6. CASE m \in Inbound("M6") /\ ProcessM6(e, m)
    <3>1. m \in M6s
      BY <1>4, <2>6, InboundType
    <3> QED  BY <1>1, <1>2, <1>3, <1>4, <2>6, <3>1, ProcessM6Tells
  <2> QED  BY <1>5, <2>1, <2>2, <2>3, <2>4, <2>5, <2>6
<1> QED  BY <1>1, <1>2, <1>3, <1>6, <1>7, CallKeeps

\* The steps that call no handler: a thread may end, and nothing else that the
\* stories tell changes.
LEMMA PassiveKeeps ==
  ASSUME StoryInv, UNCHANGED <<vars, sent>>, ThreadsOK', HeardOK', EndingsOK',
         \A e \in Endpoints : thread'[e] # "error" =>
           /\ thread[e] # "error" /\ Heard(e)' = Heard(e)
           /\ thread'[e] = "done" => thread[e] = "done" \/ sess[e].state = "ESTABLISHED"
  PROVE  StoryInv'
<1>1. sess' = sess /\ exc' = exc /\ sent' = sent /\ wire' = wire
  BY Zenon DEF vars
<1>2. AgreementInv' /\ Announced' /\ Trusting'
  BY <1>1, NextFacts DEF StoryInv, Announced, Trusting
<1>3. ASSUME NEW e \in Endpoints
      PROVE  Story(e)'
  <2>1. CASE thread'[e] = "error"
    BY <2>1 DEF Story
  <2>2. CASE thread'[e] # "error"
    <3>1. /\ thread[e] # "error" /\ Heard(e)' = Heard(e) /\ Story(e)
          /\ thread'[e] = "done" => thread[e] = "done" \/ sess[e].state = "ESTABLISHED"
      BY <2>2 DEF StoryInv
    <3>2. ServerStory(e) => ServerStory(e)'
      BY <1>1, <3>1 DEF ServerStory
    <3>3. ClientStory(e) => ClientStory(e)'
      BY <1>1, <3>1 DEF ClientStory
    <3> QED  BY <1>1, <3>1, <3>2, <3>3 DEF Story
  <2> QED  BY <2>1, <2>2
<1> QED  BY <1>2, <1>3 DEF StoryInv

\* Nothing is received, and no thread goes on.
LEMMA AsideTells ==
  ASSUME StoryInv, Lasting, UNCHANGED <<vars, thread, sent, received, fate>>
  PROVE  StoryInv'
<1>1. HeardOK' /\ \A e \in Endpoints : Heard(e)' = Heard(e)
  BY HeardStays DEF StoryInv
<1>2. ThreadsOK' /\ EndingsOK'
  BY Zenon DEF StoryInv, ThreadsOK, EndingsOK
<1> QED  BY <1>1, <1>2, PassiveKeeps, Zenon

\* A thread that does not call its handler ends.
LEMMA StopKeeps ==
  ASSUME NetInv, StoryInv, Lasting, NEW e \in Endpoints, Timeout(e) \/ Undecodable(e)
  PROVE  StoryInv'
<1>1. /\ Live!Receiving(e) /\ thread' = [thread EXCEPT ![e] = "error"]
      /\ UNCHANGED <<vars, sent, fate>> /\ (UNCHANGED received \/ Net!Receive(e))
  BY Zenon DEF Timeout, Undecodable, Net!Receive, Net!sendVars, simVars
<1>2. ThreadsOK' /\ thread'[e] = "error" /\ \A d \in Endpoints \ {e} : thread'[d] = thread[d]
  BY <1>1 DEF StoryInv, ThreadsOK
<1>3. Len(sent[e]) = Len(fate[e])
  BY <1>1, ReceivingOutside
<1>4. EndingsOK'
  BY <1>1, <1>2, <1>3 DEF StoryInv, EndingsOK
<1>5. HeardOK' /\ \A d \in Endpoints \ {e} : Heard(d)' = Heard(d)
  BY <1>1, HeardStays, HeardGrows DEF StoryInv
<1> QED  BY <1>1, <1>2, <1>4, <1>5, PassiveKeeps

\* A step inside a send, or its end.
LEMMA SendingKeeps ==
  ASSUME NetInv, StoryInv, Lasting, NEW e \in Endpoints, Len(sent[e]) = Len(fate[e]) + 1,
         UNCHANGED <<vars, sent, received>>,
         \/ UNCHANGED <<thread, fate>>
         \/ SendEnds(e) /\ \E how \in NP!Fates : fate' = [fate EXCEPT ![e] = Append(@, how)]
  PROVE  StoryInv'
<1>1. CASE UNCHANGED <<thread, fate>>
  BY <1>1, AsideTells
<1>2. CASE SendEnds(e) /\ \E how \in NP!Fates : fate' = [fate EXCEPT ![e] = Append(@, how)]
  <2>1. PICK how \in NP!Fates : fate' = [fate EXCEPT ![e] = Append(@, how)]
    BY <1>2
  <2>2. fate \in [Endpoints -> Seq(NP!Fates)] /\ Len(fate[e]) \in Nat /\ Len(sent[e]) \in Nat
    BY Lengths DEF NetInv, NP!SimInv, NP!Types
  <2> HIDE DEF NP!Fates
  <2>3. /\ Len(fate'[e]) = Len(sent[e])
        /\ \A d \in Endpoints \ {e} : fate'[d] = fate[d]
    <3>1. fate'[e] = Append(fate[e], how) /\ \A d \in Endpoints \ {e} : fate'[d] = fate[d]
      BY <2>1, <2>2
    <3> QED  BY <2>2, <3>1, AppendProperties
  <2>4. thread[e] # "error"
    BY <2>2 DEF StoryInv, EndingsOK
  <2>5. /\ ThreadsOK' /\ \A d \in Endpoints \ {e} : thread'[d] = thread[d]
        /\ thread'[e] = "done" => thread[e] = "done" \/ sess[e].state = "ESTABLISHED"
    BY <1>2 DEF StoryInv, ThreadsOK, SendEnds, Live!ThreadAfterSend
  <2>6. EndingsOK'
    BY <2>3, <2>5 DEF StoryInv, EndingsOK
  <2>7. HeardOK' /\ \A d \in Endpoints : Heard(d)' = Heard(d)
    BY HeardStays DEF StoryInv
  <2> QED  BY <2>4, <2>5, <2>6, <2>7, PassiveKeeps
<1> QED  BY <1>1, <1>2

\* A step of send keeps the stories.
LEMMA SendKeeps ==
  ASSUME NetInv, StoryInv, Lasting, NEW e \in Endpoints, Send(e) \/ Duplicate(e) \/ Modify(e)
  PROVE  StoryInv'
<1>1. /\ fate \in [Endpoints -> Seq(NP!Fates)] /\ Len(fate[e]) \in Nat /\ Len(sent[e]) \in Nat
      /\ {"raised", "hook_raised", "dropped", "drop_next", "delivered"} \subseteq NP!Fates
  BY Lengths DEF NetInv, NP!SimInv, NP!Types, NP!Fates
<1>2. Len(sent[e]) = Len(fate[e]) + 1
  <2>1. CASE Send(e)
    <3>1. Len(sent[e]) > Len(fate[e])
      BY <2>1, Zenon DEF Send
    <3> QED  BY <1>1, <3>1, Lengths
  <2>2. CASE Duplicate(e) \/ Modify(e)
    <3>1. at[e] # "idle"
      BY <2>2 DEF Duplicate, Modify, Net!DuplicateHook, Net!ModifyHook, Net!Runs
    <3> QED  BY <3>1, Lengths
  <2> QED  BY <2>1, <2>2
<1> HIDE DEF NP!Fates
<1>3. \A how \in NP!Fates : Net!End(e, how) =>
        fate' = [fate EXCEPT ![e] = Append(@, how)] /\ fate'[e] # fate[e]
  <2> SUFFICES ASSUME NEW how \in NP!Fates, Net!End(e, how)
               PROVE  fate' = [fate EXCEPT ![e] = Append(@, how)] /\ fate'[e] # fate[e]
    OBVIOUS
  <2>1. fate' = [fate EXCEPT ![e] = Append(@, how)]
    BY Zenon DEF Net!End
  <2>2. fate'[e] = Append(fate[e], how) /\ fate[e] \in Seq(NP!Fates)
    BY <1>1, <2>1
  <2>3. Len(fate'[e]) = Len(fate[e]) + 1
    BY <2>2, AppendProperties
  <2> QED  BY <1>1, <2>1, <2>3
<1>4. UNCHANGED <<vars, sent, received>>
  BY Zenon DEF Send, Duplicate, Modify, Net!Send, Net!CallProcess, Net!Detached, Net!Snapshot,
     Net!Capture, Net!DropHook, Net!DropNextHook, Net!PutOriginal, Net!DuplicateHook,
     Net!ModifyHook
<1>5. UNCHANGED fate \/ \E how \in NP!Fates : Net!End(e, how)
  BY <1>1, Zenon DEF Send, Duplicate, Modify, Net!Send, Net!CallProcess, Net!Detached,
     Net!Snapshot, Net!Capture, Net!DropHook, Net!DropNextHook, Net!PutOriginal, Net!DuplicateHook,
     Net!ModifyHook, Net!Passed
<1>6. /\ fate'[e] = fate[e] => UNCHANGED thread
      /\ fate'[e] # fate[e] => SendEnds(e) \/ UNCHANGED thread
  BY Zenon DEF Send, Duplicate, Modify
<1>7. fate'[e] # fate[e] => SendEnds(e)
  <2>1. Duplicate(e) => UNCHANGED fate
    BY Zenon DEF Duplicate, Net!DuplicateHook, Net!Passed
  <2> QED  BY <2>1, Zenon DEF Send, Modify
<1>8. \/ UNCHANGED <<thread, fate>>
      \/ SendEnds(e) /\ \E how \in NP!Fates : fate' = [fate EXCEPT ![e] = Append(@, how)]
  BY <1>3, <1>5, <1>6, <1>7
<1> QED  BY <1>2, <1>4, <1>8, SendingKeeps

\* Every step of the threads, the simulator and the configuring thread.
LEMMA NextTells ==
  ASSUME NetInv, StoryInv, [NetNext]_netVars
  PROVE  StoryInv'
<1>1. Lasting
  BY NetStep
<1>2. ASSUME NEW e \in Endpoints,
             \/ Start(e) \/ Respond(e) \/ Undecodable(e) \/ Timeout(e)
             \/ Send(e) \/ Duplicate(e) \/ Modify(e)
      PROVE  StoryInv'
  BY <1>1, <1>2, StartKeeps, RespondKeeps, StopKeeps, SendKeeps
<1>3. ASSUME Configure
      PROVE  StoryInv'
  <2>1. UNCHANGED <<vars, thread, sent, received, fate>>
    BY <1>3, Zenon DEF Configure, threadVars, Net!AddHook, Net!RemoveHook, Net!SetAttacker,
       Net!sendVars
  <2> QED  BY <1>1, <2>1, AsideTells
<1>4. ASSUME NEW to \in Endpoints, NEW i \in DOMAIN captured, Replay(captured[i], to)
      PROVE  StoryInv'
  <2>1. UNCHANGED <<vars, thread, sent, received, fate>>
    BY <1>4, Zenon DEF Replay, Net!Replay, Net!sendVars
  <2> QED  BY <1>1, <2>1, AsideTells
<1>5. ASSUME UNCHANGED netVars
      PROVE  StoryInv'
  <2>1. UNCHANGED <<vars, thread, sent, received, fate>>
    BY <1>5, Zenon DEF netVars, threadVars, simVars
  <2> QED  BY <1>1, <2>1, AsideTells
<1> QED  BY <1>2, <1>3, <1>4, <1>5 DEF NetNext

\* Before the threads start nothing was said.
LEMMA InitTells ==
  ASSUME NetInit
  PROVE  StoryInv
<1>1. AgreementInv /\ Announced /\ Trusting
  BY InitFacts, InitIntroduced DEF NetInit
<1>2. /\ sess = [e \in Endpoints |-> NewSession] /\ wire = {} /\ exc = [e \in Endpoints |-> Ok]
      /\ thread = [e \in Endpoints |-> "running"] /\ sent = [e \in Endpoints |-> <<>>]
      /\ received = [e \in Endpoints |-> <<>>]
  BY Zenon DEF NetInit, Init, Net!Init
<1>3. HeardOK
  <2>1. <<>> \in Seq(NP!MessageType) /\ NP!ToSet(<<>>) = {}
    BY NP!Empty, SimAssumptions
  <2> HIDE DEF NP!MessageType
  <2> QED  BY <1>2, <2>1 DEF HeardOK
<1>4. ASSUME NEW e \in Endpoints
      PROVE  Story(e)
  <2>1. Heard(e) = <<>>
    BY <1>2 DEF Heard, Mapped
  <2>2. sess[e].state = "INIT" /\ exc[e] = Ok /\ sent[e] = <<>> /\ thread[e] = "running"
    BY <1>2 DEF NewSession
  <2> QED  BY <2>1, <2>2 DEF Story, ServerStory, ClientStory
<1>5. ThreadsOK /\ EndingsOK
  BY <1>2 DEF ThreadsOK, EndingsOK
<1> QED  BY <1>1, <1>3, <1>4, <1>5 DEF StoryInv

\* The stories are true all the time.
LEMMA StoryInvariance == NetSpec => [](NetInv /\ StoryInv)
<1>1. NetInit => NetInv /\ StoryInv
  BY InitCoupled, InitTells
<1>2. NetInv /\ StoryInv /\ [NetNext]_netVars => NetInv' /\ StoryInv'
  BY NetStep, NextTells
<1> QED  BY <1>1, <1>2, PTL DEF NetSpec

\* What two stories that end in one key and one transcript say.
LEMMA StoriesMatch ==
  ASSUME OwnKeys, StoryInv, NEW s \in Servers, NEW c \in Clients, c = Peer[s],
         thread[s] = "done", thread[c] = "done"
  PROVE  Heard(s) = sent[c] /\ Heard(c) = sent[s]
<1>1. s \in Endpoints /\ c \in Endpoints /\ ServerKey[c] = ServerKey[s]
  BY NetworkAssumption DEF Endpoints
<1>2. /\ exc[s] = Ok /\ exc[c] = Ok /\ sess[s].state = "ESTABLISHED"
      /\ sess[c].state = "ESTABLISHED" /\ ServerStory(s) /\ ClientStory(c)
  BY <1>1 DEF StoryInv, Story
<1>3. ClientKeyed(c, s)
  BY <1>1, <1>2, KeyedByPeer DEF StoryInv
<1>4. /\ sess[s].key = sess[c].key /\ sess[s].m5 = sess[c].m5 /\ sess[s].th = sess[c].th
      /\ sess[c].sid = Sid(s)
  BY <1>3 DEF ClientKeyed, ServerKeyed, Revealed
<1>5. PICK x2, x4 :
        /\ sent[s] = <<M1Of(s), M3Of(s, x2), sess[s].m5>>
        /\ Heard(s) = <<x2, x4, M6(sess[s].key, sess[s].th, sess[s].m5)>>
        /\ sess[s].th = Ext(Ext(ServerTH3(s, x2), x4), sess[s].m5.wrappedS)
  BY <1>2 DEF ServerStory
<1>6. PICK m1, m2, m3, m4 :
        /\ sent[c] = <<m2, m4, M6(sess[c].key, sess[c].th, sess[c].m5)>>
        /\ Heard(c) = <<m1, m3, sess[c].m5>>
        /\ sess[c].th = Ext(ClientTH4(m1, m2, m3, m4), sess[c].m5.wrappedS)
  BY <1>2 DEF ClientStory
<1>7. Ext(ServerTH3(s, x2), x4) = ClientTH4(m1, m2, m3, m4)
  <2>1. PICK w : w = sess[s].m5.wrappedS
    OBVIOUS
  <2>2. sess[c].m5.wrappedS = w
    BY <2>1, <1>4, Zenon
  <2>3. sess[s].th = Ext(Ext(ServerTH3(s, x2), x4), w)
    BY <2>1, <1>5, Zenon
  <2>4. sess[c].th = Ext(ClientTH4(m1, m2, m3, m4), w)
    BY <2>2, <1>6, Zenon
  <2>5. Ext(Ext(ServerTH3(s, x2), x4), w) = Ext(ClientTH4(m1, m2, m3, m4), w)
    BY <2>3, <2>4, <1>4, Zenon
  <2> QED  BY <2>5, ExtInjective, Zenon
<1>8. ServerTH3(s, x2) = Ext(ClientTH2(m1, m2), m3) /\ x4 = m4
  BY <1>7, ExtInjective DEF ClientTH4
<1>9. TH2Of(s, x2) = ClientTH2(m1, m2) /\ M3Of(s, x2) = m3
  BY <1>8, ExtInjective DEF ServerTH3
<1>10. TH1Of(s) = Ext(TH0(m1.sid), m1) /\ x2 = m2
  BY <1>9, ExtInjective DEF TH2Of, ClientTH2
<1>11. M1Of(s) = m1
  BY <1>10, ExtInjective DEF TH1Of, M1Of
<1> QED  BY <1>4, <1>5, <1>6, <1>8, <1>9, <1>10, <1>11

-----------------------------------------------------------------------------
(* What holds of every caller of the sessions holds of these threads.        *)

\* What the simulator and the configuring thread do is no call of a handler.
LEMMA NextCalls ==
  ASSUME NetInv, StoryInv, [NetNext]_netVars
  PROVE  [Next]_vars
<1>1. wire \subseteq Messages
  BY DEF StoryInv, AgreementInv, IndInv, TypeOK
<1>2. ASSUME NEW e \in Endpoints, Start(e)
      PROVE  Next
  <2>1. CreateM1(e) /\ e \in Servers
    BY <1>2, SameHandlers, Zenon DEF Start
  <2> QED  BY <2>1, Zenon DEF Next
<1>3. ASSUME NEW e \in Endpoints, Respond(e)
      PROVE  Next
  <2>1. HandlerCall(e)
    BY <1>1, <1>3, ThreadCalls, Zenon DEF HandlerCall
  <2> QED  BY <2>1, Zenon DEF HandlerCall, Next
<1>4. ASSUME NEW e \in Endpoints,
             Undecodable(e) \/ Timeout(e) \/ Send(e) \/ Duplicate(e) \/ Modify(e)
      PROVE  UNCHANGED vars
  BY <1>4, Zenon DEF Undecodable, Timeout, Send, Duplicate, Modify
<1>5. Configure \/ (\E to \in Endpoints : \E i \in DOMAIN captured : Replay(captured[i], to))
        => UNCHANGED vars
  BY Zenon DEF Configure, Replay
<1>6. UNCHANGED netVars => UNCHANGED vars
  BY Zenon DEF netVars
<1> QED  BY <1>2, <1>3, <1>4, <1>5, <1>6, Zenon DEF NetNext

\* The threads on the simulator make only calls that HandshakeSession allows,
\* whatever its hooks did and without an account of faults: what the theorems
\* say of every caller of the sessions holds of them (_harness.py 85-120).
THEOREM NetworkCallers == NetSpec => Spec
<1>1. NetInit => Init
  BY DEF NetInit
<1>2. NetInv /\ StoryInv /\ [NetNext]_netVars => [Next]_vars
  BY NextCalls
<1> QED  BY <1>1, <1>2, StoryInvariance, PTL DEF NetSpec, Spec

\* Handshakes whose servers have a signing key each, as run_live_handshake and
\* the CLI make them: two threads of one that end without an exception heard
\* exactly what the other said, whatever the hooks of the network did, however
\* often, and whatever was replayed from one handshake to another
\* (_harness.py 61, 85-120, m6.py 20-25).
THEOREM ConversationsMatch ==
  ASSUME OwnKeys
  PROVE  NetSpec => []MatchingConversations
<1>1. NetInv /\ StoryInv => MatchingConversations
  <2> SUFFICES ASSUME NetInv, StoryInv, NEW e \in Endpoints,
                      thread[e] = "done", thread[Peer[e]] = "done"
               PROVE  [i \in DOMAIN received[e] |-> Bytes(received[e][i])] = sent[Peer[e]]
    BY DEF MatchingConversations
  <2>1. Heard(e) = sent[Peer[e]]
    BY StoriesMatch, NetworkAssumption DEF Endpoints
  <2>2. Heard(e) = [i \in DOMAIN received[e] |-> Bytes(received[e][i])]
    BY HeardRead DEF StoryInv
  <2> QED  BY <2>1, <2>2
<1> QED  BY <1>1, StoryInvariance, PTL

\* With a signing key for each server, two threads of a handshake that end
\* without an exception hold one key, verified and with all secrets erased,
\* whatever the hooks of the network did and however often: QuietMeansAgreed of
\* LiveHandshake, without its account of faults (_harness.py 61, 85-138).
THEOREM NetworkQuiet ==
  ASSUME OwnKeys
  PROVE  NetSpec => []Live!QuietMeansAgreed
<1>1. ASSUME StoryInv, SecretsWiped
      PROVE  Live!QuietMeansAgreed
  <2>1. ASSUME NEW s \in Servers, thread[s] = "done", thread[Peer[s]] = "done"
        PROVE  Live!Agreed(s) /\ Live!Agreed(Peer[s])
    <3>1. /\ Peer[s] \in Clients /\ Peer[Peer[s]] = s /\ ServerKey[Peer[s]] = ServerKey[s]
          /\ s \in Endpoints /\ Peer[s] \in Endpoints
      BY NetworkAssumption DEF Endpoints
    <3>2. \A d \in {s, Peer[s]} :
            sess[d].state = "ESTABLISHED" /\ exc[d] = Ok /\ Wiped(sess[d])
      BY <1>1, <2>1, <3>1 DEF StoryInv, Story, SecretsWiped
    <3>3. ClientKeyed(Peer[s], s)
      BY <1>1, <3>1, <3>2, KeyedByPeer DEF StoryInv
    <3>4. sess[s].key = sess[Peer[s]].key /\ sess[s].key # None
      BY <3>3, KeyInjective DEF ClientKeyed, ServerKeyed
    <3> QED  BY <3>1, <3>2, <3>4
             DEF Live!Agreed, Live!Erased, Wiped, Live!None, None, Live!Ok, Ok
  <2> QED  BY <2>1, NetworkAssumption
           DEF Live!QuietMeansAgreed, Live!Endpoints, Endpoints
<1> QED  BY <1>1, StoryInvariance, NetworkCallers, SecretsErased, PTL
=============================================================================
