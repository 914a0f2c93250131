------------------------- MODULE HandshakeOverNetwork -------------------------
(***************************************************************************)
(* The threads of LiveHandshake on the simulator of NetworkSimulator: each  *)
(* send runs through the locks and hooks of network/attacker.py while the   *)
(* other threads, and the one that configures the attacker, go on.          *)
(*                                                                          *)
(* A token of the simulator, [from, seq, altered, via], stands for the      *)
(* bytes of the seq-th message its sender sent, as they were or as the      *)
(* modify hook left them.                                                   *)
(***************************************************************************)
EXTENDS HandshakeSession, Sequences

CONSTANTS Peer,        \* whom a thread sends to
          Hooks,       \* the hooks the configuring thread may register
          DropNext,    \* n of drop_next(n)
          MaxCalls,    \* bound: calls of the configuring thread
          MaxFaults    \* what LiveHandshake is given to account for all of it

ASSUME NetworkAssumption ==
  /\ Peer \in [Endpoints -> Endpoints]
  /\ \A s \in Servers : Peer[s] \in Clients
  /\ \A c \in Clients : Peer[c] \in Servers
  /\ \A e \in Endpoints : Peer[Peer[e]] = e /\ ServerKey[Peer[e]] = ServerKey[e]
  /\ Hooks \subseteq {"drop", "drop_next", "duplicate", "modify"}
  /\ DropNext \in Nat /\ MaxCalls \in Nat /\ MaxFaults \in Nat

VARIABLES thread,      \* "running", "done" or "error"
          sent,        \* sent[e]: the messages the handlers of e gave to send
          arrived,     \* arrived[e][n]: the n-th of them as modify left it
          faults,      \* what is left of MaxFaults
          \* the simulator
          attached, calls, hooks, retired, captured, remaining, done, queue, received,
          at, current, pending, fate, whole, touched, ever
threadVars == <<thread, sent, arrived, faults>>
simVars == <<attached, calls, hooks, retired, captured, remaining, done, queue, received,
             at, current, pending, fate, whole, touched, ever>>

Sends == 3    \* each thread sends three messages and receives three

Net == INSTANCE NetworkSimulator
         WITH Dest <- Peer, MaxSends <- [e \in Endpoints |-> Sends], MaxReceives <- Sends

-----------------------------------------------------------------------------
(* The refinement mapping to LiveHandshake: its queues hold messages, and  *)
(* its outbox what a handler returned until the send of it has ended.       *)

Bytes(t) == IF t.altered THEN arrived[t.from][t.seq] ELSE sent[t.from][t.seq]
queueBar == [e \in Endpoints |-> [i \in DOMAIN queue[e] |-> Bytes(queue[e][i])]]
outboxBar == [e \in Endpoints |-> IF Len(sent[e]) = Len(fate[e]) THEN <<>>
                                  ELSE <<sent[e][Len(sent[e])]>>]

Live == INSTANCE LiveHandshake WITH queue <- queueBar, outbox <- outboxBar

NetInit ==
  /\ Init /\ Net!Init
  /\ thread = [e \in Endpoints |-> "running"]
  /\ sent = [e \in Endpoints |-> <<>>] /\ arrived = [e \in Endpoints |-> <<>>]
  /\ faults = MaxFaults

-----------------------------------------------------------------------------
(* A thread outside send. *)

\* The message the handler returned is what the thread sends next.
HandlerReturns(e) ==
  /\ Live!ThreadAfterHandler(e)
  /\ sent' = [sent EXCEPT ![e] = @ \o Live!Returned]
  /\ arrived' = [arrived EXCEPT ![e] = @ \o Live!Returned]

\* create_m1 is the first thing the server's thread does.
Start(e) ==
  /\ e \in Servers /\ thread[e] = "running" /\ sent[e] = <<>>
  /\ Live!CreateM1(e) /\ HandlerReturns(e)
  /\ UNCHANGED <<faults, simVars>>

\* Of the exceptions of handlers, a failed draw is the only fault.
Respond(e) ==
  /\ Live!Receiving(e) /\ Net!Receive(e)
  /\ LET m == Bytes(Head(queue[e]))
     IN Live!Decodes(e, m) /\ Live!CallHandler(e, m)
  /\ HandlerReturns(e)
  /\ faults' = IF exc'[e] = "RuntimeError" THEN faults - 1 ELSE faults

Undecodable(e) ==
  /\ Live!Receiving(e) /\ Net!Receive(e)
  /\ ~Live!Decodes(e, Bytes(Head(queue[e])))
  /\ thread' = [thread EXCEPT ![e] = "error"]
  /\ UNCHANGED <<vars, sent, arrived, faults>>

\* Faulty variant: receive waits without a timeout.
NoTimeout(e) == FALSE /\ UNCHANGED <<vars, threadVars, simVars>>

\* receive raises TimeoutError: nothing came, or not in time.
Timeout(e) ==
  /\ Live!Receiving(e) /\ queue[e] = <<>>
  /\ thread' = [thread EXCEPT ![e] = "error"]
  /\ faults' = IF Live!Starved(e) THEN faults ELSE faults - 1
  /\ UNCHANGED <<vars, sent, arrived, simVars>>

-----------------------------------------------------------------------------
(* A thread inside send. *)

\* The thread goes on when send returns, and ends when it raises.
SendEnds(e) ==
  IF Net!Last(fate'[e]) \in {"raised", "hook_raised"}
  THEN thread' = [thread EXCEPT ![e] = "error"]
  ELSE Live!ThreadAfterSend(e)

\* Entering send, its locks, its hooks and its end.
Send(e) ==
  /\ Len(sent[e]) > Len(fate[e])
  /\ \/ Net!Send(e) \/ Net!CallProcess(e) \/ Net!Detached(e) \/ Net!Snapshot(e) \/ Net!Capture(e)
     \/ Net!DropHook(e) \/ Net!DropNextHook(e) \/ Net!PutOriginal(e)
  /\ IF fate'[e] = fate[e] THEN UNCHANGED thread ELSE SendEnds(e)
  /\ faults' = IF fate'[e] = fate[e] \/ (Net!PutOriginal(e) /\ ~current[e].altered)
               THEN faults ELSE faults - 1
  /\ UNCHANGED <<vars, sent, arrived>>

Duplicate(e) ==
  /\ Net!DuplicateHook(e) /\ faults' = faults - 1
  /\ UNCHANGED <<vars, thread, sent, arrived>>

\* mutation_fn damages a field or makes other bytes of the message, or raises.
Modify(e) ==
  /\ Net!ModifyHook(e)
  /\ IF fate'[e] = fate[e]
     THEN /\ \E m \in Live!Altered(sent[e][Len(sent[e])]) :
               arrived' = [arrived EXCEPT ![e][Len(sent[e])] = m]
          /\ UNCHANGED <<thread, faults>>
     ELSE SendEnds(e) /\ faults' = faults - 1 /\ UNCHANGED arrived
  /\ UNCHANGED <<vars, sent>>

-----------------------------------------------------------------------------
(* The thread that configures the attacker.  It may read the captures at     *)
(* any time, so clearing them takes nothing away from what it may replay.   *)

Configure ==
  /\ (\E h \in Hooks : Net!AddHook(h) \/ Net!RemoveHook(h)) \/ Net!SetAttacker
  /\ UNCHANGED <<vars, threadVars>>

Replay(m, to) ==
  /\ Net!Replay(m, to) /\ faults' = faults - 1
  /\ UNCHANGED <<vars, thread, sent, arrived>>

NetNext ==
  \/ \E e \in Endpoints :
       \/ Start(e) \/ Respond(e) \/ Undecodable(e) \/ Timeout(e)
       \/ Send(e) \/ Duplicate(e) \/ Modify(e)
  \/ Configure
  \/ \E to \in Endpoints : \E i \in DOMAIN captured : Replay(captured[i], to)

netVars == <<vars, threadVars, simVars>>

NetSpec == NetInit /\ [][NetNext]_netVars

-----------------------------------------------------------------------------
\* The threads on the simulator with its locks and hooks do what LiveHandshake
\* says: each step inside a send is one of its network steps or none, however
\* the sends, the receives and the configuring thread interleave, so its
\* account of what a network can do to a handshake leaves nothing out
\* (simulator.py 83-114, attacker.py 56-86, _harness.py 85-120).
LiveRefined == Live!LiveInit /\ [][Live!LiveNext]_(Live!liveVars)

\* As long as a thread runs, some thread can go on by itself: it is inside a
\* send or has a message to read, or its receive will time out.  Hooks that
\* come and go and an attacker detached in the middle of a send block nobody,
\* and no two threads wait for each other (simulator.py 83-114).
SomebodyGoesOn ==
  (\E e \in Endpoints : thread[e] = "running") =>
    \E e \in Endpoints :
      ENABLED (\/ Start(e) \/ Respond(e) \/ Undecodable(e) \/ Send(e) \/ Duplicate(e)
               \/ Modify(e) \/ (Live!Starved(e) /\ Timeout(e)))

\* Two threads of a handshake that both end without an exception had matching
\* conversations: what each received is exactly what the other sent, in order
\* and unaltered, although hooks drop, double and alter messages and old ones
\* are replayed (_harness.py 85-120, m6.py 20-25).
MatchingConversations ==
  \A e \in Endpoints : thread[e] = "done" /\ thread[Peer[e]] = "done" =>
    [i \in DOMAIN received[e] |-> Bytes(received[e][i])] = sent[Peer[e]]
=============================================================================
