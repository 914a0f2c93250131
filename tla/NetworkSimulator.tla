--------------------------- MODULE NetworkSimulator ---------------------------
(***************************************************************************)
(* network/simulator.py and network/attacker.py at the grain of their       *)
(* locks: threads call send and receive while the thread that configures    *)
(* the attacker adds and removes hooks (the context managers drop,          *)
(* duplicate, modify, and drop_next), attaches it or detaches it, clears    *)
(* the captures and replays what was captured.                              *)
(*                                                                          *)
(* The hooks delay and intercept return _UNCHANGED and change nothing: they *)
(* are the time a send spends between two steps.  reorder is several calls  *)
(* of replay.                                                               *)
(***************************************************************************)
EXTENDS Naturals, Sequences, FiniteSets, Functions, SequencesExt

CONSTANTS Endpoints,   \* the registered sids, each with one sending thread
          Dest,        \* to whom each endpoint sends
          Hooks,       \* the hooks the test may register, each once
          DropNext,    \* n of drop_next(n)
          MaxSends,    \* bound: send calls of each thread
          MaxReceives, \* bound: receive calls for each endpoint
          MaxCalls     \* bound: calls of the configuring thread, removals aside

HookKinds == {"drop", "drop_next", "duplicate", "modify"}

ASSUME DestAssumption  == Dest \in [Endpoints -> Endpoints]
ASSUME HooksAssumption == Hooks \subseteq HookKinds
ASSUME NatsAssumption  == /\ DropNext \in Nat /\ MaxSends \in [Endpoints -> Nat]
                          /\ MaxReceives \in Nat /\ MaxCalls \in Nat

VARIABLES attached,    \* simulator._attacker is not None
          calls,       \* calls of the configuring thread so far
          hooks,       \* attacker._hooks
          retired,     \* hooks whose context has exited
          captured,    \* attacker._captured
          remaining,   \* counter["remaining"] of drop_next
          done,        \* the Event drop_next returned
          queue,       \* simulator._queues
          received,    \* what receive returned, in order
          at,          \* where the thread is inside send
          current,     \* the message in that send
          pending,     \* hooks of the snapshot not run yet
          fate,        \* fate[e][n]: how the n-th send of e ended
          whole,       \* hooks registered since the current send began
          touched,     \* hooks registered at some time in the current send
          ever         \* everything that was ever captured

attackerVars == <<attached, calls, hooks, retired>>
sendVars     == <<at, current, pending, fate>>
history      == <<whole, touched>>
captures == <<captured, ever>>
vars == <<attackerVars, captures, remaining, done, queue, received, sendVars, history>>

-----------------------------------------------------------------------------
Message(e, n) == [from |-> e, seq |-> n, altered |-> FALSE, via |-> "send"]
NoMessage     == <<>>

\* Faulty variant: the queue is a stack.
PutFront(to, m) == queue' = [queue EXCEPT ![to] = <<m>> \o @]
Put(to, m) == queue' = [queue EXCEPT ![to] = Append(@, m)]

Init ==
  /\ attached \in BOOLEAN /\ calls = 0
  /\ hooks = <<>> /\ retired = {} /\ captured = <<>> /\ ever = <<>>
  /\ remaining = DropNext /\ done = FALSE
  /\ queue = [e \in Endpoints |-> <<>>] /\ received = [e \in Endpoints |-> <<>>]
  /\ at = [e \in Endpoints |-> "idle"]
  /\ current = [e \in Endpoints |-> NoMessage]
  /\ pending = [e \in Endpoints |-> <<>>]
  /\ fate = [e \in Endpoints |-> <<>>]
  /\ whole = [e \in Endpoints |-> {}] /\ touched = [e \in Endpoints |-> {}]

-----------------------------------------------------------------------------
(* send. *)

\* "if self._attacker is not None".
Send(e) ==
  /\ at[e] = "idle" /\ Len(fate[e]) < MaxSends[e]
  /\ current' = [current EXCEPT ![e] = Message(e, Len(fate[e]) + 1)]
  /\ at' = [at EXCEPT ![e] = IF attached THEN "checked" ELSE "put"]
  /\ whole' = [whole EXCEPT ![e] = ToSet(hooks)]
  /\ touched' = [touched EXCEPT ![e] = ToSet(hooks)]
  /\ UNCHANGED <<attackerVars, captures, remaining, done, queue, received, pending, fate>>

\* self._attacker is read again: detached in between, the call of process
\* fails on None.
CallProcess(e) ==
  /\ at[e] = "checked" /\ attached
  /\ at' = [at EXCEPT ![e] = "process"]
  /\ UNCHANGED <<attackerVars, captures, remaining, done, queue, received, current, pending,
                 fate, history>>

\* Faulty variant: a hook outlives its context.
SnapshotWithRetired(e) ==
  /\ at[e] = "process"
  /\ at' = [at EXCEPT ![e] = "capture"]
  /\ pending' = [pending EXCEPT ![e] = hooks \o SetToSeq(retired)]
  /\ UNCHANGED <<attackerVars, captures, remaining, done, queue, received, current, fate,
                 history>>

\* process takes its snapshot of the hooks, whatever becomes of _attacker.
Snapshot(e) ==
  /\ at[e] = "process"
  /\ at' = [at EXCEPT ![e] = "capture"]
  /\ pending' = [pending EXCEPT ![e] = hooks]
  /\ UNCHANGED <<attackerVars, captures, remaining, done, queue, received, current, fate,
                 history>>

End(e, how) ==
  /\ at' = [at EXCEPT ![e] = "idle"]
  /\ current' = [current EXCEPT ![e] = NoMessage]
  /\ pending' = [pending EXCEPT ![e] = <<>>]
  /\ fate' = [fate EXCEPT ![e] = Append(@, how)]
  /\ whole' = [whole EXCEPT ![e] = {}] /\ touched' = [touched EXCEPT ![e] = {}]

Detached(e) ==
  /\ at[e] = "checked" /\ ~attached
  /\ End(e, "raised")
  /\ UNCHANGED <<attackerVars, captures, remaining, done, queue, received>>

\* Faulty variant: only messages no hook will see are captured.
CaptureUnhooked(e) ==
  /\ at[e] = "capture"
  /\ IF pending[e] = <<>> THEN captured' = Append(captured, current[e])
                           ELSE UNCHANGED captured
  /\ ever' = Append(ever, current[e])
  /\ at' = [at EXCEPT ![e] = "hooks"]
  /\ UNCHANGED <<attackerVars, remaining, done, queue, received, current, pending, fate,
                 history>>

Capture(e) ==
  /\ at[e] = "capture"
  /\ captured' = Append(captured, current[e])
  /\ ever' = Append(ever, current[e])
  /\ at' = [at EXCEPT ![e] = "hooks"]
  /\ UNCHANGED <<attackerVars, remaining, done, queue, received, current, pending, fate,
                 history>>

Runs(e, h) == at[e] = "hooks" /\ pending[e] # <<>> /\ Head(pending[e]) = h

\* _UNCHANGED, or a new current message.
Passed(e, m) ==
  /\ pending' = [pending EXCEPT ![e] = Tail(@)]
  /\ current' = [current EXCEPT ![e] = m]
  /\ UNCHANGED <<at, fate, history>>

DropHook(e) ==
  /\ Runs(e, "drop") /\ End(e, "dropped")
  /\ UNCHANGED <<attackerVars, captures, remaining, done, queue, received>>

\* Faulty variant: the counter is compared with >= 0.
DropNextHookOneMore(e) ==
  /\ Runs(e, "drop_next")
  /\ remaining' = IF remaining > 0 THEN remaining - 1 ELSE 0
  /\ done' = (done \/ remaining' = 0)
  /\ End(e, "drop_next")
  /\ UNCHANGED <<attackerVars, captures, queue, received>>

DropNextHook(e) ==
  /\ Runs(e, "drop_next")
  /\ \/ /\ remaining > 0
        /\ remaining' = remaining - 1
        /\ done' = (done \/ remaining' = 0)
        /\ End(e, "drop_next")
     \/ /\ remaining = 0 /\ Passed(e, current[e]) /\ UNCHANGED <<remaining, done>>
  /\ UNCHANGED <<attackerVars, captures, queue, received>>

\* Faulty variant: the loop runs once more than extra_copies.
DuplicateHookOneMore(e) ==
  /\ Runs(e, "duplicate")
  /\ LET m == [current[e] EXCEPT !.via = "duplicate"]
     IN queue' = [queue EXCEPT ![Dest[e]] = @ \o <<m, m>>]
  /\ Passed(e, current[e])
  /\ UNCHANGED <<attackerVars, captures, remaining, done, received>>

\* The extra copy goes straight to the queue, past the remaining hooks.
DuplicateHook(e) ==
  /\ Runs(e, "duplicate")
  /\ Put(Dest[e], [current[e] EXCEPT !.via = "duplicate"])
  /\ Passed(e, current[e])
  /\ UNCHANGED <<attackerVars, captures, remaining, done, received>>

\* mutation_fn returns other bytes, or raises: the exception leaves send.
ModifyHook(e) ==
  /\ Runs(e, "modify")
  /\ Passed(e, [current[e] EXCEPT !.altered = TRUE]) \/ End(e, "hook_raised")
  /\ UNCHANGED <<attackerVars, captures, remaining, done, queue, received>>

PutOriginal(e) ==
  /\ at[e] = "put" \/ (at[e] = "hooks" /\ pending[e] = <<>>)
  /\ Put(Dest[e], current[e]) /\ End(e, "delivered")
  /\ UNCHANGED <<attackerVars, captures, remaining, done, received>>

Receive(e) ==
  /\ queue[e] # <<>> /\ Len(received[e]) < MaxReceives
  /\ received' = [received EXCEPT ![e] = Append(@, Head(queue[e]))]
  /\ queue' = [queue EXCEPT ![e] = Tail(@)]
  /\ UNCHANGED <<attackerVars, captures, remaining, done, sendVars, history>>

-----------------------------------------------------------------------------
(* The thread that configures the attacker. *)

Call == calls < MaxCalls /\ calls' = calls + 1

AddHook(h) ==
  /\ h \in Hooks \ (ToSet(hooks) \cup retired)
  /\ Call /\ hooks' = Append(hooks, h)
  /\ touched' = [e \in Endpoints |->
                  IF at[e] = "idle" THEN {} ELSE touched[e] \cup {h}]
  /\ UNCHANGED <<attached, retired, captures, remaining, done, queue, received, sendVars, whole>>

\* Faulty variant: leaving the context does not unregister the hook.
RemoveHookNot(h) ==
  /\ h \in ToSet(hooks) \ retired
  /\ retired' = retired \cup {h}
  /\ whole' = [e \in Endpoints |-> whole[e] \ {h}]
  /\ UNCHANGED <<attached, calls, hooks, captures, remaining, done, queue, received,
                 sendVars, touched>>

RemoveHook(h) ==
  /\ \E i \in DOMAIN hooks : hooks[i] = h /\ hooks' = RemoveAt(hooks, i)
  /\ retired' = retired \cup {h}
  /\ whole' = [e \in Endpoints |-> whole[e] \ {h}]
  /\ UNCHANGED <<attached, calls, captures, remaining, done, queue, received, sendVars, touched>>

SetAttacker ==
  /\ Call /\ attached' = ~attached
  /\ UNCHANGED <<hooks, retired, captures, remaining, done, queue, received, sendVars,
                 history>>

ResetCaptures ==
  /\ Call /\ captured' = <<>>
  /\ UNCHANGED <<attached, hooks, retired, ever, remaining, done, queue, received, sendVars,
                 history>>

\* The caller may have read the captures before they were cleared.
Replay(m, to) ==
  /\ Call /\ Put(to, [m EXCEPT !.via = "replay"])
  /\ UNCHANGED <<attached, hooks, retired, captures, remaining, done, received, sendVars,
                 history>>

Next ==
  \/ \E e \in Endpoints :
       \/ Send(e) \/ CallProcess(e) \/ Detached(e) \/ Snapshot(e) \/ Capture(e)
       \/ DropHook(e) \/ DropNextHook(e) \/ DuplicateHook(e) \/ ModifyHook(e)
       \/ PutOriginal(e) \/ Receive(e)
  \/ \E h \in Hooks : AddHook(h) \/ RemoveHook(h)
  \/ SetAttacker \/ ResetCaptures
  \/ \E m \in ToSet(ever), to \in Endpoints : Replay(m, to)

Spec == Init /\ [][Next]_vars

-----------------------------------------------------------------------------
Log(e) == received[e] \o queue[e]        \* everything ever put in e's queue
Entries(e, n, via) ==
  {i \in DOMAIN Log(Dest[e]) :
     LET m == Log(Dest[e])[i] IN m.from = e /\ m.seq = n /\ m.via = via}

MessageType == [from : Endpoints, seq : Nat \ {0}, altered : BOOLEAN,
                via : {"send", "duplicate", "replay"}]

\* Types, and the snapshot of a send is made of registered or retired hooks.
SimTypeOK ==
  /\ attached \in BOOLEAN /\ done \in BOOLEAN /\ remaining \in 0..DropNext
  /\ ToSet(hooks) \cap retired = {} /\ ToSet(ever) \subseteq MessageType
  /\ calls \in 0..MaxCalls
  /\ \A e \in Endpoints :
       /\ ToSet(Log(e)) \subseteq MessageType
       /\ at[e] \in {"idle", "checked", "process", "capture", "hooks", "put"}
       /\ ToSet(pending[e]) \subseteq ToSet(hooks) \cup retired
       /\ Len(fate[e]) \in 0..MaxSends[e]

\* No message is lost or made up: a send that returned left its message in
\* the recipient's queue once, or a hook dropped it, or it raised and left
\* nothing but, perhaps, the one extra copy a duplicate hook had made before
\* (simulator.py 83-100, attacker.py 77-86).
Accounted ==
  \A e \in Endpoints : \A n \in DOMAIN fate[e] :
    /\ Cardinality(Entries(e, n, "send")) = IF fate[e][n] = "delivered" THEN 1 ELSE 0
    /\ Cardinality(Entries(e, n, "duplicate")) <= 1

\* Whatever the hooks do to them, and while other threads send and captured
\* messages are replayed in any order, what one thread sends, and its
\* duplicates, reach the queue in the order sent (simulator.py 83-114).
SenderOrder ==
  \A e \in Endpoints : \A i, j \in DOMAIN Log(e) :
    LET m == Log(e)[i]
        n == Log(e)[j]
    IN i < j /\ m.from = n.from /\ "replay" \notin {m.via, n.via} => m.seq <= n.seq

Dropped == UNION {{<<e, n>> : n \in {i \in DOMAIN fate[e] : fate[e][i] = "drop_next"}}
                   : e \in Endpoints}

\* drop_next(n), n > 0, drops exactly n messages although several threads
\* send, and its event is set exactly when it has (attacker.py 156-175).
DropNextExact ==
  Cardinality(Dropped) <= DropNext /\ (done <=> Cardinality(Dropped) = DropNext)

\* The capture list has what was captured since it was cleared, all of it, in
\* the order captured and as it was sent; and every message that reached the
\* hooks, also one they changed, dropped or failed on, was captured once,
\* a message that failed before the hooks never (attacker.py 69-74, 101-109).
CapturedAsSent ==
  /\ IsSuffix(captured, ever) /\ IsInjective(ever)
  /\ \A m \in ToSet(ever) : ~m.altered /\ m.via = "send"
  /\ \A e \in Endpoints : \A n \in DOMAIN fate[e] :
       /\ fate[e][n] \in {"dropped", "drop_next", "hook_raised"} => Message(e, n) \in ToSet(ever)
       /\ fate[e][n] = "raised" => Message(e, n) \notin ToSet(ever)

\* A hook acts on every message whose whole send lies inside its context, and
\* on no message whose send lies outside (attacker.py 69-86, 141-154, 213-230).
InWindow(e) ==
  fate'[e] # fate[e] /\ at[e] = "hooks" =>
    LET how == Last(fate'[e])
    IN /\ how = "delivered" =>
            /\ "drop" \notin whole[e]
            /\ "modify" \in whole[e] => current[e].altered
            /\ current[e].altered => "modify" \in touched[e]
            /\ "drop_next" \in whole[e] => remaining = 0
       /\ how = "dropped" => "drop" \in touched[e]
       /\ how = "hook_raised" => "modify" \in touched[e]
       /\ how = "drop_next" => "drop_next" \in touched[e]
HookWindow == [][\A e \in Endpoints : InWindow(e)]_vars

\* attacker.py 180-184: the extra copies are enqueued after the normal
\* delivery path completes.
CopiesAfterOriginal ==
  \A e \in Endpoints : \A n \in 1..MaxSends[e] :
    \A i \in Entries(e, n, "duplicate") : \E j \in Entries(e, n, "send") : j < i

\* attacker.py 158-159: the event is set once all n messages are dropped.
\* Asked where the hook has just let a message pass, with nothing left to drop.
DropNextSignals ==
  (\E e \in Endpoints : at[e] = "hooks" /\ pending[e] = <<>> /\ "drop_next" \in whole[e])
    /\ Cardinality(Dropped) = DropNext
  => done
=============================================================================
