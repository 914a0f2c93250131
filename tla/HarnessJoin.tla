------------------------------ MODULE HarnessJoin ------------------------------
(***************************************************************************)
(* The clock of a handshake: the receive timeouts of the two threads and    *)
(* the join timeouts of the thread that started them (attacks/_harness.py   *)
(* run_live_handshake, scripts/run_handshake_cli.py run_handshake).         *)
(*                                                                          *)
(* Time passes in ticks.  A send takes up to MaxDelay ticks (the delay      *)
(* hook, a slow machine); whatever can be done without waiting is done      *)
(* before the next tick.  Messages are counted: what they carry does not    *)
(* matter here.                                                             *)
(***************************************************************************)
EXTENDS Naturals

CONSTANTS ReceiveTimeout,   \* of NetworkSimulator.receive
          JoinTimeout,      \* of Thread.join
          MaxDelay,         \* bound: ticks one send takes
          MaxDrops          \* bound: messages the attacker drops

ASSUME TimesAssumption == /\ ReceiveTimeout \in Nat \ {0} /\ JoinTimeout \in Nat
                          /\ MaxDelay \in Nat /\ MaxDrops \in Nat

VARIABLES op,      \* op[e]: the send or receive e is at, 1 to 6
          mode,    \* "sending", "waiting", "done" or "error"
          timer,   \* ticks until e's send ends or its receive gives up
          queued,  \* messages in e's queue
          drops,   \* messages dropped so far
          main,    \* whom the starting thread joins, then "returned"
          wait,    \* ticks until that join gives up
          errors,  \* the threads that appended to the errors list
          seen     \* the errors list when it was returned
vars == <<op, mode, timer, queued, drops, main, wait, errors, seen>>

Threads == {"bob", "alice"}
Other(e) == IF e = "bob" THEN "alice" ELSE "bob"
Ended(e) == mode[e] \in {"done", "error"}

\* bob sends M1, receives M2, ...; alice receives M1, sends M2, ...
Sends(e, n) == (n % 2 = 1) <=> (e = "bob")
LastOp == 6

Init ==
  /\ op = [e \in Threads |-> 1]
  /\ mode = [bob |-> "sending", alice |-> "waiting"]
  /\ timer \in {[bob |-> d, alice |-> ReceiveTimeout] : d \in 0..MaxDelay}
  /\ queued = [e \in Threads |-> 0] /\ drops = 0
  /\ main = "bob" /\ wait = JoinTimeout
  /\ errors = {} /\ seen = {}

-----------------------------------------------------------------------------
(* The threads. *)

\* e goes on to its next send or receive, or its function ends.
Proceed(e) ==
  /\ op' = [op EXCEPT ![e] = @ + 1]
  /\ \/ op[e] = LastOp
        /\ mode' = [mode EXCEPT ![e] = "done"] /\ timer' = [timer EXCEPT ![e] = 0]
     \/ op[e] # LastOp /\ Sends(e, op[e] + 1)
        /\ mode' = [mode EXCEPT ![e] = "sending"]
        /\ \E d \in 0..MaxDelay : timer' = [timer EXCEPT ![e] = d]
     \/ op[e] # LastOp /\ ~Sends(e, op[e] + 1)
        /\ mode' = [mode EXCEPT ![e] = "waiting"]
        /\ timer' = [timer EXCEPT ![e] = ReceiveTimeout]

Put(e) ==
  /\ mode[e] = "sending" /\ timer[e] = 0
  /\ \/ queued' = [queued EXCEPT ![Other(e)] = @ + 1] /\ UNCHANGED drops
     \/ drops < MaxDrops /\ drops' = drops + 1 /\ UNCHANGED queued
  /\ Proceed(e)
  /\ UNCHANGED <<main, wait, errors, seen>>

\* Faulty variant: the message stays in the queue.
TakePeeks(e) ==
  /\ mode[e] = "waiting" /\ queued[e] > 0
  /\ Proceed(e)
  /\ UNCHANGED <<queued, drops, main, wait, errors, seen>>

Take(e) ==
  /\ mode[e] = "waiting" /\ queued[e] > 0
  /\ queued' = [queued EXCEPT ![e] = @ - 1]
  /\ Proceed(e)
  /\ UNCHANGED <<drops, main, wait, errors, seen>>

\* Faulty variant: receive does not wait.
TimeOutAtOnce(e) ==
  /\ mode[e] = "waiting" /\ queued[e] = 0
  /\ mode' = [mode EXCEPT ![e] = "error"]
  /\ errors' = errors \cup {e}
  /\ UNCHANGED <<op, timer, queued, drops, main, wait, seen>>

\* TimeoutError ends the thread through its except clause.
TimeOut(e) ==
  /\ mode[e] = "waiting" /\ queued[e] = 0 /\ timer[e] = 0
  /\ mode' = [mode EXCEPT ![e] = "error"]
  /\ errors' = errors \cup {e}
  /\ UNCHANGED <<op, timer, queued, drops, main, wait, seen>>

-----------------------------------------------------------------------------
(* The thread that started them. *)

\* Faulty variant: only the first thread is joined.
JoinFirstOnly ==
  /\ main \in Threads /\ (Ended(main) \/ wait = 0)
  /\ main' = "returned" /\ wait' = 0 /\ seen' = errors
  /\ UNCHANGED <<op, mode, timer, queued, drops, errors>>

\* join(bob), then join(alice) with a timeout of its own, then return errors.
Join ==
  /\ main \in Threads /\ (Ended(main) \/ wait = 0)
  /\ \/ main = "bob" /\ main' = "alice" /\ wait' = JoinTimeout /\ UNCHANGED seen
     \/ main = "alice" /\ main' = "returned" /\ wait' = 0 /\ seen' = errors
  /\ UNCHANGED <<op, mode, timer, queued, drops, errors>>

-----------------------------------------------------------------------------
Less(n) == IF n = 0 THEN 0 ELSE n - 1

\* Nothing can be done without waiting.
Idle ==
  /\ \A e \in Threads : ~Ended(e) => timer[e] > 0 /\ (mode[e] = "waiting" => queued[e] = 0)
  /\ main \in Threads => wait > 0 /\ ~Ended(main)

Tick ==
  /\ Idle /\ (main \in Threads \/ \E e \in Threads : ~Ended(e))
  /\ timer' = [e \in Threads |-> Less(timer[e])]
  /\ wait' = Less(wait)
  /\ UNCHANGED <<op, mode, queued, drops, main, errors, seen>>

Next ==
  \/ \E e \in Threads : Put(e) \/ Take(e) \/ TimeOut(e)
  \/ Join
  \/ Tick

Spec == Init /\ [][Next]_vars

-----------------------------------------------------------------------------
\* Types, and that no queue ever holds more than one message: each side
\* answers before it sends again (_harness.py 85-120).
JoinTypeOK ==
  /\ op \in [Threads -> 1..LastOp + 1]
  /\ mode \in [Threads -> {"sending", "waiting", "done", "error"}]
  /\ \A e \in Threads : timer[e] \in 0..(IF mode[e] = "sending" THEN MaxDelay ELSE ReceiveTimeout)
  /\ queued \in [Threads -> 0..1] /\ drops \in 0..MaxDrops
  /\ main \in Threads \cup {"returned"} /\ wait \in 0..JoinTimeout
  /\ errors \subseteq Threads /\ seen \subseteq errors

\* One receive that gives up and five sends on the way to it fit into a join:
\* then both threads have ended when the errors list is returned, whatever is
\* dropped, and the list is complete (_harness.py 123-138).
JoinsOutlast ==
  ReceiveTimeout + (LastOp - 1) * MaxDelay < JoinTimeout /\ main = "returned" =>
    seen = errors /\ \A e \in Threads : Ended(e)

\* No receive gives up on a peer that is only slow: without a drop there is
\* no error, however the timeouts of the two threads overlap (_harness.py
\* 85-120, simulator.py 102-114).
ErrorsExplained == drops = 0 /\ MaxDelay < ReceiveTimeout => errors = {}

\* attacks/replay.py 71-73: an empty errors list confirms that the handshake
\* succeeded.
EmptyErrorsMeansDone ==
  main = "returned" /\ seen = {} => \A e \in Threads : mode[e] = "done"
=============================================================================
