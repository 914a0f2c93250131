----------------------------- MODULE AttackScripts -----------------------------
(***************************************************************************)
(* The attack modules (backend/attacks/replay, modification, rushing,       *)
(* forged_attestation and entropy_failure): the main thread builds the      *)
(* endpoints and the hook of one attack, runs one or two handshakes         *)
(* (run_live_handshake) and judges the errors they left.                    *)
(*                                                                          *)
(* Each handshake has a simulator and a server key of its own.  Faults are  *)
(* what no script intends: a draw that fails the health tests, a message    *)
(* that comes too late, and a join that gives up while a thread still runs; *)
(* that thread, a daemon, goes on beside whatever the script does next.     *)
(***************************************************************************)
EXTENDS LiveHandshake, EntropyHealth

CONSTANTS First,    \* the server of the first handshake
          Second    \* the server of the second, where a script runs two

ASSUME HandshakesAssumption == First \in Servers /\ Second \in Servers /\ First # Second

VARIABLES script,    \* the attack whose run() is called
          phase,     \* the handshake run() has come to: "first" or "second"
          verdict,   \* how run() ended: AttackResult.blocked or an AssertionError
          captured,  \* captured_m2[0], or the fusion of the first handshake
          count      \* alice_to_bob_count, m2_replaced or m1_mutated of the hook
scriptVars == <<script, phase, verdict, captured, count>>
attackVars == <<liveVars, scriptVars>>

Scripts == {"replay", "modification", "rushing", "forged_attestation", "entropy_failure"}
TwoHandshakes == {"replay", "rushing"}

AttackInit ==
  /\ LiveInit
  /\ script \in Scripts /\ phase = "first" /\ verdict = "none"
  /\ captured = None /\ count = 0

-----------------------------------------------------------------------------
(* The threads of the handshakes and the hooks of the scripts.             *)

Pair(s) == {s, Peer[s]}
Started(e) == e \in Pair(First) \/ (phase = "second" /\ e \in Pair(Second))

\* PoisonedSHM: alice's samples are 32 zero bytes.
Poisoned(e) == script = "entropy_failure" /\ e = Peer[First]
BiasedSample == [i \in 1..32 |-> 0]

\* Of the handlers of a client, only process_m1 draws a sample.
PoisonedHandle(e) ==
  /\ Respond(e) /\ UNCHANGED faults
  /\ sess[e].state = "INIT" =>
       IF RunAllTests(BiasedSample) THEN exc'[e] # "RuntimeError" ELSE wire' = wire

\* What the scripts let through decodes: it comes in turn and is well formed.
Work(e) ==
  /\ Started(e)
  /\ Start(e) \/ (IF Poisoned(e) THEN PoisonedHandle(e) ELSE Handle(e))
  /\ UNCHANGED scriptVars

\* Whose messages the hook of the script acts on, and on which of them.
Targeted(e) ==
  CASE script = "replay"             -> e = Peer[Second]
    [] script = "modification"       -> e = Peer[First]
    [] script = "forged_attestation" -> e = First
    [] OTHER                         -> FALSE
TargetIndex == IF script = "modification" THEN 1 ELSE 0

AttackerKey == Pk("attacker")

\* What the hook returns.  SigS stays, and the wrong key is put into the
\* quote too.
Forged(m) ==
  CASE script = "replay"             -> captured
    [] script = "modification"       -> [m EXCEPT !.wrappedC = Garbled]
    [] script = "forged_attestation" -> [m EXCEPT !.pkS = AttackerKey,
                                                  !.quote = Quote(AttackerKey, m.sid)]

\* Faulty variant: _capture_m2 keeps the last message instead of the first.
CapturesEvery(e) == script = "replay" /\ e = Peer[First]
Captures(e) == script = "replay" /\ e = Peer[First] /\ captured = None

Transmit(e) ==
  LET fires == Targeted(e) /\ count = TargetIndex
  IN /\ Started(e) /\ outbox[e] # <<>>
     /\ Enqueue(Peer[e], IF fires THEN <<Forged(outbox[e][1])>> ELSE outbox[e])
     /\ Sent(e)
     /\ captured' = IF Captures(e) THEN outbox[e][1] ELSE captured
     /\ count' = IF fires \/ (Targeted(e) /\ script = "modification") THEN count + 1 ELSE count
     /\ UNCHANGED <<faults, script, phase, verdict>>

GiveUp(e) == Started(e) /\ Timeout(e) /\ UNCHANGED scriptVars

-----------------------------------------------------------------------------
(* The main thread. *)

\* run_live_handshake returns: both threads have ended, or a join timed out.
Ended(s) == \A e \in Pair(s) : thread[e] # "running"
Joined(s) ==
  \/ Ended(s) /\ UNCHANGED faults
  \/ ~Ended(s) /\ faults > 0 /\ faults' = faults - 1

Raised(e, x) == thread[e] = "error" /\ exc[e] = x
Failed(s) == \E e \in Pair(s) : thread[e] = "error"
BuiltFusion(s) == IF sess[s].key = None THEN None ELSE sess[s].key[3]

\* What run() does between its two handshakes.  The AssertionError comes
\* before the errors of the first handshake are looked at.
FirstReturns ==
  /\ script \in TwoHandshakes /\ phase = "first" /\ verdict = "none"
  /\ Joined(First)
  /\ \/ /\ script = "replay" /\ captured = None
        /\ verdict' = "AssertionError" /\ UNCHANGED <<phase, captured>>
     \/ /\ script = "replay" /\ captured # None /\ Failed(First)
        /\ verdict' = "not blocked" /\ UNCHANGED <<phase, captured>>
     \/ /\ script = "replay" /\ captured # None /\ ~Failed(First)
        /\ phase' = "second" /\ UNCHANGED <<verdict, captured>>
     \/ /\ script = "rushing"
        /\ phase' = "second" /\ captured' = BuiltFusion(First) /\ UNCHANGED verdict
  /\ UNCHANGED <<vars, thread, queue, outbox, script, count>>

\* Faulty variant: any error of the attacked handshake counts as the defence.
AnyErrorBlocks ==
  CASE script = "replay"  -> Failed(Second)
    [] script = "rushing" -> ~Failed(First) /\ ~Failed(Second)
    [] OTHER              -> Failed(First)

\* The value of AttackResult.blocked.  A first handshake whose join timed out
\* may record its fusion in the list of the second, patched the same way; then
\* the list of the first was empty and nothing is blocked.
Blocked ==
  CASE script = "replay"             -> Raised(Second, "SessionIDMismatch")
    [] script = "modification"       -> Raised(First, "AEADError")
    [] script = "forged_attestation" -> Raised(Peer[First], "AttestationError")
    [] script = "entropy_failure"    -> Raised(Peer[First], "RuntimeError")
    [] script = "rushing"            -> /\ ~Failed(First) /\ ~Failed(Second)
                                        /\ captured # None /\ BuiltFusion(Second) # None
                                        /\ captured # BuiltFusion(Second)

LastReturns ==
  /\ verdict = "none" /\ (script \in TwoHandshakes => phase = "second")
  /\ Joined(IF phase = "first" THEN First ELSE Second)
  /\ verdict' = IF Blocked THEN "blocked" ELSE "not blocked"
  /\ UNCHANGED <<vars, thread, queue, outbox, script, phase, captured, count>>

AttackNext ==
  \/ \E e \in Endpoints : Work(e) \/ Transmit(e) \/ GiveUp(e)
  \/ FirstReturns \/ LastReturns

\* The threads are scheduled, the main thread too once its joins return.
AttackSpec ==
  /\ AttackInit /\ [][AttackNext]_attackVars
  /\ \A e \in Endpoints : /\ WF_attackVars(Work(e) \/ Transmit(e))
                          /\ WF_attackVars(Starved(e) /\ GiveUp(e))
  /\ WF_attackVars(Ended(First) /\ FirstReturns)
  /\ WF_attackVars(Ended(IF phase = "first" THEN First ELSE Second) /\ LastReturns)

-----------------------------------------------------------------------------
\* Types; only the first message of the client, M2, is ever captured, and no
\* message reaches a hook a second time once it has done its work
\* (replay.py 55-59, 85-90, modification.py 55-59).
AttackTypeOK ==
  /\ TypeOK
  /\ script \in Scripts /\ phase \in {"first", "second"}
  /\ verdict \in {"none", "blocked", "not blocked", "AssertionError"}
  /\ script = "replay" => captured \in OrNone(M2s)
  /\ count \in 0..TargetIndex + 1

Attacked == IF script = "replay" THEN Second ELSE First

\* A result with blocked=True is the truth: the hook had done its work and no
\* session of the attacked handshake holds a key, now or later; for rushing,
\* each server derived the key of its own client's and its own TEF, although
\* threads may outlive the join and draws may fail (_harness.py 33-48).
BlockedMeansRejected ==
  verdict = "blocked" =>
    IF script = "rushing"
    THEN \A s \in {First, Second} : sess[s].key = SessionKeyOf(s, Peer[s])
    ELSE /\ script # "entropy_failure" => count = TargetIndex + 1
         /\ \A e \in Pair(Attacked) : sess[e].key = None

\* Where no fault meets a script, run() returns and reports its attack blocked
\* (tests/attacks/test_attacks.py 37-45, 72-81, 108-124, 150-160, 183-195).
AttacksBlocked == [](faults = MaxFaults) => <>(verdict = "blocked")
=============================================================================
