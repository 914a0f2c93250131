# TLA+ verification of the TAKD-PQE handshake, its network simulator and its attacks

This directory holds TLA+ modules for the Python backend of this repository
(`src/backend`, `src/scripts`), the TLC configurations that check them on small
instances, and proofs for the TLA+ proof system (TLAPS). The modules are
translated from the code; `PROJECT.json` maps each definition to the lines it
models and lists runs, mutants, findings, hazards and theorems.

    tlc -workers 2 -config SessionPairs.cfg MCHandshakeSession.tla
    tlapm HandshakeSessionProofs.tla

The proofs are in the modules named `*Proofs`; each runs on its own.

## 1. The system

| Component | State | Operations | Talks to |
|---|---|---|---|
| `HandshakeSession` (`protocol/session.py`, `state_machine.py`, `m1.py`-`m6.py`) | role, state, `session_id`, ephemeral KEM key, shared secret, the two TEFs, commitments, session key, M5, transcript | `create_m1`, `process_m1` .. `process_m6` | nobody: it takes a message and returns one |
| Transcript, key schedule, fusion, messages | running hash | `update`, `update_partial`, `derive_*` | called by the sessions |
| Primitives (`crypto/`) | none | KEM, AEAD, HKDF, HMAC, commitment, ML-DSA | called by the sessions |
| Attestation (`shm/attestation.py`) | none | build, sign and verify a quote | called by `m1.py` |
| `SoftwareSHM`, `entropy.py`, `zeroization.py` | named secrets, each in a bytearray | `generate_tef` (resample loop), `secure_store`, `zeroize` | called by the sessions |
| Health tests (`shm/health.py`) | none | monobit and runs tests | called by `SoftwareSHM` |
| `NetworkSimulator` (`network/simulator.py`) | one FIFO per sid, the attached attacker | `send`, `enqueue`, `receive`, `set_attacker` | calls the attacker inside `send` |
| `Attacker` (`network/attacker.py`) | hook list, capture list, both under a lock | `process`, `drop`, `drop_next`, `duplicate`, `modify`, `delay`, `intercept`, `replay`, `reorder` | may call `enqueue` |
| Wire encoding (`network/wire.py`) | none | `serialize_message`, `deserialize_m1` .. `m6` | called by the threads |
| Threads (`attacks/_harness.py`, `scripts/run_handshake_cli.py`) | position in straight code, `errors` list | receive, decode, handle, send; join | sessions and simulator |
| Attack scripts (`attacks/*.py`) | what the hook captured or counted, the errors of the handshakes, the verdict | `run()` of replay, modification, rushing, forged_attestation, entropy_failure | harness and attacker |

A server (bob) creates M1, and then each side handles a message and answers it,
up to M6 which only the server handles. Two threads run the two sides; the only
thing they share is the simulator. `send` runs the attacker's hooks in the
sender's thread and then puts the bytes into the recipient's queue.

### What is hard here

* Handlers advance the state **before** they look at the message, some twice,
  and nothing undoes it when they raise. What a failed session can still be
  talked into depends on which attributes were assigned by then.
* Messages can be lost, repeated, altered, replayed or redirected between
  sessions of one server identity. MAC1 does not cover CommitS, TS is not
  checked, and M5 enters the transcript without its MACS: each is caught later,
  by something else, or not.
* M6 has no answer, so the two sides can disagree about the outcome.
* `process` copies the hook list under a lock and runs the copy without it;
  `send` reads `_attacker` twice; the counter of `drop_next` is shared by threads.
* Receive timeouts (10 s) and join timeouts (15 s) overlap.
* A duplicate is in the queue, and may be answered, while the send that made
  it is still inside its hooks.
* The health tests may reject every sample in the middle of a handler; their
  bands are closed intervals of quotients.
* An attack script reads captures and errors of a handshake whose join may have
  timed out, and judges the defence by the class of an exception.

What makes the components correct: a session never goes on after a failure;
both sides that accept hold one key made of both contributions and confirmed
over one transcript; each TEF is revealed only to a peer that committed;
secrets are erased; every thread ends and a quiet end means agreement; the
simulator loses, makes up and reorders nothing that no hook was told to; hooks
act exactly inside their contexts; only healthy samples become TEFs; a script
says "blocked" only if its attack was made and failed.

## 2. The modules

| Module | Models |
|---|---|
| `Primitives` | Cryptographic operations as free terms: two terms are equal only if built alike. `Opens`, `Decapsulate` keep the failure behaviour (AEAD failure, implicit rejection of a wrong ciphertext). `Garbled` is a field with a flipped byte. |
| `HandshakeSession` | All sessions of a set of handshakes. One action per public handler; `wire` is the set of messages returned so far. |
| `KeyAgreement` | Abstract specification: keys are made of two contributions; client accepts after server derived, server after client; who gave up never accepts. |
| `HandshakeAgreement` | What each attribute of a session and each message on the wire proves about its sender and the sender's peer (`FactsOK`). |
| `HandshakeSessionProofs` | Types, phases and failure of `HandshakeSession`. |
| `HandshakeAgreementProofs` | `FactsOK` and what follows from it: commit before reveal, key confirmation, who shares a key with whom, erasure, the refinement of `KeyAgreement`. |
| `LiveHandshake` | Extends `HandshakeSession` with threads, queues, decoding, timeouts and faults of the network. |
| `LiveHandshakeProofs` | The threads are callers of `HandshakeSession`; agreement at the end of each handshake; no false alarm. |
| `NetworkSimulator` | `send`, `receive`, the attacker's hooks, captures, replays and `set_attacker` at the grain of the locks. |
| `HandshakeOverNetwork` | Composes the threads of a handshake with `NetworkSimulator`, and maps the result to `LiveHandshake`. |
| `NetworkSimulatorProofs` | Types, accounting, order, `drop_next`, captures and hook contexts. |
| `HandshakeOverNetworkProofs` | The composition implements `LiveHandshake`; its threads are callers of `HandshakeSession`; matching conversations. |
| `AttackScripts` | Extends `LiveHandshake` with the main thread, the hook and the verdict of each attack script. |
| `AttackScriptsProofs` | A verdict "blocked" is true; the types of the scripts and their hooks. |
| `EntropyHealth` | The monobit and runs tests bit by bit, and a reference definition of what they decide. |
| `SoftwareSHM` | `generate_tef`, `secure_store` and `zeroize` of one SHM. |
| `SoftwareSHMProofs` | What the health tests decide; only healthy samples are returned; types and erasure of `SoftwareSHM`. |
| `HarnessJoin` | Receive and join timeouts of a handshake, with a clock. |
| `HarnessJoinProofs` | The joins outlast the threads; no timeout without a reason. |
| `MC*` | Constants for TLC. |

Correspondence to the code:

* `sess[e]` is the object's attributes (`state`, `sid` = `session_id`, `pkS`,
  `skS`, `ss`, `tefc`, `tefs`, `commitC`, `commitS`, `key`, `m5`, `th` = the
  transcript). Blinding nonces travel and are stored with their TEF and are part
  of that term. `exc[e]` is history: the exception a handler raised half way.
* Each handler is one action with a disjunct per outcome. `s1` is the session
  after the first `_transition`, `s2`, `s3` after further assignments; `Raise`
  leaves the attributes assigned up to the raise, `Return` adds the message to
  `wire`. Handlers are atomic because a session is used by one thread only.
* `Inbound(type)`: the caller may pass any message ever returned, to any
  session, as it is or with one field damaged. Loss, duplication, reordering,
  delay, replay and cross-session delivery are all instances.
* `OutOfSequence` is `require_state` raising: it only records the session in
  `rejected` so that a property can speak of it (at most `MaxRejected`).
* A handler called on a session of the wrong role is included: the state table
  accepts it and the handler fails half way.
* `LiveHandshake`: `Handle` is receive + decode + handler. A message decodes
  when it has the fields the deserializer looks up (`Reads`); `Undecodable` is
  every other one, bytes that are no message (`Malformed`) included. `Deliver`,
  `Drop`, `Modify`, `SendFails` end a `send`; `Duplicate` puts a copy into the
  queue and the send goes on; `Replay` is `Attacker.replay`. `Timeout` covers a
  receive nothing will answer (`Starved`) and, at the price of a fault, a
  message that comes too late.
* `NetworkSimulator`: `at[e]` is the thread's place inside `send`: `checked`
  (first read of `_attacker`), `process` (second read; `process` is called),
  `capture` (snapshot taken), `hooks` (hooks running), `put`. `fate[e][n]` is how the n-th send ended, an exception of the
  mutation function included. A message carries whether it was `altered` and
  `via` what it came into the queue. `whole`, `touched` and `ever` are history:
  hooks registered throughout, and at some time in, the current send, and all
  that was captured before the captures were cleared. `calls` counts what the
  configuring thread does.
* `HandshakeOverNetwork`: a token of the simulator stands for the bytes of the
  n-th message a thread sent (`sent`), or for what the modify hook made of it
  (`arrived`). `queueBar` and `outboxBar` map tokens to messages. The budget
  `MaxFaults` only keeps the account that `LiveHandshake` asks for; in the run it
  is large enough never to run out, since `LiveRefined` would fail if it did.
* `AttackScripts`: `Work`, `Transmit` and `GiveUp` are the threads, with the
  hook of the script inside `Transmit` (`Forged`, `Captures`, `count`);
  `FirstReturns` and `LastReturns` are what `run()` does when
  `run_live_handshake` comes back. The join comes back because the threads
  ended or, as a fault, because it timed out; then the threads go on.
* `SoftwareSHM`: `memory` holds every bytearray that was ever stored, `store`
  the index a name refers to. `drawn` are the samples of the last call.

Operators marked *faulty variant* are used by the mutation runs only: each
stands for a plausible bug (a dropped check, a missing reset, an early return)
and `PROJECT.json` "mutants" names the property that detects it. No passing run
uses them.

## 3. The runs

| Run | Question | Instance | Result |
|---|---|---|---|
| `session_pairs` | `TypeOK`, `PhaseOK`, `FactsOK`, `FailedStaysFailed`, commit before reveal, key confirmation, agreement, refinement of `KeyAgreement` | 2 servers, 2 clients, 1 rejected call, symmetric | holds, 41 906 states |
| `established_unverified` | "ESTABLISHED on valid MACC" (PROTOCOL_SPEC 164, 237) | 1 + 1 | **violated** |
| `out_of_sequence` | "MUST raise and abort the session" (PROTOCOL_SPEC 243) | 1 + 1 | **violated** |
| `live_faults` | threads end, a quiet end of both sides or of one means what it should, no false alarm, an undisturbed handshake completes, the threads are callers of `HandshakeSession` | 1 pair, 3 faults | holds, 42 879 states |
| `network` | accounting, order, `drop_next`, captures, hook contexts | 2 senders (2 and 1 sends), 4 hooks, 2 calls, 4 receives | holds, 733 949 states |
| `handshake_over_network` | the threads on the lock-level simulator refine `LiveHandshake`, nobody blocks, matching conversations | 1 pair, 4 hooks, 2 calls | holds, 199 519 states |
| `duplicate_order` | copies come after the original (attacker.py 182) | 1 send each, `duplicate` | **violated** |
| `drop_next_zero` | the event is set once all n messages are dropped (attacker.py 158) | 1 send each, n = 0 | **violated** |
| `attack_scripts` | a script reports its attack blocked, and only when it was | 5 scripts, up to 2 handshakes, 2 faults | holds, 3 116 states |
| `software_shm` | only healthy samples are returned, only replaced secrets survive | 10 samples of 5 bytes, 3 attempts, 3 stores, 2 names | holds, 37 145 states |
| `join_fast` | joins outlast the threads, no timeout on a slow peer | sends of at most 0.5 s, 1 drop | holds, 950 states |
| `join_slow` | an empty errors list confirms success (replay.py 71) | sends of up to 5 s | **violated** |

Why these bounds. *Sessions*: crossing messages needs two sessions of one side
on the same server key, which two pairs have on both sides; a third pair would
add only copies of the same crossings. With one key, servers are
interchangeable and so are clients, no definition chooses one of them, and the
properties are about all: `Symmetry` is sound for this safety run. All terms are
derived from the session that made them, so no value set is cut off. *Damage*:
one field at a time of any message, including messages that were made after
damaged ones. *Faults*: three are enough to hit a message, its answer and the
timeout behind it; a handshake has six messages, and a thread ends at its first
failure. A script has one attack of its own, so two more are enough for a failed
draw or a late message together with a join that gives up. *Simulator*: two
calls and any number of removals give a hook removed in the middle of a send, a
second sender in between and the next send of the first one, every order of two
hooks, and a clear or a replay beside each hook. *Composition*: the same two
calls over all six messages of a handshake, with the attacker attached or not
to begin with. *Samples*: five bytes are 40 bits, of which 35%, 65%, 30% and
70% are whole numbers, so each end of each band, and its neighbour outside, is
a sample; `MinSampleBytes` is a parameter, and `MaxStores` = 3 stores one name
twice and another once. *Clock*: half a second is finer than every difference
that matters to `JoinsOutlast`, which is stated with its condition on the
parameters.

`CHECK_DEADLOCK FALSE` is in every configuration but `SoftwareSHM.cfg` because
those systems really stop: sessions end ESTABLISHED or failed, threads return,
the bounded senders finish. That they do not stop too early is `ThreadsEnd`,
`Completes`, `SomebodyGoesOn` and `AttacksBlocked`.

The constants that only bound the exploration are `MaxRejected`, `MaxFaults`,
`MaxSends`, `MaxReceives`, `MaxCalls`, `MaxStores`, `MaxDrops` and `MaxDelay`.

### Fairness

`LiveHandshake` assumes weak fairness of each thread's `Step` (start, handle,
fail to decode, deliver), because the interpreter schedules every thread that
can run and nothing in a step blocks; and of a timeout whose message will never
come, because `queue.get(timeout=10)` returns. `AttackScripts` assumes the same
of its threads, and of the main thread once the threads it joins have ended.
Faults are not fair: nothing has to be dropped, and a late message has to
happen no more than a punctual one. `NetworkSimulator`, `HandshakeOverNetwork`,
`SoftwareSHM` and `HarnessJoin` are checked for safety only; in the composition
`SomebodyGoesOn` says that the threads can always go on by themselves, and each
of them makes a bounded number of steps.

### What the violations show

* `established_unverified`: `process_m6` enters ESTABLISHED before it verifies
  MACC; after a `MACError` the object stays ESTABLISHED, with a session key and
  all its ephemeral secrets. `ServerEstablishedMatched` is what does hold: a
  server whose handler *returned* agrees with a client.
* `out_of_sequence`: `InvalidStateTransition` does not abort; the handshake
  goes on with the next right call. This is a difference to the specification
  text; `PhaseOK` shows the session is intact.
* `duplicate_order`: `duplicate` enqueues its extra copies inside the hook, so
  they precede the original and escape the later hooks.
* `drop_next_zero`: the event is set only by the hook that has just dropped the
  last message, so after `drop_next(0)` nobody ever sets it.
* `join_slow`: with slow sends `run_live_handshake` returns an empty list while
  bob's thread still runs. `JoinsOutlast` gives the condition under which it
  does not: one receive timeout and five sends shorter than one join.

## 4. The proofs

Each theorem holds for **every** value of the constants that meets the named
assumptions, which say no more than the code does. In `HandshakeSession`:
`RolesAssumption` (no session has both roles), `SigningAssumption` (each session
has a signing key pair), `BoundAssumption`. In `LiveHandshake`:
`PeerAssumption` (threads come in pairs of one server and one client that knows
its key, as `run_live_handshake` makes them), `FaultsAssumption`. In
`NetworkSimulator`: `DestAssumption`, `HooksAssumption`, `NatsAssumption`.
`NetworkAssumption` is the union of those for the composition. `TimesAssumption`,
`AttemptsAssumption` and `StoresAssumption` say that times and bounds are
numbers; `SamplesAssumption`, that samples are bytes, as `os.urandom` returns
them; `MinSampleAssumption`, that the shortest sample the tests accept is not
empty; `HandshakesAssumption`, that a script's two handshakes have different
servers. TLC evaluates each of them in a run. Four theorems have a hypothesis of
their own, `OwnKeys`: each server has its own signing key (see "Threads").

### Sessions: `HandshakeSessionProofs`

* `TypeCorrect`: `Spec => []TypeOK`. No session ever reaches a state of the
  other role's half of the table, wherever its handlers fail.
* `PhaseCorrect`: `Spec => []PhaseOK`. A session is live and has what the next
  handler reads, or it failed and lacks it.
* `FailureIsFinal`: `Spec => FailedStaysFailed`. No call to a failed session
  returns a message, derives a key or revives it.

The inductive invariant is `IndInv == TypeOK /\ PhaseOK`. Neither half is
inductive alone. Types are not, because a handler accepts a session by its state
alone, and only `PhaseOK` says that the secret and the transcript it reads are
there and have the right depth. `PhaseOK` is not, because without the types of
the messages on the wire nothing bounds what a handler assigns. The part that
had to be strengthened is the failed session in `M1_CREATED`: a server whose
`process_m1` failed sits in a state that `process_m2` accepts; `skS = None` makes
`process_m2` fail there, and leaves it in a state with `ss = None`, on which every
later handler fails. (A client whose `create_m1` failed is in `M1_VERIFIED`, which
no handler accepts.)

Layout: lemmas on terms and on what each `verify_m*` returns; `RaiseStep` and
`ReturnStep`, the two ways a handler can end; one lemma per handler, split by
its outcomes; `NextIndInv`; the theorems.

### Agreement: `HandshakeAgreementProofs`

* `FactsCorrect`: `Spec => []FactsOK`.
* `ClientCommitBeforeReveal`: while a client has revealed its TEF and has no key
  yet, a server with its session id and shared secret holds its CommitC. It says
  nothing about CommitS, which MAC1 does not cover. `ServerCommitBeforeReveal`
  does: a server that derived a key, and so reveals its TEF, has its CommitS, and
  the CommitC it opened, in the session of the client whose TEF is in the key.
* `ClientConfirmed`, `ServerConfirmed`: a client with a key, and a server whose
  last handler returned, has a peer with the same key and transcript.
* `ServerAuthenticated`: the server session that shares a client's key has the
  long-term key the client was built with.
* `KeysBelongToPairs`: however the messages of several handshakes are mixed, no
  two servers and no two clients hold one key.
* `SecretsErased`: an established session without an exception holds no
  ephemeral secret. `established_unverified` shows why "without an exception" is
  needed.
* `Refinement`: `Spec => AgreementSpec`. Each handler is a step of
  `KeyAgreement` or none.

These properties relate **two** sessions, but a handler sees its own session and
one message. So the invariant, `AgreementInv == IndInv /\ FactsOK`, ties each
attribute of a session and each message on the wire to facts about the session
that made it and about that session's peer: who drew the ciphertext behind a
shared secret, whose commitment is in a transcript, which session must have
derived the key under which a tag was computed. The facts are such that no step
makes one false again (attributes are assigned once, messages stay on the wire),
so a step has to establish only those about the session it changes and the
message it returns (`StableFacts`, `OthersFacts`). A message that a handler
accepts is not one that was damaged where it matters: its tag or ciphertext is
a term that some handler built, and equal terms have equal parts (`TagInjective`,
`KeyInjective` and the like). M2 needs no such fact: anybody may send one, and
only M3's tag and M4's plaintext say whose it was.

`FactsOK` names *some* peer. Which one follows from `Introductions`,
`Spec => [](Announced /\ Trusting)`: an M1 on the wire is as its server signed it,
and whose M1 or M2 is there has left its first state (`Announced`); so a client
takes a session id only from a server with the signing key it trusts
(`Trusting`). `Announced` also gives `NotYetSaid`: a session has not yet returned
what its state will make it return next, so a message is never taken for one
that was sent before it.

### Threads: `LiveHandshakeProofs`

* `ThreadsAreCallers`: `LiveSpec => SessionSpec`. Whatever the network does, the
  threads make only calls that `HandshakeSession` allows, so every theorem above
  holds of them.
* `DoneConfirmed`: under `OwnKeys`, `LiveSpec => []DoneMeansConfirmed`, for every
  set of handshakes and any number of faults: what the quiet end of one thread
  alone says of both sides. The server's says all, because it has verified M6; the
  client's says that its server derived its key, not that M6 arrives.
* `QuietAgreed`: under `OwnKeys`, `LiveSpec => []QuietMeansAgreed`; it follows from
  the one before. `OwnKeys` says that no two servers share
  a signing key. The code makes it so: `run_live_handshake` and the CLI draw a
  key pair for each handshake (`_harness.py` 61, `run_handshake_cli.py` 114). Without
  it the property is false: of two handshakes with one server identity, replays
  can carry every message across, and then each client agrees with the *other*
  server. Under it, `Trusting` makes the peer that the agreement theorem names
  the one of the same handshake.
* `CalmRaisesNothing`: `LiveSpec => []NoFalseAlarm`, for every set of handshakes.

`TrafficOK` has the types of threads, queues and outboxes; they are proved as part
of this invariant, and no run checks them by themselves. It says that a queue holds messages of handlers, damaged ones or bytes
that are none; the fields a deserializer looks up tell the six messages apart
(`DecodedType`), so a step of a thread is a handler call with a message of the
right type. `EndedOK` relates a thread that is done to its session. `CalmOK` is
what makes `NoFalseAlarm` inductive: as long as no fault was spent, each
handshake is at one of eight points (`NotStarted`, one of M1 .. M6 in flight,
`Finished`), described completely: both threads, both sessions, both queues and
the one message under way. At each point only one thread can move, and the
handler it calls returns; `Untouched` keeps the other handshakes out of it.

### Simulator: `NetworkSimulatorProofs`

`SimTypeCorrect`, `SendsAccounted`, `SendersInOrder`, `CapturesFaithful`,
`HooksActInWindow`: every property of the run `network`, for all endpoints, hooks
and bounds; and `DropsExactly`, which assumes `DropNext > 0`, because with 0 the
event is never set (run `drop_next_zero`).

The invariant `SimInv` has one part per concern. `SendOK` and `WindowOK`: what a
send carries and which hooks it still has to run, against what was registered
meanwhile; a hook that was registered all the time is still pending or its
effect is there. `HooksOK`: a hook is registered once, hence a duplicate hook
runs once in a send, hence a copy is unique. `LogOK`: a message in a queue that
was not replayed has a fate that allows it, or is the copy of the send under way
after its duplicate hook ran; this is also what keeps a sender's messages in
order. `DropsOK`: `remaining` plus the number of messages dropped is `DropNext`,
whoever sends. `EverOK` and `RestOK`: what was captured, and that the list is the
rest of it since it was cleared.

### Composition: `HandshakeOverNetworkProofs`

`NetworkRefines`: `NetSpec /\ [](faults >= 0) => LiveRefined`, for every set of
handshakes and hooks. The hypothesis says that what the network did is within
the account of faults that `LiveHandshake` keeps. Each step spends at most one
unit, so every finite behaviour satisfies it for some `MaxFaults`, which is a
constant of the model and of nothing in the code.

The invariant joins `SimInv` of the simulator (the composition's simulator is an
instance of the proved module, `SimSteps`) with `ThreadOK`, `Typed` and `QueuesOK`:
a thread is inside a send exactly while its last message has no fate; a token
stands for a message that was sent; and an altered token for bytes that will not
change any more (`Settled`), because a modify hook runs at most once in a send.
That is needed because the copy of a duplicate hook can be received, and answered,
while the send that made it goes on through its hooks. From it, each step maps
(`StartMaps` .. `ReplayMaps`): entering a send, its locks and the hooks that pass a
message on are stutters; the others are the step of `LiveHandshake` with the same
effect on queues and threads.

`NetworkCallers`: `NetSpec => Spec`, with no account of faults. Whatever hooks and
replays do, the threads only make calls that `HandshakeSession` allows, so what
the session and agreement theorems say of every caller holds of them.

`NetworkQuiet`: under `OwnKeys`, `NetSpec => []QuietMeansAgreed`, without the account
of faults that `NetworkRefines` would need to carry it over from `LiveHandshake`.

`ConversationsMatch`: under `OwnKeys`, for every set of handshakes and any hooks,
`NetSpec => []MatchingConversations`. It joins three results: the coupling above,
which holds whatever the network spent (a token read is a message that was sent,
and no send that goes on rewrites it, `HeardStays`); the invariant of the agreement
proof; and `StoryInv`. `StoryInv` says of each thread without an exception, by the
state of its session, which messages it sent and heard, and that its transcript is
made of exactly these (`ServerStory`, `ClientStory`). It also needs `NotYetSaid`:
without it a handler could return a message that is already on the wire, and the
session would have nothing to send. At the end both sides hold one key, hence one
transcript (agreement theorem), and an extended transcript determines what it was
extended with (`ExtInjective`), so the messages are equal one by one. That the key
is shared with the other thread of the *same* handshake is `KeyedByPeer`: the client trusts no
other server.

### Attack scripts: `AttackScriptsProofs`

* `AttackTypeCorrect`: `AttackSpec => []AttackTypeOK`.
* `BlockedIsTrue`: `AttackSpec => []BlockedMeansRejected`. A result with
  `blocked=True` is the truth, and stays true while daemon threads that outlived
  the join go on, for every set of handshakes and any number of faults.

The scripts are not callers of `HandshakeSession` as they stand: the hook of
`forged_attestation` puts a key on the network that nobody has. `ForgedRejected`
closes the gap: a client rejects that M1 exactly as it rejects one with a damaged
quote, so every step of a thread is a call `HandshakeSession` allows and
`AgreementInv` holds of it. `AttackInv` adds three things. `RoutesOK`: what a queue
holds and who put it there; each client takes its session id from the M1 of its
own server, so a key belongs to the pair (`KeysOfPairs`), where the agreement
theorem alone only names *some* client. `RaisedOK`: the exception a script looks
for leaves its session in one final state without a key. `ScriptOK`: what each
hook has done so far, tied to its counter and to what its target has sent; this
is why the exception the script reads was caused by the attack and not by a draw
that failed or a message that came late. `VerdictOK` then records that the
defence had worked when the verdict was given.

### Timeouts: `HarnessJoinProofs`

* `JoinTypeCorrect`: `[]JoinTypeOK`.
* `JoinsOutlastAll`: for all timeouts and delays, where one receive timeout and
  the sends of a handshake fit in one join, the joins return after both threads.
* `NoSpuriousTimeout`: without a drop, and with sends faster than the receive
  timeout, no thread ends with an error.

`JoinInv` adds to the types: `Turns` (whose message is under way, so at most one
thread is inside a send), `Punctual` (the timer of a thread that waits has more
left than the send it waits for), `Erred` (the errors list names exactly the
threads that gave up) and `Clock` (the ticks of the current join, plus what the
timer of a thread has left, are bounded by the sends made so far and one receive
timeout). `Clock` gives `JoinsOutlast` at the last message; without `Turns` the
bound would have to count both threads' sends at every step.

### Software hardware module: `SoftwareSHMProofs`

* `ShmTypeCorrect`: `ShmSpec => []ShmTypeOK`.
* `OnlyReplacedEscape`: `ShmSpec => []OnlyReplacedSurvive`. The invariant adds
  `OwnBytearray`: a name refers to a bytearray stored under it. Without it two
  names could share one, and zeroizing the first would erase what the second
  still refers to; and a bytearray that `secure_store` lets go need not be
  replaced under its own name.
* `HealthTestsDecide`: `RunAllTests(sample) <=> Healthy(sample)` for every sequence
  of bytes. The code counts ones in a running sum and runs by comparing
  neighbouring bits; the definition speaks of the share of ones and of the set of
  maximal runs.
* `AlwaysFailsClosed`: `ShmSpec => []FailsClosed`. `generate_tef` returns the first
  sample that is healthy by that definition, and raises only after
  `max_resample_attempts` samples none of which was.

`HealthTestsDecide` needs no induction over the bits. Each maximal run has one
first position, a position where the bit differs from the one before, and each
such position begins exactly one run (`RunFromStart`, `RunByStart`); so the code
counts one for each run (`RunsCounted`). That the run from a first position has a
last one is the existence of a least element in a set of naturals (`LeastNat`),
by the well-foundedness of `<` on `Nat`. The invariant of `AlwaysFailsClosed` says of the
call under way that no sample drawn before the last was healthy.

### Only model-checked

* Liveness under fairness: `ThreadsEnd`, `Completes`, `AttacksBlocked`; and
  `SomebodyGoesOn`, which is about `ENABLED`. Both are out of this prover's reach.

## 5. Not modelled

* The algorithms behind `crypto/` (third-party libraries), JSON text and hex
  digits. `Garbled` stands for every change of a field's bytes; a change that
  leaves the decoded value equal is no change, one that leaves no field is
  `Malformed`.
* `device_id`, `firmware_hash` and the timestamp inside the quote are constant.
* EMAIL_SECURE, TEARDOWN and ZEROIZED are in the transition table, but no code
  makes these transitions. PROTOCOL_SPEC 237 names M6_CREATED and M6_VERIFIED
  before ESTABLISHED; `SessionState` has the first as a member, but no table leads
  to it, and the second does not exist. The code goes from M5_VERIFIED (client) and
  M5_CREATED (server) straight to ESTABLISHED. `Established` is the assignment of
  the state with which `process_m5` and `process_m6` end after that transition.
* Messages made up by somebody who knows no secret are modelled only as damaged
  fields and recombined deliveries: that is what `Attacker` can do.
* `delay` and `intercept` change no state; the time a delay takes is in
  `HarnessJoin`. `registered_sids` and `peek_queue_size` only read.
* The random values themselves: a sample is one of a set that contains both
  ends of both bands, the nonce is not tested by the code. `generate_sample`'s
  ValueError needs a length that no caller passes.
* The `raw_evidence` and `failure_reason` texts of the attack results, the
  checks the CLI prints after its joins, and the environment check
  (`verify_environment.py`, which imports libraries and prints versions).

## 6. Plan

Done, in this order: sessions, abstract key agreement, threads, simulator, join
timeouts; proofs of types, phases and failure; health tests, SHM and its proofs,
attack scripts, captures and replays in the simulator, and the composition of
threads and simulator with its refinement of `LiveHandshake`; proofs of agreement,
threads, join timeouts, simulator, composition and attack scripts.

Every safety invariant, action property and refinement of a passing run is proved,
but `SomebodyGoesOn`. That one and the liveness properties (see "Only
model-checked") stay with TLC: they speak of `ENABLED` and of fairness.
