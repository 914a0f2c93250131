------------------------------ MODULE SoftwareSHM ------------------------------
(***************************************************************************)
(* One SoftwareSHM (backend/shm/software_shm.py): generate_tef, which draws *)
(* samples until one passes the health tests, and the secret store with its *)
(* zeroization (backend/shm/zeroization.py).  The calls of one thread.      *)
(*                                                                          *)
(* The store maps names to bytearrays.  memory holds every bytearray it was *)
(* ever given, the ones no name refers to any more included.                *)
(***************************************************************************)
EXTENDS EntropyHealth

CONSTANTS Samples,              \* what os.urandom may return to generate_sample
          MaxResampleAttempts,  \* the argument of the constructor
          Names,                \* the names secrets are stored under
          MaxStores             \* bound: calls of secure_store

ASSUME SamplesAssumption  == Samples \subseteq Seq(0..255)
ASSUME AttemptsAssumption == MaxResampleAttempts \in Nat
ASSUME StoresAssumption   == MaxStores \in Nat

VARIABLES call,     \* the generate_tef call: not made, "sampling", or how it ended
          drawn,    \* the samples the call has drawn
          memory,   \* the bytearrays: whose secret each is and what it contains
          store     \* store[name]: its bytearray in memory, 0 if there is none
shmVars == <<call, drawn, memory, store>>

ShmInit ==
  /\ call = "none" /\ drawn = <<>>
  /\ memory = <<>> /\ store = [name \in Names |-> 0]

-----------------------------------------------------------------------------
(* generate_tef: the nonce r is not tested and leaves no trace here.       *)

GenerateTef ==
  /\ call # "sampling"
  /\ call' = "sampling" /\ drawn' = <<>>
  /\ UNCHANGED <<memory, store>>

\* Faulty variant: one attempt too many.
AttemptOnceMore(sample) ==
  /\ call = "sampling" /\ Len(drawn) <= MaxResampleAttempts
  /\ drawn' = Append(drawn, sample)
  /\ call' = IF RunAllTests(sample) THEN "returned" ELSE "sampling"
  /\ UNCHANGED <<memory, store>>

\* One turn of the loop of _sample_health_tested.
Attempt(sample) ==
  /\ call = "sampling" /\ Len(drawn) < MaxResampleAttempts
  /\ drawn' = Append(drawn, sample)
  /\ call' = IF RunAllTests(sample) THEN "returned" ELSE "sampling"
  /\ UNCHANGED <<memory, store>>

\* The loop is over: RuntimeError.
Exhausted ==
  /\ call = "sampling" /\ Len(drawn) = MaxResampleAttempts
  /\ call' = "raised"
  /\ UNCHANGED <<drawn, memory, store>>

-----------------------------------------------------------------------------
(* The store. *)

\* A name that is taken gets the new bytearray; the old one is dropped as it is.
SecureStore(name) ==
  /\ call # "sampling" /\ Len(memory) < MaxStores
  /\ memory' = Append(memory, [name |-> name, content |-> "secret"])
  /\ store' = [store EXCEPT ![name] = Len(memory) + 1]
  /\ UNCHANGED <<call, drawn>>

\* Faulty variant: the reference is dropped, the bytes are not overwritten.
ZeroizeReference(name) ==
  /\ call # "sampling"
  /\ store' = [store EXCEPT ![name] = 0]
  /\ UNCHANGED <<memory, call, drawn>>

\* zeroize_store: a name that is not there is no error.
ZeroizeName(name) ==
  /\ call # "sampling"
  /\ memory' = [b \in DOMAIN memory |->
       IF b = store[name] THEN [memory[b] EXCEPT !.content = "zeros"] ELSE memory[b]]
  /\ store' = [store EXCEPT ![name] = 0]
  /\ UNCHANGED <<call, drawn>>

ShmNext ==
  \/ GenerateTef
  \/ \E sample \in Samples : Attempt(sample)
  \/ Exhausted
  \/ \E name \in Names : SecureStore(name) \/ ZeroizeName(name)

ShmSpec == ShmInit /\ [][ShmNext]_shmVars

-----------------------------------------------------------------------------
\* Types: the outcome of the call, the samples it drew and the store, whose
\* names refer to bytearrays of their own (software_shm.py 40-42, 114-120).
ShmTypeOK ==
  /\ call \in {"none", "sampling", "returned", "raised"}
  /\ drawn \in Seq(Samples) /\ Len(drawn) <= MaxResampleAttempts
  /\ memory \in Seq([name : Names, content : {"secret", "zeros"}])
  /\ Len(memory) <= MaxStores
  /\ store \in [Names -> 0..Len(memory)]

\* Fail closed: generate_tef returns the first of its samples that is healthy
\* by the definition of the tests, and raises RuntimeError only after
\* max_resample_attempts samples none of which was (software_shm.py 45-57).
FailsClosed ==
  LET healthy == {i \in DOMAIN drawn : Healthy(drawn[i])}
  IN /\ call = "returned" => healthy = {Len(drawn)}
     /\ call = "raised" => healthy = {} /\ Len(drawn) = MaxResampleAttempts

Referenced(b) == \E name \in Names : store[name] = b
Replaced(b) == \E later \in DOMAIN memory : later > b /\ memory[later].name = memory[b].name

\* A stored secret stays intact as long as its name refers to it, and
\* afterwards only one that a later secure_store under the same name replaced
\* is still in memory: zeroize cannot reach that one any more
\* (software_shm.py 114-129, zeroization.py 39-58).
OnlyReplacedSurvive ==
  \A b \in DOMAIN memory :
    /\ Referenced(b) => memory[b].content = "secret"
    /\ memory[b].content = "secret" => Referenced(b) \/ Replaced(b)
=============================================================================
