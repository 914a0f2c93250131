--------------------------- MODULE SoftwareSHMProofs ---------------------------
(***************************************************************************)
(* What SoftwareSHM keeps for all names, samples and bounds: its types,     *)
(* which secrets can escape zeroization, and which samples generate_tef     *)
(* accepts, for which the health tests are proved to decide what they mean. *)
(***************************************************************************)
EXTENDS SoftwareSHM, FiniteSetTheorems, SequenceTheorems, WellFoundedInduction, TLAPS

\* A name refers to a bytearray that was stored under it, so two names never
\* refer to one bytearray.
OwnBytearray ==
  \A name \in Names : store[name] # 0 => memory[store[name]].name = name

ShmInv == ShmTypeOK /\ OwnBytearray /\ OnlyReplacedSurvive

\* The constructor: nothing stored, nothing drawn (software_shm.py 40-43).
LEMMA InitShmInv == ShmInit => ShmInv
BY AttemptsAssumption, StoresAssumption
   DEF ShmInit, ShmInv, ShmTypeOK, OwnBytearray, OnlyReplacedSurvive

\* Sampling leaves the store alone, and draws at most max_resample_attempts
\* samples (software_shm.py 45-67).
LEMMA SamplingStep ==
  ASSUME ShmInv, GenerateTef \/ Exhausted \/ \E sample \in Samples : Attempt(sample)
  PROVE  ShmInv'
<1>1. memory' = memory /\ store' = store
  BY DEF GenerateTef, Attempt, Exhausted
<1>2. (OwnBytearray /\ OnlyReplacedSurvive)'
  BY <1>1 DEF ShmInv, OwnBytearray, OnlyReplacedSurvive, Referenced, Replaced
<1>3. /\ call \in {"none", "sampling", "returned", "raised"}
      /\ drawn \in Seq(Samples) /\ Len(drawn) <= MaxResampleAttempts
  BY DEF ShmInv, ShmTypeOK
<1>4. /\ call' \in {"none", "sampling", "returned", "raised"}
      /\ drawn' \in Seq(Samples) /\ Len(drawn') <= MaxResampleAttempts
  <2>1. CASE GenerateTef
    <3>1. call' = "sampling" /\ drawn' = <<>>
      BY <2>1 DEF GenerateTef
    <3> QED BY <3>1, AttemptsAssumption
  <2>2. ASSUME NEW sample \in Samples, Attempt(sample)
        PROVE  /\ call' \in {"none", "sampling", "returned", "raised"}
               /\ drawn' \in Seq(Samples) /\ Len(drawn') <= MaxResampleAttempts
    <3>1. /\ drawn' = Append(drawn, sample) /\ Len(drawn) < MaxResampleAttempts
          /\ call' \in {"returned", "sampling"}
      BY <2>2 DEF Attempt
    <3> QED BY <3>1, <1>3, AttemptsAssumption
  <2>3. CASE Exhausted
    <3>1. call' = "raised" /\ drawn' = drawn
      BY <2>3 DEF Exhausted
    <3> QED BY <3>1, <1>3
  <2> QED BY <2>1, <2>2, <2>3
<1> QED
  BY <1>1, <1>2, <1>4 DEF ShmInv, ShmTypeOK

\* secure_store: the bytearray the name referred to is replaced by a later one
\* of the same name, and every other one stays where it was
\* (software_shm.py 114-120).
LEMMA SecureStoreStep ==
  ASSUME ShmInv, NEW name \in Names, SecureStore(name)
  PROVE  ShmInv'
<1> DEFINE new == Len(memory) + 1
           buffer == [name |-> name, content |-> "secret"]
<1>1. /\ memory \in Seq([name : Names, content : {"secret", "zeros"}])
      /\ store \in [Names -> 0..Len(memory)]
      /\ Len(memory) \in Nat
  BY DEF ShmInv, ShmTypeOK
<1>2. memory' = Append(memory, buffer) /\ store' = [store EXCEPT ![name] = new]
  BY DEF SecureStore
<1>3. /\ Len(memory') = new /\ memory'[new] = buffer
      /\ DOMAIN memory' = 1..new /\ DOMAIN memory = 1..Len(memory)
      /\ \A b \in 1..Len(memory) : memory'[b] = memory[b]
  BY <1>1, <1>2
<1>4. ShmTypeOK'
  <2>1. buffer \in [name : Names, content : {"secret", "zeros"}]
    OBVIOUS
  <2>2. memory' \in Seq([name : Names, content : {"secret", "zeros"}])
    BY <1>1, <1>2, <2>1
  <2>3. store' \in [Names -> 0..Len(memory')]
    BY <1>1, <1>2, <1>3
  <2> QED
    BY <1>1, <1>3, <2>2, <2>3, StoresAssumption DEF ShmInv, ShmTypeOK, SecureStore
<1>5. OwnBytearray'
  <2> SUFFICES ASSUME NEW n \in Names, store'[n] # 0
               PROVE  memory'[store'[n]].name = n
    BY DEF OwnBytearray
  <2>1. CASE n = name
    BY <2>1, <1>1, <1>2, <1>3
  <2>2. CASE n # name
    BY <2>2, <1>1, <1>2, <1>3 DEF ShmInv, OwnBytearray
  <2> QED BY <2>1, <2>2
<1>6. OnlyReplacedSurvive'
  <2> SUFFICES ASSUME NEW b \in 1..new
               PROVE  /\ Referenced(b)' => memory'[b].content = "secret"
                      /\ memory'[b].content = "secret" => Referenced(b)' \/ Replaced(b)'
    BY <1>3 DEF OnlyReplacedSurvive
  <2>1. CASE b = new
    BY <2>1, <1>1, <1>2, <1>3 DEF Referenced
  <2>2. CASE b # new
    <3>1. b \in 1..Len(memory) /\ memory'[b] = memory[b]
      BY <2>2, <1>1, <1>3
    <3>2. Referenced(b)' => Referenced(b)
      BY <3>1, <1>1, <1>2, <2>2 DEF Referenced
    <3>3. Replaced(b) => Replaced(b)'
      BY <3>1, <1>1, <1>3 DEF Replaced
    <3>4. Referenced(b) => Referenced(b)' \/ Replaced(b)'
      <4> SUFFICES ASSUME NEW n \in Names, store[n] = b
                   PROVE  Referenced(b)' \/ Replaced(b)'
        BY DEF Referenced
      <4>1. CASE n = name
        <5>1. memory[b].name = name
          BY <4>1, <3>1, <1>1 DEF ShmInv, OwnBytearray
        <5>2. new \in DOMAIN memory' /\ new > b /\ memory'[new].name = memory'[b].name
          BY <5>1, <3>1, <1>1, <1>3
        <5> QED BY <5>2 DEF Replaced
      <4>2. CASE n # name
        BY <4>2, <1>1, <1>2 DEF Referenced
      <4> QED BY <4>1, <4>2
    <3> QED
      BY <3>1, <3>2, <3>3, <3>4, <1>3 DEF ShmInv, OnlyReplacedSurvive
  <2> QED BY <2>1, <2>2
<1> QED BY <1>4, <1>5, <1>6 DEF ShmInv

\* zeroize: only the bytearray the name refers to is overwritten, and no other
\* name refers to it (zeroization.py 27-59).
LEMMA ZeroizeStep ==
  ASSUME ShmInv, NEW name \in Names, ZeroizeName(name)
  PROVE  ShmInv'
<1>1. /\ memory \in Seq([name : Names, content : {"secret", "zeros"}])
      /\ store \in [Names -> 0..Len(memory)]
      /\ Len(memory) \in Nat
  BY DEF ShmInv, ShmTypeOK
<1>2. /\ memory' = [b \in DOMAIN memory |->
            IF b = store[name] THEN [memory[b] EXCEPT !.content = "zeros"] ELSE memory[b]]
      /\ store' = [store EXCEPT ![name] = 0]
  BY DEF ZeroizeName
<1>3. DOMAIN memory' = DOMAIN memory /\ DOMAIN memory = 1..Len(memory)
  BY <1>1, <1>2
<1>4. ASSUME NEW b \in DOMAIN memory
      PROVE  /\ memory'[b] \in [name : Names, content : {"secret", "zeros"}]
             /\ memory'[b].name = memory[b].name
             /\ b = store[name] => memory'[b].content = "zeros"
             /\ b # store[name] => memory'[b] = memory[b]
  <2>1. memory[b] \in [name : Names, content : {"secret", "zeros"}]
    BY <1>1, <1>3, ElementOfSeq
  <2>2. memory'[b] = IF b = store[name] THEN [memory[b] EXCEPT !.content = "zeros"]
                                        ELSE memory[b]
    BY <1>2
  <2> QED BY <2>1, <2>2
<1>5. memory' \in Seq([name : Names, content : {"secret", "zeros"}]) /\ Len(memory') = Len(memory)
  BY <1>1, <1>3, <1>4, <1>2
<1>6. ShmTypeOK'
  BY <1>1, <1>2, <1>5 DEF ShmInv, ShmTypeOK, ZeroizeName
<1>7. OwnBytearray'
  BY <1>1, <1>2, <1>3, <1>4 DEF ShmInv, OwnBytearray
<1>8. OnlyReplacedSurvive'
  <2> SUFFICES ASSUME NEW b \in DOMAIN memory
               PROVE  /\ Referenced(b)' => memory'[b].content = "secret"
                      /\ memory'[b].content = "secret" => Referenced(b)' \/ Replaced(b)'
    BY <1>3 DEF OnlyReplacedSurvive
  <2>1. Replaced(b) => Replaced(b)'
    BY <1>3, <1>4 DEF Replaced
  <2>2. CASE b = store[name]
    <3>1. memory[b].name = name /\ b # 0
      BY <2>2, <1>1, <1>3 DEF ShmInv, OwnBytearray
    <3>2. \A n \in Names : store'[n] # b
      BY <3>1, <1>1, <1>2 DEF ShmInv, OwnBytearray
    <3> QED BY <3>2, <2>2, <1>4 DEF Referenced
  <2>3. CASE b # store[name]
    <3>1. b # 0 /\ memory'[b] = memory[b]
      BY <2>3, <1>1, <1>3, <1>4
    <3>2. Referenced(b)' <=> Referenced(b)
      BY <2>3, <3>1, <1>1, <1>2 DEF Referenced
    <3> QED BY <3>1, <3>2, <2>1 DEF ShmInv, OnlyReplacedSurvive
  <2> QED BY <2>2, <2>3
<1> QED BY <1>6, <1>7, <1>8 DEF ShmInv

\* Every step of the SHM keeps the invariant.
LEMMA NextShmInv == ShmInv /\ [ShmNext]_shmVars => ShmInv'
<1> SUFFICES ASSUME ShmInv, [ShmNext]_shmVars
             PROVE  ShmInv'
  OBVIOUS
<1>1. CASE GenerateTef \/ Exhausted \/ \E sample \in Samples : Attempt(sample)
  BY <1>1, SamplingStep
<1>2. ASSUME NEW name \in Names, SecureStore(name) PROVE ShmInv'
  BY <1>2, SecureStoreStep
<1>3. ASSUME NEW name \in Names, ZeroizeName(name) PROVE ShmInv'
  BY <1>3, ZeroizeStep
<1>4. CASE UNCHANGED shmVars
  BY <1>4 DEF shmVars, ShmInv, ShmTypeOK, OwnBytearray, OnlyReplacedSurvive, Referenced, Replaced
<1> QED
  BY <1>1, <1>2, <1>3, <1>4 DEF ShmNext

\* For every set of names and samples and all bounds, the SHM keeps its types
\* (software_shm.py 40-129).
THEOREM ShmTypeCorrect == ShmSpec => []ShmTypeOK
<1>1. ShmInv => ShmTypeOK
  BY DEF ShmInv
<1> QED BY InitShmInv, NextShmInv, <1>1, PTL DEF ShmSpec

\* However secrets are stored and zeroized, a stored one is intact while its
\* name refers to it, and afterwards only a replaced one is left in memory
\* (software_shm.py 114-129, zeroization.py 27-59).
THEOREM OnlyReplacedEscape == ShmSpec => []OnlyReplacedSurvive
<1>1. ShmInv => OnlyReplacedSurvive
  BY DEF ShmInv
<1> QED BY InitShmInv, NextShmInv, <1>1, PTL DEF ShmSpec

-----------------------------------------------------------------------------
(* The health tests. *)

\* A set of natural numbers has a least one.
LEMMA LeastNat ==
  ASSUME NEW T, T \subseteq Nat, T # {}
  PROVE  \E x \in T : \A y \in T : x <= y
<1> DEFINE R == {p \in Nat \X Nat : p[1] < p[2]}
<1>1. OpToRel(<, Nat) = R
  BY DEF OpToRel
<1>2. IsWellFoundedOn(R, Nat)
  BY <1>1, NatLessThanWellFounded
<1> HIDE DEF R
<1>3. PICK x \in T : \A y \in T : <<y, x>> \notin R
  BY <1>2, WFMin
<1>4. ASSUME NEW y \in T
      PROVE  x <= y
  <2>1. x \in Nat /\ y \in Nat /\ <<y, x>> \notin R
    BY <1>3
  <2> QED  BY <2>1 DEF R
<1> QED  BY <1>4

\* The positions at which a run begins.
Starts(bits) == {1} \cup {i \in 2..Len(bits) : bits[i] # bits[i - 1]}

\* runs_test counts the positions at which a run begins (health.py 62-85).
LEMMA RunsAreStarts ==
  ASSUME NEW bits, Len(bits) \in Nat
  PROVE  IsFiniteSet(Starts(bits)) /\ Cardinality(Starts(bits)) = Runs(bits)
<1> DEFINE C == {i \in 2..Len(bits) : bits[i] # bits[i - 1]}
<1>1. IsFiniteSet(C)
  <2>1. IsFiniteSet(2..Len(bits)) /\ C \in SUBSET (2..Len(bits))
    BY FS_Interval
  <2> QED  BY <2>1, FS_Subset
<1>2. 1 \notin C /\ Starts(bits) = C \cup {1}
  BY DEF Starts
<1>3. Runs(bits) = 1 + Cardinality(C)
  BY DEF Runs
<1> HIDE DEF C
<1>4. Cardinality(C) \in Nat
  BY <1>1, FS_CardinalityType, Zenon
<1>5. /\ IsFiniteSet(C \cup {1})
      /\ Cardinality(C \cup {1}) = IF 1 \in C THEN Cardinality(C) ELSE Cardinality(C) + 1
  BY <1>1, FS_AddElement, Zenon
<1> QED  BY <1>2, <1>3, <1>4, <1>5

\* The run that begins at a start ends where the next bit is another one.
LEMMA RunFromStart ==
  ASSUME NEW bits, Len(bits) \in Nat, DOMAIN bits = 1..Len(bits),
         NEW i \in Starts(bits), i <= Len(bits)
  PROVE  \E j \in DOMAIN bits : <<i, j>> \in MaximalRuns(bits)
<1>1. PICK n \in Nat : n = Len(bits)
  OBVIOUS
<1> DEFINE T == {k \in i..n : k = n \/ bits[k + 1] # bits[i]}
<1>2. i \in 1..n /\ (i > 1 => bits[i - 1] # bits[i])
  BY <1>1 DEF Starts
<1>3. T \subseteq Nat /\ n \in T
  BY <1>2
<1>4. PICK j \in T : \A k \in T : j <= k
  BY <1>3, LeastNat
<1>5. n \in Nat /\ i \in Nat /\ j \in i..n /\ (j = n \/ bits[j + 1] # bits[i])
  BY <1>2, <1>4
<1>6. \A k \in i..j : bits[k] = bits[i]
  <2> SUFFICES ASSUME NEW k \in i..j, k # i
               PROVE  bits[k] = bits[i]
    OBVIOUS
  <2>1. k - 1 \in i..n /\ k - 1 < j /\ k - 1 # n /\ (k - 1) + 1 = k
    BY <1>5
  <2>2. k - 1 \notin T
    <3>1. \A x \in T : ~(x < j)
      BY <1>4, <1>5
    <3> QED  BY <2>1, <3>1
  <2> QED  BY <2>1, <2>2
<1>7. bits[j] = bits[i]
  BY <1>6, <1>5
<1>8. j \in 1..n /\ i <= j /\ (j < n => bits[j + 1] # bits[j])
  BY <1>2, <1>5, <1>7
<1>9. <<i, j>> \in MaximalRuns(bits)
  <2>1. i \in DOMAIN bits /\ j \in DOMAIN bits /\ (j < Len(bits) => bits[j + 1] # bits[j])
    BY <1>1, <1>2, <1>8
  <2>2. <<i, j>> \in (DOMAIN bits) \X (DOMAIN bits) /\ <<i, j>>[1] = i /\ <<i, j>>[2] = j
    BY <2>1
  <2> QED  BY <1>2, <1>6, <1>8, <2>1, <2>2, Zenon DEF MaximalRuns
<1> QED  BY <1>8, <1>9, <1>1

\* Two runs that begin at the same bit are one.
LEMMA RunByStart ==
  ASSUME NEW bits, Len(bits) \in Nat, DOMAIN bits = 1..Len(bits),
         NEW r \in MaximalRuns(bits), NEW q \in MaximalRuns(bits), r[1] = q[1]
  PROVE  r = q
<1>1. ASSUME NEW x \in MaximalRuns(bits), NEW y \in MaximalRuns(bits), x[1] = y[1]
      PROVE  x[2] >= y[2]
  <2> DEFINE n == Len(bits)
  <2>1. /\ x[1] \in 1..n /\ x[2] \in 1..n /\ y[2] \in 1..n /\ x[1] <= x[2]
        /\ bits[x[2]] = bits[x[1]] /\ (x[2] < n => bits[x[2] + 1] # bits[x[2]])
        /\ \A i \in x[1]..y[2] : bits[i] = bits[x[1]]
    BY <1>1 DEF MaximalRuns
  <2> SUFFICES ASSUME x[2] < y[2] PROVE FALSE
    BY <2>1
  <2>2. x[2] + 1 \in x[1]..y[2] /\ x[2] < n
    BY <2>1
  <2> QED  BY <2>1, <2>2
<1>2. r[2] >= q[2] /\ q[2] >= r[2]
  BY <1>1
<1>3. r = <<r[1], r[2]>> /\ q = <<q[1], q[2]>> /\ r[2] \in Nat /\ q[2] \in Nat
  BY DEF MaximalRuns
<1> QED  BY <1>2, <1>3

\* There are as many maximal runs as runs are counted.
LEMMA RunsCounted ==
  ASSUME NEW bits, Len(bits) \in Nat \ {0}, DOMAIN bits = 1..Len(bits)
  PROVE  Cardinality(MaximalRuns(bits)) = Runs(bits)
<1> DEFINE M == MaximalRuns(bits)
           S == Starts(bits)
           first == [r \in M |-> r[1]]
<1>1. \A r \in M : r[1] \in S
  BY DEF MaximalRuns, Starts
<1>2. \A i \in S : i <= Len(bits) /\ \E r \in M : r[1] = i
  <2> SUFFICES ASSUME NEW i \in S
               PROVE  i <= Len(bits) /\ \E r \in M : r[1] = i
    OBVIOUS
  <2>1. i <= Len(bits)
    BY DEF Starts
  <2>2. PICK j \in DOMAIN bits : <<i, j>> \in M
    BY <2>1, RunFromStart
  <2> QED  BY <2>1, <2>2
<1>3. \A r, q \in M : r[1] = q[1] => r = q
  BY RunByStart
<1>4. IsFiniteSet(S) /\ Cardinality(S) = Runs(bits)
  BY RunsAreStarts
<1> HIDE DEF M, S
<1>5. first \in Injection(M, S)
  BY <1>1, <1>3 DEF Injection, IsInjective
<1>6. first \in Surjection(M, S)
  BY <1>1, <1>2 DEF Surjection
<1>7. IsFiniteSet(M) /\ Cardinality(M) = Cardinality(S)
  BY <1>4, <1>5, <1>6, FS_Injection
<1> QED  BY <1>4, <1>7 DEF M

\* The bits of a sample are a sequence of eight times as many elements.
LEMMA BitsOfBytes ==
  ASSUME NEW sample \in Seq(0..255)
  PROVE  /\ Len(sample) \in Nat /\ Len(Bits(sample)) = 8 * Len(sample)
         /\ DOMAIN Bits(sample) = 1..8 * Len(sample)
<1>1. PICK n \in Nat : n = 8 * Len(sample)
  OBVIOUS
<1>2. DOMAIN Bits(sample) = 1..n
  BY <1>1 DEF Bits
<1>3. \E S : Bits(sample) \in [1..n -> S]
  <2> DEFINE B == Bits(sample)
             S == {B[i] : i \in 1..n}
  <2>1. B = [i \in 1..n |-> B[i]]
    BY <1>1 DEF Bits
  <2> HIDE DEF B
  <2>2. B \in [1..n -> S]
    BY <2>1
  <2> QED  BY <2>2 DEF B
<1>4. Len(Bits(sample)) = n
  BY <1>2, <1>3, LenProperties, SeqDef
<1> QED  BY <1>1, <1>2, <1>4

\* The rarer bit is at least 35% of the bits when the ones are within the band.
LEMMA BandOfOnes ==
  ASSUME NEW n \in Nat, NEW ones \in Nat, ones <= n
  PROVE  InBand(ones, n, 35, 65) <=> 20 * (IF 2 * ones <= n THEN ones ELSE n - ones) >= 7 * n
<1>1. CASE 2 * ones <= n
  BY <1>1 DEF InBand
<1>2. CASE 2 * ones > n
  BY <1>2 DEF InBand
<1> QED  BY <1>1, <1>2

\* The runs within their band of percents.
LEMMA BandOfRuns ==
  ASSUME NEW n \in Nat, NEW runs \in Nat
  PROVE  InBand(runs, n, 30, 70) <=> 10 * runs \in 3 * n..7 * n
BY DEF InBand

\* The tests accept the samples that are healthy by the definition of a run,
\* for every sample and every MIN_SAMPLE_BYTES (health.py 43-96).
THEOREM HealthTestsDecide ==
  ASSUME NEW sample \in Seq(0..255)
  PROVE  RunAllTests(sample) <=> Healthy(sample)
<1> DEFINE bits == Bits(sample)
           ones == Cardinality({i \in 1..8 * Len(sample) : bits[i] = 1})
<1>1. CASE Len(sample) >= MinSampleBytes
  <2>1. PICK n \in Nat \ {0} : n = 8 * Len(sample)
    BY <1>1, BitsOfBytes, MinSampleAssumption
  <2>2. Len(bits) = n /\ DOMAIN bits = 1..n
    BY <2>1, BitsOfBytes
  <2>3. Ones(bits) = ones /\ ones \in Nat /\ ones <= n
    <3> DEFINE O == {i \in 1..n : bits[i] = 1}
    <3>1. Ones(bits) = Cardinality(O) /\ ones = Cardinality(O)
      BY <2>1, <2>2 DEF Ones
    <3>2. IsFiniteSet(1..n) /\ Cardinality(1..n) = n /\ O \in SUBSET (1..n)
      BY FS_Interval
    <3> HIDE DEF O
    <3>3. IsFiniteSet(O) /\ Cardinality(O) <= n
      BY <3>2, FS_Subset
    <3> QED  BY <3>1, <3>3, FS_CardinalityType
  <2>4. Cardinality(MaximalRuns(bits)) = Runs(bits) /\ Runs(bits) \in Nat
    <3> HIDE DEF bits
    <3> QED  BY <2>2, RunsCounted, RunsAreStarts, FS_CardinalityType
  <2>5. RunAllTests(sample) <=> InBand(ones, n, 35, 65) /\ InBand(Runs(bits), n, 30, 70)
    BY <1>1, <2>1, <2>3, Zenon DEF RunAllTests, MonobitFrequencyTest, RunsTest
  <2>6. Healthy(sample) <=> /\ 20 * (IF 2 * ones <= n THEN ones ELSE n - ones) >= 7 * n
                            /\ 10 * Runs(bits) \in 3 * n..7 * n
    BY <1>1, <2>1, <2>4, Zenon DEF Healthy
  <2> HIDE DEF bits, ones
  <2> QED  BY <2>3, <2>4, <2>5, <2>6, BandOfOnes, BandOfRuns
<1>2. CASE ~(Len(sample) >= MinSampleBytes)
  BY <1>2, Zenon DEF RunAllTests, MonobitFrequencyTest, Healthy
<1> QED  BY <1>1, <1>2

-----------------------------------------------------------------------------
(* generate_tef. *)

\* The call goes on until a sample passes: none but the last one drawn did.
DrawnOK ==
  /\ call = "none" => drawn = <<>>
  /\ call = "returned" => Len(drawn) # 0
  /\ call = "raised" => Len(drawn) = MaxResampleAttempts
  /\ \A i \in DOMAIN drawn : RunAllTests(drawn[i]) <=> call = "returned" /\ i = Len(drawn)

\* Every step keeps what is known of the samples (software_shm.py 45-67).
LEMMA DrawnStep ==
  ASSUME ShmTypeOK, DrawnOK, [ShmNext]_shmVars
  PROVE  DrawnOK'
<1>1. CASE GenerateTef
  BY <1>1 DEF GenerateTef, DrawnOK
<1>2. ASSUME NEW sample \in Samples, Attempt(sample)
      PROVE  DrawnOK'
  <2>1. PICK n \in Nat : /\ n = Len(drawn) /\ drawn \in Seq(Samples)
                         /\ DOMAIN drawn = 1..n
    BY DEF ShmTypeOK
  <2>2. /\ drawn' = Append(drawn, sample) /\ call = "sampling"
        /\ call' = IF RunAllTests(sample) THEN "returned" ELSE "sampling"
    BY <1>2 DEF Attempt
  <2>3. /\ Len(drawn') = n + 1 /\ DOMAIN drawn' = 1..n + 1 /\ drawn'[n + 1] = sample
        /\ \A i \in 1..n : drawn'[i] = drawn[i]
    BY <2>1, <2>2
  <2>4. \A i \in 1..n : ~RunAllTests(drawn[i])
    BY <2>1, <2>2 DEF DrawnOK
  <2>5. ASSUME NEW i \in 1..n + 1
        PROVE  RunAllTests(drawn'[i]) <=> call' = "returned" /\ i = n + 1
    <3>1. CASE i = n + 1
      BY <3>1, <2>2, <2>3
    <3>2. CASE i # n + 1
      <4>1. i \in 1..n
        BY <3>2, <2>1
      <4> QED  BY <4>1, <3>2, <2>3, <2>4, Zenon
    <3> QED  BY <3>1, <3>2
  <2> QED  BY <2>1, <2>2, <2>3, <2>5 DEF DrawnOK
<1>3. CASE Exhausted
  BY <1>3 DEF Exhausted, DrawnOK
<1>4. CASE UNCHANGED <<call, drawn>>
  BY <1>4 DEF DrawnOK
<1>5. ASSUME NEW name \in Names, SecureStore(name) \/ ZeroizeName(name)
      PROVE  UNCHANGED <<call, drawn>>
  BY <1>5 DEF SecureStore, ZeroizeName
<1> QED  BY <1>1, <1>2, <1>3, <1>4, <1>5 DEF ShmNext, shmVars

\* generate_tef returns the first healthy one of its samples, and raises
\* RuntimeError only after max_resample_attempts samples none of which was,
\* for all samples and numbers of attempts (software_shm.py 45-57).
THEOREM AlwaysFailsClosed == ShmSpec => []FailsClosed
<1>1. ShmInit => ShmInv /\ DrawnOK
  <2>1. ShmInit => DrawnOK
    BY DEF ShmInit, DrawnOK
  <2> QED  BY <2>1, InitShmInv
<1>2. ShmInv /\ DrawnOK /\ [ShmNext]_shmVars => ShmInv' /\ DrawnOK'
  BY NextShmInv, DrawnStep DEF ShmInv
<1>3. ASSUME ShmInv, DrawnOK
      PROVE  FailsClosed
  <2> DEFINE healthy == {i \in DOMAIN drawn : Healthy(drawn[i])}
  <2>1. PICK n \in Nat : /\ n = Len(drawn) /\ drawn \in Seq(Samples)
                         /\ DOMAIN drawn = 1..n
    BY <1>3 DEF ShmInv, ShmTypeOK
  <2>2. ASSUME NEW i \in DOMAIN drawn
        PROVE  Healthy(drawn[i]) <=> call = "returned" /\ i = n
    <3>1. drawn[i] \in Seq(0..255)
      BY <2>1, SamplesAssumption
    <3> QED  BY <3>1, <2>1, <1>3, HealthTestsDecide DEF DrawnOK
  <2>3. call = "returned" => n \in DOMAIN drawn
    BY <2>1, <1>3 DEF DrawnOK
  <2>4. call = "raised" => n = MaxResampleAttempts
    BY <2>1, <1>3 DEF DrawnOK
  <2>5. (call = "returned" => healthy = {n}) /\ (call = "raised" => healthy = {})
    BY <2>2, <2>3
  <2> QED  BY <2>1, <2>4, <2>5 DEF FailsClosed
<1> QED  BY <1>1, <1>2, <1>3, PTL DEF ShmSpec
=============================================================================
