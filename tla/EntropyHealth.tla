----------------------------- MODULE EntropyHealth -----------------------------
(***************************************************************************)
(* The entropy health tests of backend/shm/health.py: the frequency of the  *)
(* 1 bits and the number of runs of a sample, each in a band of percents of *)
(* its number of bits.  A sample is a sequence of bytes.                    *)
(***************************************************************************)
EXTENDS Naturals, Sequences, FiniteSets

CONSTANT MinSampleBytes    \* MIN_SAMPLE_BYTES: a shorter sample fails

ASSUME MinSampleAssumption == MinSampleBytes \in Nat \ {0}

\* The bits of the sample, most significant bit of each byte first.
Bits(sample) ==
  [i \in 1..8 * Len(sample) |->
    (sample[(i - 1) \div 8 + 1] \div 2^(7 - ((i - 1) % 8))) % 2]

\* Faulty variant: a band without its end points.
InOpenBand(count, n, low, high) == low * n < 100 * count /\ 100 * count < high * n

\* low/100 <= count/n <= high/100.  In the code both sides are doubles; each
\* is the rounded value of its fraction, and rounding keeps <= and =.
InBand(count, n, low, high) == low * n <= 100 * count /\ 100 * count <= high * n

Ones(bits) == Cardinality({i \in DOMAIN bits : bits[i] = 1})

\* One run to begin with and one more for each bit unlike the one before.
Runs(bits) == 1 + Cardinality({i \in 2..Len(bits) : bits[i] # bits[i - 1]})

MonobitFrequencyTest(sample) ==
  /\ Len(sample) >= MinSampleBytes
  /\ InBand(Ones(Bits(sample)), 8 * Len(sample), 35, 65)

RunsTest(sample) ==
  /\ Len(sample) >= MinSampleBytes
  /\ InBand(Runs(Bits(sample)), 8 * Len(sample), 30, 70)

RunAllTests(sample) == MonobitFrequencyTest(sample) /\ RunsTest(sample)

-----------------------------------------------------------------------------
(* What the tests are meant to decide, from the definition of a run.       *)

\* The maximal stretches of equal bits, each as its first and last position.
MaximalRuns(bits) ==
  {r \in (DOMAIN bits) \X (DOMAIN bits) :
    /\ r[1] <= r[2]
    /\ \A i \in r[1]..r[2] : bits[i] = bits[r[1]]
    /\ r[1] > 1 => bits[r[1] - 1] # bits[r[1]]
    /\ r[2] < Len(bits) => bits[r[2] + 1] # bits[r[2]]}

\* Long enough, the rarer bit is at least 35% of the bits, and the runs are
\* between 30% and 70% of them.
Healthy(sample) ==
  LET n     == 8 * Len(sample)
      bits  == Bits(sample)
      ones  == Cardinality({i \in 1..n : bits[i] = 1})
      rarer == IF 2 * ones <= n THEN ones ELSE n - ones
      runs  == Cardinality(MaximalRuns(bits))
  IN /\ Len(sample) >= MinSampleBytes
     /\ 20 * rarer >= 7 * n
     /\ 10 * runs \in 3 * n..7 * n
=============================================================================
