CONSTANTS
  MinSampleBytes = 5
  Samples <- MCSamples
  MaxResampleAttempts = 3
  Names = {"tef", "skS"}
  MaxStores = 3
SPECIFICATION ShmSpec
INVARIANTS
  ShmTypeOK
  FailsClosed
  OnlyReplacedSurvive
