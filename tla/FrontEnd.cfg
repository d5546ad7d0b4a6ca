\* A call with two samples of two tokens and one with a single token, under one
\* external ID, with an output for every second token.
\* Bounds: one batch of outputs under way.
SPECIFICATION FairSpec
CONSTANTS
  c1 = c1
  c2 = c2
  x1 = x1
  Calls = {c1, c2}
  OutputKinds <- KindsOfCalls
  N <- TwoSamples
  ExternalId <- OneId
  StreamInterval = 2
  MaxTokens <- Lengths
  MaxBatches = 1
CHECK_DEADLOCK FALSE
INVARIANTS
  TypeOK
  DeltasAddUp
  DoneMeansWhole
  NoOrphans
  MapsAgree
PROPERTIES
  EveryCallEnds
