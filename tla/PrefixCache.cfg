\* Two requests with the same first four tokens, one of them sampled by the second,
\* and a third, in a pool of three usable blocks, with two batches in flight.
\* Bounds: at most six tokens a request.
SPECIFICATION Spec
CONSTANTS
  r1 = r1
  r2 = r2
  r3 = r3
  Req = {r1, r2, r3}
  Text <- Texts
  PromptLen <- Prompts
  BlockSize = 2
  NumBlocks = 4
  Hashes <- AllHashes
  SkipReading = {}
  ReserveFullISL = TRUE
  Budgets = {2, 3, 6}
  MaxBatches = 2
CHECK_DEADLOCK FALSE
INVARIANTS
  TypeOK
  RefCountsAreExact
  HashesAreExact
  ChainsAreUnbroken
  CommonPrefixIsShared

  
