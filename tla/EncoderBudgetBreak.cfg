\* An urgent request finds the encoder cache held by the image of a less urgent
\* one that is running.
\* Bounds: three requests, prompts of at most 4 tokens, outputs of at most 3.
SPECIFICATION SchedulerSpec
CONSTANTS
  r1 = r1
  r2 = r2
  r3 = r3
  Req = {r1, r2, r3}
  Policy = "rps"
  ArrivalTime <- Arrivals
  Category <- EachItsCategory
  Slo <- SameSlo
  BandWidth = 10
  PromptLen <- Prompts
  MaxTokens <- Outputs
  EncoderStart <- ImageStarts
  EncoderTokens <- Images
  StructuredOutput = {}
  MaxModelLen = 6
  NumBlocks = 7
  BlockSize = 2
  MaxNumScheduledTokens = 3
  MaxNumSeqs = 3
  LongPrefillTokenThreshold = 0
  EnableChunkedPrefill = TRUE
  ReserveFullISL = TRUE
  MaxNumEncoderInputTokens = 3
  EncoderCacheSize = 3
  AsyncScheduling = FALSE
  MaxConcurrentBatches = 1
  ClientOps = {}
INVARIANTS
  LastRunningIdxAssertion
