\* Requests with images of 3, 2 and 4 tokens under "catfcfs"; the budget of a step,
\* the encoder budget and the encoder cache hold 3 tokens each, so the third is
\* ignored.
\* Bounds: three requests, prompts of at most 4 tokens, outputs of at most 3.
SPECIFICATION SchedulerSpec
CONSTANTS
  r1 = r1
  r2 = r2
  r3 = r3
  Req = {r1, r2, r3}
  Policy = "catfcfs"
  ArrivalTime <- Arrivals
  Category <- UrgentLast
  Slo <- SameSlo
  BandWidth = 10
  PromptLen <- LongThirdPrompt
  MaxTokens <- Outputs
  EncoderStart <- ImageStarts
  EncoderTokens <- ImagesOneTooLarge
  StructuredOutput = {}
  MaxModelLen = 6
  NumBlocks = 7
  BlockSize = 2
  MaxNumScheduledTokens = 3
  MaxNumSeqs = 3
  LongPrefillTokenThreshold = 0
  EnableChunkedPrefill = TRUE
  ReserveFullISL = TRUE
  MaxNumEncoderInputTokens = 3
  EncoderCacheSize = 3
  AsyncScheduling = FALSE
  MaxConcurrentBatches = 1
  ClientOps = {"abort"}
INVARIANTS
  ScheduledAreServable
  CachesAreConsistent
  
  NoLostRequest
  RolesMatchStatus
