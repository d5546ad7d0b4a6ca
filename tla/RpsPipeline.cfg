\* Two batches in flight without placeholders (pipeline parallelism), text
\* requests, a pool of three usable blocks for up to eleven tokens, and priorities
\* that change from step to step in every way the `rps' policy can change them:
\* preemption in both of its forms.  The steps of an engine with one batch at a
\* time are among those of this one.
\* Bounds: three requests, prompts of at most 4 tokens, outputs of at most 3.
SPECIFICATION SchedulerSpec
CONSTANTS
  r1 = r1
  r2 = r2
  r3 = r3
  Req = {r1, r2, r3}
  Policy = "rps"
  ArrivalTime <- Arrivals
  Category <- EachItsCategory
  Slo <- SameSlo
  BandWidth = 10
  PromptLen <- Prompts
  MaxTokens <- Outputs
  EncoderStart <- TextOnly
  EncoderTokens <- TextOnly
  StructuredOutput = {}
  MaxModelLen = 6
  NumBlocks = 4
  BlockSize = 2
  MaxNumScheduledTokens = 3
  MaxNumSeqs = 3
  LongPrefillTokenThreshold = 0
  EnableChunkedPrefill = TRUE
  ReserveFullISL = TRUE
  MaxNumEncoderInputTokens = 0
  EncoderCacheSize = 0
  AsyncScheduling = FALSE
  MaxConcurrentBatches = 2
  ClientOps = {"abort"}
INVARIANTS
  TypeOK
  NoLostRequest
  IndicesAreExact
  NoAssertionFailure
  ScheduledAreServable
  NoEmptyStep
  CachesAreConsistent
  ResumedHasNothingInFlight
PROPERTIES
  MostUrgentKeepsRunning
