\* The prefix cache is reset, running requests included.
\* Bounds: three requests, prompts of at most 4 tokens, outputs of at most 3.
SPECIFICATION SchedulerSpec
CONSTANTS
  r1 = r1
  r2 = r2
  r3 = r3
  Req = {r1, r2, r3}
  Policy = "fcfs"
  ArrivalTime <- Arrivals
  Category <- EachItsCategory
  Slo <- SameSlo
  BandWidth = 10
  PromptLen <- Prompts
  MaxTokens <- Outputs
  EncoderStart <- TextOnly
  EncoderTokens <- TextOnly
  StructuredOutput = {}
  MaxModelLen = 6
  NumBlocks = 4
  BlockSize = 2
  MaxNumScheduledTokens = 3
  MaxNumSeqs = 3
  LongPrefillTokenThreshold = 0
  EnableChunkedPrefill = TRUE
  ReserveFullISL = TRUE
  MaxNumEncoderInputTokens = 0
  EncoderCacheSize = 0
  AsyncScheduling = FALSE
  MaxConcurrentBatches = 1
  ClientOps = {"reset"}
INVARIANTS
  NoLostRequest
