\* Three requests, two of which may run (max_num_seqs = 2).
\* Bounds: three requests, prompts of at most 4 tokens, outputs of at most 3.
SPECIFICATION SchedulerSpec
CONSTANTS
  r1 = r1
  r2 = r2
  r3 = r3
  Req = {r1, r2, r3}
  Policy = "fcfs"
  ArrivalTime <- Arrivals
  Category <- EachItsCategory
  Slo <- SameSlo
  BandWidth = 10
  PromptLen <- Prompts
  MaxTokens <- Outputs
  EncoderStart <- TextOnly
  EncoderTokens <- TextOnly
  StructuredOutput = {}
  MaxModelLen = 6
  NumBlocks = 7
  BlockSize = 2
  MaxNumScheduledTokens = 6
  MaxNumSeqs = 2
  LongPrefillTokenThreshold = 0
  EnableChunkedPrefill = TRUE
  ReserveFullISL = TRUE
  MaxNumEncoderInputTokens = 0
  EncoderCacheSize = 0
  AsyncScheduling = FALSE
  MaxConcurrentBatches = 1
  ClientOps = {}
INVARIANTS
  MaxNumSeqsAssertion
