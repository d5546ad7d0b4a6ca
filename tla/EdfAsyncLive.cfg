\* Progress under "edf" and asynchronous scheduling, with deadlines that reverse
\* the order of arrival of two of the requests, long prompts cut to 3 tokens a step
\* but not to the budget (chunked prefill disabled), and aborts.
\* Bounds: three requests, prompts of at most 4 tokens, outputs of at most 3.
SPECIFICATION FairSchedulerSpec
CONSTANTS
  r1 = r1
  r2 = r2
  r3 = r3
  Req = {r1, r2, r3}
  Policy = "edf"
  ArrivalTime <- Arrivals
  Category <- EachItsCategory
  Slo <- Slos
  BandWidth = 10
  PromptLen <- LongerPrompts
  MaxTokens <- Outputs
  EncoderStart <- TextOnly
  EncoderTokens <- TextOnly
  StructuredOutput = {}
  MaxModelLen = 6
  NumBlocks = 5
  BlockSize = 2
  MaxNumScheduledTokens = 7
  MaxNumSeqs = 3
  LongPrefillTokenThreshold = 3
  EnableChunkedPrefill = FALSE
  ReserveFullISL = TRUE
  MaxNumEncoderInputTokens = 0
  EncoderCacheSize = 0
  AsyncScheduling = TRUE
  MaxConcurrentBatches = 2
  ClientOps = {"abort"}
PROPERTIES
  ScheduleTerminates
  EveryRequestLeaves
