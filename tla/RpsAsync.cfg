\* As RpsPipeline, with asynchronous scheduling (placeholders for the tokens in
\* flight), and with pauses, resumptions and resets of the prefix cache at any moment.
\* Bounds: three requests, prompts of at most 4 tokens, outputs of at most 3.
SPECIFICATION FairSchedulerSpec
CONSTANTS
  r1 = r1
  r2 = r2
  r3 = r3
  Req = {r1, r2, r3}
  Policy = "rps"
  ArrivalTime <- Arrivals
  Category <- EachItsCategory
  Slo <- SameSlo
  BandWidth = 10
  PromptLen <- Prompts
  MaxTokens <- Outputs
  EncoderStart <- TextOnly
  EncoderTokens <- TextOnly
  StructuredOutput = {}
  MaxModelLen = 6
  NumBlocks = 4
  BlockSize = 2
  MaxNumScheduledTokens = 3
  MaxNumSeqs = 3
  LongPrefillTokenThreshold = 0
  EnableChunkedPrefill = TRUE
  ReserveFullISL = TRUE
  MaxNumEncoderInputTokens = 0
  EncoderCacheSize = 0
  AsyncScheduling = TRUE
  MaxConcurrentBatches = 2
  ClientOps = {"pause_all", "pause_new", "reset"}
INVARIANTS
  RolesMatchStatus
  NoPriorityInversion
  PlaceholdersMatchInFlight
  NoOvershoot
  CountersStayInRange
PROPERTIES
  FinishedAreFlushed
