\* Two engines, one front end, two requests for one engine each, one of which may be
\* aborted, and one pause and resumption; an all-reduce every second step.
\* Bounds: requests are sent while the engines run or are paused, the client pauses
\* and resumes only when nothing is under way, one publication of the coordinator at
\* a time.
SPECIFICATION Spec
CONSTANTS
  Patient = TRUE
  Engines = {e1, e2}
  Rank0 = e1
  Fronts = {f1}
  Pauser = f1
  e1 = e1
  e2 = e2
  q1 = q1
  q2 = q2
  Requests = {q1, q2}
  SyncEvery = 2
  Ranks <- OneForEachEngine
  Tokens <- OneAndTwo
  Modes = {"keep","wait"}
  MaxPauses = 1
  AddPhases = {"running","paused"}
  AbortPhases = {"running"}
  Abortable = {q1}
  MaxStats = 1
CHECK_DEADLOCK FALSE
INVARIANTS
  TypeOK
  WavesInOrder
  
  NobodyWaitsInVain
PROPERTIES
  
  RequestsAreServed
