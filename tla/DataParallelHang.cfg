\* As DataParallel, with a request that is aborted while the engines are paused.
SPECIFICATION Spec
CONSTANTS
  Patient = TRUE
  Engines = {e1, e2}
  Rank0 = e1
  Fronts = {f1}
  Pauser = f1
  e1 = e1
  e2 = e2
  q1 = q1
  q2 = q2
  Requests = {q1, q2}
  SyncEvery = 1
  Ranks <- OneForEachEngine
  Tokens <- OneEach
  Modes = {"keep"}
  MaxPauses = 1
  AddPhases = {"running","paused"}
  AbortPhases = {"paused"}
  Abortable = {q1}
  MaxStats = 0
CHECK_DEADLOCK FALSE
PROPERTIES
  RequestsAreServed
