---------------------------- MODULE DataParallel ----------------------------
(***************************************************************************)
(* The request waves of a data-parallel deployment: the engine cores       *)
(* (DPEngineCoreProc), their coordinator (DPCoordinatorProc) and the       *)
(* front-end clients (DPAsyncMPClient), which share nothing and talk over  *)
(* channels that are ordered one by one and not among each other.          *)
(*                                                                         *)
(* The engines step together or not at all, for each forward pass is a     *)
(* collective operation.  A wave starts when one of them has a request:    *)
(* the others must learn of it, run dummy batches, and find out together,  *)
(* every SyncEvery steps, that nobody has work left.  Pausing and resuming *)
(* stop and restart all of them.                                           *)
(***************************************************************************)
EXTENDS Naturals, Sequences, FiniteSets

CONSTANTS
  Engines,      \* the ranks
  Rank0,        \* the one that reports the end of a wave
  Fronts,       \* the API servers
  Pauser,       \* the one that pauses and resumes
  Requests,
  SyncEvery,    \* steps between two all-reduces (32 in the code)
  Tokens,       \* how many tokens each of them samples
  Modes,        \* modes of pause_scheduler that the client uses
  Ranks,        \* the engines to which a request may be sent
  MaxPauses,    \* bound on the calls of pause_scheduler
  AddPhases,    \* phases of the pausing client in which requests are sent
  AbortPhases,  \* ... and aborted
  Abortable,    \* the requests that may be aborted
  Patient,      \* does the client resume only when no message is under way?
  MaxStats      \* bound on the publications under way to a front end

ASSUME DataParallelAssumption ==
  /\ Rank0 \in Engines
  /\ Pauser \in Fronts
  /\ SyncEvery \in Nat \ {0}
  /\ Tokens \in [Requests -> Nat \ {0}]
  /\ Ranks \in [Requests -> SUBSET Engines]
  /\ Modes \subseteq {"keep", "wait", "abort"}
  /\ MaxPauses \in Nat
  /\ Patient \in BOOLEAN
  /\ MaxStats \in Nat

VARIABLES
  \* engines
  at,            \* "loop", or the collective operation the engine waits in
  wave,          \* current_wave
  running,       \* engines_running
  steps,         \* step_counter, modulo SyncEvery
  pauseState,    \* of the engine's scheduler
  pendingPause,
  ignoring,      \* ignore_start_dp_wave
  callback,      \* is a future of pause_scheduler waiting for the idle state?
  waiting,       \* requests held by the scheduler and not admitted
  admitted,      \* its running requests
  \* the coordinator
  coord,         \* its current_wave and engines_running
  \* front ends
  front,         \* their current_wave and engines_running
  phase,         \* of the client that pauses
  pauses,        \* how often it has
  answered,      \* the engines that answered its last call
  status, left,  \* of each request: progress, tokens to go
  home,          \* reqs_in_flight: the front end and the engine of a request
  \* channels
  inputs,        \* front end to engine
  starts,        \* coordinator to engine: START_DP_WAVE
  notices,       \* engine to coordinator: wave_complete, start_wave
  firstReqs,     \* within a front end, to its stats task: FIRST_REQ
  wakeups,       \* front end to coordinator
  stats          \* coordinator to front end

engineVars == <<at, wave, running, steps, pauseState, pendingPause, ignoring,
                callback, waiting, admitted>>
clientVars == <<phase, pauses, answered, status, left, home>>
channels == <<inputs, starts, notices, firstReqs, wakeups, stats>>
vars == <<engineVars, coord, front, clientVars, channels>>

View == [wave : Nat, running : BOOLEAN]
Statuses == {"new", "sent", "aborting", "done"}
Nowhere == <<>>

Init ==
  /\ at = [e \in Engines |-> "loop"]
  /\ wave = [e \in Engines |-> 0]
  /\ running = [e \in Engines |-> FALSE]
  /\ steps = [e \in Engines |-> 0]
  /\ pauseState = [e \in Engines |-> "UNPAUSED"]
  /\ pendingPause = [e \in Engines |-> FALSE]
  /\ ignoring = [e \in Engines |-> FALSE]
  /\ callback = [e \in Engines |-> FALSE]
  /\ waiting = [e \in Engines |-> {}]
  /\ admitted = [e \in Engines |-> {}]
  /\ coord = [wave |-> 0, running |-> FALSE]
  /\ front = [f \in Fronts |-> [wave |-> 0, running |-> FALSE]]
  /\ phase = "running"
  /\ pauses = 0
  /\ answered = {}
  /\ status = [r \in Requests |-> "new"]
  /\ left = Tokens
  /\ home = [r \in Requests |-> Nowhere]
  /\ inputs = [f \in Fronts |-> [e \in Engines |-> <<>>]]
  /\ starts = [e \in Engines |-> <<>>]
  /\ notices = [e \in Engines |-> <<>>]
  /\ firstReqs = [f \in Fronts |-> <<>>]
  /\ wakeups = [f \in Fronts |-> <<>>]
  /\ stats = [f \in Fronts |-> <<>>]

-----------------------------------------------------------------------------
(* Front ends *)

ToEngine(f, e, message) ==
  inputs' = [inputs EXCEPT ![f][e] = Append(@, message)]

ToAllEngines(f, message) ==
  inputs' = [inputs EXCEPT ![f] = [e \in Engines |-> Append(@[e], message)]]

\* add_request_async.  The load balancer may choose any engine.
SendRequest(f, e, r) ==
  /\ status[r] = "new"
  /\ e \in Ranks[r]
  /\ phase \in AddPhases
  /\ status' = [status EXCEPT ![r] = "sent"]
  /\ home' = [home EXCEPT ![r] = <<f, e>>]
  /\ ToEngine(f, e, [type |-> "ADD", request |-> r, wave |-> front[f].wave])
  /\ firstReqs' = IF front[f].running THEN firstReqs
                  ELSE [firstReqs EXCEPT ![f] = Append(@, e)]
  /\ UNCHANGED <<engineVars, coord, front, phase, pauses, answered, left,
                 starts, notices, wakeups, stats>>

SendAbort(r) ==
  /\ status[r] = "sent"
  /\ r \in Abortable
  /\ phase \in AbortPhases
  /\ status' = [status EXCEPT ![r] = "aborting"]
  /\ ToEngine(home[r][1], home[r][2], [type |-> "ABORT", request |-> r])
  /\ UNCHANGED <<engineVars, coord, front, phase, pauses, answered, left, home,
                 starts, notices, firstReqs, wakeups, stats>>

\* The stats task takes what has arrived from the coordinator, k publications,
\* and keeps the last.
Drain(f, k, view) ==
  /\ stats' = [stats EXCEPT ![f] = SubSeq(@, k + 1, Len(@))]
  /\ front' = [front EXCEPT ![f] = IF k = 0 THEN view ELSE stats[f][k]]

\* The stats task forwards a FIRST_REQ with the wave it knows by now.
ForwardFirstReq(f) ==
  /\ firstReqs[f] # <<>>
  /\ firstReqs' = [firstReqs EXCEPT ![f] = Tail(@)]
  /\ wakeups' = [wakeups EXCEPT ![f] =
       Append(@, [target |-> Head(firstReqs[f]), wave |-> front[f].wave])]
  /\ \E k \in 0..Len(stats[f]) : Drain(f, k, [front[f] EXCEPT !.running = TRUE])
  /\ UNCHANGED <<engineVars, coord, clientVars, inputs, starts, notices>>

ReadStats(f) ==
  /\ \E k \in 1..Len(stats[f]) : Drain(f, k, front[f])
  /\ UNCHANGED <<engineVars, coord, clientVars, inputs, starts, notices,
                 firstReqs, wakeups>>

\* One call at a time, to all engines; the next one when all have answered.
Call(message, during) ==
  /\ phase' = during
  /\ answered' = {}
  /\ ToAllEngines(Pauser, message)
  /\ UNCHANGED <<engineVars, coord, front, status, left, home, starts,
                 notices, firstReqs, wakeups, stats>>

Quiet ==
  /\ \A e \in Engines : starts[e] = <<>> /\ notices[e] = <<>>
  /\ \A f \in Fronts : firstReqs[f] = <<>> /\ wakeups[f] = <<>> /\ stats[f] = <<>>
  /\ \A f \in Fronts, e \in Engines : inputs[f][e] = <<>>

Pause(mode) ==
  /\ phase \in {"running", "paused"}
  /\ pauses < MaxPauses
  /\ Patient => Quiet
  /\ pauses' = pauses + 1
  /\ Call([type |-> "PAUSE", mode |-> mode], "pausing")

Resume ==
  /\ phase = "paused"
  /\ Patient => Quiet
  /\ Call([type |-> "RESUME"], "resuming")
  /\ UNCHANGED pauses

Answer(es) ==
  LET all == answered \union es IN
  IF all = Engines
    THEN /\ answered' = {}
         /\ phase' = IF phase = "pausing" THEN "paused" ELSE "running"
    ELSE /\ answered' = all
         /\ UNCHANGED phase

-----------------------------------------------------------------------------
(* The coordinator *)

Broadcast(w, excluded) ==
  starts' = [e \in Engines |->
               Append(starts[e], [wave |-> w, excluded |-> excluded])]

Publish(view) == stats' = [f \in Fronts |-> Append(stats[f], view)]

\* Slip: the identity is taken for an index.
IndexOfRank(e) == {e}

\* The front end names the engine that has the request by its identity, a byte
\* string, and no engine's index equals a byte string: nobody is excluded.
IndexOfIdentity(e) == {}

HandleWakeup(f) ==
  /\ wakeups[f] # <<>>
  /\ wakeups' = [wakeups EXCEPT ![f] = Tail(@)]
  /\ LET message == Head(wakeups[f])
         excluded == IF message.wave < coord.wave THEN {}
                     ELSE IndexOfIdentity(message.target)
     IN  IF coord.running THEN UNCHANGED <<coord, starts, stats>>
         ELSE /\ coord' = [coord EXCEPT !.running = TRUE]
              /\ Broadcast(coord.wave, excluded)
              /\ Publish(coord')
  /\ UNCHANGED <<engineVars, front, clientVars, inputs, notices, firstReqs>>

\* A wave_complete from rank 0.
CompleteWave(w) ==
  IF coord.wave <= w
    THEN /\ coord' = [wave |-> w + 1, running |-> FALSE]
         /\ Publish(coord')
         /\ UNCHANGED starts
    ELSE UNCHANGED <<coord, starts, stats>>

\* A start_wave from engine e, which got a request of an earlier wave.
StartWave(e, w) ==
  IF w > coord.wave \/ (w = coord.wave /\ ~coord.running)
    THEN /\ coord' = [wave |-> w, running |-> TRUE]
         /\ Broadcast(w, {e})
         /\ Publish(coord')
    ELSE UNCHANGED <<coord, starts, stats>>

HandleNotice(e) ==
  /\ notices[e] # <<>>
  /\ notices' = [notices EXCEPT ![e] = Tail(@)]
  /\ LET notice == Head(notices[e]) IN
     IF notice.type = "complete" THEN CompleteWave(notice.wave)
                                 ELSE StartWave(e, notice.wave)
  /\ UNCHANGED <<engineVars, front, clientVars, inputs, firstReqs, wakeups>>

\* The poll timed out: the state is published as it is.  (To front ends that all
\* know it the publication would change nothing.)
PublishStats ==
  /\ \E f \in Fronts : front[f] # coord
  /\ \A f \in Fronts : Len(stats[f]) < MaxStats
  /\ Publish(coord)
  /\ UNCHANGED <<engineVars, coord, front, clientVars, inputs, starts, notices,
                 firstReqs, wakeups>>

-----------------------------------------------------------------------------
(* The engines: messages, which are handled between two steps *)

\* What the scheduler counts as unfinished, by its pause state.
Unfinished(state, wait, adm) ==
  CASE state = "UNPAUSED"   -> wait \union adm # {}
    [] state = "PAUSED_NEW" -> adm # {}
    [] state = "PAUSED_ALL" -> FALSE

HasUnfinished(e) == Unfinished(pauseState[e], waiting[e], admitted[e])

HasWork(e) == running[e] \/ HasUnfinished(e)

\* The next message of front end f for engine e, which is of type t.
Receive(f, e, t) ==
  /\ at[e] = "loop"
  /\ inputs[f][e] # <<>>
  /\ Head(inputs[f][e]).type = t
  /\ inputs' = [inputs EXCEPT ![f][e] = Tail(@)]

\* Slip: a wave that still runs is announced again, whatever the pause state.
LateForAny(e, message) == message.wave < wave[e]

\* A request of an earlier wave than the last one, which has ended.
Late(e, message) == message.wave < wave[e] /\ ~running[e] /\ pauseState[e] = "UNPAUSED"

HandleAdd(f, e) ==
  /\ Receive(f, e, "ADD")
  /\ LET message == Head(inputs[f][e])
         late == Late(e, message)
     IN  /\ waiting' = [waiting EXCEPT ![e] = @ \union {message.request}]
         /\ wave' = IF message.wave > wave[e]
                      THEN [wave EXCEPT ![e] = message.wave] ELSE wave
         /\ running' = [running EXCEPT ![e] = @ \/ late]
         /\ notices' = IF late
              THEN [notices EXCEPT ![e] =
                      Append(@, [type |-> "start", wave |-> wave[e]])]
              ELSE notices
  /\ UNCHANGED <<at, steps, pauseState, pendingPause, ignoring, callback, admitted,
                 coord, front, clientVars, starts, firstReqs, wakeups, stats>>

\* The front ends get the last outputs of the requests rs.
Done(rs) ==
  /\ status' = [r \in Requests |-> IF r \in rs THEN "done" ELSE status[r]]
  /\ home' = [r \in Requests |-> IF r \in rs THEN Nowhere ELSE home[r]]

\* The scheduler of e forgets the requests rs.
Finish(e, rs) ==
  /\ waiting' = [waiting EXCEPT ![e] = @ \ rs]
  /\ admitted' = [admitted EXCEPT ![e] = @ \ rs]
  /\ Done(rs \intersect (waiting[e] \union admitted[e]))

HandleAbort(f, e) ==
  /\ Receive(f, e, "ABORT")
  /\ Finish(e, {Head(inputs[f][e]).request})
  /\ UNCHANGED <<at, wave, running, steps, pauseState, pendingPause, ignoring,
                 callback, coord, front, phase, pauses, answered, left,
                 starts, notices, firstReqs, wakeups, stats>>

\* pause_scheduler, with clear_cache off.
HandlePause(f, e) ==
  /\ Receive(f, e, "PAUSE")
  /\ LET mode == Head(inputs[f][e]).mode IN
     /\ Finish(e, IF mode = "abort" THEN Requests ELSE {})
     /\ pauseState' = [pauseState EXCEPT ![e] =
                         IF mode = "keep" THEN "PAUSED_ALL" ELSE "PAUSED_NEW"]
  /\ pendingPause' = [pendingPause EXCEPT ![e] = TRUE]
  /\ running' = [running EXCEPT ![e] = TRUE]
  /\ callback' = [callback EXCEPT ![e] = TRUE]
  /\ UNCHANGED <<at, wave, steps, ignoring, coord, front, phase, pauses, answered,
                 left, starts, notices, firstReqs, wakeups, stats>>

ResumeRefused(e) == pendingPause[e] \/ (running[e] /\ ignoring[e])

\* resume_scheduler, up to its all-reduce.
HandleResume(f, e) ==
  /\ Receive(f, e, "RESUME")
  /\ IF ResumeRefused(e) \/ running[e]
       THEN /\ Answer({e})
            /\ UNCHANGED <<at, pauseState, ignoring>>
       ELSE /\ at' = [at EXCEPT ![e] = "resume"]
            /\ pauseState' = [pauseState EXCEPT ![e] = "UNPAUSED"]
            /\ ignoring' = [ignoring EXCEPT ![e] = FALSE]
            /\ UNCHANGED <<phase, answered>>
  /\ UNCHANGED <<wave, running, steps, pendingPause, callback, waiting, admitted,
                 coord, front, pauses, status, left, home, starts, notices,
                 firstReqs, wakeups, stats>>

\* Slip: also while the engines are to stay still.
ObeysAlways(e, message) == e \notin message.excluded /\ message.wave >= wave[e]

\* START_DP_WAVE
Obeys(e, message) ==
  ~ignoring[e] /\ e \notin message.excluded /\ message.wave >= wave[e]

HandleStart(e) ==
  /\ at[e] = "loop"
  /\ starts[e] # <<>>
  /\ starts' = [starts EXCEPT ![e] = Tail(@)]
  /\ LET message == Head(starts[e])
         obey == Obeys(e, message)
     IN  /\ wave' = IF obey THEN [wave EXCEPT ![e] = message.wave] ELSE wave
         /\ running' = [running EXCEPT ![e] = @ \/ obey]
  /\ UNCHANGED <<at, steps, pauseState, pendingPause, ignoring, callback, waiting,
                 admitted, coord, front, clientVars, inputs, notices, firstReqs,
                 wakeups, stats>>

\* The engine has no work: it answers the pauses that waited for that.
AnswerPause(e) ==
  /\ at[e] = "loop"
  /\ ~HasWork(e)
  /\ callback[e]
  /\ callback' = [callback EXCEPT ![e] = FALSE]
  /\ Answer({e})
  /\ UNCHANGED <<at, wave, running, steps, pauseState, pendingPause, ignoring, waiting,
                 admitted, coord, front, pauses, status, left, home, channels>>

-----------------------------------------------------------------------------
(* The engines: steps *)

\* The engine enters a forward pass, of its requests or of a dummy batch.
BeginStep(e) ==
  /\ at[e] = "loop"
  /\ HasWork(e)
  /\ at' = [at EXCEPT ![e] = "forward"]
  /\ UNCHANGED <<wave, running, steps, pauseState, pendingPause, ignoring, callback,
                 waiting, admitted, coord, front, clientVars, channels>>

\* Aborts that arrive during the pass are processed before its outputs (and
\* once more when their turn comes in the input queue).
AbortDuringStep(f, e, r) ==
  /\ at[e] = "forward"
  /\ r \in waiting[e] \union admitted[e]
  /\ \E i \in DOMAIN inputs[f][e] : inputs[f][e][i] = [type |-> "ABORT", request |-> r]
  /\ Finish(e, {r})
  /\ UNCHANGED <<at, wave, running, steps, pauseState, pendingPause, ignoring,
                 callback, coord, front, phase, pauses, answered, left,
                 channels>>

\* The requests in the batch of engine e.
Batch(e) ==
  CASE pauseState[e] = "UNPAUSED"   -> waiting[e] \union admitted[e]
    [] pauseState[e] = "PAUSED_NEW" -> admitted[e]
    [] pauseState[e] = "PAUSED_ALL" -> {}

\* Slip: the counter is not taken modulo SyncEvery.
NextStepUnbounded(n) == n + 1

NextStep(n) == (n + 1) % SyncEvery

\* All ranks are in the pass: it ends, each request of it has one more token,
\* and the ranks go on to the all-reduce if it is time for it.
EndForward ==
  /\ at = [e \in Engines |-> "forward"]
  /\ LET batches == UNION {Batch(e) : e \in Engines}
         ended == {r \in batches : left[r] = 1}
     IN  /\ left' = [r \in Requests |-> IF r \in batches \ ended THEN left[r] - 1
                                        ELSE left[r]]
         /\ Done(ended)
         /\ waiting' = [e \in Engines |-> waiting[e] \ Batch(e)]
         /\ admitted' = [e \in Engines |-> (admitted[e] \union Batch(e)) \ ended]
  /\ steps' = [e \in Engines |-> NextStep(steps[e])]
  /\ at' = [e \in Engines |-> IF steps'[e] = 0 THEN "sync" ELSE "loop"]
  /\ running' = [e \in Engines |-> running[e] \/ steps'[e] # 0]
  /\ UNCHANGED <<wave, pauseState, pendingPause, ignoring, callback, coord, front,
                 phase, pauses, answered, channels>>

\* Slip: only the rank that reports the wave counts it.
WaveAfterRank0(e) == IF e = Rank0 THEN wave[e] + 1 ELSE wave[e]

WaveAfter(e) == wave[e] + 1

\* sync_dp_state and what follows it.
Sync ==
  /\ at = [e \in Engines |-> "sync"]
  /\ at' = [e \in Engines |-> "loop"]
  /\ LET pausers == {e \in Engines : pendingPause[e]}
         consensus == pausers = Engines
         unfinished == \/ \E e \in Engines : HasUnfinished(e)
                       \/ pausers \notin {{}, Engines}
     IN  /\ ignoring' = [e \in Engines |-> ignoring[e] \/ consensus]
         /\ pendingPause' = [e \in Engines |-> pendingPause[e] /\ ~consensus]
         /\ running' = [e \in Engines |-> unfinished]
         /\ wave' = [e \in Engines |-> IF unfinished THEN wave[e] ELSE WaveAfter(e)]
         /\ notices' = IF unfinished THEN notices
              ELSE [notices EXCEPT ![Rank0] =
                      Append(@, [type |-> "complete", wave |-> wave[Rank0]])]
  /\ UNCHANGED <<steps, pauseState, callback, waiting, admitted, coord, front,
                 clientVars, inputs, starts, firstReqs, wakeups, stats>>

\* Slip: the all-reduce is not looked at.
RestartsAlone(e) == HasUnfinished(e)

Restarts(e) == \E f \in Engines : HasUnfinished(f)

\* All ranks are in the all-reduce of resume_scheduler.
EndResume ==
  /\ at = [e \in Engines |-> "resume"]
  /\ at' = [e \in Engines |-> "loop"]
  /\ running' = [e \in Engines |-> running[e] \/ Restarts(e)]
  /\ Answer(Engines)
  /\ UNCHANGED <<wave, steps, pauseState, pendingPause, ignoring, callback, waiting,
                 admitted, coord, front, pauses, status, left, home, channels>>

-----------------------------------------------------------------------------
\* A message for engine e is handled.
Handle(e) ==
  \/ \E f \in Fronts : \/ HandleAdd(f, e)   \/ HandleAbort(f, e)
                       \/ HandlePause(f, e) \/ HandleResume(f, e)
  \/ HandleStart(e)

Engine(e) == Handle(e) \/ AnswerPause(e) \/ BeginStep(e)

Together == EndForward \/ Sync \/ EndResume

\* What goes on by itself, in one of the processes.
Progress ==
  \/ \E f \in Fronts : ForwardFirstReq(f) \/ ReadStats(f) \/ HandleWakeup(f)
  \/ \E e \in Engines : HandleNotice(e) \/ Engine(e)
  \/ Together

\* What the users do, what clocks do, and what overtakes the input queue.
Environment ==
  \/ \E f \in Fronts, e \in Engines, r \in Requests : SendRequest(f, e, r)
  \/ \E r \in Requests : SendAbort(r)
  \/ \E mode \in Modes : Pause(mode)
  \/ Resume
  \/ PublishStats
  \/ \E f \in Fronts, e \in Engines, r \in Requests : AbortDuringStep(f, e, r)

Next == Progress \/ Environment

\* The processes do not all stop, and an engine does not step for ever without
\* taking a message that has arrived: each iteration of its loop empties the
\* input queue.
Fairness ==
  /\ WF_vars(Progress)
  /\ \A e \in Engines : SF_vars(Handle(e))

Spec == Init /\ [][Next]_vars /\ Fairness

-----------------------------------------------------------------------------
Messages ==
  [type : {"ADD"}, request : Requests, wave : Nat]
    \union [type : {"ABORT"}, request : Requests]
    \union [type : {"PAUSE"}, mode : Modes]
    \union [type : {"RESUME"}]

Notices == [type : {"complete", "start"}, wave : Nat]

EngineTypes ==
  /\ at \in [Engines -> {"loop", "forward", "sync", "resume"}]
  /\ wave \in [Engines -> Nat]
  /\ running \in [Engines -> BOOLEAN]
  /\ steps \in [Engines -> 0..SyncEvery - 1]
  /\ pauseState \in [Engines -> {"UNPAUSED", "PAUSED_NEW", "PAUSED_ALL"}]
  /\ pendingPause \in [Engines -> BOOLEAN]
  /\ ignoring \in [Engines -> BOOLEAN]
  /\ callback \in [Engines -> BOOLEAN]
  /\ waiting \in [Engines -> SUBSET Requests]
  /\ admitted \in [Engines -> SUBSET Requests]

ClientTypes ==
  /\ coord \in View
  /\ front \in [Fronts -> View]
  /\ phase \in {"running", "pausing", "paused", "resuming"}
  /\ pauses \in 0..MaxPauses
  /\ answered \in SUBSET Engines
  /\ status \in [Requests -> Statuses]
  /\ left \in [Requests -> Nat \ {0}]
  /\ home \in [Requests -> (Fronts \X Engines) \union {Nowhere}]

ChannelTypes ==
  /\ inputs \in [Fronts -> [Engines -> Seq(Messages)]]
  /\ starts \in [Engines -> Seq([wave : Nat, excluded : SUBSET Engines])]
  /\ notices \in [Engines -> Seq(Notices)]
  /\ firstReqs \in [Fronts -> Seq(Engines)]
  /\ wakeups \in [Fronts -> Seq([target : Engines, wave : Nat])]
  /\ stats \in [Fronts -> Seq(View)]

\* The types of the state of all processes and of what is in the channels.
TypeOK == EngineTypes /\ ClientTypes /\ ChannelTypes

\* The engines always count the same wave, and neither the coordinator nor a
\* front end is ever ahead of them, although each process learns of the end of a
\* wave from another channel; so an engine never jumps to the wave of a request
\* or of a START_DP_WAVE (the two branches of the code that do so are for
\* engines that join later), and a late request is always recognised as late.
WavesInOrder ==
  /\ \A e, d \in Engines : wave[e] = wave[d]
  /\ \A e \in Engines : coord.wave <= wave[e]
  /\ \A f \in Fronts : front[f].wave <= coord.wave

\* From the moment all engines have answered a pause until all have met in the
\* all-reduce of resume_scheduler no engine starts a step, whatever requests and
\* START_DP_WAVE messages arrive: the caller may sleep, load weights or
\* reconfigure, and no engine is caught in a forward pass by a barrier.
PausedMeansStill ==
  /\ phase = "paused" => \A e \in Engines : at[e] = "loop" /\ ~HasWork(e)
  /\ phase = "resuming" =>
       \A e \in Engines : \/ at[e] = "loop" /\ ~HasWork(e)
                          \/ at[e] = "resume" /\ ~running[e]

\* When no message is under way any more and an engine waits in a collective
\* operation, the others are in it too or about to step: nobody is left alone in
\* a forward pass because a START_DP_WAVE was not sent, was ignored, or excluded
\* an engine whose request has been aborted.
NobodyWaitsInVain ==
  Quiet => \A e, d \in Engines :
    at[e] # "loop" => at[d] = at[e] \/ (at[e] = "forward" /\ HasWork(d))

C == INSTANCE Collectives
       WITH Kinds <- {"forward", "sync", "resume"}, Loop <- "loop"

\* The engines implement the discipline of collective operations: they never
\* wait in two different ones (the forward pass, the all-reduce every SyncEvery
\* steps, the one of resume_scheduler), and whoever waits is joined.
Lockstep == C!Spec

\* Every request that is sent finishes or is aborted, unless the client keeps the
\* engines paused: the engine that has it never waits for ever for the others to
\* be woken, be it through the front end, the coordinator or itself.
RequestsAreServed ==
  \A r \in Requests :
    status[r] \in {"sent", "aborting"} ~> status[r] = "done" \/ phase = "paused"
=============================================================================
