----------------------------- MODULE Scheduler ------------------------------
(***************************************************************************)
(* The scheduler of an RPS-Serve engine core                               *)
(* (vllm/v1/core/sched/scheduler.py and async_scheduler.py) and the part   *)
(* of the engine loop that drives it (vllm/v1/engine/core.py).             *)
(*                                                                         *)
(* schedule() is modelled one iteration of its loop at a time: `step' holds *)
(* its local variables and step.phase says where it is.  The engine core   *)
(* is a single thread, so nothing else happens while a schedule() is under *)
(* way; between two of them requests arrive, are aborted, and the outputs  *)
(* of the batches in flight come back.                                     *)
(***************************************************************************)
EXTENDS SLOExpirationManager

CONSTANTS
  PromptLen,                \* [Req -> Nat \ {0}]
  MaxTokens,                \* [Req -> Nat \ {0}], max_tokens
  EncoderStart,             \* [Req -> Nat], offset of the image or video
  EncoderTokens,            \* [Req -> Nat], its length; 0 for a text request
  StructuredOutput,         \* requests that wait for a compiled grammar
  MaxModelLen,
  NumBlocks,                \* kv_cache_config.num_blocks, null block included
  BlockSize,
  MaxNumScheduledTokens,
  MaxNumSeqs,
  LongPrefillTokenThreshold,  \* 0: no threshold
  EnableChunkedPrefill,
  ReserveFullISL,             \* scheduler_reserve_full_isl
  MaxNumEncoderInputTokens,
  EncoderCacheSize,
  AsyncScheduling,
  MaxConcurrentBatches,       \* 1: step(); more: step_with_batch_queue()
  ClientOps                   \* which of the operations below clients use

ASSUME SchedulerAssumption ==
  /\ PromptLen \in [Req -> Nat \ {0}]
  /\ MaxTokens \in [Req -> Nat \ {0}]
  /\ EncoderStart \in [Req -> Nat]
  /\ EncoderTokens \in [Req -> Nat]
  /\ StructuredOutput \subseteq Req
  /\ {MaxModelLen, NumBlocks, BlockSize, MaxNumScheduledTokens, MaxNumSeqs,
      MaxConcurrentBatches} \subseteq Nat \ {0}
  /\ {LongPrefillTokenThreshold, MaxNumEncoderInputTokens,
      EncoderCacheSize} \subseteq Nat
  /\ {EnableChunkedPrefill, ReserveFullISL, AsyncScheduling} \subseteq BOOLEAN
  /\ ClientOps \subseteq {"abort", "pause_new", "pause_all", "reset"}
  \* the frontend refuses a prompt that leaves no room for an output token
  /\ \A r \in Req : PromptLen[r] < MaxModelLen
  \* compute_mm_encoder_budget: for a multimodal model each of the two is at
  \* least max_num_batched_tokens
  /\ \/ /\ MaxNumEncoderInputTokens = 0
        /\ \A r \in Req : EncoderTokens[r] = 0
     \/ /\ MaxNumEncoderInputTokens >= MaxNumScheduledTokens
        /\ EncoderCacheSize >= MaxNumScheduledTokens
  \* check_enough_kv_cache_memory, at startup
  /\ MaxModelLen <= NumBlocks * BlockSize

VARIABLES
  \* the requests
  status, num_computed_tokens, num_output_tokens, num_output_placeholders,
  async_tokens_to_discard, priority,
  \* KVCacheManager and EncoderCacheManager, as far as the scheduler relies
  \* on them: blocks held, and requests that reference a cached image
  req_blocks, encoder_refs,
  \* the queues
  running, waiting, skipped_waiting, finished_req_ids,
  \* the rest of the scheduler's state
  pause_state, prev_step_scheduled_req_ids,
  \* batches in flight, oldest first
  batch_queue,
  \* the local variables of schedule()
  step,
  \* the assertion that stopped the engine, if one did
  failed_assertion

requestVars == <<status, num_computed_tokens, num_output_tokens,
                 num_output_placeholders, async_tokens_to_discard, priority>>
cacheVars == <<req_blocks, encoder_refs>>
queueVars == <<running, waiting, skipped_waiting, finished_req_ids>>
engineVars == <<pause_state, prev_step_scheduled_req_ids, batch_queue>>
vars == <<queueManagerVars, requestVars, cacheVars, queueVars, engineVars,
          step, failed_assertion>>

-----------------------------------------------------------------------------
(* Requests.                                                               *)

Statuses == {"UNSEEN", "WAITING", "WAITING_FOR_STRUCTURED_OUTPUT_GRAMMAR",
             "RUNNING", "PREEMPTED", "FINISHED_STOPPED",
             "FINISHED_LENGTH_CAPPED", "FINISHED_ABORTED", "FINISHED_IGNORED"}

FinishedStatuses == {"FINISHED_STOPPED", "FINISHED_LENGTH_CAPPED",
                     "FINISHED_ABORTED", "FINISHED_IGNORED"}

\* The keys of self.requests.  A request that is ignored stays in it.
requests == { r \in Req : status[r] \notin
                {"UNSEEN"} \cup (FinishedStatuses \ {"FINISHED_IGNORED"}) }

Unfinished == { r \in requests : status[r] # "FINISHED_IGNORED" }

NumTokens(r) == PromptLen[r] + num_output_tokens[r]

\* Slip: the check is missing.
NeverInFlight(r) == FALSE

\* No further step can be needed: the tokens in flight reach max_tokens.
MaxTokensInFlight(r) ==
  /\ num_output_placeholders[r] > 0
  /\ num_computed_tokens[r] + 2 - num_output_placeholders[r]
       >= PromptLen[r] + MaxTokens[r]

-----------------------------------------------------------------------------
(* KVCacheManager and EncoderCacheManager.                                 *)

\* Slip: rounded down.
Floor(n, d) == n \div d

Ceil(n, d) == (n + d - 1) \div d
LeastOf(m, n) == IF m <= n THEN m ELSE n

\* Slip: one more block kept back.
NumFreeBlocksAboveWatermark == NumBlocks - 2 - SumFunction(req_blocks)

\* One block, the null block, is never handed out.
NumFreeBlocks == NumBlocks - 1 - SumFunction(req_blocks)

BlocksMissing(r, n) ==
  LET missing == Ceil(n, BlockSize) - req_blocks[r]
  IN  IF missing > 0 THEN missing ELSE 0

\* allocate_slots returns blocks rather than None.
CanAllocate(r, num_new_tokens, full_sequence_must_fit) ==
  /\ full_sequence_must_fit => BlocksMissing(r, NumTokens(r)) <= NumFreeBlocks
  /\ BlocksMissing(r, num_computed_tokens[r] + num_new_tokens) <= NumFreeBlocks

AllocateSlots(r, num_new_tokens) ==
  req_blocks' = [req_blocks EXCEPT ![r] =
    @ + BlocksMissing(r, num_computed_tokens[r] + num_new_tokens)]

\* The images that no request references can be evicted to make room.
NumFreeableSlots ==
  EncoderCacheSize - SumFunctionOnSet(EncoderTokens, encoder_refs)

\* Slips: the tokens are not cut before an image that is not computed; the room
\* in the encoder cache is not looked at.
EncoderOutcomesUncut(r, num_new_tokens) ==
  {[num_new_tokens |-> num_new_tokens, compute |-> FALSE, hit |-> r \in encoder_refs]}

EncoderOutcomesUnbounded(r, num_new_tokens) ==
  {[num_new_tokens |-> num_new_tokens, compute |-> EncoderTokens[r] > 0,
    hit |-> r \in encoder_refs]}

\* _try_schedule_encoder_inputs, for the one image of request r: the possible
\* values of the number of tokens, whether the image is computed in this step,
\* and whether r references its cache entry.  A cached image that nobody
\* references may or may not have survived eviction.
EncoderOutcomes(r, num_new_tokens) ==
  LET computed == num_computed_tokens[r]
      start == EncoderStart[r]
      unchanged == [num_new_tokens |-> num_new_tokens, compute |-> FALSE,
                    hit |-> r \in encoder_refs]
      untouched == \/ num_new_tokens = 0
                   \/ EncoderTokens[r] = 0
                   \/ start >= computed + num_new_tokens
                   \/ start + EncoderTokens[r] <= computed
                   \/ r \in encoder_refs
      fits == EncoderTokens[r] <= NumFreeableSlots
  IN  IF untouched THEN {unchanged}
      ELSE (IF fits THEN {[unchanged EXCEPT !.hit = TRUE]} ELSE {})
           \cup
           (IF fits /\ EncoderTokens[r] <= step.encoder_compute_budget
            THEN {[unchanged EXCEPT !.compute = TRUE]}
            ELSE {[unchanged EXCEPT !.num_new_tokens =
                     IF computed < start THEN start - computed ELSE 0]})

-----------------------------------------------------------------------------
(* The local variables of schedule().  num_scheduled_tokens is 0 for a     *)
(* request that is not in the dict; request, num_new_tokens and            *)
(* compute_encoder belong to the iteration under way.                      *)

NoRequest == "none"

Idle == [phase |-> "idle", req_index |-> 0, token_budget |-> 0,
         encoder_compute_budget |-> 0,
         num_scheduled_tokens |-> [r \in Req |-> 0],
         scheduled_running_reqs |-> {}, scheduled_resumed_reqs |-> {},
         scheduled_encoder_inputs |-> {}, preempted_req_ids |-> {},
         request |-> NoRequest, num_new_tokens |-> 0,
         compute_encoder |-> FALSE]

ScheduledReqs == { r \in Req : step.num_scheduled_tokens[r] > 0 }
TotalNumScheduledTokens == SumFunction(step.num_scheduled_tokens)

Phase(phase) == step.phase = phase /\ failed_assertion = "none"

\* Slip: `continue' without moving on.
NotPassedOver(local) == local

\* The locals, once the request in hand is passed over.
PassedOver(local) == [local EXCEPT !.req_index = @ + 1]

\* f with the entries of S set back to 0.
Zeroed(f, S) == [r \in Req |-> IF r \in S THEN 0 ELSE f[r]]

-----------------------------------------------------------------------------
SchedulerInit ==
  /\ QueueManagerInit
  /\ status = [r \in Req |-> "UNSEEN"]
  /\ num_computed_tokens = [r \in Req |-> 0]
  /\ num_output_tokens = [r \in Req |-> 0]
  /\ num_output_placeholders = [r \in Req |-> 0]
  /\ async_tokens_to_discard = [r \in Req |-> 0]
  /\ priority = [r \in Req |-> 0]
  /\ req_blocks = [r \in Req |-> 0]
  /\ encoder_refs = {}
  /\ running = {}
  /\ waiting = {}
  /\ skipped_waiting = {}
  /\ finished_req_ids = {}
  /\ pause_state = "UNPAUSED"
  /\ prev_step_scheduled_req_ids = {}
  /\ batch_queue = <<>>
  /\ step = Idle
  /\ failed_assertion = "none"

\* _free_request, for the requests of S: the object is forgotten with all its
\* attributes, and the workers are told in the next step.
FreeRequests(S) ==
  /\ finished_req_ids' = finished_req_ids \cup S
  /\ req_blocks' = Zeroed(req_blocks, S)
  /\ encoder_refs' = encoder_refs \ S
  /\ num_computed_tokens' = Zeroed(num_computed_tokens, S)
  /\ num_output_placeholders' = Zeroed(num_output_placeholders, S)
  /\ async_tokens_to_discard' = Zeroed(async_tokens_to_discard, S)
  /\ priority' = Zeroed(priority, S)

-----------------------------------------------------------------------------
(* What clients ask for.  Their calls are read between two engine steps;   *)
(* aborts are also read just before the output of a batch is processed.    *)

\* Slip: one batch too many.
BatchQueueIsNotOverfull == Len(batch_queue) <= MaxConcurrentBatches

\* An engine step ends when the batch queue has room again.
BatchQueueHasRoom == Len(batch_queue) < MaxConcurrentBatches

BetweenSteps == Phase("idle") /\ BatchQueueHasRoom

AddRequest(r) ==
  /\ BetweenSteps
  /\ status[r] = "UNSEEN"
  /\ IF r \in StructuredOutput
     THEN /\ status' = [status EXCEPT ![r] = "WAITING_FOR_STRUCTURED_OUTPUT_GRAMMAR"]
          /\ skipped_waiting' = skipped_waiting \cup {r}
          /\ UNCHANGED waiting
     ELSE /\ status' = [status EXCEPT ![r] = "WAITING"]
          /\ waiting' = waiting \cup {r}
          /\ UNCHANGED skipped_waiting
  /\ UNCHANGED <<queueManagerVars, num_computed_tokens, num_output_tokens,
                 num_output_placeholders, async_tokens_to_discard, priority,
                 cacheVars, running, finished_req_ids, engineVars, step,
                 failed_assertion>>

\* finish_requests: unknown and already finished requests are passed over.
AbortRequest(r) ==
  /\ "abort" \in ClientOps
  /\ Phase("idle")
  /\ r \in Unfinished
  /\ status' = [status EXCEPT ![r] = "FINISHED_ABORTED"]
  /\ IF status[r] = "RUNNING"
     THEN running' = running \ {r} /\ UNCHANGED <<waiting, skipped_waiting>>
     ELSE /\ waiting' = waiting \ {r}
          /\ skipped_waiting' = skipped_waiting \ {r}
          /\ UNCHANGED running
  /\ FreeRequests({r})
  /\ UNCHANGED <<queueManagerVars, num_output_tokens, engineVars, step,
                 failed_assertion>>

SetPauseState(pause) ==
  /\ BetweenSteps
  /\ pause \in {"UNPAUSED"}
       \cup (IF "pause_new" \in ClientOps THEN {"PAUSED_NEW"} ELSE {})
       \cup (IF "pause_all" \in ClientOps THEN {"PAUSED_ALL"} ELSE {})
  /\ pause # pause_state
  /\ pause_state' = pause
  /\ UNCHANGED <<queueManagerVars, requestVars, cacheVars, queueVars,
                 prev_step_scheduled_req_ids, batch_queue, step,
                 failed_assertion>>

\* reset_prefix_cache(reset_running_requests=True).  The running requests are
\* preempted and taken out of `running'; no list receives them.
ResetPrefixCache ==
  /\ "reset" \in ClientOps
  /\ BetweenSteps
  /\ running # {}
  /\ status' = [r \in Req |-> IF r \in running THEN "PREEMPTED" ELSE status[r]]
  /\ num_computed_tokens' = Zeroed(num_computed_tokens, running)
  /\ async_tokens_to_discard' =
       [r \in Req |-> IF r \in running THEN num_output_placeholders[r]
                                       ELSE async_tokens_to_discard[r]]
  /\ num_output_placeholders' = Zeroed(num_output_placeholders, running)
  /\ req_blocks' = Zeroed(req_blocks, running)
  /\ encoder_refs' = encoder_refs \ running
  /\ running' = {}
  /\ prev_step_scheduled_req_ids' = {}
  /\ UNCHANGED <<queueManagerVars, num_output_tokens, priority, waiting,
                 skipped_waiting, finished_req_ids, pause_state, batch_queue,
                 step, failed_assertion>>

-----------------------------------------------------------------------------
(* schedule(): the loop over the merged queue.                             *)

\* Slip: the waiting requests are not counted.
NumRunningRequests == Cardinality(running)

NumUnfinishedRequests ==
  IF pause_state = "PAUSED_ALL" THEN 0
  ELSE IF pause_state = "PAUSED_NEW" THEN Cardinality(running)
  ELSE Cardinality(running) + Cardinality(waiting) + Cardinality(skipped_waiting)

\* Slip: nothing is sent for the sake of finished requests alone.
HasUnfinishedRequests == NumUnfinishedRequests > 0

HasRequests == NumUnfinishedRequests > 0 \/ finished_req_ids # {}

BeginSchedule ==
  /\ BetweenSteps
  /\ HasRequests
  /\ priority' \in UpdatedPriorities(requests, priority)
  /\ CombineQueues(running, {r \in running : status[r] = "PREEMPTED"},
                   waiting, priority')
  /\ step' = [Idle EXCEPT
       !.phase = "loop",
       !.req_index = 1,
       !.token_budget = IF pause_state = "PAUSED_ALL" THEN 0
                        ELSE MaxNumScheduledTokens,
       !.encoder_compute_budget = MaxNumEncoderInputTokens]
  /\ UNCHANGED <<status, num_computed_tokens, num_output_tokens,
                 num_output_placeholders, async_tokens_to_discard, cacheVars,
                 queueVars, engineVars, failed_assertion>>

\* The loop ends: past the last request, out of budget, or at a request that
\* this very step has preempted.
EndLoop ==
  /\ Phase("loop")
  /\ (step.req_index <= Len(combined) /\ step.token_budget > 0)
       => combined[step.req_index] \in step.preempted_req_ids
  /\ step' = [step EXCEPT !.phase =
       IF step.token_budget = 0 /\ step.req_index <= Len(combined)
       THEN "tail" ELSE "commit"]
  /\ UNCHANGED <<queueManagerVars, requestVars, cacheVars, queueVars,
                 engineVars, failed_assertion>>

\* The request at req_index, when the loop goes on with it.
Current(r) ==
  /\ Phase("loop")
  /\ step.req_index <= Len(combined)
  /\ step.token_budget > 0
  /\ r = combined[step.req_index]
  /\ r \notin step.preempted_req_ids

SkipMaxTokensInFlight(r) ==
  /\ Current(r)
  /\ MaxTokensInFlight(r)
  /\ step' = PassedOver(step)
  /\ UNCHANGED <<queueManagerVars, requestVars, cacheVars, queueVars,
                 engineVars, failed_assertion>>

WithinThreshold(n) ==
  IF 0 < LongPrefillTokenThreshold /\ LongPrefillTokenThreshold < n
  THEN LongPrefillTokenThreshold ELSE n

NumNewTokensRunning(r) ==
  LET wanted == WithinThreshold(NumTokens(r) + num_output_placeholders[r]
                                  - num_computed_tokens[r])
  IN  LeastOf(LeastOf(wanted, step.token_budget),
              MaxModelLen - 1 - num_computed_tokens[r])

NumNewTokensWaiting(r) == WithinThreshold(NumTokens(r) - num_computed_tokens[r])

\* The iteration goes on to allocate_slots, with what was decided so far.
TryToAllocate(r, outcome) ==
  /\ encoder_refs' = IF outcome.hit THEN encoder_refs \cup {r} ELSE encoder_refs
  /\ step' = [step EXCEPT !.phase = "alloc",
                          !.request = r,
                          !.num_new_tokens = outcome.num_new_tokens,
                          !.compute_encoder = outcome.compute]

\* A running request.  With nothing to compute it is passed over.
ConsiderRunning(r) ==
  /\ Current(r)
  /\ ~MaxTokensInFlight(r)
  /\ r \in running_req_ids
  /\ \E outcome \in EncoderOutcomes(r, NumNewTokensRunning(r)) :
       IF outcome.num_new_tokens = 0
       THEN /\ step' = PassedOver(step)
            /\ UNCHANGED encoder_refs
       ELSE TryToAllocate(r, outcome)
  /\ UNCHANGED <<queueManagerVars, requestVars, req_blocks, queueVars,
                 engineVars, failed_assertion>>

PromptTooLong(r) == PromptLen[r] > NumBlocks * BlockSize
ChunkTooLong(r) ==
  ~EnableChunkedPrefill /\ NumNewTokensWaiting(r) > step.token_budget
EncoderInputTooLong(r) ==
  \/ EncoderTokens[r] > EncoderCacheSize
  \/ EncoderTokens[r] > MaxNumEncoderInputTokens

\* A waiting request that can never be served is marked, and stays queued.
IgnoreWaiting(r) ==
  /\ Current(r)
  /\ ~MaxTokensInFlight(r)
  /\ r \in waiting_req_ids
  /\ PromptTooLong(r) \/ (~ChunkTooLong(r) /\ EncoderInputTooLong(r))
  /\ status' = [status EXCEPT ![r] = "FINISHED_IGNORED"]
  /\ UpdateIdxsAfterIgnored
  /\ step' = PassedOver(step)
  /\ UNCHANGED <<num_computed_tokens, num_output_tokens,
                 num_output_placeholders, async_tokens_to_discard, priority,
                 cacheVars, queueVars, engineVars, failed_assertion>>

\* Any other waiting request.  With nothing it may compute the loop ends.
ConsiderWaiting(r) ==
  /\ Current(r)
  /\ ~MaxTokensInFlight(r)
  /\ r \in waiting_req_ids
  /\ ~PromptTooLong(r)
  /\ ChunkTooLong(r) \/ ~EncoderInputTooLong(r)
  /\ \E outcome \in EncoderOutcomes(r, LeastOf(NumNewTokensWaiting(r),
                                               step.token_budget)) :
       IF ChunkTooLong(r) \/ outcome.num_new_tokens = 0
       THEN /\ step' = [step EXCEPT !.phase = "commit"]
            /\ UNCHANGED encoder_refs
       ELSE TryToAllocate(r, outcome)
  /\ UNCHANGED <<queueManagerVars, requestVars, req_blocks, queueVars,
                 engineVars, failed_assertion>>

-----------------------------------------------------------------------------
(* The inner loop: allocate_slots, or preempt the last running request and *)
(* try again.                                                              *)

FitsNow ==
  CanAllocate(step.request, step.num_new_tokens,
              ReserveFullISL /\ step.request \in waiting_req_ids)

\* Slip: the encoder budget is not charged.
ScheduledForFree(r, local) ==
  [local EXCEPT
     !.phase = "loop",
     !.req_index = @ + 1,
     !.num_scheduled_tokens[r] = local.num_new_tokens,
     !.token_budget = @ - local.num_new_tokens,
     !.scheduled_encoder_inputs = IF local.compute_encoder THEN @ \cup {r} ELSE @,
     !.request = NoRequest, !.num_new_tokens = 0, !.compute_encoder = FALSE]

\* The locals, once the request in hand has its slots.
Scheduled(r, local) ==
  [local EXCEPT
     !.phase = "loop",
     !.req_index = @ + 1,
     !.num_scheduled_tokens[r] = local.num_new_tokens,
     !.token_budget = @ - local.num_new_tokens,
     !.scheduled_encoder_inputs = IF local.compute_encoder THEN @ \cup {r} ELSE @,
     !.encoder_compute_budget =
        IF local.compute_encoder THEN @ - EncoderTokens[r] ELSE @,
     !.request = NoRequest, !.num_new_tokens = 0, !.compute_encoder = FALSE]

ScheduleRunning(r) ==
  /\ Phase("alloc")
  /\ r = step.request
  /\ r \in running_req_ids
  /\ FitsNow
  /\ AllocateSlots(r, step.num_new_tokens)
  /\ encoder_refs' = IF step.compute_encoder THEN encoder_refs \cup {r}
                     ELSE encoder_refs
  /\ step' = [Scheduled(r, step) EXCEPT !.scheduled_running_reqs = @ \cup {r}]
  /\ UNCHANGED <<queueManagerVars, requestVars, queueVars, engineVars,
                 failed_assertion>>

ScheduleWaiting(r) ==
  /\ Phase("alloc")
  /\ r = step.request
  /\ r \in waiting_req_ids
  /\ FitsNow
  /\ AllocateSlots(r, step.num_new_tokens)
  /\ encoder_refs' = IF step.compute_encoder THEN encoder_refs \cup {r}
                     ELSE encoder_refs
  /\ UpdateIdxsAfterNewScheduling
  /\ status' = [status EXCEPT ![r] = "RUNNING"]
  /\ step' = [Scheduled(r, step) EXCEPT !.scheduled_resumed_reqs =
                IF status[r] = "PREEMPTED" THEN @ \cup {r} ELSE @]
  /\ UNCHANGED <<num_computed_tokens, num_output_tokens,
                 num_output_placeholders, async_tokens_to_discard, priority,
                 queueVars, engineVars, failed_assertion>>

\* _preempt_request and update_idxs_after_preemption.  They need not concern
\* the same request: the second acts on the one at last_running_idx.
Preempt(victim) ==
  /\ status' = [status EXCEPT ![victim] = "PREEMPTED"]
  /\ num_computed_tokens' = [num_computed_tokens EXCEPT ![victim] = 0]
  /\ req_blocks' = [req_blocks EXCEPT ![victim] = 0]
  /\ encoder_refs' = encoder_refs \ {victim}
  /\ UpdateIdxsAfterPreemption
  /\ failed_assertion' =
       IF PreemptionAssertion THEN failed_assertion ELSE "first_waiting_idx"
  /\ UNCHANGED <<num_output_tokens, num_output_placeholders,
                 async_tokens_to_discard, priority, queueVars, engineVars>>

\* The locals, once what the step had planned for the victim is undone.
Unscheduled(victim, local) ==
  IF victim \notin local.scheduled_running_reqs THEN local
  ELSE [local EXCEPT
          !.scheduled_running_reqs = @ \ {victim},
          !.token_budget = @ + local.num_scheduled_tokens[victim],
          !.num_scheduled_tokens[victim] = 0,
          !.scheduled_encoder_inputs = @ \ {victim},
          !.encoder_compute_budget =
             IF victim \in local.scheduled_encoder_inputs
             THEN @ + EncoderTokens[victim] ELSE @,
          !.req_index = @ - 1]

\* Slip: anybody may be preempted.
NeverOutranks(p, q) == FALSE

Outranks(p, q) ==
  priority[p] # 0 /\ priority[q] # 0 /\ priority[p] < priority[q]

PreemptLastRunning(victim) ==
  /\ Phase("alloc")
  /\ ~FitsNow
  /\ last_running_idx # None
  /\ victim = combined[last_running_idx]
  /\ ~Outranks(victim, step.request)
  /\ Preempt(victim)
  /\ LET local == [Unscheduled(victim, step) EXCEPT
                     !.preempted_req_ids = @ \cup {victim}]
     IN  step' = IF victim = step.request
                 THEN [local EXCEPT !.phase = "commit", !.request = NoRequest,
                         !.num_new_tokens = 0, !.compute_encoder = FALSE]
                 ELSE local

\* There is nobody left to preempt for the request: the loop ends.
GiveUpAllocation ==
  /\ Phase("alloc")
  /\ ~FitsNow
  /\ last_running_idx # None
       => Outranks(combined[last_running_idx], step.request)
  /\ encoder_refs' = IF step.request \in waiting_req_ids
                     THEN encoder_refs \ {step.request} ELSE encoder_refs
  /\ step' = [step EXCEPT !.phase = "commit", !.request = NoRequest,
                          !.num_new_tokens = 0, !.compute_encoder = FALSE]
  /\ UNCHANGED <<queueManagerVars, requestVars, req_blocks, queueVars,
                 engineVars, failed_assertion>>

-----------------------------------------------------------------------------
(* The end of schedule().                                                  *)

\* The token budget is spent: the running requests not reached lose their
\* slots, in the order of `combined'.
PreemptUnreached(r) ==
  /\ Phase("tail")
  /\ \E i \in step.req_index..Len(combined) :
       /\ r = combined[i]
       /\ status[r] = "RUNNING"
       /\ \A j \in step.req_index..(i - 1) : status[combined[j]] # "RUNNING"
       /\ step' = [step EXCEPT !.req_index = i + 1,
                               !.preempted_req_ids = @ \cup {r}]
  /\ Preempt(r)

EndTail ==
  /\ Phase("tail")
  /\ \A i \in step.req_index..Len(combined) : status[combined[i]] # "RUNNING"
  /\ step' = [step EXCEPT !.phase = "commit"]
  /\ UNCHANGED <<queueManagerVars, requestVars, cacheVars, queueVars,
                 engineVars, failed_assertion>>

\* The first of the closing assertions that does not hold.
FailedAssertion ==
  IF ~UpdateQueuesAssertion THEN "last_running_idx"
  ELSE IF TotalNumScheduledTokens > MaxNumScheduledTokens
       THEN "max_num_scheduled_tokens"
  ELSE IF Cardinality(RunningAfterUpdate) > MaxNumSeqs THEN "max_num_running_reqs"
  ELSE IF Cardinality(ScheduledReqs) > Cardinality(RunningAfterUpdate)
       THEN "scheduled_reqs"
  ELSE IF step.scheduled_resumed_reqs \cap prev_step_scheduled_req_ids # {}
       THEN "scheduled_in_prev_step"
  ELSE "none"

\* The queues are cut, the closing assertions hold, and the batch is sent.  A
\* request whose tokens are then all computed is sampled by the workers (the
\* others are prefill chunks), and under async scheduling it gets a
\* placeholder for the token to come.
CommitSchedule ==
  LET computed == [r \in Req |->
                     num_computed_tokens[r] + step.num_scheduled_tokens[r]]
      sampled == { r \in ScheduledReqs :
                     computed[r] >= NumTokens(r) + num_output_placeholders[r] }
  IN  /\ Phase("commit")
      /\ FailedAssertion = "none"
      /\ running' = RunningAfterUpdate
      /\ waiting' = WaitingAfterUpdate
      /\ num_computed_tokens' = computed
      /\ num_output_placeholders' =
           [r \in Req |-> IF AsyncScheduling /\ r \in sampled
                          THEN num_output_placeholders[r] + 1
                          ELSE num_output_placeholders[r]]
      /\ prev_step_scheduled_req_ids' = ScheduledReqs
      /\ finished_req_ids' = {}
      /\ batch_queue' =
           Append(batch_queue, [scheduled |-> ScheduledReqs, sampled |-> sampled])
      /\ step' = Idle
      \* dead until the next combine_queues()
      /\ combined' = <<>>
      /\ running_req_ids' = {}
      /\ waiting_req_ids' = {}
      /\ preempted_req_ids' = {}
      /\ last_running_idx' = None
      /\ first_waiting_idx' = None
      /\ UNCHANGED <<ignored_req_ids, status, num_output_tokens,
                     async_tokens_to_discard, priority, cacheVars,
                     skipped_waiting, pause_state, failed_assertion>>

\* A closing assertion fails, and the exception stops the engine core.
ScheduleRaises ==
  /\ Phase("commit")
  /\ FailedAssertion # "none"
  /\ failed_assertion' = FailedAssertion
  /\ UNCHANGED <<queueManagerVars, requestVars, cacheVars, queueVars,
                 engineVars, step>>

-----------------------------------------------------------------------------
(* update_from_output, for the oldest batch in flight, whose output comes  *)
(* back at any moment between two schedules.  Requests finished meanwhile  *)
(* are passed over; a token sampled for a request that was reset since is  *)
(* discarded; any other token is appended and may stop the request,        *)
(* because it is an end-of-sequence token or by length.                    *)

\* Slip: the token that arrived keeps its placeholder.
PlaceholdersKept(extended, stopped) == Zeroed(num_output_placeholders, stopped)

PlaceholdersAfterOutput(extended, stopped) ==
  [r \in Req |-> IF r \in stopped THEN 0
                ELSE IF r \in extended /\ AsyncScheduling
                     THEN num_output_placeholders[r] - 1
                ELSE num_output_placeholders[r]]

\* Slip: stale tokens are not told from fresh ones.
NoneDiscarded(sampled) == {}

Discarded(sampled) == { r \in sampled : async_tokens_to_discard[r] > 0 }

UpdateFromOutput ==
  /\ Phase("idle")
  /\ batch_queue # <<>>
  /\ LET batch == Head(batch_queue)
         live == batch.scheduled \cap Unfinished
         sampled == batch.sampled \cap live
         discarded == Discarded(sampled)
         extended == sampled \ discarded
         capped == { r \in extended : \/ NumTokens(r) + 1 >= MaxModelLen
                                      \/ num_output_tokens[r] + 1 >= MaxTokens[r] }
         encoded == { r \in live :
                        EncoderStart[r] + EncoderTokens[r] <= num_computed_tokens[r] }
     IN  \E eos \in SUBSET extended :
           LET stopped == eos \cup capped
           IN  /\ status' = [r \in Req |->
                    IF r \in eos THEN "FINISHED_STOPPED"
                    ELSE IF r \in capped THEN "FINISHED_LENGTH_CAPPED"
                    ELSE status[r]]
               /\ num_output_tokens' = [r \in Req |->
                    IF r \in extended THEN num_output_tokens[r] + 1
                    ELSE num_output_tokens[r]]
               /\ num_output_placeholders' = PlaceholdersAfterOutput(extended, stopped)
               /\ async_tokens_to_discard' = [r \in Req |->
                    IF r \in stopped THEN 0
                    ELSE IF r \in discarded THEN async_tokens_to_discard[r] - 1
                    ELSE async_tokens_to_discard[r]]
               /\ num_computed_tokens' = Zeroed(num_computed_tokens, stopped)
               /\ priority' = Zeroed(priority, stopped)
               /\ req_blocks' = Zeroed(req_blocks, stopped)
               /\ encoder_refs' = encoder_refs \ (stopped \cup encoded)
               /\ running' = running \ {r \in stopped : status[r] = "RUNNING"}
               /\ waiting' = waiting \ {r \in stopped : status[r] # "RUNNING"}
               /\ finished_req_ids' = finished_req_ids \cup stopped
  /\ batch_queue' = Tail(batch_queue)
  /\ UNCHANGED <<queueManagerVars, skipped_waiting, pause_state,
                 prev_step_scheduled_req_ids, step, failed_assertion>>

-----------------------------------------------------------------------------
\* The busy loop blocks on the input queue.
EngineIdle ==
  /\ Phase("idle")
  /\ ~HasRequests
  /\ batch_queue = <<>>
  /\ UNCHANGED vars

EngineDead ==
  /\ failed_assertion # "none"
  /\ UNCHANGED vars

ScheduleStep ==
  \/ BeginSchedule
  \/ EndLoop
  \/ \E r \in Req : \/ SkipMaxTokensInFlight(r)
                    \/ ConsiderRunning(r)
                    \/ IgnoreWaiting(r)
                    \/ ConsiderWaiting(r)
                    \/ ScheduleRunning(r)
                    \/ ScheduleWaiting(r)
                    \/ PreemptLastRunning(r)
                    \/ PreemptUnreached(r)
  \/ GiveUpAllocation
  \/ EndTail
  \/ CommitSchedule
  \/ ScheduleRaises

ClientStep ==
  \/ \E r \in Req : AddRequest(r) \/ AbortRequest(r)
  \/ \E pause \in {"UNPAUSED", "PAUSED_NEW", "PAUSED_ALL"} : SetPauseState(pause)
  \/ ResetPrefixCache

EngineStep == ScheduleStep \/ UpdateFromOutput

SchedulerNext == EngineStep \/ ClientStep \/ EngineIdle \/ EngineDead

SchedulerSpec == SchedulerInit /\ [][SchedulerNext]_vars

\* The busy loop goes on stepping while there is work, and the workers answer.
FairSchedulerSpec == SchedulerSpec /\ WF_vars(EngineStep)

=============================================================================
