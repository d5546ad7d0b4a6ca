------------------------- MODULE SchedulerProperties ------------------------
(***************************************************************************)
(* What the scheduler promises.  Most of these relate what one component   *)
(* believes to what another one holds: the ids and indices of the          *)
(* QueueManager to the statuses of the requests, the queues to the set of  *)
(* known requests, the blocks held to the tokens computed, the             *)
(* placeholders to the batches in flight.                                  *)
(***************************************************************************)
EXTENDS Scheduler

Batches == [scheduled : SUBSET Req, sampled : SUBSET Req]

Locals == [phase : {"idle", "loop", "alloc", "tail", "commit"},
           req_index : Int,
           token_budget : Int,
           encoder_compute_budget : Int,
           num_scheduled_tokens : [Req -> Int],
           scheduled_running_reqs : SUBSET Req,
           scheduled_resumed_reqs : SUBSET Req,
           scheduled_encoder_inputs : SUBSET Req,
           preempted_req_ids : SUBSET Req,
           request : Req \cup {NoRequest},
           num_new_tokens : Int,
           compute_encoder : BOOLEAN]

StepTypeOK == step \in Locals

QueueManagerTypeOK ==
  /\ combined \in Seq(Req)
  /\ running_req_ids \subseteq Req
  /\ waiting_req_ids \subseteq Req
  /\ preempted_req_ids \subseteq Req
  /\ ignored_req_ids \subseteq Req
  /\ last_running_idx \in 0..Len(combined)
  /\ first_waiting_idx \in 0..Len(combined)

RequestsTypeOK ==
  /\ status \in [Req -> Statuses]
  /\ num_computed_tokens \in [Req -> Int]
  /\ num_output_tokens \in [Req -> Nat]
  /\ num_output_placeholders \in [Req -> Int]
  /\ async_tokens_to_discard \in [Req -> Int]
  /\ priority \in [Req -> Nat]
  /\ req_blocks \in [Req -> Int]
  /\ encoder_refs \subseteq Req

QueuesTypeOK ==
  /\ running \subseteq Req
  /\ waiting \subseteq Req
  /\ skipped_waiting \subseteq Req
  /\ finished_req_ids \subseteq Req
  /\ pause_state \in {"UNPAUSED", "PAUSED_NEW", "PAUSED_ALL"}
  /\ prev_step_scheduled_req_ids \subseteq Req
  /\ batch_queue \in Seq(Batches)

\* The types of the variables, and the indices stay within `combined'.
TypeOK ==
  /\ QueueManagerTypeOK
  /\ StepTypeOK
  /\ RequestsTypeOK
  /\ QueuesTypeOK

-----------------------------------------------------------------------------
(* The queues.                                                             *)

\* Between two steps every known request is in exactly one queue, the one its
\* status calls for: _preempt_request puts a request back nowhere, and relies
\* on update_queues to find it in `combined'.
NoLostRequest ==
  Phase("idle") =>
    /\ running = { r \in Req : status[r] = "RUNNING" }
    /\ waiting = { r \in Req :
                     status[r] \in {"WAITING", "PREEMPTED", "FINISHED_IGNORED"} }
    /\ skipped_waiting = { r \in Req :
                     status[r] = "WAITING_FOR_STRUCTURED_OUTPUT_GRAMMAR" }

\* The indices patched by the update_idxs_* methods are those a scan of the
\* whole merged list would find.  (Ignored requests break this: see README.)
IndicesAreExact ==
  (step.phase # "idle" /\ failed_assertion = "none" /\ ignored_req_ids = {}) =>
    /\ last_running_idx = LastIndexIn(combined, running_req_ids, Len(combined))
    /\ first_waiting_idx =
         FirstIndexIn(combined, waiting_req_ids \cup preempted_req_ids, 1)

\* Whenever schedule() consults them, the ids the QueueManager counts as running
\* are the requests whose status says so.  (The preemptions at the end of a
\* step go down the list in one direction and patch the ids in the other, so
\* the two agree again only when they are done.)
RolesMatchStatus ==
  (step.phase \notin {"idle", "tail"} /\ failed_assertion = "none") =>
    running_req_ids = { r \in Range(combined) : status[r] = "RUNNING" }

\* When a step is cut, no request left waiting is more urgent than one that
\* keeps running.  A request that is ignored is out of the comparison.
NoPriorityInversion ==
  (Phase("commit") /\ FailedAssertion = "none") =>
    \A p \in RunningAfterUpdate, q \in WaitingAfterUpdate :
      status[q] # "FINISHED_IGNORED" => priority[p] <= priority[q]

\* None of the assertions of schedule() and of the QueueManager fails.
NoAssertionFailure == failed_assertion = "none"

-----------------------------------------------------------------------------
(* What a step schedules.                                                  *)

\* A step never sends to the workers a request that it has itself preempted,
\* nor one without the blocks and the image its tokens need.
ScheduledAreServable ==
  (Phase("commit") /\ FailedAssertion = "none") =>
    \A r \in ScheduledReqs :
      LET last == num_computed_tokens[r] + step.num_scheduled_tokens[r]
      IN  /\ r \in RunningAfterUpdate
          /\ status[r] = "RUNNING"
          /\ last <= req_blocks[r] * BlockSize
          /\ (EncoderTokens[r] > 0 /\ EncoderStart[r] < last)
               => \/ r \in encoder_refs
                  \/ EncoderStart[r] + EncoderTokens[r] <= num_computed_tokens[r]

\* The budgets of the step are what has not been given out, through every
\* preemption of a request the step had already scheduled.
BudgetsAreAccounted ==
  (step.phase # "idle" /\ pause_state # "PAUSED_ALL") =>
    /\ step.token_budget + TotalNumScheduledTokens = MaxNumScheduledTokens
    /\ step.encoder_compute_budget
         + SumFunctionOnSet(EncoderTokens, step.scheduled_encoder_inputs)
         = MaxNumEncoderInputTokens

\* No budget, counter of tokens or count of placeholders goes below zero, and
\* an iteration never asks for more than the budget has left: the assertions
\* token_budget >= 0 and num_output_placeholders >= 0, and the unchecked
\* subtractions they rest on.
CountersStayInRange ==
  /\ step.token_budget >= 0
  /\ step.encoder_compute_budget >= 0
  /\ 0 <= step.num_new_tokens
  /\ step.phase = "alloc" => step.num_new_tokens \in 1..step.token_budget
  /\ \A r \in Req : /\ num_output_placeholders[r] >= 0
                     /\ async_tokens_to_discard[r] >= 0
                     /\ step.num_scheduled_tokens[r] >= 0
                     /\ num_computed_tokens[r] \in 0..(MaxModelLen - 1)

\* A step that starts with an unpaused engine, nothing in flight and a request
\* it may serve, schedules something: preemption never eats itself.
NoEmptyStep ==
  (/\ Phase("commit")
   /\ pause_state # "PAUSED_ALL"
   /\ batch_queue = <<>>
   /\ \E r \in Range(combined) : status[r] # "FINISHED_IGNORED")
  => ScheduledReqs # {}

\* A request that is resumed has no token in flight: the step that preempted
\* it came before the output of the batch it was in.
ResumedHasNothingInFlight ==
  Phase("commit") =>
    \A r \in step.scheduled_resumed_reqs :
      /\ num_output_placeholders[r] = 0
      /\ \A i \in DOMAIN batch_queue : r \notin batch_queue[i].sampled

-----------------------------------------------------------------------------
(* Caches and counters.                                                    *)

\* Blocks are held by running requests only, they cover the computed tokens,
\* and there are never more of them than the pool has; likewise for images.
CachesAreConsistent ==
  /\ NumFreeBlocks >= 0
  /\ NumFreeableSlots >= 0
  /\ \A r \in Req :
       /\ num_computed_tokens[r] <= req_blocks[r] * BlockSize
       /\ req_blocks[r] > 0 => status[r] = "RUNNING"
  /\ Phase("idle") => \A r \in encoder_refs : status[r] = "RUNNING"

\* A request has one placeholder, or one token to discard, for each batch in
\* flight that samples it.
PlaceholdersMatchInFlight ==
  Phase("idle") =>
    \A r \in requests :
      num_output_placeholders[r] + async_tokens_to_discard[r]
        = Cardinality({ i \in DOMAIN batch_queue :
                          AsyncScheduling /\ r \in batch_queue[i].sampled })

\* Counting the tokens in flight, no request computes past its last token or
\* samples past max_tokens or max_model_len.
NoOvershoot ==
  Phase("idle") =>
    \A r \in requests :
      LET tokens == NumTokens(r) + num_output_placeholders[r]
      IN  /\ num_computed_tokens[r] <= tokens
          /\ tokens <= MaxModelLen
          /\ num_output_tokens[r] + num_output_placeholders[r] <= MaxTokens[r]

-----------------------------------------------------------------------------
(* Action and liveness properties.                                         *)

\* Unless the engine is paused, the most urgent running request goes on
\* running: it is never the victim, neither of a less urgent one nor of itself.
MostUrgentKeepsRunning ==
  [][\A r \in Req :
       (status[r] = "RUNNING" /\ status'[r] = "PREEMPTED") =>
         \/ pause_state = "PAUSED_ALL"
         \/ step.phase = "idle"
         \/ combined[1] # r]_vars

\* schedule() always returns, or raises.
ScheduleTerminates ==
  (step.phase # "idle") ~> (step.phase = "idle" \/ failed_assertion # "none")

\* Every request that is added leaves the scheduler.
EveryRequestLeaves ==
  \A r \in Req : (r \in requests) ~> (r \notin requests)

\* The workers are told of every finished request.
FinishedAreFlushed ==
  \A r \in Req : (r \in finished_req_ids) ~>
                   (r \notin finished_req_ids \/ failed_assertion # "none")

\* The assertions, one by one.
MaxNumSeqsAssertion == failed_assertion # "max_num_running_reqs"
LastRunningIdxAssertion == failed_assertion # "last_running_idx"
FirstWaitingIdxAssertion == failed_assertion # "first_waiting_idx"

=============================================================================
