------------------------ MODULE SchedulerQueueProofs -------------------------
(***************************************************************************)
(* Proofs that the scheduler loses no request and schedules by priority:   *)
(* between two steps every request is in the queue its status calls for,   *)
(* whenever schedule() consults them the ids the QueueManager counts as    *)
(* running are those of the RUNNING requests, and no waiting request is    *)
(* more urgent than one that keeps running.                                *)
(*                                                                         *)
(* Three hypotheses are needed, and a run shows what happens without each  *)
(* of the first two: no client resets the prefix cache of running requests *)
(* (ResetLosesRequests), no two requests have the same arrival time        *)
(* (EqualPriorities), and every image fits in the encoder cache, so that   *)
(* no request is ever ignored.                                             *)
(*                                                                         *)
(* The inductive invariant, QueueInv, says what each phase of schedule()   *)
(* relies on: the list is strictly sorted, all requests before req_index   *)
(* run, what was scheduled lies before req_index (so that a preemption     *)
(* never hits it), and while the preemptions at the end of a step are      *)
(* under way as many requests are still to lose their status as their id.  *)
(***************************************************************************)
EXTENDS SchedulerProofs

\* No two requests arrive at the same time; priorities are computed from it.
DistinctArrivals == \A p, q \in Req : ArrivalTime[p] = ArrivalTime[q] => p = q

\* The frontend accepted no image larger than the encoder cache or budget.
EveryImageFits ==
  \A r \in Req : /\ EncoderTokens[r] <= EncoderCacheSize
                 /\ EncoderTokens[r] <= MaxNumEncoderInputTokens

-----------------------------------------------------------------------------
\* Under the FCFS and category policies, distinct arrival times give distinct
\* priorities, none of which is 0 (unset): the bands of two categories never meet.
LEMMA InitialPrioritiesAreDistinct ==
  ASSUME DistinctArrivals, NEW p \in Req, NEW q \in Req
  PROVE  /\ InitialPriority(p) \in Nat \ {0}
         /\ InitialPriority(p) = InitialPriority(q) => p = q
<1>1. /\ ArrivalTime[p] \in Nat \ {0} /\ ArrivalTime[p] < BandWidth
      /\ ArrivalTime[q] \in Nat \ {0} /\ ArrivalTime[q] < BandWidth
      /\ BandWidth \in Nat
  BY PolicyAssumption
<1>2. Band(p) \in {0, 1, 10} /\ Band(q) \in {0, 1, 10}
  BY DEF Band
<1>3. InitialPriority(p) \in Nat \ {0}
  BY <1>1, <1>2 DEF InitialPriority
<1>4. InitialPriority(p) = InitialPriority(q) => ArrivalTime[p] = ArrivalTime[q]
  BY <1>1, <1>2 DEF InitialPriority
<1> QED BY <1>3, <1>4 DEF DistinctArrivals

\* After update_priorities every request of the scheduler has a priority of its own,
\* whether ranks were handed out or only the unset priorities filled in.
LEMMA UpdatedPrioritiesAreDistinct ==
  ASSUME DistinctArrivals, NEW S \in SUBSET Req, NEW prio \in [Req -> Nat],
         ~Ranking => \A r \in Req : prio[r] \in {0, InitialPriority(r)},
         NEW updated \in UpdatedPriorities(S, prio)
  PROVE  /\ ~Ranking => \A r \in Req : updated[r] \in {0, InitialPriority(r)}
         /\ \A r \in S : updated[r] # 0
         /\ \A p, q \in S : updated[p] = updated[q] => p = q
<1>1. CASE Ranking
  <2>1. PICK rank \in Rankings(S) :
          updated = [r \in Req |-> IF r \in S THEN rank[r] ELSE prio[r]]
    BY <1>1 DEF UpdatedPriorities
  <2>2. Cardinality(S) \in Nat
    BY ReqAssumption, FS_Subset, FS_CardinalityType
  <2>3. rank \in Bijection(S, 1..Cardinality(S))
    BY DEF Rankings
  <2>4. /\ \A r \in S : rank[r] \in 1..Cardinality(S)
        /\ \A p, q \in S : rank[p] = rank[q] => p = q
    BY <2>3 DEF Bijection, Injection, IsInjective
  <2> QED BY <1>1, <2>1, <2>2, <2>4
<1>2. CASE ~Ranking
  <2>1. updated = [r \in Req |-> IF r \in S /\ prio[r] = 0
                                 THEN InitialPriority(r) ELSE prio[r]]
    BY <1>2 DEF UpdatedPriorities
  <2>2. \A r \in Req : updated[r] \in {0, InitialPriority(r)}
    BY <1>2, <2>1
  <2>3. \A r \in S : updated[r] = InitialPriority(r)
    BY <1>2, <2>1
  <2> QED BY <2>2, <2>3, InitialPrioritiesAreDistinct
<1> QED BY <1>1, <1>2

\* combine_queues returns a list sorted by priority.
LEMMA CombinedIsSorted ==
  ASSUME NEW R \in SUBSET Req, NEW P \in SUBSET R, NEW W \in SUBSET Req,
         NEW prio \in [Req -> Nat], CombineQueues(R, P, W, prio)
  PROVE  \A i, j \in 1..Len(combined') :
           i < j => prio[combined'[i]] <= prio[combined'[j]]
<1>1. combined' \in Seq(Req)
  BY CombinedIsSequence
<1>2. DOMAIN combined' = 1..Len(combined')
  BY <1>1, LenProperties
<1>3. \A i, j \in DOMAIN combined' :
        i < j => \/ prio[combined'[i]] < prio[combined'[j]]
                 \/ prio[combined'[i]] = prio[combined'[j]]
  BY DEF CombineQueues, SortedByPriority
<1>4. \A i \in DOMAIN combined' : prio[combined'[i]] \in Nat
  BY <1>1, <1>2, ElementOfSeq
<1> QED BY <1>2, <1>3, <1>4

\* update_queues, cutting the list at the first waiting index, keeps exactly the
\* requests whose ids are counted as running, if its assertion holds.
LEMMA CutAtFirstWaiting ==
  ASSUME Roles, Exact, UpdateQueuesAssertion, ignored_req_ids = {},
         running_req_ids \subseteq Range(combined)
  PROVE  RunningAfterUpdate = running_req_ids
<1>1. Len(combined) \in Nat
  BY LenProperties DEF Roles
<1>2. Range(combined) = { combined[i] : i \in 1..Len(combined) }
  BY LenProperties DEF Roles, Range
<1>3. CASE last_running_idx = None
  <2>1. \A i \in 1..Len(combined) : combined[i] \notin running_req_ids
    BY <1>1, <1>3 DEF Exact, IsLast, None
  <2> QED BY <1>2, <1>3, <2>1 DEF RunningAfterUpdate
<1>4. CASE last_running_idx # None /\ first_waiting_idx = None
  <2>1. \A i \in 1..Len(combined) : combined[i] \notin Denied
    BY <1>4 DEF Exact, IsFirst, None
  <2> QED BY <1>2, <1>4, <2>1 DEF RunningAfterUpdate, Roles
<1>5. CASE last_running_idx # None /\ first_waiting_idx # None
  <2>1. last_running_idx = first_waiting_idx - 1
    BY <1>5 DEF UpdateQueuesAssertion
  <2>2. first_waiting_idx \in 1..Len(combined)
    BY <1>5 DEF Exact, IsFirst, None
  <2>3. \A i \in 1..Len(combined) : i < first_waiting_idx => combined[i] \notin Denied
    BY <1>1, <2>2 DEF Exact, IsFirst
  <2>4. \A i \in 1..Len(combined) : combined[i] \in running_req_ids => i < first_waiting_idx
    BY <1>1, <2>1, <2>2 DEF Exact, IsLast
  <2>5. \A i \in 1..Len(combined) : i < first_waiting_idx => combined[i] \in running_req_ids
    BY <1>2, <2>3 DEF Roles
  <2>6. RunningAfterUpdate = { combined[i] : i \in 1..(first_waiting_idx - 1) }
    BY <1>5 DEF RunningAfterUpdate
  <2> QED BY <1>1, <1>2, <2>2, <2>4, <2>5, <2>6
<1> QED BY <1>3, <1>4, <1>5

-----------------------------------------------------------------------------
\* The statuses of the requests that are in running or waiting.
Queued == {"RUNNING", "WAITING", "PREEMPTED"}
\* The status of the requests that are in skipped_waiting.
Parked == "WAITING_FOR_STRUCTURED_OUTPUT_GRAMMAR"

\* A batch in flight holds only requests that have been in a queue.
BatchesAreKnown ==
  \A i \in 1..Len(batch_queue) : \A r \in batch_queue[i].scheduled :
    status[r] \notin {"UNSEEN", Parked}

\* The queues hold the requests their statuses call for, and none was ignored.
QueuesMatchStatus ==
  /\ skipped_waiting = { r \in Req : status[r] = Parked }
  /\ running \cup waiting = { r \in Req : status[r] \in Queued }
  /\ step.phase = "idle" => running = { r \in Req : status[r] = "RUNNING" }
  /\ ignored_req_ids = {}
  /\ \A r \in Req : status[r] # "FINISHED_IGNORED"
  /\ BatchesAreKnown

\* A request that does not run has no computed tokens.
OnlyRunningIsComputed ==
  \A r \in Req : status[r] # "RUNNING" => num_computed_tokens[r] = 0

\* Without ranking a priority never changes once it is set.
PrioritiesAreInitial ==
  ~Ranking => \A r \in Req : priority[r] \in {0, InitialPriority(r)}

\* During a schedule() the list is sorted and priorities in it are distinct.
CombinedIsStrictlySorted ==
  step.phase # "idle" =>
    /\ \A i \in 1..Len(combined) : priority[combined[i]] # 0
    /\ \A i, j \in 1..Len(combined) :
         i < j => priority[combined[i]] < priority[combined[j]]

\* In the loop and at the end the running ids are those of the RUNNING requests.
RolesInv ==
  step.phase \in {"loop", "alloc", "commit"} =>
    running_req_ids = { r \in Range(combined) : status[r] = "RUNNING" }

\* In the loop all requests before req_index run, those scheduled as running ones
\* are among them, and the two sets of preempted ids agree.
LoopInv ==
  step.phase \in {"loop", "alloc"} =>
    /\ preempted_req_ids = step.preempted_req_ids
    /\ step.req_index \in 1..(Len(combined) + 1)
    /\ \A i \in 1..Len(combined) : i < step.req_index => combined[i] \in running_req_ids
    /\ \A r \in step.scheduled_running_reqs :
         \E i \in 1..Len(combined) : i < step.req_index /\ r = combined[i]

\* allocate_slots is tried for the request at req_index, not preempted in this step.
AllocInv ==
  step.phase = "alloc" =>
    /\ step.req_index <= Len(combined)
    /\ step.request = combined[step.req_index]
    /\ step.request \notin preempted_req_ids

\* What the step has scheduled runs and lies before req_index.
ScheduledInv ==
  step.phase # "idle" =>
    \A r \in Req : step.num_scheduled_tokens[r] # 0 =>
      /\ status[r] = "RUNNING"
      /\ step.phase # "commit" =>
           \E i \in 1..Len(combined) : i < step.req_index /\ r = combined[i]

\* Where the list holds a RUNNING request; where it holds a running id; and the
\* former before req_index, which the preemptions at the end have spared.
RunningIndices == { i \in 1..Len(combined) : status[combined[i]] = "RUNNING" }
RunningIdIndices == { i \in 1..Len(combined) : combined[i] \in running_req_ids }
Reached == { i \in RunningIndices : i < step.req_index }

\* The preemptions at the end take statuses from the top and ids from the bottom:
\* as many are left to do in the one as in the other, and the spared are before.
TailInv ==
  step.phase = "tail" =>
    /\ step.req_index \in 1..(Len(combined) + 1)
    /\ running_req_ids \subseteq Range(combined)
    /\ Reached \subseteq RunningIdIndices
    /\ \A i \in RunningIdIndices \ Reached, j \in Reached : j < i
    /\ Cardinality(RunningIdIndices \ Reached) = Cardinality(RunningIndices \ Reached)

\* The inductive invariant.
QueueInv ==
  failed_assertion = "none" =>
    /\ QueuesMatchStatus
    /\ OnlyRunningIsComputed
    /\ PrioritiesAreInitial
    /\ CombinedIsStrictlySorted
    /\ RolesInv
    /\ LoopInv
    /\ AllocInv
    /\ ScheduledInv
    /\ TailInv

\* A scheduler that was just constructed satisfies the invariant.
LEMMA InitQueueInv == SchedulerInit => QueueInv
BY DEF SchedulerInit, QueueManagerInit, QueueInv, QueuesMatchStatus, BatchesAreKnown,
       OnlyRunningIsComputed, PrioritiesAreInitial, CombinedIsStrictlySorted, RolesInv, LoopInv, AllocInv,
       ScheduledInv, TailInv, Idle, Queued, Parked

\* While the engine is between two steps only the queues matter.
LEMMA IdleQueueInv ==
  ASSUME step'.phase = "idle", QueuesMatchStatus', OnlyRunningIsComputed',
         PrioritiesAreInitial'
  PROVE  QueueInv'
BY DEF QueueInv, CombinedIsStrictlySorted, RolesInv, LoopInv, AllocInv, ScheduledInv, TailInv

\* No request of a batch in flight goes back to a status that precedes the queues.
LEMMA BatchesStayKnown ==
  ASSUME TypeOK, BatchesAreKnown, batch_queue' = batch_queue,
         \A r \in Req : status[r] \notin {"UNSEEN", Parked} =>
                          status'[r] \notin {"UNSEEN", Parked}
  PROVE  BatchesAreKnown'
<1>1. \A i \in 1..Len(batch_queue) : batch_queue[i] \in Batches
  BY ElementOfSeq DEF TypeOK, QueuesTypeOK
<1>2. \A i \in 1..Len(batch_queue) : batch_queue[i].scheduled \subseteq Req
  BY <1>1 DEF Batches
<1> QED BY <1>2 DEF BatchesAreKnown

\* add_request, finish_requests and set_pause_state keep the invariant.
LEMMA ClientQueueInv ==
  ASSUME "reset" \notin ClientOps, TypeOK, IndexInv, QueueInv, ClientStep
  PROVE  QueueInv'
<1>1. /\ step.phase = "idle" /\ step' = step /\ failed_assertion = "none"
      /\ batch_queue' = batch_queue /\ ignored_req_ids' = ignored_req_ids
  BY DEF ClientStep, AddRequest, AbortRequest, SetPauseState, ResetPrefixCache,
         BetweenSteps, Phase, engineVars, queueManagerVars
<1>2. /\ QueuesMatchStatus /\ OnlyRunningIsComputed /\ PrioritiesAreInitial
      /\ QueuesAreDisjoint
  BY <1>1 DEF QueueInv, IndexInv
<1>3. ASSUME NEW r \in Req, AddRequest(r) PROVE QueueInv'
  <2>1. /\ status[r] = "UNSEEN"
        /\ IF r \in StructuredOutput
           THEN /\ status' = [status EXCEPT ![r] = Parked]
                /\ skipped_waiting' = skipped_waiting \cup {r}
                /\ waiting' = waiting
           ELSE /\ status' = [status EXCEPT ![r] = "WAITING"]
                /\ waiting' = waiting \cup {r}
                /\ skipped_waiting' = skipped_waiting
        /\ UNCHANGED <<running, num_computed_tokens, priority>>
    BY <1>3 DEF AddRequest, Parked
  <2>2. status \in [Req -> Statuses]
    BY DEF TypeOK, RequestsTypeOK
  <2>3. /\ status'[r] \in {Parked, "WAITING"}
        /\ status'[r] = Parked <=> r \in StructuredOutput
        /\ \A q \in Req : q # r => status'[q] = status[q]
    BY <2>1, <2>2 DEF Parked
  <2>5. BatchesAreKnown'
    BY <1>1, <1>2, <2>1, <2>3, BatchesStayKnown DEF QueuesMatchStatus
  <2>6. /\ skipped_waiting' = { q \in Req : status'[q] = Parked }
        /\ running' \cup waiting' = { q \in Req : status'[q] \in Queued }
        /\ running' = { q \in Req : status'[q] = "RUNNING" }
    BY <1>1, <1>2, <2>1, <2>3 DEF QueuesMatchStatus, Queued, Parked
  <2>7. \A q \in Req : status'[q] # "FINISHED_IGNORED"
    BY <1>2, <2>3 DEF QueuesMatchStatus, Parked
  <2>8. QueuesMatchStatus'
    BY <1>1, <1>2, <2>5, <2>6, <2>7 DEF QueuesMatchStatus
  <2>4. OnlyRunningIsComputed' /\ PrioritiesAreInitial'
    BY <1>2, <2>1, <2>2 DEF OnlyRunningIsComputed, PrioritiesAreInitial, Parked
  <2> QED BY <1>1, <2>4, <2>8, IdleQueueInv
<1>4. ASSUME NEW r \in Req, AbortRequest(r) PROVE QueueInv'
  <2>1. /\ r \in Unfinished
        /\ status' = [status EXCEPT ![r] = "FINISHED_ABORTED"]
        /\ IF status[r] = "RUNNING"
           THEN running' = running \ {r} /\ UNCHANGED <<waiting, skipped_waiting>>
           ELSE /\ waiting' = waiting \ {r}
                /\ skipped_waiting' = skipped_waiting \ {r}
                /\ UNCHANGED running
        /\ num_computed_tokens' = Zeroed(num_computed_tokens, {r})
        /\ priority' = Zeroed(priority, {r})
    BY <1>4 DEF AbortRequest, FreeRequests
  <2>2. status \in [Req -> Statuses]
    BY DEF TypeOK, RequestsTypeOK
  <2>3. r \in Req /\ status[r] \in Queued \cup {Parked}
    BY <1>2, <2>1, <2>2 DEF Unfinished, requests, FinishedStatuses, Statuses,
                            QueuesMatchStatus, Queued, Parked
  <2>5. /\ status'[r] = "FINISHED_ABORTED"
        /\ \A q \in Req : q # r => status'[q] = status[q]
    BY <2>1, <2>2
  <2>6. skipped_waiting' = { q \in Req : status'[q] = Parked }
    BY <1>2, <2>1, <2>5 DEF QueuesMatchStatus, Queued, Parked
  <2>7. /\ running' = { q \in Req : status'[q] = "RUNNING" }
        /\ running' \cup waiting' = { q \in Req : status'[q] \in Queued }
    BY <1>1, <1>2, <2>1, <2>5 DEF QueuesMatchStatus, QueuesAreDisjoint, Queued
  <2>9. BatchesAreKnown'
    BY <1>1, <1>2, <2>5, BatchesStayKnown DEF QueuesMatchStatus, Parked
  <2>8. QueuesMatchStatus'
    BY <1>1, <1>2, <2>5, <2>6, <2>7, <2>9 DEF QueuesMatchStatus, Parked
  <2>4. OnlyRunningIsComputed' /\ PrioritiesAreInitial'
    BY <1>2, <2>1, <2>2 DEF OnlyRunningIsComputed, PrioritiesAreInitial, Zeroed
  <2> QED BY <1>1, <2>4, <2>8, IdleQueueInv
<1>5. ASSUME NEW pause \in {"UNPAUSED", "PAUSED_NEW", "PAUSED_ALL"}, SetPauseState(pause)
      PROVE  QueueInv'
  <2>1. UNCHANGED <<status, running, waiting, skipped_waiting, num_computed_tokens, priority>>
    BY <1>5 DEF SetPauseState, requestVars, queueVars
  <2>2. QueuesMatchStatus' /\ OnlyRunningIsComputed' /\ PrioritiesAreInitial'
    BY <1>1, <1>2, <2>1
       DEF QueuesMatchStatus, BatchesAreKnown, OnlyRunningIsComputed, PrioritiesAreInitial
  <2> QED BY <1>1, <2>2, IdleQueueInv
<1> QED BY <1>3, <1>4, <1>5 DEF ClientStep, ResetPrefixCache

\* update_from_output keeps the invariant: the requests it stops are all in running
\* or waiting, and it takes them out of the right one.
LEMMA OutputQueueInv ==
  ASSUME TypeOK, IndexInv, QueueInv, UpdateFromOutput
  PROVE  QueueInv'
<1>1. /\ step.phase = "idle" /\ step' = step /\ failed_assertion = "none"
      /\ ignored_req_ids' = ignored_req_ids /\ skipped_waiting' = skipped_waiting
      /\ batch_queue # <<>> /\ batch_queue' = Tail(batch_queue)
  BY DEF UpdateFromOutput, Phase, queueManagerVars
<1>2. /\ QueuesMatchStatus /\ OnlyRunningIsComputed /\ PrioritiesAreInitial
      /\ QueuesAreDisjoint
  BY <1>1 DEF QueueInv, IndexInv
<1>3. status \in [Req -> Statuses] /\ batch_queue \in Seq(Batches)
  BY DEF TypeOK, RequestsTypeOK, QueuesTypeOK
<1> DEFINE batch == Head(batch_queue)
<1>4. PICK stopped \in SUBSET (batch.scheduled \cap Unfinished) :
        /\ \A r \in Req : status'[r] = status[r] \/
             (r \in stopped /\ status'[r] \in {"FINISHED_STOPPED", "FINISHED_LENGTH_CAPPED"})
        /\ \A r \in stopped : status'[r] \in {"FINISHED_STOPPED", "FINISHED_LENGTH_CAPPED"}
        /\ num_computed_tokens' = Zeroed(num_computed_tokens, stopped)
        /\ priority' = Zeroed(priority, stopped)
        /\ running' = running \ {r \in stopped : status[r] = "RUNNING"}
        /\ waiting' = waiting \ {r \in stopped : status[r] # "RUNNING"}
  <2> DEFINE live == batch.scheduled \cap Unfinished
             sampled == batch.sampled \cap live
             extended == sampled \ Discarded(sampled)
             capped == { r \in extended : \/ NumTokens(r) + 1 >= MaxModelLen
                                          \/ num_output_tokens[r] + 1 >= MaxTokens[r] }
  <2>1. Unfinished \subseteq Req
    BY DEF Unfinished, requests
  <2>2. extended \subseteq live /\ capped \subseteq extended
    OBVIOUS
  <2> HIDE DEF extended, capped
  <2>3. PICK eos \in SUBSET extended :
          LET stopped == eos \cup capped
          IN  /\ status' = [r \in Req |->
                   IF r \in eos THEN "FINISHED_STOPPED"
                   ELSE IF r \in capped THEN "FINISHED_LENGTH_CAPPED"
                   ELSE status[r]]
              /\ num_computed_tokens' = Zeroed(num_computed_tokens, stopped)
              /\ priority' = Zeroed(priority, stopped)
              /\ running' = running \ {r \in stopped : status[r] = "RUNNING"}
              /\ waiting' = waiting \ {r \in stopped : status[r] # "RUNNING"}
    BY DEF UpdateFromOutput, extended, capped
  <2>4. eos \cup capped \in SUBSET (batch.scheduled \cap Unfinished)
    BY <2>2
  <2> HIDE DEF batch
  <2>5. \A r \in Req : status'[r] = IF r \in eos THEN "FINISHED_STOPPED"
                                    ELSE IF r \in capped THEN "FINISHED_LENGTH_CAPPED"
                                    ELSE status[r]
    BY <2>3
  <2> QED BY <2>1, <2>3, <2>4, <2>5
<1>5. \A r \in stopped : r \in Req /\ status[r] \in Queued
  <2>1. batch = batch_queue[1] /\ 1 \in 1..Len(batch_queue)
    BY <1>1, <1>3, EmptySeq
  <2>2. \A r \in stopped : status[r] \notin {"UNSEEN", Parked}
    BY <1>2, <1>4, <2>1 DEF QueuesMatchStatus, BatchesAreKnown
  <2> QED BY <1>2, <1>3, <1>4, <2>2
          DEF QueuesMatchStatus, Unfinished, requests, FinishedStatuses, Statuses,
              Queued, Parked
<1> HIDE DEF batch
<1>6. BatchesAreKnown'
  <2>1. ASSUME NEW i \in 1..Len(batch_queue')
        PROVE  i + 1 \in 1..Len(batch_queue) /\ batch_queue'[i] = batch_queue[i + 1]
    <3>1. /\ Len(batch_queue') = Len(batch_queue) - 1
          /\ \A j \in 1..Len(Tail(batch_queue)) :
               Tail(batch_queue)[j] = batch_queue[j + 1]
      BY <1>1, <1>3, HeadTailProperties
    <3>2. Len(batch_queue) \in Nat
      BY <1>3, LenProperties
    <3> QED BY <1>1, <3>1, <3>2
  <2>2. \A i \in 1..Len(batch_queue) : batch_queue[i].scheduled \subseteq Req
    <3>1. \A i \in 1..Len(batch_queue) : batch_queue[i] \in Batches
      BY <1>3, ElementOfSeq
    <3> QED BY <3>1 DEF Batches
  <2>3. ASSUME NEW i \in 1..Len(batch_queue'), NEW r \in batch_queue'[i].scheduled
        PROVE  status'[r] \notin {"UNSEEN", Parked}
    <3>1. i + 1 \in 1..Len(batch_queue) /\ r \in batch_queue[i + 1].scheduled
      BY <2>1, <2>3
    <3>2. r \in Req /\ status[r] \notin {"UNSEEN", Parked}
      BY <1>2, <2>2, <3>1 DEF QueuesMatchStatus, BatchesAreKnown
    <3> QED BY <1>4, <3>2 DEF Parked
  <2> QED BY <2>3 DEF BatchesAreKnown
<1>7. QueuesMatchStatus'
  <2>1. \A r \in Req : r \in stopped => status'[r] \notin Queued \cup {Parked, "RUNNING",
                                                    "FINISHED_IGNORED"}
    BY <1>4 DEF Queued, Parked
  <2>2. \A r \in Req : r \notin stopped => status'[r] = status[r]
    BY <1>4
  <2>3. skipped_waiting' = { r \in Req : status'[r] = Parked }
    BY <1>1, <1>2, <1>5, <2>1, <2>2 DEF QueuesMatchStatus, Queued, Parked
  <2>4. /\ running' = { r \in Req : status'[r] = "RUNNING" }
        /\ running' \cup waiting' = { r \in Req : status'[r] \in Queued }
    BY <1>1, <1>2, <1>4, <1>5, <2>1, <2>2
       DEF QueuesMatchStatus, QueuesAreDisjoint, Queued
  <2> QED BY <1>1, <1>2, <1>6, <2>1, <2>2, <2>3, <2>4 DEF QueuesMatchStatus
<1>8. OnlyRunningIsComputed' /\ PrioritiesAreInitial'
  BY <1>2, <1>4 DEF OnlyRunningIsComputed, PrioritiesAreInitial, Zeroed
<1> QED BY <1>1, <1>7, <1>8, IdleQueueInv

-----------------------------------------------------------------------------
\* What the other invariants say of the merged list while a schedule() is under way.
LEMMA DuringSchedule ==
  ASSUME TypeOK, IndexInv, QueueInv, InSchedule
  PROVE  /\ Roles /\ Exact
         /\ Len(combined) \in Nat
         /\ DOMAIN combined = 1..Len(combined)
         /\ \A i \in 1..Len(combined) : combined[i] \in Req /\ combined[i] \in Range(combined)
         /\ \A i, j \in 1..Len(combined) : combined[i] = combined[j] => i = j
         /\ \A r \in Range(combined) : \E i \in 1..Len(combined) : r = combined[i]
         /\ Range(combined) = { r \in Req : status[r] \in Queued }
<1>1. QueuesMatchStatus
  BY DEF QueueInv, InSchedule
<1>2. Roles /\ Exact /\ Range(combined) = running \cup waiting
  BY <1>1 DEF IndexInv, CombinedIsMerged, QueuesMatchStatus
<1>3. combined \in Seq(Req)
  BY <1>2 DEF Roles
<1>4. Len(combined) \in Nat /\ DOMAIN combined = 1..Len(combined)
  BY <1>3, LenProperties
<1>5. \A i \in 1..Len(combined) : combined[i] \in Req
  BY <1>3, ElementOfSeq
<1>6. /\ \A i \in 1..Len(combined) : combined[i] \in Range(combined)
      /\ \A r \in Range(combined) : \E i \in 1..Len(combined) : r = combined[i]
  BY <1>4 DEF Range
<1>7. \A i, j \in 1..Len(combined) : combined[i] = combined[j] => i = j
  BY <1>2, <1>4 DEF Roles, IsInjective
<1>8. running \cup waiting = { r \in Req : status[r] \in Queued }
  BY <1>1 DEF QueuesMatchStatus
<1> QED BY <1>2, <1>4, <1>5, <1>6, <1>7, <1>8

\* Inside a schedule() the queues are left alone, and requests change between
\* the statuses of queued requests only.
LEMMA QueuesStayMatched ==
  ASSUME TypeOK, QueuesMatchStatus, step'.phase # "idle",
         UNCHANGED <<running, waiting, skipped_waiting, ignored_req_ids, batch_queue>>,
         \A r \in Req : status'[r] = status[r] \/ (status[r] \in Queued /\ status'[r] \in Queued)
  PROVE  QueuesMatchStatus'
<1>1. \A r \in Req : /\ status'[r] \in Queued <=> status[r] \in Queued
                     /\ status'[r] = Parked <=> status[r] = Parked
                     /\ status[r] # "FINISHED_IGNORED" => status'[r] # "FINISHED_IGNORED"
                     /\ status[r] \notin {"UNSEEN", Parked} => status'[r] \notin {"UNSEEN", Parked}
  BY DEF Queued, Parked
<1>2. BatchesAreKnown'
  BY <1>1, BatchesStayKnown DEF QueuesMatchStatus
<1>3. /\ { r \in Req : status'[r] \in Queued } = { r \in Req : status[r] \in Queued }
      /\ { r \in Req : status'[r] = Parked } = { r \in Req : status[r] = Parked }
  BY <1>1
<1> QED BY <1>1, <1>2, <1>3 DEF QueuesMatchStatus

\* A step that only moves on in the list changes the locals of schedule() alone.
LEMMA MovingOn ==
  ASSUME TypeOK, QueueInv, InSchedule, step'.phase # "idle", failed_assertion' = failed_assertion,
         UNCHANGED queueManagerVars, UNCHANGED requestVars, UNCHANGED queueVars,
         UNCHANGED batch_queue,
         RolesInv', LoopInv', AllocInv', ScheduledInv', TailInv'
  PROVE  QueueInv'
<1>1. /\ QueuesMatchStatus /\ OnlyRunningIsComputed /\ PrioritiesAreInitial
      /\ CombinedIsStrictlySorted /\ step.phase # "idle"
  BY DEF QueueInv, InSchedule
<1>2. QueuesMatchStatus'
  BY <1>1, QueuesStayMatched DEF requestVars, queueVars, queueManagerVars
<1>3. OnlyRunningIsComputed' /\ PrioritiesAreInitial'
  BY <1>1 DEF OnlyRunningIsComputed, PrioritiesAreInitial, requestVars
<1>4. CombinedIsStrictlySorted'
  BY <1>1 DEF CombinedIsStrictlySorted, requestVars, queueManagerVars
<1> QED BY <1>2, <1>3, <1>4 DEF QueueInv

\* update_priorities and combine_queues establish the invariant of the loop.
LEMMA BeginQueueInv ==
  ASSUME DistinctArrivals, TypeOK, IndexInv, QueueInv, BeginSchedule
  PROVE  QueueInv'
<1> DEFINE P == {r \in running : status[r] = "PREEMPTED"}
<1>1. /\ step.phase = "idle" /\ failed_assertion = "none" /\ failed_assertion' = "none"
      /\ UNCHANGED <<status, num_computed_tokens, running, waiting, skipped_waiting, batch_queue>>
      /\ priority' \in UpdatedPriorities(requests, priority)
      /\ CombineQueues(running, P, waiting, priority')
  BY DEF BeginSchedule, BetweenSteps, Phase, queueVars, engineVars
<1>2. /\ QueuesMatchStatus /\ OnlyRunningIsComputed /\ PrioritiesAreInitial
      /\ running = { r \in Req : status[r] = "RUNNING" }
      /\ running \cup waiting = { r \in Req : status[r] \in Queued }
  BY <1>1 DEF QueueInv, QueuesMatchStatus
<1>3. P = {}
  BY <1>2
<1>4. /\ step'.phase = "loop" /\ step'.req_index = 1
      /\ step'.num_scheduled_tokens = [r \in Req |-> 0]
      /\ step'.scheduled_running_reqs = {} /\ step'.preempted_req_ids = {}
  BY DEF BeginSchedule, Idle
<1>5. /\ running_req_ids' = running /\ preempted_req_ids' = {}
      /\ ignored_req_ids' = ignored_req_ids
  BY <1>1, <1>3 DEF CombineQueues
<1>6. /\ TypeOK' /\ IndexInv'
  BY BeginTypes, BeginIndexInv
<1>7. /\ Roles' /\ Range(combined') = running \cup waiting
  BY <1>1, <1>2, <1>4, <1>5, <1>6 DEF IndexInv, CombinedIsMerged, InSchedule, QueuesMatchStatus
<1>8. /\ Len(combined') \in Nat /\ DOMAIN combined' = 1..Len(combined')
      /\ \A i \in 1..Len(combined') : combined'[i] \in Range(combined')
      /\ \A i, j \in 1..Len(combined') : combined'[i] = combined'[j] => i = j
  BY <1>7, LenProperties DEF Roles, IsInjective, Range
<1>9. /\ ~Ranking => \A r \in Req : priority'[r] \in {0, InitialPriority(r)}
      /\ \A r \in requests : priority'[r] # 0
      /\ \A p, q \in requests : priority'[p] = priority'[q] => p = q
  <2>1. requests \in SUBSET Req /\ priority \in [Req -> Nat]
    BY DEF requests, TypeOK, RequestsTypeOK
  <2>2. ~Ranking => \A r \in Req : priority[r] \in {0, InitialPriority(r)}
    BY <1>2 DEF PrioritiesAreInitial
  <2>3. \A updated \in UpdatedPriorities(requests, priority) :
          /\ ~Ranking => \A r \in Req : updated[r] \in {0, InitialPriority(r)}
          /\ \A r \in requests : updated[r] # 0
          /\ \A p, q \in requests : updated[p] = updated[q] => p = q
    BY <2>1, <2>2, UpdatedPrioritiesAreDistinct
  <2> QED BY <1>1, <2>3
<1>10. running \cup waiting \subseteq requests
  BY <1>2 DEF requests, Queued, FinishedStatuses
<1>11. \A i, j \in 1..Len(combined') : i < j => priority'[combined'[i]] <= priority'[combined'[j]]
  <2>1. /\ running \in SUBSET Req /\ P \in SUBSET running /\ waiting \in SUBSET Req
        /\ priority' \in [Req -> Nat]
    BY <1>6 DEF TypeOK, QueuesTypeOK, RequestsTypeOK
  <2> HIDE DEF P
  <2> QED BY <1>1, <2>1, CombinedIsSorted
<1>12. CombinedIsStrictlySorted'
  <2>1. \A i \in 1..Len(combined') : combined'[i] \in requests /\ combined'[i] \in Req
    BY <1>7, <1>8, <1>10 DEF requests
  <2>2. \A r \in Req : priority'[r] \in Nat
    BY <1>6 DEF TypeOK, RequestsTypeOK
  <2>3. ASSUME NEW i \in 1..Len(combined'), NEW j \in 1..Len(combined'), i < j
        PROVE  priority'[combined'[i]] < priority'[combined'[j]]
    <3>1. priority'[combined'[i]] # priority'[combined'[j]]
      BY <1>8, <1>9, <2>1, <2>3
    <3>2. priority'[combined'[i]] \in Nat /\ priority'[combined'[j]] \in Nat
      BY <2>1, <2>2
    <3> QED BY <1>11, <2>3, <3>1, <3>2
  <2> QED BY <1>9, <2>1, <2>3 DEF CombinedIsStrictlySorted
<1>13. RolesInv'
  <2>1. running_req_ids' = { r \in Range(combined') : status'[r] = "RUNNING" }
    BY <1>1, <1>2, <1>5, <1>7
  <2> QED BY <2>1 DEF RolesInv
<1>14. LoopInv' /\ AllocInv' /\ ScheduledInv' /\ TailInv'
  <2>1. 1 \in 1..(Len(combined') + 1)
    BY <1>8
  <2>2. \A i \in 1..Len(combined') : ~(i < 1)
    BY <1>8
  <2>3. LoopInv'
    BY <1>4, <1>5, <2>1, <2>2 DEF LoopInv
  <2> QED BY <1>4, <2>3 DEF AllocInv, ScheduledInv, TailInv
<1>15. QueuesMatchStatus'
  BY <1>1, <1>2, <1>4, <1>5, QueuesStayMatched
<1>16. OnlyRunningIsComputed' /\ PrioritiesAreInitial'
  BY <1>1, <1>2, <1>9 DEF OnlyRunningIsComputed, PrioritiesAreInitial
<1> QED BY <1>12, <1>13, <1>14, <1>15, <1>16 DEF QueueInv

\* The locals that matter to the queues, after an iteration passes over, schedules
\* or takes in hand a request.
LEMMA LocalFields ==
  ASSUME NEW local \in Locals, NEW r \in Req
  PROVE  /\ PassedOver(local) = [local EXCEPT !.req_index = local.req_index + 1]
         /\ Scheduled(r, local).phase = "loop"
         /\ Scheduled(r, local).req_index = local.req_index + 1
         /\ Scheduled(r, local).preempted_req_ids = local.preempted_req_ids
         /\ Scheduled(r, local).scheduled_running_reqs = local.scheduled_running_reqs
         /\ \A q \in Req : q # r => Scheduled(r, local).num_scheduled_tokens[q]
                                      = local.num_scheduled_tokens[q]
BY DEF Locals, PassedOver, Scheduled

\* Leaving the loop, for the preemptions at the end or without them, keeps the
\* invariant: at that moment ids and statuses agree.
LEMMA EndLoopQueueInv ==
  ASSUME TypeOK, IndexInv, QueueInv, EndLoop
  PROVE  QueueInv'
<1>1. /\ InSchedule /\ step.phase = "loop" /\ failed_assertion' = failed_assertion
      /\ UNCHANGED queueManagerVars /\ UNCHANGED requestVars
      /\ UNCHANGED queueVars /\ UNCHANGED batch_queue
      /\ step' = [step EXCEPT !.phase = "tail"] \/ step' = [step EXCEPT !.phase = "commit"]
  BY DEF EndLoop, Phase, InSchedule, engineVars
<1>2. /\ step'.phase \in {"tail", "commit"}
      /\ step'.req_index = step.req_index
      /\ step'.num_scheduled_tokens = step.num_scheduled_tokens
  BY <1>1 DEF TypeOK, StepTypeOK, Locals
<1>3. /\ RolesInv /\ LoopInv /\ ScheduledInv
  BY <1>1 DEF QueueInv, InSchedule
<1>4. /\ combined' = combined /\ running_req_ids' = running_req_ids /\ status' = status
  BY <1>1 DEF queueManagerVars, requestVars
<1>5. RolesInv' /\ LoopInv' /\ AllocInv' /\ ScheduledInv'
  BY <1>1, <1>2, <1>3, <1>4 DEF RolesInv, LoopInv, AllocInv, ScheduledInv
<1>6. /\ Len(combined) \in Nat /\ step.req_index \in Int
      /\ \A i \in 1..Len(combined) : combined[i] \in Req /\ combined[i] \in Range(combined)
  BY <1>1, DuringSchedule DEF TypeOK, StepTypeOK, Locals
<1>7. RunningIdIndices = RunningIndices /\ running_req_ids \subseteq Range(combined)
  BY <1>1, <1>3, <1>6 DEF RolesInv, RunningIdIndices, RunningIndices
<1>8. Reached \subseteq RunningIndices
  BY DEF Reached
<1>9. \A i \in RunningIdIndices \ Reached, j \in Reached : j < i
  BY <1>6, <1>7 DEF Reached, RunningIndices
<1>10. TailInv'
  <2>1. /\ RunningIdIndices' = RunningIdIndices /\ Reached' = Reached
        /\ RunningIndices' = RunningIndices
    BY <1>2, <1>4 DEF RunningIdIndices, RunningIndices, Reached
  <2>2. step.req_index \in 1..(Len(combined) + 1)
    BY <1>1, <1>3 DEF LoopInv
  <2> QED BY <1>2, <1>4, <1>7, <1>8, <1>9, <2>1, <2>2 DEF TailInv
<1> QED BY <1>1, <1>2, <1>5, <1>10, MovingOn

\* Giving up the allocation keeps the invariant.
LEMMA GiveUpQueueInv ==
  ASSUME TypeOK, IndexInv, QueueInv, GiveUpAllocation
  PROVE  QueueInv'
<1>1. /\ InSchedule /\ step.phase = "alloc" /\ failed_assertion' = failed_assertion
      /\ UNCHANGED queueManagerVars /\ UNCHANGED requestVars
      /\ UNCHANGED queueVars /\ UNCHANGED batch_queue
      /\ step' = [step EXCEPT !.phase = "commit", !.request = NoRequest,
                              !.num_new_tokens = 0, !.compute_encoder = FALSE]
  BY DEF GiveUpAllocation, Phase, InSchedule, engineVars
<1>2. /\ step'.phase = "commit"
      /\ step'.num_scheduled_tokens = step.num_scheduled_tokens
  BY <1>1 DEF TypeOK, StepTypeOK, Locals
<1>3. /\ RolesInv /\ ScheduledInv
  BY <1>1 DEF QueueInv, InSchedule
<1>4. /\ combined' = combined /\ running_req_ids' = running_req_ids /\ status' = status
  BY <1>1 DEF queueManagerVars, requestVars
<1>5. RolesInv' /\ LoopInv' /\ AllocInv' /\ ScheduledInv' /\ TailInv'
  BY <1>1, <1>2, <1>3, <1>4 DEF RolesInv, LoopInv, AllocInv, ScheduledInv, TailInv
<1> QED BY <1>1, <1>2, <1>5, MovingOn

\* The request in hand stays in the list while the loop looks at it.
LEMMA CurrentIsListed ==
  ASSUME TypeOK, IndexInv, QueueInv, NEW r \in Req, Current(r)
  PROVE  /\ InSchedule /\ step.phase = "loop"
         /\ RolesInv /\ LoopInv /\ ScheduledInv
         /\ step.req_index \in 1..Len(combined) /\ step.req_index \in Int
         /\ Len(combined) \in Nat
         /\ r = combined[step.req_index] /\ r \in Range(combined)
         /\ r \notin preempted_req_ids
<1>1. /\ InSchedule /\ step.phase = "loop" /\ step.req_index <= Len(combined)
      /\ r = combined[step.req_index] /\ r \notin step.preempted_req_ids
  BY DEF Current, Phase, InSchedule
<1>2. RolesInv /\ LoopInv /\ ScheduledInv
  BY <1>1 DEF QueueInv, InSchedule
<1>3. /\ preempted_req_ids = step.preempted_req_ids
      /\ step.req_index \in 1..(Len(combined) + 1)
  BY <1>1, <1>2 DEF LoopInv
<1>4. /\ Len(combined) \in Nat
      /\ \A i \in 1..Len(combined) : combined[i] \in Range(combined)
  BY <1>1, DuringSchedule
<1>5. step.req_index \in 1..Len(combined)
  BY <1>1, <1>3, <1>4
<1> QED BY <1>1, <1>2, <1>3, <1>4, <1>5

\* Passing over a running request keeps the invariant.
LEMMA PassingOverQueueInv ==
  ASSUME TypeOK, IndexInv, QueueInv, NEW r \in Req, Current(r), r \in running_req_ids,
         step' = PassedOver(step), failed_assertion' = failed_assertion,
         UNCHANGED queueManagerVars, UNCHANGED requestVars, UNCHANGED queueVars,
         UNCHANGED batch_queue
  PROVE  QueueInv'
<1>1. /\ InSchedule /\ step.phase = "loop"
      /\ RolesInv /\ LoopInv /\ ScheduledInv
      /\ step.req_index \in 1..Len(combined) /\ step.req_index \in Int
      /\ Len(combined) \in Nat
      /\ r = combined[step.req_index]
  BY CurrentIsListed
<1>2. step' = [step EXCEPT !.req_index = step.req_index + 1]
  BY LocalFields DEF TypeOK, StepTypeOK
<1>3. /\ step'.phase = "loop" /\ step'.req_index = step.req_index + 1
      /\ step'.num_scheduled_tokens = step.num_scheduled_tokens
      /\ step'.scheduled_running_reqs = step.scheduled_running_reqs
      /\ step'.preempted_req_ids = step.preempted_req_ids
  BY <1>1, <1>2 DEF TypeOK, StepTypeOK, Locals
<1>4. /\ combined' = combined /\ running_req_ids' = running_req_ids /\ status' = status
      /\ preempted_req_ids' = preempted_req_ids
  BY DEF queueManagerVars, requestVars
<1>5. \A i \in 1..Len(combined) : /\ i < step.req_index => i < step'.req_index
                                  /\ i < step'.req_index => i < step.req_index
                                                         \/ i = step.req_index
  BY <1>1, <1>3
<1>6. RolesInv'
  BY <1>1, <1>4 DEF RolesInv
<1>7. LoopInv'
  <2>1. step'.req_index \in 1..(Len(combined) + 1)
    BY <1>1, <1>3
  <2>2. \A i \in 1..Len(combined) : i < step'.req_index => combined[i] \in running_req_ids
    BY <1>1, <1>5 DEF LoopInv
  <2>3. \A q \in step.scheduled_running_reqs :
          \E i \in 1..Len(combined) : i < step'.req_index /\ q = combined[i]
    BY <1>1, <1>5 DEF LoopInv
  <2> QED BY <1>1, <1>3, <1>4, <2>1, <2>2, <2>3 DEF LoopInv
<1>8. ScheduledInv'
  BY <1>1, <1>3, <1>4, <1>5 DEF ScheduledInv
<1>9. AllocInv' /\ TailInv'
  BY <1>3 DEF AllocInv, TailInv
<1> QED BY <1>1, <1>3, <1>6, <1>7, <1>8, <1>9, MovingOn

\* Ending the loop at a request, or trying to allocate for it, keeps the invariant.
LEMMA LeavingLoopQueueInv ==
  ASSUME TypeOK, IndexInv, QueueInv, NEW r \in Req, Current(r),
         \/ step' = [step EXCEPT !.phase = "commit"]
         \/ \E outcome : TryToAllocate(r, outcome),
         failed_assertion' = failed_assertion,
         UNCHANGED queueManagerVars, UNCHANGED requestVars, UNCHANGED queueVars,
         UNCHANGED batch_queue
  PROVE  QueueInv'
<1>1. /\ InSchedule /\ step.phase = "loop"
      /\ RolesInv /\ LoopInv /\ ScheduledInv
      /\ step.req_index \in 1..Len(combined)
      /\ Len(combined) \in Nat
      /\ r = combined[step.req_index] /\ r \notin preempted_req_ids
  BY CurrentIsListed
<1>2. /\ step'.req_index = step.req_index
      /\ step'.num_scheduled_tokens = step.num_scheduled_tokens
      /\ step'.scheduled_running_reqs = step.scheduled_running_reqs
      /\ step'.preempted_req_ids = step.preempted_req_ids
      /\ step'.phase = "commit" \/ (step'.phase = "alloc" /\ step'.request = r)
  BY DEF TypeOK, StepTypeOK, Locals, TryToAllocate
<1>3. /\ combined' = combined /\ running_req_ids' = running_req_ids /\ status' = status
      /\ preempted_req_ids' = preempted_req_ids
  BY DEF queueManagerVars, requestVars
<1>4. RolesInv' /\ LoopInv' /\ ScheduledInv' /\ TailInv'
  BY <1>1, <1>2, <1>3 DEF RolesInv, LoopInv, ScheduledInv, TailInv
<1>5. AllocInv'
  BY <1>1, <1>2, <1>3 DEF AllocInv
<1> QED BY <1>1, <1>2, <1>4, <1>5, MovingOn

\* The part of an iteration that precedes allocate_slots keeps the invariant; a
\* request passed over because its tokens are in flight has some, so it runs.
LEMMA ConsiderQueueInv ==
  ASSUME TypeOK, IndexInv, QueueInv, NEW r \in Req,
         SkipMaxTokensInFlight(r) \/ ConsiderRunning(r) \/ ConsiderWaiting(r)
  PROVE  QueueInv'
<1>1. /\ Current(r) /\ failed_assertion' = failed_assertion
      /\ UNCHANGED queueManagerVars /\ UNCHANGED requestVars /\ UNCHANGED queueVars
      /\ UNCHANGED batch_queue
  BY DEF SkipMaxTokensInFlight, ConsiderRunning, ConsiderWaiting, engineVars
<1>2. CASE SkipMaxTokensInFlight(r)
  <2>1. /\ num_output_placeholders[r] > 0
        /\ num_computed_tokens[r] + 2 - num_output_placeholders[r]
             >= PromptLen[r] + MaxTokens[r]
        /\ step' = PassedOver(step)
    BY <1>2 DEF SkipMaxTokensInFlight, MaxTokensInFlight
  <2>2. /\ PromptLen[r] \in Nat \ {0} /\ MaxTokens[r] \in Nat \ {0}
        /\ num_output_placeholders[r] \in Int /\ num_computed_tokens[r] \in Int
    BY SchedulerAssumption DEF TypeOK, RequestsTypeOK
  <2>3. num_computed_tokens[r] # 0
    BY <2>1, <2>2
  <2>4. status[r] = "RUNNING"
    BY <1>1, <2>3 DEF QueueInv, OnlyRunningIsComputed, Current, Phase
  <2>5. r \in Range(combined) /\ RolesInv /\ step.phase = "loop"
    BY <1>1, CurrentIsListed
  <2>6. r \in running_req_ids
    BY <2>4, <2>5 DEF RolesInv
  <2> QED BY <1>1, <2>1, <2>6, PassingOverQueueInv
<1>3. CASE ConsiderRunning(r)
  <2>1. r \in running_req_ids /\ \/ step' = PassedOver(step)
                                 \/ \E outcome : TryToAllocate(r, outcome)
    BY <1>3 DEF ConsiderRunning
  <2> QED BY <1>1, <2>1, PassingOverQueueInv, LeavingLoopQueueInv
<1>4. CASE ConsiderWaiting(r)
  <2>1. \/ step' = [step EXCEPT !.phase = "commit"]
        \/ \E outcome : TryToAllocate(r, outcome)
    BY <1>4 DEF ConsiderWaiting
  <2> QED BY <1>1, <2>1, LeavingLoopQueueInv
<1> QED BY <1>2, <1>3, <1>4

\* A request that fits the model and whose image fits the cache is never ignored.
LEMMA NothingIsIgnored ==
  ASSUME EveryImageFits, NEW r \in Req
  PROVE  ~IgnoreWaiting(r)
<1>1. /\ PromptLen[r] \in Nat /\ MaxModelLen \in Nat /\ NumBlocks * BlockSize \in Int
      /\ PromptLen[r] < MaxModelLen /\ MaxModelLen <= NumBlocks * BlockSize
  BY SchedulerAssumption
<1>2. ~PromptTooLong(r)
  BY <1>1 DEF PromptTooLong
<1>3. /\ EncoderTokens[r] \in Nat /\ EncoderCacheSize \in Nat
      /\ MaxNumEncoderInputTokens \in Nat
  BY SchedulerAssumption
<1>4. ~EncoderInputTooLong(r)
  BY <1>3 DEF EveryImageFits, EncoderInputTooLong
<1> QED BY <1>2, <1>4 DEF IgnoreWaiting

\* The request in hand stays in the list while allocate_slots is tried.
LEMMA InHandIsListed ==
  ASSUME TypeOK, IndexInv, QueueInv, Phase("alloc")
  PROVE  /\ InSchedule
         /\ RolesInv /\ LoopInv /\ AllocInv /\ ScheduledInv
         /\ step.req_index \in 1..Len(combined) /\ step.req_index \in Int
         /\ Len(combined) \in Nat
         /\ step.request = combined[step.req_index] /\ step.request \in Req
         /\ step.request \notin preempted_req_ids
<1>1. InSchedule
  BY DEF Phase, InSchedule
<1>2. RolesInv /\ LoopInv /\ AllocInv /\ ScheduledInv
  BY <1>1 DEF QueueInv, InSchedule
<1>3. /\ step.req_index \in 1..(Len(combined) + 1)
      /\ step.req_index <= Len(combined)
      /\ step.request = combined[step.req_index]
      /\ step.request \notin preempted_req_ids
  BY <1>2 DEF Phase, LoopInv, AllocInv
<1>4. /\ Len(combined) \in Nat
      /\ \A i \in 1..Len(combined) : combined[i] \in Req
  BY <1>1, DuringSchedule
<1>5. step.req_index \in 1..Len(combined) /\ step.req_index \in Int
  BY <1>3, <1>4
<1> QED BY <1>1, <1>2, <1>3, <1>4, <1>5

\* Scheduling a running request keeps the invariant.
LEMMA ScheduleRunningQueueInv ==
  ASSUME TypeOK, IndexInv, QueueInv, NEW r \in Req, ScheduleRunning(r)
  PROVE  QueueInv'
<1>1. /\ InSchedule /\ step.phase = "alloc"
      /\ RolesInv /\ LoopInv /\ ScheduledInv
      /\ step.req_index \in 1..Len(combined) /\ step.req_index \in Int
      /\ Len(combined) \in Nat
      /\ r = combined[step.req_index] /\ r \in running_req_ids
  BY InHandIsListed DEF ScheduleRunning, Phase
<1>2. /\ failed_assertion' = failed_assertion
      /\ UNCHANGED queueManagerVars /\ UNCHANGED requestVars /\ UNCHANGED queueVars
      /\ UNCHANGED batch_queue
  BY DEF ScheduleRunning, engineVars
<1>3. /\ step'.phase = "loop" /\ step'.req_index = step.req_index + 1
      /\ step'.preempted_req_ids = step.preempted_req_ids
      /\ step'.scheduled_running_reqs = step.scheduled_running_reqs \cup {r}
      /\ \A q \in Req : q # r => step'.num_scheduled_tokens[q] = step.num_scheduled_tokens[q]
  <2> DEFINE local == Scheduled(r, step)
  <2>1. /\ local \in Locals /\ local.phase = "loop" /\ local.req_index = step.req_index + 1
        /\ local.preempted_req_ids = step.preempted_req_ids
        /\ local.scheduled_running_reqs = step.scheduled_running_reqs
        /\ \A q \in Req : q # r => local.num_scheduled_tokens[q] = step.num_scheduled_tokens[q]
    BY LocalFields, LocalsTypes DEF TypeOK, StepTypeOK
  <2>2. step' = [local EXCEPT !.scheduled_running_reqs = @ \cup {r}]
    BY DEF ScheduleRunning
  <2> HIDE DEF local
  <2> QED BY <2>1, <2>2 DEF Locals
<1>4. /\ combined' = combined /\ running_req_ids' = running_req_ids /\ status' = status
      /\ preempted_req_ids' = preempted_req_ids
  BY <1>2 DEF queueManagerVars, requestVars
<1>5. \A i \in 1..Len(combined) : /\ i < step.req_index => i < step'.req_index
                                  /\ i < step'.req_index => i < step.req_index
                                                         \/ i = step.req_index
  BY <1>1, <1>3
<1>6. step.req_index < step'.req_index
  BY <1>1, <1>3
<1>7. RolesInv'
  BY <1>1, <1>4 DEF RolesInv
<1>8. LoopInv'
  <2>1. step'.req_index \in 1..(Len(combined) + 1)
    BY <1>1, <1>3
  <2>2. \A i \in 1..Len(combined) : i < step'.req_index => combined[i] \in running_req_ids
    BY <1>1, <1>5 DEF LoopInv
  <2>3. \A q \in step'.scheduled_running_reqs :
          \E i \in 1..Len(combined) : i < step'.req_index /\ q = combined[i]
    BY <1>1, <1>3, <1>5, <1>6 DEF LoopInv
  <2> QED BY <1>1, <1>3, <1>4, <2>1, <2>2, <2>3 DEF LoopInv
<1>9. ScheduledInv'
  <2>1. status[r] = "RUNNING"
    BY <1>1 DEF RolesInv
  <2> QED BY <1>1, <1>3, <1>4, <1>5, <1>6, <2>1 DEF ScheduledInv
<1>10. AllocInv' /\ TailInv'
  BY <1>3 DEF AllocInv, TailInv
<1> QED BY <1>1, <1>2, <1>3, <1>7, <1>8, <1>9, <1>10, MovingOn

\* Admitting a request keeps the invariant: the one update_idxs_after_new_scheduling
\* acts on, at first_waiting_idx, is the one in hand.
LEMMA ScheduleWaitingQueueInv ==
  ASSUME TypeOK, IndexInv, QueueInv, NEW r \in Req, ScheduleWaiting(r)
  PROVE  QueueInv'
<1>1. /\ InSchedule /\ step.phase = "alloc"
      /\ RolesInv /\ LoopInv /\ ScheduledInv
      /\ step.req_index \in 1..Len(combined) /\ step.req_index \in Int
      /\ Len(combined) \in Nat
      /\ r = combined[step.req_index] /\ r \in waiting_req_ids
      /\ r \notin preempted_req_ids
  BY InHandIsListed DEF ScheduleWaiting, Phase
<1>2. /\ failed_assertion' = failed_assertion /\ failed_assertion = "none"
      /\ UpdateIdxsAfterNewScheduling
      /\ status' = [status EXCEPT ![r] = "RUNNING"]
      /\ UNCHANGED <<num_computed_tokens, priority, running, waiting, skipped_waiting,
                     batch_queue>>
  BY DEF ScheduleWaiting, engineVars, queueVars, Phase
<1>3. /\ QueuesMatchStatus /\ OnlyRunningIsComputed /\ PrioritiesAreInitial
      /\ CombinedIsStrictlySorted
  BY <1>2 DEF QueueInv
<1>4. /\ Roles /\ Exact
      /\ \A i \in 1..Len(combined) : combined[i] \in Req /\ combined[i] \in Range(combined)
      /\ \A i, j \in 1..Len(combined) : combined[i] = combined[j] => i = j
      /\ Range(combined) = { q \in Req : status[q] \in Queued }
  BY <1>1, DuringSchedule
<1>5. first_waiting_idx = step.req_index
  <2>1. \A i \in 1..Len(combined) : i < step.req_index => combined[i] \notin Denied
    BY <1>1, <1>4 DEF LoopInv, Roles
  <2>2. combined[step.req_index] \in Denied
    BY <1>1 DEF Denied
  <2>3. /\ first_waiting_idx # 0 /\ first_waiting_idx <= step.req_index
        /\ first_waiting_idx \in 1..Len(combined)
        /\ combined[first_waiting_idx] \in Denied
    BY <1>1, <1>4, <2>2 DEF Exact, IsFirst
  <2> QED BY <1>1, <2>1, <2>3
<1>6. /\ running_req_ids' = running_req_ids \cup {r}
      /\ preempted_req_ids' = preempted_req_ids
      /\ combined' = combined /\ ignored_req_ids' = ignored_req_ids
  <2>1. first_waiting_idx # None /\ combined[first_waiting_idx] = r
    BY <1>1, <1>5 DEF None
  <2>2. /\ running_req_ids' = running_req_ids \cup {r}
        /\ preempted_req_ids' = preempted_req_ids \ {r}
        /\ combined' = combined /\ ignored_req_ids' = ignored_req_ids
    BY <1>2, <2>1 DEF UpdateIdxsAfterNewScheduling
  <2> QED BY <1>1, <2>2
<1>7. /\ step'.phase = "loop" /\ step'.req_index = step.req_index + 1
      /\ step'.preempted_req_ids = step.preempted_req_ids
      /\ step'.scheduled_running_reqs = step.scheduled_running_reqs
      /\ \A q \in Req : q # r => step'.num_scheduled_tokens[q] = step.num_scheduled_tokens[q]
  <2> DEFINE local == Scheduled(r, step)
  <2>1. /\ local \in Locals /\ local.phase = "loop" /\ local.req_index = step.req_index + 1
        /\ local.preempted_req_ids = step.preempted_req_ids
        /\ local.scheduled_running_reqs = step.scheduled_running_reqs
        /\ \A q \in Req : q # r => local.num_scheduled_tokens[q] = step.num_scheduled_tokens[q]
    BY LocalFields, LocalsTypes DEF TypeOK, StepTypeOK
  <2>2. step' = [local EXCEPT !.scheduled_resumed_reqs =
                   IF status[r] = "PREEMPTED" THEN @ \cup {r} ELSE @]
    BY DEF ScheduleWaiting
  <2> HIDE DEF local
  <2> QED BY <2>1, <2>2 DEF Locals
<1>8. /\ status'[r] = "RUNNING" /\ \A q \in Req : q # r => status'[q] = status[q]
      /\ status[r] \in Queued
  <2>1. r \in Range(combined)
    BY <1>1, <1>4
  <2> QED BY <1>2, <1>4, <2>1 DEF TypeOK, RequestsTypeOK
<1>9. \A i \in 1..Len(combined) : /\ i < step.req_index => i < step'.req_index
                                  /\ i < step'.req_index => i < step.req_index
                                                         \/ i = step.req_index
  BY <1>1, <1>7
<1>10. step.req_index < step'.req_index
  BY <1>1, <1>7
<1>11. RolesInv'
  <2>1. running_req_ids = { q \in Range(combined) : status[q] = "RUNNING" }
    BY <1>1 DEF RolesInv
  <2>2. r \in Range(combined) /\ Range(combined) \subseteq Req
    BY <1>1, <1>4
  <2>3. running_req_ids' = { q \in Range(combined) : status'[q] = "RUNNING" }
    BY <1>6, <1>8, <2>1, <2>2
  <2> QED BY <1>6, <2>3 DEF RolesInv
<1>12. LoopInv'
  <2>1. step'.req_index \in 1..(Len(combined) + 1)
    BY <1>1, <1>7
  <2>2. \A i \in 1..Len(combined) : i < step'.req_index => combined[i] \in running_req_ids'
    BY <1>1, <1>6, <1>9 DEF LoopInv
  <2>3. \A q \in step'.scheduled_running_reqs :
          \E i \in 1..Len(combined) : i < step'.req_index /\ q = combined[i]
    BY <1>1, <1>7, <1>9 DEF LoopInv
  <2> QED BY <1>1, <1>6, <1>7, <2>1, <2>2, <2>3 DEF LoopInv
<1>13. ScheduledInv'
  BY <1>1, <1>6, <1>7, <1>8, <1>9, <1>10 DEF ScheduledInv
<1>14. AllocInv' /\ TailInv'
  BY <1>7 DEF AllocInv, TailInv
<1>15. QueuesMatchStatus'
  <2>1. "RUNNING" \in Queued
    BY DEF Queued
  <2> QED BY <1>2, <1>3, <1>6, <1>7, <1>8, <2>1, QueuesStayMatched
<1>16. OnlyRunningIsComputed' /\ PrioritiesAreInitial' /\ CombinedIsStrictlySorted'
  BY <1>1, <1>2, <1>3, <1>6, <1>8
     DEF OnlyRunningIsComputed, PrioritiesAreInitial, CombinedIsStrictlySorted
<1> QED BY <1>11, <1>12, <1>13, <1>14, <1>15, <1>16 DEF QueueInv

\* What _preempt_request and update_idxs_after_preemption do to the queues when
\* there is a last running request for the latter to act on.
LEMMA PreemptingQueues ==
  ASSUME TypeOK, IndexInv, QueueInv, InSchedule, step'.phase # "idle",
         NEW victim \in Req, Preempt(victim), status[victim] = "RUNNING",
         last_running_idx # None, failed_assertion' = "none"
  PROVE  /\ QueuesMatchStatus' /\ OnlyRunningIsComputed' /\ PrioritiesAreInitial'
         /\ CombinedIsStrictlySorted'
         /\ last_running_idx \in 1..Len(combined)
         /\ combined[last_running_idx] \in running_req_ids
         /\ \A i \in 1..Len(combined) : combined[i] \in running_req_ids => i <= last_running_idx
         /\ combined' = combined
         /\ running_req_ids' = running_req_ids \ {combined[last_running_idx]}
         /\ preempted_req_ids' = preempted_req_ids \cup {combined[last_running_idx]}
         /\ status'[victim] = "PREEMPTED"
         /\ \A q \in Req : q # victim => status'[q] = status[q]
<1>1. /\ QueuesMatchStatus /\ OnlyRunningIsComputed /\ PrioritiesAreInitial
      /\ CombinedIsStrictlySorted
  BY DEF QueueInv, InSchedule
<1>2. /\ Roles /\ Exact /\ Len(combined) \in Nat
  BY DuringSchedule
<1>3. /\ last_running_idx \in 1..Len(combined)
      /\ combined[last_running_idx] \in running_req_ids
      /\ \A i \in 1..Len(combined) : combined[i] \in running_req_ids => i <= last_running_idx
  BY <1>2 DEF Exact, IsLast, None
<1>4. /\ combined' = combined /\ ignored_req_ids' = ignored_req_ids
      /\ running_req_ids' = running_req_ids \ {combined[last_running_idx]}
      /\ preempted_req_ids' = preempted_req_ids \cup {combined[last_running_idx]}
  BY DEF Preempt, UpdateIdxsAfterPreemption
<1>5. /\ status' = [status EXCEPT ![victim] = "PREEMPTED"]
      /\ num_computed_tokens' = [num_computed_tokens EXCEPT ![victim] = 0]
      /\ UNCHANGED <<priority, running, waiting, skipped_waiting, batch_queue>>
  BY DEF Preempt, queueVars, engineVars
<1>6. /\ status'[victim] = "PREEMPTED"
      /\ \A q \in Req : q # victim => status'[q] = status[q]
  BY <1>5 DEF TypeOK, RequestsTypeOK
<1>7. QueuesMatchStatus'
  <2>1. status[victim] \in Queued /\ "PREEMPTED" \in Queued
    BY DEF Queued
  <2> QED BY <1>1, <1>4, <1>5, <1>6, <2>1, QueuesStayMatched
<1>8. OnlyRunningIsComputed'
  <2>1. \A q \in Req : num_computed_tokens'[q] = IF q = victim THEN 0
                                                 ELSE num_computed_tokens[q]
    BY <1>5 DEF TypeOK, RequestsTypeOK
  <2> QED BY <1>1, <1>6, <2>1 DEF OnlyRunningIsComputed
<1>9. PrioritiesAreInitial' /\ CombinedIsStrictlySorted'
  BY <1>1, <1>4, <1>5 DEF PrioritiesAreInitial, CombinedIsStrictlySorted, InSchedule
<1> QED BY <1>3, <1>4, <1>6, <1>7, <1>8, <1>9

\* The victim of the allocation loop is never a request the step has scheduled: it
\* is the request in hand or one after it.
LEMMA PreemptLastRunningQueueInv ==
  ASSUME TypeOK, IndexInv, QueueInv, NEW victim \in Req, PreemptLastRunning(victim)
  PROVE  QueueInv'
<1> SUFFICES ASSUME failed_assertion' = "none"
             PROVE  QueueInv'
  BY DEF QueueInv
<1>1. /\ InSchedule /\ step.phase = "alloc"
      /\ RolesInv /\ LoopInv /\ AllocInv /\ ScheduledInv
      /\ step.req_index \in 1..Len(combined) /\ step.req_index \in Int
      /\ Len(combined) \in Nat
      /\ step.request = combined[step.req_index] /\ step.request \in Req
      /\ step.request \notin preempted_req_ids
  BY InHandIsListed DEF PreemptLastRunning, Phase
<1>2. /\ last_running_idx # None /\ victim = combined[last_running_idx]
      /\ ~Outranks(victim, step.request) /\ Preempt(victim)
  BY DEF PreemptLastRunning
<1>3. /\ Roles /\ Exact
      /\ \A i \in 1..Len(combined) : combined[i] \in Req /\ combined[i] \in Range(combined)
      /\ \A i, j \in 1..Len(combined) : combined[i] = combined[j] => i = j
      /\ Range(combined) \subseteq Req
  BY <1>1, DuringSchedule
<1>4. /\ last_running_idx \in 1..Len(combined) /\ victim \in running_req_ids
      /\ \A i \in 1..Len(combined) : combined[i] \in running_req_ids => i <= last_running_idx
  BY <1>2, <1>3 DEF Exact, IsLast, None
<1>5. status[victim] = "RUNNING"
  BY <1>1, <1>4 DEF RolesInv
<1>6. ~(last_running_idx < step.req_index)
  <2>1. /\ \A i \in 1..Len(combined) : priority[combined[i]] # 0
        /\ \A i, j \in 1..Len(combined) :
             i < j => priority[combined[i]] < priority[combined[j]]
    BY <1>1 DEF QueueInv, CombinedIsStrictlySorted, InSchedule
  <2> QED BY <1>1, <1>2, <1>4, <2>1 DEF Outranks
<1>7. victim \notin step.scheduled_running_reqs
  BY <1>1, <1>2, <1>3, <1>4, <1>6 DEF LoopInv
<1>8. /\ step'.req_index = step.req_index
      /\ step'.num_scheduled_tokens = step.num_scheduled_tokens
      /\ step'.scheduled_running_reqs = step.scheduled_running_reqs
      /\ step'.preempted_req_ids = step.preempted_req_ids \cup {victim}
      /\ \/ step'.phase = "commit"
         \/ /\ step'.phase = "alloc" /\ step'.request = step.request
            /\ victim # step.request
  <2> DEFINE local == [step EXCEPT !.preempted_req_ids = @ \cup {victim}]
  <2>1. step' = IF victim = step.request
                THEN [local EXCEPT !.phase = "commit", !.request = NoRequest,
                                   !.num_new_tokens = 0, !.compute_encoder = FALSE]
                ELSE local
    BY <1>7 DEF PreemptLastRunning, Unscheduled
  <2>2. /\ local \in Locals
        /\ local.req_index = step.req_index /\ local.phase = "alloc"
        /\ local.num_scheduled_tokens = step.num_scheduled_tokens
        /\ local.scheduled_running_reqs = step.scheduled_running_reqs
        /\ local.preempted_req_ids = step.preempted_req_ids \cup {victim}
        /\ local.request = step.request
    BY <1>1 DEF TypeOK, StepTypeOK, Locals
  <2> HIDE DEF local
  <2> QED BY <2>1, <2>2 DEF Locals
<1>9. step'.phase # "idle"
  BY <1>8
<1>10. /\ QueuesMatchStatus' /\ OnlyRunningIsComputed' /\ PrioritiesAreInitial'
       /\ CombinedIsStrictlySorted'
       /\ combined' = combined
       /\ running_req_ids' = running_req_ids \ {victim}
       /\ preempted_req_ids' = preempted_req_ids \cup {victim}
       /\ status'[victim] = "PREEMPTED"
       /\ \A q \in Req : q # victim => status'[q] = status[q]
  BY <1>1, <1>2, <1>5, <1>9, PreemptingQueues
<1>11. \A i \in 1..Len(combined) : i < step.req_index => combined[i] # victim
  BY <1>1, <1>2, <1>3, <1>4, <1>6
<1>12. RolesInv'
  <2>1. running_req_ids = { q \in Range(combined) : status[q] = "RUNNING" }
    BY <1>1 DEF RolesInv
  <2>2. running_req_ids' = { q \in Range(combined) : status'[q] = "RUNNING" }
    BY <1>3, <1>10, <2>1
  <2> QED BY <1>10, <2>2 DEF RolesInv
<1>13. LoopInv'
  BY <1>1, <1>8, <1>10, <1>11 DEF LoopInv
<1>14. AllocInv'
  BY <1>1, <1>8, <1>10 DEF AllocInv
<1>15. ScheduledInv'
  <2>1. ASSUME NEW q \in Req, step.num_scheduled_tokens[q] # 0
        PROVE  /\ status'[q] = "RUNNING"
               /\ \E i \in 1..Len(combined) : i < step.req_index /\ q = combined[i]
    <3>1. /\ status[q] = "RUNNING"
          /\ \E i \in 1..Len(combined) : i < step.req_index /\ q = combined[i]
      BY <1>1, <2>1 DEF ScheduledInv
    <3>2. q # victim
      BY <1>11, <3>1
    <3> QED BY <1>10, <3>1, <3>2
  <2> QED BY <1>8, <1>10, <2>1 DEF ScheduledInv
<1>16. TailInv'
  BY <1>8 DEF TailInv
<1> QED BY <1>10, <1>12, <1>13, <1>14, <1>15, <1>16 DEF QueueInv

\* Whom the preemptions at the end have spared they do not come back to.
LEMMA SparedStaySpared ==
  ASSUME TypeOK, IndexInv, QueueInv, NEW r \in Req, PreemptUnreached(r)
  PROVE  Reached' = Reached
<1>1. InSchedule /\ step.phase = "tail" /\ Preempt(r)
  BY DEF PreemptUnreached, Phase, InSchedule
<1>2. /\ TailInv /\ Len(combined) \in Nat
      /\ \A i \in 1..Len(combined) : combined[i] \in Req
      /\ \A i, j \in 1..Len(combined) : combined[i] = combined[j] => i = j
  BY <1>1, DuringSchedule DEF QueueInv, InSchedule
<1>3. PICK i \in step.req_index..Len(combined) :
        /\ r = combined[i]
        /\ status[r] = "RUNNING"
        /\ \A j \in step.req_index..(i - 1) : status[combined[j]] # "RUNNING"
        /\ step' = [step EXCEPT !.req_index = i + 1, !.preempted_req_ids = @ \cup {r}]
  BY DEF PreemptUnreached
<1>4. /\ step.req_index \in Int /\ step.req_index >= 1
      /\ i \in 1..Len(combined) /\ i \in Int /\ ~(i < step.req_index)
  BY <1>1, <1>2 DEF TailInv
<1>5. step'.req_index = i + 1
  BY <1>3 DEF TypeOK, StepTypeOK, Locals
<1>6. /\ combined' = combined
      /\ \A q \in Req : status'[q] = IF q = r THEN "PREEMPTED" ELSE status[q]
  BY <1>1 DEF Preempt, UpdateIdxsAfterPreemption, queueManagerVars, TypeOK, RequestsTypeOK
<1>7. RunningIndices' = RunningIndices \ {i} /\ RunningIndices \subseteq 1..Len(combined)
  BY <1>2, <1>3, <1>4, <1>6 DEF RunningIndices
<1>8. \A j \in RunningIndices : j < i => j < step.req_index
  BY <1>2, <1>3, <1>4 DEF RunningIndices
<1>9. \A j \in RunningIndices : j < i + 1 => j < i \/ j = i
  BY <1>4, <1>7
<1>10. \A j \in RunningIndices : j < step.req_index => j < i + 1 /\ j # i
  BY <1>4, <1>7
<1> QED BY <1>5, <1>7, <1>8, <1>9, <1>10 DEF Reached

\* Of the preemptions at the end each acts on an id beyond the spared requests.
LEMMA IdsAreTakenFromTheEnd ==
  ASSUME TypeOK, IndexInv, QueueInv, NEW r \in Req, PreemptUnreached(r)
  PROVE  last_running_idx \in RunningIdIndices \ Reached
<1>1. InSchedule /\ step.phase = "tail"
  BY DEF PreemptUnreached, Phase, InSchedule
<1>2. /\ TailInv /\ Exact /\ Len(combined) \in Nat
  BY <1>1, DuringSchedule DEF QueueInv, InSchedule
<1>3. /\ step.req_index \in 1..(Len(combined) + 1) /\ step.req_index \in Int
      /\ \A i \in RunningIdIndices \ Reached, j \in Reached : j < i
      /\ Cardinality(RunningIdIndices \ Reached) = Cardinality(RunningIndices \ Reached)
  BY <1>1, <1>2 DEF TailInv
<1>4. PICK i \in step.req_index..Len(combined) : r = combined[i] /\ status[r] = "RUNNING"
  BY DEF PreemptUnreached
<1>5. i \in RunningIndices \ Reached
  BY <1>2, <1>3, <1>4 DEF RunningIndices, Reached
<1>6. /\ RunningIndices \in SUBSET (1..Len(combined))
      /\ RunningIdIndices \in SUBSET (1..Len(combined))
      /\ IsFiniteSet(1..Len(combined))
  <2>1. IsFiniteSet(1..Len(combined))
    BY <1>2, FS_Interval
  <2> QED BY <2>1 DEF RunningIndices, RunningIdIndices
<1>7. IsFiniteSet(RunningIndices \ Reached) /\ IsFiniteSet(RunningIdIndices \ Reached)
  BY <1>6, FS_Subset
<1>8. RunningIdIndices \ Reached # {}
  <2>1. Cardinality(RunningIndices \ Reached) # 0
    BY <1>5, <1>7, FS_EmptySet
  <2> QED BY <1>3, <2>1, FS_EmptySet
<1>9. PICK k \in RunningIdIndices \ Reached : TRUE
  BY <1>8
<1>10. /\ last_running_idx \in 1..Len(combined) /\ combined[last_running_idx] \in running_req_ids
       /\ k <= last_running_idx /\ k \in Int
  BY <1>2, <1>6, <1>9 DEF RunningIdIndices, Exact, IsLast, None
<1>11. last_running_idx \in RunningIdIndices
  BY <1>10 DEF RunningIdIndices
<1>12. last_running_idx \in Reached => last_running_idx < k
  BY <1>3, <1>9
<1> QED BY <1>10, <1>11, <1>12

\* The preemptions at the end of a step patch the ids from the bottom of the list
\* while the statuses go down it: in between the two sets of requests differ, but
\* have as many elements beyond req_index.
LEMMA PreemptUnreachedQueueInv ==
  ASSUME TypeOK, IndexInv, QueueInv, NEW r \in Req, PreemptUnreached(r)
  PROVE  QueueInv'
<1> SUFFICES ASSUME failed_assertion' = "none"
             PROVE  QueueInv'
  BY DEF QueueInv
<1>1. InSchedule /\ step.phase = "tail" /\ Preempt(r)
  BY DEF PreemptUnreached, Phase, InSchedule
<1>2. /\ TailInv /\ ScheduledInv
  BY <1>1 DEF QueueInv, InSchedule
<1>3. /\ Roles /\ Exact /\ Len(combined) \in Nat
      /\ \A i \in 1..Len(combined) : combined[i] \in Req /\ combined[i] \in Range(combined)
      /\ \A i, j \in 1..Len(combined) : combined[i] = combined[j] => i = j
  BY <1>1, DuringSchedule
<1>4. /\ step.req_index \in 1..(Len(combined) + 1) /\ step.req_index \in Int
      /\ running_req_ids \subseteq Range(combined)
      /\ Reached \subseteq RunningIdIndices
      /\ \A i \in RunningIdIndices \ Reached, j \in Reached : j < i
      /\ Cardinality(RunningIdIndices \ Reached) = Cardinality(RunningIndices \ Reached)
  BY <1>1, <1>2, <1>3 DEF TailInv
<1>5. PICK i \in step.req_index..Len(combined) :
        /\ r = combined[i]
        /\ status[r] = "RUNNING"
        /\ \A j \in step.req_index..(i - 1) : status[combined[j]] # "RUNNING"
        /\ step' = [step EXCEPT !.req_index = i + 1, !.preempted_req_ids = @ \cup {r}]
  BY DEF PreemptUnreached
<1>6. i \in 1..Len(combined) /\ i \in Int /\ ~(i < step.req_index)
  BY <1>3, <1>4
<1>7. /\ step'.phase = "tail" /\ step'.req_index = i + 1
      /\ step'.num_scheduled_tokens = step.num_scheduled_tokens
  BY <1>1, <1>5 DEF TypeOK, StepTypeOK, Locals
<1>8. last_running_idx \in RunningIdIndices \ Reached
  BY IdsAreTakenFromTheEnd
<1>9. /\ RunningIndices \in SUBSET (1..Len(combined))
      /\ RunningIdIndices \in SUBSET (1..Len(combined))
      /\ IsFiniteSet(1..Len(combined))
  <2>1. IsFiniteSet(1..Len(combined))
    BY <1>3, FS_Interval
  <2> QED BY <2>1 DEF RunningIndices, RunningIdIndices
<1>10. IsFiniteSet(RunningIndices \ Reached) /\ IsFiniteSet(RunningIdIndices \ Reached)
  BY <1>9, FS_Subset
<1>11. i \in RunningIndices \ Reached
  BY <1>5, <1>6 DEF RunningIndices, Reached
<1>12. last_running_idx # None
  BY <1>3, <1>8, <1>9 DEF None
<1>13. /\ QueuesMatchStatus' /\ OnlyRunningIsComputed' /\ PrioritiesAreInitial'
       /\ CombinedIsStrictlySorted'
       /\ last_running_idx \in 1..Len(combined)
       /\ combined[last_running_idx] \in running_req_ids
       /\ \A j \in 1..Len(combined) : combined[j] \in running_req_ids => j <= last_running_idx
       /\ combined' = combined
       /\ running_req_ids' = running_req_ids \ {combined[last_running_idx]}
       /\ status'[r] = "PREEMPTED"
       /\ \A q \in Req : q # r => status'[q] = status[q]
  BY <1>1, <1>5, <1>7, <1>12, PreemptingQueues
<1>14. RunningIdIndices' = RunningIdIndices \ {last_running_idx}
  BY <1>3, <1>13 DEF RunningIdIndices
<1>15. RunningIndices' = RunningIndices \ {i}
  BY <1>3, <1>5, <1>6, <1>13 DEF RunningIndices
<1>16. Reached' = Reached
  BY SparedStaySpared
<1>17. /\ RunningIdIndices' \ Reached' = (RunningIdIndices \ Reached) \ {last_running_idx}
       /\ RunningIndices' \ Reached' = (RunningIndices \ Reached) \ {i}
  BY <1>14, <1>15, <1>16
<1>18. Cardinality(RunningIdIndices' \ Reached') = Cardinality(RunningIndices' \ Reached')
  <2>1. Cardinality((RunningIdIndices \ Reached) \ {last_running_idx})
          = Cardinality(RunningIdIndices \ Reached) - 1
    BY <1>8, <1>10, FS_RemoveElement
  <2>2. Cardinality((RunningIndices \ Reached) \ {i})
          = Cardinality(RunningIndices \ Reached) - 1
    BY <1>10, <1>11, FS_RemoveElement
  <2> QED BY <1>4, <1>17, <2>1, <2>2
<1>19. TailInv'
  <2>1. step'.req_index \in 1..(Len(combined) + 1)
    BY <1>3, <1>6, <1>7
  <2>2. running_req_ids' \subseteq Range(combined)
    BY <1>4, <1>13
  <2>3. Reached' \subseteq RunningIdIndices'
    BY <1>4, <1>8, <1>14, <1>16
  <2>4. \A m \in RunningIdIndices' \ Reached', j \in Reached' : j < m
    BY <1>4, <1>16, <1>17
  <2> QED BY <1>13, <1>18, <2>1, <2>2, <2>3, <2>4 DEF TailInv
<1>20. RolesInv' /\ LoopInv' /\ AllocInv'
  BY <1>7 DEF RolesInv, LoopInv, AllocInv
<1>21. ScheduledInv'
  <2>1. ASSUME NEW q \in Req, step.num_scheduled_tokens[q] # 0
        PROVE  /\ status'[q] = "RUNNING"
               /\ \E j \in 1..Len(combined) : j < step'.req_index /\ q = combined[j]
    <3>1. PICK j \in 1..Len(combined) : j < step.req_index /\ q = combined[j]
      BY <1>1, <1>2, <2>1 DEF ScheduledInv
    <3>2. status[q] = "RUNNING"
      BY <1>1, <1>2, <2>1 DEF ScheduledInv
    <3>3. q # r
      BY <1>3, <1>5, <1>6, <3>1
    <3>4. j < step'.req_index
      BY <1>4, <1>6, <1>7, <3>1
    <3> QED BY <1>13, <3>1, <3>2, <3>3, <3>4
  <2> QED BY <1>7, <1>13, <2>1 DEF ScheduledInv
<1> QED BY <1>13, <1>19, <1>20, <1>21 DEF QueueInv

\* When the preemptions at the end are done, ids and statuses agree again.
LEMMA EndTailQueueInv ==
  ASSUME TypeOK, IndexInv, QueueInv, EndTail
  PROVE  QueueInv'
<1>1. /\ InSchedule /\ step.phase = "tail" /\ failed_assertion' = failed_assertion
      /\ UNCHANGED queueManagerVars /\ UNCHANGED requestVars
      /\ UNCHANGED queueVars /\ UNCHANGED batch_queue
      /\ step' = [step EXCEPT !.phase = "commit"]
      /\ \A i \in step.req_index..Len(combined) : status[combined[i]] # "RUNNING"
  BY DEF EndTail, Phase, InSchedule, engineVars
<1>2. /\ step'.phase = "commit"
      /\ step'.num_scheduled_tokens = step.num_scheduled_tokens
  BY <1>1 DEF TypeOK, StepTypeOK, Locals
<1>3. /\ TailInv /\ ScheduledInv
  BY <1>1 DEF QueueInv, InSchedule
<1>4. /\ Len(combined) \in Nat
      /\ \A i \in 1..Len(combined) : combined[i] \in Req /\ combined[i] \in Range(combined)
      /\ \A q \in Range(combined) : \E i \in 1..Len(combined) : q = combined[i]
  BY <1>1, DuringSchedule
<1>5. /\ step.req_index \in Int
      /\ running_req_ids \subseteq Range(combined)
      /\ Reached \subseteq RunningIdIndices
      /\ Cardinality(RunningIdIndices \ Reached) = Cardinality(RunningIndices \ Reached)
  BY <1>1, <1>3, <1>4 DEF TailInv
<1>6. RunningIndices \ Reached = {}
  BY <1>1, <1>4, <1>5 DEF RunningIndices, Reached
<1>7. RunningIdIndices \ Reached = {}
  <2>1. IsFiniteSet(RunningIdIndices \ Reached)
    <3>1. IsFiniteSet(1..Len(combined)) /\ RunningIdIndices \in SUBSET (1..Len(combined))
      BY <1>4, FS_Interval DEF RunningIdIndices
    <3> QED BY <3>1, FS_Subset
  <2>2. Cardinality(RunningIdIndices \ Reached) = 0
    BY <1>5, <1>6, FS_EmptySet
  <2> QED BY <2>1, <2>2, FS_EmptySet
<1>8. RunningIdIndices = RunningIndices
  BY <1>5, <1>6, <1>7 DEF Reached
<1>9. running_req_ids = { q \in Range(combined) : status[q] = "RUNNING" }
  <2>1. \A q \in Range(combined) : q \in running_req_ids <=> status[q] = "RUNNING"
    BY <1>4, <1>8 DEF RunningIdIndices, RunningIndices
  <2> QED BY <1>5, <2>1
<1>10. RolesInv'
  BY <1>1, <1>9 DEF RolesInv, queueManagerVars, requestVars
<1>11. LoopInv' /\ AllocInv' /\ TailInv'
  BY <1>2 DEF LoopInv, AllocInv, TailInv
<1>12. ScheduledInv'
  BY <1>1, <1>2, <1>3 DEF ScheduledInv, requestVars
<1> QED BY <1>1, <1>2, <1>10, <1>11, <1>12, MovingOn

\* update_queues cuts the list exactly after the requests that keep running.
LEMMA CommitQueueInv ==
  ASSUME TypeOK, IndexInv, QueueInv, CommitSchedule
  PROVE  QueueInv'
<1>1. /\ InSchedule /\ step.phase = "commit" /\ FailedAssertion = "none"
      /\ running' = RunningAfterUpdate /\ waiting' = WaitingAfterUpdate
      /\ num_computed_tokens' = [q \in Req |->
                          num_computed_tokens[q] + step.num_scheduled_tokens[q]]
      /\ step' = Idle
      /\ UNCHANGED <<ignored_req_ids, status, priority, skipped_waiting>>
  BY DEF CommitSchedule, Phase, InSchedule
<1>2. /\ QueuesMatchStatus /\ OnlyRunningIsComputed /\ PrioritiesAreInitial
      /\ RolesInv /\ ScheduledInv
  BY <1>1 DEF QueueInv, InSchedule
<1>3. /\ Roles /\ Exact /\ Range(combined) = { q \in Req : status[q] \in Queued }
  BY <1>1, DuringSchedule
<1>4. running_req_ids = { q \in Range(combined) : status[q] = "RUNNING" }
  BY <1>1, <1>2 DEF RolesInv
<1>5. RunningAfterUpdate = running_req_ids
  <2>1. UpdateQueuesAssertion
    BY <1>1 DEF FailedAssertion
  <2>2. ignored_req_ids = {}
    BY <1>2 DEF QueuesMatchStatus
  <2> QED BY <1>3, <1>4, <2>1, <2>2, CutAtFirstWaiting
<1>6. running' = { q \in Req : status[q] = "RUNNING" }
  BY <1>1, <1>3, <1>4, <1>5 DEF Queued
<1>7. running' \cup waiting' = { q \in Req : status[q] \in Queued }
  BY <1>1, <1>3, <1>4, <1>5 DEF WaitingAfterUpdate
<1>8. \A q \in Req : status[q] # "RUNNING" => step.num_scheduled_tokens[q] = 0
  BY <1>1, <1>2 DEF ScheduledInv
<1>9. OnlyRunningIsComputed'
  BY <1>1, <1>2, <1>8 DEF OnlyRunningIsComputed
<1>10. BatchesAreKnown'
  <2>1. PICK sampled \in SUBSET Req :
          batch_queue' = Append(batch_queue,
                                [scheduled |-> ScheduledReqs, sampled |-> sampled])
    <3>1. ScheduledReqs \subseteq Req
      BY DEF ScheduledReqs
    <3> QED BY <3>1 DEF CommitSchedule
  <2> DEFINE batch == [scheduled |-> ScheduledReqs, sampled |-> sampled]
  <2>2. batch_queue \in Seq(Batches) /\ batch \in Batches
    BY DEF TypeOK, QueuesTypeOK, Batches, ScheduledReqs
  <2>3. /\ Len(batch_queue) \in Nat
        /\ Len(batch_queue') = Len(batch_queue) + 1
        /\ \A i \in 1..Len(batch_queue) : batch_queue'[i] = batch_queue[i]
        /\ batch_queue'[Len(batch_queue) + 1] = batch
    BY <2>1, <2>2, AppendProperties, LenProperties
  <2>4. \A i \in 1..Len(batch_queue') : i \in 1..Len(batch_queue) \/ i = Len(batch_queue) + 1
    BY <2>3
  <2>5. \A q \in ScheduledReqs : status[q] = "RUNNING"
    BY <1>8 DEF ScheduledReqs
  <2>6. batch.scheduled = ScheduledReqs
    OBVIOUS
  <2> HIDE DEF batch
  <2>7. ASSUME NEW i \in 1..Len(batch_queue'), NEW q \in batch_queue'[i].scheduled
        PROVE  status'[q] \notin {"UNSEEN", Parked}
    <3>1. CASE i \in 1..Len(batch_queue)
      BY <1>1, <1>2, <2>3, <2>7, <3>1 DEF QueuesMatchStatus, BatchesAreKnown
    <3>2. CASE i = Len(batch_queue) + 1
      BY <1>1, <2>3, <2>5, <2>6, <2>7, <3>2 DEF Parked
    <3> QED BY <2>4, <3>1, <3>2
  <2> QED BY <2>7 DEF BatchesAreKnown
<1>11. QueuesMatchStatus'
  BY <1>1, <1>2, <1>6, <1>7, <1>10 DEF QueuesMatchStatus
<1>12. PrioritiesAreInitial' /\ step'.phase = "idle"
  BY <1>1, <1>2 DEF PrioritiesAreInitial, Idle
<1> QED BY <1>9, <1>11, <1>12, IdleQueueInv

\* Every step of schedule() keeps the invariant.
LEMMA ScheduleQueueInv ==
  ASSUME DistinctArrivals, EveryImageFits, TypeOK, IndexInv, QueueInv, ScheduleStep
  PROVE  QueueInv'
<1>1. CASE BeginSchedule
  BY <1>1, BeginQueueInv
<1>2. CASE EndLoop
  BY <1>2, EndLoopQueueInv
<1>3. CASE GiveUpAllocation
  BY <1>3, GiveUpQueueInv
<1>4. CASE EndTail
  BY <1>4, EndTailQueueInv
<1>5. CASE CommitSchedule
  BY <1>5, CommitQueueInv
<1>6. CASE ScheduleRaises
  <2>1. failed_assertion' # "none"
    BY <1>6 DEF ScheduleRaises
  <2> QED BY <2>1 DEF QueueInv
<1>7. ASSUME NEW r \in Req,
             SkipMaxTokensInFlight(r) \/ ConsiderRunning(r) \/ ConsiderWaiting(r)
      PROVE  QueueInv'
  BY <1>7, ConsiderQueueInv
<1>8. ASSUME NEW r \in Req, IgnoreWaiting(r) PROVE QueueInv'
  BY <1>8, NothingIsIgnored
<1>9. ASSUME NEW r \in Req, ScheduleRunning(r) PROVE QueueInv'
  BY <1>9, ScheduleRunningQueueInv
<1>10. ASSUME NEW r \in Req, ScheduleWaiting(r) PROVE QueueInv'
  BY <1>10, ScheduleWaitingQueueInv
<1>11. ASSUME NEW r \in Req, PreemptLastRunning(r) PROVE QueueInv'
  BY <1>11, PreemptLastRunningQueueInv
<1>12. ASSUME NEW r \in Req, PreemptUnreached(r) PROVE QueueInv'
  BY <1>12, PreemptUnreachedQueueInv
<1> QED BY <1>1, <1>2, <1>3, <1>4, <1>5, <1>6, <1>7, <1>8, <1>9, <1>10, <1>11, <1>12
        DEF ScheduleStep

\* Every step of the engine and of its clients keeps the invariant.
LEMMA NextQueueInv ==
  ASSUME "reset" \notin ClientOps, DistinctArrivals, EveryImageFits,
         TypeOK, IndexInv, QueueInv, [SchedulerNext]_vars
  PROVE  QueueInv'
<1>1. CASE ClientStep
  BY <1>1, ClientQueueInv
<1>2. CASE UpdateFromOutput
  BY <1>2, OutputQueueInv
<1>3. CASE ScheduleStep
  BY <1>3, ScheduleQueueInv
<1>4. CASE EngineIdle \/ EngineDead \/ UNCHANGED vars
  <2>1. UNCHANGED vars
    BY <1>4 DEF EngineIdle, EngineDead
  <2> QED BY <2>1
          DEF vars, queueManagerVars, requestVars, queueVars, engineVars,
              QueueInv, QueuesMatchStatus, BatchesAreKnown, OnlyRunningIsComputed,
              PrioritiesAreInitial, CombinedIsStrictlySorted, RolesInv, LoopInv,
              AllocInv, ScheduledInv, TailInv, RunningIndices, RunningIdIndices, Reached
<1> QED BY <1>1, <1>2, <1>3, <1>4 DEF SchedulerNext, EngineStep

\* The invariant implies that no request is lost.
LEMMA QueueInvGivesNoLostRequest ==
  ASSUME TypeOK, IndexInv, QueueInv
  PROVE  NoLostRequest
<1> SUFFICES ASSUME Phase("idle") PROVE NoLostRequest
  BY DEF NoLostRequest
<1>1. QueuesMatchStatus /\ step.phase = "idle" /\ QueuesAreDisjoint
  BY DEF QueueInv, Phase, IndexInv
<1>2. waiting = { r \in Req : status[r] \in {"WAITING", "PREEMPTED", "FINISHED_IGNORED"} }
  BY <1>1 DEF QueuesMatchStatus, QueuesAreDisjoint, Queued
<1> QED BY <1>1, <1>2 DEF QueuesMatchStatus, NoLostRequest, Parked

\* The invariant implies that ids and statuses agree.
LEMMA QueueInvGivesRolesMatchStatus ==
  ASSUME TypeOK, QueueInv
  PROVE  RolesMatchStatus
<1>1. step.phase \in {"idle", "loop", "alloc", "tail", "commit"}
  BY DEF TypeOK, StepTypeOK, Locals
<1> QED BY <1>1 DEF QueueInv, RolesInv, RolesMatchStatus

\* The invariant implies that a cut list is cut by priority: running requests are
\* before the first waiting index, the others from it on.
LEMMA QueueInvGivesNoPriorityInversion ==
  ASSUME TypeOK, IndexInv, QueueInv
  PROVE  NoPriorityInversion
<1> SUFFICES ASSUME Phase("commit"), FailedAssertion = "none",
                    NEW p \in RunningAfterUpdate, NEW q \in WaitingAfterUpdate
             PROVE  priority[p] <= priority[q]
  BY DEF NoPriorityInversion
<1>1. InSchedule /\ step.phase = "commit" /\ UpdateQueuesAssertion
  BY DEF Phase, InSchedule, FailedAssertion
<1>2. /\ Roles /\ Exact /\ Len(combined) \in Nat
      /\ \A i \in 1..Len(combined) : combined[i] \in Req /\ combined[i] \in Range(combined)
      /\ \A r \in Range(combined) : \E i \in 1..Len(combined) : r = combined[i]
  BY <1>1, DuringSchedule
<1>3. /\ QueuesMatchStatus /\ RolesInv /\ CombinedIsStrictlySorted
  BY <1>1 DEF QueueInv, InSchedule
<1>4. RunningAfterUpdate = running_req_ids /\ running_req_ids \subseteq Range(combined)
  <2>1. ignored_req_ids = {} /\ running_req_ids \subseteq Range(combined)
    BY <1>1, <1>3 DEF QueuesMatchStatus, RolesInv
  <2> QED BY <1>1, <1>2, <2>1, CutAtFirstWaiting
<1>5. PICK i \in 1..Len(combined) : p = combined[i]
  BY <1>2, <1>4
<1>6. PICK j \in 1..Len(combined) : q = combined[j] /\ q \notin running_req_ids
  BY <1>2, <1>4 DEF WaitingAfterUpdate
<1>7. p \in running_req_ids /\ q \in Denied
  BY <1>2, <1>4, <1>6 DEF Roles
<1>8. /\ last_running_idx # 0 /\ last_running_idx \in 1..Len(combined) /\ i <= last_running_idx
      /\ first_waiting_idx # 0 /\ first_waiting_idx \in 1..Len(combined)
      /\ first_waiting_idx <= j
  BY <1>2, <1>5, <1>6, <1>7 DEF Exact, IsLast, IsFirst
<1>9. last_running_idx = first_waiting_idx - 1
  BY <1>1, <1>3, <1>8 DEF UpdateQueuesAssertion, QueuesMatchStatus, None
<1>10. i < j
  BY <1>8, <1>9
<1>11. priority[p] < priority[q]
  BY <1>1, <1>3, <1>5, <1>6, <1>10 DEF CombinedIsStrictlySorted
<1>12. priority[p] \in Nat /\ priority[q] \in Nat
  BY <1>2, <1>5, <1>6 DEF TypeOK, RequestsTypeOK
<1> QED BY <1>11, <1>12

\* QueueInv holds in every reachable state, with the types and the exact indices.
THEOREM QueuesInductive ==
  ASSUME "reset" \notin ClientOps, DistinctArrivals, EveryImageFits
  PROVE  SchedulerSpec => [](TypeOK /\ IndexInv /\ QueueInv)
<1>1. SchedulerInit => IndexInv
  BY DEF SchedulerInit, IndexInv, QueuesAreDisjoint, CombinedIsMerged, InSchedule, Idle
<1>2. TypeOK /\ IndexInv /\ QueueInv /\ [SchedulerNext]_vars => IndexInv'
  BY NextIndexInv
<1>3. TypeOK /\ IndexInv /\ QueueInv /\ [SchedulerNext]_vars => QueueInv'
  BY NextQueueInv
<1> QED BY <1>1, <1>2, <1>3, InitQueueInv, TypeCorrect, PTL DEF SchedulerSpec

\* For any number of requests, under any policy and sizes, whatever is preempted,
\* aborted, stopped or paused: between two steps each known request is in exactly
\* one queue, the one its status calls for.  _preempt_request puts a request in no
\* queue, and update_queues always finds it again.
THEOREM NothingIsLost ==
  ASSUME "reset" \notin ClientOps, DistinctArrivals, EveryImageFits
  PROVE  SchedulerSpec => []NoLostRequest
<1>1. TypeOK /\ IndexInv /\ QueueInv => NoLostRequest
  BY QueueInvGivesNoLostRequest
<1> QED BY <1>1, QueuesInductive, PTL

\* _preempt_request and update_idxs_after_preemption each pick their victim, and so
\* do _schedule and update_idxs_after_new_scheduling their request; whenever the
\* scheduler consults the ids they have picked the same ones.
THEOREM RolesAreRight ==
  ASSUME "reset" \notin ClientOps, DistinctArrivals, EveryImageFits
  PROVE  SchedulerSpec => []RolesMatchStatus
<1>1. TypeOK /\ IndexInv /\ QueueInv => RolesMatchStatus
  BY QueueInvGivesRolesMatchStatus
<1> QED BY <1>1, QueuesInductive, PTL

\* However admissions and preemptions alternate, in a step whose closing assertions
\* hold no request left waiting is more urgent than one that keeps running: the
\* assertion of update_queues is all it takes.
THEOREM UrgentRunFirst ==
  ASSUME "reset" \notin ClientOps, DistinctArrivals, EveryImageFits
  PROVE  SchedulerSpec => []NoPriorityInversion
<1>1. TypeOK /\ IndexInv /\ QueueInv => NoPriorityInversion
  BY QueueInvGivesNoPriorityInversion
<1> QED BY <1>1, QueuesInductive, PTL

=============================================================================
