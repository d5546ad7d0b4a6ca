----------------------- MODULE SchedulerResourceProofs -----------------------
(***************************************************************************)
(* Proofs about what the scheduler hands out: blocks of the KV cache,      *)
(* slots of the encoder cache, and the token and encoder budgets of a      *)
(* step.  The caches are never overdrawn and hold nothing for a request    *)
(* that does not run, what a step gives out and what it has left make up   *)
(* the whole budget, preemption returns what its victim had, and what is   *)
(* scheduled can be served: its blocks and its images are there.           *)
(*                                                                         *)
(* The pools and the budgets are sums over requests.  A step changes one   *)
(* summand, or removes one: SumExcept, SumOfSubset and their like say what *)
(* that does to the sum.                                                   *)
(*                                                                         *)
(* From what is handed out, and to whom, follows the shape of a step.      *)
(* Whoever is preempted for want of blocks is the last of the running, so  *)
(* the running remain the front of the list, up to the cut that            *)
(* update_queues makes (CutInv).  If the pool has the blocks of one        *)
(* request, the head of the list is never preempted, the assertions on the *)
(* indices hold, and no step ends empty-handed (HeadInv).                  *)
(***************************************************************************)
EXTENDS SchedulerTokenProofs, Induction

-----------------------------------------------------------------------------
(* Blocks, images and budgets. *)

\* Blocks are held while a request runs, for what it has computed and is to compute.
SlotsInv ==
  /\ NumFreeBlocks >= 0
  /\ \A r \in Req :
       /\ req_blocks[r] >= 0
       /\ num_computed_tokens[r] + step.num_scheduled_tokens[r] <= req_blocks[r] * BlockSize
       /\ req_blocks[r] > 0 => status[r] = "RUNNING"

\* For n more tokens r has its image, or is past it or before it.
ImageAtHand(r, n) ==
  EncoderTokens[r] > 0 /\ EncoderStart[r] < num_computed_tokens[r] + n =>
    r \in encoder_refs \/ EncoderStart[r] + EncoderTokens[r] <= num_computed_tokens[r]

\* An image is referenced by a running request, or by the waiting one in hand.
ImagesInv ==
  /\ NumFreeableSlots >= 0
  /\ \A r \in encoder_refs :
       status[r] = "RUNNING" \/ (step.phase = "alloc" /\ r = step.request)
  /\ \A r \in Req : step.num_scheduled_tokens[r] # 0 => ImageAtHand(r, step.num_scheduled_tokens[r])
  /\ step.phase = "alloc" =>
       IF step.compute_encoder THEN EncoderTokens[step.request] <= NumFreeableSlots
       ELSE ImageAtHand(step.request, step.num_new_tokens)

\* What is left of a budget and what was given out of it are the whole.
SharesInv ==
  /\ step.phase # "idle" =>
       /\ step.token_budget + TotalNumScheduledTokens
            = IF pause_state = "PAUSED_ALL" THEN 0 ELSE MaxNumScheduledTokens
       /\ step.encoder_compute_budget
            + SumFunctionOnSet(EncoderTokens, step.scheduled_encoder_inputs)
            = MaxNumEncoderInputTokens
  /\ \A r \in step.scheduled_encoder_inputs : step.num_scheduled_tokens[r] # 0

ResourcesInv == SlotsInv /\ ImagesInv /\ SharesInv

LEMMA InitResources == SchedulerInit => ResourcesInv
<1> SUFFICES ASSUME SchedulerInit PROVE ResourcesInv
  OBVIOUS
<1>1. /\ req_blocks = [r \in Req |-> 0] /\ num_computed_tokens = [r \in Req |-> 0]
      /\ encoder_refs = {} /\ step = Idle
  BY DEF SchedulerInit
<1>2. /\ step.phase = "idle" /\ step.num_scheduled_tokens = [r \in Req |-> 0]
      /\ step.scheduled_encoder_inputs = {}
  BY <1>1 DEF Idle
<1>3. BlockSize \in Nat \ {0} /\ NumBlocks \in Nat \ {0} /\ EncoderCacheSize \in Nat
  BY SchedulerAssumption
<1>4. SumFunctionOnSet(req_blocks, Req) = 0
  BY <1>1, SumOfZeros, ReqAssumption
<1>5. SlotsInv
  <2>1. DOMAIN req_blocks = Req
    BY <1>1
  <2>2. NumFreeBlocks = NumBlocks - 1 - 0
    BY <1>4, <2>1 DEF NumFreeBlocks, SumFunction
  <2> QED BY <1>1, <1>2, <1>3, <2>2 DEF SlotsInv
<1>6. ImagesInv
  <2>1. NumFreeableSlots = EncoderCacheSize - 0
    BY <1>1, SumOfNone DEF NumFreeableSlots
  <2> QED BY <1>1, <1>2, <1>3, <2>1 DEF ImagesInv
<1>7. SharesInv
  BY <1>2 DEF SharesInv
<1> QED BY <1>5, <1>6, <1>7 DEF ResourcesInv

\* The blocks of n tokens hold n tokens.
LEMMA CeilSuffices ==
  ASSUME NEW n \in Int
  PROVE  Ceil(n, BlockSize) \in Int /\ n <= Ceil(n, BlockSize) * BlockSize
<1> DEFINE d == BlockSize
           m == n + d - 1
           q == m \div d
           p == m % d
<1>1. d \in Nat \ {0}
  BY SchedulerAssumption
<1>2. m \in Int /\ m - n = d - 1
  BY <1>1
<1> HIDE DEF m, d
<1>3. q \in Int /\ p \in 0 .. d - 1 /\ m = (d * q) + p
  BY <1>1, <1>2
<1>4. d * q \in Int /\ q * d = d * q
  BY <1>1, <1>3
<1> HIDE DEF q, p
<1>5. n <= q * d
  BY <1>1, <1>2, <1>3, <1>4
<1> QED BY <1>3, <1>5 DEF Ceil, q, m, d

\* More blocks hold as much at least.
LEMMA MoreBlocks ==
  ASSUME NEW a \in Int, NEW b \in Int, a <= b
  PROVE  a * BlockSize <= b * BlockSize /\ a * BlockSize \in Int /\ b * BlockSize \in Int
<1> DEFINE d == BlockSize
<1>1. d \in Nat \ {0}
  BY SchedulerAssumption
<1> HIDE DEF d
<1>2. (b - a) * d >= 0 /\ (b - a) * d = (b * d) - (a * d) /\ a * d \in Int /\ b * d \in Int
  BY <1>1
<1>3. a * d <= b * d
  BY <1>2
<1> QED BY <1>2, <1>3 DEF d

\* What allocate_slots adds covers the tokens it is asked for.
LEMMA AllocationCovers ==
  ASSUME TypeOK, NEW r \in Req, NEW n \in Int, req_blocks[r] >= 0
  PROVE  /\ BlocksMissing(r, num_computed_tokens[r] + n) \in Nat
         /\ num_computed_tokens[r] + n
              <= (req_blocks[r] + BlocksMissing(r, num_computed_tokens[r] + n)) * BlockSize
<1> DEFINE k == num_computed_tokens[r] + n
           c == Ceil(k, BlockSize)
           b == req_blocks[r]
           missing == BlocksMissing(r, k)
<1>1. k \in Int /\ b \in Int /\ b >= 0
  BY CounterTypes DEF TypeOK, RequestsTypeOK
<1>2. missing = IF c - b > 0 THEN c - b ELSE 0
  BY DEF BlocksMissing
<1> HIDE DEF k, missing, b
<1>3. c \in Int /\ k <= c * BlockSize
  BY <1>1, CeilSuffices
<1> HIDE DEF c
<1>4. missing \in Nat /\ c <= b + missing /\ b + missing \in Int
  BY <1>1, <1>2, <1>3
<1>5. c * BlockSize <= (b + missing) * BlockSize /\ c * BlockSize \in Int /\ (b + missing) * BlockSize \in Int
  BY <1>3, <1>4, MoreBlocks
<1>6. k <= (b + missing) * BlockSize
  BY <1>1, <1>3, <1>5
<1> QED BY <1>4, <1>6 DEF k, b, missing

\* The free blocks, and the room in the encoder cache, are integers.
LEMMA ResourceTypes ==
  ASSUME TypeOK
  PROVE  /\ NumFreeBlocks \in Int /\ NumFreeableSlots \in Int
         /\ NumFreeBlocks = NumBlocks - 1 - SumFunctionOnSet(req_blocks, Req)
         /\ SumFunctionOnSet(req_blocks, Req) \in Int /\ NumBlocks \in Int
<1>1. req_blocks \in [Req -> Int] /\ encoder_refs \subseteq Req
  BY DEF TypeOK, RequestsTypeOK
<1>2. /\ NumBlocks \in Int /\ EncoderCacheSize \in Int /\ EncoderTokens \in [Req -> Nat]
      /\ IsFiniteSet(Req)
  BY SchedulerAssumption, ReqAssumption
<1>3. SumFunctionOnSet(req_blocks, Req) \in Int
  BY <1>1, <1>2, SumOfOne
<1>4. \A r \in encoder_refs : EncoderTokens[r] \in Int
  BY <1>1, <1>2
<1>5. IsFiniteSet(encoder_refs)
  BY <1>1, <1>2, FS_Subset
<1>6. SumFunctionOnSet(EncoderTokens, encoder_refs) \in Int
  BY <1>4, <1>5, SumOfOne
<1>7. NumFreeBlocks = NumBlocks - 1 - SumFunctionOnSet(req_blocks, Req)
  BY <1>1 DEF NumFreeBlocks, SumFunction
<1>8. NumFreeBlocks \in Int
  BY <1>2, <1>3, <1>7
<1>9. NumFreeableSlots \in Int
  BY <1>2, <1>6 DEF NumFreeableSlots
<1> QED BY <1>2, <1>3, <1>7, <1>8, <1>9

\* Whoever gives blocks back leaves as many free at least.
LEMMA FewerBlocks ==
  ASSUME TypeOK, TypeOK', \A r \in Req : req_blocks'[r] <= req_blocks[r]
  PROVE  NumFreeBlocks <= NumFreeBlocks'
<1>1. /\ \A r \in Req : req_blocks[r] \in Int /\ req_blocks'[r] \in Int
      /\ IsFiniteSet(Req)
  BY ReqAssumption DEF TypeOK, RequestsTypeOK
<1>2. SumFunctionOnSet(req_blocks', Req) <= SumFunctionOnSet(req_blocks, Req)
  <2> DEFINE f == req_blocks'
             g == req_blocks
  <2>1. \A r \in Req : f[r] \in Int /\ g[r] \in Int /\ f[r] <= g[r]
    BY <1>1
  <2> HIDE DEF f, g
  <2>2. SumFunctionOnSet(f, Req) <= SumFunctionOnSet(g, Req)
    BY <1>1, <2>1, SumIsMonotonic
  <2> QED BY <2>2 DEF f, g
<1>3. /\ NumFreeBlocks = NumBlocks - 1 - SumFunctionOnSet(req_blocks, Req)
      /\ SumFunctionOnSet(req_blocks, Req) \in Int /\ NumBlocks \in Int
  BY ResourceTypes
<1>4. /\ NumFreeBlocks' = NumBlocks - 1 - SumFunctionOnSet(req_blocks', Req)
      /\ SumFunctionOnSet(req_blocks', Req) \in Int
  <2>1. (TypeOK => /\ NumFreeBlocks = NumBlocks - 1 - SumFunctionOnSet(req_blocks, Req)
                   /\ SumFunctionOnSet(req_blocks, Req) \in Int)'
    BY ResourceTypes, PTL
  <2> QED BY <2>1
<1> QED BY <1>2, <1>3, <1>4

\* Whoever gives up images leaves as much room at least.
LEMMA FewerImages ==
  ASSUME TypeOK, encoder_refs' \subseteq encoder_refs
  PROVE  NumFreeableSlots <= NumFreeableSlots'
<1> DEFINE A == encoder_refs
           B == encoder_refs'
<1>1. A \subseteq Req /\ B \in SUBSET A
  BY DEF TypeOK, RequestsTypeOK
<1>2. IsFiniteSet(A) /\ \A r \in A : EncoderTokens[r] \in Nat
  BY <1>1, ReqAssumption, FS_Subset, SchedulerAssumption
<1>3. IsFiniteSet(B) /\ \A r \in B : EncoderTokens[r] \in Int
  BY <1>1, <1>2, FS_Subset
<1>4. \A r \in A : EncoderTokens[r] \in Int
  BY <1>2
<1> HIDE DEF A, B
<1>5. SumFunctionOnSet(EncoderTokens, B) <= SumFunctionOnSet(EncoderTokens, A)
  BY <1>1, <1>2, SumOfSubset
<1>6. SumFunctionOnSet(EncoderTokens, A) \in Int
  BY <1>2, <1>4, SumOfOne
<1>7. SumFunctionOnSet(EncoderTokens, B) \in Int
  BY <1>3, SumOfOne
<1>8. EncoderCacheSize \in Int
  BY SchedulerAssumption
<1>9. EncoderCacheSize - SumFunctionOnSet(EncoderTokens, A)
        <= EncoderCacheSize - SumFunctionOnSet(EncoderTokens, B)
  BY <1>5, <1>6, <1>7, <1>8
<1> QED BY <1>9 DEF NumFreeableSlots, A, B

\* One image more takes its tokens, if it was not there.
LEMMA OneImageMore ==
  ASSUME TypeOK, NEW r \in Req, encoder_refs' = encoder_refs \cup {r},
         NumFreeableSlots >= 0, EncoderTokens[r] <= NumFreeableSlots
  PROVE  NumFreeableSlots' >= 0
<1> DEFINE A == encoder_refs
           B == encoder_refs'
<1>1. A \subseteq Req /\ B \subseteq Req /\ B = A \cup {r}
  BY DEF TypeOK, RequestsTypeOK
<1>2. IsFiniteSet(B) /\ \A q \in B : EncoderTokens[q] \in Int
  BY <1>1, ReqAssumption, FS_Subset, SchedulerAssumption
<1>3. EncoderCacheSize \in Int /\ EncoderTokens[r] \in Int
  BY SchedulerAssumption
<1>4. /\ EncoderCacheSize - SumFunctionOnSet(EncoderTokens, A) >= 0
      /\ EncoderTokens[r] <= EncoderCacheSize - SumFunctionOnSet(EncoderTokens, A)
  BY DEF NumFreeableSlots
<1> HIDE DEF A, B
<1>5. CASE r \in A
  <2>1. B = A
    BY <1>1, <1>5
  <2> QED BY <1>4, <2>1 DEF NumFreeableSlots, B
<1>6. CASE r \notin A
  <2>1. B \ {r} = A /\ r \in B
    BY <1>1, <1>6
  <2>2. SumFunctionOnSet(EncoderTokens, B) = EncoderTokens[r] + SumFunctionOnSet(EncoderTokens, B \ {r})
    BY <1>2, <2>1, SumOfOne
  <2>3. IsFiniteSet(A) /\ \A q \in A : EncoderTokens[q] \in Int
    BY <1>1, <1>2, FS_Subset
  <2>4. SumFunctionOnSet(EncoderTokens, A) \in Int
    BY <2>3, SumOfOne
  <2> DEFINE s == SumFunctionOnSet(EncoderTokens, A)
  <2>5. SumFunctionOnSet(EncoderTokens, B) = EncoderTokens[r] + s /\ s \in Int
        /\ EncoderTokens[r] <= EncoderCacheSize - s
    BY <2>1, <2>2, <2>4, <1>4
  <2> HIDE DEF s
  <2>6. EncoderCacheSize - (EncoderTokens[r] + s) >= 0
    BY <2>5, <1>3
  <2> QED BY <2>5, <2>6 DEF NumFreeableSlots, B
<1> QED BY <1>5, <1>6

\* Outside schedule() blocks and images are only given back, with what was computed.
LEMMA BetweenStepsResources ==
  ASSUME TypeOK, TypeOK', ResourcesInv, ComputedInv, step.phase = "idle", step' = step, NEW S,
         \A r \in Req : /\ req_blocks'[r] = IF r \in S THEN 0 ELSE req_blocks[r]
                        /\ num_computed_tokens'[r] = IF r \in S THEN 0 ELSE num_computed_tokens[r]
                        /\ r \notin S /\ status[r] = "RUNNING" => status'[r] = "RUNNING",
         encoder_refs' \subseteq encoder_refs \ S
  PROVE  ResourcesInv'
<1>1. /\ NumFreeBlocks >= 0 /\ NumFreeableSlots >= 0
      /\ \A r \in Req :
           /\ req_blocks[r] >= 0
           /\ num_computed_tokens[r] + step.num_scheduled_tokens[r] <= req_blocks[r] * BlockSize
           /\ req_blocks[r] > 0 => status[r] = "RUNNING"
      /\ \A r \in encoder_refs : status[r] = "RUNNING"
      /\ \A r \in step.scheduled_encoder_inputs : step.num_scheduled_tokens[r] # 0
  BY DEF ResourcesInv, SlotsInv, ImagesInv, SharesInv
<1>2. \A r \in Req : step.num_scheduled_tokens[r] = 0
  BY DEF ComputedInv
<1>3. /\ NumFreeBlocks \in Int /\ NumFreeableSlots \in Int /\ BlockSize \in Nat
      /\ \A r \in Req : req_blocks[r] \in Int /\ num_computed_tokens[r] \in Int
      /\ encoder_refs \subseteq Req
  BY ResourceTypes, SchedulerAssumption DEF TypeOK, RequestsTypeOK
<1>4. NumFreeBlocks' \in Int /\ NumFreeableSlots' \in Int
  <2>1. (TypeOK => NumFreeBlocks \in Int /\ NumFreeableSlots \in Int)'
    BY ResourceTypes, PTL
  <2> QED BY <2>1
<1>5. NumFreeBlocks' >= 0
  <2>1. \A r \in Req : req_blocks'[r] <= req_blocks[r]
    BY <1>1, <1>3
  <2>2. NumFreeBlocks <= NumFreeBlocks'
    BY <2>1, FewerBlocks
  <2> QED BY <1>1, <1>3, <1>4, <2>2
<1>6. NumFreeableSlots' >= 0
  <2>1. encoder_refs' \subseteq encoder_refs
    OBVIOUS
  <2>2. NumFreeableSlots <= NumFreeableSlots'
    BY <2>1, FewerImages
  <2> QED BY <1>1, <1>3, <1>4, <2>2
<1>7. \A r \in Req : /\ req_blocks'[r] >= 0
                     /\ num_computed_tokens'[r] + step'.num_scheduled_tokens[r]
                          <= req_blocks'[r] * BlockSize
                     /\ req_blocks'[r] > 0 => status'[r] = "RUNNING"
  BY <1>1, <1>2, <1>3
<1>8. \A r \in encoder_refs' : status'[r] = "RUNNING"
  BY <1>1, <1>3
<1>9. SlotsInv' /\ SharesInv'
  BY <1>1, <1>5, <1>7 DEF SlotsInv, SharesInv
<1>10. ImagesInv'
  BY <1>2, <1>6, <1>8 DEF ImagesInv
<1> QED BY <1>9, <1>10 DEF ResourcesInv

\* What clients do gives blocks and images back with the request they belong to.
LEMMA ClientResources ==
  ASSUME "reset" \notin ClientOps, TypeOK, TypeOK', ResourcesInv, ComputedInv, ClientStep
  PROVE  ResourcesInv'
<1>1. step.phase = "idle" /\ step' = step
  BY DEF ClientStep, AddRequest, AbortRequest, SetPauseState, ResetPrefixCache,
         BetweenSteps, Phase
<1>2. /\ status \in [Req -> Statuses] /\ req_blocks \in [Req -> Int]
      /\ num_computed_tokens \in [Req -> Int]
  BY DEF TypeOK, RequestsTypeOK
<1>3. ASSUME NEW r \in Req, AddRequest(r) PROVE ResourcesInv'
  <2> DEFINE S == {}
  <2>1. /\ status[r] = "UNSEEN"
        /\ \/ status' = [status EXCEPT ![r] = "WAITING"]
           \/ status' = [status EXCEPT ![r] = "WAITING_FOR_STRUCTURED_OUTPUT_GRAMMAR"]
        /\ UNCHANGED <<req_blocks, encoder_refs, num_computed_tokens>>
    BY <1>3 DEF AddRequest, cacheVars
  <2>2. \A q \in Req : status[q] = "RUNNING" => status'[q] = "RUNNING"
    BY <1>2, <2>1
  <2>3. /\ \A q \in Req :
             /\ req_blocks'[q] = IF q \in S THEN 0 ELSE req_blocks[q]
             /\ num_computed_tokens'[q] = IF q \in S THEN 0 ELSE num_computed_tokens[q]
             /\ q \notin S /\ status[q] = "RUNNING" => status'[q] = "RUNNING"
        /\ encoder_refs' \subseteq encoder_refs \ S
    BY <2>1, <2>2
  <2> HIDE DEF S
  <2> QED BY <1>1, <2>3, BetweenStepsResources
<1>4. ASSUME NEW r \in Req, AbortRequest(r) PROVE ResourcesInv'
  <2> DEFINE S == {r}
  <2>1. /\ status' = [status EXCEPT ![r] = "FINISHED_ABORTED"]
        /\ req_blocks' = Zeroed(req_blocks, {r})
        /\ num_computed_tokens' = Zeroed(num_computed_tokens, {r})
        /\ encoder_refs' = encoder_refs \ {r}
    BY <1>4 DEF AbortRequest, FreeRequests
  <2>2. /\ \A q \in Req :
             /\ req_blocks'[q] = IF q \in S THEN 0 ELSE req_blocks[q]
             /\ num_computed_tokens'[q] = IF q \in S THEN 0 ELSE num_computed_tokens[q]
             /\ q \notin S /\ status[q] = "RUNNING" => status'[q] = "RUNNING"
        /\ encoder_refs' \subseteq encoder_refs \ S
    BY <1>2, <2>1 DEF Zeroed
  <2> HIDE DEF S
  <2> QED BY <1>1, <2>2, BetweenStepsResources
<1>5. ASSUME NEW pause \in {"UNPAUSED", "PAUSED_NEW", "PAUSED_ALL"}, SetPauseState(pause)
      PROVE  ResourcesInv'
  <2> DEFINE S == {}
  <2>1. UNCHANGED <<status, req_blocks, encoder_refs, num_computed_tokens>>
    BY <1>5 DEF SetPauseState, requestVars, cacheVars
  <2>2. /\ \A q \in Req :
             /\ req_blocks'[q] = IF q \in S THEN 0 ELSE req_blocks[q]
             /\ num_computed_tokens'[q] = IF q \in S THEN 0 ELSE num_computed_tokens[q]
             /\ q \notin S /\ status[q] = "RUNNING" => status'[q] = "RUNNING"
        /\ encoder_refs' \subseteq encoder_refs \ S
    BY <2>1
  <2> HIDE DEF S
  <2> QED BY <1>1, <2>2, BetweenStepsResources
<1> QED BY <1>3, <1>4, <1>5 DEF ClientStep, ResetPrefixCache

\* A batch that answers gives back what the stopped requests held, and the images
\* that are computed.
LEMMA OutputResources ==
  ASSUME TypeOK, TypeOK', ResourcesInv, ComputedInv, UpdateFromOutput
  PROVE  ResourcesInv'
<1>1. step.phase = "idle" /\ step' = step
  BY DEF UpdateFromOutput, Phase
<1> DEFINE batch == Head(batch_queue)
           live == batch.scheduled \cap Unfinished
           sampled == batch.sampled \cap live
           extended == sampled \ Discarded(sampled)
           capped == { r \in extended : \/ NumTokens(r) + 1 >= MaxModelLen
                                        \/ num_output_tokens[r] + 1 >= MaxTokens[r] }
           encoded == { r \in live :
                          EncoderStart[r] + EncoderTokens[r] <= num_computed_tokens[r] }
<1>2. PICK eos \in SUBSET extended :
        /\ status' = [r \in Req |->
             IF r \in eos THEN "FINISHED_STOPPED"
             ELSE IF r \in capped THEN "FINISHED_LENGTH_CAPPED"
             ELSE status[r]]
        /\ num_computed_tokens' = Zeroed(num_computed_tokens, eos \cup capped)
        /\ req_blocks' = Zeroed(req_blocks, eos \cup capped)
        /\ encoder_refs' = encoder_refs \ ((eos \cup capped) \cup encoded)
  BY DEF UpdateFromOutput
<1> HIDE DEF capped, encoded
<1> DEFINE S == eos \cup capped
<1>3. /\ \A q \in Req :
           /\ req_blocks'[q] = IF q \in S THEN 0 ELSE req_blocks[q]
           /\ num_computed_tokens'[q] = IF q \in S THEN 0 ELSE num_computed_tokens[q]
           /\ q \notin S /\ status[q] = "RUNNING" => status'[q] = "RUNNING"
      /\ encoder_refs' \subseteq encoder_refs \ S
  BY <1>2 DEF Zeroed
<1> HIDE DEF S
<1> QED BY <1>1, <1>3, BetweenStepsResources

\* Where nothing is allocated or scheduled: an image is given up at most, and not one
\* the step relies on.
LEMMA MovingOnResources ==
  ASSUME TypeOK, TypeOK', ResourcesInv, step.phase # "idle", step'.phase \notin {"idle", "alloc"},
         UNCHANGED <<status, num_computed_tokens, req_blocks, pause_state>>,
         step'.num_scheduled_tokens = step.num_scheduled_tokens,
         step'.token_budget = step.token_budget,
         step'.encoder_compute_budget = step.encoder_compute_budget,
         step'.scheduled_encoder_inputs = step.scheduled_encoder_inputs,
         encoder_refs' \subseteq encoder_refs,
         \A r \in encoder_refs' : status[r] = "RUNNING",
         \A r \in encoder_refs : step.num_scheduled_tokens[r] # 0 => r \in encoder_refs'
  PROVE  ResourcesInv'
<1>1. SlotsInv /\ ImagesInv /\ SharesInv
  BY DEF ResourcesInv
<1>2. SlotsInv'
  <2>1. NumFreeBlocks' = NumFreeBlocks
    BY DEF NumFreeBlocks
  <2> QED BY <1>1, <2>1 DEF SlotsInv
<1>3. ImagesInv'
  <2>1. NumFreeableSlots' >= 0
    <3>1. NumFreeableSlots <= NumFreeableSlots'
      BY FewerImages
    <3>2. NumFreeableSlots \in Int
      BY ResourceTypes
    <3>3. (TypeOK => NumFreeableSlots \in Int)'
      BY ResourceTypes, PTL
    <3>4. NumFreeableSlots >= 0
      BY <1>1 DEF ImagesInv
    <3> QED BY <3>1, <3>2, <3>3, <3>4
  <2>2. ASSUME NEW r \in Req, step'.num_scheduled_tokens[r] # 0
        PROVE  ImageAtHand(r, step.num_scheduled_tokens[r])'
    <3>1. ImageAtHand(r, step.num_scheduled_tokens[r])
      BY <1>1, <2>2 DEF ImagesInv
    <3> QED BY <2>2, <3>1 DEF ImageAtHand
  <2> QED BY <2>1, <2>2 DEF ImagesInv
<1>4. SharesInv'
  <2>1. TotalNumScheduledTokens' = TotalNumScheduledTokens
    BY DEF TotalNumScheduledTokens
  <2> QED BY <1>1, <2>1 DEF SharesInv
<1> QED BY <1>2, <1>3, <1>4 DEF ResourcesInv

\* The steps that leave the loop, or pass over a request.  A waiting request that gets
\* no slots gives its image up, and was not scheduled before.
LEMMA PassingOnResources ==
  ASSUME TypeOK, TypeOK', IndexInv, QueueInv, ResourcesInv,
         \/ EndLoop \/ GiveUpAllocation \/ EndTail
         \/ \E r \in Req : SkipMaxTokensInFlight(r)
  PROVE  ResourcesInv'
<1>1. UNCHANGED <<status, num_computed_tokens, req_blocks, pause_state>>
  BY DEF EndLoop, GiveUpAllocation, EndTail, SkipMaxTokensInFlight, requestVars, cacheVars,
         engineVars
<1>2. step \in Locals
  BY DEF TypeOK, StepTypeOK
<1>3. \/ step' = PassedOver(step) /\ step.phase = "loop"
      \/ \E phase \in {"tail", "commit"} : step' = [step EXCEPT !.phase = phase]
      \/ step' = [step EXCEPT !.phase = "commit", !.request = NoRequest,
                              !.num_new_tokens = 0, !.compute_encoder = FALSE]
  BY DEF EndLoop, GiveUpAllocation, EndTail, SkipMaxTokensInFlight, Current, Phase
<1>4. /\ step'.num_scheduled_tokens = step.num_scheduled_tokens
      /\ step'.token_budget = step.token_budget
      /\ step'.encoder_compute_budget = step.encoder_compute_budget
      /\ step'.scheduled_encoder_inputs = step.scheduled_encoder_inputs
      /\ step'.phase \notin {"idle", "alloc"}
  BY <1>2, <1>3 DEF PassedOver, Locals
<1>5. step.phase # "idle"
  BY DEF EndLoop, GiveUpAllocation, EndTail, SkipMaxTokensInFlight, Current, Phase
<1>6. \A r \in encoder_refs :
        status[r] = "RUNNING" \/ (step.phase = "alloc" /\ r = step.request)
  BY DEF ResourcesInv, ImagesInv
<1>7. CASE step.phase # "alloc"
  <2>1. encoder_refs' = encoder_refs
    BY <1>7 DEF EndLoop, GiveUpAllocation, EndTail, SkipMaxTokensInFlight, Phase, cacheVars
  <2> QED BY <1>1, <1>4, <1>5, <1>6, <1>7, <2>1, MovingOnResources
<1>8. CASE step.phase = "alloc"
  <2>1. /\ Phase("alloc")
        /\ encoder_refs' = IF step.request \in waiting_req_ids
                           THEN encoder_refs \ {step.request} ELSE encoder_refs
    BY <1>8 DEF EndLoop, GiveUpAllocation, EndTail, SkipMaxTokensInFlight, Current, Phase
  <2>2. /\ InSchedule /\ RolesInv /\ ScheduledInv
        /\ step.req_index \in 1..Len(combined) /\ step.req_index \in Int
        /\ step.request = combined[step.req_index] /\ step.request \notin preempted_req_ids
    BY <2>1, InHandIsListed
  <2>3. /\ Roles
        /\ \A i \in 1..Len(combined) : combined[i] \in Range(combined)
        /\ \A i, j \in 1..Len(combined) : combined[i] = combined[j] => i = j
    BY <2>2, DuringSchedule
  <2>4. step.request \in waiting_req_ids \/ status[step.request] = "RUNNING"
    BY <1>8, <2>2, <2>3 DEF Roles, Denied, RolesInv
  <2>5. \A r \in encoder_refs' : status[r] = "RUNNING"
    BY <1>6, <2>1, <2>4
  <2>6. \A r \in Req : step.num_scheduled_tokens[r] # 0 => r # step.request
    BY <1>8, <2>2, <2>3 DEF ScheduledInv
  <2>7. encoder_refs' \subseteq encoder_refs /\ encoder_refs \subseteq Req
    BY <2>1 DEF TypeOK, RequestsTypeOK
  <2>8. \A r \in encoder_refs : step.num_scheduled_tokens[r] # 0 => r \in encoder_refs'
    BY <2>1, <2>6, <2>7
  <2> QED BY <1>1, <1>4, <1>5, <2>5, <2>7, <2>8, MovingOnResources
<1> QED BY <1>7, <1>8

\* What _try_schedule_encoder_inputs decides of the image of r.
LEMMA EncoderOutcomesImages ==
  ASSUME TypeOK, NEW r \in Req, NEW n \in Nat, NEW outcome \in EncoderOutcomes(r, n)
  PROVE  /\ r \in encoder_refs => outcome.hit
         /\ outcome.hit /\ r \notin encoder_refs => EncoderTokens[r] <= NumFreeableSlots
         /\ outcome.compute => ~outcome.hit /\ EncoderTokens[r] <= NumFreeableSlots
         /\ ~outcome.compute /\ ~outcome.hit /\ outcome.num_new_tokens # 0 =>
              \/ EncoderTokens[r] = 0
              \/ EncoderStart[r] >= num_computed_tokens[r] + outcome.num_new_tokens
              \/ EncoderStart[r] + EncoderTokens[r] <= num_computed_tokens[r]
<1> DEFINE unchanged == [num_new_tokens |-> n, compute |-> FALSE, hit |-> r \in encoder_refs]
           cut == IF num_computed_tokens[r] < EncoderStart[r]
                  THEN EncoderStart[r] - num_computed_tokens[r] ELSE 0
           untouched == \/ n = 0
                        \/ EncoderTokens[r] = 0
                        \/ EncoderStart[r] >= num_computed_tokens[r] + n
                        \/ EncoderStart[r] + EncoderTokens[r] <= num_computed_tokens[r]
                        \/ r \in encoder_refs
           fits == EncoderTokens[r] <= NumFreeableSlots
<1>1. num_computed_tokens[r] \in Int /\ EncoderStart[r] \in Nat
  BY CounterTypes
<1>2. \/ outcome = unchanged /\ untouched
      \/ outcome = [unchanged EXCEPT !.hit = TRUE] /\ ~untouched /\ fits
      \/ outcome = [unchanged EXCEPT !.compute = TRUE] /\ ~untouched /\ fits
      \/ outcome = [unchanged EXCEPT !.num_new_tokens = cut] /\ ~untouched
  BY DEF EncoderOutcomes
<1>3. outcome = unchanged =>
        outcome.num_new_tokens = n /\ ~outcome.compute /\ outcome.hit = (r \in encoder_refs)
  OBVIOUS
<1>4. outcome = [unchanged EXCEPT !.hit = TRUE]
        => outcome.num_new_tokens = n /\ ~outcome.compute /\ outcome.hit = TRUE
  OBVIOUS
<1>5. outcome = [unchanged EXCEPT !.compute = TRUE]
        => outcome.compute /\ outcome.hit = (r \in encoder_refs)
  OBVIOUS
<1>6. outcome = [unchanged EXCEPT !.num_new_tokens = cut]
        => /\ outcome.num_new_tokens = cut /\ ~outcome.compute
           /\ outcome.hit = (r \in encoder_refs)
  <2> HIDE DEF cut
  <2> QED OBVIOUS
<1>7. cut # 0 => EncoderStart[r] >= num_computed_tokens[r] + cut
  BY <1>1
<1>8. ~untouched => r \notin encoder_refs
  OBVIOUS
<1> HIDE DEF unchanged, cut, fits
<1> QED BY <1>2, <1>3, <1>4, <1>5, <1>6, <1>7, <1>8 DEF fits

\* When the iteration goes on to allocate_slots, the image is there, is not needed
\* for these tokens, or has room to be computed.
LEMMA TryResources ==
  ASSUME TypeOK, TypeOK', ResourcesInv, step.phase = "loop", NEW r \in Req, NEW n \in Nat,
         NEW outcome \in EncoderOutcomes(r, n), outcome.num_new_tokens # 0,
         TryToAllocate(r, outcome), UNCHANGED <<status, num_computed_tokens, req_blocks, pause_state>>
  PROVE  ResourcesInv'
<1>1. SlotsInv /\ ImagesInv /\ SharesInv
  BY DEF ResourcesInv
<1>2. /\ r \in encoder_refs => outcome.hit
      /\ outcome.hit /\ r \notin encoder_refs => EncoderTokens[r] <= NumFreeableSlots
      /\ outcome.compute => ~outcome.hit /\ EncoderTokens[r] <= NumFreeableSlots
      /\ ~outcome.compute /\ ~outcome.hit =>
           \/ EncoderTokens[r] = 0
           \/ EncoderStart[r] >= num_computed_tokens[r] + outcome.num_new_tokens
           \/ EncoderStart[r] + EncoderTokens[r] <= num_computed_tokens[r]
  BY EncoderOutcomesImages
<1>3. /\ encoder_refs' = IF outcome.hit THEN encoder_refs \cup {r} ELSE encoder_refs
      /\ step'.phase = "alloc" /\ step'.request = r
      /\ step'.num_new_tokens = outcome.num_new_tokens
      /\ step'.compute_encoder = outcome.compute
      /\ step'.num_scheduled_tokens = step.num_scheduled_tokens
      /\ step'.token_budget = step.token_budget
      /\ step'.encoder_compute_budget = step.encoder_compute_budget
      /\ step'.scheduled_encoder_inputs = step.scheduled_encoder_inputs
  BY DEF TryToAllocate, TypeOK, StepTypeOK, Locals
<1>4. SlotsInv'
  <2>1. NumFreeBlocks' = NumFreeBlocks
    BY DEF NumFreeBlocks
  <2> QED BY <1>1, <1>3, <2>1 DEF SlotsInv
<1>5. SharesInv'
  <2>1. TotalNumScheduledTokens' = TotalNumScheduledTokens
    BY <1>3 DEF TotalNumScheduledTokens
  <2> QED BY <1>1, <1>3, <2>1 DEF SharesInv
<1>6. NumFreeableSlots' >= 0
  <2>1. CASE encoder_refs' = encoder_refs
    BY <1>1, <2>1 DEF NumFreeableSlots, ImagesInv
  <2>2. CASE outcome.hit /\ r \notin encoder_refs
    BY <1>1, <1>2, <1>3, <2>2, OneImageMore DEF ImagesInv
  <2> QED BY <1>3, <2>1, <2>2
<1>7. \A q \in encoder_refs' : status'[q] = "RUNNING" \/ q = r
  BY <1>1, <1>3 DEF ImagesInv
<1>8. ASSUME NEW q \in Req, step'.num_scheduled_tokens[q] # 0
      PROVE  ImageAtHand(q, step.num_scheduled_tokens[q])'
  <2>1. ImageAtHand(q, step.num_scheduled_tokens[q])
    BY <1>1, <1>3, <1>8 DEF ImagesInv
  <2> QED BY <1>3, <2>1 DEF ImageAtHand
<1>9. CASE outcome.compute
  <2>1. encoder_refs' = encoder_refs
    BY <1>2, <1>3, <1>9
  <2>2. EncoderTokens[r] <= NumFreeableSlots'
    BY <1>2, <1>9, <2>1 DEF NumFreeableSlots
  <2> QED BY <1>3, <1>4, <1>5, <1>6, <1>7, <1>8, <1>9, <2>2 DEF ResourcesInv, ImagesInv
<1>10. CASE ~outcome.compute
  <2>1. ImageAtHand(r, step.num_new_tokens)'
    <3>1. /\ num_computed_tokens[r] + outcome.num_new_tokens \in Int
          /\ EncoderStart[r] \in Int /\ EncoderTokens[r] \in Int
      BY <1>3, CounterTypes, EncoderOutcomesType
    <3>2. outcome.hit => r \in encoder_refs'
      BY <1>3
    <3> QED BY <1>2, <1>3, <1>10, <3>1, <3>2 DEF ImageAtHand
  <2>2. ~step'.compute_encoder
    BY <1>3, <1>10
  <2> QED BY <1>3, <1>4, <1>5, <1>6, <1>7, <1>8, <2>1, <2>2 DEF ResourcesInv, ImagesInv
<1> QED BY <1>9, <1>10

\* The part of an iteration that precedes allocate_slots.
LEMMA ConsiderResources ==
  ASSUME TypeOK, TypeOK', IndexInv, QueueInv, TokensInv, ResourcesInv, NEW r \in Req,
         ConsiderRunning(r) \/ ConsiderWaiting(r)
  PROVE  ResourcesInv'
<1>1. /\ Current(r)
      /\ UNCHANGED <<status, num_computed_tokens, req_blocks, pause_state>>
  BY DEF ConsiderRunning, ConsiderWaiting, requestVars, engineVars
<1>2. step \in Locals /\ step.phase = "loop"
  BY <1>1 DEF TypeOK, StepTypeOK, Current, Phase
<1>3. PICK n \in Nat : \E outcome \in EncoderOutcomes(r, n) :
        \/ step' = PassedOver(step) /\ encoder_refs' = encoder_refs
        \/ step' = [step EXCEPT !.phase = "commit"] /\ encoder_refs' = encoder_refs
        \/ TryToAllocate(r, outcome) /\ outcome.num_new_tokens # 0
  BY TokensConsidered
<1>4. PICK outcome \in EncoderOutcomes(r, n) :
        \/ step' = PassedOver(step) /\ encoder_refs' = encoder_refs
        \/ step' = [step EXCEPT !.phase = "commit"] /\ encoder_refs' = encoder_refs
        \/ TryToAllocate(r, outcome) /\ outcome.num_new_tokens # 0
  BY <1>3
<1>5. CASE (step' = PassedOver(step) \/ step' = [step EXCEPT !.phase = "commit"])
           /\ encoder_refs' = encoder_refs
  <2>1. /\ step'.num_scheduled_tokens = step.num_scheduled_tokens
        /\ step'.token_budget = step.token_budget
        /\ step'.encoder_compute_budget = step.encoder_compute_budget
        /\ step'.scheduled_encoder_inputs = step.scheduled_encoder_inputs
        /\ step'.phase \notin {"idle", "alloc"}
    BY <1>2, <1>5 DEF PassedOver, Locals
  <2>2. \A q \in encoder_refs : status[q] = "RUNNING"
    BY <1>2 DEF ResourcesInv, ImagesInv
  <2> QED BY <1>1, <1>2, <1>5, <2>1, <2>2, MovingOnResources
<1>6. CASE TryToAllocate(r, outcome) /\ outcome.num_new_tokens # 0
  BY <1>1, <1>2, <1>6, TryResources
<1> QED BY <1>4, <1>5, <1>6

\* schedule() starts with the whole of the budgets and nothing given out.
LEMMA BeginResources ==
  ASSUME TypeOK, TypeOK', ResourcesInv, ComputedInv, BeginSchedule
  PROVE  ResourcesInv'
<1>1. /\ step.phase = "idle"
      /\ UNCHANGED <<status, num_computed_tokens, req_blocks, encoder_refs, pause_state>>
      /\ step'.phase = "loop" /\ step'.scheduled_encoder_inputs = {}
      /\ step'.token_budget = IF pause_state = "PAUSED_ALL" THEN 0 ELSE MaxNumScheduledTokens
      /\ step'.encoder_compute_budget = MaxNumEncoderInputTokens
      /\ step'.num_scheduled_tokens = [r \in Req |-> 0]
  BY DEF BeginSchedule, BetweenSteps, Phase, Idle, cacheVars, engineVars
<1>2. \A r \in Req : step.num_scheduled_tokens[r] = 0 /\ step'.num_scheduled_tokens[r] = 0
  BY <1>1 DEF ComputedInv
<1>3. SlotsInv /\ ImagesInv
  BY DEF ResourcesInv
<1>4. SlotsInv'
  <2>1. NumFreeBlocks' = NumFreeBlocks
    BY <1>1 DEF NumFreeBlocks
  <2> QED BY <1>1, <1>2, <1>3, <2>1 DEF SlotsInv
<1>5. ImagesInv'
  <2>1. NumFreeableSlots' = NumFreeableSlots
    BY <1>1 DEF NumFreeableSlots
  <2> QED BY <1>1, <1>2, <1>3, <2>1 DEF ImagesInv
<1>6. SharesInv'
  <2>1. TotalNumScheduledTokens' = 0
    <3> DEFINE f == [r \in Req |-> 0]
    <3>1. DOMAIN f = Req /\ \A r \in Req : f[r] = 0
      OBVIOUS
    <3>2. TotalNumScheduledTokens' = SumFunctionOnSet(f, DOMAIN f)
      BY <1>1 DEF TotalNumScheduledTokens, SumFunction
    <3> HIDE DEF f
    <3> QED BY <3>1, <3>2, SumOfZeros, ReqAssumption
  <2>2. SumFunctionOnSet(EncoderTokens, step'.scheduled_encoder_inputs) = 0
    BY <1>1, SumOfNone
  <2>3. MaxNumScheduledTokens \in Int /\ MaxNumEncoderInputTokens \in Int
    BY SchedulerAssumption
  <2> QED BY <1>1, <2>1, <2>2, <2>3 DEF SharesInv
<1> QED BY <1>4, <1>5, <1>6 DEF ResourcesInv

\* What a batch computes it has the blocks for, and the budgets end with the step.
LEMMA CommitResources ==
  ASSUME TypeOK, TypeOK', ResourcesInv, CommitSchedule
  PROVE  ResourcesInv'
<1>1. /\ step.phase = "commit" /\ step' = Idle
      /\ UNCHANGED <<status, req_blocks, encoder_refs>>
  BY DEF CommitSchedule, Phase, cacheVars
<1>2. /\ \A r \in Req : step'.num_scheduled_tokens[r] = 0
      /\ step'.phase = "idle" /\ step'.scheduled_encoder_inputs = {}
  BY <1>1 DEF Idle
<1>3. \A r \in Req :
        num_computed_tokens'[r] = num_computed_tokens[r] + step.num_scheduled_tokens[r]
  BY DEF CommitSchedule
<1>4. SlotsInv /\ ImagesInv
  BY DEF ResourcesInv
<1>5. SlotsInv'
  <2>1. NumFreeBlocks' = NumFreeBlocks
    BY <1>1 DEF NumFreeBlocks
  <2>2. \A r \in Req : num_computed_tokens'[r] + step'.num_scheduled_tokens[r]
                         = num_computed_tokens[r] + step.num_scheduled_tokens[r]
    BY <1>2, <1>3, CounterTypes
  <2> QED BY <1>1, <1>4, <2>1, <2>2 DEF SlotsInv
<1>6. ImagesInv'
  <2>1. NumFreeableSlots' = NumFreeableSlots
    BY <1>1 DEF NumFreeableSlots
  <2> QED BY <1>1, <1>2, <1>4, <2>1 DEF ImagesInv
<1>7. SharesInv'
  BY <1>2 DEF SharesInv
<1> QED BY <1>5, <1>6, <1>7 DEF ResourcesInv

\* All the tokens scheduled are those of the requests together.
LEMMA TotalIsSum ==
  ASSUME TypeOK
  PROVE  TotalNumScheduledTokens = SumFunctionOnSet(step.num_scheduled_tokens, Req)
BY DEF TotalNumScheduledTokens, SumFunction, TypeOK, StepTypeOK, Locals

\* allocate_slots takes no more blocks than are free, and they hold all the tokens; the
\* tokens and the image are charged to the budgets.
LEMMA ScheduleResources ==
  ASSUME TypeOK, TypeOK', IndexInv, QueueInv, TokensInv, ResourcesInv, NEW r \in Req,
         ScheduleRunning(r) \/ ScheduleWaiting(r)
  PROVE  ResourcesInv'
<1> DEFINE n == step.num_new_tokens
           missing == BlocksMissing(r, num_computed_tokens[r] + n)
<1>1. /\ Phase("alloc") /\ step.phase = "alloc" /\ r = step.request
      /\ UNCHANGED <<num_computed_tokens, pause_state>>
      /\ missing <= NumFreeBlocks
      /\ req_blocks' = [req_blocks EXCEPT ![r] = @ + missing]
      /\ encoder_refs' = IF step.compute_encoder THEN encoder_refs \cup {r} ELSE encoder_refs
      /\ \/ status' = status /\ r \in running_req_ids
         \/ status' = [status EXCEPT ![r] = "RUNNING"]
      /\ \/ step' = [Scheduled(r, step) EXCEPT !.scheduled_running_reqs = @ \cup {r}]
         \/ step' = [Scheduled(r, step) EXCEPT !.scheduled_resumed_reqs =
                       IF status[r] = "PREEMPTED" THEN @ \cup {r} ELSE @]
  BY DEF ScheduleRunning, ScheduleWaiting, requestVars, Phase, engineVars, FitsNow, CanAllocate,
         AllocateSlots
<1>2. /\ SlotsInv /\ ImagesInv /\ SharesInv /\ BudgetInv /\ ComputedInv
      /\ NumFreeBlocks >= 0 /\ NumFreeableSlots >= 0
  BY DEF ResourcesInv, SlotsInv, ImagesInv, TokensInv
<1>3. /\ InSchedule /\ RolesInv /\ ScheduledInv
      /\ step.req_index \in 1..Len(combined) /\ step.req_index \in Int
      /\ r = combined[step.req_index]
      /\ \A i, j \in 1..Len(combined) : combined[i] = combined[j] => i = j
  BY <1>1, InHandIsListed, DuringSchedule
<1>4. step.num_scheduled_tokens[r] = 0
  BY <1>1, <1>3 DEF ScheduledInv
<1>5. r \notin step.scheduled_encoder_inputs
  BY <1>2, <1>4 DEF SharesInv
<1>6. /\ step'.phase = "loop"
      /\ step'.num_scheduled_tokens = [step.num_scheduled_tokens EXCEPT ![r] = n]
      /\ step'.token_budget = step.token_budget - n
      /\ step'.scheduled_encoder_inputs =
           IF step.compute_encoder THEN step.scheduled_encoder_inputs \cup {r}
           ELSE step.scheduled_encoder_inputs
      /\ step'.encoder_compute_budget =
           IF step.compute_encoder THEN step.encoder_compute_budget - EncoderTokens[r]
           ELSE step.encoder_compute_budget
  <2>1. step \in Locals
    BY DEF TypeOK, StepTypeOK
  <2>2. /\ Scheduled(r, step) \in Locals /\ Scheduled(r, step).phase = "loop"
        /\ Scheduled(r, step).num_scheduled_tokens = [step.num_scheduled_tokens EXCEPT ![r] = n]
        /\ Scheduled(r, step).token_budget = step.token_budget - n
        /\ Scheduled(r, step).encoder_compute_budget =
             IF step.compute_encoder THEN step.encoder_compute_budget - EncoderTokens[r]
             ELSE step.encoder_compute_budget
    BY <2>1, ScheduledFields
  <2>3. Scheduled(r, step).scheduled_encoder_inputs =
          IF step.compute_encoder THEN step.scheduled_encoder_inputs \cup {r}
          ELSE step.scheduled_encoder_inputs
    BY <2>1 DEF Scheduled, Locals
  <2> QED BY <1>1, <2>2, <2>3 DEF Locals
<1>7. /\ n \in Int /\ n # 0
      /\ \A q \in Req : /\ req_blocks[q] \in Int /\ num_computed_tokens[q] \in Int
                        /\ step.num_scheduled_tokens[q] \in Int
      /\ step.token_budget \in Int /\ step.encoder_compute_budget \in Int
      /\ NumFreeBlocks \in Int /\ BlockSize \in Nat
      /\ EncoderTokens[r] \in Int /\ MaxNumScheduledTokens \in Int /\ MaxNumEncoderInputTokens \in Int
  BY <1>1, <1>2, ResourceTypes, CounterTypes, SchedulerAssumption
     DEF BudgetInv, TypeOK, RequestsTypeOK
<1>8. /\ missing \in Nat
      /\ num_computed_tokens[r] + n <= (req_blocks[r] + missing) * BlockSize
  BY <1>2, <1>7, AllocationCovers DEF SlotsInv
<1>9. /\ \A q \in Req : q # r => status'[q] = status[q]
      /\ status'[r] = "RUNNING"
  <2>1. status \in [Req -> Statuses]
    BY DEF TypeOK, RequestsTypeOK
  <2>2. r \in running_req_ids => status[r] = "RUNNING"
    BY <1>1, <1>3 DEF RolesInv
  <2> QED BY <1>1, <2>1, <2>2
<1>10. /\ \A q \in Req \ {r} : /\ req_blocks'[q] = req_blocks[q]
                               /\ step'.num_scheduled_tokens[q] = step.num_scheduled_tokens[q]
       /\ req_blocks'[r] = req_blocks[r] + missing
       /\ step'.num_scheduled_tokens[r] = n
  BY <1>1, <1>6 DEF TypeOK, RequestsTypeOK, StepTypeOK, Locals
<1> HIDE DEF n, missing
<1>11. SlotsInv'
  <2>1. NumFreeBlocks' = NumFreeBlocks - missing
    <3> DEFINE a == req_blocks
               b == req_blocks'
    <3>1. \A q \in Req : a[q] \in Int /\ b[q] \in Int
      BY <1>7, <1>8, <1>10
    <3>2. \A q \in Req \ {r} : a[q] = b[q]
      BY <1>10
    <3>3. b[r] = a[r] + missing
      BY <1>10
    <3> HIDE DEF a, b
    <3>4. SumFunctionOnSet(b, Req) = SumFunctionOnSet(a, Req) - a[r] + b[r]
      BY <3>1, <3>2, SumExcept, ReqAssumption
    <3>5. NumFreeBlocks = NumBlocks - 1 - SumFunctionOnSet(a, Req)
          /\ SumFunctionOnSet(a, Req) \in Int /\ NumBlocks \in Int
      BY ResourceTypes DEF a
    <3>6. NumFreeBlocks' = NumBlocks - 1 - SumFunctionOnSet(b, Req)
      <4>1. (TypeOK => NumFreeBlocks = NumBlocks - 1 - SumFunctionOnSet(req_blocks, Req))'
        BY ResourceTypes, PTL
      <4> QED BY <4>1 DEF b
    <3>7. a[r] \in Int /\ b[r] \in Int
      BY <3>1
    <3> QED BY <1>8, <3>3, <3>4, <3>5, <3>6, <3>7
  <2>2. NumFreeBlocks' >= 0
    BY <1>1, <1>7, <1>8, <2>1
  <2>3. ASSUME NEW q \in Req
        PROVE  /\ req_blocks'[q] >= 0
               /\ num_computed_tokens'[q] + step'.num_scheduled_tokens[q] <= req_blocks'[q] * BlockSize
               /\ req_blocks'[q] > 0 => status'[q] = "RUNNING"
    <3>1. CASE q = r
      BY <1>1, <1>2, <1>7, <1>8, <1>9, <1>10, <3>1 DEF SlotsInv
    <3>2. CASE q # r
      BY <1>1, <1>2, <1>9, <1>10, <3>2 DEF SlotsInv
    <3> QED BY <3>1, <3>2
  <2> QED BY <2>2, <2>3 DEF SlotsInv
<1>12. ImagesInv'
  <2>1. NumFreeableSlots' >= 0
    <3>1. CASE step.compute_encoder
      <4>1. EncoderTokens[r] <= NumFreeableSlots
        BY <1>1, <1>2, <3>1 DEF ImagesInv
      <4> QED BY <1>1, <1>2, <3>1, <4>1, OneImageMore
    <3>2. CASE ~step.compute_encoder
      BY <1>1, <1>2, <3>2 DEF NumFreeableSlots
    <3> QED BY <3>1, <3>2
  <2>2. \A q \in encoder_refs' : status'[q] = "RUNNING"
    <3>1. \A q \in encoder_refs : q \in Req /\ (status[q] = "RUNNING" \/ q = r)
      BY <1>1, <1>2 DEF ImagesInv, TypeOK, RequestsTypeOK
    <3> QED BY <1>1, <1>9, <3>1
  <2>3. ASSUME NEW q \in Req, step'.num_scheduled_tokens[q] # 0
        PROVE  ImageAtHand(q, step.num_scheduled_tokens[q])'
    <3>1. CASE q # r
      <4>1. ImageAtHand(q, step.num_scheduled_tokens[q])
        BY <1>2, <1>10, <2>3, <3>1 DEF ImagesInv
      <4>2. q \in encoder_refs => q \in encoder_refs'
        BY <1>1
      <4> QED BY <1>1, <1>10, <3>1, <4>1, <4>2 DEF ImageAtHand
    <3>2. CASE q = r /\ step.compute_encoder
      BY <1>1, <3>2 DEF ImageAtHand
    <3>3. CASE q = r /\ ~step.compute_encoder
      <4>1. ImageAtHand(r, n)
        BY <1>1, <1>2, <3>3 DEF ImagesInv, n
      <4> QED BY <1>1, <1>10, <3>3, <4>1 DEF ImageAtHand
    <3> QED BY <3>1, <3>2, <3>3
  <2> QED BY <1>6, <2>1, <2>2, <2>3 DEF ImagesInv
<1>13. SharesInv'
  <2> DEFINE T == SumFunctionOnSet(step.num_scheduled_tokens, Req)
             E == SumFunctionOnSet(EncoderTokens, step.scheduled_encoder_inputs)
             limit == IF pause_state = "PAUSED_ALL" THEN 0 ELSE MaxNumScheduledTokens
  <2>1. step.token_budget + T = limit /\ step.encoder_compute_budget + E = MaxNumEncoderInputTokens
    BY <1>1, <1>2, TotalIsSum DEF SharesInv
  <2>2. TotalNumScheduledTokens' = T + n /\ T \in Int
    <3> DEFINE a == step.num_scheduled_tokens
               b == step'.num_scheduled_tokens
    <3>1. \A q \in Req : a[q] \in Int /\ b[q] \in Int
      BY <1>7, <1>10
    <3>2. \A q \in Req \ {r} : a[q] = b[q]
      BY <1>10
    <3>3. a[r] = 0 /\ b[r] = n
      BY <1>4, <1>10
    <3>4. TotalNumScheduledTokens' = SumFunctionOnSet(b, Req)
      <4>1. (TypeOK => TotalNumScheduledTokens = SumFunctionOnSet(step.num_scheduled_tokens, Req))'
        BY TotalIsSum, PTL
      <4> QED BY <4>1
    <3> HIDE DEF a, b
    <3>5. SumFunctionOnSet(b, Req) = SumFunctionOnSet(a, Req) - a[r] + b[r]
      BY <3>1, <3>2, SumExcept, ReqAssumption
    <3>6. SumFunctionOnSet(a, Req) \in Int
      BY <3>1, SumOfOne, ReqAssumption
    <3>7. SumFunctionOnSet(b, Req) = SumFunctionOnSet(a, Req) + n
      BY <1>7, <3>3, <3>5, <3>6
    <3> QED BY <3>4, <3>6, <3>7 DEF a
  <2>3. step'.encoder_compute_budget + SumFunctionOnSet(EncoderTokens, step'.scheduled_encoder_inputs)
          = MaxNumEncoderInputTokens
    <3>1. CASE ~step.compute_encoder
      BY <1>6, <2>1, <3>1
    <3>2. CASE step.compute_encoder
      <4> DEFINE A == step.scheduled_encoder_inputs
                 B == A \cup {r}
      <4>1. /\ IsFiniteSet(B) /\ \A q \in B : EncoderTokens[q] \in Int
            /\ IsFiniteSet(A) /\ \A q \in A : EncoderTokens[q] \in Int
        <5>1. A \subseteq Req /\ B \subseteq Req
          BY DEF TypeOK, StepTypeOK, Locals
        <5>2. IsFiniteSet(A) /\ IsFiniteSet(B)
          BY <5>1, FS_Subset, ReqAssumption
        <5> HIDE DEF A, B
        <5> QED BY <5>1, <5>2, CounterTypes
      <4>2. r \in B /\ B \ {r} = A
        BY <1>5
      <4>3. step'.scheduled_encoder_inputs = B
            /\ step'.encoder_compute_budget = step.encoder_compute_budget - EncoderTokens[r]
        BY <1>6, <3>2
      <4> HIDE DEF A, B
      <4>4. SumFunctionOnSet(EncoderTokens, B) = EncoderTokens[r] + SumFunctionOnSet(EncoderTokens, A)
            /\ SumFunctionOnSet(EncoderTokens, A) \in Int
        BY <4>1, <4>2, SumOfOne
      <4>5. step.encoder_compute_budget + SumFunctionOnSet(EncoderTokens, A) = MaxNumEncoderInputTokens
        BY <2>1 DEF A
      <4> QED BY <1>7, <4>3, <4>4, <4>5
    <3> QED BY <3>1, <3>2
  <2>4. \A q \in step'.scheduled_encoder_inputs : step'.num_scheduled_tokens[q] # 0
    <3>1. \A q \in step.scheduled_encoder_inputs : q \in Req \ {r} /\ step.num_scheduled_tokens[q] # 0
      BY <1>2, <1>5 DEF SharesInv, TypeOK, StepTypeOK, Locals
    <3> QED BY <1>6, <1>7, <1>10, <3>1
  <2>5. step'.token_budget + TotalNumScheduledTokens' = limit
    <3> HIDE DEF T, limit
    <3> QED BY <1>6, <1>7, <2>1, <2>2
  <2>6. limit' = limit
    BY <1>1
  <2> QED BY <2>3, <2>4, <2>5, <2>6 DEF SharesInv
<1> QED BY <1>11, <1>12, <1>13 DEF ResourcesInv

\* A step that touches nothing of this keeps it.
LEMMA SteadyResources ==
  ASSUME ResourcesInv,
         UNCHANGED <<status, num_computed_tokens, req_blocks, encoder_refs, pause_state, step>>
  PROVE  ResourcesInv'
<1>1. NumFreeBlocks' = NumFreeBlocks /\ NumFreeableSlots' = NumFreeableSlots
  BY DEF NumFreeBlocks, NumFreeableSlots
<1>2. TotalNumScheduledTokens' = TotalNumScheduledTokens
  BY DEF TotalNumScheduledTokens
<1> QED BY <1>1, <1>2 DEF ResourcesInv, SlotsInv, ImagesInv, ImageAtHand, SharesInv

\* The victim of a preemption runs, and the step has scheduled nothing for it: only the
\* ids, the phase and the place in the list change among the locals.
LEMMA VictimIsUnscheduled ==
  ASSUME TypeOK, IndexInv, QueueInv, NEW victim \in Req,
         PreemptLastRunning(victim) \/ PreemptUnreached(victim)
  PROVE  /\ step.num_scheduled_tokens[victim] = 0
         /\ step'.num_scheduled_tokens = step.num_scheduled_tokens
         /\ step'.token_budget = step.token_budget
         /\ step'.encoder_compute_budget = step.encoder_compute_budget
         /\ step'.scheduled_encoder_inputs = step.scheduled_encoder_inputs
         /\ \/ step'.phase \in {"tail", "commit"} /\ (step.phase = "alloc" => victim = step.request)
            \/ /\ step'.phase = "alloc" /\ step.phase = "alloc" /\ victim # step.request
               /\ step.request \in Req /\ step'.request = step.request
               /\ step'.num_new_tokens = step.num_new_tokens
               /\ step'.compute_encoder = step.compute_encoder
<1>1. CASE PreemptLastRunning(victim)
  <2>1. /\ InSchedule /\ step.phase = "alloc"
        /\ LoopInv /\ ScheduledInv
        /\ step.req_index \in 1..Len(combined) /\ step.req_index \in Int
        /\ Len(combined) \in Nat
        /\ step.request = combined[step.req_index] /\ step.request \in Req
    BY <1>1, InHandIsListed DEF PreemptLastRunning, Phase
  <2>2. /\ last_running_idx # None /\ victim = combined[last_running_idx]
        /\ ~Outranks(victim, step.request)
    BY <1>1 DEF PreemptLastRunning
  <2>3. /\ Exact /\ \A i, j \in 1..Len(combined) : combined[i] = combined[j] => i = j
    BY <2>1, DuringSchedule
  <2>4. last_running_idx \in 1..Len(combined)
    BY <2>2, <2>3 DEF Exact, IsLast, None
  <2>5. ~(last_running_idx < step.req_index)
    <3>1. /\ \A i \in 1..Len(combined) : priority[combined[i]] # 0
          /\ \A i, j \in 1..Len(combined) :
               i < j => priority[combined[i]] < priority[combined[j]]
      BY <2>1 DEF QueueInv, CombinedIsStrictlySorted, InSchedule
    <3> QED BY <2>1, <2>2, <2>4, <3>1 DEF Outranks
  <2>6. step.num_scheduled_tokens[victim] = 0 /\ victim \notin step.scheduled_running_reqs
    BY <2>1, <2>2, <2>3, <2>4, <2>5 DEF LoopInv, ScheduledInv
  <2> DEFINE local == [step EXCEPT !.preempted_req_ids = @ \cup {victim}]
  <2>7. step' = IF victim = step.request
                THEN [local EXCEPT !.phase = "commit", !.request = NoRequest,
                                   !.num_new_tokens = 0, !.compute_encoder = FALSE]
                ELSE local
    BY <1>1, <2>6 DEF PreemptLastRunning, Unscheduled
  <2>8. /\ local \in Locals /\ local.phase = "alloc" /\ local.request = step.request
        /\ local.num_scheduled_tokens = step.num_scheduled_tokens
        /\ local.token_budget = step.token_budget
        /\ local.encoder_compute_budget = step.encoder_compute_budget
        /\ local.scheduled_encoder_inputs = step.scheduled_encoder_inputs
        /\ local.num_new_tokens = step.num_new_tokens
        /\ local.compute_encoder = step.compute_encoder
    BY <2>1 DEF TypeOK, StepTypeOK, Locals
  <2> HIDE DEF local
  <2>9. CASE victim = step.request
    BY <2>6, <2>7, <2>8, <2>9 DEF Locals
  <2>10. CASE victim # step.request
    BY <2>1, <2>6, <2>7, <2>8, <2>10
  <2> QED BY <2>9, <2>10
<1>2. CASE PreemptUnreached(victim)
  <2>1. PICK k \in step.req_index .. Len(combined) :
          /\ victim = combined[k]
          /\ step' = [step EXCEPT !.req_index = k + 1, !.preempted_req_ids = @ \cup {victim}]
    BY <1>2 DEF PreemptUnreached
  <2>2. InSchedule /\ step.phase = "tail"
    BY <1>2 DEF PreemptUnreached, Phase, InSchedule
  <2>3. /\ ScheduledInv /\ TailInv
        /\ Len(combined) \in Nat
        /\ \A i, j \in 1..Len(combined) : combined[i] = combined[j] => i = j
    BY <2>2, DuringSchedule DEF QueueInv, InSchedule
  <2>4. step.req_index \in 1 .. (Len(combined) + 1)
    BY <2>2, <2>3 DEF TailInv
  <2>5. k \in 1 .. Len(combined) /\ step.req_index \in Int /\ ~(k < step.req_index)
    BY <2>1, <2>3, <2>4
  <2>6. step.num_scheduled_tokens[victim] = 0
    BY <2>1, <2>2, <2>3, <2>5 DEF ScheduledInv
  <2> QED BY <2>1, <2>2, <2>6 DEF TypeOK, StepTypeOK, Locals
<1> QED BY <1>1, <1>2

\* A preempted request gives up its blocks and its image with its computed tokens; none
\* of the others is touched.
LEMMA PreemptResources ==
  ASSUME TypeOK, TypeOK', IndexInv, QueueInv, TokensInv, ResourcesInv, NEW victim \in Req,
         PreemptLastRunning(victim) \/ PreemptUnreached(victim)
  PROVE  ResourcesInv'
<1>1. /\ step.num_scheduled_tokens[victim] = 0
      /\ step'.num_scheduled_tokens = step.num_scheduled_tokens
      /\ step'.token_budget = step.token_budget
      /\ step'.encoder_compute_budget = step.encoder_compute_budget
      /\ step'.scheduled_encoder_inputs = step.scheduled_encoder_inputs
      /\ \/ step'.phase \in {"tail", "commit"} /\ (step.phase = "alloc" => victim = step.request)
         \/ /\ step'.phase = "alloc" /\ step.phase = "alloc" /\ victim # step.request
            /\ step.request \in Req /\ step'.request = step.request
            /\ step'.num_new_tokens = step.num_new_tokens
            /\ step'.compute_encoder = step.compute_encoder
  BY VictimIsUnscheduled
<1>2. /\ status' = [status EXCEPT ![victim] = "PREEMPTED"]
      /\ num_computed_tokens' = [num_computed_tokens EXCEPT ![victim] = 0]
      /\ req_blocks' = [req_blocks EXCEPT ![victim] = 0]
      /\ encoder_refs' = encoder_refs \ {victim}
      /\ pause_state' = pause_state
      /\ step.phase # "idle"
  BY DEF PreemptLastRunning, PreemptUnreached, Preempt, engineVars, Phase
<1>3. SlotsInv /\ ImagesInv /\ SharesInv
  BY DEF ResourcesInv
<1>4. \A q \in Req :
        /\ status'[q] = IF q = victim THEN "PREEMPTED" ELSE status[q]
        /\ num_computed_tokens'[q] = IF q = victim THEN 0 ELSE num_computed_tokens[q]
        /\ req_blocks'[q] = IF q = victim THEN 0 ELSE req_blocks[q]
  BY <1>2 DEF TypeOK, RequestsTypeOK
<1>5. /\ \A q \in Req : req_blocks[q] \in Int /\ step.num_scheduled_tokens[q] \in Int
      /\ encoder_refs \subseteq Req /\ BlockSize \in Nat
      /\ NumFreeBlocks \in Int /\ NumFreeableSlots \in Int
  BY ResourceTypes, CounterTypes, SchedulerAssumption DEF TypeOK, RequestsTypeOK
<1>6. NumFreeBlocks' \in Int /\ NumFreeableSlots' \in Int
  <2>1. (TypeOK => NumFreeBlocks \in Int /\ NumFreeableSlots \in Int)'
    BY ResourceTypes, PTL
  <2> QED BY <2>1
<1>7. NumFreeBlocks <= NumFreeBlocks'
  <2>1. \A q \in Req : req_blocks'[q] <= req_blocks[q]
    BY <1>3, <1>4, <1>5 DEF SlotsInv
  <2> QED BY <2>1, FewerBlocks
<1>8. NumFreeableSlots <= NumFreeableSlots'
  <2>1. encoder_refs' \subseteq encoder_refs
    BY <1>2
  <2> QED BY <2>1, FewerImages
<1>9. SlotsInv'
  <2>1. NumFreeBlocks' >= 0
    BY <1>3, <1>5, <1>6, <1>7 DEF SlotsInv
  <2>2. \A q \in Req : /\ req_blocks'[q] >= 0
                       /\ num_computed_tokens'[q] + step'.num_scheduled_tokens[q]
                            <= req_blocks'[q] * BlockSize
                       /\ req_blocks'[q] > 0 => status'[q] = "RUNNING"
    BY <1>1, <1>3, <1>4, <1>5 DEF SlotsInv
  <2> QED BY <2>1, <2>2 DEF SlotsInv
<1>10. ImagesInv'
  <2>1. NumFreeableSlots' >= 0
    BY <1>3, <1>5, <1>6, <1>8 DEF ImagesInv
  <2>2. \A q \in encoder_refs' :
          status'[q] = "RUNNING" \/ (step'.phase = "alloc" /\ q = step'.request)
    BY <1>1, <1>2, <1>3, <1>4, <1>5 DEF ImagesInv
  <2>3. ASSUME NEW q \in Req, q # victim, NEW n, ImageAtHand(q, n)
        PROVE  EncoderTokens[q] > 0 /\ EncoderStart[q] < num_computed_tokens'[q] + n =>
                 q \in encoder_refs' \/ EncoderStart[q] + EncoderTokens[q] <= num_computed_tokens'[q]
    BY <1>2, <1>4, <2>3 DEF ImageAtHand
  <2>4. ASSUME NEW q \in Req, step'.num_scheduled_tokens[q] # 0
        PROVE  ImageAtHand(q, step.num_scheduled_tokens[q])'
    <3>1. q # victim /\ ImageAtHand(q, step.num_scheduled_tokens[q])
      BY <1>1, <1>3, <2>4 DEF ImagesInv
    <3> QED BY <1>1, <2>3, <3>1 DEF ImageAtHand
  <2>5. ASSUME step'.phase = "alloc"
        PROVE  IF step'.compute_encoder THEN EncoderTokens[step'.request] <= NumFreeableSlots'
               ELSE ImageAtHand(step.request, step.num_new_tokens)'
    <3>1. /\ step.phase = "alloc" /\ victim # step.request
          /\ step.request \in Req /\ step'.request = step.request
          /\ step'.num_new_tokens = step.num_new_tokens
          /\ step'.compute_encoder = step.compute_encoder
      BY <1>1, <2>5
    <3>2. CASE step.compute_encoder
      <4>1. EncoderTokens[step.request] <= NumFreeableSlots /\ EncoderTokens[step.request] \in Int
        BY <1>3, <3>1, <3>2, CounterTypes DEF ImagesInv
      <4> QED BY <1>5, <1>6, <1>8, <3>1, <3>2, <4>1
    <3>3. CASE ~step.compute_encoder
      <4>1. ImageAtHand(step.request, step.num_new_tokens)
        BY <1>3, <3>1, <3>3 DEF ImagesInv
      <4> QED BY <2>3, <3>1, <3>3, <4>1 DEF ImageAtHand
    <3> QED BY <3>2, <3>3
  <2> QED BY <2>1, <2>2, <2>4, <2>5 DEF ImagesInv
<1>11. SharesInv'
  <2>1. TotalNumScheduledTokens' = TotalNumScheduledTokens
    BY <1>1 DEF TotalNumScheduledTokens
  <2> QED BY <1>1, <1>2, <1>3, <2>1 DEF SharesInv
<1> QED BY <1>9, <1>10, <1>11 DEF ResourcesInv

\* Every step keeps blocks, images and budgets right.
LEMMA NextResources ==
  ASSUME "reset" \notin ClientOps, EveryImageFits, TypeOK, TypeOK', IndexInv, QueueInv,
         TokensInv, ResourcesInv, [SchedulerNext]_vars
  PROVE  ResourcesInv'
<1>1. ComputedInv
  BY DEF TokensInv
<1>2. CASE ClientStep
  BY <1>1, <1>2, ClientResources
<1>3. CASE UpdateFromOutput
  BY <1>1, <1>3, OutputResources
<1>4. CASE ScheduleStep
  <2>1. CASE BeginSchedule
    BY <1>1, <2>1, BeginResources
  <2>2. CASE EndLoop \/ GiveUpAllocation \/ EndTail
    BY <2>2, PassingOnResources
  <2>3. CASE CommitSchedule
    BY <2>3, CommitResources
  <2>4. CASE ScheduleRaises
    <3>1. UNCHANGED <<status, num_computed_tokens, req_blocks, encoder_refs, pause_state, step>>
      BY <2>4 DEF ScheduleRaises, requestVars, cacheVars, engineVars
    <3> QED BY <3>1, SteadyResources
  <2>5. ASSUME NEW r \in Req, SkipMaxTokensInFlight(r) PROVE ResourcesInv'
    BY <2>5, PassingOnResources
  <2>6. ASSUME NEW r \in Req, ConsiderRunning(r) \/ ConsiderWaiting(r) PROVE ResourcesInv'
    BY <2>6, ConsiderResources
  <2>7. ASSUME NEW r \in Req, ScheduleRunning(r) \/ ScheduleWaiting(r) PROVE ResourcesInv'
    BY <2>7, ScheduleResources
  <2>8. ASSUME NEW r \in Req, PreemptLastRunning(r) \/ PreemptUnreached(r) PROVE ResourcesInv'
    BY <2>8, PreemptResources
  <2> QED BY <1>4, <2>1, <2>2, <2>3, <2>4, <2>5, <2>6, <2>7, <2>8, NothingIsIgnored
          DEF ScheduleStep
<1>5. CASE UNCHANGED vars
  <2>1. UNCHANGED <<status, num_computed_tokens, req_blocks, encoder_refs, pause_state, step>>
    BY <1>5 DEF vars, requestVars, cacheVars, engineVars
  <2> QED BY <2>1, SteadyResources
<1> QED BY <1>2, <1>3, <1>4, <1>5 DEF SchedulerNext, EngineStep, EngineIdle, EngineDead

\* ResourcesInv holds in every reachable state.
THEOREM ResourcesInductive ==
  ASSUME "reset" \notin ClientOps, DistinctArrivals, EveryImageFits
  PROVE  SchedulerSpec => [](TypeOK /\ IndexInv /\ QueueInv /\ TokensInv /\ ResourcesInv)
<1>1. TypeOK /\ IndexInv /\ QueueInv /\ TokensInv /\ ResourcesInv /\ TypeOK'
        /\ [SchedulerNext]_vars
        => ResourcesInv'
  BY NextResources
<1> QED BY <1>1, InitResources, TokensInductive, PTL DEF SchedulerSpec

\* Blocks are held by running requests only and cover what these have computed, and
\* neither the block pool nor the encoder cache is ever overdrawn, whatever is
\* admitted, preempted, aborted or given up while an allocation is under way.
THEOREM CachesConsistent ==
  ASSUME "reset" \notin ClientOps, DistinctArrivals, EveryImageFits
  PROVE  SchedulerSpec => []CachesAreConsistent
<1>1. TypeOK /\ TokensInv /\ ResourcesInv => CachesAreConsistent
  <2> SUFFICES ASSUME TypeOK, TokensInv, ResourcesInv PROVE CachesAreConsistent
    OBVIOUS
  <2>1. SlotsInv /\ ImagesInv /\ ComputedInv
    BY DEF ResourcesInv, TokensInv
  <2>2. ASSUME NEW r \in Req PROVE num_computed_tokens[r] <= req_blocks[r] * BlockSize
    <3>1. /\ num_computed_tokens[r] + step.num_scheduled_tokens[r] <= req_blocks[r] * BlockSize
          /\ step.num_scheduled_tokens[r] >= 0
      BY <2>1 DEF SlotsInv, ComputedInv, MayCompute
    <3>2. /\ num_computed_tokens[r] \in Int /\ step.num_scheduled_tokens[r] \in Int
          /\ req_blocks[r] * BlockSize \in Int
      BY CounterTypes, MoreBlocks DEF TypeOK, RequestsTypeOK
    <3> QED BY <3>1, <3>2
  <2> QED BY <2>1, <2>2 DEF CachesAreConsistent, SlotsInv, ImagesInv, Phase
<1> QED BY <1>1, ResourcesInductive, PTL

\* What is left of the token and of the encoder budget and what was given out of them
\* are the whole at every moment of every schedule().
THEOREM BudgetsAccounted ==
  ASSUME "reset" \notin ClientOps, DistinctArrivals, EveryImageFits
  PROVE  SchedulerSpec => []BudgetsAreAccounted
<1>1. ResourcesInv => BudgetsAreAccounted
  BY DEF ResourcesInv, SharesInv, BudgetsAreAccounted
<1> QED BY <1>1, ResourcesInductive, PTL

\* What a step sends to the workers goes on running, has blocks for all of its tokens
\* and its image where they need it: no preemption between the allocation and the end
\* of the step takes them away again.
THEOREM ScheduledServable ==
  ASSUME "reset" \notin ClientOps, DistinctArrivals, EveryImageFits
  PROVE  SchedulerSpec => []ScheduledAreServable
<1>1. TypeOK /\ IndexInv /\ QueueInv /\ ResourcesInv => ScheduledAreServable
  <2> SUFFICES ASSUME TypeOK, IndexInv, QueueInv, ResourcesInv,
                      Phase("commit"), FailedAssertion = "none", NEW r \in ScheduledReqs
               PROVE  /\ r \in RunningAfterUpdate
                      /\ status[r] = "RUNNING"
                      /\ num_computed_tokens[r] + step.num_scheduled_tokens[r]
                           <= req_blocks[r] * BlockSize
                      /\ ImageAtHand(r, step.num_scheduled_tokens[r])
    BY DEF ScheduledAreServable, ImageAtHand
  <2>1. r \in Req /\ step.num_scheduled_tokens[r] # 0
    BY DEF ScheduledReqs
  <2>2. /\ num_computed_tokens[r] + step.num_scheduled_tokens[r] <= req_blocks[r] * BlockSize
        /\ ImageAtHand(r, step.num_scheduled_tokens[r])
    BY <2>1 DEF ResourcesInv, SlotsInv, ImagesInv
  <2>3. /\ InSchedule /\ step.phase = "commit"
        /\ RolesInv /\ ScheduledInv /\ QueuesMatchStatus
    BY DEF Phase, QueueInv, InSchedule
  <2>4. status[r] = "RUNNING"
    BY <2>1, <2>3 DEF ScheduledInv
  <2>5. Roles /\ Exact /\ Range(combined) = { q \in Req : status[q] \in Queued }
    BY <2>3, DuringSchedule
  <2>6. running_req_ids = { q \in Range(combined) : status[q] = "RUNNING" }
    BY <2>3 DEF RolesInv
  <2>7. RunningAfterUpdate = running_req_ids
    <3>1. UpdateQueuesAssertion /\ ignored_req_ids = {}
      BY <2>3 DEF FailedAssertion, QueuesMatchStatus
    <3> QED BY <2>5, <2>6, <3>1, CutAtFirstWaiting
  <2> QED BY <2>1, <2>2, <2>4, <2>5, <2>6, <2>7 DEF Queued
<1> QED BY <1>1, ResourcesInductive, PTL

-----------------------------------------------------------------------------
(* The cut of the list. *)

\* The blocks of the pool suffice for a request of max_model_len tokens, of which the
\* last is never computed.  check_enough_kv_cache_memory counts the null block among
\* them, and does not guarantee it.
EnoughForOne == MaxModelLen - 1 <= (NumBlocks - 1) * BlockSize

\* No waiting request breaks the loop off: none needs an image, and each may be
\* prefilled chunk by chunk.
NothingBreaksOff == EnableChunkedPrefill /\ \A r \in Req : EncoderTokens[r] = 0

\* In the loop no running request lies behind a preempted one.
PreemptedFromTheEnd ==
  step.phase \in {"loop", "alloc"} =>
    \A i, j \in 1..Len(combined) :
      i < j /\ combined[i] \in preempted_req_ids => combined[j] \notin running_req_ids

\* The preemptions at the end begin when the budget is spent, and what they spare is
\* the front of the list.
SparedAreInFront ==
  step.phase = "tail" =>
    /\ step.token_budget = 0
    /\ \A i, j \in 1..Len(combined) : i < j /\ j \in Reached => i \in Reached

\* At the cut the running ids are the front of the list.
RunningAreInFront ==
  step.phase = "commit" /\ NothingBreaksOff =>
    \A i, j \in 1..Len(combined) :
      i < j /\ combined[j] \in running_req_ids => combined[i] \in running_req_ids

\* A request of the previous step can have been preempted in this one only, and is
\* not resumed in it.
ResumedAreOlder ==
  /\ \A r \in prev_step_scheduled_req_ids :
       status[r] = "PREEMPTED" => step.phase # "idle" /\ r \in step.preempted_req_ids
  /\ step.scheduled_resumed_reqs \cap prev_step_scheduled_req_ids = {}

\* The inductive invariant.
CutInv ==
  failed_assertion = "none" =>
    /\ PreemptedFromTheEnd
    /\ SparedAreInFront
    /\ RunningAreInFront
    /\ ResumedAreOlder

LEMMA InitCut == SchedulerInit => CutInv
BY DEF SchedulerInit, CutInv, PreemptedFromTheEnd, SparedAreInFront, RunningAreInFront,
       ResumedAreOlder, Idle

\* A preempted request of the previous step is among those of this one only.
LEMMA SteadyResumed ==
  ASSUME ResumedAreOlder, step.phase # "idle", step'.phase # "idle",
         prev_step_scheduled_req_ids' = prev_step_scheduled_req_ids,
         step.preempted_req_ids \subseteq step'.preempted_req_ids,
         \A r \in step'.scheduled_resumed_reqs :
           \/ r \in step.scheduled_resumed_reqs
           \/ status[r] = "PREEMPTED" /\ r \notin step.preempted_req_ids,
         prev_step_scheduled_req_ids \subseteq Req,
         \A r \in Req : status'[r] = "PREEMPTED" =>
           status[r] = "PREEMPTED" \/ r \in step'.preempted_req_ids
  PROVE  ResumedAreOlder'
<1>1. \A r \in prev_step_scheduled_req_ids :
        status'[r] = "PREEMPTED" => r \in step'.preempted_req_ids
  BY DEF ResumedAreOlder
<1>2. \A r \in step'.scheduled_resumed_reqs : r \notin prev_step_scheduled_req_ids
  BY DEF ResumedAreOlder
<1> QED BY <1>1, <1>2 DEF ResumedAreOlder

\* Where no role and no status changes.
LEMMA MovingOnCut ==
  ASSUME TypeOK, CutInv, InSchedule, step'.phase # "idle",
         UNCHANGED <<status, prev_step_scheduled_req_ids>>,
         step'.preempted_req_ids = step.preempted_req_ids,
         step'.scheduled_resumed_reqs = step.scheduled_resumed_reqs,
         PreemptedFromTheEnd', SparedAreInFront', RunningAreInFront'
  PROVE  CutInv'
<1>1. ResumedAreOlder /\ prev_step_scheduled_req_ids \subseteq Req
  BY DEF CutInv, InSchedule, TypeOK, QueuesTypeOK
<1>2. ResumedAreOlder'
  BY <1>1, SteadyResumed DEF InSchedule
<1> QED BY <1>2 DEF CutInv

LEMMA BeginCut ==
  ASSUME TypeOK, QueueInv, CutInv, BeginSchedule
  PROVE  CutInv'
<1>1. /\ step.phase = "idle" /\ failed_assertion = "none"
      /\ CombineQueues(running, {r \in running : status[r] = "PREEMPTED"}, waiting, priority')
      /\ UNCHANGED <<status, prev_step_scheduled_req_ids>>
      /\ step'.phase = "loop" /\ step'.scheduled_resumed_reqs = {}
  BY DEF BeginSchedule, BetweenSteps, Phase, engineVars, Idle
<1>2. preempted_req_ids' = {}
  BY <1>1 DEF CombineQueues, QueueInv, QueuesMatchStatus
<1>3. ResumedAreOlder
  BY <1>1 DEF CutInv
<1>4. ResumedAreOlder'
  BY <1>1, <1>3 DEF ResumedAreOlder
<1> QED BY <1>1, <1>2, <1>4
        DEF CutInv, PreemptedFromTheEnd, SparedAreInFront, RunningAreInFront

\* The loop ends behind the last request, all of them running; before a preempted one,
\* with no running one behind it; or with the budget spent, for the preemptions at the
\* end.
LEMMA EndLoopCut ==
  ASSUME TypeOK, IndexInv, QueueInv, TokensInv, CutInv, EndLoop
  PROVE  CutInv'
<1>1. /\ InSchedule /\ step.phase = "loop" /\ step.token_budget >= 0
      /\ UNCHANGED <<status, combined, running_req_ids, preempted_req_ids,
                     prev_step_scheduled_req_ids>>
      /\ (step.req_index <= Len(combined) /\ step.token_budget > 0)
           => combined[step.req_index] \in step.preempted_req_ids
      /\ step' = [step EXCEPT !.phase =
                    IF step.token_budget = 0 /\ step.req_index <= Len(combined)
                    THEN "tail" ELSE "commit"]
  BY DEF EndLoop, Phase, InSchedule, requestVars, queueManagerVars, engineVars, TokensInv, BudgetInv
<1>2. /\ LoopInv /\ RolesInv /\ PreemptedFromTheEnd
      /\ Len(combined) \in Nat /\ step.token_budget \in Int
      /\ \A i \in 1..Len(combined) : combined[i] \in Req /\ combined[i] \in Range(combined)
  BY <1>1, DuringSchedule DEF QueueInv, InSchedule, CutInv, TypeOK, StepTypeOK, Locals
<1>3. /\ preempted_req_ids = step.preempted_req_ids
      /\ step.req_index \in 1..(Len(combined) + 1) /\ step.req_index \in Int
      /\ \A i \in 1..Len(combined) : i < step.req_index => combined[i] \in running_req_ids
  BY <1>1, <1>2 DEF LoopInv
<1>4. /\ step'.req_index = step.req_index /\ step'.token_budget = step.token_budget
      /\ step'.preempted_req_ids = step.preempted_req_ids
      /\ step'.scheduled_resumed_reqs = step.scheduled_resumed_reqs
      /\ step'.phase = IF step.token_budget = 0 /\ step.req_index <= Len(combined)
                       THEN "tail" ELSE "commit"
  BY <1>1 DEF TypeOK, StepTypeOK, Locals
<1>5. CASE step.token_budget = 0 /\ step.req_index <= Len(combined)
  <2>1. step'.phase = "tail" /\ step'.token_budget = 0
    BY <1>4, <1>5
  <2>2. \A i \in 1..Len(combined) : i < step.req_index => status[combined[i]] = "RUNNING"
    BY <1>1, <1>2, <1>3 DEF RolesInv
  <2>3. Reached' = { i \in 1..Len(combined) : i < step.req_index }
    BY <1>1, <1>4, <2>2 DEF Reached, RunningIndices
  <2>4. SparedAreInFront'
    BY <1>1, <1>2, <1>3, <2>1, <2>3 DEF SparedAreInFront
  <2> QED BY <1>1, <1>4, <2>1, <2>4, MovingOnCut
          DEF PreemptedFromTheEnd, RunningAreInFront
<1>6. CASE ~(step.token_budget = 0 /\ step.req_index <= Len(combined))
  <2>1. step'.phase = "commit"
    BY <1>4, <1>6
  <2>2. ASSUME NEW i \in 1..Len(combined), NEW j \in 1..Len(combined),
               i < j, combined[j] \in running_req_ids
        PROVE  combined[i] \in running_req_ids
    <3>1. CASE step.req_index > Len(combined)
      BY <1>2, <1>3, <3>1
    <3>2. CASE step.req_index <= Len(combined)
      <4>1. /\ step.req_index \in 1..Len(combined)
            /\ combined[step.req_index] \in preempted_req_ids
        BY <1>1, <1>2, <1>3, <1>6, <3>2
      <4>2. ~(step.req_index < j)
        BY <1>1, <1>2, <2>2, <4>1 DEF PreemptedFromTheEnd
      <4>3. i < step.req_index
        BY <1>3, <2>2, <4>2
      <4> QED BY <1>3, <4>3
    <3> QED BY <1>2, <1>3, <3>1, <3>2
  <2>3. RunningAreInFront'
    BY <1>1, <2>2 DEF RunningAreInFront
  <2> QED BY <1>1, <1>4, <2>1, <2>3, MovingOnCut
          DEF PreemptedFromTheEnd, SparedAreInFront
<1> QED BY <1>5, <1>6

\* Giving up leaves running only what lies before the request in hand, and all of that.
LEMMA GiveUpCut ==
  ASSUME TypeOK, IndexInv, QueueInv, CutInv, GiveUpAllocation
  PROVE  CutInv'
<1>1. /\ InSchedule /\ step.phase = "alloc" /\ LoopInv
      /\ step.req_index \in 1..Len(combined) /\ step.req_index \in Int
      /\ Len(combined) \in Nat /\ step.request = combined[step.req_index]
  BY InHandIsListed DEF GiveUpAllocation, Phase
<1>2. /\ UNCHANGED <<status, combined, running_req_ids, prev_step_scheduled_req_ids>>
      /\ last_running_idx # None => Outranks(combined[last_running_idx], step.request)
      /\ step'.phase = "commit" /\ step'.preempted_req_ids = step.preempted_req_ids
      /\ step'.scheduled_resumed_reqs = step.scheduled_resumed_reqs
  BY DEF GiveUpAllocation, requestVars, queueManagerVars, engineVars, TypeOK, StepTypeOK, Locals
<1>3. /\ Exact
      /\ \A i, j \in 1..Len(combined) : combined[i] = combined[j] => i = j
      /\ \A i \in 1..Len(combined) : combined[i] \in Req
  BY <1>1, DuringSchedule
<1>4. \A j \in 1..Len(combined) : combined[j] \in running_req_ids => j < step.req_index
  <2>1. CASE last_running_idx = None
    BY <1>1, <1>3, <2>1 DEF Exact, IsLast, None
  <2>2. CASE last_running_idx # None
    <3>1. /\ last_running_idx \in 1..Len(combined)
          /\ \A j \in 1..Len(combined) : combined[j] \in running_req_ids => j <= last_running_idx
      BY <1>3, <2>2 DEF Exact, IsLast, None
    <3>2. \A i, j \in 1..Len(combined) : i < j => priority[combined[i]] < priority[combined[j]]
      BY <1>1 DEF QueueInv, CombinedIsStrictlySorted, InSchedule
    <3>3. priority[combined[last_running_idx]] < priority[combined[step.req_index]]
      BY <1>1, <1>2, <2>2 DEF Outranks
    <3>4. /\ priority[combined[last_running_idx]] \in Int
          /\ priority[combined[step.req_index]] \in Int
      BY <1>1, <1>3, <3>1 DEF TypeOK, RequestsTypeOK
    <3>5. last_running_idx < step.req_index
      BY <1>1, <3>1, <3>2, <3>3, <3>4
    <3> QED BY <1>1, <3>1, <3>5
  <2> QED BY <2>1, <2>2
<1>5. RunningAreInFront'
  BY <1>1, <1>2, <1>4 DEF RunningAreInFront, LoopInv
<1> QED BY <1>1, <1>2, <1>5, MovingOnCut DEF PreemptedFromTheEnd, SparedAreInFront

\* When the preemptions at the end are done the spared requests are the running ones.
LEMMA EndTailCut ==
  ASSUME TypeOK, TypeOK', IndexInv, QueueInv, IndexInv', QueueInv', CutInv, EndTail
  PROVE  CutInv'
<1>1. /\ InSchedule /\ step.phase = "tail" /\ InSchedule'
      /\ UNCHANGED <<status, combined, running_req_ids, prev_step_scheduled_req_ids>>
      /\ \A i \in step.req_index..Len(combined) : status[combined[i]] # "RUNNING"
      /\ step'.phase = "commit" /\ step'.preempted_req_ids = step.preempted_req_ids
      /\ step'.scheduled_resumed_reqs = step.scheduled_resumed_reqs
  BY DEF EndTail, Phase, InSchedule, requestVars, queueManagerVars, engineVars,
         TypeOK, StepTypeOK, Locals
<1>2. /\ SparedAreInFront /\ TailInv /\ RolesInv'
      /\ Len(combined) \in Nat
      /\ \A i \in 1..Len(combined) : combined[i] \in Req /\ combined[i] \in Range(combined)
  BY <1>1, DuringSchedule DEF CutInv, QueueInv, InSchedule
<1>3. running_req_ids = { q \in Range(combined) : status[q] = "RUNNING" }
  BY <1>1, <1>2 DEF RolesInv
<1>4. step.req_index \in Int /\ step.req_index >= 1
  BY <1>1, <1>2 DEF TailInv
<1>5. \A i \in 1..Len(combined) : combined[i] \in running_req_ids <=> i \in Reached
  BY <1>1, <1>2, <1>3, <1>4 DEF Reached, RunningIndices
<1>6. \A i, j \in 1..Len(combined) : i < j /\ j \in Reached => i \in Reached
  BY <1>1, <1>2 DEF SparedAreInFront
<1>7. RunningAreInFront'
  BY <1>1, <1>5, <1>6 DEF RunningAreInFront
<1> QED BY <1>1, <1>7, MovingOnCut DEF PreemptedFromTheEnd, SparedAreInFront

\* A waiting request has a token to compute.
LEMMA WaitingHasTokens ==
  ASSUME TypeOK, IndexInv, QueueInv, NothingBreaksOff, NEW r \in Req, Current(r),
         r \in waiting_req_ids,
         NEW outcome \in EncoderOutcomes(r, LeastOf(NumNewTokensWaiting(r), step.token_budget))
  PROVE  ~ChunkTooLong(r) /\ outcome.num_new_tokens # 0
<1> DEFINE wanted == LeastOf(NumNewTokensWaiting(r), step.token_budget)
<1>1. /\ r \in waiting_req_ids /\ Roles /\ RolesInv /\ InSchedule /\ r \in Range(combined)
      /\ step.phase = "loop"
  BY CurrentIsListed, DuringSchedule
<1>2. status[r] # "RUNNING"
  BY <1>1 DEF Roles, RolesInv, Denied
<1>3. num_computed_tokens[r] = 0
  BY <1>1, <1>2 DEF QueueInv, InSchedule, OnlyRunningIsComputed
<1>4. /\ PromptLen[r] \in Nat \ {0} /\ num_output_tokens[r] \in Nat
      /\ LongPrefillTokenThreshold \in Nat
      /\ step.token_budget \in Int /\ step.token_budget > 0
  BY SchedulerAssumption DEF TypeOK, RequestsTypeOK, StepTypeOK, Locals, Current
<1>5. wanted # 0
  BY <1>3, <1>4 DEF LeastOf, NumNewTokensWaiting, WithinThreshold, NumTokens
<1>6. EncoderTokens[r] = 0 /\ EnableChunkedPrefill
  BY DEF NothingBreaksOff
<1> HIDE DEF wanted
<1>7. ASSUME NEW out \in EncoderOutcomes(r, wanted) PROVE out.num_new_tokens = wanted
  BY <1>6 DEF EncoderOutcomes
<1>8. outcome.num_new_tokens = wanted
  BY <1>7 DEF wanted
<1> QED BY <1>5, <1>6, <1>8 DEF ChunkTooLong

\* What precedes allocate_slots ends the loop only at a waiting request that has to
\* wait for budget or for an image.
LEMMA ConsiderCut ==
  ASSUME TypeOK, IndexInv, QueueInv, CutInv, NEW r \in Req,
         SkipMaxTokensInFlight(r) \/ ConsiderRunning(r) \/ ConsiderWaiting(r)
  PROVE  CutInv'
<1>1. /\ InSchedule /\ step.phase = "loop" /\ Current(r)
      /\ UNCHANGED <<status, combined, running_req_ids, preempted_req_ids,
                     prev_step_scheduled_req_ids>>
  BY CurrentIsListed DEF SkipMaxTokensInFlight, ConsiderRunning, ConsiderWaiting,
     requestVars, queueManagerVars, engineVars
<1>2. PreemptedFromTheEnd
  BY <1>1 DEF CutInv, InSchedule
<1>3. step \in Locals
  BY DEF TypeOK, StepTypeOK
<1>4. \/ step' = PassedOver(step)
      \/ \E outcome : TryToAllocate(r, outcome)
      \/ step' = [step EXCEPT !.phase = "commit"] /\ ~NothingBreaksOff
  <2>1. CASE SkipMaxTokensInFlight(r)
    BY <2>1 DEF SkipMaxTokensInFlight
  <2>2. CASE ConsiderRunning(r)
    BY <2>2 DEF ConsiderRunning
  <2>3. CASE ConsiderWaiting(r)
    <3> DEFINE wanted == LeastOf(NumNewTokensWaiting(r), step.token_budget)
    <3>1. PICK outcome \in EncoderOutcomes(r, wanted) :
            IF ChunkTooLong(r) \/ outcome.num_new_tokens = 0
            THEN step' = [step EXCEPT !.phase = "commit"]
            ELSE TryToAllocate(r, outcome)
      BY <2>3 DEF ConsiderWaiting
    <3>2. NothingBreaksOff => ~ChunkTooLong(r) /\ outcome.num_new_tokens # 0
      BY <1>1, <2>3, <3>1, WaitingHasTokens DEF ConsiderWaiting
    <3> HIDE DEF wanted
    <3> QED BY <3>1, <3>2
  <2> QED BY <2>1, <2>2, <2>3
<1>5. /\ step'.preempted_req_ids = step.preempted_req_ids
      /\ step'.scheduled_resumed_reqs = step.scheduled_resumed_reqs
      /\ \/ step'.phase \in {"loop", "alloc"}
         \/ step'.phase = "commit" /\ ~NothingBreaksOff
  BY <1>1, <1>3, <1>4 DEF PassedOver, TryToAllocate, Locals
<1>6. PreemptedFromTheEnd' /\ SparedAreInFront' /\ RunningAreInFront'
  <2>1. NothingBreaksOff' <=> NothingBreaksOff
    BY DEF NothingBreaksOff
  <2> QED BY <1>1, <1>2, <1>5, <2>1
          DEF PreemptedFromTheEnd, SparedAreInFront, RunningAreInFront
<1> QED BY <1>1, <1>5, <1>6, MovingOnCut

\* A running request that is scheduled stays where it is.
LEMMA ScheduleRunningCut ==
  ASSUME TypeOK, IndexInv, QueueInv, CutInv, NEW r \in Req, ScheduleRunning(r)
  PROVE  CutInv'
<1>1. /\ InSchedule /\ step.phase = "alloc"
      /\ UNCHANGED <<status, combined, running_req_ids, preempted_req_ids,
                     prev_step_scheduled_req_ids>>
      /\ step' = [Scheduled(r, step) EXCEPT !.scheduled_running_reqs = @ \cup {r}]
  BY InHandIsListed DEF ScheduleRunning, Phase, requestVars, queueManagerVars, engineVars
<1>2. PreemptedFromTheEnd
  BY <1>1 DEF CutInv, InSchedule
<1>3. /\ step'.phase = "loop"
      /\ step'.preempted_req_ids = step.preempted_req_ids
      /\ step'.scheduled_resumed_reqs = step.scheduled_resumed_reqs
  BY <1>1 DEF TypeOK, StepTypeOK, Locals, Scheduled
<1> QED BY <1>1, <1>2, <1>3, MovingOnCut
        DEF PreemptedFromTheEnd, SparedAreInFront, RunningAreInFront

\* The request that is admitted lies before all those preempted in this step, and was
\* not preempted itself.
LEMMA ScheduleWaitingCut ==
  ASSUME TypeOK, IndexInv, QueueInv, CutInv, NEW r \in Req, ScheduleWaiting(r)
  PROVE  CutInv'
<1>1. /\ InSchedule /\ step.phase = "alloc"
      /\ RolesInv /\ LoopInv
      /\ step.req_index \in 1..Len(combined) /\ step.req_index \in Int
      /\ Len(combined) \in Nat
      /\ r = combined[step.req_index] /\ r \in waiting_req_ids
      /\ r \notin preempted_req_ids
  BY InHandIsListed DEF ScheduleWaiting, Phase
<1>2. /\ UpdateIdxsAfterNewScheduling
      /\ status' = [status EXCEPT ![r] = "RUNNING"]
      /\ prev_step_scheduled_req_ids' = prev_step_scheduled_req_ids
      /\ step' = [Scheduled(r, step) EXCEPT !.scheduled_resumed_reqs =
                    IF status[r] = "PREEMPTED" THEN @ \cup {r} ELSE @]
  BY DEF ScheduleWaiting, engineVars
<1>3. /\ PreemptedFromTheEnd /\ ResumedAreOlder
      /\ status \in [Req -> Statuses] /\ prev_step_scheduled_req_ids \subseteq Req
  BY <1>1 DEF CutInv, InSchedule, TypeOK, RequestsTypeOK, QueuesTypeOK
<1>4. /\ Exact /\ Roles
      /\ \A i, j \in 1..Len(combined) : combined[i] = combined[j] => i = j
  BY <1>1, DuringSchedule
<1>5. first_waiting_idx = step.req_index
  <2>1. \A i \in 1..Len(combined) : i < step.req_index => combined[i] \notin Denied
    BY <1>1, <1>4 DEF LoopInv, Roles
  <2>2. combined[step.req_index] \in Denied
    BY <1>1 DEF Denied
  <2>3. /\ first_waiting_idx # 0 /\ first_waiting_idx <= step.req_index
        /\ first_waiting_idx \in 1..Len(combined)
        /\ combined[first_waiting_idx] \in Denied
    BY <1>1, <1>4, <2>2 DEF Exact, IsFirst
  <2> QED BY <1>1, <2>1, <2>3
<1>6. /\ running_req_ids' = running_req_ids \cup {r}
      /\ preempted_req_ids' = preempted_req_ids \ {r}
      /\ combined' = combined
  <2>1. first_waiting_idx # None /\ combined[first_waiting_idx] = r
    BY <1>1, <1>5 DEF None
  <2> QED BY <1>2, <2>1 DEF UpdateIdxsAfterNewScheduling
<1>7. /\ step'.phase = "loop"
      /\ step'.preempted_req_ids = step.preempted_req_ids
      /\ step'.scheduled_resumed_reqs = step.scheduled_resumed_reqs \cup
           (IF status[r] = "PREEMPTED" THEN {r} ELSE {})
  <2> DEFINE local == Scheduled(r, step)
  <2>1. /\ local \in Locals /\ local.phase = "loop"
        /\ local.preempted_req_ids = step.preempted_req_ids
        /\ local.scheduled_resumed_reqs = step.scheduled_resumed_reqs
    <3>1. step \in Locals
      BY DEF TypeOK, StepTypeOK
    <3>2. local \in Locals /\ local.phase = "loop"
          /\ local.preempted_req_ids = step.preempted_req_ids
      BY <3>1, LocalFields, LocalsTypes
    <3>3. local.scheduled_resumed_reqs = step.scheduled_resumed_reqs
      BY <3>1 DEF Scheduled, Locals
    <3> QED BY <3>2, <3>3
  <2>2. step' = [local EXCEPT !.scheduled_resumed_reqs =
                   IF status[r] = "PREEMPTED" THEN @ \cup {r} ELSE @]
    BY <1>2
  <2> HIDE DEF local
  <2> QED BY <2>1, <2>2 DEF Locals
<1>8. \A i, j \in 1..Len(combined) :
        i < j /\ combined[i] \in preempted_req_ids' => combined[j] \notin running_req_ids'
  <2> SUFFICES ASSUME NEW i \in 1..Len(combined), NEW j \in 1..Len(combined),
                      i < j, combined[i] \in preempted_req_ids,
                      combined[j] \in running_req_ids \/ combined[j] = r
               PROVE  FALSE
    BY <1>6
  <2>1. combined[j] \notin running_req_ids
    BY <1>1, <1>3 DEF PreemptedFromTheEnd
  <2>2. j = step.req_index
    BY <1>1, <1>4, <2>1
  <2>3. combined[i] \in running_req_ids
    BY <1>1, <2>2 DEF LoopInv
  <2>4. combined[i] \in Denied
    BY DEF Denied
  <2> QED BY <1>4, <2>3, <2>4 DEF Roles
<1>9. ResumedAreOlder'
  <2>1. r \notin step.preempted_req_ids
    BY <1>1 DEF LoopInv
  <2>2. \A q \in step'.scheduled_resumed_reqs :
          \/ q \in step.scheduled_resumed_reqs
          \/ status[q] = "PREEMPTED" /\ q \notin step.preempted_req_ids
    BY <1>7, <2>1
  <2>3. \A q \in Req : status'[q] = "PREEMPTED" =>
          status[q] = "PREEMPTED" \/ q \in step'.preempted_req_ids
    BY <1>2, <1>3
  <2>4. step.phase # "idle" /\ step'.phase # "idle"
    BY <1>1, <1>7
  <2> QED BY <1>2, <1>3, <1>7, <2>2, <2>3, <2>4, SteadyResumed
<1> QED BY <1>6, <1>7, <1>8, <1>9
        DEF CutInv, PreemptedFromTheEnd, SparedAreInFront, RunningAreInFront

\* The victim of the allocation loop lies behind all other running requests, and not
\* before the request in hand.
LEMMA PreemptLastRunningCut ==
  ASSUME TypeOK, IndexInv, QueueInv, CutInv, NEW victim \in Req, PreemptLastRunning(victim)
  PROVE  CutInv'
<1> SUFFICES ASSUME failed_assertion' = "none"
             PROVE  CutInv'
  BY DEF CutInv
<1>1. /\ InSchedule /\ step.phase = "alloc"
      /\ RolesInv /\ LoopInv
      /\ step.req_index \in 1..Len(combined) /\ step.req_index \in Int
      /\ Len(combined) \in Nat
      /\ step.request = combined[step.req_index] /\ step.request \in Req
  BY InHandIsListed DEF PreemptLastRunning, Phase
<1>2. /\ last_running_idx # None /\ victim = combined[last_running_idx]
      /\ Preempt(victim) /\ prev_step_scheduled_req_ids' = prev_step_scheduled_req_ids
  BY DEF PreemptLastRunning, Preempt, engineVars
<1>3. /\ Exact
      /\ \A i, j \in 1..Len(combined) : combined[i] = combined[j] => i = j
  BY <1>1, DuringSchedule
<1>4. /\ last_running_idx \in 1..Len(combined) /\ victim \in running_req_ids
      /\ \A i \in 1..Len(combined) : combined[i] \in running_req_ids => i <= last_running_idx
  BY <1>2, <1>3 DEF Exact, IsLast, None
<1>5. status[victim] = "RUNNING"
  BY <1>1, <1>4 DEF RolesInv
<1>6. /\ step'.preempted_req_ids = step.preempted_req_ids \cup {victim}
      /\ step'.scheduled_resumed_reqs = step.scheduled_resumed_reqs
      /\ \/ step'.phase = "commit" /\ victim = step.request
         \/ step'.phase = "alloc"
  <2> DEFINE local == [Unscheduled(victim, step) EXCEPT
                         !.preempted_req_ids = @ \cup {victim}]
  <2>1. step' = IF victim = step.request
                THEN [local EXCEPT !.phase = "commit", !.request = NoRequest,
                                   !.num_new_tokens = 0, !.compute_encoder = FALSE]
                ELSE local
    BY DEF PreemptLastRunning
  <2>2. step \in Locals /\ Unscheduled(victim, step) \in Locals
    BY LocalsTypes DEF TypeOK, StepTypeOK
  <2>3. /\ Unscheduled(victim, step).phase = step.phase
        /\ Unscheduled(victim, step).preempted_req_ids = step.preempted_req_ids
        /\ Unscheduled(victim, step).scheduled_resumed_reqs = step.scheduled_resumed_reqs
    BY <2>2 DEF Unscheduled, Locals
  <2>4. /\ local \in Locals /\ local.phase = "alloc"
        /\ local.preempted_req_ids = step.preempted_req_ids \cup {victim}
        /\ local.scheduled_resumed_reqs = step.scheduled_resumed_reqs
    BY <1>1, <2>2, <2>3 DEF Locals
  <2> HIDE DEF local
  <2> QED BY <2>1, <2>4 DEF Locals
<1>7. /\ combined' = combined
      /\ running_req_ids' = running_req_ids \ {victim}
      /\ preempted_req_ids' = preempted_req_ids \cup {victim}
      /\ \A q \in Req : q # victim => status'[q] = status[q]
  BY <1>1, <1>2, <1>5, <1>6, PreemptingQueues
<1>8. PreemptedFromTheEnd /\ ResumedAreOlder /\ prev_step_scheduled_req_ids \subseteq Req
  BY <1>1 DEF CutInv, InSchedule, TypeOK, QueuesTypeOK
<1>9. \A i, j \in 1..Len(combined) :
        i < j /\ combined[i] \in preempted_req_ids' => combined[j] \notin running_req_ids'
  <2> SUFFICES ASSUME NEW i \in 1..Len(combined), NEW j \in 1..Len(combined),
                      i < j, combined[i] \in preempted_req_ids \/ combined[i] = victim,
                      combined[j] \in running_req_ids
               PROVE  FALSE
    BY <1>7
  <2>1. combined[i] = victim
    BY <1>1, <1>8 DEF PreemptedFromTheEnd
  <2>2. i = last_running_idx
    BY <1>2, <1>3, <1>4, <2>1
  <2> QED BY <1>4, <2>2
<1>10. ASSUME victim = step.request
       PROVE  \A i, j \in 1..Len(combined) :
                i < j /\ combined[j] \in running_req_ids' => combined[i] \in running_req_ids'
  <2>1. last_running_idx = step.req_index
    BY <1>1, <1>2, <1>3, <1>4, <1>10
  <2> SUFFICES ASSUME NEW i \in 1..Len(combined), NEW j \in 1..Len(combined),
                      i < j, combined[j] \in running_req_ids
               PROVE  combined[i] \in running_req_ids /\ combined[i] # victim
    BY <1>7
  <2>2. i < step.req_index
    BY <1>4, <2>1
  <2> QED BY <1>1, <1>2, <1>3, <1>4, <2>1, <2>2 DEF LoopInv
<1>11. ResumedAreOlder'
  <2>1. \A q \in Req : status'[q] = "PREEMPTED" =>
          status[q] = "PREEMPTED" \/ q \in step'.preempted_req_ids
    BY <1>6, <1>7
  <2>2. step.phase # "idle" /\ step'.phase # "idle"
    BY <1>1, <1>6
  <2> QED BY <1>2, <1>6, <1>8, <2>1, <2>2, SteadyResumed
<1>12. PreemptedFromTheEnd'
  BY <1>6, <1>7, <1>9 DEF PreemptedFromTheEnd
<1>13. SparedAreInFront'
  BY <1>6 DEF SparedAreInFront
<1>14. RunningAreInFront'
  BY <1>6, <1>7, <1>10 DEF RunningAreInFront
<1> QED BY <1>11, <1>12, <1>13, <1>14 DEF CutInv

\* The preemptions at the end leave the spared requests and the budget alone.
LEMMA PreemptUnreachedCut ==
  ASSUME TypeOK, IndexInv, QueueInv, CutInv, NEW r \in Req, PreemptUnreached(r)
  PROVE  CutInv'
<1>1. /\ InSchedule /\ step.phase = "tail" /\ Preempt(r)
      /\ prev_step_scheduled_req_ids' = prev_step_scheduled_req_ids
  BY DEF PreemptUnreached, Phase, InSchedule, Preempt, engineVars
<1>2. /\ SparedAreInFront /\ ResumedAreOlder /\ prev_step_scheduled_req_ids \subseteq Req
      /\ Reached' = Reached
  BY <1>1, SparedStaySpared DEF CutInv, InSchedule, TypeOK, QueuesTypeOK
<1>3. /\ combined' = combined
      /\ \A q \in Req : status'[q] = IF q = r THEN "PREEMPTED" ELSE status[q]
  BY <1>1 DEF Preempt, UpdateIdxsAfterPreemption, queueManagerVars, TypeOK, RequestsTypeOK
<1>4. /\ step'.phase = "tail" /\ step'.token_budget = step.token_budget
      /\ step'.preempted_req_ids = step.preempted_req_ids \cup {r}
      /\ step'.scheduled_resumed_reqs = step.scheduled_resumed_reqs
  <2>1. PICK i \in step.req_index..Len(combined) :
          step' = [step EXCEPT !.req_index = i + 1, !.preempted_req_ids = @ \cup {r}]
    BY DEF PreemptUnreached
  <2> QED BY <1>1, <2>1 DEF TypeOK, StepTypeOK, Locals
<1>5. SparedAreInFront'
  BY <1>1, <1>2, <1>3, <1>4 DEF SparedAreInFront
<1>6. ResumedAreOlder'
  <2>1. \A q \in Req : status'[q] = "PREEMPTED" =>
          status[q] = "PREEMPTED" \/ q \in step'.preempted_req_ids
    BY <1>3, <1>4
  <2>2. step.phase # "idle" /\ step'.phase # "idle"
    BY <1>1, <1>4
  <2> QED BY <1>1, <1>2, <1>4, <2>1, <2>2, SteadyResumed
<1> QED BY <1>4, <1>5, <1>6 DEF CutInv, PreemptedFromTheEnd, RunningAreInFront

\* What is sent to the workers runs.
LEMMA CommitCut ==
  ASSUME TypeOK, QueueInv, CommitSchedule
  PROVE  CutInv'
<1>1. /\ step.phase # "idle" /\ ScheduledInv /\ step \in Locals
      /\ status' = status /\ prev_step_scheduled_req_ids' = ScheduledReqs /\ step' = Idle
  BY DEF CommitSchedule, Phase, QueueInv, TypeOK, StepTypeOK
<1>2. \A r \in ScheduledReqs : status[r] = "RUNNING"
  BY <1>1 DEF ScheduledReqs, ScheduledInv
<1>3. step'.phase = "idle" /\ step'.scheduled_resumed_reqs = {}
  BY <1>1 DEF Idle
<1> QED BY <1>1, <1>2, <1>3
        DEF CutInv, PreemptedFromTheEnd, SparedAreInFront, RunningAreInFront, ResumedAreOlder

\* Between two steps no request of the previous step becomes preempted; a reset, which
\* preempts them all, forgets the previous step.
LEMMA BetweenStepsCut ==
  ASSUME TypeOK, CutInv, ClientStep \/ UpdateFromOutput
  PROVE  CutInv'
<1>1. step.phase = "idle" /\ step' = step /\ failed_assertion = "none"
  BY DEF ClientStep, AddRequest, AbortRequest, SetPauseState, ResetPrefixCache,
         BetweenSteps, Phase, UpdateFromOutput
<1>2. ResumedAreOlder /\ status \in [Req -> Statuses] /\ prev_step_scheduled_req_ids \subseteq Req
  BY <1>1 DEF CutInv, TypeOK, RequestsTypeOK, QueuesTypeOK
<1>3. \/ prev_step_scheduled_req_ids' = {}
      \/ /\ prev_step_scheduled_req_ids' = prev_step_scheduled_req_ids
         /\ \A q \in Req : status'[q] = "PREEMPTED" => status[q] = "PREEMPTED"
  <2>1. CASE UpdateFromOutput
    BY <1>2, <2>1 DEF UpdateFromOutput
  <2>2. ASSUME NEW r \in Req, AddRequest(r)
        PROVE  /\ prev_step_scheduled_req_ids' = prev_step_scheduled_req_ids
               /\ \A q \in Req : status'[q] = "PREEMPTED" => status[q] = "PREEMPTED"
    BY <1>2, <2>2 DEF AddRequest, engineVars
  <2>3. ASSUME NEW r \in Req, AbortRequest(r)
        PROVE  /\ prev_step_scheduled_req_ids' = prev_step_scheduled_req_ids
               /\ \A q \in Req : status'[q] = "PREEMPTED" => status[q] = "PREEMPTED"
    BY <1>2, <2>3 DEF AbortRequest, engineVars
  <2>4. ASSUME NEW pause, SetPauseState(pause)
        PROVE  UNCHANGED <<status, prev_step_scheduled_req_ids>>
    BY <2>4 DEF SetPauseState, requestVars
  <2>5. CASE ResetPrefixCache
    BY <2>5 DEF ResetPrefixCache
  <2> QED BY <2>1, <2>2, <2>3, <2>4, <2>5 DEF ClientStep
<1>4. ResumedAreOlder'
  BY <1>1, <1>2, <1>3 DEF ResumedAreOlder
<1> QED BY <1>1, <1>4 DEF CutInv, PreemptedFromTheEnd, SparedAreInFront, RunningAreInFront

\* Every step keeps the cut right.
LEMMA NextCut ==
  ASSUME EveryImageFits, TypeOK, TypeOK', IndexInv, QueueInv, TokensInv,
         IndexInv', QueueInv', CutInv, [SchedulerNext]_vars
  PROVE  CutInv'
<1>1. CASE ClientStep \/ UpdateFromOutput
  BY <1>1, BetweenStepsCut
<1>2. CASE ScheduleStep
  <2>1. CASE BeginSchedule
    BY <2>1, BeginCut
  <2>2. CASE EndLoop
    BY <2>2, EndLoopCut
  <2>3. CASE GiveUpAllocation
    BY <2>3, GiveUpCut
  <2>4. CASE EndTail
    BY <2>4, EndTailCut
  <2>5. CASE CommitSchedule
    BY <2>5, CommitCut
  <2>6. CASE ScheduleRaises
    BY <2>6 DEF ScheduleRaises, CutInv
  <2>7. ASSUME NEW r \in Req, SkipMaxTokensInFlight(r) \/ ConsiderRunning(r) \/ ConsiderWaiting(r)
        PROVE  CutInv'
    BY <2>7, ConsiderCut
  <2>8. ASSUME NEW r \in Req, ScheduleRunning(r) PROVE CutInv'
    BY <2>8, ScheduleRunningCut
  <2>9. ASSUME NEW r \in Req, ScheduleWaiting(r) PROVE CutInv'
    BY <2>9, ScheduleWaitingCut
  <2>10. ASSUME NEW r \in Req, PreemptLastRunning(r) PROVE CutInv'
    BY <2>10, PreemptLastRunningCut
  <2>11. ASSUME NEW r \in Req, PreemptUnreached(r) PROVE CutInv'
    BY <2>11, PreemptUnreachedCut
  <2> QED BY <1>2, <2>1, <2>2, <2>3, <2>4, <2>5, <2>6, <2>7, <2>8, <2>9, <2>10, <2>11,
             NothingIsIgnored
          DEF ScheduleStep
<1>3. CASE UNCHANGED vars
  <2>1. UNCHANGED <<status, combined, running_req_ids, preempted_req_ids,
                    prev_step_scheduled_req_ids, step, failed_assertion>>
    BY <1>3 DEF vars, requestVars, queueManagerVars, engineVars
  <2> QED BY <2>1 DEF CutInv, PreemptedFromTheEnd, SparedAreInFront, RunningAreInFront,
                      ResumedAreOlder, Reached, RunningIndices
<1> QED BY <1>1, <1>2, <1>3 DEF SchedulerNext, EngineStep, EngineIdle, EngineDead

\* CutInv holds in every reachable state.
THEOREM CutInductive ==
  ASSUME "reset" \notin ClientOps, DistinctArrivals, EveryImageFits
  PROVE  SchedulerSpec =>
           [](TypeOK /\ IndexInv /\ QueueInv /\ TokensInv /\ ResourcesInv /\ CutInv)
<1>1. TypeOK /\ IndexInv /\ QueueInv /\ TokensInv /\ CutInv /\ TypeOK' /\ IndexInv' /\ QueueInv'
        /\ [SchedulerNext]_vars
        => CutInv'
  BY NextCut
<1> QED BY <1>1, InitCut, ResourcesInductive, PTL DEF SchedulerSpec

-----------------------------------------------------------------------------
(* The head of the list. *)

\* The tokens that m blocks hold need no more than m blocks.
LEMMA CeilIsEnough ==
  ASSUME NEW n \in Int, NEW m \in Int, n <= m * BlockSize
  PROVE  Ceil(n, BlockSize) <= m
<1> DEFINE d == BlockSize
           k == n + d - 1
           q == k \div d
           p == k % d
<1>1. d \in Nat \ {0}
  BY SchedulerAssumption
<1>2. k \in Int /\ k = n + d - 1 /\ q \in Int /\ p \in 0 .. d - 1 /\ k = (d * q) + p
  BY <1>1
<1>3. Ceil(n, BlockSize) = q /\ n <= m * d
  BY DEF Ceil
<1> HIDE DEF k, q, p, d
<1>4. SUFFICES ASSUME m + 1 <= q PROVE FALSE
  BY <1>2, <1>3
<1>5. /\ (q - (m + 1)) * d >= 0
      /\ (q - (m + 1)) * d = (d * q) - (m * d) - d
      /\ d * q \in Int /\ m * d \in Int
  BY <1>1, <1>2, <1>4
<1> QED BY <1>1, <1>2, <1>3, <1>5

\* Nobody else holding blocks, the pool has those of any request.
LEMMA AloneFits ==
  ASSUME TypeOK, SlotsInv, EnoughForOne, NEW r \in Req, NEW k \in Int, k <= MaxModelLen - 1,
         \A q \in Req : q # r => status[q] # "RUNNING"
  PROVE  BlocksMissing(r, k) <= NumFreeBlocks
<1> DEFINE s == SumFunctionOnSet(req_blocks, Req)
           c == Ceil(k, BlockSize)
           b == req_blocks[r]
<1>1. /\ MaxModelLen \in Nat /\ NumBlocks \in Int /\ NumFreeBlocks = NumBlocks - 1 - s
      /\ NumFreeBlocks \in Int
      /\ b \in Int /\ \A q \in Req : req_blocks[q] \in Int
      /\ NumFreeBlocks >= 0
  BY ResourceTypes, SchedulerAssumption DEF TypeOK, RequestsTypeOK, SlotsInv
<1>2. \A q \in Req \ {r} : req_blocks[q] = 0
  BY <1>1 DEF SlotsInv
<1>3. s = b
  <2>1. IsFiniteSet(Req) /\ IsFiniteSet(Req \ {r})
    BY ReqAssumption, FS_Subset
  <2>2. s = b + SumFunctionOnSet(req_blocks, Req \ {r})
    BY <1>1, <2>1, SumOfOne
  <2>3. SumFunctionOnSet(req_blocks, Req \ {r}) = 0
    BY <1>2, <2>1, SumOfZeros
  <2> QED BY <1>1, <2>2, <2>3
<1>4. c \in Int /\ c <= NumBlocks - 1
  <2> DEFINE m == NumBlocks - 1
  <2>1. m \in Int /\ m * BlockSize \in Int /\ MaxModelLen - 1 <= m * BlockSize
    BY <1>1, MoreBlocks DEF EnoughForOne
  <2> HIDE DEF m
  <2>2. k <= m * BlockSize
    BY <1>1, <2>1
  <2>3. c <= m /\ c \in Int
    BY <2>1, <2>2, CeilIsEnough, CeilSuffices
  <2> QED BY <2>3 DEF m
<1>5. BlocksMissing(r, k) = IF c - b > 0 THEN c - b ELSE 0
  BY DEF BlocksMissing
<1> HIDE DEF s, c, b
<1> QED BY <1>1, <1>3, <1>4, <1>5

\* So allocate_slots succeeds for a request when no other one runs.
LEMMA AloneFitsNow ==
  ASSUME TypeOK, IndexInv, QueueInv, TokensInv, ResourcesInv, EnoughForOne, Phase("alloc"),
         \A q \in Req : q # step.request => status[q] # "RUNNING"
  PROVE  FitsNow
<1> DEFINE r == step.request
<1>1. r \in Req /\ r \in Range(combined) /\ Range(combined) = { q \in Req : status[q] \in Queued }
  BY InHandIsListed, DuringSchedule
<1>2. SlotsInv /\ MayCompute(r, step.num_new_tokens) /\ NumTokens(r) < MaxModelLen
  <2>1. status[r] \notin FinishedStatuses
    BY <1>1 DEF Queued, FinishedStatuses
  <2> QED BY <1>1, <2>1 DEF ResourcesInv, TokensInv, UnfinishedInv, BudgetInv, Phase
<1>3. /\ num_computed_tokens[r] \in Int /\ step.num_new_tokens \in Int
      /\ NumTokens(r) \in Int /\ MaxModelLen \in Int
  BY <1>1, CounterTypes
<1> HIDE DEF r
<1>4. \A q \in Req : q # r => status[q] # "RUNNING"
  BY DEF r
<1>5. BlocksMissing(r, NumTokens(r)) <= NumFreeBlocks
  BY <1>1, <1>2, <1>3, <1>4, AloneFits
<1>6. BlocksMissing(r, num_computed_tokens[r] + step.num_new_tokens) <= NumFreeBlocks
  <2> DEFINE k == num_computed_tokens[r] + step.num_new_tokens
  <2>1. k \in Int /\ k <= MaxModelLen - 1
    BY <1>2, <1>3 DEF MayCompute
  <2> HIDE DEF k
  <2>2. BlocksMissing(r, k) <= NumFreeBlocks
    BY <1>1, <1>2, <1>4, <2>1, AloneFits
  <2> QED BY <2>2 DEF k
<1> QED BY <1>5, <1>6 DEF FitsNow, CanAllocate, r

\* The allocation loop never preempts the head of the list.
LEMMA HeadIsNotLastRunning ==
  ASSUME TypeOK, IndexInv, QueueInv, TokensInv, ResourcesInv, EnoughForOne,
         NEW victim \in Req, PreemptLastRunning(victim)
  PROVE  last_running_idx # 1 /\ victim # combined[1]
<1>1. /\ InSchedule /\ step.phase = "alloc" /\ RolesInv
      /\ step.req_index \in 1..Len(combined) /\ step.req_index \in Int
      /\ Len(combined) \in Nat
      /\ step.request = combined[step.req_index] /\ step.request \in Req
  BY InHandIsListed DEF PreemptLastRunning, Phase
<1>2. /\ last_running_idx # None /\ victim = combined[last_running_idx]
      /\ ~Outranks(victim, step.request) /\ ~FitsNow /\ Phase("alloc")
  BY DEF PreemptLastRunning
<1>3. /\ Exact
      /\ \A i, j \in 1..Len(combined) : combined[i] = combined[j] => i = j
      /\ \A q \in Range(combined) : \E i \in 1..Len(combined) : q = combined[i]
      /\ Range(combined) = { q \in Req : status[q] \in Queued }
  BY <1>1, DuringSchedule
<1>4. /\ last_running_idx \in 1..Len(combined)
      /\ \A i \in 1..Len(combined) : combined[i] \in running_req_ids => i <= last_running_idx
  BY <1>2, <1>3 DEF Exact, IsLast, None
<1>5. ~(last_running_idx < step.req_index)
  <2>1. /\ \A i \in 1..Len(combined) : priority[combined[i]] # 0
        /\ \A i, j \in 1..Len(combined) :
             i < j => priority[combined[i]] < priority[combined[j]]
    BY <1>1 DEF QueueInv, CombinedIsStrictlySorted, InSchedule
  <2> QED BY <1>1, <1>2, <1>4, <2>1 DEF Outranks
<1>6. last_running_idx # 1
  <2> SUFFICES ASSUME last_running_idx = 1 PROVE FALSE
    OBVIOUS
  <2>1. step.req_index = 1
    BY <1>1, <1>5
  <2>2. running_req_ids = { q \in Range(combined) : status[q] = "RUNNING" }
    BY <1>1 DEF RolesInv
  <2>3. ASSUME NEW q \in Req, status[q] = "RUNNING" PROVE q = step.request
    <3>1. q \in Range(combined) /\ q \in running_req_ids
      BY <1>3, <2>2, <2>3 DEF Queued
    <3>2. PICK i \in 1..Len(combined) : q = combined[i]
      BY <1>3, <3>1
    <3>3. i = 1
      BY <1>1, <1>4, <3>1, <3>2
    <3> QED BY <1>1, <2>1, <3>2, <3>3
  <2> QED BY <1>2, <2>3, AloneFitsNow
<1>7. 1 \in 1..Len(combined)
  BY <1>1
<1> QED BY <1>2, <1>3, <1>4, <1>6, <1>7

\* When the budget of an unpaused step is spent something is scheduled.
LEMMA SpentOnSomething ==
  ASSUME TypeOK, SharesInv, step.phase # "idle", pause_state # "PAUSED_ALL",
         step.token_budget = 0
  PROVE  \E q \in Req : step.num_scheduled_tokens[q] # 0
<1> SUFFICES ASSUME \A q \in Req : step.num_scheduled_tokens[q] = 0
             PROVE  FALSE
  OBVIOUS
<1>1. DOMAIN step.num_scheduled_tokens = Req /\ MaxNumScheduledTokens \in Nat \ {0}
  BY SchedulerAssumption DEF TypeOK, StepTypeOK, Locals
<1>2. TotalNumScheduledTokens = 0
  BY <1>1, ReqAssumption, SumOfZeros DEF TotalNumScheduledTokens, SumFunction
<1> QED BY <1>1, <1>2 DEF SharesInv

\* The preemptions at the end spare the head of the list.
LEMMA HeadIsReached ==
  ASSUME TypeOK, IndexInv, QueueInv, SharesInv, CutInv, pause_state # "PAUSED_ALL",
         Phase("tail")
  PROVE  1 \in Reached
<1>1. /\ InSchedule /\ step.phase = "tail" /\ ScheduledInv /\ TailInv /\ SparedAreInFront
      /\ Len(combined) \in Nat
  BY DuringSchedule DEF Phase, QueueInv, InSchedule, CutInv
<1>2. PICK q \in Req : step.num_scheduled_tokens[q] # 0
  BY <1>1, SpentOnSomething DEF SparedAreInFront
<1>3. PICK i \in 1..Len(combined) : i < step.req_index /\ q = combined[i] /\ status[q] = "RUNNING"
  BY <1>1, <1>2 DEF ScheduledInv
<1>4. i \in Reached
  BY <1>3 DEF Reached, RunningIndices
<1>5. 1 \in 1..Len(combined) /\ (1 < i \/ 1 = i)
  BY <1>1
<1> QED BY <1>1, <1>4, <1>5 DEF SparedAreInFront

\* If the pool has the blocks of one request of max_model_len tokens, whatever is
\* running, resumed, admitted or out of budget: the request at the head of the list
\* is preempted for nobody's sake, nor for its own.
THEOREM HeadKeepsRunning ==
  ASSUME "reset" \notin ClientOps, DistinctArrivals, EveryImageFits, EnoughForOne
  PROVE  SchedulerSpec => MostUrgentKeepsRunning
<1> DEFINE Kept == \A r \in Req :
                     (status[r] = "RUNNING" /\ status'[r] = "PREEMPTED") =>
                       \/ pause_state = "PAUSED_ALL"
                       \/ step.phase = "idle"
                       \/ combined[1] # r
<1>1. TypeOK /\ IndexInv /\ QueueInv /\ TokensInv /\ ResourcesInv /\ CutInv
        /\ [SchedulerNext]_vars
        => Kept
  <2> SUFFICES ASSUME TypeOK, IndexInv, QueueInv, TokensInv, ResourcesInv, CutInv,
                      [SchedulerNext]_vars,
                      NEW r \in Req, status[r] = "RUNNING", status'[r] = "PREEMPTED",
                      pause_state # "PAUSED_ALL", step.phase # "idle"
               PROVE  combined[1] # r
    OBVIOUS
  <2>1. status \in [Req -> Statuses]
    BY DEF TypeOK, RequestsTypeOK
  <2>2. status' # status
    OBVIOUS
  <2>3. PICK q \in Req : PreemptLastRunning(q) \/ PreemptUnreached(q) \/ ScheduleWaiting(q)
    <3>1. ~(ClientStep \/ UpdateFromOutput \/ BeginSchedule)
      BY DEF ClientStep, AddRequest, AbortRequest, SetPauseState, ResetPrefixCache,
             BetweenSteps, Phase, UpdateFromOutput, BeginSchedule
    <3>2. ~(EndLoop \/ GiveUpAllocation \/ EndTail \/ CommitSchedule \/ ScheduleRaises)
      BY <2>2 DEF EndLoop, GiveUpAllocation, EndTail, CommitSchedule, ScheduleRaises, requestVars
    <3>3. ~\E q \in Req : SkipMaxTokensInFlight(q) \/ ConsiderRunning(q) \/ ConsiderWaiting(q)
                           \/ ScheduleRunning(q)
      BY <2>2 DEF SkipMaxTokensInFlight, ConsiderRunning, ConsiderWaiting, ScheduleRunning,
                  requestVars
    <3>4. ~UNCHANGED vars
      BY <2>2 DEF vars, requestVars
    <3> QED BY <3>1, <3>2, <3>3, <3>4, NothingIsIgnored
            DEF SchedulerNext, EngineStep, ScheduleStep, EngineIdle, EngineDead
  <2>4. CASE PreemptLastRunning(q)
    <3>1. q # combined[1]
      BY <2>4, HeadIsNotLastRunning
    <3>2. status' = [status EXCEPT ![q] = "PREEMPTED"]
      BY <2>4 DEF PreemptLastRunning, Preempt
    <3> QED BY <2>1, <3>1, <3>2
  <2>5. CASE PreemptUnreached(q)
    <3>1. Phase("tail") /\ InSchedule /\ step.phase = "tail"
      BY <2>5 DEF PreemptUnreached, Phase, InSchedule
    <3>2. 1 \in Reached /\ 1 < step.req_index
      BY <3>1, HeadIsReached DEF ResourcesInv, Reached
    <3>3. /\ TailInv /\ Len(combined) \in Nat
          /\ \A i, j \in 1..Len(combined) : combined[i] = combined[j] => i = j
      BY <3>1, DuringSchedule DEF QueueInv, InSchedule
    <3>4. PICK i \in step.req_index..Len(combined) : q = combined[i]
      BY <2>5 DEF PreemptUnreached
    <3>5. i \in 1..Len(combined) /\ 1 \in 1..Len(combined) /\ i # 1
      BY <3>1, <3>2, <3>3 DEF TailInv
    <3>6. q # combined[1]
      BY <3>3, <3>4, <3>5
    <3>7. status' = [status EXCEPT ![q] = "PREEMPTED"]
      BY <2>5 DEF PreemptUnreached, Preempt
    <3> QED BY <2>1, <3>6, <3>7
  <2>6. CASE ScheduleWaiting(q)
    BY <2>1, <2>6 DEF ScheduleWaiting
  <2> QED BY <2>3, <2>4, <2>5, <2>6
<1> QED BY <1>1, CutInductive, PTL DEF SchedulerSpec, MostUrgentKeepsRunning

-----------------------------------------------------------------------------
(* The assertions. *)

\* update_idxs_after_preemption asserts that the list is all waiting when its last
\* running request is taken: it is, unless that one was the head of the list.
LEMMA PreemptionAssertionHolds ==
  ASSUME Roles, Exact, UpdateIdxsAfterPreemption, last_running_idx # 1
  PROVE  PreemptionAssertion
<1> SUFFICES ASSUME last_running_idx # None, last_running_idx' = None
             PROVE  first_waiting_idx = 1
  BY DEF PreemptionAssertion
<1>1. /\ Len(combined) \in Nat /\ DOMAIN combined = 1..Len(combined)
      /\ \A i, j \in 1..Len(combined) : combined[i] = combined[j] => i = j
  BY LenProperties DEF Roles, IsInjective
<1>2. last_running_idx \in 1..Len(combined) /\ 1 \in 1..Len(combined)
  BY <1>1 DEF Exact, IsLast, None
<1>3. IsLast(None, running_req_ids \ {combined[last_running_idx]}, combined, last_running_idx)
  <2>1. None = LastIndexIn(combined, running_req_ids \ {combined[last_running_idx]},
                           last_running_idx)
    BY DEF UpdateIdxsAfterPreemption
  <2> QED BY <1>1, <1>2, <2>1, LastIndexIsLast
<1>4. combined[1] \notin running_req_ids
  <2>1. combined[1] # combined[last_running_idx]
    BY <1>1, <1>2
  <2>2. 1 \in 1..last_running_idx /\ ~(1 <= None)
    BY <1>2 DEF None
  <2> QED BY <1>3, <2>1, <2>2 DEF IsLast
<1>5. combined[1] \in Denied
  BY <1>1, <1>2, <1>4 DEF Roles, Range
<1> QED BY <1>1, <1>2, <1>5 DEF Exact, IsFirst

\* update_queues finds the last running request right before the first waiting one.
LEMMA UpdateQueuesAssertionHolds ==
  ASSUME Roles, Exact, Phase("commit"), RunningAreInFront, NothingBreaksOff
  PROVE  UpdateQueuesAssertion
<1> SUFFICES ASSUME last_running_idx # None, first_waiting_idx # None
             PROVE  last_running_idx = first_waiting_idx - 1
  BY DEF UpdateQueuesAssertion
<1>1. Len(combined) \in Nat /\ DOMAIN combined = 1..Len(combined)
  BY LenProperties DEF Roles
<1>2. /\ last_running_idx \in 1..Len(combined) /\ combined[last_running_idx] \in running_req_ids
      /\ \A i \in 1..Len(combined) : combined[i] \in running_req_ids => i <= last_running_idx
  BY DEF Exact, IsLast, None
<1>3. /\ first_waiting_idx \in 1..Len(combined) /\ combined[first_waiting_idx] \in Denied
      /\ \A i \in 1..Len(combined) : combined[i] \in Denied => first_waiting_idx <= i
  BY DEF Exact, IsFirst, None
<1>4. \A i \in 1..Len(combined) : combined[i] \in running_req_ids <=> combined[i] \notin Denied
  BY <1>1 DEF Roles, Range
<1>5. last_running_idx < first_waiting_idx
  <2>1. ~(first_waiting_idx < last_running_idx)
    BY <1>2, <1>3, <1>4 DEF RunningAreInFront, Phase
  <2>2. first_waiting_idx # last_running_idx
    BY <1>2, <1>3, <1>4
  <2> QED BY <1>2, <1>3, <2>1, <2>2
<1>6. first_waiting_idx - 1 <= last_running_idx
  <2>1. first_waiting_idx - 1 \in 1..Len(combined) /\ ~(first_waiting_idx <= first_waiting_idx - 1)
    BY <1>1, <1>2, <1>3, <1>5
  <2> QED BY <1>2, <1>3, <1>4, <2>1
<1> QED BY <1>2, <1>3, <1>5, <1>6

\* Of the closing assertions only that on the number of running requests can fail.
LEMMA ClosingAssertions ==
  ASSUME TypeOK, IndexInv, QueueInv, TokensInv, ResourcesInv, CutInv, NothingBreaksOff,
         Phase("commit")
  PROVE  FailedAssertion \in {"none", "max_num_running_reqs"}
<1>1. /\ InSchedule /\ step.phase = "commit"
      /\ RolesInv /\ ScheduledInv /\ QueuesMatchStatus /\ RunningAreInFront /\ ResumedAreOlder
      /\ SharesInv /\ BudgetInv
  BY DEF Phase, QueueInv, InSchedule, CutInv, ResourcesInv, TokensInv
<1>2. /\ Roles /\ Exact /\ Range(combined) = { q \in Req : status[q] \in Queued }
  BY <1>1, DuringSchedule
<1>3. running_req_ids = { q \in Range(combined) : status[q] = "RUNNING" }
  BY <1>1 DEF RolesInv
<1>4. UpdateQueuesAssertion
  BY <1>1, <1>2, UpdateQueuesAssertionHolds
<1>5. RunningAfterUpdate = running_req_ids
  BY <1>1, <1>2, <1>3, <1>4, CutAtFirstWaiting DEF QueuesMatchStatus
<1>6. ~(TotalNumScheduledTokens > MaxNumScheduledTokens)
  <2> DEFINE t == TotalNumScheduledTokens
  <2>1. /\ step.token_budget \in Int /\ step.token_budget >= 0
        /\ MaxNumScheduledTokens \in Nat
    BY <1>1, SchedulerAssumption DEF BudgetInv, TypeOK, StepTypeOK, Locals
  <2>2. t \in Int
    <3>1. /\ step.num_scheduled_tokens \in [Req -> Int] /\ IsFiniteSet(Req)
      BY ReqAssumption DEF TypeOK, StepTypeOK, Locals
    <3>2. DOMAIN step.num_scheduled_tokens = Req
          /\ \A q \in Req : step.num_scheduled_tokens[q] \in Int
      BY <3>1
    <3> QED BY <3>1, <3>2, SumOfOne DEF TotalNumScheduledTokens, SumFunction
  <2>3. step.token_budget + t \in {0, MaxNumScheduledTokens}
    BY <1>1 DEF SharesInv
  <2> HIDE DEF t
  <2>4. ~(t > MaxNumScheduledTokens)
    BY <2>1, <2>2, <2>3
  <2> QED BY <2>4 DEF t
<1>7. ~(Cardinality(ScheduledReqs) > Cardinality(RunningAfterUpdate))
  <2>1. ScheduledReqs \subseteq running_req_ids /\ running_req_ids \subseteq Req
    BY <1>1, <1>2, <1>3 DEF ScheduledReqs, ScheduledInv, Queued
  <2>2. IsFiniteSet(running_req_ids) /\ IsFiniteSet(ScheduledReqs)
    BY <2>1, ReqAssumption, FS_Subset
  <2>3. /\ Cardinality(ScheduledReqs) <= Cardinality(running_req_ids)
        /\ Cardinality(ScheduledReqs) \in Nat /\ Cardinality(running_req_ids) \in Nat
    BY <2>1, <2>2, FS_Subset, FS_CardinalityType
  <2> QED BY <1>5, <2>3
<1>8. step.scheduled_resumed_reqs \cap prev_step_scheduled_req_ids = {}
  BY <1>1 DEF ResumedAreOlder
<1> QED BY <1>4, <1>6, <1>7, <1>8 DEF FailedAssertion

\* No client pauses the running requests.
NoFullPause == "pause_all" \notin ClientOps => pause_state # "PAUSED_ALL"

LEMMA FullPauseIsAsked ==
  SchedulerSpec => []NoFullPause
<1>1. SchedulerInit => NoFullPause
  BY DEF SchedulerInit, NoFullPause
<1>2. NoFullPause /\ [SchedulerNext]_vars => NoFullPause'
  <2> SUFFICES ASSUME NoFullPause, [SchedulerNext]_vars, "pause_all" \notin ClientOps
               PROVE  pause_state' # "PAUSED_ALL"
    BY DEF NoFullPause
  <2>1. pause_state # "PAUSED_ALL"
    BY DEF NoFullPause
  <2>2. ASSUME pause_state' # pause_state
        PROVE  \E pause : SetPauseState(pause)
    <3>1. ~(UpdateFromOutput \/ BeginSchedule \/ ResetPrefixCache \/ UNCHANGED vars)
      BY <2>2 DEF UpdateFromOutput, BeginSchedule, ResetPrefixCache, vars, engineVars
    <3>2. ~(EndLoop \/ GiveUpAllocation \/ EndTail \/ CommitSchedule \/ ScheduleRaises)
      BY <2>2 DEF EndLoop, GiveUpAllocation, EndTail, CommitSchedule, ScheduleRaises, engineVars
    <3>3. ~\E q \in Req : \/ SkipMaxTokensInFlight(q) \/ ConsiderRunning(q) \/ IgnoreWaiting(q)
                          \/ ConsiderWaiting(q) \/ ScheduleRunning(q) \/ ScheduleWaiting(q)
                          \/ PreemptLastRunning(q) \/ PreemptUnreached(q)
      BY <2>2 DEF SkipMaxTokensInFlight, ConsiderRunning, IgnoreWaiting, ConsiderWaiting,
                  ScheduleRunning, ScheduleWaiting, PreemptLastRunning, PreemptUnreached,
                  Preempt, engineVars
    <3>4. ~\E q \in Req : AddRequest(q) \/ AbortRequest(q)
      BY <2>2 DEF AddRequest, AbortRequest, engineVars
    <3> QED BY <3>1, <3>2, <3>3, <3>4
            DEF SchedulerNext, EngineStep, ScheduleStep, ClientStep, EngineIdle, EngineDead
  <2>3. \A pause : SetPauseState(pause) => pause_state' # "PAUSED_ALL"
    BY DEF SetPauseState
  <2> QED BY <2>1, <2>2, <2>3
<1> QED BY <1>1, <1>2, PTL DEF SchedulerSpec

\* The assertion that fails, if one does.
OnlyMaxNumSeqsFails == failed_assertion \in {"none", "max_num_running_reqs"}

LEMMA NextAssertions ==
  ASSUME NothingBreaksOff, EveryImageFits, EnoughForOne, pause_state # "PAUSED_ALL",
         TypeOK, IndexInv, QueueInv, TokensInv, ResourcesInv, CutInv,
         OnlyMaxNumSeqsFails, [SchedulerNext]_vars
  PROVE  OnlyMaxNumSeqsFails'
<1>1. ASSUME NEW q \in Req, PreemptLastRunning(q) \/ PreemptUnreached(q)
      PROVE  failed_assertion' = failed_assertion
  <2>1. /\ InSchedule /\ Preempt(q)
    BY <1>1 DEF PreemptLastRunning, PreemptUnreached, Phase, InSchedule
  <2>2. Roles /\ Exact /\ UpdateIdxsAfterPreemption
    BY <2>1, DuringSchedule DEF Preempt
  <2>3. last_running_idx # 1
    <3>1. CASE PreemptLastRunning(q)
      BY <3>1, HeadIsNotLastRunning
    <3>2. CASE PreemptUnreached(q)
      BY <3>2, IdsAreTakenFromTheEnd, HeadIsReached DEF PreemptUnreached, ResourcesInv
    <3> QED BY <1>1, <3>1, <3>2
  <2>4. PreemptionAssertion
    BY <2>2, <2>3, PreemptionAssertionHolds
  <2> QED BY <2>1, <2>4 DEF Preempt
<1>2. ASSUME ScheduleRaises
      PROVE  failed_assertion' \in {"none", "max_num_running_reqs"}
  BY <1>2, ClosingAssertions DEF ScheduleRaises
<1>3. ASSUME ~ScheduleRaises,
             ~\E q \in Req : PreemptLastRunning(q) \/ PreemptUnreached(q)
      PROVE  failed_assertion' = failed_assertion
  <2>1. UpdateFromOutput \/ BeginSchedule \/ UNCHANGED vars
          => failed_assertion' = failed_assertion
    BY DEF UpdateFromOutput, BeginSchedule, vars
  <2>2. EndLoop \/ GiveUpAllocation \/ EndTail \/ CommitSchedule
          => failed_assertion' = failed_assertion
    BY DEF EndLoop, GiveUpAllocation, EndTail, CommitSchedule
  <2>3. \A q \in Req : \/ SkipMaxTokensInFlight(q) \/ ConsiderRunning(q)
                       \/ ConsiderWaiting(q) \/ ScheduleRunning(q) \/ ScheduleWaiting(q)
                       => failed_assertion' = failed_assertion
    BY DEF SkipMaxTokensInFlight, ConsiderRunning, ConsiderWaiting, ScheduleRunning,
           ScheduleWaiting
  <2>4. ClientStep => failed_assertion' = failed_assertion
    BY DEF ClientStep, AddRequest, AbortRequest, SetPauseState, ResetPrefixCache
  <2> QED BY <1>3, <2>1, <2>2, <2>3, <2>4, NothingIsIgnored
          DEF SchedulerNext, EngineStep, ScheduleStep, EngineIdle, EngineDead
<1> QED BY <1>1, <1>2, <1>3 DEF OnlyMaxNumSeqsFails

\* Where nobody pauses the running requests or resets the cache, and no waiting
\* request breaks the loop off, schedule() can fail in one way only: with more
\* requests running than max_num_seqs, which admission does not look at.
THEOREM OnlyTooManyRunningFail ==
  ASSUME {"reset", "pause_all"} \cap ClientOps = {}, DistinctArrivals, EnoughForOne,
         NothingBreaksOff
  PROVE  SchedulerSpec => []OnlyMaxNumSeqsFails
<1>1. "reset" \notin ClientOps /\ "pause_all" \notin ClientOps
  OBVIOUS
<1>2. EveryImageFits
  BY SchedulerAssumption DEF NothingBreaksOff, EveryImageFits
<1>3. SchedulerInit => OnlyMaxNumSeqsFails
  BY DEF SchedulerInit, OnlyMaxNumSeqsFails
<1>4. /\ TypeOK /\ IndexInv /\ QueueInv /\ TokensInv /\ ResourcesInv /\ CutInv /\ NoFullPause
      /\ OnlyMaxNumSeqsFails /\ [SchedulerNext]_vars
      => OnlyMaxNumSeqsFails'
  BY <1>1, <1>2, NextAssertions DEF NoFullPause
<1>5. SchedulerSpec =>
        [](TypeOK /\ IndexInv /\ QueueInv /\ TokensInv /\ ResourcesInv /\ CutInv)
  BY <1>1, <1>2, CutInductive
<1> QED BY <1>3, <1>4, <1>5, FullPauseIsAsked, PTL DEF SchedulerSpec

\* If there are no more requests than may run at a time, no assertion of schedule() or
\* of the QueueManager ever fails: the patched indices bear out every time what the
\* code takes for granted about them.
THEOREM AssertionsHold ==
  ASSUME {"reset", "pause_all"} \cap ClientOps = {}, DistinctArrivals, EnoughForOne,
         NothingBreaksOff, Cardinality(Req) <= MaxNumSeqs
  PROVE  SchedulerSpec => []NoAssertionFailure
<1>1. "reset" \notin ClientOps /\ EveryImageFits
  BY SchedulerAssumption DEF NothingBreaksOff, EveryImageFits
<1>2. SchedulerInit => NoAssertionFailure
  BY DEF SchedulerInit, NoAssertionFailure
<1>3. /\ TypeOK /\ IndexInv /\ QueueInv /\ NoAssertionFailure
      /\ OnlyMaxNumSeqsFails' /\ [SchedulerNext]_vars
      => NoAssertionFailure'
  <2> SUFFICES ASSUME TypeOK, IndexInv, NoAssertionFailure, [SchedulerNext]_vars,
                      failed_assertion' = "max_num_running_reqs"
               PROVE  FALSE
    BY DEF NoAssertionFailure, OnlyMaxNumSeqsFails
  <2>1. failed_assertion' # failed_assertion /\ failed_assertion' # "first_waiting_idx"
    BY DEF NoAssertionFailure
  <2>2. ScheduleRaises
    <3>1. ~(UpdateFromOutput \/ BeginSchedule \/ UNCHANGED vars)
      BY <2>1 DEF UpdateFromOutput, BeginSchedule, vars
    <3>2. ~(EndLoop \/ GiveUpAllocation \/ EndTail \/ CommitSchedule \/ ClientStep)
      BY <2>1 DEF EndLoop, GiveUpAllocation, EndTail, CommitSchedule,
                  ClientStep, AddRequest, AbortRequest, SetPauseState, ResetPrefixCache
    <3>3. ~\E q \in Req : \/ SkipMaxTokensInFlight(q) \/ ConsiderRunning(q)
                          \/ ConsiderWaiting(q) \/ ScheduleRunning(q) \/ ScheduleWaiting(q)
      BY <2>1 DEF SkipMaxTokensInFlight, ConsiderRunning, ConsiderWaiting, ScheduleRunning,
                  ScheduleWaiting
    <3>4. ~\E q \in Req : PreemptLastRunning(q) \/ PreemptUnreached(q)
      BY <2>1 DEF PreemptLastRunning, PreemptUnreached, Preempt
    <3> QED BY <1>1, <3>1, <3>2, <3>3, <3>4, NothingIsIgnored
            DEF SchedulerNext, EngineStep, ScheduleStep, EngineIdle, EngineDead
  <2>3. Cardinality(RunningAfterUpdate) > MaxNumSeqs
    BY <2>1, <2>2 DEF ScheduleRaises, FailedAssertion
  <2>4. RunningAfterUpdate \subseteq Req
    <3>1. combined \in Seq(Req)
      BY DEF TypeOK, QueueManagerTypeOK
    <3>2. /\ DOMAIN combined = 1..Len(combined) /\ Len(combined) \in Nat
          /\ \A i \in 1..Len(combined) : combined[i] \in Req
      BY <3>1, LenProperties
    <3>3. Range(combined) \subseteq Req
      BY <3>2 DEF Range
    <3>4. first_waiting_idx \in 0..Len(combined)
      BY DEF TypeOK, QueueManagerTypeOK
    <3>5. { combined[i] : i \in 1..(first_waiting_idx - 1) } \subseteq Req
      BY <3>2, <3>4
    <3> QED BY <3>3, <3>5 DEF RunningAfterUpdate
  <2>5. /\ Cardinality(RunningAfterUpdate) <= Cardinality(Req)
        /\ Cardinality(RunningAfterUpdate) \in Nat /\ Cardinality(Req) \in Nat
    BY <2>4, ReqAssumption, FS_Subset, FS_CardinalityType
  <2> QED BY <2>3, <2>5, SchedulerAssumption
<1>4. SchedulerSpec => []OnlyMaxNumSeqsFails
  BY OnlyTooManyRunningFail
<1>5. SchedulerSpec => [](TypeOK /\ IndexInv /\ QueueInv)
  BY <1>1, QueuesInductive
<1> QED BY <1>2, <1>3, <1>4, <1>5, PTL DEF SchedulerSpec

-----------------------------------------------------------------------------
(* Progress of a step. *)

\* A running request with nothing left to compute waits for the token of a batch in
\* flight, and not under async scheduling, where a placeholder stands for that token.
CaughtUpInv ==
  \A r \in Req : (status[r] = "RUNNING" /\ num_computed_tokens[r] = TokensToCome(r)) =>
    /\ ~AsyncScheduling
    /\ \E i \in DOMAIN batch_queue : r \in batch_queue[i].sampled

LEMMA InitCaughtUp == SchedulerInit => CaughtUpInv
BY DEF SchedulerInit, CaughtUpInv

\* Where no token arrives and no batch is sent.
LEMMA SteadyCaughtUp ==
  ASSUME CaughtUpInv, UNCHANGED <<num_output_tokens, batch_queue>>,
         \A q \in Req : status'[q] = "RUNNING" =>
           /\ num_output_placeholders'[q] = num_output_placeholders[q]
           /\ \/ status[q] = "RUNNING" /\ num_computed_tokens'[q] = num_computed_tokens[q]
              \/ num_computed_tokens'[q] # TokensToCome(q)
  PROVE  CaughtUpInv'
<1>1. \A q \in Req : status'[q] = "RUNNING" => TokensToCome(q)' = TokensToCome(q)
  BY DEF TokensToCome, NumTokens
<1> QED BY <1>1 DEF CaughtUpInv

LEMMA ClientCaughtUp ==
  ASSUME "reset" \notin ClientOps, TypeOK, CaughtUpInv, ClientStep
  PROVE  CaughtUpInv'
<1>1. UNCHANGED <<num_output_tokens, batch_queue>>
  BY DEF ClientStep, AddRequest, AbortRequest, SetPauseState, ResetPrefixCache,
         requestVars, engineVars
<1>2. status \in [Req -> Statuses]
  BY DEF TypeOK, RequestsTypeOK
<1>3. \A q \in Req : status'[q] = "RUNNING" =>
        /\ num_output_placeholders'[q] = num_output_placeholders[q]
        /\ status[q] = "RUNNING" /\ num_computed_tokens'[q] = num_computed_tokens[q]
  <2>1. ASSUME NEW r \in Req, AddRequest(r)
        PROVE  /\ UNCHANGED <<num_computed_tokens, num_output_placeholders>>
               /\ \A q \in Req : status'[q] = "RUNNING" => status[q] = "RUNNING"
    BY <1>2, <2>1 DEF AddRequest
  <2>2. ASSUME NEW r \in Req, AbortRequest(r)
        PROVE  \A q \in Req : status'[q] = "RUNNING" =>
                 /\ num_output_placeholders'[q] = num_output_placeholders[q]
                 /\ status[q] = "RUNNING" /\ num_computed_tokens'[q] = num_computed_tokens[q]
    BY <1>2, <2>2 DEF AbortRequest, FreeRequests, Zeroed
  <2>3. \A pause : SetPauseState(pause) => UNCHANGED requestVars
    BY DEF SetPauseState
  <2> QED BY <2>1, <2>2, <2>3 DEF ClientStep, ResetPrefixCache, requestVars
<1> QED BY <1>1, <1>3, SteadyCaughtUp

\* Whoever awaits the token of the batch that answers, gets it.
LEMMA OutputCaughtUp ==
  ASSUME TypeOK, TokensInv, PlaceholdersInv, CaughtUpInv, UpdateFromOutput
  PROVE  CaughtUpInv'
<1>1. PICK discarded \in SUBSET Req, extended \in SUBSET Req, stopped \in SUBSET Req :
        Answered(discarded, extended, stopped)
  BY OutputEffects
<1>2. batch_queue \in Seq(Batches) /\ batch_queue # <<>> /\ batch_queue' = Tail(batch_queue)
  BY DEF UpdateFromOutput, TypeOK, QueuesTypeOK
<1>3. /\ Len(batch_queue) \in Nat \ {0}
      /\ DOMAIN batch_queue = 1 .. Len(batch_queue)
      /\ DOMAIN Tail(batch_queue) = 1 .. (Len(batch_queue) - 1)
      /\ \A i \in 1 .. (Len(batch_queue) - 1) : Tail(batch_queue)[i] = batch_queue[i + 1]
      /\ Head(batch_queue) = batch_queue[1]
  BY <1>2, OneLess
<1> SUFFICES ASSUME NEW r \in Req, status'[r] = "RUNNING",
                    num_computed_tokens'[r] = TokensToCome(r)'
             PROVE  /\ ~AsyncScheduling
                    /\ \E i \in DOMAIN batch_queue' : r \in batch_queue'[i].sampled
  BY DEF CaughtUpInv
<1>4. /\ r \notin stopped /\ status[r] = "RUNNING"
      /\ num_computed_tokens'[r] = num_computed_tokens[r]
      /\ num_output_tokens'[r] = num_output_tokens[r] + (IF r \in extended THEN 1 ELSE 0)
      /\ num_output_placeholders'[r] = num_output_placeholders[r]
           - (IF r \in extended /\ AsyncScheduling THEN 1 ELSE 0)
  BY <1>1 DEF Answered
<1>5. /\ num_computed_tokens[r] \in Int /\ num_output_tokens[r] \in Int
      /\ num_output_placeholders[r] \in Int /\ PromptLen[r] \in Int
      /\ step.num_scheduled_tokens[r] \in Int
  BY CounterTypes
<1>6. num_computed_tokens[r] <= TokensToCome(r)
  <2>1. MayCompute(r, step.num_scheduled_tokens[r])
    BY DEF TokensInv, ComputedInv
  <2> QED BY <1>5, <2>1 DEF MayCompute, TokensToCome, NumTokens
<1>7. /\ num_computed_tokens[r] = TokensToCome(r)
      /\ r \in extended => AsyncScheduling
  BY <1>4, <1>5, <1>6 DEF TokensToCome, NumTokens
<1>8. /\ ~AsyncScheduling /\ r \notin extended
      /\ \E i \in DOMAIN batch_queue : r \in batch_queue[i].sampled
  BY <1>4, <1>7 DEF CaughtUpInv
<1>9. PICK i \in 1 .. Len(batch_queue) : r \in batch_queue[i].sampled
  BY <1>3, <1>8
<1>10. i # 1
  <2> SUFFICES ASSUME i = 1 PROVE FALSE
    OBVIOUS
  <2>1. r \in Head(batch_queue).sampled \cap Head(batch_queue).scheduled
    BY <1>3, <1>9 DEF PlaceholdersInv
  <2>2. r \in Unfinished
    BY <1>4 DEF Unfinished, requests, FinishedStatuses
  <2>3. r \in discarded
    BY <1>1, <1>8, <2>1, <2>2 DEF Answered
  <2>4. async_tokens_to_discard[r] = 0 /\ async_tokens_to_discard[r] > 0
    BY <1>1, <2>3 DEF Answered, PlaceholdersInv
  <2> QED BY <2>4
<1>11. /\ i - 1 \in 1 .. (Len(batch_queue) - 1)
       /\ Tail(batch_queue)[i - 1] = batch_queue[i]
  <2>1. i - 1 \in 1 .. (Len(batch_queue) - 1) /\ (i - 1) + 1 = i
    BY <1>3, <1>9, <1>10
  <2> QED BY <1>3, <2>1
<1> QED BY <1>2, <1>3, <1>8, <1>9, <1>11

\* Whoever has computed all there is in the batch that is sent, is sampled in it.
LEMMA CommitCaughtUp ==
  ASSUME TypeOK, TokensInv, CaughtUpInv, CommitSchedule
  PROVE  CaughtUpInv'
<1> DEFINE Batch(s) == [scheduled |-> ScheduledReqs, sampled |-> s]
<1>1. PICK sampled \in SUBSET ScheduledReqs :
        /\ Batch(sampled) \in Batches
        /\ batch_queue' = Append(batch_queue, Batch(sampled))
        /\ \A r \in Req :
             /\ num_computed_tokens'[r] = num_computed_tokens[r] + step.num_scheduled_tokens[r]
             /\ r \in sampled <=>
                  /\ step.num_scheduled_tokens[r] > 0
                  /\ num_computed_tokens'[r] >= NumTokens(r) + num_output_placeholders[r]
             /\ num_output_placeholders'[r] = num_output_placeholders[r]
                  + (IF AsyncScheduling /\ r \in sampled THEN 1 ELSE 0)
  BY CommitEffects
<1>2. status' = status /\ num_output_tokens' = num_output_tokens
  BY DEF CommitSchedule
<1> SUFFICES ASSUME NEW r \in Req, status[r] = "RUNNING",
                    num_computed_tokens'[r] = TokensToCome(r)'
             PROVE  /\ ~AsyncScheduling
                    /\ \E i \in DOMAIN batch_queue' : r \in batch_queue'[i].sampled
  BY <1>2 DEF CaughtUpInv
<1> DEFINE b == Batch(sampled)
<1>3. /\ Len(batch_queue) \in Nat
      /\ DOMAIN batch_queue = 1 .. Len(batch_queue)
      /\ DOMAIN batch_queue' = 1 .. (Len(batch_queue) + 1)
      /\ \A i \in 1 .. Len(batch_queue) : batch_queue'[i] = batch_queue[i]
      /\ batch_queue'[Len(batch_queue) + 1] = b
  <2>1. batch_queue \in Seq(Batches) /\ b \in Batches /\ batch_queue' = Append(batch_queue, b)
    BY <1>1 DEF TypeOK, QueuesTypeOK
  <2> HIDE DEF b
  <2> QED BY <2>1, LenProperties, AppendProperties
<1>4. /\ num_computed_tokens[r] \in Int /\ NumTokens(r) \in Int
      /\ num_output_placeholders[r] \in Int /\ step.num_scheduled_tokens[r] \in Int
      /\ MayCompute(r, step.num_scheduled_tokens[r])
  BY CounterTypes DEF TokensInv, ComputedInv
<1>5. TokensToCome(r)' = TokensToCome(r) + (IF AsyncScheduling /\ r \in sampled THEN 1 ELSE 0)
  BY <1>1, <1>2, <1>4 DEF TokensToCome, NumTokens
<1>6. /\ num_computed_tokens'[r] <= TokensToCome(r) /\ step.num_scheduled_tokens[r] >= 0
      /\ TokensToCome(r) = NumTokens(r) + num_output_placeholders[r]
  BY <1>1, <1>4 DEF MayCompute, TokensToCome
<1>7. CASE r \in sampled
  <2>1. ~AsyncScheduling
    BY <1>4, <1>5, <1>6, <1>7
  <2>2. r \in b.sampled /\ Len(batch_queue) + 1 \in DOMAIN batch_queue'
    BY <1>3, <1>7
  <2> QED BY <1>3, <2>1, <2>2
<1>8. CASE r \notin sampled
  <2>1. num_computed_tokens'[r] = TokensToCome(r)
    BY <1>5, <1>8, <1>4, <1>6
  <2>2. ~(step.num_scheduled_tokens[r] > 0)
    BY <1>1, <1>4, <1>6, <1>8, <2>1
  <2>3. num_computed_tokens[r] = TokensToCome(r)
    BY <1>1, <1>4, <1>6, <2>1, <2>2
  <2>4. ~AsyncScheduling /\ \E i \in DOMAIN batch_queue : r \in batch_queue[i].sampled
    BY <2>3 DEF CaughtUpInv
  <2> QED BY <1>3, <2>4
<1> QED BY <1>7, <1>8

\* A request that is admitted has everything to compute, and one that is preempted
\* does not run.
LEMMA NextCaughtUp ==
  ASSUME "reset" \notin ClientOps, EveryImageFits, TypeOK, IndexInv, QueueInv, InFlightInv,
         TokensInv, CaughtUpInv, [SchedulerNext]_vars
  PROVE  CaughtUpInv'
<1>1. status \in [Req -> Statuses] /\ num_computed_tokens \in [Req -> Int]
  BY DEF TypeOK, RequestsTypeOK
<1>2. CASE ClientStep
  BY <1>2, ClientCaughtUp
<1>3. CASE UpdateFromOutput
  BY <1>3, OutputCaughtUp DEF UpdateFromOutput, Phase, InFlightInv
<1>4. CASE CommitSchedule
  BY <1>4, CommitCaughtUp
<1>5. ASSUME NEW r \in Req, PreemptLastRunning(r) \/ PreemptUnreached(r)
      PROVE  CaughtUpInv'
  <2>1. /\ status' = [status EXCEPT ![r] = "PREEMPTED"]
        /\ num_computed_tokens' = [num_computed_tokens EXCEPT ![r] = 0]
        /\ UNCHANGED <<num_output_tokens, num_output_placeholders, batch_queue>>
    BY <1>5 DEF PreemptLastRunning, PreemptUnreached, Preempt, engineVars
  <2>2. \A q \in Req : status'[q] = "RUNNING" =>
          status[q] = "RUNNING" /\ num_computed_tokens'[q] = num_computed_tokens[q]
    BY <1>1, <2>1
  <2> QED BY <2>1, <2>2, SteadyCaughtUp
<1>6. ASSUME NEW r \in Req, ScheduleWaiting(r)
      PROVE  CaughtUpInv'
  <2>1. /\ status' = [status EXCEPT ![r] = "RUNNING"]
        /\ UNCHANGED <<num_computed_tokens, num_output_tokens, num_output_placeholders,
                       batch_queue>>
    BY <1>6 DEF ScheduleWaiting, engineVars
  <2>2. /\ InSchedule /\ RolesInv /\ Roles /\ r \in waiting_req_ids /\ r \in Range(combined)
    BY <1>6, InHandIsListed, DuringSchedule DEF ScheduleWaiting, Phase
  <2>3. status[r] # "RUNNING"
    BY <1>6, <2>2 DEF ScheduleWaiting, Phase, Roles, RolesInv, Denied
  <2>4. num_computed_tokens[r] = 0
    BY <2>2, <2>3 DEF QueueInv, InSchedule, OnlyRunningIsComputed
  <2>5. TokensToCome(r) # 0
    <3>1. /\ PromptLen[r] \in Nat \ {0} /\ num_output_tokens[r] \in Nat
          /\ num_output_placeholders[r] \in Int /\ num_output_placeholders[r] >= 0
      BY CounterTypes DEF TokensInv, SignsInv
    <3> QED BY <3>1 DEF TokensToCome, NumTokens
  <2>6. \A q \in Req : status'[q] = "RUNNING" =>
          \/ status[q] = "RUNNING" /\ num_computed_tokens'[q] = num_computed_tokens[q]
          \/ num_computed_tokens'[q] # TokensToCome(q)
    BY <1>1, <2>1, <2>4, <2>5
  <2> QED BY <2>1, <2>6, SteadyCaughtUp
<1>7. ASSUME UNCHANGED <<status, num_computed_tokens, num_output_tokens,
                         num_output_placeholders, batch_queue>>
      PROVE  CaughtUpInv'
  BY <1>7, SteadyCaughtUp
<1>8. CASE \/ BeginSchedule \/ EndLoop \/ GiveUpAllocation \/ EndTail \/ ScheduleRaises
           \/ UNCHANGED vars
  <2>1. UNCHANGED <<status, num_computed_tokens, num_output_tokens,
                    num_output_placeholders, batch_queue>>
    BY <1>8 DEF BeginSchedule, EndLoop, GiveUpAllocation, EndTail, ScheduleRaises,
                vars, requestVars, engineVars
  <2> QED BY <1>7, <2>1
<1>9. ASSUME NEW r \in Req,
             \/ SkipMaxTokensInFlight(r) \/ ConsiderRunning(r) \/ ConsiderWaiting(r)
             \/ ScheduleRunning(r)
      PROVE  CaughtUpInv'
  <2>1. UNCHANGED <<status, num_computed_tokens, num_output_tokens,
                    num_output_placeholders, batch_queue>>
    BY <1>9 DEF SkipMaxTokensInFlight, ConsiderRunning, ConsiderWaiting, ScheduleRunning,
                requestVars, engineVars
  <2> QED BY <1>7, <2>1
<1> QED BY <1>2, <1>3, <1>4, <1>5, <1>6, <1>8, <1>9, NothingIsIgnored
        DEF SchedulerNext, EngineStep, ScheduleStep, EngineIdle, EngineDead

\* Nothing is in flight, the engine is not paused and the list is not empty, but the
\* step has not scheduled anything so far.
NothingScheduledYet ==
  /\ InSchedule
  /\ pause_state # "PAUSED_ALL"
  /\ batch_queue = <<>>
  /\ combined # <<>>
  /\ ScheduledReqs = {}

\* The step is still busy with the head of the list, which it has not preempted.
HeadInHand ==
  /\ step.phase \in {"loop", "alloc"}
  /\ step.req_index = 1
  /\ combined[1] \notin preempted_req_ids

HeadInv == NothingScheduledYet => HeadInHand

\* Such a step has all of its budget.
LEMMA BudgetIsWhole ==
  ASSUME TypeOK, TokensInv, SharesInv, NothingScheduledYet
  PROVE  step.token_budget > 0
<1>1. \A q \in Req : step.num_scheduled_tokens[q] = 0
  <2> SUFFICES ASSUME NEW q \in Req PROVE step.num_scheduled_tokens[q] = 0
    OBVIOUS
  <2>1. step.num_scheduled_tokens[q] \in Int /\ step.num_scheduled_tokens[q] >= 0
    BY CounterTypes DEF TokensInv, ComputedInv, MayCompute
  <2>2. ~(step.num_scheduled_tokens[q] > 0)
    BY DEF NothingScheduledYet, ScheduledReqs
  <2> QED BY <2>1, <2>2
<1>2. step.token_budget # 0
  BY <1>1, SpentOnSomething DEF NothingScheduledYet, InSchedule
<1>3. step.token_budget \in Int /\ step.token_budget >= 0
  BY DEF TokensInv, BudgetInv, TypeOK, StepTypeOK, Locals
<1> QED BY <1>2, <1>3

\* With nothing in flight a running request has a token to compute.
LEMMA RunningHasTokens ==
  ASSUME TypeOK, IndexInv, QueueInv, InFlightInv, TokensInv, CaughtUpInv, NothingBreaksOff,
         NEW r \in Req, Current(r), batch_queue = <<>>
  PROVE  /\ ~MaxTokensInFlight(r)
         /\ r \in running_req_ids =>
              \A outcome \in EncoderOutcomes(r, NumNewTokensRunning(r)) :
                outcome.num_new_tokens # 0
<1>1. PlaceholdersInv /\ RolesInv /\ step.phase = "loop" /\ step.token_budget > 0
  BY CurrentIsListed DEF Current, Phase, InFlightInv
<1>2. num_output_placeholders[r] = 0
  <2>1. num_output_placeholders[r] \in 0 .. Len(batch_queue) /\ Len(batch_queue) = 0
    BY <1>1, LandedHasNoPlaceholder
  <2> QED BY <2>1
<1>3. ~MaxTokensInFlight(r)
  BY <1>2 DEF MaxTokensInFlight
<1>4. ASSUME r \in running_req_ids PROVE NumNewTokensRunning(r) # 0
  <2>1. status[r] = "RUNNING"
    BY <1>1, <1>4 DEF RolesInv
  <2>2. num_computed_tokens[r] # TokensToCome(r)
    BY <2>1 DEF CaughtUpInv
  <2>3. /\ num_computed_tokens[r] \in Int /\ NumTokens(r) \in Int /\ MaxModelLen \in Int
        /\ step.num_scheduled_tokens[r] \in Int /\ step.token_budget \in Int
        /\ LongPrefillTokenThreshold \in Nat
    BY CounterTypes, SchedulerAssumption
  <2>4. /\ TokensToCome(r) = NumTokens(r)
        /\ MayCompute(r, step.num_scheduled_tokens[r])
        /\ NumTokens(r) < MaxModelLen
    BY <1>2, <2>1, <2>3 DEF TokensToCome, TokensInv, ComputedInv, UnfinishedInv, FinishedStatuses
  <2>5. num_computed_tokens[r] < NumTokens(r)
    BY <2>2, <2>3, <2>4 DEF MayCompute
  <2> DEFINE wanted == WithinThreshold(NumTokens(r) + num_output_placeholders[r]
                                         - num_computed_tokens[r])
  <2>6. wanted \in Int /\ wanted > 0
    BY <1>2, <2>3, <2>5 DEF WithinThreshold
  <2>7. MaxModelLen - 1 - num_computed_tokens[r] > 0
    BY <2>3, <2>4, <2>5
  <2>8. NumNewTokensRunning(r) = LeastOf(LeastOf(wanted, step.token_budget),
                                         MaxModelLen - 1 - num_computed_tokens[r])
    BY DEF NumNewTokensRunning
  <2> HIDE DEF wanted
  <2> QED BY <1>1, <2>3, <2>6, <2>7, <2>8 DEF LeastOf
<1>5. EncoderTokens[r] = 0
  BY DEF NothingBreaksOff
<1>6. ASSUME NEW n, NEW outcome \in EncoderOutcomes(r, n) PROVE outcome.num_new_tokens = n
  BY <1>5 DEF EncoderOutcomes
<1> QED BY <1>3, <1>4, <1>6

\* The head of the list is not passed over, and does not end the loop.
LEMMA HeadIsConsidered ==
  ASSUME TypeOK, IndexInv, QueueInv, InFlightInv, TokensInv, CaughtUpInv, NothingBreaksOff,
         HeadInHand, batch_queue = <<>>, NEW r \in Req,
         SkipMaxTokensInFlight(r) \/ ConsiderRunning(r) \/ ConsiderWaiting(r)
  PROVE  HeadInHand'
<1>1. /\ Current(r) /\ step \in Locals
      /\ UNCHANGED <<combined, preempted_req_ids>>
  BY DEF SkipMaxTokensInFlight, ConsiderRunning, ConsiderWaiting, queueManagerVars,
         TypeOK, StepTypeOK
<1>2. \E outcome : TryToAllocate(r, outcome)
  <2>1. ~SkipMaxTokensInFlight(r)
    BY <1>1, RunningHasTokens DEF SkipMaxTokensInFlight
  <2>2. CASE ConsiderRunning(r)
    <3> DEFINE wanted == NumNewTokensRunning(r)
    <3>1. PICK outcome \in EncoderOutcomes(r, wanted) :
            IF outcome.num_new_tokens = 0
            THEN step' = PassedOver(step)
            ELSE TryToAllocate(r, outcome)
      BY <2>2 DEF ConsiderRunning
    <3>2. outcome.num_new_tokens # 0
      BY <1>1, <2>2, <3>1, RunningHasTokens DEF ConsiderRunning
    <3> HIDE DEF wanted
    <3> QED BY <3>1, <3>2
  <2>3. CASE ConsiderWaiting(r)
    <3> DEFINE wanted == LeastOf(NumNewTokensWaiting(r), step.token_budget)
    <3>1. PICK outcome \in EncoderOutcomes(r, wanted) :
            IF ChunkTooLong(r) \/ outcome.num_new_tokens = 0
            THEN step' = [step EXCEPT !.phase = "commit"]
            ELSE TryToAllocate(r, outcome)
      BY <2>3 DEF ConsiderWaiting
    <3>2. ~ChunkTooLong(r) /\ outcome.num_new_tokens # 0
      BY <1>1, <2>3, <3>1, WaitingHasTokens DEF ConsiderWaiting
    <3> HIDE DEF wanted
    <3> QED BY <3>1, <3>2
  <2> QED BY <2>1, <2>2, <2>3
<1>3. step'.phase = "alloc" /\ step'.req_index = step.req_index
  BY <1>1, <1>2 DEF TryToAllocate, Locals
<1> QED BY <1>1, <1>3 DEF HeadInHand

\* The step does not give up on the head of the list: it outranks everybody, and with
\* nobody running the pool has its blocks.
LEMMA HeadIsNotGivenUp ==
  ASSUME TypeOK, IndexInv, QueueInv, TokensInv, ResourcesInv, EnoughForOne, HeadInHand
  PROVE  ~GiveUpAllocation
<1> SUFFICES ASSUME GiveUpAllocation PROVE FALSE
  OBVIOUS
<1>1. /\ InSchedule /\ RolesInv
      /\ step.req_index \in 1..Len(combined)
      /\ Len(combined) \in Nat
      /\ step.request = combined[1] /\ step.request \in Req /\ 1 \in 1..Len(combined)
  BY InHandIsListed DEF GiveUpAllocation, HeadInHand
<1>2. /\ Phase("alloc") /\ ~FitsNow
      /\ last_running_idx # None => Outranks(combined[last_running_idx], combined[1])
  BY <1>1 DEF GiveUpAllocation
<1>3. /\ Exact /\ \A i \in 1..Len(combined) : combined[i] \in Req
      /\ \A q \in Range(combined) : \E i \in 1..Len(combined) : q = combined[i]
      /\ Range(combined) = { q \in Req : status[q] \in Queued }
  BY <1>1, DuringSchedule
<1>4. last_running_idx = None
  <2> SUFFICES ASSUME last_running_idx # None PROVE FALSE
    OBVIOUS
  <2>1. last_running_idx \in 1..Len(combined)
    BY <1>3 DEF Exact, IsLast, None
  <2>2. 1 < last_running_idx => priority[combined[1]] < priority[combined[last_running_idx]]
    BY <1>1, <2>1 DEF QueueInv, CombinedIsStrictlySorted, InSchedule
  <2>3. priority[combined[last_running_idx]] < priority[combined[1]]
    BY <1>2 DEF Outranks
  <2>4. priority[combined[1]] \in Int /\ priority[combined[last_running_idx]] \in Int
    BY <1>1, <1>3, <2>1 DEF TypeOK, RequestsTypeOK
  <2> QED BY <1>1, <2>1, <2>2, <2>3, <2>4
<1>5. \A i \in 1..Len(combined) : combined[i] \notin running_req_ids
  BY <1>1, <1>3, <1>4 DEF Exact, IsLast, None
<1>6. \A q \in Req : status[q] # "RUNNING"
  <2> SUFFICES ASSUME NEW q \in Req, status[q] = "RUNNING" PROVE FALSE
    OBVIOUS
  <2>0. step.phase \in {"loop", "alloc", "commit"}
    BY DEF HeadInHand
  <2>1. q \in Range(combined)
    BY <1>3 DEF Queued
  <2>2. q \in running_req_ids
    BY <1>1, <2>0, <2>1 DEF RolesInv
  <2> QED BY <1>3, <1>5, <2>1, <2>2
<1> QED BY <1>2, <1>6, AloneFitsNow

\* Until it has scheduled something such a step has its head in hand.
LEMMA NextHead ==
  ASSUME EveryImageFits, NothingBreaksOff, EnoughForOne,
         TypeOK, TypeOK', IndexInv, QueueInv, InFlightInv, TokensInv, ResourcesInv,
         CaughtUpInv, HeadInv, [SchedulerNext]_vars
  PROVE  HeadInv'
<1> SUFFICES ASSUME NothingScheduledYet' PROVE HeadInHand'
  BY DEF HeadInv
<1>1. step'.phase # "idle" /\ failed_assertion' = "none"
  BY DEF NothingScheduledYet, InSchedule
<1>2. CASE BeginSchedule
  <2>1. /\ CombineQueues(running, {r \in running : status[r] = "PREEMPTED"}, waiting, priority')
        /\ step.phase = "idle" /\ failed_assertion = "none"
        /\ step'.phase = "loop" /\ step'.req_index = 1
    BY <1>2 DEF BeginSchedule, BetweenSteps, Phase, Idle
  <2>2. preempted_req_ids' = {}
    BY <2>1 DEF CombineQueues, QueueInv, QueuesMatchStatus
  <2> QED BY <2>1, <2>2 DEF HeadInHand
<1>3. CASE ClientStep \/ UpdateFromOutput
  BY <1>1, <1>3 DEF ClientStep, AddRequest, AbortRequest, SetPauseState, ResetPrefixCache,
                    BetweenSteps, Phase, UpdateFromOutput
<1>4. ASSUME UNCHANGED <<combined, pause_state, batch_queue>>, InSchedule, ScheduledReqs = {}
      PROVE  NothingScheduledYet /\ HeadInHand
  BY <1>4 DEF NothingScheduledYet, HeadInv
<1>5. CASE EndLoop \/ GiveUpAllocation \/ EndTail \/ ScheduleRaises
  <2>1. ~ScheduleRaises
    BY <1>1 DEF ScheduleRaises
  <2>2. /\ UNCHANGED <<combined, pause_state, batch_queue>> /\ InSchedule
        /\ step.num_scheduled_tokens = step'.num_scheduled_tokens
    BY <1>5, <2>1 DEF EndLoop, GiveUpAllocation, EndTail, queueManagerVars, engineVars,
                      Phase, InSchedule, TypeOK, StepTypeOK, Locals
  <2>3. NothingScheduledYet /\ HeadInHand
    BY <1>4, <2>2 DEF NothingScheduledYet, ScheduledReqs
  <2>4. ~EndTail
    BY <2>3 DEF HeadInHand, EndTail, Phase
  <2>5. ~GiveUpAllocation
    BY <2>3, HeadIsNotGivenUp
  <2>6. ~EndLoop
    <3>1. /\ step.token_budget > 0 /\ Len(combined) \in Nat /\ combined \in Seq(Req)
          /\ (step.phase = "loop" => preempted_req_ids = step.preempted_req_ids)
      BY <2>2, <2>3, BudgetIsWhole, DuringSchedule
         DEF ResourcesInv, QueueInv, LoopInv, InSchedule, Roles
    <3>2. 1 <= Len(combined)
      BY <2>3, <3>1, EmptySeq DEF NothingScheduledYet
    <3> QED BY <2>3, <3>1, <3>2 DEF HeadInHand, EndLoop, Phase
  <2> QED BY <1>5, <2>1, <2>4, <2>5, <2>6
<1>6. ASSUME NEW r \in Req, SkipMaxTokensInFlight(r) \/ ConsiderRunning(r) \/ ConsiderWaiting(r)
      PROVE  HeadInHand'
  <2>1. /\ UNCHANGED <<combined, pause_state, batch_queue>> /\ InSchedule /\ Current(r)
    BY <1>6 DEF SkipMaxTokensInFlight, ConsiderRunning, ConsiderWaiting, Current,
                queueManagerVars, engineVars, Phase, InSchedule
  <2>2. step'.num_scheduled_tokens = step.num_scheduled_tokens
    <3>1. step \in Locals
      BY DEF TypeOK, StepTypeOK
    <3>2. \/ step' = PassedOver(step) \/ step' = [step EXCEPT !.phase = "commit"]
          \/ \E outcome : TryToAllocate(r, outcome)
      BY <1>6 DEF SkipMaxTokensInFlight, ConsiderRunning, ConsiderWaiting
    <3> QED BY <3>1, <3>2 DEF PassedOver, TryToAllocate, Locals
  <2>3. NothingScheduledYet /\ HeadInHand
    BY <1>4, <2>1, <2>2 DEF NothingScheduledYet, ScheduledReqs
  <2> QED BY <1>6, <2>3, HeadIsConsidered DEF NothingScheduledYet
<1>7. ASSUME NEW r \in Req, ScheduleRunning(r) \/ ScheduleWaiting(r)
      PROVE  FALSE
  <2>1. /\ step.num_new_tokens \in 1 .. step.token_budget /\ step.token_budget \in Int
        /\ step \in Locals
    BY <1>7 DEF ScheduleRunning, ScheduleWaiting, Phase, TokensInv, BudgetInv,
                TypeOK, StepTypeOK, Locals
  <2> DEFINE local == Scheduled(r, step)
  <2>2. local \in Locals
    BY <2>1, LocalsTypes
  <2>5. local.num_scheduled_tokens[r] = step.num_new_tokens
    BY <2>1 DEF Scheduled, Locals
  <2>3. \/ step' = [local EXCEPT !.scheduled_running_reqs = @ \cup {r}]
        \/ step' = [local EXCEPT !.scheduled_resumed_reqs =
                      IF status[r] = "PREEMPTED" THEN @ \cup {r} ELSE @]
    BY <1>7 DEF ScheduleRunning, ScheduleWaiting
  <2> HIDE DEF local
  <2>4. step'.num_scheduled_tokens[r] > 0
    BY <2>1, <2>2, <2>3, <2>5 DEF Locals
  <2> QED BY <2>4 DEF NothingScheduledYet, ScheduledReqs
<1>8. ASSUME NEW r \in Req, PreemptLastRunning(r) \/ PreemptUnreached(r)
      PROVE  HeadInHand'
  <2>1. /\ InSchedule /\ Preempt(r)
    BY <1>8 DEF PreemptLastRunning, PreemptUnreached, Phase, InSchedule
  <2>2. /\ combined' = combined /\ UNCHANGED <<pause_state, batch_queue>>
    BY <2>1 DEF Preempt, UpdateIdxsAfterPreemption, queueManagerVars, engineVars
  <2>3. step'.num_scheduled_tokens = step.num_scheduled_tokens
    BY <1>8, VictimIsUnscheduled
  <2>4. NothingScheduledYet /\ HeadInHand
    BY <1>4, <2>1, <2>2, <2>3 DEF NothingScheduledYet, ScheduledReqs
  <2>5. PreemptLastRunning(r)
    BY <1>8, <2>4 DEF HeadInHand, PreemptUnreached, Phase
  <2>6. r # combined[1] /\ r = combined[last_running_idx] /\ last_running_idx # None
    BY <2>5, HeadIsNotLastRunning DEF PreemptLastRunning
  <2>7. /\ step.request = combined[1]
        /\ step.req_index \in 1..Len(combined)
    BY <2>4, <2>5, InHandIsListed DEF PreemptLastRunning, HeadInHand
  <2>8. preempted_req_ids' = preempted_req_ids \cup {r}
    BY <2>1, <2>6 DEF Preempt, UpdateIdxsAfterPreemption
  <2>9. r \notin step.scheduled_running_reqs
    <3>1. LoopInv /\ Len(combined) \in Nat
      BY <2>1, <2>4, DuringSchedule DEF QueueInv, InSchedule
    <3> QED BY <2>4, <3>1 DEF LoopInv, HeadInHand
  <2>10. step'.phase = "alloc" /\ step'.req_index = step.req_index
    <3>1. step' = [step EXCEPT !.preempted_req_ids = @ \cup {r}] /\ step.phase = "alloc"
      BY <2>5, <2>6, <2>7, <2>9 DEF PreemptLastRunning, Unscheduled, Phase
    <3> QED BY <3>1 DEF TypeOK, StepTypeOK, Locals
  <2> QED BY <2>2, <2>4, <2>6, <2>8, <2>10 DEF HeadInHand
<1>9. CASE CommitSchedule
  BY <1>1, <1>9 DEF CommitSchedule, Idle
<1>10. CASE UNCHANGED vars
  BY <1>10 DEF vars, queueManagerVars, engineVars, HeadInv, HeadInHand, NothingScheduledYet,
               InSchedule, ScheduledReqs
<1> QED BY <1>2, <1>3, <1>5, <1>6, <1>7, <1>8, <1>9, <1>10, NothingIsIgnored
        DEF SchedulerNext, EngineStep, ScheduleStep, EngineIdle, EngineDead

\* With nothing in flight, an unpaused step that finds a request in the list schedules
\* something, whatever blocks the requests hold: it never preempts its way to an empty
\* batch.
THEOREM NoStepIsEmpty ==
  ASSUME "reset" \notin ClientOps, DistinctArrivals, EnoughForOne, NothingBreaksOff
  PROVE  SchedulerSpec => []NoEmptyStep
<1>1. EveryImageFits
  BY SchedulerAssumption DEF NothingBreaksOff, EveryImageFits
<1>2. SchedulerInit => HeadInv
  BY DEF SchedulerInit, HeadInv, NothingScheduledYet, InSchedule, Idle
<1>3. TypeOK /\ IndexInv /\ QueueInv /\ InFlightInv /\ TokensInv /\ CaughtUpInv
        /\ [SchedulerNext]_vars
        => CaughtUpInv'
  BY <1>1, NextCaughtUp
<1>4. TypeOK /\ TypeOK' /\ IndexInv /\ QueueInv /\ InFlightInv /\ TokensInv /\ ResourcesInv
        /\ CaughtUpInv /\ HeadInv /\ [SchedulerNext]_vars
        => HeadInv'
  BY <1>1, NextHead
<1>5. HeadInv => NoEmptyStep
  <2> SUFFICES ASSUME HeadInv, Phase("commit"), pause_state # "PAUSED_ALL",
                      batch_queue = <<>>, NEW r \in Range(combined), ScheduledReqs = {}
               PROVE  FALSE
    BY DEF NoEmptyStep
  <2>1. combined # <<>>
    BY DEF Range
  <2> QED BY <2>1 DEF HeadInv, NothingScheduledYet, HeadInHand, InSchedule, Phase
<1>6. SchedulerSpec => [](TypeOK /\ IndexInv /\ QueueInv /\ InFlightInv /\ TokensInv)
  BY <1>1, TokensInductive
<1>7. SchedulerSpec => [](TypeOK /\ IndexInv /\ QueueInv /\ TokensInv /\ ResourcesInv)
  BY <1>1, ResourcesInductive
<1> QED BY <1>2, <1>3, <1>4, <1>5, <1>6, <1>7, InitCaughtUp, PTL DEF SchedulerSpec
=============================================================================
