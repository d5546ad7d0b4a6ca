--------------------------- MODULE KVCacheManager ---------------------------
(***************************************************************************)
(* Prefix caching: KVCacheManager with one group of full-attention layers  *)
(* (UnitaryKVCacheCoordinator, FullAttentionManager) on the pool of        *)
(* BlockPool, and the scheduler reduced to what it does with them.         *)
(*                                                                         *)
(* A step of the scheduler plans tokens for some requests, preempting      *)
(* others, and is then sent to the workers, which write the keys and       *)
(* values of the planned tokens.  What is hit in the cache may be found    *)
(* several preemptions before it is taken, and may belong to blocks that   *)
(* are only written at the end of the step.                                *)
(***************************************************************************)
EXTENDS Integers, BlockPool

CONSTANTS
  Req,
  Text,          \* Text[r]: the tokens of r, with those to be sampled
  PromptLen,
  BlockSize,
  SkipReading,   \* the requests with skip_reading_prefix_cache
  ReserveFullISL,
  Budgets,       \* bound: what may be left of a step's budget for a request
  MaxBatches     \* batches in flight

ASSUME KVCacheAssumption ==
  /\ IsFiniteSet(Req)
  /\ BlockSize \in Nat \ {0}
  /\ \A r \in Req : Text[r] \in Seq(ToSet(Text[r]))
  /\ PromptLen \in [Req -> Nat]
  /\ \A r \in Req : PromptLen[r] \in 1 .. Len(Text[r]) - 1
  /\ SkipReading \subseteq Req
  /\ ReserveFullISL \in BOOLEAN
  /\ Budgets \subseteq Nat \ {0}
  /\ MaxBatches \in Nat \ {0}

VARIABLES
  pool,            \* the BlockPool
  tables,          \* req_to_blocks
  num_cached,      \* num_cached_block, or NotCached
  status,
  num_tokens,      \* known tokens of a request
  num_computed,    \* num_computed_tokens
  placeholders,    \* num_output_placeholders: sampled and not known yet
  plan,            \* num_scheduled_tokens of the step
  admitted,        \* the requests it admits
  preempted,       \* the requests it has preempted
  hand,            \* the waiting request in hand, with its hits
  batches,         \* the requests sampled in each batch in flight
  data             \* what the workers have written into the slots of a block

requestVars == <<status, num_tokens, num_computed, placeholders>>
stepVars == <<plan, admitted, preempted, hand>>
vars == <<pool, tables, num_cached, requestVars, stepVars, batches, data>>

NotCached == -1      \* no entry in num_cached_block
Nothing == [request |-> "none", hits |-> <<>>, tokens |-> 0]
Garbage == <<>>

Ceil(n) == (n + BlockSize - 1) \div BlockSize
Smaller(m, n) == IF m < n THEN m ELSE n

\* The hash of the i-th full block of r stands for all tokens up to its end.
Hash(r, i) == SubSeq(Text[r], 1, i * BlockSize)
BlockHashes(r) == [i \in 1 .. Len(Text[r]) \div BlockSize |-> Hash(r, i)]
AllHashes == UNION {ToSet(BlockHashes(r)) : r \in Req}

ASSUME HashesAssumption == AllHashes \subseteq Hashes

Init ==
  /\ pool = EmptyPool
  /\ tables = [r \in Req |-> <<>>]
  /\ num_cached = [r \in Req |-> NotCached]
  /\ status = [r \in Req |-> "NEW"]
  /\ num_tokens = PromptLen
  /\ num_computed = [r \in Req |-> 0]
  /\ placeholders = [r \in Req |-> 0]
  /\ plan = [r \in Req |-> 0]
  /\ admitted = {}
  /\ preempted = {}
  /\ hand = Nothing
  /\ batches = <<>>
  /\ data = [b \in Blocks |-> [j \in 1 .. BlockSize |-> Garbage]]

-----------------------------------------------------------------------------
(* KVCacheManager *)

\* Slip: the last token of a prompt is not kept back.
MaxHitLengthOfAll(r) == num_tokens[r]
MaxHitLength(r) == num_tokens[r] - 1

\* find_longest_cache_hit: as many blocks of r from the first on as are cached.
NumHits(r) ==
  LET longest == MaxHitLength(r) \div BlockSize
      Hit(n) == \A i \in 1 .. n : IsCached(pool, Hash(r, i))
  IN  Max({n \in 0 .. longest : Hit(n)})

\* get_computed_blocks
ComputedBlocks(r) ==
  IF r \in SkipReading THEN <<>>
  ELSE [i \in 1 .. NumHits(r) |-> CachedBlock(pool, Hash(r, i))]

\* get_num_blocks_to_allocate: a hit that nobody holds leaves the free queue too.
NumBlocksToAllocate(r, hits, tokens) ==
  IF num_cached[r] # NotCached THEN Max({Ceil(tokens) - Len(tables[r]), 0})
  ELSE Max({Ceil(tokens) - Len(hits) - Len(tables[r]), 0})
         + Cardinality({b \in ToSet(hits) : pool.ref_cnt[b] = 0})

\* The two checks of allocate_slots, of n tokens after the computed ones.
Fits(r, hits, computed, n, whole) ==
  /\ whole => NumBlocksToAllocate(r, hits, num_tokens[r]) <= NumFreeBlocks(pool)
  /\ NumBlocksToAllocate(r, hits, computed + n) <= NumFreeBlocks(pool)

\* A token that is not known yet has no hash.
TokensToCache(r, computed, n) == Smaller(computed + n, num_tokens[r])

\* The rest of allocate_slots: the hits are touched, new blocks are handed out,
\* and the blocks that the tokens will fill get their hashes.
AllocateSlots(r, hits, computed, n) ==
  LET touched == Touched(pool, ToSet(hits))
      held == tables[r] \o hits
      num_new == Max({Ceil(computed + n) - Len(held), 0})
      blocks == held \o NewBlocks(touched, num_new)
      cached_before ==
        IF num_cached[r] # NotCached THEN num_cached[r] ELSE Len(hits)
      full == TokensToCache(r, computed, n) \div BlockSize
      grown == WithoutNewBlocks(touched, num_new)
  IN  /\ tables' = [tables EXCEPT ![r] = blocks]
      /\ pool' = WithHashes(grown, blocks, BlockHashes(r), cached_before, full)
      /\ num_cached' = [num_cached EXCEPT ![r] =
           IF full > cached_before THEN full
           ELSE IF hits # <<>> THEN Len(hits) ELSE @]

\* cache_blocks: the full blocks of the first n tokens get their hashes.
PoolCaching(r, n) ==
  WithHashes(pool, tables[r], BlockHashes(r), Max({num_cached[r], 0}), n \div BlockSize)
NumCaching(r, n) ==
  IF n \div BlockSize > Max({num_cached[r], 0}) THEN n \div BlockSize ELSE num_cached[r]

\* free: r gives its blocks back to the pool p.
Free(r, p) ==
  /\ pool' = Freed(p, tables[r])
  /\ tables' = [tables EXCEPT ![r] = <<>>]
  /\ num_cached' = [num_cached EXCEPT ![r] = NotCached]

\* Slip: only the requests of the step are counted.
HoldersInStep == {q \in Req : plan[q] > 0}
Holders == {q \in Req : tables[q] # <<>>}

\* get_num_common_prefix_blocks: how many of the first blocks of r are held by
\* all requests that hold any.
NumCommonPrefixBlocks(r) ==
  LET Common(n) == \A i \in 1 .. n : pool.ref_cnt[tables[r][i]] = Cardinality(Holders)
  IN  Max({n \in 0 .. Len(tables[r]) : Common(n)})

-----------------------------------------------------------------------------
(* The scheduler's step *)

BetweenSteps == plan = [r \in Req |-> 0] /\ preempted = {} /\ hand = Nothing
MayPlan == hand = Nothing /\ Len(batches) < MaxBatches

AddRequest(r) ==
  /\ BetweenSteps
  /\ status[r] = "NEW"
  /\ status' = [status EXCEPT ![r] = "WAITING"]
  /\ UNCHANGED <<pool, tables, num_cached, num_tokens, num_computed, placeholders,
                 stepVars, batches, data>>

\* With the last token in flight there is nothing left to compute.
MaxTokensInFlight(r) ==
  placeholders[r] > 0 /\ num_tokens[r] + placeholders[r] >= Len(Text[r])

Uncomputed(r) == num_tokens[r] + placeholders[r] - num_computed[r]
MayRun(r) ==
  status[r] = "RUNNING" /\ plan[r] = 0 /\ Uncomputed(r) > 0 /\ ~MaxTokensInFlight(r)

\* A running request gets n tokens.
ScheduleRunning(r, n) ==
  /\ MayPlan
  /\ MayRun(r)
  /\ Fits(r, <<>>, num_computed[r], n, FALSE)
  /\ AllocateSlots(r, <<>>, num_computed[r], n)
  /\ plan' = [plan EXCEPT ![r] = n]
  /\ UNCHANGED <<requestVars, admitted, preempted, hand, batches, data>>

\* A waiting request is taken in hand: its hits are looked up once, and the number
\* of its tokens is settled, with n left in the budget.
LookUp(r, n) ==
  /\ MayPlan
  /\ status[r] = "WAITING"
  /\ r \notin preempted
  /\ LET hits == ComputedBlocks(r)
     IN  hand' = [request |-> r, hits |-> hits,
                  tokens |-> Smaller(n, num_tokens[r] - Len(hits) * BlockSize)]
  /\ UNCHANGED <<pool, tables, num_cached, requestVars, plan, admitted, preempted,
                 batches, data>>

HandComputed == Len(hand.hits) * BlockSize
HandFits == Fits(hand.request, hand.hits, HandComputed, hand.tokens, ReserveFullISL)

\* ... and it is scheduled when it fits, whoever was preempted in between.
ScheduleWaiting ==
  /\ hand # Nothing
  /\ HandFits
  /\ AllocateSlots(hand.request, hand.hits, HandComputed, hand.tokens)
  /\ status' = [status EXCEPT ![hand.request] = "RUNNING"]
  /\ num_computed' = [num_computed EXCEPT ![hand.request] = HandComputed]
  /\ plan' = [plan EXCEPT ![hand.request] = hand.tokens]
  /\ admitted' = admitted \union {hand.request}
  /\ hand' = Nothing
  /\ UNCHANGED <<num_tokens, placeholders, preempted, batches, data>>

GiveUpAllocation ==
  /\ hand # Nothing
  /\ ~HandFits
  /\ hand' = Nothing
  /\ UNCHANGED <<pool, tables, num_cached, requestVars, plan, admitted, preempted,
                 batches, data>>

\* Some request cannot be given the tokens it is to have.
OutOfBlocks ==
  IF hand # Nothing THEN ~HandFits
  ELSE \E q \in Req : MayRun(q) /\ \E n \in Budgets :
         ~Fits(q, <<>>, num_computed[q], Smaller(n, Uncomputed(q)), FALSE)

\* Slip: a request that the step has scheduled already.
AnyRunning(r) == status[r] = "RUNNING"

\* With distinct priorities the victim stands behind all that the step has
\* scheduled (QueueInv of SchedulerQueueProofs).
MayBePreempted(r) == status[r] = "RUNNING" /\ plan[r] = 0

Preempt(r) ==
  /\ Len(batches) < MaxBatches
  /\ OutOfBlocks
  /\ MayBePreempted(r)
  /\ Free(r, pool)
  /\ status' = [status EXCEPT ![r] = "WAITING"]
  /\ num_computed' = [num_computed EXCEPT ![r] = 0]
  /\ preempted' = preempted \union {r}
  /\ plan' = [plan EXCEPT ![r] = 0]
  /\ admitted' = admitted \ {r}
  /\ UNCHANGED <<num_tokens, placeholders, hand, batches, data>>

\* The slot of position i of request r.
Slot(r, i) == <<tables[r][Ceil(i)], ((i - 1) % BlockSize) + 1>>

KeysAndValues(r, i) == SubSeq(Text[r], 1, i)

\* The planned positions of r.
Planned(r) == num_computed[r] + 1 .. num_computed[r] + plan[r]

\* The step is sent to the workers, which compute the planned positions of all
\* requests layer by layer, in the order of the batches.  Those with no tokens
\* left to compute are sampled.
Commit ==
  /\ hand = Nothing
  /\ ~BetweenSteps
  /\ data' = [b \in Blocks |-> [j \in 1 .. BlockSize |->
       IF \E r \in Req : \E i \in Planned(r) : Slot(r, i) = <<b, j>>
       THEN LET r == CHOOSE r \in Req : \E i \in Planned(r) : Slot(r, i) = <<b, j>>
            IN  KeysAndValues(r, CHOOSE i \in Planned(r) : Slot(r, i) = <<b, j>>)
       ELSE data[b][j]]]
  /\ num_computed' = [r \in Req |-> num_computed[r] + plan[r]]
  /\ LET sampled == {r \in Req : plan[r] > 0
                       /\ num_computed'[r] = num_tokens[r] + placeholders[r]}
     IN  /\ placeholders' = [r \in Req |->
              IF r \in sampled THEN placeholders[r] + 1 ELSE placeholders[r]]
         /\ batches' = Append(batches, sampled)
  /\ plan' = [r \in Req |-> 0]
  /\ admitted' = {}
  /\ preempted' = {}
  /\ UNCHANGED <<pool, tables, num_cached, status, num_tokens, hand>>

\* The output of the oldest batch: each request of it that is still there has one
\* more token.  The blocks that it fills, unless r has been preempted, get their
\* hashes, and r may stop.  One request at a time.
UpdateFromOutput(r, stop) ==
  /\ BetweenSteps
  /\ batches # <<>>
  /\ r \in Head(batches)
  /\ batches' = IF Head(batches) = {r} THEN Tail(batches)
                ELSE [batches EXCEPT ![1] = @ \ {r}]
  /\ IF status[r] = "FINISHED"
       THEN UNCHANGED <<pool, tables, num_cached, requestVars>>
       ELSE /\ num_tokens' = [num_tokens EXCEPT ![r] = @ + 1]
            /\ placeholders' = [placeholders EXCEPT ![r] = @ - 1]
            /\ LET known == IF status[r] = "RUNNING" THEN num_computed[r] - placeholders'[r] ELSE 0
                   cached == PoolCaching(r, known)
               IN  IF stop \/ num_tokens'[r] = Len(Text[r])
                     THEN /\ Free(r, cached)
                          /\ status' = [status EXCEPT ![r] = "FINISHED"]
                          /\ num_computed' = [num_computed EXCEPT ![r] = 0]
                     ELSE /\ pool' = cached
                          /\ num_cached' = [num_cached EXCEPT ![r] = NumCaching(r, known)]
                          /\ UNCHANGED <<tables, status, num_computed>>
  /\ UNCHANGED <<stepVars, data>>

\* A batch that samples nothing.
EmptyOutput ==
  /\ BetweenSteps
  /\ batches # <<>>
  /\ Head(batches) = {}
  /\ batches' = Tail(batches)
  /\ UNCHANGED <<pool, tables, num_cached, requestVars, stepVars, data>>

Abort(r) ==
  /\ BetweenSteps
  /\ status[r] \in {"WAITING", "RUNNING"}
  /\ Free(r, pool)
  /\ status' = [status EXCEPT ![r] = "FINISHED"]
  /\ num_computed' = [num_computed EXCEPT ![r] = 0]
  /\ UNCHANGED <<num_tokens, placeholders, stepVars, batches, data>>

ResetPrefixCache ==
  /\ BetweenSteps
  /\ pool' = Reset(pool)
  /\ UNCHANGED <<tables, num_cached, requestVars, stepVars, batches, data>>

Next ==
  \/ \E r \in Req :
       \/ AddRequest(r)
       \/ \E n \in Budgets : ScheduleRunning(r, Smaller(n, Uncomputed(r))) \/ LookUp(r, n)
       \/ Preempt(r)
       \/ \E stop \in BOOLEAN : UpdateFromOutput(r, stop)
       \/ Abort(r)
  \/ ScheduleWaiting
  \/ GiveUpAllocation
  \/ Commit
  \/ EmptyOutput
  \/ ResetPrefixCache

Spec == Init /\ [][Next]_vars

-----------------------------------------------------------------------------
TypeOK ==
  /\ pool \in Pools
  /\ tables \in [Req -> Seq(Blocks)]
  /\ num_cached \in [Req -> Nat \union {NotCached}]
  /\ status \in [Req -> {"NEW", "WAITING", "RUNNING", "FINISHED"}]
  /\ num_tokens \in [Req -> Nat]
  /\ num_computed \in [Req -> Nat]
  /\ \A r \in Req : num_tokens[r] \in PromptLen[r] .. Len(Text[r])
  /\ \A r \in Req : num_computed[r] \in 0 .. Len(Text[r])
  /\ placeholders \in [Req -> 0 .. MaxBatches]
  /\ plan \in [Req -> Nat]
  /\ \/ hand = Nothing
     \/ hand \in [request : Req, hits : Seq(Blocks), tokens : Nat \ {0}]
  /\ admitted \subseteq Req
  /\ preempted \subseteq Req
  /\ batches \in Seq(SUBSET Req)

\* Blocks are counted by those who hold them, and the queue of free blocks is
\* exactly the blocks nobody holds, each of them once: none leaks, and none is
\* handed out while a request still attends to it.
RefCountsAreExact ==
  /\ \A r \in Req : IsInjective(tables[r])
  /\ \A b \in Blocks :
       pool.ref_cnt[b] = Cardinality({r \in Req : b \in ToSet(tables[r])})
  /\ IsInjective(pool.free_block_queue)
  /\ ToSet(pool.free_block_queue) = {b \in Blocks : pool.ref_cnt[b] = 0}

\* The map and the blocks agree on the hashes; of a request's blocks exactly those
\* counted as cached have one, and it is the request's own, whoever else
\* computed the block.  A token that is not known yet is in no hash.
HashesAreExact ==
  /\ \A b \in Blocks, h \in Hashes :
       pool.block_hash[b] = h <=> b \in ToSet(pool.cached[h])
  /\ \A h \in Hashes : IsInjective(pool.cached[h])
  /\ \A r \in Req : \A i \in 1 .. Len(tables[r]) :
       pool.block_hash[tables[r][i]] =
         IF num_cached[r] # NotCached /\ i <= num_cached[r] THEN Hash(r, i) ELSE NoHash
  /\ \A r \in Req : num_cached[r] * BlockSize <= num_tokens[r]

\* "If a block hash is not in the cached_block_hash_to_id, the following block
\* hashes are not computed yet for sure": a search that stops at the first miss
\* overlooks nothing, whatever was evicted, shared or computed twice.
ChainsAreUnbroken ==
  \A r \in Req : \A i \in 2 .. Len(BlockHashes(r)) :
    IsCached(pool, Hash(r, i)) => IsCached(pool, Hash(r, i - 1))

\* Cascade attention computes the common prefix once, for all requests of the
\* step: the blocks it is told of are the first blocks of each of them.
CommonPrefixIsShared ==
  \A r, q \in Req : status[r] = "RUNNING" /\ plan[q] > 0 =>
    \A i \in 1 .. NumCommonPrefixBlocks(r) :
      i <= Len(tables[q]) /\ tables[q][i] = tables[r][i]

\* What attention sees of request r: its computed positions, once the step that
\* admits it is on its way.
Visible(r) ==
  IF r \in admitted THEN <<>>
  ELSE [i \in 1 .. num_computed[r] |-> data[Slot(r, i)[1]][Slot(r, i)[2]]]

P == INSTANCE PrivateCaches WITH kv <- [r \in Req |-> Visible(r)]

\* Shared, evicted and rewritten blocks look to each request like a cache of its
\* own: what a hit brings is what the request would have computed, although it
\* was looked up several preemptions before and may have been hashed before it
\* was written.
LookPrivate == P!Spec
=============================================================================
