----------------------------- MODULE BlockPool ------------------------------
(***************************************************************************)
(* The pool of KV-cache blocks (BlockPool): reference counts, the queue of *)
(* free blocks in the order of their eviction, and the map from hashes to  *)
(* the blocks that hold what was hashed.  Its methods run one after the    *)
(* other inside allocate_slots and free, so they are operators on the      *)
(* state of the pool, a record, and a caller composes them.                *)
(*                                                                         *)
(* A free block keeps its hash, and can be hit, until it is handed out     *)
(* again.  Equal blocks are not merged: a hash maps to a list of blocks in *)
(* the order in which they were inserted.                                  *)
(***************************************************************************)
EXTENDS Naturals, FiniteSets, SequencesExt, FiniteSetsExt

CONSTANTS
  NumBlocks,    \* num_gpu_blocks; block 0 is the null block
  Hashes        \* the hashes of full blocks

ASSUME NumBlocksAssumption == NumBlocks \in Nat \ {0}

NullBlock == 0
Blocks == 1 .. NumBlocks - 1     \* the blocks that are handed out
NoHash == <<>>

ASSUME NoHashIsNoHash == NoHash \notin Hashes

\* The order of the free blocks is the order of eviction, by block at first.
EmptyPool ==
  [ref_cnt |-> [b \in Blocks |-> 0],
   block_hash |-> [b \in Blocks |-> NoHash],
   free_block_queue |-> [i \in 1 .. NumBlocks - 1 |-> i],
   cached |-> [h \in Hashes |-> <<>>]]

NumFreeBlocks(pool) == Len(pool.free_block_queue)

\* The first block with this hash, if there is one.
IsCached(pool, h) == pool.cached[h] # <<>>
CachedBlock(pool, h) == Head(pool.cached[h])

\* The blocks of seq that are not in the set bs, in their order.
Without(seq, bs) ==
  FoldLeft(LAMBDA rest, b : IF b \in bs THEN rest ELSE Append(rest, b), <<>>, seq)

\* Slip: only the queue is told.
TouchedUncounted(pool, bs) ==
  [pool EXCEPT !.free_block_queue = Without(@, bs)]

\* touch: the blocks bs are hit, and are no longer candidates for eviction.
Touched(pool, bs) ==
  [pool EXCEPT
     !.free_block_queue = Without(@, bs),
     !.ref_cnt = [b \in Blocks |-> IF b \in bs THEN @[b] + 1 ELSE @[b]]]

\* Slip: the hash of an evicted block stays in the map.
EvictedFromBlock(pool, bs) ==
  [pool EXCEPT !.block_hash = [b \in Blocks |-> IF b \in bs THEN NoHash ELSE @[b]]]

\* _maybe_evict_cached_block.  A block that is not in the map keeps its hash.
Evicted(pool, bs) ==
  LET known == {b \in bs : pool.block_hash[b] # NoHash
                             /\ b \in ToSet(pool.cached[pool.block_hash[b]])}
  IN  [pool EXCEPT
         !.cached = [h \in Hashes |-> Without(@[h], known)],
         !.block_hash = [b \in Blocks |-> IF b \in known THEN NoHash ELSE @[b]]]

\* get_new_blocks, if there are n of them: the first of the queue.
NewBlocks(pool, n) == SubSeq(pool.free_block_queue, 1, n)
WithoutNewBlocks(pool, n) ==
  LET new == ToSet(NewBlocks(pool, n))
  IN  [Evicted(pool, new) EXCEPT
         !.free_block_queue = SubSeq(@, n + 1, Len(@)),
         !.ref_cnt = [b \in Blocks |-> IF b \in new THEN @[b] + 1 ELSE @[b]]]

\* Slip: the order of the blocks of a request is kept.
FreedFromTheHead(pool, bs) ==
  LET ref_cnt == [b \in Blocks |-> IF b \in ToSet(bs) THEN pool.ref_cnt[b] - 1
                                   ELSE pool.ref_cnt[b]]
  IN  [pool EXCEPT
         !.ref_cnt = ref_cnt,
         !.free_block_queue = @ \o Without(bs, {b \in Blocks : ref_cnt[b] > 0})]

\* The blocks bs of a request are given back (free and free_blocks), the last
\* one first.
Freed(pool, bs) ==
  LET ref_cnt == [b \in Blocks |-> IF b \in ToSet(bs) THEN pool.ref_cnt[b] - 1
                                   ELSE pool.ref_cnt[b]]
  IN  [pool EXCEPT
         !.ref_cnt = ref_cnt,
         !.free_block_queue =
            @ \o Without(Reverse(bs), {b \in Blocks : ref_cnt[b] > 0})]

\* cache_full_blocks: block bs[i] gets the hash hs[i], for i in from+1..to.
WithHashes(pool, bs, hs, from, to) ==
  LET new == from + 1 .. to
  IN  [pool EXCEPT
         !.block_hash = [b \in Blocks |->
            IF \E i \in new : bs[i] = b
            THEN hs[CHOOSE i \in new : bs[i] = b] ELSE @[b]],
         !.cached = [h \in Hashes |->
            IF \E i \in new : hs[i] = h
            THEN Append(@[h], bs[CHOOSE i \in new : hs[i] = h]) ELSE @[h]]]

\* reset_prefix_cache, refused while a block is in use.
Reset(pool) ==
  IF NumFreeBlocks(pool) # NumBlocks - 1 THEN pool
  ELSE [pool EXCEPT !.block_hash = [b \in Blocks |-> NoHash],
                    !.cached = [h \in Hashes |-> <<>>]]

Pools ==
  [ref_cnt : [Blocks -> Nat],
   block_hash : [Blocks -> Hashes \union {NoHash}],
   free_block_queue : Seq(Blocks),
   cached : [Hashes -> Seq(Blocks)]]
=============================================================================
