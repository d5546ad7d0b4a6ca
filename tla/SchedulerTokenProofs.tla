------------------------- MODULE SchedulerTokenProofs ------------------------
(***************************************************************************)
(* Proofs that the scheduler accounts for every token in flight: a request *)
(* has one placeholder, or one token to discard, for each batch in flight  *)
(* that samples it; no budget or counter leaves its range; a request that  *)
(* is resumed has nothing in flight; and nobody computes or samples past   *)
(* its last token.                                                         *)
(*                                                                         *)
(* All four use the invariant of the queues, and with it its hypotheses;   *)
(* the last two hold with at most two batches in flight.                   *)
(*                                                                         *)
(* Three inductive invariants, each resting on the ones before:            *)
(* InFlightInv ties placeholders to batches, TokensInv bounds what may be  *)
(* computed, and FlightInv says where the tokens in flight of a preempted  *)
(* request are.                                                            *)
(***************************************************************************)
EXTENDS SchedulerQueueProofs

-----------------------------------------------------------------------------
(* Counting batches. *)

\* The batches in flight that sample request r, in a queue q of batches.
SampledIn(q, r) == { i \in DOMAIN q : AsyncScheduling /\ r \in q[i].sampled }
InFlight(r) == Cardinality(SampledIn(batch_queue, r))

\* The queue of batches after one was sent, and after one has answered.
LEMMA OneMore ==
  ASSUME NEW q \in Seq(Batches), NEW b \in Batches
  PROVE  /\ Append(q, b) \in Seq(Batches)
         /\ Len(q) \in Nat /\ DOMAIN q = 1 .. Len(q)
         /\ Len(Append(q, b)) = Len(q) + 1
         /\ DOMAIN Append(q, b) = 1 .. (Len(q) + 1)
         /\ \A i \in 1 .. Len(q) : Append(q, b)[i] = q[i]
         /\ Append(q, b)[Len(q) + 1] = b
         /\ \A i \in 1 .. (Len(q) + 1) : i \in 1 .. Len(q) \/ i = Len(q) + 1
<1>1. Append(q, b) \in Seq(Batches) /\ Len(Append(q, b)) = Len(q) + 1
  BY AppendProperties
<1> QED BY <1>1, AppendProperties, LenProperties

LEMMA OneLess ==
  ASSUME NEW q \in Seq(Batches), q # <<>>
  PROVE  /\ Tail(q) \in Seq(Batches)
         /\ Head(q) \in Batches /\ Head(q) = q[1]
         /\ Len(q) \in Nat \ {0} /\ DOMAIN q = 1 .. Len(q)
         /\ Len(Tail(q)) = Len(q) - 1
         /\ DOMAIN Tail(q) = 1 .. (Len(q) - 1)
         /\ \A i \in 1 .. (Len(q) - 1) : i + 1 \in 1 .. Len(q) /\ Tail(q)[i] = q[i + 1]
<1>1. Tail(q) \in Seq(Batches) /\ Len(Tail(q)) = Len(q) - 1 /\ Head(q) \in Batches
  BY HeadTailProperties
<1>2. Len(q) \in Nat \ {0}
  BY EmptySeq
<1> QED BY <1>1, <1>2, HeadTailProperties, LenProperties

\* A batch that is sent counts for the requests it samples.
LEMMA CountAppend ==
  ASSUME NEW q \in Seq(Batches), NEW b \in Batches, NEW r
  PROVE  /\ IsFiniteSet(SampledIn(q, r))
         /\ Cardinality(SampledIn(q, r)) \in 0 .. Len(q)
         /\ Cardinality(SampledIn(Append(q, b), r)) = Cardinality(SampledIn(q, r)) +
              (IF AsyncScheduling /\ r \in b.sampled THEN 1 ELSE 0)
<1>1. /\ Len(q) \in Nat
      /\ DOMAIN q = 1 .. Len(q)
      /\ DOMAIN Append(q, b) = 1 .. (Len(q) + 1)
      /\ \A i \in 1 .. Len(q) : Append(q, b)[i] = q[i]
      /\ Append(q, b)[Len(q) + 1] = b
  BY OneMore
<1>2. SampledIn(q, r) \subseteq 1 .. Len(q)
  BY <1>1 DEF SampledIn
<1>3. /\ IsFiniteSet(SampledIn(q, r))
      /\ Cardinality(SampledIn(q, r)) \in 0 .. Len(q)
  <2>1. IsFiniteSet(1 .. Len(q)) /\ Cardinality(1 .. Len(q)) = Len(q)
    BY <1>1, FS_Interval
  <2>2. /\ IsFiniteSet(SampledIn(q, r))
        /\ Cardinality(SampledIn(q, r)) <= Len(q)
    BY <1>2, <2>1, FS_Subset
  <2> QED BY <1>1, <2>2, FS_CardinalityType
<1>4. SampledIn(Append(q, b), r) =
        IF AsyncScheduling /\ r \in b.sampled
        THEN SampledIn(q, r) \cup {Len(q) + 1} ELSE SampledIn(q, r)
  <2>1. \A i \in 1 .. (Len(q) + 1) : i \in 1 .. Len(q) \/ i = Len(q) + 1
    BY <1>1
  <2>2. \A i \in 1 .. Len(q) : i \in 1 .. (Len(q) + 1)
    BY <1>1
  <2>3. Len(q) + 1 \in 1 .. (Len(q) + 1)
    BY <1>1
  <2> QED BY <1>1, <2>1, <2>2, <2>3 DEF SampledIn
<1>5. Len(q) + 1 \notin SampledIn(q, r)
  BY <1>1, <1>2
<1>6. Cardinality(SampledIn(q, r) \cup {Len(q) + 1}) = Cardinality(SampledIn(q, r)) + 1
  BY <1>3, <1>5, FS_AddElement
<1> QED BY <1>3, <1>4, <1>6

\* A batch that answers no longer counts.
LEMMA CountTail ==
  ASSUME NEW q \in Seq(Batches), q # <<>>, NEW r
  PROVE  Cardinality(SampledIn(q, r)) = Cardinality(SampledIn(Tail(q), r)) +
           (IF AsyncScheduling /\ r \in Head(q).sampled THEN 1 ELSE 0)
<1> DEFINE S == SampledIn(Tail(q), r)
           T == SampledIn(q, r)
           f == [i \in S |-> i + 1]
<1>1. /\ Len(q) \in Nat \ {0}
      /\ DOMAIN q = 1 .. Len(q)
      /\ Tail(q) \in Seq(Batches) /\ Head(q) \in Batches
      /\ DOMAIN Tail(q) = 1 .. (Len(q) - 1)
      /\ \A i \in 1 .. (Len(q) - 1) : Tail(q)[i] = q[i + 1]
      /\ Head(q) = q[1]
  BY OneLess
<1>2. IsFiniteSet(S) /\ IsFiniteSet(T) /\ Cardinality(S) \in Nat
  <2>1. IsFiniteSet(S) /\ IsFiniteSet(T)
    BY <1>1, CountAppend
  <2> QED BY <2>1, FS_CardinalityType
<1>3. S \subseteq 1 .. (Len(q) - 1)
  BY <1>1 DEF SampledIn
<1>4. \A i \in S : i + 1 \in T \ {1}
  BY <1>1, <1>3 DEF SampledIn
<1>5. \A j \in T \ {1} : j - 1 \in S /\ j = (j - 1) + 1
  <2> SUFFICES ASSUME NEW j \in T \ {1} PROVE j - 1 \in S /\ j = (j - 1) + 1
    OBVIOUS
  <2>1. j \in 1 .. Len(q) /\ j # 1 /\ AsyncScheduling /\ r \in q[j].sampled
    BY <1>1 DEF SampledIn
  <2>2. j - 1 \in 1 .. (Len(q) - 1) /\ j = (j - 1) + 1
    BY <1>1, <2>1
  <2>3. Tail(q)[j - 1] = q[j]
    BY <1>1, <2>2
  <2> QED BY <1>1, <2>1, <2>2, <2>3 DEF SampledIn
<1> HIDE DEF S, T
<1>6. f \in Bijection(S, T \ {1})
  <2>1. f \in [S -> T \ {1}]
    BY <1>4
  <2>2. \A i, j \in S : f[i] = f[j] => i = j
    BY <1>1, <1>3
  <2>3. \A j \in T \ {1} : \E i \in S : f[i] = j
    BY <1>5
  <2> QED BY <2>1, <2>2, <2>3 DEF Bijection, Injection, Surjection, IsInjective
<1>7. Cardinality(T \ {1}) = Cardinality(S)
  BY <1>2, <1>6, FS_Bijection DEF ExistsBijection
<1>8. 1 \in T <=> AsyncScheduling /\ r \in Head(q).sampled
  BY <1>1 DEF T, SampledIn
<1>9. Cardinality(T \ {1}) = IF 1 \in T THEN Cardinality(T) - 1 ELSE Cardinality(T)
  BY <1>2, FS_RemoveElement
<1>10. Cardinality(T) \in Nat
  BY <1>2, FS_CardinalityType
<1>11. Cardinality(T) = Cardinality(S) +
         (IF AsyncScheduling /\ r \in Head(q).sampled THEN 1 ELSE 0)
  BY <1>2, <1>7, <1>8, <1>9, <1>10
<1> QED BY <1>11 DEF S, T

-----------------------------------------------------------------------------
(* Tokens in flight. *)

\* What a batch samples it has scheduled, and nothing is to be discarded, as no cache
\* is reset.  A known request has a placeholder for each batch that samples it.
PlaceholdersInv ==
  /\ \A i \in DOMAIN batch_queue : batch_queue[i].sampled \subseteq batch_queue[i].scheduled
  /\ \A r \in Req : async_tokens_to_discard[r] = 0
  /\ \A r \in Req : num_output_placeholders[r] = IF r \in requests THEN InFlight(r) ELSE 0

InFlightInv == failed_assertion = "none" => PlaceholdersInv

\* What update_from_output does to the tokens of each request: those of `discarded'
\* lose a token to discard, those of `extended' gain a token, and some of these stop.
Answered(discarded, extended, stopped) ==
  /\ discarded \cup extended =
       Head(batch_queue).sampled \cap Head(batch_queue).scheduled \cap Unfinished
  /\ \A r \in discarded : async_tokens_to_discard[r] > 0
  /\ \A r \in extended : ~(async_tokens_to_discard[r] > 0)
  /\ stopped \subseteq extended
  /\ \A r \in extended \ stopped :
       NumTokens(r) + 1 < MaxModelLen /\ num_output_tokens[r] + 1 < MaxTokens[r]
  /\ \A r \in Req :
       /\ r \notin stopped => status'[r] = status[r]
       /\ r \in stopped => status'[r] \in {"FINISHED_STOPPED", "FINISHED_LENGTH_CAPPED"}
       /\ num_output_tokens'[r] = num_output_tokens[r] + (IF r \in extended THEN 1 ELSE 0)
       /\ num_output_placeholders'[r] =
            IF r \in stopped THEN 0
            ELSE num_output_placeholders[r]
                   - (IF r \in extended /\ AsyncScheduling THEN 1 ELSE 0)
       /\ async_tokens_to_discard'[r] =
            IF r \in stopped THEN 0
            ELSE async_tokens_to_discard[r] - (IF r \in discarded THEN 1 ELSE 0)
       /\ num_computed_tokens'[r] = IF r \in stopped THEN 0 ELSE num_computed_tokens[r]
  /\ running' \subseteq running /\ waiting' \subseteq waiting

LEMMA OutputEffects ==
  ASSUME TypeOK, UpdateFromOutput
  PROVE  \E discarded \in SUBSET Req, extended \in SUBSET Req, stopped \in SUBSET Req :
           Answered(discarded, extended, stopped)
<1> DEFINE batch == Head(batch_queue)
           live == batch.scheduled \cap Unfinished
           sampled == batch.sampled \cap live
           discarded == Discarded(sampled)
           extended == sampled \ discarded
           capped == { r \in extended : \/ NumTokens(r) + 1 >= MaxModelLen
                                        \/ num_output_tokens[r] + 1 >= MaxTokens[r] }
<1>1. batch \in Batches
  BY OneLess DEF UpdateFromOutput, TypeOK, QueuesTypeOK
<1>2. /\ sampled = batch.sampled \cap batch.scheduled \cap Unfinished
      /\ sampled \subseteq Req
      /\ discarded = { r \in sampled : async_tokens_to_discard[r] > 0 }
  BY <1>1 DEF Batches, Discarded
<1>3. PICK eos \in SUBSET extended :
        LET stopped == eos \cup capped
        IN  /\ status' = [r \in Req |->
                 IF r \in eos THEN "FINISHED_STOPPED"
                 ELSE IF r \in capped THEN "FINISHED_LENGTH_CAPPED"
                 ELSE status[r]]
            /\ num_output_tokens' = [r \in Req |->
                 IF r \in extended THEN num_output_tokens[r] + 1
                 ELSE num_output_tokens[r]]
            /\ num_output_placeholders' = PlaceholdersAfterOutput(extended, stopped)
            /\ async_tokens_to_discard' = [r \in Req |->
                 IF r \in stopped THEN 0
                 ELSE IF r \in discarded THEN async_tokens_to_discard[r] - 1
                 ELSE async_tokens_to_discard[r]]
            /\ num_computed_tokens' = Zeroed(num_computed_tokens, stopped)
            /\ running' \subseteq running
            /\ waiting' \subseteq waiting
  BY DEF UpdateFromOutput
<1> DEFINE stopped == eos \cup capped
<1>4. /\ discarded \cup extended = sampled
      /\ stopped \subseteq extended
      /\ discarded \subseteq Req /\ extended \subseteq Req
  BY <1>2
<1>5. /\ \A r \in discarded : async_tokens_to_discard[r] > 0
      /\ \A r \in extended : ~(async_tokens_to_discard[r] > 0)
  BY <1>2
<1>6. \A r \in extended \ stopped :
        NumTokens(r) + 1 < MaxModelLen /\ num_output_tokens[r] + 1 < MaxTokens[r]
  <2> SUFFICES ASSUME NEW r \in extended \ stopped
               PROVE  NumTokens(r) + 1 < MaxModelLen /\ num_output_tokens[r] + 1 < MaxTokens[r]
    OBVIOUS
  <2>1. r \in Req /\ r \notin capped /\ r \in extended
    BY <1>4
  <2>2. /\ NumTokens(r) \in Int /\ num_output_tokens[r] \in Int
        /\ MaxModelLen \in Int /\ MaxTokens[r] \in Int
    BY <2>1, SchedulerAssumption DEF NumTokens, TypeOK, RequestsTypeOK
  <2> QED BY <2>1, <2>2
<1>7. /\ num_output_tokens \in [Req -> Nat]
      /\ num_output_placeholders \in [Req -> Int]
      /\ async_tokens_to_discard \in [Req -> Int]
      /\ num_computed_tokens \in [Req -> Int]
  BY DEF TypeOK, RequestsTypeOK
<1> HIDE DEF discarded, extended, capped, stopped
<1>8. /\ status' = [r \in Req |->
           IF r \in eos THEN "FINISHED_STOPPED"
           ELSE IF r \in capped THEN "FINISHED_LENGTH_CAPPED"
           ELSE status[r]]
      /\ num_output_tokens' = [r \in Req |->
           IF r \in extended THEN num_output_tokens[r] + 1
           ELSE num_output_tokens[r]]
      /\ num_output_placeholders' = PlaceholdersAfterOutput(extended, stopped)
      /\ async_tokens_to_discard' = [r \in Req |->
           IF r \in stopped THEN 0
           ELSE IF r \in discarded THEN async_tokens_to_discard[r] - 1
           ELSE async_tokens_to_discard[r]]
      /\ num_computed_tokens' = Zeroed(num_computed_tokens, stopped)
  BY <1>3 DEF stopped
<1>9. \A r \in Req :
        /\ r \notin stopped => status'[r] = status[r]
        /\ r \in stopped => status'[r] \in {"FINISHED_STOPPED", "FINISHED_LENGTH_CAPPED"}
  BY <1>8 DEF stopped
<1>10. \A r \in Req :
        /\ num_output_tokens'[r] = num_output_tokens[r] + (IF r \in extended THEN 1 ELSE 0)
        /\ num_output_placeholders'[r] =
             IF r \in stopped THEN 0
             ELSE num_output_placeholders[r]
                    - (IF r \in extended /\ AsyncScheduling THEN 1 ELSE 0)
        /\ async_tokens_to_discard'[r] =
             IF r \in stopped THEN 0
             ELSE async_tokens_to_discard[r] - (IF r \in discarded THEN 1 ELSE 0)
        /\ num_computed_tokens'[r] = IF r \in stopped THEN 0 ELSE num_computed_tokens[r]
  BY <1>7, <1>8 DEF PlaceholdersAfterOutput, Zeroed
<1>11. discarded \in SUBSET Req /\ extended \in SUBSET Req /\ stopped \in SUBSET Req
  BY <1>4
<1>12. Answered(discarded, extended, stopped)
  BY <1>2, <1>3, <1>4, <1>5, <1>6, <1>9, <1>10 DEF Answered
<1> QED BY <1>11, <1>12

\* What the end of schedule() does to them.
LEMMA CommitEffects ==
  ASSUME TypeOK, CommitSchedule
  PROVE
    \E sampled \in SUBSET ScheduledReqs :
      LET batch == [scheduled |-> ScheduledReqs, sampled |-> sampled]
      IN  /\ batch \in Batches
          /\ batch_queue' = Append(batch_queue, batch)
          /\ \A r \in Req :
               /\ num_computed_tokens'[r] =
                    num_computed_tokens[r] + step.num_scheduled_tokens[r]
               /\ r \in sampled <=>
                    /\ step.num_scheduled_tokens[r] > 0
                    /\ num_computed_tokens'[r] >= NumTokens(r) + num_output_placeholders[r]
               /\ num_output_placeholders'[r] = num_output_placeholders[r]
                    + (IF AsyncScheduling /\ r \in sampled THEN 1 ELSE 0)
<1> DEFINE computed == [r \in Req |->
                     num_computed_tokens[r] + step.num_scheduled_tokens[r]]
           sampled == { r \in ScheduledReqs :
                     computed[r] >= NumTokens(r) + num_output_placeholders[r] }
           batch == [scheduled |-> ScheduledReqs, sampled |-> sampled]
<1>1. /\ num_computed_tokens' = computed
      /\ num_output_placeholders' =
           [r \in Req |-> IF AsyncScheduling /\ r \in sampled
                          THEN num_output_placeholders[r] + 1
                          ELSE num_output_placeholders[r]]
      /\ batch_queue' = Append(batch_queue, batch)
  BY DEF CommitSchedule
<1>2. sampled \subseteq ScheduledReqs /\ ScheduledReqs \subseteq Req
  BY DEF ScheduledReqs
<1>3. \A r \in Req : r \in sampled <=>
        /\ step.num_scheduled_tokens[r] > 0
        /\ computed[r] >= NumTokens(r) + num_output_placeholders[r]
  BY DEF ScheduledReqs
<1>4. num_output_placeholders \in [Req -> Int]
  BY DEF TypeOK, RequestsTypeOK
<1>5. batch \in Batches
  BY <1>2 DEF Batches
<1> HIDE DEF sampled
<1>6. \A r \in Req :
        /\ num_computed_tokens'[r] = num_computed_tokens[r] + step.num_scheduled_tokens[r]
        /\ num_output_placeholders'[r] = num_output_placeholders[r]
             + (IF AsyncScheduling /\ r \in sampled THEN 1 ELSE 0)
  BY <1>1, <1>4
<1> USE <1>2
<1> WITNESS sampled \in SUBSET ScheduledReqs
<1> QED BY <1>1, <1>2, <1>3, <1>5, <1>6

\* Between the failures of assertions the known requests are those of the queues.
LEMMA KnownAreQueued ==
  ASSUME TypeOK, QueueInv, failed_assertion = "none"
  PROVE  /\ requests = running \cup waiting \cup skipped_waiting
         /\ requests = { r \in Req : status[r] \in Queued \cup {Parked} }
         /\ Unfinished = requests
<1>1. QueuesMatchStatus /\ status \in [Req -> Statuses]
  BY DEF QueueInv, TypeOK, RequestsTypeOK
<1>2. \A r \in Req : r \in requests <=> status[r] \in Queued \cup {Parked}
  BY <1>1 DEF QueuesMatchStatus, requests, FinishedStatuses, Statuses, Queued, Parked
<1>3. requests = { r \in Req : status[r] \in Queued \cup {Parked} }
  BY <1>2 DEF requests
<1>4. requests = running \cup waiting \cup skipped_waiting
  BY <1>1, <1>3 DEF QueuesMatchStatus
<1>5. Unfinished = requests
  BY <1>1 DEF Unfinished, requests, QueuesMatchStatus
<1> QED BY <1>3, <1>4, <1>5

LEMMA InitInFlight == SchedulerInit => InFlightInv
BY DEF SchedulerInit, InFlightInv, PlaceholdersInv, requests

\* Inside schedule() nothing is sent, answered, added or forgotten.
LEMMA SteadyInFlight ==
  ASSUME TypeOK, QueueInv, TypeOK', QueueInv', InFlightInv,
         failed_assertion = "none",
         UNCHANGED <<running, waiting, skipped_waiting, num_output_placeholders,
                     async_tokens_to_discard, batch_queue>>
  PROVE  InFlightInv'
<1> SUFFICES ASSUME failed_assertion' = "none" PROVE PlaceholdersInv'
  BY DEF InFlightInv
<1>1. requests = running \cup waiting \cup skipped_waiting
  BY KnownAreQueued
<1>2. QueuesMatchStatus' /\ status' \in [Req -> Statuses]
  BY DEF QueueInv, TypeOK, RequestsTypeOK
<1>3. \A r \in Req : r \in requests' <=> status'[r] \in Queued \cup {Parked}
  BY <1>2 DEF QueuesMatchStatus, requests, FinishedStatuses, Statuses, Queued, Parked
<1>4. requests' = requests
  BY <1>1, <1>2, <1>3 DEF QueuesMatchStatus, requests
<1>5. \A r \in Req : InFlight(r)' = InFlight(r)
  BY DEF InFlight
<1> QED BY <1>4, <1>5 DEF InFlightInv, PlaceholdersInv

\* The samples of a batch that is sent get their placeholders.
LEMMA CommitInFlight ==
  ASSUME TypeOK, QueueInv, TypeOK', QueueInv', InFlightInv, CommitSchedule
  PROVE  InFlightInv'
<1>1. /\ failed_assertion = "none" /\ step.phase = "commit"
      /\ UNCHANGED <<status, async_tokens_to_discard>>
  BY DEF CommitSchedule, Phase
<1>2. PlaceholdersInv /\ ScheduledInv
  BY <1>1 DEF InFlightInv, QueueInv
<1> DEFINE Batch(s) == [scheduled |-> ScheduledReqs, sampled |-> s]
<1>3. PICK sampled \in SUBSET ScheduledReqs :
        /\ Batch(sampled) \in Batches
        /\ batch_queue' = Append(batch_queue, Batch(sampled))
        /\ \A r \in Req : num_output_placeholders'[r] = num_output_placeholders[r]
             + (IF AsyncScheduling /\ r \in sampled THEN 1 ELSE 0)
  BY CommitEffects
<1>4. batch_queue \in Seq(Batches)
  BY DEF TypeOK, QueuesTypeOK
<1>5. \A i \in DOMAIN batch_queue' : batch_queue'[i].sampled \subseteq batch_queue'[i].scheduled
  BY <1>2, <1>3, <1>4, OneMore DEF PlaceholdersInv
<1>6. \A r \in sampled : r \in requests
  <2>1. \A r \in sampled : r \in Req /\ step.num_scheduled_tokens[r] # 0
    BY <1>3 DEF ScheduledReqs, TypeOK, StepTypeOK, Locals
  <2> QED BY <1>1, <1>2, <2>1, KnownAreQueued DEF ScheduledInv, Queued
<1>7. \A r \in Req : InFlight(r)' = InFlight(r)
                       + (IF AsyncScheduling /\ r \in sampled THEN 1 ELSE 0)
  BY <1>3, <1>4, CountAppend DEF InFlight
<1>8. \A r \in Req : num_output_placeholders'[r] = IF r \in requests' THEN InFlight(r)' ELSE 0
  <2>1. requests' = requests
    BY <1>1 DEF requests
  <2> QED BY <1>2, <1>3, <1>6, <1>7, <2>1 DEF PlaceholdersInv
<1> QED BY <1>1, <1>2, <1>5, <1>8 DEF InFlightInv, PlaceholdersInv

\* An answer takes the placeholder of each request it extends, and a request that
\* stops loses all of them.
LEMMA OutputInFlight ==
  ASSUME TypeOK, QueueInv, TypeOK', QueueInv', InFlightInv, UpdateFromOutput
  PROVE  InFlightInv'
<1>1. /\ failed_assertion = "none" /\ failed_assertion' = "none"
      /\ batch_queue # <<>> /\ batch_queue' = Tail(batch_queue)
  BY DEF UpdateFromOutput, Phase
<1>2. PlaceholdersInv /\ batch_queue \in Seq(Batches)
  BY <1>1 DEF InFlightInv, TypeOK, QueuesTypeOK
<1>3. PICK discarded \in SUBSET Req, extended \in SUBSET Req, stopped \in SUBSET Req :
        Answered(discarded, extended, stopped)
  BY OutputEffects
<1>4. discarded = {}
  BY <1>2, <1>3 DEF Answered, PlaceholdersInv
<1>5. extended = Head(batch_queue).sampled \cap requests
  <2>1. Head(batch_queue).sampled \subseteq Head(batch_queue).scheduled
    BY <1>1, <1>2, OneLess DEF PlaceholdersInv
  <2> QED BY <1>1, <1>3, <1>4, <2>1, KnownAreQueued DEF Answered
<1>6. \A r \in Req : InFlight(r)' = InFlight(r)
        - (IF AsyncScheduling /\ r \in Head(batch_queue).sampled THEN 1 ELSE 0)
  <2>1. \A r \in Req : InFlight(r)' \in Int
    <3>1. IsFiniteSet(DOMAIN batch_queue')
      BY <1>1, <1>2, OneLess, FS_Interval
    <3>2. \A r \in Req : SampledIn(batch_queue', r) \in SUBSET (DOMAIN batch_queue')
      BY DEF SampledIn
    <3> QED BY <3>1, <3>2, FS_Subset, FS_CardinalityType DEF InFlight
  <2> QED BY <1>1, <1>2, <2>1, CountTail DEF InFlight
<1>7. requests' = requests \ stopped
  <2>1. \A r \in Req : r \in stopped => r \notin requests'
    BY <1>3 DEF Answered, requests, FinishedStatuses
  <2>2. \A r \in Req : r \notin stopped => (r \in requests' <=> r \in requests)
    BY <1>3 DEF Answered, requests
  <2>3. requests \subseteq Req /\ requests' \subseteq Req
    BY DEF requests
  <2> QED BY <2>1, <2>2, <2>3
<1>8. \A r \in Req : /\ async_tokens_to_discard'[r] = 0
                     /\ num_output_placeholders'[r] = IF r \in requests' THEN InFlight(r)' ELSE 0
  <2> SUFFICES ASSUME NEW r \in Req
               PROVE  /\ async_tokens_to_discard'[r] = 0
                      /\ num_output_placeholders'[r] = IF r \in requests' THEN InFlight(r)' ELSE 0
    OBVIOUS
  <2>1. /\ num_output_placeholders'[r] =
             IF r \in stopped THEN 0
             ELSE num_output_placeholders[r]
                    - (IF r \in extended /\ AsyncScheduling THEN 1 ELSE 0)
        /\ async_tokens_to_discard'[r] =
             IF r \in stopped THEN 0
             ELSE async_tokens_to_discard[r] - (IF r \in discarded THEN 1 ELSE 0)
        /\ stopped \subseteq extended
    BY <1>3 DEF Answered
  <2>2. /\ async_tokens_to_discard[r] = 0
        /\ num_output_placeholders[r] = IF r \in requests THEN InFlight(r) ELSE 0
    BY <1>2 DEF PlaceholdersInv
  <2>3. async_tokens_to_discard'[r] = 0
    <3>1. async_tokens_to_discard'[r] = IF r \in stopped THEN 0 ELSE async_tokens_to_discard[r] - 0
      BY <1>4, <2>1
    <3> QED BY <2>2, <3>1
  <2>4. CASE r \in stopped
    BY <1>3, <1>7, <2>1, <2>3, <2>4
  <2>5. CASE r \notin stopped /\ r \in requests
    BY <1>5, <1>6, <1>7, <2>1, <2>2, <2>3, <2>5
  <2>6. CASE r \notin stopped /\ r \notin requests
    <3>1. r \notin extended /\ r \notin requests'
      BY <1>5, <1>7, <2>6
    <3>2. num_output_placeholders'[r] = num_output_placeholders[r] - 0
      BY <2>1, <2>6, <3>1
    <3> QED BY <2>2, <2>3, <2>6, <3>1, <3>2
  <2> QED BY <2>4, <2>5, <2>6
<1>9. \A i \in DOMAIN batch_queue' : batch_queue'[i].sampled \subseteq batch_queue'[i].scheduled
  BY <1>1, <1>2, OneLess DEF PlaceholdersInv
<1> QED BY <1>8, <1>9 DEF InFlightInv, PlaceholdersInv

\* A request that is added is in no batch, and one that is aborted is forgotten.
LEMMA ClientInFlight ==
  ASSUME "reset" \notin ClientOps, TypeOK, QueueInv, InFlightInv, ClientStep
  PROVE  InFlightInv'
<1>1. /\ failed_assertion = "none" /\ failed_assertion' = "none"
      /\ batch_queue' = batch_queue
  BY DEF ClientStep, AddRequest, AbortRequest, SetPauseState, ResetPrefixCache,
         BetweenSteps, Phase, engineVars
<1>2. /\ PlaceholdersInv /\ BatchesAreKnown
      /\ batch_queue \in Seq(Batches)
      /\ num_output_placeholders \in [Req -> Int]
      /\ async_tokens_to_discard \in [Req -> Int]
      /\ status \in [Req -> Statuses]
  BY <1>1 DEF InFlightInv, QueueInv, QueuesMatchStatus, TypeOK, QueuesTypeOK, RequestsTypeOK
<1>3. \A r \in Req : InFlight(r)' = InFlight(r)
  BY <1>1 DEF InFlight
<1>4. ASSUME NEW r \in Req, AddRequest(r) PROVE PlaceholdersInv'
  <2>1. /\ status[r] = "UNSEEN" /\ status'[r] \in {"WAITING", Parked}
        /\ \A q \in Req \ {r} : status'[q] = status[q]
        /\ UNCHANGED <<num_output_placeholders, async_tokens_to_discard>>
    BY <1>2, <1>4 DEF AddRequest, Parked
  <2>2. r \notin requests /\ \A q \in Req \ {r} : q \in requests' <=> q \in requests
    BY <2>1 DEF requests
  <2>3. SampledIn(batch_queue, r) = {}
    BY <1>2, <2>1, LenProperties DEF BatchesAreKnown, PlaceholdersInv, SampledIn
  <2>4. InFlight(r) = 0
    BY <2>3, FS_EmptySet DEF InFlight
  <2>5. num_output_placeholders'[r] = IF r \in requests' THEN InFlight(r)' ELSE 0
    BY <1>2, <1>3, <2>1, <2>2, <2>4 DEF PlaceholdersInv
  <2> QED BY <1>1, <1>2, <1>3, <2>1, <2>2, <2>5 DEF PlaceholdersInv
<1>5. ASSUME NEW r \in Req, AbortRequest(r) PROVE PlaceholdersInv'
  <2>1. /\ status' = [status EXCEPT ![r] = "FINISHED_ABORTED"]
        /\ num_output_placeholders' = Zeroed(num_output_placeholders, {r})
        /\ async_tokens_to_discard' = Zeroed(async_tokens_to_discard, {r})
    BY <1>5 DEF AbortRequest, FreeRequests
  <2>2. /\ \A q \in Req \ {r} : status'[q] = status[q]
        /\ status'[r] = "FINISHED_ABORTED"
    BY <1>2, <2>1
  <2>3. r \notin requests' /\ \A q \in Req \ {r} : q \in requests' <=> q \in requests
    BY <2>2 DEF requests, FinishedStatuses
  <2> QED BY <1>1, <1>2, <1>3, <2>1, <2>3 DEF PlaceholdersInv, Zeroed
<1>6. ASSUME NEW pause \in {"UNPAUSED", "PAUSED_NEW", "PAUSED_ALL"}, SetPauseState(pause)
      PROVE  PlaceholdersInv'
  <2>1. UNCHANGED <<status, num_output_placeholders, async_tokens_to_discard>>
    BY <1>6 DEF SetPauseState, requestVars
  <2>2. requests' = requests
    BY <2>1 DEF requests
  <2> QED BY <1>1, <1>2, <1>3, <2>1, <2>2 DEF PlaceholdersInv
<1>7. PlaceholdersInv'
  BY <1>4, <1>5, <1>6 DEF ClientStep, ResetPrefixCache
<1> QED BY <1>7 DEF InFlightInv

\* What no step of schedule() but the last one touches.
LEMMA WithinScheduleUnchanged ==
  ASSUME ScheduleStep, ~CommitSchedule
  PROVE  /\ failed_assertion = "none"
         /\ UNCHANGED <<queueVars, engineVars, num_output_tokens,
                        num_output_placeholders, async_tokens_to_discard>>
<1>1. ASSUME NEW r \in Req, \/ SkipMaxTokensInFlight(r) \/ ConsiderRunning(r)
                            \/ IgnoreWaiting(r) \/ ConsiderWaiting(r)
      PROVE  /\ failed_assertion = "none"
             /\ UNCHANGED <<queueVars, engineVars, num_output_tokens,
                            num_output_placeholders, async_tokens_to_discard>>
  BY <1>1 DEF SkipMaxTokensInFlight, ConsiderRunning, IgnoreWaiting, ConsiderWaiting,
              Current, Phase, requestVars
<1>2. ASSUME NEW r \in Req, \/ ScheduleRunning(r) \/ ScheduleWaiting(r)
                            \/ PreemptLastRunning(r) \/ PreemptUnreached(r)
      PROVE  /\ failed_assertion = "none"
             /\ UNCHANGED <<queueVars, engineVars, num_output_tokens,
                            num_output_placeholders, async_tokens_to_discard>>
  BY <1>2 DEF ScheduleRunning, ScheduleWaiting, PreemptLastRunning, PreemptUnreached,
              Preempt, Phase, requestVars
<1>3. CASE BeginSchedule \/ EndLoop \/ GiveUpAllocation \/ EndTail \/ ScheduleRaises
  BY <1>3 DEF BeginSchedule, EndLoop, GiveUpAllocation, EndTail, ScheduleRaises,
              BetweenSteps, Phase, requestVars
<1> QED BY <1>1, <1>2, <1>3 DEF ScheduleStep

\* Every step keeps the placeholders right.
LEMMA NextInFlight ==
  ASSUME "reset" \notin ClientOps, TypeOK, QueueInv, TypeOK', QueueInv', InFlightInv,
         [SchedulerNext]_vars
  PROVE  InFlightInv'
<1>1. CASE ClientStep
  BY <1>1, ClientInFlight
<1>2. CASE UpdateFromOutput
  BY <1>2, OutputInFlight
<1>3. CASE CommitSchedule
  BY <1>3, CommitInFlight
<1>4. CASE ScheduleStep /\ ~CommitSchedule
  BY <1>4, WithinScheduleUnchanged, SteadyInFlight DEF queueVars, engineVars
<1>5. CASE UNCHANGED vars
  <2>1. UNCHANGED <<status, num_output_placeholders, async_tokens_to_discard, batch_queue,
                    failed_assertion>>
    BY <1>5 DEF vars, requestVars, engineVars
  <2>2. requests' = requests
    BY <2>1 DEF requests
  <2> QED BY <2>1, <2>2 DEF InFlightInv, PlaceholdersInv, InFlight
<1> QED BY <1>1, <1>2, <1>3, <1>4, <1>5
        DEF SchedulerNext, EngineStep, EngineIdle, EngineDead

\* InFlightInv holds in every reachable state, with the invariant of the queues.
THEOREM InFlightInductive ==
  ASSUME "reset" \notin ClientOps, DistinctArrivals, EveryImageFits
  PROVE  SchedulerSpec => [](TypeOK /\ IndexInv /\ QueueInv /\ InFlightInv)
<1>1. TypeOK /\ QueueInv /\ TypeOK' /\ QueueInv' /\ InFlightInv /\ [SchedulerNext]_vars
        => InFlightInv'
  BY NextInFlight
<1> QED BY <1>1, InitInFlight, QueuesInductive, PTL DEF SchedulerSpec

\* Whatever is preempted, aborted or stopped while batches are in flight, a known
\* request has exactly one placeholder for each of those that sample it: the count
\* that update_from_output decrements and that schedule() plans with is never off.
THEOREM PlaceholdersMatch ==
  ASSUME "reset" \notin ClientOps, DistinctArrivals, EveryImageFits
  PROVE  SchedulerSpec => []PlaceholdersMatchInFlight
<1>1. TypeOK /\ InFlightInv => PlaceholdersMatchInFlight
  <2> SUFFICES ASSUME TypeOK, InFlightInv, Phase("idle"), NEW r \in requests
               PROVE  num_output_placeholders[r] + async_tokens_to_discard[r]
                        = Cardinality({ i \in DOMAIN batch_queue :
                            AsyncScheduling /\ r \in batch_queue[i].sampled })
    BY DEF PlaceholdersMatchInFlight
  <2>1. /\ async_tokens_to_discard[r] = 0
        /\ num_output_placeholders[r] = InFlight(r)
        /\ num_output_placeholders[r] \in Int
    BY DEF Phase, InFlightInv, PlaceholdersInv, requests, TypeOK, RequestsTypeOK
  <2>2. num_output_placeholders[r] + async_tokens_to_discard[r] = InFlight(r)
    BY <2>1
  <2> QED BY <2>2 DEF InFlight, SampledIn
<1> QED BY <1>1, InFlightInductive, PTL

-----------------------------------------------------------------------------
(* The counters. *)

\* The tokens of r when all batches in flight have answered.
TokensToCome(r) == NumTokens(r) + num_output_placeholders[r]

SignsInv ==
  \A r \in Req : num_output_placeholders[r] >= 0 /\ async_tokens_to_discard[r] >= 0

\* Whoever has not finished may sample at least one more token.
UnfinishedInv ==
  \A r \in Req : status[r] \notin FinishedStatuses =>
    num_output_tokens[r] < MaxTokens[r] /\ NumTokens(r) < MaxModelLen

\* n more tokens of r are tokens it has, or will have, and leave room for another.
MayCompute(r, n) ==
  /\ n >= 0
  /\ num_computed_tokens[r] + n <= TokensToCome(r)
  /\ num_computed_tokens[r] + n <= MaxModelLen - 1

ComputedInv ==
  /\ \A r \in Req : /\ num_computed_tokens[r] >= 0
                    /\ MayCompute(r, step.num_scheduled_tokens[r])
  /\ step.phase = "idle" => \A r \in Req : step.num_scheduled_tokens[r] = 0

BudgetInv ==
  /\ step.token_budget >= 0
  /\ step.encoder_compute_budget >= 0
  /\ step.num_new_tokens >= 0
  /\ step.phase = "alloc" =>
       /\ step.num_new_tokens \in 1 .. step.token_budget
       /\ MayCompute(step.request, step.num_new_tokens)
       /\ step.compute_encoder =>
            EncoderTokens[step.request] <= step.encoder_compute_budget

TokensInv == SignsInv /\ UnfinishedInv /\ ComputedInv /\ BudgetInv

\* The counters are integers.
LEMMA CounterTypes ==
  ASSUME TypeOK, NEW r \in Req
  PROVE  /\ num_computed_tokens[r] \in Int /\ num_output_tokens[r] \in Nat
         /\ num_output_placeholders[r] \in Int /\ async_tokens_to_discard[r] \in Int
         /\ NumTokens(r) \in Nat /\ TokensToCome(r) \in Int
         /\ step.num_scheduled_tokens[r] \in Int
         /\ step.token_budget \in Int /\ step.encoder_compute_budget \in Int
         /\ step.num_new_tokens \in Int
         /\ PromptLen[r] \in Nat \ {0} /\ MaxTokens[r] \in Nat \ {0}
         /\ EncoderTokens[r] \in Nat /\ EncoderStart[r] \in Nat
         /\ MaxModelLen \in Nat \ {0} /\ PromptLen[r] < MaxModelLen
<1>1. /\ num_computed_tokens[r] \in Int /\ num_output_tokens[r] \in Nat
      /\ num_output_placeholders[r] \in Int /\ async_tokens_to_discard[r] \in Int
      /\ step.num_scheduled_tokens[r] \in Int
      /\ step.token_budget \in Int /\ step.encoder_compute_budget \in Int
      /\ step.num_new_tokens \in Int
  BY DEF TypeOK, StepTypeOK, Locals, RequestsTypeOK
<1>2. /\ PromptLen[r] \in Nat \ {0} /\ MaxTokens[r] \in Nat \ {0}
      /\ EncoderTokens[r] \in Nat /\ EncoderStart[r] \in Nat
      /\ MaxModelLen \in Nat \ {0} /\ PromptLen[r] < MaxModelLen
  BY SchedulerAssumption
<1>3. NumTokens(r) \in Nat /\ TokensToCome(r) \in Int
  BY <1>1, <1>2 DEF NumTokens, TokensToCome
<1> QED BY <1>1, <1>2, <1>3

LEMMA InitTokens == SchedulerInit => TokensInv
<1> SUFFICES ASSUME SchedulerInit PROVE TokensInv
  OBVIOUS
<1>1. /\ \A r \in Req : /\ num_computed_tokens[r] = 0 /\ num_output_tokens[r] = 0
                        /\ num_output_placeholders[r] = 0 /\ async_tokens_to_discard[r] = 0
                        /\ step.num_scheduled_tokens[r] = 0
      /\ step.phase = "idle" /\ step.token_budget = 0 /\ step.num_new_tokens = 0
      /\ step.encoder_compute_budget = 0
  BY DEF SchedulerInit, Idle
<1>2. \A r \in Req : /\ PromptLen[r] \in Nat \ {0} /\ MaxTokens[r] \in Nat \ {0}
                     /\ MaxModelLen \in Nat \ {0} /\ PromptLen[r] < MaxModelLen
  BY SchedulerAssumption
<1>3. SignsInv /\ UnfinishedInv
  BY <1>1, <1>2 DEF SignsInv, UnfinishedInv, NumTokens
<1>4. ComputedInv
  BY <1>1, <1>2 DEF ComputedInv, MayCompute, TokensToCome, NumTokens
<1> QED BY <1>1, <1>3, <1>4 DEF TokensInv, BudgetInv

\* Placeholders are counts, as long as no assertion has failed.
LEMMA InFlightGivesSigns ==
  ASSUME TypeOK, InFlightInv, failed_assertion = "none"
  PROVE  SignsInv
<1>1. IsFiniteSet(DOMAIN batch_queue)
  BY FS_Interval, LenProperties DEF TypeOK, QueuesTypeOK
<1>2. \A r \in Req : InFlight(r) \in Nat
  <2>1. \A r \in Req : SampledIn(batch_queue, r) \in SUBSET (DOMAIN batch_queue)
    BY DEF SampledIn
  <2> QED BY <1>1, <2>1, FS_Subset, FS_CardinalityType DEF InFlight
<1> QED BY <1>2 DEF InFlightInv, PlaceholdersInv, SignsInv

\* schedule() finishes no request.
LEMMA NobodyFinishes ==
  ASSUME EveryImageFits, TypeOK, IndexInv, QueueInv, ScheduleStep
  PROVE  \A r \in Req : \/ status'[r] = status[r]
                        \/ status[r] \in Queued /\ status'[r] \in {"RUNNING", "PREEMPTED"}
<1>1. CASE BeginSchedule \/ EndLoop \/ GiveUpAllocation \/ EndTail \/ CommitSchedule
           \/ ScheduleRaises
  BY <1>1 DEF BeginSchedule, EndLoop, GiveUpAllocation, EndTail, CommitSchedule,
              ScheduleRaises, requestVars
<1>2. ASSUME NEW q \in Req, \/ SkipMaxTokensInFlight(q) \/ ConsiderRunning(q)
                            \/ ConsiderWaiting(q) \/ ScheduleRunning(q)
      PROVE  status' = status
  BY <1>2 DEF SkipMaxTokensInFlight, ConsiderRunning, ConsiderWaiting, ScheduleRunning,
              requestVars
<1>3. status \in [Req -> Statuses]
  BY DEF TypeOK, RequestsTypeOK
<1>4. ASSUME InSchedule, NEW i \in 1 .. Len(combined)
      PROVE  combined[i] \in Req /\ status[combined[i]] \in Queued
  BY <1>4, DuringSchedule
<1>5. ASSUME NEW q \in Req, ScheduleWaiting(q)
      PROVE  /\ status[q] \in Queued
             /\ status' = [status EXCEPT ![q] = "RUNNING"]
  <2>1. q = step.request /\ Phase("alloc") /\ status' = [status EXCEPT ![q] = "RUNNING"]
    BY <1>5 DEF ScheduleWaiting
  <2> QED BY <1>4, <2>1, InHandIsListed
<1>6. ASSUME NEW q \in Req, PreemptLastRunning(q)
      PROVE  /\ status[q] \in Queued
             /\ status' = [status EXCEPT ![q] = "PREEMPTED"]
  <2>1. /\ InSchedule /\ last_running_idx # None /\ q = combined[last_running_idx]
        /\ status' = [status EXCEPT ![q] = "PREEMPTED"]
    BY <1>6 DEF PreemptLastRunning, Preempt, Phase, InSchedule
  <2>2. last_running_idx \in 1 .. Len(combined)
    BY <2>1, LenProperties DEF TypeOK, QueueManagerTypeOK, None
  <2> QED BY <1>4, <2>1, <2>2
<1>7. ASSUME NEW q \in Req, PreemptUnreached(q)
      PROVE  /\ status[q] \in Queued
             /\ status' = [status EXCEPT ![q] = "PREEMPTED"]
  BY <1>7 DEF PreemptUnreached, Preempt, Queued
<1> QED BY <1>1, <1>2, <1>3, <1>5, <1>6, <1>7, NothingIsIgnored DEF ScheduleStep

\* Where no counter of a request changes, nor what is scheduled and what is left.
LEMMA MovingOnTokens ==
  ASSUME TypeOK, ComputedInv, BudgetInv,
         UNCHANGED <<num_computed_tokens, num_output_tokens, num_output_placeholders>>,
         step'.num_scheduled_tokens = step.num_scheduled_tokens,
         step'.token_budget = step.token_budget,
         step'.encoder_compute_budget = step.encoder_compute_budget,
         step'.num_new_tokens \in {step.num_new_tokens, 0},
         step'.phase \notin {"idle", "alloc"}
  PROVE  ComputedInv' /\ BudgetInv'
<1>1. \A r \in Req : MayCompute(r, step.num_scheduled_tokens[r])'
  BY DEF ComputedInv, MayCompute, TokensToCome, NumTokens
<1>2. ComputedInv'
  BY <1>1 DEF ComputedInv
<1>3. BudgetInv'
  BY DEF BudgetInv
<1> QED BY <1>2, <1>3

\* The steps that leave the loop, or pass over a request.
LEMMA PassingOnTokens ==
  ASSUME TypeOK, ComputedInv, BudgetInv,
         \/ EndLoop \/ GiveUpAllocation \/ EndTail
         \/ \E r \in Req : SkipMaxTokensInFlight(r)
  PROVE  ComputedInv' /\ BudgetInv'
<1>1. UNCHANGED <<num_computed_tokens, num_output_tokens, num_output_placeholders>>
  BY DEF EndLoop, GiveUpAllocation, EndTail, SkipMaxTokensInFlight, requestVars
<1>2. step \in Locals
  BY DEF TypeOK, StepTypeOK
<1>3. \/ step' = PassedOver(step) /\ step.phase = "loop"
      \/ \E phase \in {"tail", "commit"} : step' = [step EXCEPT !.phase = phase]
      \/ step' = [step EXCEPT !.phase = "commit", !.request = NoRequest,
                              !.num_new_tokens = 0, !.compute_encoder = FALSE]
  BY DEF EndLoop, GiveUpAllocation, EndTail, SkipMaxTokensInFlight, Current, Phase
<1>4. /\ step'.num_scheduled_tokens = step.num_scheduled_tokens
      /\ step'.token_budget = step.token_budget
      /\ step'.encoder_compute_budget = step.encoder_compute_budget
      /\ step'.num_new_tokens \in {step.num_new_tokens, 0}
      /\ step'.phase \notin {"idle", "alloc"}
  BY <1>2, <1>3 DEF PassedOver, Locals
<1> QED BY <1>1, <1>4, MovingOnTokens

\* schedule() starts with the whole of the budgets and nothing scheduled.
LEMMA BeginTokens ==
  ASSUME TypeOK, ComputedInv, BudgetInv, BeginSchedule
  PROVE  ComputedInv' /\ BudgetInv'
<1>1. /\ step.phase = "idle"
      /\ UNCHANGED <<num_computed_tokens, num_output_tokens, num_output_placeholders>>
      /\ step'.phase = "loop" /\ step'.num_new_tokens = 0
      /\ step'.token_budget \in {0, MaxNumScheduledTokens}
      /\ step'.encoder_compute_budget = MaxNumEncoderInputTokens
      /\ step'.num_scheduled_tokens = [r \in Req |-> 0]
  BY DEF BeginSchedule, BetweenSteps, Phase, Idle
<1>2. MaxNumScheduledTokens \in Nat /\ MaxNumEncoderInputTokens \in Nat
  BY SchedulerAssumption
<1>3. BudgetInv'
  BY <1>1, <1>2 DEF BudgetInv
<1>4. \A r \in Req : step'.num_scheduled_tokens[r] = step.num_scheduled_tokens[r]
  BY <1>1 DEF ComputedInv
<1>5. \A r \in Req : MayCompute(r, step.num_scheduled_tokens[r])'
  BY <1>1, <1>4 DEF ComputedInv, MayCompute, TokensToCome, NumTokens
<1> QED BY <1>1, <1>3, <1>5 DEF ComputedInv

\* _try_schedule_encoder_inputs asks for at most the tokens it was given, and
\* computes an image only within the budget.
LEMMA EncoderOutcomesRange ==
  ASSUME TypeOK, NEW r \in Req, NEW n \in Nat, NEW outcome \in EncoderOutcomes(r, n)
  PROVE  /\ outcome.num_new_tokens \in 0 .. n
         /\ outcome.compute => EncoderTokens[r] <= step.encoder_compute_budget
<1> DEFINE unchanged == [num_new_tokens |-> n, compute |-> FALSE, hit |-> r \in encoder_refs]
           cut == IF num_computed_tokens[r] < EncoderStart[r]
                  THEN EncoderStart[r] - num_computed_tokens[r] ELSE 0
<1>1. num_computed_tokens[r] \in Int /\ EncoderStart[r] \in Nat
  BY CounterTypes
<1>2. \/ outcome = unchanged
      \/ outcome = [unchanged EXCEPT !.hit = TRUE]
      \/ /\ outcome = [unchanged EXCEPT !.compute = TRUE]
         /\ EncoderTokens[r] <= step.encoder_compute_budget
      \/ /\ outcome = [unchanged EXCEPT !.num_new_tokens = cut]
         /\ ~(EncoderStart[r] >= num_computed_tokens[r] + n)
  BY DEF EncoderOutcomes
<1>3. outcome = unchanged => outcome.num_new_tokens = n /\ ~outcome.compute
  OBVIOUS
<1>4. outcome = [unchanged EXCEPT !.hit = TRUE]
        => outcome.num_new_tokens = n /\ ~outcome.compute
  OBVIOUS
<1>5. outcome = [unchanged EXCEPT !.compute = TRUE] => outcome.num_new_tokens = n
  OBVIOUS
<1>6. outcome = [unchanged EXCEPT !.num_new_tokens = cut]
        => outcome.num_new_tokens = cut /\ ~outcome.compute
  <2> HIDE DEF cut
  <2> QED OBVIOUS
<1>7. ~(EncoderStart[r] >= num_computed_tokens[r] + n) => cut \in 0 .. n
  BY <1>1
<1>8. n \in 0 .. n
  OBVIOUS
<1> HIDE DEF unchanged, cut
<1> QED BY <1>2, <1>3, <1>4, <1>5, <1>6, <1>7, <1>8

\* A cut at the threshold leaves at least one of the tokens.
LEMMA WithinThresholdRange ==
  ASSUME NEW n \in Nat
  PROVE  WithinThreshold(n) \in 0 .. n
<1>1. LongPrefillTokenThreshold \in Nat
  BY SchedulerAssumption
<1> QED BY <1>1 DEF WithinThreshold

\* What a running request asks for it may compute, and the budget has it.
LEMMA NumNewTokensRunningRange ==
  ASSUME TypeOK, ComputedInv, BudgetInv, NEW r \in Req
  PROVE  /\ NumNewTokensRunning(r) \in 0 .. step.token_budget
         /\ \A n \in 0 .. NumNewTokensRunning(r) : MayCompute(r, n)
<1> DEFINE c == num_computed_tokens[r]
           missing == TokensToCome(r) - c
<1>1. /\ c \in Nat /\ TokensToCome(r) \in Int /\ c <= TokensToCome(r)
      /\ MaxModelLen \in Int /\ c <= MaxModelLen - 1
  <2>1. /\ c \in Int /\ TokensToCome(r) \in Int /\ MaxModelLen \in Int
        /\ step.num_scheduled_tokens[r] \in Int
    BY CounterTypes
  <2>2. c >= 0 /\ MayCompute(r, step.num_scheduled_tokens[r])
    BY DEF ComputedInv
  <2> QED BY <2>1, <2>2 DEF MayCompute
<1>2. missing \in Nat /\ missing = NumTokens(r) + num_output_placeholders[r] - c
  <2>1. missing \in Nat
    BY <1>1
  <2>2. /\ TokensToCome(r) = NumTokens(r) + num_output_placeholders[r]
        /\ NumTokens(r) \in Int /\ num_output_placeholders[r] \in Int
    BY CounterTypes DEF TokensToCome
  <2> QED BY <1>1, <2>1, <2>2
<1>3. step.token_budget \in Nat
  BY DEF BudgetInv, TypeOK, StepTypeOK, Locals
<1> DEFINE wanted == WithinThreshold(missing)
<1>4. wanted \in 0 .. missing
  BY <1>2, WithinThresholdRange
<1>5. NumNewTokensRunning(r) =
        LeastOf(LeastOf(wanted, step.token_budget), MaxModelLen - 1 - c)
  BY <1>2 DEF NumNewTokensRunning
<1> HIDE DEF wanted
<1>6. /\ NumNewTokensRunning(r) \in 0 .. step.token_budget
      /\ NumNewTokensRunning(r) <= missing
      /\ NumNewTokensRunning(r) <= MaxModelLen - 1 - c
  BY <1>1, <1>2, <1>3, <1>4, <1>5 DEF LeastOf
<1>7. \A n \in 0 .. NumNewTokensRunning(r) :
        /\ n >= 0 /\ c + n <= TokensToCome(r) /\ c + n <= MaxModelLen - 1
  BY <1>1, <1>6
<1> QED BY <1>6, <1>7 DEF MayCompute

\* So it is for a waiting request, which has nothing computed.
LEMMA NumNewTokensWaitingRange ==
  ASSUME TypeOK, SignsInv, UnfinishedInv, BudgetInv, NEW r \in Req,
         num_computed_tokens[r] = 0, status[r] \notin FinishedStatuses
  PROVE  /\ LeastOf(NumNewTokensWaiting(r), step.token_budget) \in 0 .. step.token_budget
         /\ \A n \in 0 .. LeastOf(NumNewTokensWaiting(r), step.token_budget) :
              MayCompute(r, n)
<1>1. /\ NumTokens(r) \in Nat /\ NumTokens(r) <= TokensToCome(r)
      /\ TokensToCome(r) \in Int
      /\ NumTokens(r) <= MaxModelLen - 1 /\ MaxModelLen \in Int
      /\ step.token_budget \in Nat
  <2>1. /\ NumTokens(r) \in Nat /\ num_output_placeholders[r] \in Int
        /\ MaxModelLen \in Int /\ step.token_budget \in Int /\ TokensToCome(r) \in Int
    BY CounterTypes
  <2> QED BY <2>1 DEF SignsInv, UnfinishedInv, BudgetInv, TokensToCome
<1>2. NumNewTokensWaiting(r) \in 0 .. NumTokens(r)
  BY <1>1, WithinThresholdRange DEF NumNewTokensWaiting
<1>3. /\ LeastOf(NumNewTokensWaiting(r), step.token_budget) \in 0 .. step.token_budget
      /\ LeastOf(NumNewTokensWaiting(r), step.token_budget) <= NumTokens(r)
  BY <1>1, <1>2 DEF LeastOf
<1>4. \A n \in 0 .. LeastOf(NumNewTokensWaiting(r), step.token_budget) :
        /\ n >= 0 /\ 0 + n <= TokensToCome(r) /\ 0 + n <= MaxModelLen - 1
  BY <1>1, <1>3
<1> QED BY <1>3, <1>4 DEF MayCompute

\* The part of an iteration that precedes allocate_slots passes over the request, ends
\* the loop, or goes on with tokens that the request may compute.
LEMMA TokensConsidered ==
  ASSUME TypeOK, IndexInv, QueueInv, TokensInv, NEW r \in Req,
         ConsiderRunning(r) \/ ConsiderWaiting(r)
  PROVE  \E n \in Nat :
           /\ n \in 0 .. step.token_budget
           /\ \A m \in 0 .. n : MayCompute(r, m)
           /\ \E outcome \in EncoderOutcomes(r, n) :
                \/ step' = PassedOver(step) /\ encoder_refs' = encoder_refs
                \/ step' = [step EXCEPT !.phase = "commit"] /\ encoder_refs' = encoder_refs
                \/ TryToAllocate(r, outcome) /\ outcome.num_new_tokens # 0
<1>1. Current(r) /\ step.phase = "loop"
  BY DEF ConsiderRunning, ConsiderWaiting, Current, Phase
<1>2. SignsInv /\ UnfinishedInv /\ ComputedInv /\ BudgetInv
  BY DEF TokensInv
<1>3. CASE ConsiderRunning(r)
  <2>1. /\ NumNewTokensRunning(r) \in 0 .. step.token_budget
        /\ \A n \in 0 .. NumNewTokensRunning(r) : MayCompute(r, n)
    BY <1>1, <1>2, NumNewTokensRunningRange
  <2>2. NumNewTokensRunning(r) \in Nat
    BY <1>2, <2>1 DEF TypeOK, StepTypeOK, Locals
  <2> QED BY <1>3, <2>1, <2>2 DEF ConsiderRunning
<1>4. CASE ConsiderWaiting(r)
  <2> DEFINE wanted == LeastOf(NumNewTokensWaiting(r), step.token_budget)
  <2>1. r \in waiting_req_ids /\ Roles /\ RolesInv /\ InSchedule /\ r \in Range(combined)
    BY <1>1, <1>4, CurrentIsListed, DuringSchedule DEF ConsiderWaiting
  <2>2. status[r] # "RUNNING"
    BY <1>1, <2>1 DEF Roles, RolesInv, Denied
  <2>3. num_computed_tokens[r] = 0 /\ status[r] \in Queued
    BY <2>1, <2>2, DuringSchedule DEF QueueInv, InSchedule, OnlyRunningIsComputed
  <2>4. status[r] \notin FinishedStatuses
    BY <2>3 DEF Queued, FinishedStatuses
  <2>5. /\ wanted \in 0 .. step.token_budget
        /\ \A n \in 0 .. wanted : MayCompute(r, n)
    BY <1>2, <2>3, <2>4, NumNewTokensWaitingRange
  <2>6. wanted \in Nat
    BY <1>2, <2>5 DEF TypeOK, StepTypeOK, Locals
  <2> QED BY <1>4, <2>5, <2>6 DEF ConsiderWaiting
<1> QED BY <1>3, <1>4

\* What it decides are tokens to allocate that the request may compute, and the
\* budgets have them.
LEMMA ConsiderTokens ==
  ASSUME TypeOK, IndexInv, QueueInv, TokensInv, NEW r \in Req,
         ConsiderRunning(r) \/ ConsiderWaiting(r)
  PROVE  ComputedInv' /\ BudgetInv'
<1>1. /\ Current(r)
      /\ UNCHANGED <<num_computed_tokens, num_output_tokens, num_output_placeholders>>
  BY DEF ConsiderRunning, ConsiderWaiting, requestVars
<1>2. step \in Locals /\ step.phase = "loop"
  BY <1>1 DEF TypeOK, StepTypeOK, Current, Phase
<1>3. ComputedInv /\ BudgetInv
  BY DEF TokensInv
<1>4. PICK n \in Nat :
        /\ n \in 0 .. step.token_budget
        /\ \A m \in 0 .. n : MayCompute(r, m)
        /\ \E outcome \in EncoderOutcomes(r, n) :
             \/ step' = PassedOver(step)
             \/ step' = [step EXCEPT !.phase = "commit"]
             \/ TryToAllocate(r, outcome) /\ outcome.num_new_tokens # 0
  BY TokensConsidered
<1>5. PICK outcome \in EncoderOutcomes(r, n) :
        \/ step' = PassedOver(step)
        \/ step' = [step EXCEPT !.phase = "commit"]
        \/ TryToAllocate(r, outcome) /\ outcome.num_new_tokens # 0
  BY <1>4
<1>6. CASE step' = PassedOver(step) \/ step' = [step EXCEPT !.phase = "commit"]
  <2>1. /\ step'.num_scheduled_tokens = step.num_scheduled_tokens
        /\ step'.token_budget = step.token_budget
        /\ step'.encoder_compute_budget = step.encoder_compute_budget
        /\ step'.num_new_tokens \in {step.num_new_tokens, 0}
        /\ step'.phase \notin {"idle", "alloc"}
    BY <1>2, <1>6 DEF PassedOver, Locals
  <2> QED BY <1>1, <1>3, <2>1, MovingOnTokens
<1>7. CASE TryToAllocate(r, outcome) /\ outcome.num_new_tokens # 0
  <2>1. /\ outcome.num_new_tokens \in 0 .. n
        /\ outcome.compute => EncoderTokens[r] <= step.encoder_compute_budget
    BY EncoderOutcomesRange
  <2>2. /\ step'.num_scheduled_tokens = step.num_scheduled_tokens
        /\ step'.token_budget = step.token_budget
        /\ step'.encoder_compute_budget = step.encoder_compute_budget
        /\ step'.num_new_tokens = outcome.num_new_tokens
        /\ step'.phase = "alloc" /\ step'.request = r
        /\ step'.compute_encoder = outcome.compute
    BY <1>2, <1>7 DEF TryToAllocate, Locals
  <2>3. step.token_budget \in Nat
    BY <1>3 DEF BudgetInv, TypeOK, StepTypeOK, Locals
  <2>4. outcome.num_new_tokens \in 1 .. step.token_budget
    BY <1>4, <1>7, <2>1, <2>3
  <2>5. MayCompute(step.request, step.num_new_tokens)'
    <3>1. MayCompute(r, outcome.num_new_tokens)'
      BY <1>1, <1>4, <2>1 DEF MayCompute, TokensToCome, NumTokens
    <3> QED BY <1>1, <2>2, <3>1 DEF MayCompute, TokensToCome, NumTokens
  <2>6. BudgetInv'
    BY <1>3, <2>1, <2>2, <2>3, <2>4, <2>5 DEF BudgetInv
  <2>7. ComputedInv'
    BY <1>1, <1>2, <1>3, <2>2 DEF ComputedInv, MayCompute, TokensToCome, NumTokens
  <2> QED BY <2>6, <2>7
<1> QED BY <1>5, <1>6, <1>7

\* The fields of the locals once r has its slots.
LEMMA ScheduledFields ==
  ASSUME NEW local \in Locals, NEW r \in Req
  PROVE  /\ Scheduled(r, local).phase = "loop"
         /\ Scheduled(r, local).num_scheduled_tokens =
              [local.num_scheduled_tokens EXCEPT ![r] = local.num_new_tokens]
         /\ Scheduled(r, local).token_budget = local.token_budget - local.num_new_tokens
         /\ Scheduled(r, local).encoder_compute_budget =
              IF local.compute_encoder THEN local.encoder_compute_budget - EncoderTokens[r]
              ELSE local.encoder_compute_budget
         /\ Scheduled(r, local).num_new_tokens = 0
         /\ Scheduled(r, local).preempted_req_ids = local.preempted_req_ids
         /\ Scheduled(r, local).scheduled_resumed_reqs = local.scheduled_resumed_reqs
         /\ Scheduled(r, local).scheduled_running_reqs = local.scheduled_running_reqs
         /\ Scheduled(r, local) \in Locals
<1>1. Scheduled(r, local) \in Locals
  BY LocalsTypes
<1> QED BY <1>1 DEF Locals, Scheduled

\* A request that gets its slots takes its tokens from the budget.
LEMMA ScheduleTokens ==
  ASSUME TypeOK, ComputedInv, BudgetInv, NEW r \in Req,
         ScheduleRunning(r) \/ ScheduleWaiting(r)
  PROVE  ComputedInv' /\ BudgetInv'
<1>1. /\ step.phase = "alloc" /\ r = step.request
      /\ UNCHANGED <<num_computed_tokens, num_output_tokens, num_output_placeholders>>
      /\ \/ step' = [Scheduled(r, step) EXCEPT !.scheduled_running_reqs = @ \cup {r}]
         \/ step' = [Scheduled(r, step) EXCEPT !.scheduled_resumed_reqs =
                       IF status[r] = "PREEMPTED" THEN @ \cup {r} ELSE @]
  BY DEF ScheduleRunning, ScheduleWaiting, requestVars, Phase
<1>2. step \in Locals
  BY DEF TypeOK, StepTypeOK
<1>3. /\ step'.phase = "loop" /\ step'.num_new_tokens = 0
      /\ step'.num_scheduled_tokens = Scheduled(r, step).num_scheduled_tokens
      /\ step'.token_budget = Scheduled(r, step).token_budget
      /\ step'.encoder_compute_budget = Scheduled(r, step).encoder_compute_budget
  <2>1. Scheduled(r, step) \in Locals /\ Scheduled(r, step).phase = "loop"
        /\ Scheduled(r, step).num_new_tokens = 0
    BY <1>2, ScheduledFields
  <2> QED BY <1>1, <2>1 DEF Locals
<1>4. /\ step'.num_scheduled_tokens =
           [step.num_scheduled_tokens EXCEPT ![r] = step.num_new_tokens]
      /\ step'.token_budget = step.token_budget - step.num_new_tokens
      /\ step'.encoder_compute_budget =
           IF step.compute_encoder THEN step.encoder_compute_budget - EncoderTokens[r]
           ELSE step.encoder_compute_budget
  BY <1>2, <1>3, ScheduledFields
<1>5. /\ step.num_new_tokens \in 1 .. step.token_budget
      /\ step.compute_encoder => EncoderTokens[r] <= step.encoder_compute_budget
      /\ step.encoder_compute_budget >= 0
      /\ MayCompute(r, step.num_new_tokens)
  BY <1>1 DEF BudgetInv
<1>6. BudgetInv'
  <2>1. step'.token_budget >= 0
    BY <1>4, <1>5, CounterTypes
  <2>2. step'.encoder_compute_budget >= 0
    BY <1>4, <1>5, CounterTypes
  <2> QED BY <1>3, <2>1, <2>2 DEF BudgetInv
<1>7. ASSUME NEW q \in Req PROVE MayCompute(q, step.num_scheduled_tokens[q])'
  <2>1. step'.num_scheduled_tokens[q] =
          IF q = r THEN step.num_new_tokens ELSE step.num_scheduled_tokens[q]
    BY <1>2, <1>4 DEF Locals
  <2> QED BY <1>1, <1>5, <2>1 DEF ComputedInv, MayCompute, TokensToCome, NumTokens
<1> QED BY <1>1, <1>3, <1>6, <1>7 DEF ComputedInv

\* A preempted request computes from 0 again, and what the step had planned for it
\* goes back to the budgets.
LEMMA PreemptTokens ==
  ASSUME TypeOK, IndexInv, QueueInv, ComputedInv, BudgetInv, NEW r \in Req,
         PreemptLastRunning(r) \/ PreemptUnreached(r)
  PROVE  ComputedInv' /\ BudgetInv'
<1>1. /\ UNCHANGED <<num_output_tokens, num_output_placeholders>>
      /\ num_computed_tokens' = [num_computed_tokens EXCEPT ![r] = 0]
      /\ step.phase \in {"alloc", "tail"}
  BY DEF PreemptLastRunning, PreemptUnreached, Preempt, Phase
<1>2. step \in Locals
  BY DEF TypeOK, StepTypeOK
<1>3. /\ \A q \in Req : \/ step'.num_scheduled_tokens[q] = step.num_scheduled_tokens[q]
                        \/ step'.num_scheduled_tokens[q] = 0
      /\ step'.token_budget \in
           {step.token_budget, step.token_budget + step.num_scheduled_tokens[r]}
      /\ step'.encoder_compute_budget \in
           {step.encoder_compute_budget, step.encoder_compute_budget + EncoderTokens[r]}
      /\ \/ step'.phase \in {"tail", "commit"} /\ step'.num_new_tokens \in {step.num_new_tokens, 0}
         \/ /\ step.phase = "alloc" /\ r # step.request
            /\ step'.num_new_tokens = step.num_new_tokens
            /\ step'.request = step.request
            /\ step'.compute_encoder = step.compute_encoder
      /\ step'.phase # "idle"
  <2>1. CASE PreemptUnreached(r)
    <3>1. PICK i \in step.req_index .. Len(combined) :
            step' = [step EXCEPT !.req_index = i + 1, !.preempted_req_ids = @ \cup {r}]
      BY <2>1 DEF PreemptUnreached
    <3>2. step.phase = "tail"
      BY <2>1 DEF PreemptUnreached, Phase
    <3> QED BY <1>2, <3>1, <3>2 DEF Locals
  <2>2. CASE PreemptLastRunning(r)
    <3> DEFINE undone == Unscheduled(r, step)
               local == [undone EXCEPT !.preempted_req_ids = @ \cup {r}]
    <3>1. /\ undone \in Locals
          /\ undone.phase = step.phase /\ undone.num_new_tokens = step.num_new_tokens
          /\ undone.request = step.request /\ undone.compute_encoder = step.compute_encoder
      <4>1. undone \in Locals
        BY <1>2, LocalsTypes
      <4> QED BY <1>2, <4>1 DEF Unscheduled, Locals
    <3>2. /\ undone.num_scheduled_tokens \in
               {step.num_scheduled_tokens, [step.num_scheduled_tokens EXCEPT ![r] = 0]}
          /\ undone.token_budget \in
               {step.token_budget, step.token_budget + step.num_scheduled_tokens[r]}
          /\ undone.encoder_compute_budget \in
               {step.encoder_compute_budget, step.encoder_compute_budget + EncoderTokens[r]}
      BY <1>2 DEF Unscheduled, Locals
    <3>3. /\ step.phase = "alloc"
          /\ step' = IF r = step.request
                     THEN [local EXCEPT !.phase = "commit", !.request = NoRequest,
                             !.num_new_tokens = 0, !.compute_encoder = FALSE]
                     ELSE local
      BY <2>2 DEF PreemptLastRunning, Phase
    <3> HIDE DEF undone
    <3>4. /\ step'.num_scheduled_tokens = undone.num_scheduled_tokens
          /\ step'.token_budget = undone.token_budget
          /\ step'.encoder_compute_budget = undone.encoder_compute_budget
          /\ \/ step'.phase = "commit" /\ step'.num_new_tokens = 0
             \/ /\ r # step.request /\ step'.phase = undone.phase
                /\ step'.num_new_tokens = undone.num_new_tokens
                /\ step'.request = undone.request
                /\ step'.compute_encoder = undone.compute_encoder
      BY <3>1, <3>3 DEF Locals
    <3>5. \A q \in Req : \/ undone.num_scheduled_tokens[q] = step.num_scheduled_tokens[q]
                         \/ undone.num_scheduled_tokens[q] = 0
      BY <1>2, <3>2 DEF Locals
    <3> QED BY <3>1, <3>2, <3>3, <3>4, <3>5
  <2> QED BY <2>1, <2>2
<1>4. /\ step.token_budget >= 0 /\ step.encoder_compute_budget >= 0
      /\ step.num_new_tokens >= 0
      /\ step.num_scheduled_tokens[r] >= 0
  BY DEF BudgetInv, ComputedInv, MayCompute
<1>5. step'.token_budget >= step.token_budget /\ step'.token_budget \in Int
  BY <1>3, <1>4, CounterTypes
<1>6. step'.encoder_compute_budget >= step.encoder_compute_budget
      /\ step'.encoder_compute_budget \in Int
  BY <1>3, <1>4, CounterTypes
<1>7. \A q \in Req : /\ num_computed_tokens'[q] = IF q = r THEN 0 ELSE num_computed_tokens[q]
                     /\ TokensToCome(q)' = TokensToCome(q)
  BY <1>1 DEF TypeOK, RequestsTypeOK, TokensToCome, NumTokens
<1>8. ASSUME NEW q \in Req, NEW n \in Int, NEW m \in {n, 0}, MayCompute(q, n),
             num_computed_tokens[q] >= 0
      PROVE  /\ m >= 0
             /\ num_computed_tokens'[q] + m <= TokensToCome(q)'
             /\ num_computed_tokens'[q] + m <= MaxModelLen - 1
  <2>1. /\ num_computed_tokens[q] \in Int /\ TokensToCome(q) \in Int /\ MaxModelLen \in Int
    BY CounterTypes
  <2> QED BY <1>7, <1>8, <2>1 DEF MayCompute
<1>9. ComputedInv'
  <2>1. ASSUME NEW q \in Req
        PROVE  num_computed_tokens'[q] >= 0 /\ MayCompute(q, step.num_scheduled_tokens[q])'
    <3>1. /\ num_computed_tokens[q] >= 0 /\ MayCompute(q, step.num_scheduled_tokens[q])
          /\ step.num_scheduled_tokens[q] \in Int
      BY CounterTypes DEF ComputedInv
    <3>2. step'.num_scheduled_tokens[q] \in {step.num_scheduled_tokens[q], 0}
      BY <1>3
    <3> QED BY <1>7, <1>8, <3>1, <3>2 DEF MayCompute
  <2> QED BY <1>3, <2>1 DEF ComputedInv
<1>10. BudgetInv'
  <2>1. step'.token_budget >= 0 /\ step'.encoder_compute_budget >= 0
        /\ step'.num_new_tokens >= 0
    BY <1>1, <1>3, <1>4, <1>5, <1>6, CounterTypes
  <2>2. ASSUME step'.phase = "alloc"
        PROVE  /\ step'.num_new_tokens \in 1 .. step'.token_budget
               /\ MayCompute(step.request, step.num_new_tokens)'
               /\ step'.compute_encoder =>
                    EncoderTokens[step'.request] <= step'.encoder_compute_budget
    <3>1. /\ step.phase = "alloc" /\ r # step.request
          /\ step'.num_new_tokens = step.num_new_tokens
          /\ step'.request = step.request
          /\ step'.compute_encoder = step.compute_encoder
      BY <1>3, <2>2
    <3>2. /\ step.num_new_tokens \in 1 .. step.token_budget
          /\ MayCompute(step.request, step.num_new_tokens)
          /\ step.compute_encoder =>
               EncoderTokens[step.request] <= step.encoder_compute_budget
      BY <3>1 DEF BudgetInv
    <3>3. step.token_budget \in Int /\ step.encoder_compute_budget \in Int
      BY CounterTypes
    <3>4. step'.num_new_tokens \in 1 .. step'.token_budget
      BY <1>5, <3>1, <3>2, <3>3
    <3>5. step.request \in Req
      <4>1. Phase("alloc")
        BY <3>1 DEF PreemptLastRunning, PreemptUnreached, Phase
      <4> QED BY <4>1, InHandIsListed
    <3>6. MayCompute(step.request, step.num_new_tokens)'
      BY <1>7, <3>1, <3>2, <3>5 DEF MayCompute
    <3>7. step'.compute_encoder => EncoderTokens[step'.request] <= step'.encoder_compute_budget
      <4>1. EncoderTokens[step.request] \in Int
        BY <3>5, CounterTypes
      <4> QED BY <1>6, <3>1, <3>2, <3>3, <4>1
    <3> QED BY <3>4, <3>6, <3>7
  <2> QED BY <2>1, <2>2 DEF BudgetInv
<1> QED BY <1>9, <1>10

\* What a batch computes was planned, and nothing is left scheduled.
LEMMA CommitTokens ==
  ASSUME TypeOK, ComputedInv, BudgetInv, CommitSchedule
  PROVE  ComputedInv' /\ BudgetInv'
<1>1. /\ step' = Idle /\ UNCHANGED num_output_tokens
  BY DEF CommitSchedule
<1>2. /\ \A r \in Req : step'.num_scheduled_tokens[r] = 0
      /\ step'.phase = "idle" /\ step'.token_budget = 0 /\ step'.num_new_tokens = 0
      /\ step'.encoder_compute_budget = 0
  BY <1>1 DEF Idle
<1>3. PICK sampled \in SUBSET ScheduledReqs : \A r \in Req :
        /\ num_computed_tokens'[r] = num_computed_tokens[r] + step.num_scheduled_tokens[r]
        /\ num_output_placeholders'[r] = num_output_placeholders[r]
             + (IF AsyncScheduling /\ r \in sampled THEN 1 ELSE 0)
  BY CommitEffects
<1>4. ASSUME NEW r \in Req
      PROVE  num_computed_tokens'[r] >= 0 /\ MayCompute(r, step.num_scheduled_tokens[r])'
  <2>1. /\ num_computed_tokens[r] >= 0
        /\ MayCompute(r, step.num_scheduled_tokens[r])
    BY DEF ComputedInv
  <2>2. /\ num_output_placeholders'[r] \in
              {num_output_placeholders[r], num_output_placeholders[r] + 1}
        /\ num_computed_tokens'[r] = num_computed_tokens[r] + step.num_scheduled_tokens[r]
    BY <1>3, CounterTypes
  <2>3. TokensToCome(r)' \in {TokensToCome(r), TokensToCome(r) + 1}
    BY <1>1, <2>2, CounterTypes DEF TokensToCome, NumTokens
  <2>4. /\ num_computed_tokens[r] \in Int /\ step.num_scheduled_tokens[r] \in Int
        /\ TokensToCome(r) \in Int /\ MaxModelLen \in Int
    BY CounterTypes
  <2>5. /\ num_computed_tokens'[r] \in Int /\ num_computed_tokens'[r] >= 0
        /\ num_computed_tokens'[r] <= TokensToCome(r)'
        /\ num_computed_tokens'[r] <= MaxModelLen - 1
    BY <2>1, <2>2, <2>3, <2>4 DEF MayCompute
  <2> QED BY <1>2, <2>5 DEF MayCompute
<1> QED BY <1>2, <1>4 DEF ComputedInv, BudgetInv

\* Outside schedule() nothing is scheduled, so that nobody computes more than before.
LEMMA BetweenStepsTokens ==
  ASSUME TypeOK, ComputedInv, BudgetInv, step.phase = "idle", step' = step,
         \A r \in Req : /\ num_computed_tokens'[r] \in {num_computed_tokens[r], 0}
                        /\ TokensToCome(r)' \in Int
                        /\ num_computed_tokens'[r] <= TokensToCome(r)'
  PROVE  ComputedInv' /\ BudgetInv'
<1>1. \A r \in Req : step.num_scheduled_tokens[r] = 0
  BY DEF ComputedInv
<1>2. ASSUME NEW r \in Req
      PROVE  num_computed_tokens'[r] >= 0 /\ MayCompute(r, step.num_scheduled_tokens[r])'
  <2>1. /\ num_computed_tokens[r] \in Int /\ MaxModelLen \in Nat \ {0}
    BY CounterTypes
  <2>2. num_computed_tokens[r] >= 0 /\ num_computed_tokens[r] + 0 <= MaxModelLen - 1
    BY <1>1 DEF ComputedInv, MayCompute
  <2>3. /\ num_computed_tokens'[r] \in Int /\ num_computed_tokens'[r] >= 0
        /\ num_computed_tokens'[r] <= TokensToCome(r)'
        /\ num_computed_tokens'[r] <= MaxModelLen - 1
    BY <2>1, <2>2
  <2> QED BY <1>1, <2>3 DEF MayCompute
<1>3. BudgetInv'
  BY DEF BudgetInv
<1> QED BY <1>1, <1>2, <1>3 DEF ComputedInv

\* A token that is answered goes on where its placeholder was.
LEMMA OutputTokens ==
  ASSUME TypeOK, TokensInv, InFlightInv, UpdateFromOutput
  PROVE  UnfinishedInv' /\ ComputedInv' /\ BudgetInv'
<1>1. PICK discarded \in SUBSET Req, extended \in SUBSET Req, stopped \in SUBSET Req :
        Answered(discarded, extended, stopped)
  BY OutputEffects
<1>2. /\ step.phase = "idle" /\ step' = step
      /\ SignsInv /\ UnfinishedInv /\ ComputedInv /\ BudgetInv
  BY DEF UpdateFromOutput, Phase, TokensInv
<1>3. ASSUME NEW r \in Req, status'[r] \notin FinishedStatuses
      PROVE  num_output_tokens'[r] < MaxTokens[r] /\ NumTokens(r)' < MaxModelLen
  <2>1. r \notin stopped /\ status'[r] = status[r]
    BY <1>1, <1>3 DEF Answered, FinishedStatuses
  <2>2. CASE r \in extended
    <3>1. /\ NumTokens(r) + 1 < MaxModelLen /\ num_output_tokens[r] + 1 < MaxTokens[r]
          /\ num_output_tokens'[r] = num_output_tokens[r] + 1
      BY <1>1, <2>1, <2>2 DEF Answered
    <3>2. NumTokens(r)' = NumTokens(r) + 1
      BY <3>1, CounterTypes DEF NumTokens
    <3> QED BY <3>1, <3>2
  <2>3. CASE r \notin extended
    <3>1. num_output_tokens'[r] = num_output_tokens[r] + 0
      BY <1>1, <2>3 DEF Answered
    <3>2. num_output_tokens'[r] = num_output_tokens[r]
      BY <3>1, CounterTypes
    <3> QED BY <1>2, <1>3, <2>1, <3>2 DEF UnfinishedInv, NumTokens
  <2> QED BY <2>2, <2>3
<1>4. UnfinishedInv'
  BY <1>3 DEF UnfinishedInv
<1>5. ASSUME NEW r \in Req
      PROVE  /\ num_computed_tokens'[r] \in {num_computed_tokens[r], 0}
             /\ TokensToCome(r)' \in Int
             /\ num_computed_tokens'[r] <= TokensToCome(r)'
  <2>1. /\ num_output_tokens'[r] = num_output_tokens[r] + (IF r \in extended THEN 1 ELSE 0)
        /\ num_output_placeholders'[r] =
             IF r \in stopped THEN 0
             ELSE num_output_placeholders[r]
                    - (IF r \in extended /\ AsyncScheduling THEN 1 ELSE 0)
        /\ num_computed_tokens'[r] = IF r \in stopped THEN 0 ELSE num_computed_tokens[r]
    BY <1>1 DEF Answered
  <2>2. /\ NumTokens(r)' \in {NumTokens(r), NumTokens(r) + 1}
        /\ r \in extended => NumTokens(r)' = NumTokens(r) + 1
    BY <2>1, CounterTypes DEF NumTokens
  <2>3. CASE r \in stopped
    <3>1. num_output_placeholders'[r] = 0 /\ num_computed_tokens'[r] = 0
      BY <2>1, <2>3
    <3>2. TokensToCome(r)' \in Nat
      BY <2>2, <3>1, CounterTypes DEF TokensToCome
    <3> QED BY <3>1, <3>2
  <2>4. CASE r \notin stopped
    <3>1. num_output_placeholders'[r] =
            num_output_placeholders[r] - (IF r \in extended /\ AsyncScheduling THEN 1 ELSE 0)
      BY <2>1, <2>4
    <3>2. TokensToCome(r)' \in {TokensToCome(r), TokensToCome(r) + 1}
      BY <2>2, <3>1, CounterTypes DEF TokensToCome
    <3>3. MayCompute(r, 0) /\ num_computed_tokens'[r] = num_computed_tokens[r]
      BY <1>2, <2>1, <2>4 DEF ComputedInv
    <3>4. num_computed_tokens[r] <= TokensToCome(r)
      BY <3>3, CounterTypes DEF MayCompute
    <3> QED BY <3>2, <3>3, <3>4, CounterTypes
  <2> QED BY <2>3, <2>4
<1>6. ComputedInv' /\ BudgetInv'
  BY <1>2, <1>5, BetweenStepsTokens
<1> QED BY <1>4, <1>6

\* What clients ask for leaves the counters alone, or forgets them.
LEMMA ClientTokens ==
  ASSUME "reset" \notin ClientOps, TypeOK, TokensInv, ClientStep
  PROVE  TokensInv'
<1>1. /\ step.phase = "idle" /\ step' = step /\ num_output_tokens' = num_output_tokens
      /\ SignsInv /\ UnfinishedInv /\ ComputedInv /\ BudgetInv
  BY DEF ClientStep, AddRequest, AbortRequest, SetPauseState, ResetPrefixCache,
         BetweenSteps, Phase, TokensInv, requestVars
<1>2. status \in [Req -> Statuses]
  BY DEF TypeOK, RequestsTypeOK
<1>3. ASSUME NEW r \in Req
      PROVE  /\ num_computed_tokens'[r] \in {num_computed_tokens[r], 0}
             /\ num_output_placeholders'[r] \in {num_output_placeholders[r], 0}
             /\ async_tokens_to_discard'[r] \in {async_tokens_to_discard[r], 0}
             /\ num_output_placeholders'[r] = 0 =>
                  num_computed_tokens'[r] = 0 \/ num_output_placeholders[r] = 0
             /\ status'[r] \notin FinishedStatuses => status[r] \notin FinishedStatuses
  <2>1. CASE \E q \in Req : AddRequest(q)
    <3>1. PICK q \in Req : AddRequest(q)
      BY <2>1
    <3>2. /\ UNCHANGED <<num_computed_tokens, num_output_placeholders,
                         async_tokens_to_discard>>
          /\ status[q] = "UNSEEN"
          /\ \E s : status' = [status EXCEPT ![q] = s]
      BY <3>1 DEF AddRequest
    <3> QED BY <1>2, <3>2 DEF FinishedStatuses
  <2>2. CASE \E q \in Req : AbortRequest(q)
    <3>1. PICK q \in Req : AbortRequest(q)
      BY <2>2
    <3>2. /\ num_computed_tokens' = Zeroed(num_computed_tokens, {q})
          /\ num_output_placeholders' = Zeroed(num_output_placeholders, {q})
          /\ async_tokens_to_discard' = Zeroed(async_tokens_to_discard, {q})
          /\ status' = [status EXCEPT ![q] = "FINISHED_ABORTED"]
      BY <3>1 DEF AbortRequest, FreeRequests
    <3> QED BY <1>2, <3>2 DEF Zeroed, FinishedStatuses
  <2>3. CASE \E pause \in {"UNPAUSED", "PAUSED_NEW", "PAUSED_ALL"} : SetPauseState(pause)
    BY <2>3 DEF SetPauseState, requestVars
  <2> QED BY <2>1, <2>2, <2>3 DEF ClientStep, ResetPrefixCache
<1>4. SignsInv'
  BY <1>1, <1>3 DEF SignsInv
<1>5. UnfinishedInv'
  BY <1>1, <1>3 DEF UnfinishedInv, NumTokens
<1>6. ASSUME NEW r \in Req
      PROVE  TokensToCome(r)' \in Int /\ num_computed_tokens'[r] <= TokensToCome(r)'
  <2>1. /\ NumTokens(r)' = NumTokens(r) /\ NumTokens(r) \in Nat
        /\ num_output_placeholders[r] \in Int /\ num_computed_tokens[r] \in Int
    BY <1>1, CounterTypes DEF NumTokens
  <2>2. MayCompute(r, 0) /\ num_output_placeholders[r] >= 0
    BY <1>1 DEF ComputedInv, SignsInv
  <2> QED BY <1>3, <2>1, <2>2 DEF MayCompute, TokensToCome
<1>7. ComputedInv' /\ BudgetInv'
  BY <1>1, <1>3, <1>6, BetweenStepsTokens
<1> QED BY <1>4, <1>5, <1>7 DEF TokensInv

\* Every step keeps the counters in range.
LEMMA NextTokens ==
  ASSUME "reset" \notin ClientOps, EveryImageFits, TypeOK, IndexInv, QueueInv, InFlightInv,
         TokensInv, TypeOK', InFlightInv', [SchedulerNext]_vars
  PROVE  TokensInv'
<1>1. SignsInv /\ UnfinishedInv /\ ComputedInv /\ BudgetInv
  BY DEF TokensInv
<1>0. failed_assertion' = "none" => SignsInv'
  <2>1. (TypeOK /\ InFlightInv /\ failed_assertion = "none" => SignsInv)'
    BY InFlightGivesSigns, PTL
  <2> QED BY <2>1
<1>2. CASE ClientStep
  BY <1>2, ClientTokens
<1>3. CASE UpdateFromOutput
  <2>1. failed_assertion' = "none"
    BY <1>3 DEF UpdateFromOutput, Phase
  <2>2. SignsInv'
    BY <1>0, <2>1
  <2> QED BY <1>3, <2>2, OutputTokens DEF TokensInv
<1>4. CASE ScheduleStep
  <2>1. SignsInv'
    <3>1. CASE CommitSchedule
      <4>1. failed_assertion' = "none"
        BY <3>1 DEF CommitSchedule, Phase
      <4> QED BY <1>0, <4>1
    <3>2. CASE ~CommitSchedule
      BY <1>1, <1>4, <3>2, WithinScheduleUnchanged DEF SignsInv
    <3> QED BY <3>1, <3>2
  <2>2. UnfinishedInv'
    <3>1. \A r \in Req : status'[r] \notin FinishedStatuses => status[r] \notin FinishedStatuses
      BY <1>4, NobodyFinishes DEF Queued, FinishedStatuses
    <3>2. num_output_tokens' = num_output_tokens
      BY <1>4, WithinScheduleUnchanged DEF CommitSchedule
    <3> QED BY <1>1, <3>1, <3>2 DEF UnfinishedInv, NumTokens
  <2>3. ComputedInv' /\ BudgetInv'
    <3>1. CASE BeginSchedule
      BY <1>1, <3>1, BeginTokens
    <3>2. CASE EndLoop \/ GiveUpAllocation \/ EndTail
      BY <1>1, <3>2, PassingOnTokens
    <3>3. CASE CommitSchedule
      BY <1>1, <3>3, CommitTokens
    <3>4. CASE ScheduleRaises
      BY <1>1, <3>4 DEF ScheduleRaises, requestVars, ComputedInv, BudgetInv, MayCompute,
                        TokensToCome, NumTokens
    <3>5. ASSUME NEW r \in Req, SkipMaxTokensInFlight(r) PROVE ComputedInv' /\ BudgetInv'
      BY <1>1, <3>5, PassingOnTokens
    <3>6. ASSUME NEW r \in Req, ConsiderRunning(r) \/ ConsiderWaiting(r)
          PROVE  ComputedInv' /\ BudgetInv'
      BY <3>6, ConsiderTokens
    <3>7. ASSUME NEW r \in Req, ScheduleRunning(r) \/ ScheduleWaiting(r)
          PROVE  ComputedInv' /\ BudgetInv'
      BY <1>1, <3>7, ScheduleTokens
    <3>8. ASSUME NEW r \in Req, PreemptLastRunning(r) \/ PreemptUnreached(r)
          PROVE  ComputedInv' /\ BudgetInv'
      BY <1>1, <3>8, PreemptTokens
    <3> QED BY <1>4, <3>1, <3>2, <3>3, <3>4, <3>5, <3>6, <3>7, <3>8, NothingIsIgnored
            DEF ScheduleStep
  <2> QED BY <2>1, <2>2, <2>3 DEF TokensInv
<1>5. CASE UNCHANGED vars
  BY <1>1, <1>5 DEF vars, requestVars, TokensInv, SignsInv, UnfinishedInv, ComputedInv,
                    BudgetInv, MayCompute, TokensToCome, NumTokens
<1> QED BY <1>2, <1>3, <1>4, <1>5 DEF SchedulerNext, EngineStep, EngineIdle, EngineDead

\* TokensInv holds in every reachable state.
THEOREM TokensInductive ==
  ASSUME "reset" \notin ClientOps, DistinctArrivals, EveryImageFits
  PROVE  SchedulerSpec => [](TypeOK /\ IndexInv /\ QueueInv /\ InFlightInv /\ TokensInv)
<1>1. TypeOK /\ IndexInv /\ QueueInv /\ InFlightInv /\ TokensInv
        /\ TypeOK' /\ InFlightInv' /\ [SchedulerNext]_vars
        => TokensInv'
  BY NextTokens
<1> QED BY <1>1, InitTokens, InFlightInductive, PTL DEF SchedulerSpec

\* Neither budget of a step, nor any count of tokens, goes below zero or past what
\* there is, through every preemption that gives tokens back: the assertions on
\* token_budget and num_output_placeholders hold, and an allocation is never asked for
\* more tokens than are left.
THEOREM CountersInRange ==
  ASSUME "reset" \notin ClientOps, DistinctArrivals, EveryImageFits
  PROVE  SchedulerSpec => []CountersStayInRange
<1>1. TypeOK /\ TokensInv => CountersStayInRange
  <2> SUFFICES ASSUME TypeOK, TokensInv PROVE CountersStayInRange
    OBVIOUS
  <2>1. SignsInv /\ ComputedInv /\ BudgetInv
    BY DEF TokensInv
  <2>2. \A r \in Req : /\ step.num_scheduled_tokens[r] >= 0
                       /\ num_computed_tokens[r] \in 0..(MaxModelLen - 1)
    <3> SUFFICES ASSUME NEW r \in Req
                 PROVE  /\ step.num_scheduled_tokens[r] >= 0
                        /\ num_computed_tokens[r] \in 0..(MaxModelLen - 1)
      OBVIOUS
    <3>1. num_computed_tokens[r] >= 0 /\ MayCompute(r, step.num_scheduled_tokens[r])
      BY <2>1 DEF ComputedInv
    <3> QED BY <3>1, CounterTypes DEF MayCompute
  <2> QED BY <2>1, <2>2 DEF CountersStayInRange, SignsInv, BudgetInv
<1> QED BY <1>1, TokensInductive, PTL

-----------------------------------------------------------------------------
(* Tokens in flight of requests that are preempted and resumed. *)

\* max_concurrent_batches: one, two under async scheduling, or the pipeline stages.
AtMostTwoBatches == MaxConcurrentBatches <= 2

\* r is in no batch in flight.
Landed(r) == \A i \in DOMAIN batch_queue : r \notin batch_queue[i].scheduled

\* Between two steps the newest batch holds no preempted request; in a step, the
\* preempted ones of earlier steps have landed.
LandedInv ==
  /\ Len(batch_queue) <= MaxConcurrentBatches
  /\ step.phase # "idle" => BatchQueueHasRoom
  /\ \A r \in Req : status[r] \in {"UNSEEN", "WAITING", Parked} => Landed(r)
  /\ step.phase = "idle" =>
       \A r \in Req : status[r] = "PREEMPTED" =>
         \A i \in DOMAIN batch_queue :
           r \in batch_queue[i].scheduled => i < Len(batch_queue)
  /\ step.phase # "idle" =>
       /\ \A r \in Req : status[r] = "PREEMPTED" =>
            r \in step.preempted_req_ids \/ Landed(r)
       /\ \A r \in step.scheduled_resumed_reqs : Landed(r)

\* A running request with a token to come computes up to that token.
AheadInv ==
  \A r \in Req : (status[r] = "RUNNING" /\ num_output_placeholders[r] > 0) =>
    num_computed_tokens[r] = TokensToCome(r) - 1

\* What a step schedules, or is about to, has not all its tokens in flight.
Planned(r) ==
  step.num_scheduled_tokens[r] # 0 \/ (step.phase = "alloc" /\ r = step.request)

RoomInv == \A r \in Req : Planned(r) => ~MaxTokensInFlight(r)

LimitsInv ==
  \A r \in Req : /\ num_output_tokens[r] + num_output_placeholders[r] <= MaxTokens[r]
                 /\ TokensToCome(r) <= MaxModelLen

FlightInv ==
  failed_assertion = "none" => LandedInv /\ AheadInv /\ RoomInv /\ LimitsInv

\* A request that is in no batch has no placeholder, and nobody has more of them
\* than there are batches.
LEMMA LandedHasNoPlaceholder ==
  ASSUME TypeOK, PlaceholdersInv, NEW r \in Req
  PROVE  /\ num_output_placeholders[r] \in 0 .. Len(batch_queue)
         /\ Landed(r) => /\ num_output_placeholders[r] = 0
                         /\ \A i \in DOMAIN batch_queue : r \notin batch_queue[i].sampled
<1>1. batch_queue \in Seq(Batches)
  BY DEF TypeOK, QueuesTypeOK
<1>2. Len(batch_queue) \in Nat /\ DOMAIN batch_queue = 1 .. Len(batch_queue)
  BY <1>1, LenProperties
<1>3. IsFiniteSet(DOMAIN batch_queue) /\ Cardinality(DOMAIN batch_queue) = Len(batch_queue)
  <2> DEFINE n == Len(batch_queue)
  <2>1. n \in Nat
    BY <1>2
  <2> HIDE DEF n
  <2>2. IsFiniteSet(1 .. n) /\ Cardinality(1 .. n) = n
    BY <2>1, FS_Interval
  <2> QED BY <1>2, <2>2 DEF n
<1>4. SampledIn(batch_queue, r) \in SUBSET (DOMAIN batch_queue)
  BY DEF SampledIn
<1>5. InFlight(r) \in Nat /\ InFlight(r) <= Len(batch_queue)
  BY <1>3, <1>4, FS_Subset, FS_CardinalityType DEF InFlight
<1>6. num_output_placeholders[r] \in 0 .. Len(batch_queue)
  BY <1>2, <1>5 DEF PlaceholdersInv
<1>7. ASSUME Landed(r)
      PROVE  /\ num_output_placeholders[r] = 0
             /\ \A i \in DOMAIN batch_queue : r \notin batch_queue[i].sampled
  <2>1. \A i \in DOMAIN batch_queue : r \notin batch_queue[i].sampled
    BY <1>7 DEF Landed, PlaceholdersInv
  <2>2. SampledIn(batch_queue, r) = {}
    BY <2>1 DEF SampledIn
  <2>3. InFlight(r) = 0
    BY <2>2, FS_EmptySet DEF InFlight
  <2> QED BY <2>1, <2>3 DEF PlaceholdersInv
<1> QED BY <1>6, <1>7

LEMMA InitFlight == SchedulerInit => FlightInv
<1> SUFFICES ASSUME SchedulerInit PROVE LandedInv /\ AheadInv /\ RoomInv /\ LimitsInv
  BY DEF FlightInv
<1>1. /\ \A r \in Req : /\ status[r] = "UNSEEN" /\ num_output_tokens[r] = 0
                        /\ num_output_placeholders[r] = 0
                        /\ step.num_scheduled_tokens[r] = 0
      /\ step.phase = "idle" /\ batch_queue = <<>>
  BY DEF SchedulerInit, Idle
<1>2. \A r \in Req : /\ PromptLen[r] \in Nat \ {0} /\ MaxTokens[r] \in Nat \ {0}
                     /\ MaxModelLen \in Nat \ {0} /\ PromptLen[r] < MaxModelLen
  BY SchedulerAssumption
<1>3. MaxConcurrentBatches \in Nat
  BY SchedulerAssumption
<1>4. Len(batch_queue) = 0 /\ DOMAIN batch_queue = {}
  BY <1>1
<1>5. LandedInv
  BY <1>1, <1>3, <1>4 DEF LandedInv, Landed
<1>6. AheadInv /\ RoomInv
  BY <1>1 DEF AheadInv, RoomInv, Planned
<1>7. LimitsInv
  BY <1>1, <1>2 DEF LimitsInv, TokensToCome, NumTokens
<1> QED BY <1>5, <1>6, <1>7

\* Inside schedule() a preempted request is recorded, and a request that starts to
\* run has landed.
LEMMA WithinFlight ==
  ASSUME TypeOK, TypeOK', PlaceholdersInv, LandedInv, AheadInv, RoomInv, LimitsInv,
         step.phase # "idle", step'.phase # "idle",
         UNCHANGED <<batch_queue, num_output_tokens, num_output_placeholders>>,
         step.preempted_req_ids \subseteq step'.preempted_req_ids,
         \A r \in step'.scheduled_resumed_reqs :
           r \in step.scheduled_resumed_reqs \/ Landed(r),
         \A r \in Req :
           /\ status'[r] = status[r] \/ status'[r] \in {"RUNNING", "PREEMPTED"}
           /\ status'[r] = "PREEMPTED" =>
                status[r] = "PREEMPTED" \/ r \in step'.preempted_req_ids
           /\ status'[r] = "RUNNING" =>
                Landed(r) \/ (status[r] = "RUNNING"
                              /\ num_computed_tokens'[r] = num_computed_tokens[r])
           /\ num_computed_tokens'[r] <= num_computed_tokens[r]
           /\ Planned(r)' => ~MaxTokensInFlight(r)
  PROVE  FlightInv'
<1>1. \A r \in Req : Landed(r) => Landed(r)'
  BY DEF Landed
<1>2. LandedInv'
  <2>1. Len(batch_queue') <= MaxConcurrentBatches /\ BatchQueueHasRoom'
    BY DEF LandedInv, BatchQueueHasRoom
  <2>2. ASSUME NEW r \in Req, status'[r] \in {"UNSEEN", "WAITING", Parked} PROVE Landed(r)'
    BY <1>1, <2>2 DEF LandedInv, Parked
  <2>3. ASSUME NEW r \in Req, status'[r] = "PREEMPTED"
        PROVE  r \in step'.preempted_req_ids \/ Landed(r)'
    BY <1>1, <2>3 DEF LandedInv
  <2>4. ASSUME NEW r \in step'.scheduled_resumed_reqs PROVE Landed(r)'
    BY <2>4 DEF LandedInv, Landed
  <2> QED BY <2>1, <2>2, <2>3, <2>4 DEF LandedInv
<1>3. AheadInv'
  <2> SUFFICES ASSUME NEW r \in Req, status'[r] = "RUNNING", num_output_placeholders[r] > 0
               PROVE  num_computed_tokens'[r] = TokensToCome(r)' - 1
    BY DEF AheadInv
  <2>1. ~Landed(r)
    BY LandedHasNoPlaceholder
  <2> QED BY <2>1 DEF AheadInv, TokensToCome, NumTokens
<1>4. RoomInv'
  <2> SUFFICES ASSUME NEW r \in Req, Planned(r)' PROVE ~MaxTokensInFlight(r)'
    BY DEF RoomInv
  <2>1. num_computed_tokens'[r] \in Int
    BY DEF TypeOK, RequestsTypeOK
  <2> QED BY <2>1, CounterTypes DEF MaxTokensInFlight
<1>5. LimitsInv'
  BY DEF LimitsInv, TokensToCome, NumTokens
<1> QED BY <1>2, <1>3, <1>4, <1>5 DEF FlightInv

\* A step of schedule() that changes no request and schedules nothing.
LEMMA MovingOnFlight ==
  ASSUME TypeOK, TypeOK', ComputedInv, PlaceholdersInv, LandedInv, AheadInv, RoomInv, LimitsInv,
         step.phase # "idle", step'.phase # "idle",
         UNCHANGED <<batch_queue, status, num_computed_tokens, num_output_tokens,
                     num_output_placeholders>>,
         step'.num_scheduled_tokens = step.num_scheduled_tokens,
         step'.preempted_req_ids = step.preempted_req_ids,
         step'.scheduled_resumed_reqs = step.scheduled_resumed_reqs,
         step'.phase = "alloc" => ~MaxTokensInFlight(step'.request)
  PROVE  FlightInv'
<1>1. \A r \in Req : num_computed_tokens'[r] <= num_computed_tokens[r]
  BY CounterTypes
<1>2. \A r \in Req : Planned(r)' => ~MaxTokensInFlight(r)
  BY DEF Planned, RoomInv
<1>3. \A r \in Req : status'[r] = "RUNNING" =>
        Landed(r) \/ (status[r] = "RUNNING" /\ num_computed_tokens'[r] = num_computed_tokens[r])
  OBVIOUS
<1>4. \A r \in step'.scheduled_resumed_reqs : r \in step.scheduled_resumed_reqs \/ Landed(r)
  OBVIOUS
<1> QED BY <1>1, <1>2, <1>3, <1>4, WithinFlight

\* The steps that leave the loop, pass over a request or take it in hand.
LEMMA ConsiderFlight ==
  ASSUME TypeOK, TypeOK', ComputedInv, PlaceholdersInv, LandedInv, AheadInv, RoomInv, LimitsInv,
         \/ EndLoop \/ GiveUpAllocation \/ EndTail
         \/ \E r \in Req : \/ SkipMaxTokensInFlight(r)
                           \/ ConsiderRunning(r) \/ ConsiderWaiting(r)
  PROVE  FlightInv'
<1>1. /\ UNCHANGED <<batch_queue, status, num_computed_tokens, num_output_tokens,
                     num_output_placeholders>>
      /\ step.phase # "idle"
  BY DEF EndLoop, GiveUpAllocation, EndTail, SkipMaxTokensInFlight, ConsiderRunning,
         ConsiderWaiting, Current, Phase, requestVars, engineVars
<1>2. step \in Locals
  BY DEF TypeOK, StepTypeOK
<1>3. \/ step' = PassedOver(step) /\ step.phase = "loop"
      \/ \E phase \in {"tail", "commit"} : step' = [step EXCEPT !.phase = phase]
      \/ step' = [step EXCEPT !.phase = "commit", !.request = NoRequest,
                              !.num_new_tokens = 0, !.compute_encoder = FALSE]
      \/ \E r \in Req : /\ ~MaxTokensInFlight(r)
                        /\ \E outcome : TryToAllocate(r, outcome)
  <2>1. CASE EndLoop \/ GiveUpAllocation \/ EndTail \/ \E r \in Req : SkipMaxTokensInFlight(r)
    BY <2>1 DEF EndLoop, GiveUpAllocation, EndTail, SkipMaxTokensInFlight, Current, Phase
  <2>2. ASSUME NEW r \in Req, ConsiderRunning(r)
        PROVE  \/ step' = PassedOver(step) /\ step.phase = "loop"
               \/ ~MaxTokensInFlight(r) /\ \E outcome : TryToAllocate(r, outcome)
    BY <2>2 DEF ConsiderRunning, Current, Phase
  <2>3. ASSUME NEW r \in Req, ConsiderWaiting(r)
        PROVE  \/ step' = [step EXCEPT !.phase = "commit"]
               \/ ~MaxTokensInFlight(r) /\ \E outcome : TryToAllocate(r, outcome)
    BY <2>3 DEF ConsiderWaiting
  <2> QED BY <2>1, <2>2, <2>3
<1>4. /\ step'.num_scheduled_tokens = step.num_scheduled_tokens
      /\ step'.preempted_req_ids = step.preempted_req_ids
      /\ step'.scheduled_resumed_reqs = step.scheduled_resumed_reqs
      /\ step'.phase # "idle"
      /\ step'.phase = "alloc" => ~MaxTokensInFlight(step'.request)
  BY <1>2, <1>3 DEF PassedOver, TryToAllocate, Locals
<1> QED BY <1>1, <1>4, MovingOnFlight

\* schedule() begins when the batch before the newest has answered.
LEMMA BeginFlight ==
  ASSUME AtMostTwoBatches, TypeOK, TypeOK', LandedInv, AheadInv, RoomInv, LimitsInv,
         BeginSchedule
  PROVE  FlightInv'
<1>1. /\ step.phase = "idle" /\ BatchQueueHasRoom
      /\ UNCHANGED <<batch_queue, status, num_computed_tokens, num_output_tokens,
                     num_output_placeholders>>
      /\ step'.phase = "loop" /\ step'.scheduled_resumed_reqs = {}
      /\ step'.num_scheduled_tokens = [r \in Req |-> 0]
  BY DEF BeginSchedule, BetweenSteps, Phase, Idle, engineVars
<1>2. /\ Len(batch_queue) \in Nat /\ DOMAIN batch_queue = 1 .. Len(batch_queue)
      /\ MaxConcurrentBatches \in Nat
  BY LenProperties, SchedulerAssumption DEF TypeOK, QueuesTypeOK
<1>3. \A i \in DOMAIN batch_queue : ~(i < Len(batch_queue))
  BY <1>1, <1>2 DEF BatchQueueHasRoom, AtMostTwoBatches
<1>4. \A r \in Req : status[r] = "PREEMPTED" => Landed(r)
  BY <1>1, <1>3 DEF LandedInv, Landed
<1>5. LandedInv'
  BY <1>1, <1>4 DEF LandedInv, Landed, BatchQueueHasRoom
<1>6. AheadInv' /\ LimitsInv'
  BY <1>1 DEF AheadInv, LimitsInv, TokensToCome, NumTokens
<1>7. RoomInv'
  BY <1>1 DEF RoomInv, Planned
<1> QED BY <1>5, <1>6, <1>7 DEF FlightInv

\* A request that gets its slots was in hand, and one that starts to run has landed.
LEMMA ScheduleFlight ==
  ASSUME TypeOK, TypeOK', IndexInv, QueueInv, PlaceholdersInv, LandedInv, AheadInv, RoomInv,
         LimitsInv, NEW r \in Req, ScheduleRunning(r) \/ ScheduleWaiting(r)
  PROVE  FlightInv'
<1>1. /\ Phase("alloc") /\ step.phase = "alloc" /\ r = step.request
      /\ UNCHANGED <<batch_queue, num_computed_tokens, num_output_tokens,
                     num_output_placeholders>>
  BY DEF ScheduleRunning, ScheduleWaiting, requestVars, engineVars, Phase
<1>2. step \in Locals /\ Scheduled(r, step) \in Locals
  BY LocalsTypes DEF TypeOK, StepTypeOK
<1>3. \/ /\ ScheduleRunning(r)
         /\ step' = [Scheduled(r, step) EXCEPT !.scheduled_running_reqs = @ \cup {r}]
         /\ status' = status
      \/ /\ ScheduleWaiting(r)
         /\ step' = [Scheduled(r, step) EXCEPT !.scheduled_resumed_reqs =
                       IF status[r] = "PREEMPTED" THEN @ \cup {r} ELSE @]
         /\ status' = [status EXCEPT ![r] = "RUNNING"]
  BY DEF ScheduleRunning, ScheduleWaiting, requestVars
<1>4. /\ step'.phase = Scheduled(r, step).phase
      /\ step'.num_scheduled_tokens = Scheduled(r, step).num_scheduled_tokens
      /\ step'.preempted_req_ids = Scheduled(r, step).preempted_req_ids
      /\ \A q \in step'.scheduled_resumed_reqs :
           \/ q \in Scheduled(r, step).scheduled_resumed_reqs
           \/ q = r /\ ScheduleWaiting(r)
  BY <1>2, <1>3 DEF Locals
<1>5. /\ step'.phase = "loop"
      /\ step'.num_scheduled_tokens =
           [step.num_scheduled_tokens EXCEPT ![r] = step.num_new_tokens]
      /\ step'.preempted_req_ids = step.preempted_req_ids
      /\ \A q \in step'.scheduled_resumed_reqs :
           q \in step.scheduled_resumed_reqs \/ (q = r /\ ScheduleWaiting(r))
  BY <1>2, <1>4, ScheduledFields
<1>6. ScheduleWaiting(r) => Landed(r)
  <2> SUFFICES ASSUME ScheduleWaiting(r) PROVE Landed(r)
    OBVIOUS
  <2>1. /\ r \in waiting_req_ids /\ Roles /\ RolesInv /\ InSchedule /\ LoopInv
        /\ r \in Range(combined) /\ r \notin preempted_req_ids
    BY <1>1, InHandIsListed, DuringSchedule DEF ScheduleWaiting
  <2>2. status[r] \in Queued \ {"RUNNING"}
    <3>1. status[r] \in Queued
      BY <2>1, DuringSchedule
    <3> QED BY <1>1, <2>1, <3>1 DEF Roles, RolesInv, Denied
  <2>3. r \notin step.preempted_req_ids
    BY <1>1, <2>1 DEF LoopInv
  <2> QED BY <1>1, <2>2, <2>3 DEF LandedInv, Queued
<1>7. \A q \in Req : /\ status'[q] = status[q] \/ (q = r /\ status'[q] = "RUNNING")
                     /\ q = r /\ ~ScheduleWaiting(r) => status'[q] = status[q]
  BY <1>3 DEF TypeOK, RequestsTypeOK
<1>8. \A q \in Req : status'[q] = "RUNNING" =>
        Landed(q) \/ (status[q] = "RUNNING" /\ num_computed_tokens'[q] = num_computed_tokens[q])
  BY <1>1, <1>6, <1>7
<1>9. \A q \in Req : Planned(q)' => ~MaxTokensInFlight(q)
  <2>1. \A q \in Req \ {r} : step'.num_scheduled_tokens[q] = step.num_scheduled_tokens[q]
    BY <1>2, <1>5 DEF Locals
  <2>2. \A q \in Req : Planned(q)' => Planned(q)
    BY <1>1, <1>5, <2>1 DEF Planned
  <2> QED BY <2>2 DEF RoomInv
<1>10. \A q \in Req : num_computed_tokens'[q] <= num_computed_tokens[q]
  BY <1>1, CounterTypes
<1>11. \A q \in step'.scheduled_resumed_reqs : q \in step.scheduled_resumed_reqs \/ Landed(q)
  BY <1>5, <1>6
<1>12. /\ step.phase # "idle" /\ step'.phase # "idle"
       /\ step.preempted_req_ids \subseteq step'.preempted_req_ids
  BY <1>1, <1>5
<1>13. \A q \in Req : /\ status'[q] = status[q] \/ status'[q] \in {"RUNNING", "PREEMPTED"}
                      /\ status'[q] = "PREEMPTED" =>
                           status[q] = "PREEMPTED" \/ q \in step'.preempted_req_ids
  BY <1>7
<1> QED BY <1>1, <1>8, <1>9, <1>10, <1>11, <1>12, <1>13, WithinFlight

\* A preempted request is recorded, and starts from 0.
LEMMA PreemptFlight ==
  ASSUME TypeOK, TypeOK', ComputedInv, PlaceholdersInv, LandedInv, AheadInv, RoomInv, LimitsInv,
         NEW r \in Req, PreemptLastRunning(r) \/ PreemptUnreached(r)
  PROVE  FlightInv'
<1>1. /\ step.phase # "idle"
      /\ UNCHANGED <<batch_queue, num_output_tokens, num_output_placeholders>>
      /\ status' = [status EXCEPT ![r] = "PREEMPTED"]
      /\ num_computed_tokens' = [num_computed_tokens EXCEPT ![r] = 0]
  BY DEF PreemptLastRunning, PreemptUnreached, Preempt, Phase, engineVars
<1>2. step \in Locals /\ Unscheduled(r, step) \in Locals
  BY LocalsTypes DEF TypeOK, StepTypeOK
<1>3. /\ step'.preempted_req_ids = step.preempted_req_ids \cup {r}
      /\ step'.scheduled_resumed_reqs = step.scheduled_resumed_reqs
      /\ step'.phase # "idle"
      /\ \A q \in Req : step'.num_scheduled_tokens[q] \in {step.num_scheduled_tokens[q], 0}
      /\ step'.phase = "alloc" => step.phase = "alloc" /\ step'.request = step.request
  <2>1. CASE PreemptUnreached(r)
    <3>1. PICK i \in step.req_index .. Len(combined) :
            step' = [step EXCEPT !.req_index = i + 1, !.preempted_req_ids = @ \cup {r}]
      BY <2>1 DEF PreemptUnreached
    <3>2. step.phase = "tail"
      BY <2>1 DEF PreemptUnreached, Phase
    <3> QED BY <1>2, <3>1, <3>2 DEF Locals
  <2>2. CASE PreemptLastRunning(r)
    <3> DEFINE undone == Unscheduled(r, step)
               local == [undone EXCEPT !.preempted_req_ids = @ \cup {r}]
    <3>1. /\ undone.phase = step.phase /\ undone.request = step.request
          /\ undone.preempted_req_ids = step.preempted_req_ids
          /\ undone.scheduled_resumed_reqs = step.scheduled_resumed_reqs
          /\ \A q \in Req : undone.num_scheduled_tokens[q] \in {step.num_scheduled_tokens[q], 0}
      BY <1>2 DEF Unscheduled, Locals
    <3>2. /\ step.phase = "alloc"
          /\ step' = IF r = step.request
                     THEN [local EXCEPT !.phase = "commit", !.request = NoRequest,
                             !.num_new_tokens = 0, !.compute_encoder = FALSE]
                     ELSE local
      BY <2>2 DEF PreemptLastRunning, Phase
    <3>3. undone \in Locals
      BY <1>2
    <3> HIDE DEF undone
    <3>4. /\ step'.num_scheduled_tokens = undone.num_scheduled_tokens
          /\ step'.preempted_req_ids = undone.preempted_req_ids \cup {r}
          /\ step'.scheduled_resumed_reqs = undone.scheduled_resumed_reqs
          /\ \/ step'.phase = "commit"
             \/ step'.phase = undone.phase /\ step'.request = undone.request
      BY <3>2, <3>3 DEF Locals
    <3> QED BY <3>1, <3>2, <3>4
  <2> QED BY <2>1, <2>2
<1>4. \A q \in Req : /\ status'[q] = IF q = r THEN "PREEMPTED" ELSE status[q]
                     /\ num_computed_tokens'[q] = IF q = r THEN 0 ELSE num_computed_tokens[q]
  BY <1>1 DEF TypeOK, RequestsTypeOK
<1>5. \A q \in Req : num_computed_tokens'[q] <= num_computed_tokens[q]
  BY <1>4, CounterTypes DEF ComputedInv
<1>6. \A q \in Req : Planned(q)' => ~MaxTokensInFlight(q)
  BY <1>3 DEF Planned, RoomInv
<1> QED BY <1>1, <1>3, <1>4, <1>5, <1>6, WithinFlight

\* A batch is sent: the tokens it samples are those that follow what it computes.
LEMMA CommitFlight ==
  ASSUME AtMostTwoBatches, TypeOK, TypeOK', QueueInv, PlaceholdersInv, TokensInv, LandedInv,
         AheadInv, RoomInv, LimitsInv, CommitSchedule
  PROVE  FlightInv'
<1>1. /\ failed_assertion = "none" /\ step.phase = "commit" /\ step' = Idle
      /\ UNCHANGED <<status, num_output_tokens>>
  BY DEF CommitSchedule, Phase
<1>2. /\ ScheduledInv /\ UnfinishedInv /\ ComputedInv
  BY <1>1 DEF QueueInv, TokensInv
<1> DEFINE Batch(s) == [scheduled |-> ScheduledReqs, sampled |-> s]
<1>3. PICK sampled \in SUBSET ScheduledReqs :
        /\ Batch(sampled) \in Batches
        /\ batch_queue' = Append(batch_queue, Batch(sampled))
        /\ \A r \in Req :
             /\ num_computed_tokens'[r] = num_computed_tokens[r] + step.num_scheduled_tokens[r]
             /\ r \in sampled <=>
                  /\ step.num_scheduled_tokens[r] > 0
                  /\ num_computed_tokens'[r] >= NumTokens(r) + num_output_placeholders[r]
             /\ num_output_placeholders'[r] = num_output_placeholders[r]
                  + (IF AsyncScheduling /\ r \in sampled THEN 1 ELSE 0)
  BY CommitEffects
<1>4. /\ Len(batch_queue) \in Nat /\ DOMAIN batch_queue = 1 .. Len(batch_queue)
      /\ Len(batch_queue') = Len(batch_queue) + 1
      /\ DOMAIN batch_queue' = 1 .. (Len(batch_queue) + 1)
      /\ \A i \in DOMAIN batch_queue : batch_queue'[i] = batch_queue[i]
      /\ \A i \in DOMAIN batch_queue' : i \in DOMAIN batch_queue \/ i = Len(batch_queue')
      /\ batch_queue'[Len(batch_queue')].scheduled = ScheduledReqs
  <2>1. batch_queue \in Seq(Batches)
    BY DEF TypeOK, QueuesTypeOK
  <2> QED BY <1>3, <2>1, OneMore
<1>5. \A r \in ScheduledReqs : r \in Req /\ status[r] = "RUNNING"
  BY <1>1, <1>2 DEF ScheduledReqs, ScheduledInv
<1>6. \A r \in Req : r \notin ScheduledReqs => (Landed(r) => Landed(r)')
  BY <1>4 DEF Landed
<1>7. LandedInv'
  <2>1. Len(batch_queue') <= MaxConcurrentBatches
    BY <1>1, <1>4, SchedulerAssumption DEF LandedInv, BatchQueueHasRoom
  <2>2. ASSUME NEW r \in Req, status'[r] \in {"UNSEEN", "WAITING", Parked} PROVE Landed(r)'
    <3>1. r \notin ScheduledReqs /\ Landed(r)
      BY <1>1, <1>5, <2>2 DEF LandedInv, Parked
    <3> QED BY <1>6, <3>1
  <2>3. ASSUME NEW r \in Req, status'[r] = "PREEMPTED", NEW i \in DOMAIN batch_queue',
               r \in batch_queue'[i].scheduled
        PROVE  i < Len(batch_queue')
    <3>1. r \notin ScheduledReqs
      BY <1>1, <1>5, <2>3
    <3>2. i \in DOMAIN batch_queue
      BY <1>4, <2>3, <3>1
    <3> QED BY <1>4, <3>2
  <2>4. step'.phase = "idle"
    BY <1>1 DEF Idle
  <2> QED BY <2>1, <2>2, <2>3, <2>4 DEF LandedInv
<1>8. \A r \in Req :
        /\ num_computed_tokens[r] \in Int /\ num_output_placeholders[r] \in Int
        /\ num_output_placeholders[r] >= 0
        /\ step.num_scheduled_tokens[r] \in Int /\ step.num_scheduled_tokens[r] >= 0
        /\ num_computed_tokens[r] + step.num_scheduled_tokens[r] <= TokensToCome(r)
        /\ num_computed_tokens[r] + step.num_scheduled_tokens[r] <= MaxModelLen - 1
        /\ TokensToCome(r) = NumTokens(r) + num_output_placeholders[r]
        /\ NumTokens(r) = PromptLen[r] + num_output_tokens[r]
        /\ TokensToCome(r) \in Int /\ NumTokens(r) \in Nat
        /\ num_output_tokens[r] \in Nat /\ PromptLen[r] \in Nat
        /\ MaxTokens[r] \in Nat /\ MaxModelLen \in Nat
  BY <1>2, CounterTypes DEF TokensInv, SignsInv, ComputedInv, MayCompute, TokensToCome, NumTokens
<1>9. \A r \in Req :
        /\ NumTokens(r)' = NumTokens(r)
        /\ num_output_placeholders'[r] = num_output_placeholders[r]
             + (IF AsyncScheduling /\ r \in sampled THEN 1 ELSE 0)
        /\ TokensToCome(r)' = NumTokens(r) + num_output_placeholders'[r]
  BY <1>1, <1>3 DEF NumTokens, TokensToCome
<1>10. ~AsyncScheduling => \A r \in Req : num_output_placeholders[r] = 0
  <2> SUFFICES ASSUME ~AsyncScheduling, NEW r \in Req PROVE num_output_placeholders[r] = 0
    OBVIOUS
  <2>1. SampledIn(batch_queue, r) = {}
    BY DEF SampledIn
  <2>2. InFlight(r) = 0
    BY <2>1, FS_EmptySet DEF InFlight
  <2> QED BY <2>2 DEF PlaceholdersInv
<1>11. AheadInv'
  <2> SUFFICES ASSUME NEW r \in Req, status[r] = "RUNNING", num_output_placeholders'[r] > 0
               PROVE  num_computed_tokens'[r] = TokensToCome(r)' - 1
    BY <1>1 DEF AheadInv
  <2>1. AsyncScheduling
    BY <1>8, <1>9, <1>10
  <2>2. CASE r \in sampled
    <3>1. /\ num_computed_tokens'[r] = num_computed_tokens[r] + step.num_scheduled_tokens[r]
          /\ num_computed_tokens'[r] >= NumTokens(r) + num_output_placeholders[r]
      BY <1>3, <2>2
    <3>2. TokensToCome(r)' = TokensToCome(r) + 1
      BY <1>8, <1>9, <2>1, <2>2
    <3>3. num_computed_tokens'[r] = TokensToCome(r)
      BY <1>8, <3>1
    <3> QED BY <1>8, <3>2, <3>3
  <2>3. CASE r \notin sampled
    <3>1. num_output_placeholders'[r] = num_output_placeholders[r]
      BY <1>8, <1>9, <2>3
    <3>2. num_computed_tokens[r] = TokensToCome(r) - 1
      BY <3>1 DEF AheadInv
    <3>3. step.num_scheduled_tokens[r] = 0
      <4>1. /\ num_computed_tokens[r] \in Int /\ step.num_scheduled_tokens[r] \in Int
            /\ step.num_scheduled_tokens[r] >= 0 /\ TokensToCome(r) \in Int
            /\ TokensToCome(r) = NumTokens(r) + num_output_placeholders[r]
        BY <1>8
      <4>2. /\ num_computed_tokens'[r] = num_computed_tokens[r] + step.num_scheduled_tokens[r]
            /\ ~(/\ step.num_scheduled_tokens[r] > 0
                 /\ num_computed_tokens'[r] >= NumTokens(r) + num_output_placeholders[r])
        BY <1>3, <2>3
      <4> QED BY <3>2, <4>1, <4>2
    <3> QED BY <1>3, <1>8, <1>9, <3>1, <3>2, <3>3
  <2> QED BY <2>2, <2>3
<1>12. RoomInv'
  BY <1>1 DEF RoomInv, Planned, Idle
<1>13. LimitsInv'
  <2> SUFFICES ASSUME NEW r \in Req
               PROVE  /\ num_output_tokens[r] + num_output_placeholders'[r] <= MaxTokens[r]
                      /\ TokensToCome(r)' <= MaxModelLen
    BY <1>1 DEF LimitsInv
  <2>1. CASE ~(AsyncScheduling /\ r \in sampled)
    <3>1. num_output_placeholders'[r] = num_output_placeholders[r]
      BY <1>8, <1>9, <2>1
    <3> QED BY <1>8, <1>9, <3>1 DEF LimitsInv
  <2>2. CASE AsyncScheduling /\ r \in sampled
    <3>1. num_output_placeholders'[r] = num_output_placeholders[r] + 1
      BY <1>9, <2>2
    <3>2. status[r] = "RUNNING"
      BY <1>5, <2>2
    <3>3. CASE num_output_placeholders[r] = 0
      <4>1. num_output_tokens[r] < MaxTokens[r] /\ NumTokens(r) < MaxModelLen
        BY <1>2, <3>2 DEF UnfinishedInv, FinishedStatuses
      <4> QED BY <1>8, <1>9, <3>1, <3>3, <4>1
    <3>4. CASE num_output_placeholders[r] # 0
      <4>1. num_output_placeholders[r] = 1
        <5>1. Len(batch_queue) <= 1
          BY <1>1, <1>4, SchedulerAssumption DEF LandedInv, BatchQueueHasRoom, AtMostTwoBatches
        <5>2. num_output_placeholders[r] \in 0 .. Len(batch_queue)
          BY LandedHasNoPlaceholder
        <5> QED BY <1>4, <3>4, <5>1, <5>2
      <4>2. num_computed_tokens[r] = TokensToCome(r) - 1
        BY <3>2, <4>1 DEF AheadInv
      <4>3. ~MaxTokensInFlight(r)
        BY <1>3, <2>2 DEF RoomInv, Planned
      <4>4. num_computed_tokens[r] + 2 - 1 < PromptLen[r] + MaxTokens[r]
        BY <1>8, <4>1, <4>3 DEF MaxTokensInFlight
      <4>5. num_output_tokens[r] + 2 <= MaxTokens[r]
        BY <1>8, <4>1, <4>2, <4>4
      <4>6. /\ num_computed_tokens'[r] >= TokensToCome(r)
            /\ num_computed_tokens'[r] = num_computed_tokens[r] + step.num_scheduled_tokens[r]
        BY <1>3, <1>8, <2>2
      <4>7. TokensToCome(r) + 1 <= MaxModelLen
        BY <1>8, <4>6
      <4> QED BY <1>8, <1>9, <3>1, <4>1, <4>5, <4>7
    <3> QED BY <3>3, <3>4
  <2> QED BY <2>1, <2>2
<1> QED BY <1>7, <1>11, <1>12, <1>13 DEF FlightInv

\* Between two steps: who lands stays landed, and no request becomes waiting again.
LEMMA AnsweredFlight ==
  ASSUME TypeOK, TypeOK', TokensInv, PlaceholdersInv, LandedInv, AheadInv, LimitsInv,
         UpdateFromOutput
  PROVE  FlightInv'
<1>1. PICK discarded \in SUBSET Req, extended \in SUBSET Req, stopped \in SUBSET Req :
        Answered(discarded, extended, stopped)
  BY OutputEffects
<1>2. /\ step.phase = "idle" /\ step' = step
      /\ batch_queue # <<>> /\ batch_queue' = Tail(batch_queue)
      /\ batch_queue \in Seq(Batches)
      /\ SignsInv /\ UnfinishedInv /\ ComputedInv
  BY DEF UpdateFromOutput, Phase, TokensInv, TypeOK, QueuesTypeOK
<1>3. /\ Len(batch_queue) \in Nat \ {0} /\ DOMAIN batch_queue = 1 .. Len(batch_queue)
      /\ Len(batch_queue') = Len(batch_queue) - 1
      /\ DOMAIN batch_queue' = 1 .. (Len(batch_queue) - 1)
      /\ \A i \in 1 .. (Len(batch_queue) - 1) :
           i + 1 \in 1 .. Len(batch_queue) /\ batch_queue'[i] = batch_queue[i + 1]
  BY <1>2, OneLess
<1>4. \A r \in Req : /\ r \notin stopped => status'[r] = status[r]
                     /\ r \in stopped => status'[r] \in FinishedStatuses
  BY <1>1 DEF Answered, FinishedStatuses
<1>5. LandedInv'
  <2>1. Len(batch_queue') <= MaxConcurrentBatches
    BY <1>3, SchedulerAssumption DEF LandedInv
  <2>2. ASSUME NEW r \in Req, status'[r] \in {"UNSEEN", "WAITING", Parked} PROVE Landed(r)'
    <3>1. Landed(r)
      BY <1>4, <2>2 DEF LandedInv, FinishedStatuses, Parked
    <3> QED BY <1>3, <3>1 DEF Landed
  <2>3. ASSUME NEW r \in Req, status'[r] = "PREEMPTED", NEW i \in DOMAIN batch_queue',
               r \in batch_queue'[i].scheduled
        PROVE  i < Len(batch_queue')
    <3>1. status[r] = "PREEMPTED"
      BY <1>4, <2>3 DEF FinishedStatuses
    <3>2. i + 1 \in DOMAIN batch_queue /\ r \in batch_queue[i + 1].scheduled
      BY <1>3, <2>3
    <3>3. i + 1 < Len(batch_queue)
      BY <1>2, <3>1, <3>2 DEF LandedInv
    <3> QED BY <1>3, <3>3
  <2> QED BY <1>2, <2>1, <2>2, <2>3 DEF LandedInv
<1>6. ASSUME NEW r \in Req
      PROVE  /\ num_output_tokens'[r] = num_output_tokens[r] + (IF r \in extended THEN 1 ELSE 0)
             /\ num_output_placeholders'[r] =
                  IF r \in stopped THEN 0
                  ELSE num_output_placeholders[r]
                         - (IF r \in extended /\ AsyncScheduling THEN 1 ELSE 0)
             /\ num_computed_tokens'[r] = IF r \in stopped THEN 0 ELSE num_computed_tokens[r]
             /\ NumTokens(r)' = PromptLen[r] + num_output_tokens'[r]
             /\ TokensToCome(r)' = PromptLen[r] + num_output_tokens'[r]
                                     + num_output_placeholders'[r]
             /\ TokensToCome(r) = PromptLen[r] + num_output_tokens[r]
                                     + num_output_placeholders[r]
  BY <1>1 DEF Answered, NumTokens, TokensToCome
<1>7. ~AsyncScheduling => \A r \in Req : num_output_placeholders[r] = 0
  <2> SUFFICES ASSUME ~AsyncScheduling, NEW r \in Req PROVE num_output_placeholders[r] = 0
    OBVIOUS
  <2>1. SampledIn(batch_queue, r) = {}
    BY DEF SampledIn
  <2>2. InFlight(r) = 0
    BY <2>1, FS_EmptySet DEF InFlight
  <2> QED BY <2>2 DEF PlaceholdersInv
<1>8. AheadInv'
  <2> SUFFICES ASSUME NEW r \in Req, status'[r] = "RUNNING", num_output_placeholders'[r] > 0
               PROVE  num_computed_tokens'[r] = TokensToCome(r)' - 1
    BY DEF AheadInv
  <2>1. r \notin stopped /\ status[r] = "RUNNING"
    BY <1>4 DEF FinishedStatuses
  <2>2. num_computed_tokens'[r] = num_computed_tokens[r]
    BY <1>6, <2>1
  <2>3. num_output_placeholders'[r] = num_output_placeholders[r]
          - (IF r \in extended /\ AsyncScheduling THEN 1 ELSE 0)
    BY <1>6, <2>1
  <2>4. num_output_placeholders[r] > 0
    BY <2>3, CounterTypes
  <2>5. AsyncScheduling
    BY <1>7, <2>4
  <2>6. TokensToCome(r)' = TokensToCome(r)
    BY <1>6, <2>3, <2>5, CounterTypes
  <2>7. num_computed_tokens[r] = TokensToCome(r) - 1
    BY <2>1, <2>4 DEF AheadInv
  <2> QED BY <2>2, <2>6, <2>7
<1>9. RoomInv'
  BY <1>2 DEF RoomInv, Planned, ComputedInv
<1>10. LimitsInv'
  <2> SUFFICES ASSUME NEW r \in Req
               PROVE  /\ num_output_tokens'[r] + num_output_placeholders'[r] <= MaxTokens[r]
                      /\ TokensToCome(r)' <= MaxModelLen
    BY DEF LimitsInv
  <2>1. /\ num_output_tokens[r] + num_output_placeholders[r] <= MaxTokens[r]
        /\ PromptLen[r] + num_output_tokens[r] + num_output_placeholders[r] <= MaxModelLen
        /\ num_output_placeholders[r] >= 0
    BY <1>2, <1>6 DEF LimitsInv, SignsInv
  <2>2. CASE r \in extended
    <3>1. num_output_tokens[r] < MaxTokens[r] /\ PromptLen[r] + num_output_tokens[r] < MaxModelLen
      <4>1. r \in requests
        BY <1>1, <2>2 DEF Answered, Unfinished
      <4>2. status[r] \notin FinishedStatuses
        BY <1>1, <2>2, <4>1 DEF Answered, Unfinished, requests
      <4> QED BY <1>2, <4>2 DEF UnfinishedInv, NumTokens
    <3>2. num_output_tokens'[r] = num_output_tokens[r] + 1
      BY <1>6, <2>2
    <3>3. \/ num_output_placeholders'[r] = 0
          \/ num_output_placeholders'[r] = num_output_placeholders[r] - 1
      <4>1. CASE AsyncScheduling
        BY <1>6, <2>2, <4>1
      <4>2. CASE ~AsyncScheduling
        BY <1>6, <1>7, <2>2, <4>2
      <4> QED BY <4>1, <4>2
    <3> QED BY <1>6, <2>1, <3>1, <3>2, <3>3, CounterTypes
  <2>3. CASE r \notin extended
    <3>1. r \notin stopped
      BY <1>1, <2>3 DEF Answered
    <3>2. /\ num_output_tokens'[r] = num_output_tokens[r]
          /\ num_output_placeholders'[r] = num_output_placeholders[r]
      BY <1>6, <2>3, <3>1, CounterTypes
    <3> QED BY <1>6, <2>1, <3>2
  <2> QED BY <2>2, <2>3
<1> QED BY <1>5, <1>8, <1>9, <1>10 DEF FlightInv

\* What clients ask for puts nothing in flight.
LEMMA ClientFlight ==
  ASSUME "reset" \notin ClientOps, TypeOK, TokensInv, LandedInv, AheadInv, LimitsInv,
         ClientStep
  PROVE  FlightInv'
<1>1. /\ step.phase = "idle" /\ step' = step /\ num_output_tokens' = num_output_tokens
      /\ batch_queue' = batch_queue
      /\ SignsInv /\ ComputedInv
  BY DEF ClientStep, AddRequest, AbortRequest, SetPauseState, ResetPrefixCache,
         BetweenSteps, Phase, TokensInv, requestVars, engineVars
<1>2. status \in [Req -> Statuses]
  BY DEF TypeOK, RequestsTypeOK
<1>3. ASSUME NEW r \in Req
      PROVE  /\ num_output_placeholders'[r] \in {num_output_placeholders[r], 0}
             /\ status'[r] \in {"UNSEEN", "PREEMPTED", "RUNNING"} =>
                  /\ status'[r] = status[r]
                  /\ num_computed_tokens'[r] = num_computed_tokens[r]
                  /\ num_output_placeholders'[r] = num_output_placeholders[r]
             /\ status'[r] \in {"WAITING", Parked} =>
                  status[r] \in {"UNSEEN", "WAITING", Parked}
  <2>1. CASE \E q \in Req : AddRequest(q)
    <3>1. PICK q \in Req : AddRequest(q)
      BY <2>1
    <3>2. /\ UNCHANGED <<num_computed_tokens, num_output_placeholders>>
          /\ status[q] = "UNSEEN"
          /\ \E s \in {"WAITING", Parked} : status' = [status EXCEPT ![q] = s]
      BY <3>1 DEF AddRequest, Parked
    <3> QED BY <1>2, <3>2 DEF Parked
  <2>2. CASE \E q \in Req : AbortRequest(q)
    <3>1. PICK q \in Req : AbortRequest(q)
      BY <2>2
    <3>2. /\ num_computed_tokens' = Zeroed(num_computed_tokens, {q})
          /\ num_output_placeholders' = Zeroed(num_output_placeholders, {q})
          /\ status' = [status EXCEPT ![q] = "FINISHED_ABORTED"]
      BY <3>1 DEF AbortRequest, FreeRequests
    <3> QED BY <1>2, <3>2 DEF Zeroed, Parked
  <2>3. CASE \E pause \in {"UNPAUSED", "PAUSED_NEW", "PAUSED_ALL"} : SetPauseState(pause)
    BY <2>3 DEF SetPauseState, requestVars
  <2> QED BY <2>1, <2>2, <2>3 DEF ClientStep, ResetPrefixCache
<1>4. LandedInv'
  <2>1. \A r \in Req : Landed(r) => Landed(r)'
    BY <1>1 DEF Landed
  <2>2. \A r \in Req : status'[r] \in {"UNSEEN", "WAITING", Parked} => Landed(r)'
    BY <1>3, <2>1 DEF LandedInv
  <2>3. \A r \in Req : status'[r] = "PREEMPTED" => status[r] = "PREEMPTED"
    BY <1>3
  <2> QED BY <1>1, <2>2, <2>3 DEF LandedInv
<1>5. AheadInv'
  BY <1>1, <1>3 DEF AheadInv, TokensToCome, NumTokens
<1>6. RoomInv'
  BY <1>1 DEF RoomInv, Planned, ComputedInv
<1>7. LimitsInv'
  <2> SUFFICES ASSUME NEW r \in Req
               PROVE  /\ num_output_tokens[r] + num_output_placeholders'[r] <= MaxTokens[r]
                      /\ TokensToCome(r)' <= MaxModelLen
    BY <1>1 DEF LimitsInv
  <2>1. /\ num_output_tokens[r] + num_output_placeholders[r] <= MaxTokens[r]
        /\ NumTokens(r) + num_output_placeholders[r] <= MaxModelLen
        /\ num_output_placeholders[r] >= 0
    BY <1>1 DEF LimitsInv, SignsInv, TokensToCome
  <2>2. /\ TokensToCome(r)' = NumTokens(r) + num_output_placeholders'[r]
        /\ num_output_placeholders'[r] \in {num_output_placeholders[r], 0}
    BY <1>1, <1>3 DEF TokensToCome, NumTokens
  <2> QED BY <2>1, <2>2, CounterTypes
<1> QED BY <1>4, <1>5, <1>6, <1>7 DEF FlightInv

\* Every step keeps what is said of the tokens in flight.
LEMMA NextFlight ==
  ASSUME "reset" \notin ClientOps, EveryImageFits, AtMostTwoBatches,
         TypeOK, IndexInv, QueueInv, InFlightInv, TokensInv, FlightInv, TypeOK',
         [SchedulerNext]_vars
  PROVE  FlightInv'
<1>1. SUFFICES ASSUME failed_assertion = "none" PROVE FlightInv'
  <2>1. failed_assertion # "none" => failed_assertion' # "none"
    <3> SUFFICES ASSUME failed_assertion # "none" PROVE UNCHANGED failed_assertion
      OBVIOUS
    <3>1. ~CommitSchedule
      BY DEF CommitSchedule, Phase
    <3>2. ~ScheduleStep
      BY <3>1, WithinScheduleUnchanged
    <3>3. ~ClientStep /\ ~UpdateFromOutput /\ ~EngineIdle
      BY DEF ClientStep, AddRequest, AbortRequest, SetPauseState, ResetPrefixCache,
             BetweenSteps, UpdateFromOutput, EngineIdle, Phase
    <3> QED BY <3>2, <3>3 DEF SchedulerNext, EngineStep, EngineDead, vars
  <2> QED BY <2>1 DEF FlightInv
<1>2. /\ PlaceholdersInv /\ ComputedInv
      /\ LandedInv /\ AheadInv /\ RoomInv /\ LimitsInv
  BY <1>1 DEF InFlightInv, TokensInv, FlightInv
<1>3. CASE ClientStep
  BY <1>2, <1>3, ClientFlight
<1>4. CASE UpdateFromOutput
  BY <1>2, <1>4, AnsweredFlight
<1>5. CASE ScheduleStep
  <2>1. CASE BeginSchedule
    BY <1>2, <2>1, BeginFlight
  <2>2. CASE \/ EndLoop \/ GiveUpAllocation \/ EndTail
             \/ \E r \in Req : \/ SkipMaxTokensInFlight(r)
                               \/ ConsiderRunning(r) \/ ConsiderWaiting(r)
    BY <1>2, <2>2, ConsiderFlight
  <2>3. CASE CommitSchedule
    BY <1>2, <2>3, CommitFlight
  <2>4. CASE ScheduleRaises
    BY <2>4 DEF ScheduleRaises, FlightInv
  <2>5. ASSUME NEW r \in Req, ScheduleRunning(r) \/ ScheduleWaiting(r) PROVE FlightInv'
    BY <1>2, <2>5, ScheduleFlight
  <2>6. ASSUME NEW r \in Req, PreemptLastRunning(r) \/ PreemptUnreached(r) PROVE FlightInv'
    BY <1>2, <2>6, PreemptFlight
  <2> QED BY <1>5, <2>1, <2>2, <2>3, <2>4, <2>5, <2>6, NothingIsIgnored DEF ScheduleStep
<1>6. CASE UNCHANGED vars
  BY <1>2, <1>6 DEF vars, requestVars, engineVars, FlightInv, LandedInv, Landed,
                    BatchQueueHasRoom, AheadInv, RoomInv, Planned, MaxTokensInFlight,
                    LimitsInv, TokensToCome, NumTokens
<1> QED BY <1>3, <1>4, <1>5, <1>6 DEF SchedulerNext, EngineStep, EngineIdle, EngineDead

\* FlightInv holds in every reachable state.
THEOREM FlightInductive ==
  ASSUME "reset" \notin ClientOps, DistinctArrivals, EveryImageFits, AtMostTwoBatches
  PROVE  SchedulerSpec =>
           [](TypeOK /\ IndexInv /\ QueueInv /\ InFlightInv /\ TokensInv /\ FlightInv)
<1>1. TypeOK /\ IndexInv /\ QueueInv /\ InFlightInv /\ TokensInv /\ FlightInv
        /\ TypeOK' /\ [SchedulerNext]_vars
        => FlightInv'
  BY NextFlight
<1> QED BY <1>1, InitFlight, TokensInductive, PTL DEF SchedulerSpec

\* A request that schedule() resumes has no token in flight: the output of the batch it
\* was preempted from has come back, because at most one other batch is in flight when
\* a step begins and a step does not resume what it has itself preempted.
THEOREM ResumedHaveLanded ==
  ASSUME "reset" \notin ClientOps, DistinctArrivals, EveryImageFits, AtMostTwoBatches
  PROVE  SchedulerSpec => []ResumedHasNothingInFlight
<1>1. TypeOK /\ InFlightInv /\ FlightInv => ResumedHasNothingInFlight
  <2> SUFFICES ASSUME TypeOK, InFlightInv, FlightInv, Phase("commit"),
                      NEW r \in step.scheduled_resumed_reqs
               PROVE  /\ num_output_placeholders[r] = 0
                      /\ \A i \in DOMAIN batch_queue : r \notin batch_queue[i].sampled
    BY DEF ResumedHasNothingInFlight
  <2>1. PlaceholdersInv /\ LandedInv /\ step.phase # "idle"
    BY DEF Phase, InFlightInv, FlightInv
  <2>2. r \in Req
    BY DEF TypeOK, StepTypeOK, Locals
  <2> QED BY <2>1, <2>2, LandedHasNoPlaceholder DEF LandedInv
<1> QED BY <1>1, FlightInductive, PTL

\* However tokens in flight, preemptions and answers interleave, no request computes
\* past the tokens it will have, and none ends up with more than max_tokens tokens or
\* max_model_len positions: the shortcut taken for tokens in flight is exact.
THEOREM NobodyOvershoots ==
  ASSUME "reset" \notin ClientOps, DistinctArrivals, EveryImageFits, AtMostTwoBatches
  PROVE  SchedulerSpec => []NoOvershoot
<1>1. TypeOK /\ TokensInv /\ FlightInv => NoOvershoot
  <2> SUFFICES ASSUME TypeOK, TokensInv, FlightInv, Phase("idle"), NEW r \in requests
               PROVE  /\ num_computed_tokens[r] <= TokensToCome(r)
                      /\ TokensToCome(r) <= MaxModelLen
                      /\ num_output_tokens[r] + num_output_placeholders[r] <= MaxTokens[r]
    BY DEF NoOvershoot, TokensToCome
  <2>1. r \in Req /\ LimitsInv /\ ComputedInv
    BY DEF Phase, TokensInv, FlightInv, requests
  <2>2. MayCompute(r, step.num_scheduled_tokens[r]) /\ num_computed_tokens[r] >= 0
    BY <2>1 DEF ComputedInv
  <2>3. num_computed_tokens[r] <= TokensToCome(r)
    BY <2>1, <2>2, CounterTypes DEF MayCompute
  <2> QED BY <2>1, <2>3 DEF LimitsInv
<1> QED BY <1>1, FlightInductive, PTL

=============================================================================
