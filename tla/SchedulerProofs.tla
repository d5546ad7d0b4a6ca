-------------------------- MODULE SchedulerProofs ---------------------------
(***************************************************************************)
(* Proofs about the scheduler: its state stays within its types, and the   *)
(* QueueManager's indices are exact at every moment of every schedule().   *)
(* Nothing is assumed of the policy, of the sizes or of what clients do    *)
(* beyond the assumptions on the constants.                                *)
(*                                                                         *)
(* The first part is about the QueueManager alone: each operation patches  *)
(* last_running_idx and first_waiting_idx in a way that keeps them equal   *)
(* to what a scan of the whole merged list would return, whatever the      *)
(* number of requests and whichever of them are running.  The argument is  *)
(* by the defining property of a scan (IsFirst, IsLast), so that no leaf   *)
(* needs the definition of the scan itself.                                *)
(*                                                                         *)
(* The proof of a type invariant goes action by action.  The local         *)
(* variables of schedule() are a record with twelve fields that an action  *)
(* changes several at a time; LocalsExcept and LocalsTypes take care of    *)
(* them once and for all.                                                  *)
(***************************************************************************)
EXTENDS SchedulerProperties, FiniteSetTheorems, SequenceTheorems, TLAPS

-----------------------------------------------------------------------------
(* The indices of the merged queue. *)

\* A non-empty set of naturals has a least element and Min returns it: what
\* the scan for the first waiting request rests on.
LEMMA MinOfNats ==
  ASSUME NEW T \in SUBSET Nat, T # {}
  PROVE  /\ Min(T) \in T
         /\ \A i \in T : Min(T) <= i
<1>1. PICK x \in T : \A y \in T : ~ (<<y, x>> \in OpToRel(<, Nat))
  BY NatLessThanWellFounded, WFMin
<1>2. ASSUME NEW y \in T PROVE x <= y
  <2>1. y \in Nat /\ x \in Nat
    OBVIOUS
  <2>2. y < x => <<y, x>> \in OpToRel(<, Nat)
    BY <2>1 DEF OpToRel
  <2>3. <<y, x>> \notin OpToRel(<, Nat)
    BY <1>1, Zenon
  <2>4. ~ (y < x)
    BY <2>2, <2>3, Zenon
  <2> QED BY <2>1, <2>4
<1> QED BY <1>2 DEF Min

\* A non-empty set of indices into a list has a greatest element and Max returns
\* it: what the downward scan for the last running request rests on.
LEMMA MaxUpTo ==
  ASSUME NEW n \in Nat, NEW T \in SUBSET (1..n), T # {}
  PROVE  /\ Max(T) \in T
         /\ \A i \in T : i <= Max(T)
<1> DEFINE D == { n - i : i \in T }
<1>1. D \in SUBSET Nat /\ D # {}
  <2>1. \A i \in T : n - i \in Nat
    OBVIOUS
  <2> QED BY <2>1
<1>2. PICK x \in T : Min(D) = n - x
  BY <1>1, MinOfNats
<1>3. \A y \in T : x >= y
  BY <1>1, <1>2, MinOfNats
<1> QED BY <1>3 DEF Max

\* x is the first index, from `from' on, that holds an element of ids, or 0.
IsFirst(x, ids, seq, from) ==
  /\ x = 0 \/ (x \in from..Len(seq) /\ seq[x] \in ids)
  /\ \A i \in from..Len(seq) : seq[i] \in ids => (x # 0 /\ x <= i)

\* x is the last index, up to `upto', that holds an element of ids, or 0.
IsLast(x, ids, seq, upto) ==
  /\ x = 0 \/ (x \in 1..upto /\ seq[x] \in ids)
  /\ \A i \in 1..upto : seq[i] \in ids => i <= x

\* The upward scan of update_idxs_after_new_scheduling and of combine_queues
\* returns the first index of a waiting or preempted request.
LEMMA FirstIndexIsFirst ==
  ASSUME NEW seq, NEW ids, NEW from \in Nat \ {0}, Len(seq) \in Nat
  PROVE  IsFirst(FirstIndexIn(seq, ids, from), ids, seq, from)
<1> DEFINE I == { i \in from..Len(seq) : seq[i] \in ids }
<1>1. I \in SUBSET Nat
  OBVIOUS
<1>2. FirstIndexIn(seq, ids, from) = IF I # {} THEN Min(I) ELSE 0
  BY DEF FirstIndexIn, SelectInSubSeq
<1>3. CASE I = {}
  BY <1>2, <1>3 DEF IsFirst
<1>4. CASE I # {}
  <2>1. PICK m \in I : /\ FirstIndexIn(seq, ids, from) = m
                       /\ \A i \in I : m <= i
    BY <1>1, <1>2, <1>4, MinOfNats
  <2> QED BY <2>1, <1>1 DEF IsFirst
<1> QED BY <1>3, <1>4

\* The downward scan of update_idxs_after_preemption and of combine_queues
\* returns the last index of a running request.
LEMMA LastIndexIsLast ==
  ASSUME NEW seq, NEW ids, NEW upto \in Nat
  PROVE  IsLast(LastIndexIn(seq, ids, upto), ids, seq, upto)
<1> DEFINE I == { i \in 1..upto : seq[i] \in ids }
<1>1. I \in SUBSET (1..upto)
  OBVIOUS
<1>2. LastIndexIn(seq, ids, upto) = IF I # {} THEN Max(I) ELSE 0
  BY DEF LastIndexIn, SelectLastInSubSeq
<1>3. CASE I = {}
  BY <1>2, <1>3 DEF IsLast
<1>4. CASE I # {}
  <2>1. PICK m \in I : /\ LastIndexIn(seq, ids, upto) = m
                       /\ \A i \in I : i <= m
    BY <1>1, <1>2, <1>4, MaxUpTo
  <2> QED BY <2>1 DEF IsLast
<1> QED BY <1>3, <1>4

\* An index found in any other way, for instance by a patch, is what the upward
\* scan returns as soon as it is the first one.
LEMMA OnlyFirstIndex ==
  ASSUME NEW seq, NEW ids, NEW from \in Nat \ {0}, Len(seq) \in Nat, NEW x,
         IsFirst(x, ids, seq, from)
  PROVE  x = FirstIndexIn(seq, ids, from)
<1>1. IsFirst(FirstIndexIn(seq, ids, from), ids, seq, from)
  BY FirstIndexIsFirst
<1> DEFINE y == FirstIndexIn(seq, ids, from)
<1> HIDE DEF y
<1>2. IsFirst(y, ids, seq, from)
  BY <1>1 DEF y
<1>3. x = y
  BY <1>2 DEF IsFirst
<1> QED BY <1>3 DEF y

\* Likewise for the downward scan.
LEMMA OnlyLastIndex ==
  ASSUME NEW seq, NEW ids, NEW upto \in Nat, NEW x,
         IsLast(x, ids, seq, upto)
  PROVE  x = LastIndexIn(seq, ids, upto)
<1>1. IsLast(LastIndexIn(seq, ids, upto), ids, seq, upto)
  BY LastIndexIsLast
<1> DEFINE y == LastIndexIn(seq, ids, upto)
<1> HIDE DEF y
<1>2. IsLast(y, ids, seq, upto)
  BY <1>1 DEF y
<1>3. x = y
  BY <1>2 DEF IsLast
<1> QED BY <1>3 DEF y

-----------------------------------------------------------------------------

\* The requests that have no slots in this step.
Denied == waiting_req_ids \cup preempted_req_ids

\* What the patches rely on: no request is twice in `combined', and each of its
\* requests is either running, or waiting or preempted.
Roles ==
  /\ combined \in Seq(Req)
  /\ IsInjective(combined)
  /\ running_req_ids \cap Denied = {}
  /\ Range(combined) \subseteq running_req_ids \cup Denied

\* The two indices are those of a scan of the whole list.
Exact ==
  /\ IsLast(last_running_idx, running_req_ids, combined, Len(combined))
  /\ IsFirst(first_waiting_idx, Denied, combined, 1)

\* update_idxs_after_preemption looks for the new last running request only below
\* the victim, and sets the first waiting index without a scan.  Both stay exact
\* if its assertion holds.
LEMMA PreemptionKeepsExact ==
  ASSUME Roles, Exact, UpdateIdxsAfterPreemption, PreemptionAssertion
  PROVE  Roles' /\ Exact'
<1> DEFINE n == Len(combined)
           victim == combined[last_running_idx]
<1>1. CASE last_running_idx = None
  BY <1>1 DEF UpdateIdxsAfterPreemption, queueManagerVars, Roles, Exact, Denied
<1>2. CASE last_running_idx # None
  <2>1. n \in Nat
    BY LenProperties DEF Roles
  <2>9. DOMAIN combined = 1..n
    BY LenProperties DEF Roles
  <2>2. last_running_idx \in 1..n /\ victim \in running_req_ids
    BY <1>2 DEF Exact, IsLast, None
  <2>3. /\ running_req_ids' = running_req_ids \ {victim}
        /\ Denied' = Denied \cup {victim}
        /\ combined' = combined
        /\ first_waiting_idx' = FirstWaitingAfterPreemption(last_running_idx')
        /\ last_running_idx' = LastIndexIn(combined, running_req_ids', last_running_idx)
    BY <1>2 DEF UpdateIdxsAfterPreemption, Denied
  <2>4. Roles'
    BY <2>3 DEF Roles
  <2>5. IsLast(last_running_idx', running_req_ids', combined, last_running_idx)
    BY <2>1, <2>2, <2>3, LastIndexIsLast
  <2>6. IsLast(last_running_idx', running_req_ids', combined, n)
    <3>1. ASSUME NEW i \in 1..n, combined[i] \in running_req_ids'
          PROVE  i <= last_running_idx'
      <4>1. i <= last_running_idx
        BY <2>3, <3>1 DEF Exact, IsLast
      <4>2. i \in 1..last_running_idx
        BY <2>1, <2>2, <4>1
      <4> QED BY <2>5, <3>1, <4>2 DEF IsLast
    <3> QED BY <2>1, <2>2, <2>5, <3>1 DEF IsLast
  <2>7. \A i \in 1..n : i # last_running_idx => combined[i] # victim
    BY <2>1, <2>2, <2>9 DEF Roles, IsInjective
  <2>8. IsFirst(first_waiting_idx', Denied', combined, 1)
    <3>1. CASE last_running_idx' = None
      <4>1. first_waiting_idx = 1 /\ first_waiting_idx' = 1
        BY <1>2, <2>3, <3>1 DEF PreemptionAssertion, FirstWaitingAfterPreemption
      <4>2. 1 \in 1..n /\ combined[1] \in Denied'
        BY <2>3, <4>1 DEF Exact, IsFirst
      <4> QED BY <4>1, <4>2 DEF IsFirst
    <3>2. CASE last_running_idx' # None /\ first_waiting_idx = None
      <4>1. \A i \in 1..n : combined[i] \in running_req_ids
        BY <2>1, <2>9, <3>2 DEF Exact, IsFirst, None, Roles, Range
      <4>2. last_running_idx = n
        <5>1. n \in 1..n /\ combined[n] \in running_req_ids
          BY <2>1, <2>2, <4>1
        <5>2. n <= last_running_idx
          BY <5>1 DEF Exact, IsLast
        <5> QED BY <2>1, <2>2, <5>2
      <4>3. first_waiting_idx' = n
        BY <2>3, <3>2 DEF FirstWaitingAfterPreemption
      <4>4. \A i \in 1..n : combined[i] \in Denied' => i = n
        BY <2>1, <2>2, <2>3, <2>7, <3>2, <4>2 DEF Exact, IsFirst, None
      <4>5. n \in 1..n /\ combined[n] \in Denied'
        BY <2>2, <2>3, <4>2
      <4> QED BY <2>1, <4>3, <4>4, <4>5 DEF IsFirst
    <3>3. CASE last_running_idx' # None /\ first_waiting_idx # None
      BY <2>1, <2>2, <2>3, <2>7, <3>3
         DEF Exact, IsFirst, None, FirstWaitingAfterPreemption
    <3> QED BY <3>1, <3>2, <3>3
  <2> QED BY <2>3, <2>4, <2>6, <2>8 DEF Exact
<1> QED BY <1>1, <1>2

\* update_idxs_after_new_scheduling looks for the new first waiting request only
\* from the admitted one on, and sets the last running index without a scan.  Both
\* stay exact.
LEMMA SchedulingKeepsExact ==
  ASSUME Roles, Exact, UpdateIdxsAfterNewScheduling
  PROVE  Roles' /\ Exact'
<1> DEFINE n == Len(combined)
           scheduled == combined[first_waiting_idx]
<1>1. CASE first_waiting_idx = None
  BY <1>1 DEF UpdateIdxsAfterNewScheduling, queueManagerVars, Roles, Exact, Denied
<1>2. CASE first_waiting_idx # None
  <2>1. n \in Nat
    BY LenProperties DEF Roles
  <2>2. DOMAIN combined = 1..n
    BY LenProperties DEF Roles
  <2>3. first_waiting_idx \in 1..n /\ scheduled \in Denied
    BY <1>2 DEF Exact, IsFirst, None
  <2>4. /\ running_req_ids' = running_req_ids \cup {scheduled}
        /\ Denied' = Denied \ {scheduled}
        /\ combined' = combined
        /\ last_running_idx' = LastRunningAfterScheduling(first_waiting_idx')
        /\ first_waiting_idx' = FirstIndexIn(combined, Denied', first_waiting_idx)
    BY <1>2 DEF UpdateIdxsAfterNewScheduling, Denied
  <2>5. Roles'
    BY <2>4 DEF Roles
  <2>6. IsFirst(first_waiting_idx', Denied', combined, first_waiting_idx)
    BY <2>1, <2>3, <2>4, FirstIndexIsFirst
  <2>7. IsFirst(first_waiting_idx', Denied', combined, 1)
    <3>1. ASSUME NEW i \in 1..n, combined[i] \in Denied'
          PROVE  first_waiting_idx' # 0 /\ first_waiting_idx' <= i
      <4>1. first_waiting_idx <= i
        BY <2>4, <3>1 DEF Exact, IsFirst
      <4>2. i \in first_waiting_idx..n
        BY <2>1, <2>3, <4>1
      <4> QED BY <2>6, <3>1, <4>2 DEF IsFirst
    <3>2. first_waiting_idx' = 0 \/ (/\ first_waiting_idx' \in 1..n
                                     /\ combined[first_waiting_idx'] \in Denied')
      BY <2>1, <2>3, <2>6 DEF IsFirst
    <3> QED BY <2>1, <3>1, <3>2 DEF IsFirst
  <2>8. IsLast(last_running_idx', running_req_ids', combined, n)
    <3>1. CASE first_waiting_idx' = None
      <4>1. last_running_idx' = n /\ n \in 1..n
        BY <2>1, <2>3, <2>4, <3>1 DEF LastRunningAfterScheduling
      <4>2. combined[n] \notin Denied'
        BY <2>7, <3>1, <4>1 DEF IsFirst, None
      <4>3. combined[n] \in Range(combined)
        BY <2>2, <4>1 DEF Range
      <4>4. combined[n] \in running_req_ids'
        BY <2>4, <2>5, <4>2, <4>3 DEF Roles
      <4> QED BY <2>1, <4>1, <4>4 DEF IsLast
    <3>2. CASE first_waiting_idx' # None /\ last_running_idx = None
      <4>1. \A i \in 1..n : combined[i] \notin running_req_ids
        BY <2>1, <3>2 DEF Exact, IsLast, None
      <4>2. 1 \in 1..n /\ combined[1] \in Range(combined)
        BY <2>1, <2>2, <2>3 DEF Range
      <4>3. combined[1] \in Denied
        BY <4>1, <4>2 DEF Roles
      <4>4. first_waiting_idx = 1
        BY <2>3, <4>2, <4>3 DEF Exact, IsFirst
      <4>5. last_running_idx' = 1
        BY <2>4, <3>2 DEF LastRunningAfterScheduling
      <4>6. \A i \in 1..n : combined[i] \in running_req_ids' => i = 1
        BY <2>1, <2>2, <2>4, <4>1, <4>2, <4>4 DEF Roles, IsInjective
      <4>7. combined[1] \in running_req_ids'
        BY <2>4, <4>4
      <4> QED BY <2>1, <4>2, <4>5, <4>6, <4>7 DEF IsLast
    <3>3. CASE first_waiting_idx' # None /\ last_running_idx # None
      <4>1. last_running_idx \in 1..n /\ combined[last_running_idx] \in running_req_ids
        BY <3>3 DEF Exact, IsLast, None
      <4>2. \A i \in 1..n : combined[i] \in running_req_ids' =>
                i = first_waiting_idx \/ combined[i] \in running_req_ids
        BY <2>2, <2>3, <2>4 DEF Roles, IsInjective
      <4>3. last_running_idx' = IF first_waiting_idx > last_running_idx
                                THEN first_waiting_idx ELSE last_running_idx
        BY <2>4, <3>3 DEF LastRunningAfterScheduling
      <4>4. \A i \in 1..n : combined[i] \in running_req_ids => i <= last_running_idx
        BY DEF Exact, IsLast
      <4>5. \A i \in 1..n : combined[i] \in running_req_ids' => i <= last_running_idx'
        BY <2>1, <2>3, <4>1, <4>2, <4>3, <4>4
      <4>6. last_running_idx' \in 1..n /\ combined[last_running_idx'] \in running_req_ids'
        BY <2>3, <2>4, <4>1, <4>3
      <4> QED BY <4>5, <4>6 DEF IsLast
    <3> QED BY <3>1, <3>2, <3>3
  <2> QED BY <2>4, <2>5, <2>7, <2>8 DEF Exact
<1> QED BY <1>1, <1>2

\* combine_queues builds a list of requests.
LEMMA CombinedIsSequence ==
  ASSUME NEW R \in SUBSET Req, NEW P, NEW W \in SUBSET Req, NEW prio,
         CombineQueues(R, P, W, prio)
  PROVE  combined' \in Seq(Req)
<1> DEFINE n == Cardinality(R \cup W)
<1>1. n \in Nat
  BY ReqAssumption, FS_Subset, FS_CardinalityType
<1>2. combined' \in Bijection(1..n, R \cup W)
  BY DEF CombineQueues, Orderings
<1> HIDE DEF n
<1>3. combined' \in [1..n -> R \cup W]
  BY <1>2 DEF Bijection, Injection
<1> QED BY <1>1, <1>3

\* combine_queues puts each request of the two queues in the merged list once and
\* starts the step with exact indices.
LEMMA CombiningIsExact ==
  ASSUME NEW R \in SUBSET Req, NEW P \in SUBSET R, NEW W \in SUBSET Req,
         NEW prio, R \cap W = {}, CombineQueues(R, P, W, prio)
  PROVE  Roles' /\ Exact' /\ Range(combined') = R \cup W
<1> DEFINE n == Cardinality(R \cup W)
<1>1. IsFiniteSet(R \cup W)
  BY ReqAssumption, FS_Subset
<1>2. n \in Nat
  BY <1>1, FS_CardinalityType
<1>3. combined' \in Bijection(1..n, R \cup W)
  BY DEF CombineQueues, Orderings
<1> HIDE DEF n
<1>4. combined' \in [1..n -> R \cup W]
  BY <1>3 DEF Bijection, Injection
<1>5. combined' \in Seq(Req) /\ Len(combined') = n
  BY <1>2, <1>4
<1>6. IsInjective(combined')
  BY <1>3 DEF Bijection, Injection
<1>7. Range(combined') = R \cup W
  BY <1>3, <1>4 DEF Bijection, Surjection, Range
<1>8. /\ running_req_ids' = R \ P
      /\ Denied' = W \cup P
      /\ last_running_idx' = LastIndexIn(combined', running_req_ids', Len(combined'))
      /\ first_waiting_idx' = FirstIndexIn(combined', Denied', 1)
  BY DEF CombineQueues, Denied
<1>9. Exact'
  BY <1>2, <1>5, <1>8, FirstIndexIsFirst, LastIndexIsLast DEF Exact
<1>10. Roles'
  BY <1>5, <1>6, <1>7, <1>8 DEF Roles
<1> QED BY <1>7, <1>9, <1>10

-----------------------------------------------------------------------------
(* The scheduler. *)

\* update_idxs_after_preemption leaves both indices within `combined'.
LEMMA PreemptionTypes ==
  ASSUME QueueManagerTypeOK, UpdateIdxsAfterPreemption
  PROVE  QueueManagerTypeOK'
<1>1. CASE last_running_idx = None
  BY <1>1 DEF UpdateIdxsAfterPreemption, queueManagerVars, QueueManagerTypeOK
<1>2. CASE last_running_idx # None
  <2> DEFINE n == Len(combined)
             victim == combined[last_running_idx]
  <2>1. n \in Nat
    BY LenProperties DEF QueueManagerTypeOK
  <2>2. last_running_idx \in 1..n /\ victim \in Req
    BY <1>2, <2>1, ElementOfSeq DEF QueueManagerTypeOK, None
  <2>3. IsLast(last_running_idx', running_req_ids', combined, last_running_idx)
    BY <1>2, <2>1, <2>2, LastIndexIsLast DEF UpdateIdxsAfterPreemption
  <2>4. last_running_idx' \in 0..n
    BY <2>1, <2>2, <2>3 DEF IsLast
  <2>5. first_waiting_idx' \in 0..n
    BY <1>2, <2>1, <2>2
       DEF UpdateIdxsAfterPreemption, FirstWaitingAfterPreemption, QueueManagerTypeOK
  <2> QED BY <1>2, <2>2, <2>4, <2>5 DEF UpdateIdxsAfterPreemption, QueueManagerTypeOK
<1> QED BY <1>1, <1>2

\* update_idxs_after_new_scheduling leaves both indices within `combined'.
LEMMA SchedulingTypes ==
  ASSUME QueueManagerTypeOK, UpdateIdxsAfterNewScheduling
  PROVE  QueueManagerTypeOK'
<1>1. CASE first_waiting_idx = None
  BY <1>1 DEF UpdateIdxsAfterNewScheduling, queueManagerVars, QueueManagerTypeOK
<1>2. CASE first_waiting_idx # None
  <2> DEFINE n == Len(combined)
             scheduled == combined[first_waiting_idx]
  <2>1. n \in Nat
    BY LenProperties DEF QueueManagerTypeOK
  <2>2. first_waiting_idx \in 1..n /\ scheduled \in Req
    BY <1>2, <2>1, ElementOfSeq DEF QueueManagerTypeOK, None
  <2>3. IsFirst(first_waiting_idx', Denied', combined, first_waiting_idx)
    <3>1. first_waiting_idx' = FirstIndexIn(combined, Denied', first_waiting_idx)
      BY <1>2 DEF UpdateIdxsAfterNewScheduling, Denied
    <3> QED BY <2>1, <2>2, <3>1, FirstIndexIsFirst
  <2>4. first_waiting_idx' \in 0..n
    BY <2>1, <2>2, <2>3 DEF IsFirst
  <2>5. last_running_idx' \in 0..n
    BY <1>2, <2>1, <2>2
       DEF UpdateIdxsAfterNewScheduling, LastRunningAfterScheduling, QueueManagerTypeOK
  <2> QED BY <1>2, <2>2, <2>4, <2>5 DEF UpdateIdxsAfterNewScheduling, QueueManagerTypeOK
<1> QED BY <1>1, <1>2

\* update_idxs_after_ignored leaves both indices within `combined'.
LEMMA IgnoringTypes ==
  ASSUME QueueManagerTypeOK, UpdateIdxsAfterIgnored
  PROVE  QueueManagerTypeOK'
<1>1. CASE first_waiting_idx = None
  BY <1>1 DEF UpdateIdxsAfterIgnored, queueManagerVars, QueueManagerTypeOK
<1>2. CASE first_waiting_idx # None
  <2> DEFINE n == Len(combined)
             ignored == combined[first_waiting_idx]
  <2>1. n \in Nat
    BY LenProperties DEF QueueManagerTypeOK
  <2>2. first_waiting_idx \in 1..n /\ ignored \in Req
    BY <1>2, <2>1, ElementOfSeq DEF QueueManagerTypeOK, None
  <2>3. IsFirst(first_waiting_idx', Denied', combined, first_waiting_idx)
    <3>1. first_waiting_idx' = FirstIndexIn(combined, Denied', first_waiting_idx)
      BY <1>2 DEF UpdateIdxsAfterIgnored, Denied
    <3> QED BY <2>1, <2>2, <3>1, FirstIndexIsFirst
  <2>4. first_waiting_idx' \in 0..n
    BY <2>1, <2>2, <2>3 DEF IsFirst
  <2> QED BY <1>2, <2>2, <2>4 DEF UpdateIdxsAfterIgnored, QueueManagerTypeOK
<1> QED BY <1>1, <1>2

\* combine_queues starts with both indices within `combined'.
LEMMA CombiningTypes ==
  ASSUME NEW R \in SUBSET Req, NEW P \in SUBSET R, NEW W \in SUBSET Req,
         NEW prio, ignored_req_ids \subseteq Req, CombineQueues(R, P, W, prio)
  PROVE  QueueManagerTypeOK'
<1>1. combined' \in Seq(Req)
  BY CombinedIsSequence
<1>2. Len(combined') \in Nat
  BY <1>1, LenProperties
<1>3. IsLast(last_running_idx', running_req_ids', combined', Len(combined'))
  BY <1>2, LastIndexIsLast DEF CombineQueues
<1>4. IsFirst(first_waiting_idx', Denied', combined', 1)
  <2>1. first_waiting_idx' = FirstIndexIn(combined', Denied', 1)
    BY DEF CombineQueues, Denied
  <2> QED BY <1>2, <2>1, FirstIndexIsFirst
<1>5. /\ last_running_idx' \in 0..Len(combined')
      /\ first_waiting_idx' \in 0..Len(combined')
  BY <1>2, <1>3, <1>4 DEF IsLast, IsFirst
<1> QED BY <1>1, <1>5 DEF CombineQueues, QueueManagerTypeOK

-----------------------------------------------------------------------------
\* update_priorities gives every request a natural number, under each policy.
LEMMA UpdatedPrioritiesType ==
  ASSUME NEW S \in SUBSET Req, NEW prio \in [Req -> Nat],
         NEW updated \in UpdatedPriorities(S, prio)
  PROVE  updated \in [Req -> Nat]
<1>1. CASE Ranking
  <2>1. PICK rank \in Rankings(S) :
          updated = [r \in Req |-> IF r \in S THEN rank[r] ELSE prio[r]]
    BY <1>1 DEF UpdatedPriorities
  <2>2. Cardinality(S) \in Nat
    BY ReqAssumption, FS_Subset, FS_CardinalityType
  <2>3. \A r \in S : rank[r] \in Nat
    BY <2>2 DEF Rankings, Bijection, Injection
  <2> QED BY <2>1, <2>3
<1>2. CASE ~Ranking
  <2>1. updated = [r \in Req |-> IF r \in S /\ prio[r] = 0
                                 THEN InitialPriority(r) ELSE prio[r]]
    BY <1>2 DEF UpdatedPriorities
  <2>2. ASSUME NEW r \in Req PROVE InitialPriority(r) \in Nat
    <3>1. ArrivalTime[r] \in Nat /\ BandWidth \in Nat
      BY PolicyAssumption
    <3>2. Band(r) \in {0, 1, 10}
      BY DEF Band
    <3> QED BY <3>1, <3>2 DEF InitialPriority
  <2> QED BY <2>1, <2>2
<1> QED BY <1>1, <1>2

\* Forgetting the counters of some requests (_free_request, reset_prefix_cache)
\* keeps their type.
LEMMA ZeroedType ==
  ASSUME NEW f, NEW S
  PROVE  /\ f \in [Req -> Int] => Zeroed(f, S) \in [Req -> Int]
         /\ f \in [Req -> Nat] => Zeroed(f, S) \in [Req -> Nat]
BY DEF Zeroed

\* The number of blocks allocate_slots adds is an integer.
LEMMA BlocksMissingType ==
  ASSUME req_blocks \in [Req -> Int], NEW r \in Req, NEW n \in Int
  PROVE  BlocksMissing(r, n) \in Int
<1>1. BlockSize \in Nat \ {0}
  BY SchedulerAssumption
<1>2. Ceil(n, BlockSize) \in Int
  BY <1>1 DEF Ceil
<1> QED BY <1>2 DEF BlocksMissing

\* _try_schedule_encoder_inputs returns a number of tokens and a decision.
LEMMA EncoderOutcomesType ==
  ASSUME TypeOK, NEW r \in Req, NEW n \in Int, NEW outcome \in EncoderOutcomes(r, n)
  PROVE  outcome.num_new_tokens \in Int /\ outcome.compute \in BOOLEAN
<1>1. num_computed_tokens[r] \in Int /\ EncoderStart[r] \in Int
  BY SchedulerAssumption DEF TypeOK, RequestsTypeOK
<1> DEFINE unchanged == [num_new_tokens |-> n, compute |-> FALSE,
                         hit |-> r \in encoder_refs]
<1>2. \/ outcome = unchanged
      \/ outcome = [unchanged EXCEPT !.hit = TRUE]
      \/ outcome = [unchanged EXCEPT !.compute = TRUE]
      \/ outcome = [unchanged EXCEPT !.num_new_tokens =
                      IF num_computed_tokens[r] < EncoderStart[r]
                      THEN EncoderStart[r] - num_computed_tokens[r] ELSE 0]
  BY DEF EncoderOutcomes
<1>3. unchanged \in [num_new_tokens : Int, compute : BOOLEAN, hit : BOOLEAN]
  OBVIOUS
<1> HIDE DEF unchanged
<1> DEFINE cut == IF num_computed_tokens[r] < EncoderStart[r]
                  THEN EncoderStart[r] - num_computed_tokens[r] ELSE 0
<1>4. cut \in Int
  BY <1>1
<1>5. outcome = [unchanged EXCEPT !.num_new_tokens = cut]
        => outcome \in [num_new_tokens : Int, compute : BOOLEAN, hit : BOOLEAN]
  <2> HIDE DEF cut
  <2> QED BY <1>3, <1>4
<1>6. outcome \in [num_new_tokens : Int, compute : BOOLEAN, hit : BOOLEAN]
  BY <1>2, <1>3, <1>5
<1> QED BY <1>6

\* The numbers of tokens the two branches of the loop ask for are integers.
LEMMA NumNewTokensType ==
  ASSUME TypeOK, NEW r \in Req
  PROVE  /\ NumNewTokensRunning(r) \in Int
         /\ LeastOf(NumNewTokensWaiting(r), step.token_budget) \in Int
<1>1. /\ num_computed_tokens[r] \in Int /\ num_output_tokens[r] \in Int
      /\ num_output_placeholders[r] \in Int /\ step.token_budget \in Int
  BY DEF TypeOK, StepTypeOK, Locals, RequestsTypeOK
<1>2. PromptLen[r] \in Int /\ LongPrefillTokenThreshold \in Int /\ MaxModelLen \in Int
  BY SchedulerAssumption
<1> QED BY <1>1, <1>2 DEF NumNewTokensRunning, NumNewTokensWaiting, LeastOf,
                          WithinThreshold, NumTokens

-----------------------------------------------------------------------------
\* A scheduler that was just constructed is well typed.
LEMMA InitTypes == SchedulerInit => TypeOK
<1> SUFFICES ASSUME SchedulerInit PROVE TypeOK
  OBVIOUS
<1>1. QueueManagerTypeOK
  BY EmptySeq DEF SchedulerInit, QueueManagerInit, QueueManagerTypeOK, None
<1>2. StepTypeOK
  BY DEF SchedulerInit, StepTypeOK, Locals, Idle
<1>3. RequestsTypeOK
  BY DEF SchedulerInit, RequestsTypeOK, Statuses
<1>4. QueuesTypeOK
  BY EmptySeq DEF SchedulerInit, QueuesTypeOK
<1> QED BY <1>1, <1>2, <1>3, <1>4 DEF TypeOK

\* _free_request keeps the types of the counters it clears.
LEMMA FreeRequestsTypes ==
  ASSUME RequestsTypeOK, NEW S, FreeRequests(S)
  PROVE  /\ num_computed_tokens' \in [Req -> Int]
         /\ num_output_placeholders' \in [Req -> Int]
         /\ async_tokens_to_discard' \in [Req -> Int]
         /\ priority' \in [Req -> Nat]
         /\ req_blocks' \in [Req -> Int]
         /\ encoder_refs' \subseteq Req
BY ZeroedType DEF RequestsTypeOK, FreeRequests

\* add_request, finish_requests, set_pause_state and reset_prefix_cache keep the
\* types.
LEMMA ClientStepTypes ==
  ASSUME TypeOK, ClientStep
  PROVE  TypeOK'
<1> USE DEF TypeOK
<1>1. ASSUME NEW r \in Req, AddRequest(r) PROVE TypeOK'
  <2>1. QueueManagerTypeOK' /\ StepTypeOK'
    BY <1>1 DEF AddRequest, QueueManagerTypeOK, queueManagerVars, StepTypeOK
  <2>2. RequestsTypeOK'
    BY <1>1 DEF AddRequest, RequestsTypeOK, cacheVars, Statuses
  <2>3. QueuesTypeOK'
    BY <1>1 DEF AddRequest, QueuesTypeOK, engineVars
  <2> QED BY <2>1, <2>2, <2>3
<1>2. ASSUME NEW r \in Req, AbortRequest(r) PROVE TypeOK'
  <2>1. QueueManagerTypeOK' /\ StepTypeOK'
    BY <1>2 DEF AbortRequest, QueueManagerTypeOK, queueManagerVars, StepTypeOK
  <2>2. RequestsTypeOK'
    BY <1>2, FreeRequestsTypes DEF AbortRequest, RequestsTypeOK, Statuses
  <2>3. QueuesTypeOK'
    BY <1>2 DEF AbortRequest, FreeRequests, QueuesTypeOK, engineVars
  <2> QED BY <2>1, <2>2, <2>3
<1>3. ASSUME NEW pause \in {"UNPAUSED", "PAUSED_NEW", "PAUSED_ALL"},
             SetPauseState(pause)
      PROVE  TypeOK'
  <2>1. QueueManagerTypeOK' /\ StepTypeOK'
    BY <1>3 DEF SetPauseState, QueueManagerTypeOK, queueManagerVars, StepTypeOK
  <2>2. RequestsTypeOK'
    BY <1>3 DEF SetPauseState, RequestsTypeOK, requestVars, cacheVars
  <2>3. QueuesTypeOK'
    BY <1>3 DEF SetPauseState, QueuesTypeOK, queueVars
  <2> QED BY <2>1, <2>2, <2>3
<1>4. CASE ResetPrefixCache
  <2>1. QueueManagerTypeOK' /\ StepTypeOK'
    BY <1>4 DEF ResetPrefixCache, QueueManagerTypeOK, queueManagerVars, StepTypeOK
  <2>2. RequestsTypeOK'
    BY <1>4, ZeroedType DEF ResetPrefixCache, RequestsTypeOK, Statuses
  <2>3. QueuesTypeOK'
    BY <1>4 DEF ResetPrefixCache, QueuesTypeOK
  <2> QED BY <2>1, <2>2, <2>3
<1> QED BY <1>1, <1>2, <1>3, <1>4 DEF ClientStep

\* update_from_output keeps the types.
LEMMA OutputTypes ==
  ASSUME TypeOK, UpdateFromOutput
  PROVE  TypeOK'
<1> USE DEF TypeOK
<1>1. QueueManagerTypeOK' /\ StepTypeOK'
  BY DEF UpdateFromOutput, QueueManagerTypeOK, queueManagerVars, StepTypeOK
<1> DEFINE batch == Head(batch_queue)
           live == batch.scheduled \cap Unfinished
           sampled == batch.sampled \cap live
           discarded == Discarded(sampled)
           extended == sampled \ discarded
           capped == { r \in extended : \/ NumTokens(r) + 1 >= MaxModelLen
                                        \/ num_output_tokens[r] + 1 >= MaxTokens[r] }
<1>2. batch \in Batches /\ Tail(batch_queue) \in Seq(Batches)
  BY HeadTailProperties DEF UpdateFromOutput, QueuesTypeOK
<1>3. extended \subseteq Req /\ capped \subseteq Req
  BY <1>2 DEF Batches
<1> HIDE DEF extended, capped
<1>4. PICK eos \in SUBSET extended :
        LET stopped == eos \cup capped
        IN  /\ status' = [r \in Req |->
                 IF r \in eos THEN "FINISHED_STOPPED"
                 ELSE IF r \in capped THEN "FINISHED_LENGTH_CAPPED"
                 ELSE status[r]]
            /\ num_output_tokens' = [r \in Req |->
                 IF r \in extended THEN num_output_tokens[r] + 1
                 ELSE num_output_tokens[r]]
            /\ num_output_placeholders' = PlaceholdersAfterOutput(extended, stopped)
            /\ async_tokens_to_discard' = [r \in Req |->
                 IF r \in stopped THEN 0
                 ELSE IF r \in discarded THEN async_tokens_to_discard[r] - 1
                 ELSE async_tokens_to_discard[r]]
            /\ num_computed_tokens' = Zeroed(num_computed_tokens, stopped)
            /\ priority' = Zeroed(priority, stopped)
            /\ req_blocks' = Zeroed(req_blocks, stopped)
            /\ encoder_refs' \subseteq encoder_refs
            /\ running' \subseteq running
            /\ waiting' \subseteq waiting
            /\ finished_req_ids' = finished_req_ids \cup stopped
  BY DEF UpdateFromOutput, extended, capped
<1>5. RequestsTypeOK'
  <2>1. status' \in [Req -> Statuses] /\ num_output_tokens' \in [Req -> Nat]
    BY <1>4 DEF RequestsTypeOK, Statuses
  <2>2. num_output_placeholders' \in [Req -> Int]
    BY <1>4 DEF RequestsTypeOK, PlaceholdersAfterOutput
  <2>3. async_tokens_to_discard' \in [Req -> Int]
    BY <1>4 DEF RequestsTypeOK
  <2>4. /\ num_computed_tokens' \in [Req -> Int]
        /\ priority' \in [Req -> Nat]
        /\ req_blocks' \in [Req -> Int]
    BY <1>4, ZeroedType DEF RequestsTypeOK
  <2> QED BY <1>4, <2>1, <2>2, <2>3, <2>4 DEF RequestsTypeOK
<1>6. QueuesTypeOK'
  BY <1>2, <1>3, <1>4 DEF UpdateFromOutput, QueuesTypeOK
<1> QED BY <1>1, <1>5, <1>6

\* _preempt_request together with update_idxs_after_preemption keeps the types.
LEMMA PreemptTypes ==
  ASSUME TypeOK, NEW victim \in Req, Preempt(victim)
  PROVE  QueueManagerTypeOK' /\ RequestsTypeOK' /\ QueuesTypeOK'
<1>1. QueueManagerTypeOK'
  BY PreemptionTypes DEF TypeOK, Preempt
<1>2. RequestsTypeOK'
  BY DEF TypeOK, Preempt, RequestsTypeOK, Statuses
<1>3. QueuesTypeOK'
  BY DEF TypeOK, Preempt, QueuesTypeOK, queueVars, engineVars
<1> QED BY <1>1, <1>2, <1>3

\* allocate_slots leaves every request with an integer number of blocks.
LEMMA AllocateTypes ==
  ASSUME TypeOK, NEW r \in Req, NEW n \in Int, AllocateSlots(r, n)
  PROVE  req_blocks' \in [Req -> Int]
<1>1. num_computed_tokens[r] + n \in Int
  BY DEF TypeOK, RequestsTypeOK
<1>2. BlocksMissing(r, num_computed_tokens[r] + n) \in Int
  BY <1>1, BlocksMissingType DEF TypeOK, RequestsTypeOK
<1> QED BY <1>2 DEF AllocateSlots, TypeOK, RequestsTypeOK

\* An assignment to one local variable of schedule() that respects its type
\* respects the type of them all.
LEMMA LocalsExcept ==
  ASSUME NEW local \in Locals
  PROVE
    /\ \A x \in {"idle", "loop", "alloc", "tail", "commit"} :
         [local EXCEPT !.phase = x] \in Locals
    /\ \A x \in Int :
         [local EXCEPT !.req_index = x] \in Locals
    /\ \A x \in Int :
         [local EXCEPT !.token_budget = x] \in Locals
    /\ \A x \in Int :
         [local EXCEPT !.encoder_compute_budget = x] \in Locals
    /\ \A x \in [Req -> Int] :
         [local EXCEPT !.num_scheduled_tokens = x] \in Locals
    /\ \A x \in SUBSET Req :
         [local EXCEPT !.scheduled_running_reqs = x] \in Locals
    /\ \A x \in SUBSET Req :
         [local EXCEPT !.scheduled_resumed_reqs = x] \in Locals
    /\ \A x \in SUBSET Req :
         [local EXCEPT !.scheduled_encoder_inputs = x] \in Locals
    /\ \A x \in SUBSET Req :
         [local EXCEPT !.preempted_req_ids = x] \in Locals
    /\ \A x \in Req \cup {NoRequest} :
         [local EXCEPT !.request = x] \in Locals
    /\ \A x \in Int :
         [local EXCEPT !.num_new_tokens = x] \in Locals
    /\ \A x \in BOOLEAN :
         [local EXCEPT !.compute_encoder = x] \in Locals
<1>1. \A x \in {"idle", "loop", "alloc", "tail", "commit"} : [local EXCEPT !.phase = x] \in Locals
  BY DEF Locals
<1>2. \A x \in Int : [local EXCEPT !.req_index = x] \in Locals
  BY DEF Locals
<1>3. \A x \in Int : [local EXCEPT !.token_budget = x] \in Locals
  BY DEF Locals
<1>4. \A x \in Int : [local EXCEPT !.encoder_compute_budget = x] \in Locals
  BY DEF Locals
<1>5. \A x \in [Req -> Int] : [local EXCEPT !.num_scheduled_tokens = x] \in Locals
  BY DEF Locals
<1>6. \A x \in SUBSET Req : [local EXCEPT !.scheduled_running_reqs = x] \in Locals
  BY DEF Locals
<1>7. \A x \in SUBSET Req : [local EXCEPT !.scheduled_resumed_reqs = x] \in Locals
  BY DEF Locals
<1>8. \A x \in SUBSET Req : [local EXCEPT !.scheduled_encoder_inputs = x] \in Locals
  BY DEF Locals
<1>9. \A x \in SUBSET Req : [local EXCEPT !.preempted_req_ids = x] \in Locals
  BY DEF Locals
<1>10. \A x \in Req \cup {NoRequest} : [local EXCEPT !.request = x] \in Locals
  BY DEF Locals
<1>11. \A x \in Int : [local EXCEPT !.num_new_tokens = x] \in Locals
  BY DEF Locals
<1>12. \A x \in BOOLEAN : [local EXCEPT !.compute_encoder = x] \in Locals
  BY DEF Locals
<1> QED BY <1>1, <1>2, <1>3, <1>4, <1>5, <1>6, <1>7, <1>8, <1>9, <1>10, <1>11, <1>12

\* Passing over a request, scheduling it and undoing that keep the types of the
\* local variables.
LEMMA LocalsTypes ==
  ASSUME NEW local \in Locals, NEW r \in Req
  PROVE  /\ PassedOver(local) \in Locals
         /\ Scheduled(r, local) \in Locals
         /\ Unscheduled(r, local) \in Locals
<1>1. EncoderTokens[r] \in Int
  BY SchedulerAssumption
<1>2. PassedOver(local) \in Locals
  BY DEF PassedOver, Locals
<1>3. Scheduled(r, local) \in Locals
  <2> DEFINE tokens == [local.num_scheduled_tokens EXCEPT ![r] = local.num_new_tokens]
             inputs == IF local.compute_encoder
                       THEN local.scheduled_encoder_inputs \cup {r}
                       ELSE local.scheduled_encoder_inputs
             budget == IF local.compute_encoder
                       THEN local.encoder_compute_budget - EncoderTokens[r]
                       ELSE local.encoder_compute_budget
             left == local.token_budget - local.num_new_tokens
             next == local.req_index + 1
  <2>1. Scheduled(r, local) =
          [local EXCEPT !.phase = "loop",
                        !.req_index = next,
                        !.num_scheduled_tokens = tokens,
                        !.token_budget = left,
                        !.scheduled_encoder_inputs = inputs,
                        !.encoder_compute_budget = budget,
                        !.request = NoRequest, !.num_new_tokens = 0,
                        !.compute_encoder = FALSE]
    BY DEF Scheduled, Locals
  <2>2. /\ tokens \in [Req -> Int] /\ inputs \in SUBSET Req
        /\ budget \in Int /\ left \in Int /\ next \in Int
    BY <1>1 DEF Locals
  <2> HIDE DEF tokens, inputs, budget, left, next
  <2> DEFINE l1 == [local EXCEPT !.phase = "loop", !.req_index = next,
                                 !.num_scheduled_tokens = tokens]
             l2 == [l1 EXCEPT !.token_budget = left,
                              !.scheduled_encoder_inputs = inputs,
                              !.encoder_compute_budget = budget]
             l3 == [l2 EXCEPT !.request = NoRequest, !.num_new_tokens = 0]
             l4 == [l3 EXCEPT !.compute_encoder = FALSE]
  <2>3. Scheduled(r, local) = l4
    BY <2>1
  <2>4. l1 \in Locals
    BY <2>2, LocalsExcept
  <2> HIDE DEF l1
  <2>5. l2 \in Locals
    BY <2>2, <2>4, LocalsExcept
  <2> HIDE DEF l2
  <2>6. l3 \in Locals
    <3>1. NoRequest \in Req \cup {NoRequest} /\ 0 \in Int
      OBVIOUS
    <3>2. [l2 EXCEPT !.request = NoRequest] \in Locals
      BY <2>5, <3>1, LocalsExcept
    <3> QED BY <3>1, <3>2, LocalsExcept
  <2> HIDE DEF l3
  <2>7. FALSE \in BOOLEAN
    OBVIOUS
  <2>8. l4 \in Locals
    BY <2>6, <2>7, LocalsExcept
  <2> QED BY <2>3, <2>8
<1>4. Unscheduled(r, local) \in Locals
  <2> DEFINE tokens == [local.num_scheduled_tokens EXCEPT ![r] = 0]
             restored == local.token_budget + local.num_scheduled_tokens[r]
             budget == IF r \in local.scheduled_encoder_inputs
                       THEN local.encoder_compute_budget + EncoderTokens[r]
                       ELSE local.encoder_compute_budget
             running_reqs == local.scheduled_running_reqs \ {r}
             inputs == local.scheduled_encoder_inputs \ {r}
             previous == local.req_index - 1
  <2>1. Unscheduled(r, local) =
          IF r \notin local.scheduled_running_reqs THEN local
          ELSE [local EXCEPT !.scheduled_running_reqs = running_reqs,
                             !.token_budget = restored,
                             !.num_scheduled_tokens = tokens,
                             !.scheduled_encoder_inputs = inputs,
                             !.encoder_compute_budget = budget,
                             !.req_index = previous]
    BY DEF Unscheduled, Locals
  <2>2. /\ tokens \in [Req -> Int] /\ restored \in Int /\ budget \in Int
        /\ running_reqs \in SUBSET Req /\ inputs \in SUBSET Req /\ previous \in Int
    BY <1>1 DEF Locals
  <2> HIDE DEF tokens, restored, budget, running_reqs, inputs, previous
  <2> DEFINE l1 == [local EXCEPT !.scheduled_running_reqs = running_reqs,
                                 !.token_budget = restored,
                                 !.num_scheduled_tokens = tokens]
             l2 == [l1 EXCEPT !.scheduled_encoder_inputs = inputs,
                              !.encoder_compute_budget = budget,
                              !.req_index = previous]
  <2>3. Unscheduled(r, local) = local \/ Unscheduled(r, local) = l2
    BY <2>1
  <2>4. l1 \in Locals
    BY <2>2, LocalsExcept
  <2> HIDE DEF l1
  <2>5. l2 \in Locals
    BY <2>2, <2>4, LocalsExcept
  <2> QED BY <2>3, <2>5
<1> QED BY <1>2, <1>3, <1>4

\* So does a change of the request in hand.
LEMMA InHandTypes ==
  ASSUME NEW local \in Locals,
         NEW phase \in {"idle", "loop", "alloc", "tail", "commit"},
         NEW q \in Req \cup {NoRequest}, NEW n \in Int, NEW c \in BOOLEAN
  PROVE  [local EXCEPT !.phase = phase, !.request = q, !.num_new_tokens = n,
                       !.compute_encoder = c] \in Locals
<1> DEFINE l1 == [local EXCEPT !.phase = phase, !.request = q]
<1>1. l1 \in Locals
  BY LocalsExcept
<1> HIDE DEF l1
<1>2. [l1 EXCEPT !.num_new_tokens = n, !.compute_encoder = c] \in Locals
  BY <1>1, LocalsExcept
<1> QED BY <1>2 DEF l1

\* The beginning of schedule() keeps the types.
LEMMA BeginTypes ==
  ASSUME TypeOK, BeginSchedule
  PROVE  TypeOK'
<1> USE DEF TypeOK
<1>1. priority' \in [Req -> Nat]
  <2>1. requests \in SUBSET Req
    BY DEF requests
  <2> QED BY <2>1, UpdatedPrioritiesType DEF BeginSchedule, RequestsTypeOK
<1>2. RequestsTypeOK' /\ QueuesTypeOK'
  BY <1>1 DEF BeginSchedule, RequestsTypeOK, QueuesTypeOK, cacheVars, queueVars, engineVars
<1>3. QueueManagerTypeOK'
  <2> DEFINE P == {r \in running : status[r] = "PREEMPTED"}
  <2>1. /\ running \in SUBSET Req /\ waiting \in SUBSET Req /\ P \in SUBSET running
        /\ ignored_req_ids \subseteq Req
    BY DEF QueuesTypeOK, QueueManagerTypeOK
  <2>2. CombineQueues(running, P, waiting, priority')
    BY DEF BeginSchedule
  <2> HIDE DEF P
  <2> QED BY <2>1, <2>2, CombiningTypes
<1>4. StepTypeOK'
  <2> DEFINE tokens == IF pause_state = "PAUSED_ALL" THEN 0 ELSE MaxNumScheduledTokens
             l1 == [Idle EXCEPT !.phase = "loop", !.req_index = 1]
  <2>1. tokens \in Int /\ MaxNumEncoderInputTokens \in Int
    BY SchedulerAssumption
  <2>2. Idle \in Locals
    BY DEF Idle, Locals
  <2>3. l1 \in Locals
    <3>1. [Idle EXCEPT !.phase = "loop"] \in Locals
      BY <2>2, LocalsExcept
    <3>2. 1 \in Int
      OBVIOUS
    <3> QED BY <3>1, <3>2, LocalsExcept
  <2>4. step' = [l1 EXCEPT !.token_budget = tokens,
                           !.encoder_compute_budget = MaxNumEncoderInputTokens]
    BY DEF BeginSchedule
  <2> HIDE DEF tokens, l1
  <2> QED BY <2>1, <2>3, <2>4, LocalsExcept DEF StepTypeOK
<1> QED BY <1>2, <1>3, <1>4

\* The part of an iteration that precedes allocate_slots keeps the types.
LEMMA ConsiderTypes ==
  ASSUME TypeOK, NEW r \in Req,
         SkipMaxTokensInFlight(r) \/ ConsiderRunning(r) \/ ConsiderWaiting(r)
  PROVE  TypeOK'
<1> USE DEF TypeOK
<1>1. QueueManagerTypeOK' /\ QueuesTypeOK'
  BY DEF SkipMaxTokensInFlight, ConsiderRunning, ConsiderWaiting, QueueManagerTypeOK,
         queueManagerVars, QueuesTypeOK, queueVars, engineVars
<1>2. CASE SkipMaxTokensInFlight(r)
  <2>1. StepTypeOK'
    BY <1>2, LocalsTypes DEF SkipMaxTokensInFlight, StepTypeOK
  <2>2. RequestsTypeOK'
    BY <1>2 DEF SkipMaxTokensInFlight, RequestsTypeOK, requestVars, cacheVars
  <2> QED BY <1>1, <2>1, <2>2
<1>3. CASE ConsiderRunning(r) \/ ConsiderWaiting(r)
  <2>0. PICK n \in Int : \E outcome \in EncoderOutcomes(r, n) :
          \/ step' = PassedOver(step) /\ encoder_refs' = encoder_refs
          \/ step' = [step EXCEPT !.phase = "commit"] /\ encoder_refs' = encoder_refs
          \/ TryToAllocate(r, outcome)
    BY <1>3, NumNewTokensType DEF ConsiderRunning, ConsiderWaiting
  <2>1. PICK outcome \in EncoderOutcomes(r, n) :
          \/ step' = PassedOver(step) /\ encoder_refs' = encoder_refs
          \/ step' = [step EXCEPT !.phase = "commit"] /\ encoder_refs' = encoder_refs
          \/ TryToAllocate(r, outcome)
    BY <2>0
  <2>2. outcome.num_new_tokens \in Int /\ outcome.compute \in BOOLEAN
    BY EncoderOutcomesType
  <2>3. StepTypeOK'
    <3>1. CASE step' = PassedOver(step)
      BY <3>1, LocalsTypes DEF StepTypeOK
    <3>2. CASE step' = [step EXCEPT !.phase = "commit"]
      BY <3>2, LocalsExcept DEF StepTypeOK
    <3>3. CASE TryToAllocate(r, outcome)
      BY <2>2, <3>3, InHandTypes DEF StepTypeOK, TryToAllocate
    <3> QED BY <2>1, <3>1, <3>2, <3>3
  <2>4. encoder_refs' \subseteq Req
    BY <2>1 DEF TryToAllocate, RequestsTypeOK
  <2>5. RequestsTypeOK'
    BY <1>3, <2>4 DEF ConsiderRunning, ConsiderWaiting, RequestsTypeOK, requestVars
  <2> QED BY <1>1, <2>3, <2>5
<1> QED BY <1>2, <1>3

\* Marking a waiting request as ignored keeps the types.
LEMMA IgnoreTypes ==
  ASSUME TypeOK, NEW r \in Req, IgnoreWaiting(r)
  PROVE  TypeOK'
<1> USE DEF TypeOK
<1>1. QueueManagerTypeOK'
  BY IgnoringTypes DEF IgnoreWaiting
<1>2. StepTypeOK'
  BY LocalsTypes DEF IgnoreWaiting, StepTypeOK
<1>3. RequestsTypeOK'
  BY DEF IgnoreWaiting, RequestsTypeOK, cacheVars, Statuses
<1>4. QueuesTypeOK'
  BY DEF IgnoreWaiting, QueuesTypeOK, queueVars, engineVars
<1> QED BY <1>1, <1>2, <1>3, <1>4

\* Scheduling a running request keeps the types.
LEMMA ScheduleRunningTypes ==
  ASSUME TypeOK, NEW r \in Req, ScheduleRunning(r)
  PROVE  TypeOK'
<1> USE DEF TypeOK
<1>1. QueueManagerTypeOK' /\ QueuesTypeOK'
  BY DEF ScheduleRunning, QueueManagerTypeOK, queueManagerVars, QueuesTypeOK,
         queueVars, engineVars
<1>2. step.num_new_tokens \in Int /\ step.scheduled_running_reqs \in SUBSET Req
  BY DEF StepTypeOK, Locals
<1>3. RequestsTypeOK'
  BY <1>2, AllocateTypes DEF ScheduleRunning, RequestsTypeOK, requestVars
<1>4. StepTypeOK'
  <2> DEFINE local == Scheduled(r, step)
             reqs == local.scheduled_running_reqs \cup {r}
  <2>1. local \in Locals
    BY LocalsTypes DEF StepTypeOK
  <2>2. reqs \in SUBSET Req
    BY <2>1 DEF Locals
  <2>3. step' = [local EXCEPT !.scheduled_running_reqs = reqs]
    BY <2>1 DEF ScheduleRunning, Locals
  <2> HIDE DEF local, reqs
  <2> QED BY <2>1, <2>2, <2>3, LocalsExcept DEF StepTypeOK
<1> QED BY <1>1, <1>3, <1>4

\* Admitting a waiting or preempted request keeps the types.
LEMMA ScheduleWaitingTypes ==
  ASSUME TypeOK, NEW r \in Req, ScheduleWaiting(r)
  PROVE  TypeOK'
<1> USE DEF TypeOK
<1>1. QueueManagerTypeOK'
  BY SchedulingTypes DEF ScheduleWaiting
<1>2. QueuesTypeOK'
  BY DEF ScheduleWaiting, QueuesTypeOK, queueVars, engineVars
<1>3. RequestsTypeOK'
  <2>1. step.num_new_tokens \in Int
    BY DEF StepTypeOK, Locals
  <2> QED BY <2>1, AllocateTypes DEF ScheduleWaiting, RequestsTypeOK, Statuses
<1>4. StepTypeOK'
  <2> DEFINE local == Scheduled(r, step)
             reqs == IF status[r] = "PREEMPTED"
                     THEN local.scheduled_resumed_reqs \cup {r}
                     ELSE local.scheduled_resumed_reqs
  <2>1. local \in Locals
    BY LocalsTypes DEF StepTypeOK
  <2>2. reqs \in SUBSET Req
    BY <2>1 DEF Locals
  <2>3. step' = [local EXCEPT !.scheduled_resumed_reqs = reqs]
    BY <2>1 DEF ScheduleWaiting, Locals
  <2> HIDE DEF local, reqs
  <2> QED BY <2>1, <2>2, <2>3, LocalsExcept DEF StepTypeOK
<1> QED BY <1>1, <1>2, <1>3, <1>4

\* A preemption inside the allocation loop, undo included, keeps the types.
LEMMA PreemptLastRunningTypes ==
  ASSUME TypeOK, NEW victim \in Req, PreemptLastRunning(victim)
  PROVE  TypeOK'
<1> USE DEF TypeOK
<1>1. QueueManagerTypeOK' /\ RequestsTypeOK' /\ QueuesTypeOK'
  BY PreemptTypes DEF PreemptLastRunning
<1>2. StepTypeOK'
  <2> DEFINE undone == Unscheduled(victim, step)
             ids == undone.preempted_req_ids \cup {victim}
             local == [undone EXCEPT !.preempted_req_ids = ids]
  <2>1. undone \in Locals
    BY LocalsTypes DEF StepTypeOK
  <2>2. ids \in SUBSET Req
    BY <2>1 DEF Locals
  <2>3. local = [undone EXCEPT !.preempted_req_ids = @ \cup {victim}]
    BY <2>1 DEF Locals
  <2>4. \/ step' = local
        \/ step' = [local EXCEPT !.phase = "commit", !.request = NoRequest,
                                 !.num_new_tokens = 0, !.compute_encoder = FALSE]
    BY <2>3 DEF PreemptLastRunning
  <2> HIDE DEF undone, ids
  <2>5. local \in Locals
    BY <2>1, <2>2, LocalsExcept
  <2> HIDE DEF local
  <2>6. [local EXCEPT !.phase = "commit", !.request = NoRequest,
                      !.num_new_tokens = 0, !.compute_encoder = FALSE] \in Locals
    <3>1. NoRequest \in Req \cup {NoRequest} /\ 0 \in Int /\ FALSE \in BOOLEAN
      OBVIOUS
    <3> QED BY <2>5, <3>1, InHandTypes
  <2> QED BY <2>4, <2>5, <2>6 DEF StepTypeOK
<1> QED BY <1>1, <1>2

\* A preemption at the end of the step keeps the types.
LEMMA PreemptUnreachedTypes ==
  ASSUME TypeOK, NEW r \in Req, PreemptUnreached(r)
  PROVE  TypeOK'
<1> USE DEF TypeOK
<1>1. QueueManagerTypeOK' /\ RequestsTypeOK' /\ QueuesTypeOK'
  BY PreemptTypes DEF PreemptUnreached
<1>2. StepTypeOK'
  <2> DEFINE ids == step.preempted_req_ids \cup {r}
  <2>1. Len(combined) \in Nat /\ step.req_index \in Int
    BY LenProperties DEF QueueManagerTypeOK, StepTypeOK, Locals
  <2>2. PICK i \in step.req_index..Len(combined) :
          step' = [step EXCEPT !.req_index = i + 1, !.preempted_req_ids = ids]
    BY DEF PreemptUnreached, StepTypeOK, Locals
  <2>3. i + 1 \in Int
    BY <2>1
  <2>4. ids \in SUBSET Req
    BY DEF StepTypeOK, Locals
  <2> HIDE DEF ids
  <2> QED BY <2>2, <2>3, <2>4, LocalsExcept DEF StepTypeOK
<1> QED BY <1>1, <1>2

\* The ways out of the loops, and a failed assertion, keep the types.
LEMMA EndingTypes ==
  ASSUME TypeOK, EndLoop \/ GiveUpAllocation \/ EndTail \/ ScheduleRaises
  PROVE  TypeOK'
<1> USE DEF TypeOK
<1>1. QueueManagerTypeOK' /\ QueuesTypeOK'
  BY DEF EndLoop, GiveUpAllocation, EndTail, ScheduleRaises, QueueManagerTypeOK,
         queueManagerVars, QueuesTypeOK, queueVars, engineVars
<1>2. RequestsTypeOK'
  <2>1. encoder_refs' \subseteq encoder_refs
    BY DEF EndLoop, GiveUpAllocation, EndTail, ScheduleRaises, cacheVars
  <2> QED BY <2>1 DEF EndLoop, GiveUpAllocation, EndTail, ScheduleRaises,
                      RequestsTypeOK, requestVars, cacheVars
<1>3. StepTypeOK'
  <2>1. \/ step' = step
        \/ step' = [step EXCEPT !.phase = "tail"]
        \/ step' = [step EXCEPT !.phase = "commit"]
        \/ step' = [step EXCEPT !.phase = "commit", !.request = NoRequest,
                                !.num_new_tokens = 0, !.compute_encoder = FALSE]
    BY DEF EndLoop, GiveUpAllocation, EndTail, ScheduleRaises
  <2>2. NoRequest \in Req \cup {NoRequest} /\ 0 \in Int /\ FALSE \in BOOLEAN
    OBVIOUS
  <2>3. [step EXCEPT !.phase = "commit", !.request = NoRequest,
                     !.num_new_tokens = 0, !.compute_encoder = FALSE] \in Locals
    BY <2>2, InHandTypes DEF StepTypeOK
  <2> QED BY <2>1, <2>3, LocalsExcept DEF StepTypeOK
<1> QED BY <1>1, <1>2, <1>3

\* update_queues and the sending of the batch keep the types.
LEMMA CommitTypes ==
  ASSUME TypeOK, CommitSchedule
  PROVE  TypeOK'
<1> USE DEF TypeOK
<1>1. QueueManagerTypeOK'
  BY EmptySeq DEF CommitSchedule, QueueManagerTypeOK, None
<1>2. StepTypeOK'
  BY DEF CommitSchedule, StepTypeOK, Locals, Idle
<1>3. RequestsTypeOK'
  <2>1. \A r \in Req : num_computed_tokens[r] + step.num_scheduled_tokens[r] \in Int
    BY DEF RequestsTypeOK, StepTypeOK, Locals
  <2>2. num_computed_tokens' \in [Req -> Int]
    BY <2>1 DEF CommitSchedule
  <2>3. num_output_placeholders' \in [Req -> Int]
    BY DEF CommitSchedule, RequestsTypeOK
  <2> QED BY <2>2, <2>3 DEF CommitSchedule, RequestsTypeOK, cacheVars
<1>4. QueuesTypeOK'
  <2>1. Range(combined) \subseteq Req
    BY RangeOfSeq DEF QueueManagerTypeOK
  <2>2. RunningAfterUpdate \subseteq Req
    <3>1. \A i \in 1..(first_waiting_idx - 1) : combined[i] \in Req
      BY ElementOfSeq, LenProperties DEF QueueManagerTypeOK
    <3> QED BY <2>1, <3>1 DEF RunningAfterUpdate
  <2>3. WaitingAfterUpdate \subseteq Req
    BY <2>1 DEF WaitingAfterUpdate
  <2>4. PICK sampled \in SUBSET Req :
          batch_queue' = Append(batch_queue,
                                [scheduled |-> ScheduledReqs, sampled |-> sampled])
    <3>1. ScheduledReqs \subseteq Req
      BY DEF ScheduledReqs
    <3> QED BY <3>1 DEF CommitSchedule
  <2>5. batch_queue' \in Seq(Batches)
    <3>1. [scheduled |-> ScheduledReqs, sampled |-> sampled] \in Batches
      BY DEF Batches, ScheduledReqs
    <3> QED BY <2>4, <3>1, AppendProperties DEF QueuesTypeOK
  <2> QED BY <2>2, <2>3, <2>5 DEF CommitSchedule, QueuesTypeOK, ScheduledReqs
<1> QED BY <1>1, <1>2, <1>3, <1>4

\* A step that changes nothing keeps the types.
LEMMA StutteringTypes ==
  ASSUME TypeOK, UNCHANGED vars
  PROVE  TypeOK'
BY DEF TypeOK, vars, QueueManagerTypeOK, queueManagerVars, StepTypeOK, RequestsTypeOK,
       requestVars, cacheVars, QueuesTypeOK, queueVars, engineVars

\* Whatever clients and workers do, the scheduler's state stays within its types;
\* in particular the two indices the QueueManager patches never leave `combined',
\* so that combined_queue[idx] never raises.
THEOREM TypeCorrect == SchedulerSpec => []TypeOK
<1>1. ASSUME TypeOK, [SchedulerNext]_vars PROVE TypeOK'
  <2> USE <1>1
  <2>1. CASE ClientStep
    BY <2>1, ClientStepTypes
  <2>2. CASE UpdateFromOutput
    BY <2>2, OutputTypes
  <2>3. CASE EngineIdle \/ EngineDead \/ UNCHANGED vars
    BY <2>3, StutteringTypes DEF EngineIdle, EngineDead
  <2>4. CASE BeginSchedule
    BY <2>4, BeginTypes
  <2>5. CASE EndLoop \/ GiveUpAllocation \/ EndTail \/ ScheduleRaises
    BY <2>5, EndingTypes
  <2>6. CASE CommitSchedule
    BY <2>6, CommitTypes
  <2>7. ASSUME NEW r \in Req,
               SkipMaxTokensInFlight(r) \/ ConsiderRunning(r) \/ ConsiderWaiting(r)
        PROVE  TypeOK'
    BY <2>7, ConsiderTypes
  <2>8. ASSUME NEW r \in Req, IgnoreWaiting(r) PROVE TypeOK'
    BY <2>8, IgnoreTypes
  <2>9. ASSUME NEW r \in Req, ScheduleRunning(r) PROVE TypeOK'
    BY <2>9, ScheduleRunningTypes
  <2>10. ASSUME NEW r \in Req, ScheduleWaiting(r) PROVE TypeOK'
    BY <2>10, ScheduleWaitingTypes
  <2>11. ASSUME NEW r \in Req, PreemptLastRunning(r) PROVE TypeOK'
    BY <2>11, PreemptLastRunningTypes
  <2>12. ASSUME NEW r \in Req, PreemptUnreached(r) PROVE TypeOK'
    BY <2>12, PreemptUnreachedTypes
  <2> QED BY <2>1, <2>2, <2>3, <2>4, <2>5, <2>6, <2>7, <2>8, <2>9, <2>10, <2>11, <2>12
          DEF SchedulerNext, EngineStep, ScheduleStep
<1> QED BY <1>1, InitTypes, PTL DEF SchedulerSpec

-----------------------------------------------------------------------------
\* No request is both running and waiting, and both lists hold known requests.
QueuesAreDisjoint ==
  /\ running \cap waiting = {}
  /\ \A r \in running \cup waiting : status[r] # "UNSEEN"

\* A schedule() is under way and no assertion has failed.
InSchedule == step.phase # "idle" /\ failed_assertion = "none"

\* During a schedule(), `combined' holds the two queues, each request once, and
\* its indices are exact unless a request has been ignored.
CombinedIsMerged ==
  InSchedule => /\ Range(combined) = running \cup waiting
                /\ ignored_req_ids = {} => Roles /\ Exact

\* IndicesAreExact is not inductive: a patched index is exact only if no request
\* is twice in the list and none is in two roles, which in turn needs the two
\* queues to be disjoint between the steps.
IndexInv == QueuesAreDisjoint /\ CombinedIsMerged

\* The invariant implies the property.
LEMMA ExactIndicesAreExact ==
  ASSUME TypeOK, IndexInv
  PROVE  IndicesAreExact
<1>1. Len(combined) \in Nat
  BY LenProperties DEF TypeOK, QueueManagerTypeOK
<1> SUFFICES ASSUME InSchedule, ignored_req_ids = {}
             PROVE  /\ last_running_idx =
                         LastIndexIn(combined, running_req_ids, Len(combined))
                    /\ first_waiting_idx =
                         FirstIndexIn(combined, Denied, 1)
  BY DEF IndicesAreExact, InSchedule, Denied
<1>2. /\ IsLast(last_running_idx, running_req_ids, combined, Len(combined))
      /\ IsFirst(first_waiting_idx, Denied, combined, 1)
  BY DEF IndexInv, CombinedIsMerged, Exact
<1> QED BY <1>1, <1>2, OnlyLastIndex, OnlyFirstIndex

\* Between two schedules the queues stay disjoint: requests are added to one of
\* them only when they are new.
LEMMA BetweenStepsIndexInv ==
  ASSUME TypeOK, IndexInv, ClientStep \/ UpdateFromOutput
  PROVE  IndexInv'
<1> USE DEF IndexInv
<1>1. step.phase = "idle" /\ step' = step
  BY DEF ClientStep, AddRequest, AbortRequest, SetPauseState, ResetPrefixCache,
         UpdateFromOutput, BetweenSteps, Phase
<1>2. CombinedIsMerged'
  BY <1>1 DEF CombinedIsMerged, InSchedule
<1>3. ASSUME NEW r \in Req, AddRequest(r) PROVE QueuesAreDisjoint'
  <2>1. status[r] = "UNSEEN" /\ r \notin running \cup waiting
    BY <1>3 DEF AddRequest, QueuesAreDisjoint
  <2>2. /\ running' = running /\ waiting' \subseteq waiting \cup {r}
        /\ status'[r] # "UNSEEN"
        /\ \A q \in Req \ {r} : status'[q] = status[q]
    BY <1>3 DEF AddRequest, TypeOK, RequestsTypeOK
  <2> QED BY <2>1, <2>2 DEF QueuesAreDisjoint, TypeOK, QueuesTypeOK
<1>4. CASE \/ \E r \in Req : AbortRequest(r)
           \/ \E pause \in {"UNPAUSED", "PAUSED_NEW", "PAUSED_ALL"} : SetPauseState(pause)
           \/ ResetPrefixCache
           \/ UpdateFromOutput
  <2>1. running' \subseteq running /\ waiting' \subseteq waiting
    BY <1>4 DEF AbortRequest, SetPauseState, queueVars, ResetPrefixCache, UpdateFromOutput
  <2>2. \A r \in Req : status[r] # "UNSEEN" => status'[r] # "UNSEEN"
    BY <1>4 DEF AbortRequest, SetPauseState, requestVars, ResetPrefixCache,
                UpdateFromOutput, TypeOK, RequestsTypeOK
  <2> QED BY <1>2, <2>1, <2>2 DEF QueuesAreDisjoint, TypeOK, QueuesTypeOK
<1> QED BY <1>2, <1>3, <1>4 DEF ClientStep

\* combine_queues establishes the invariant for a new step.
LEMMA BeginIndexInv ==
  ASSUME TypeOK, IndexInv, BeginSchedule
  PROVE  IndexInv'
<1> DEFINE P == {r \in running : status[r] = "PREEMPTED"}
<1>1. /\ running \in SUBSET Req /\ waiting \in SUBSET Req
      /\ P \in SUBSET running /\ running \cap waiting = {}
  BY DEF TypeOK, QueuesTypeOK, IndexInv, QueuesAreDisjoint
<1>2. CombineQueues(running, P, waiting, priority')
  BY DEF BeginSchedule
<1> HIDE DEF P
<1>3. Roles' /\ Exact' /\ Range(combined') = running \cup waiting
  BY <1>1, <1>2, CombiningIsExact
<1>4. running' = running /\ waiting' = waiting /\ status' = status
  BY DEF BeginSchedule, queueVars
<1> QED BY <1>3, <1>4 DEF IndexInv, QueuesAreDisjoint, CombinedIsMerged

\* Inside schedule() the invariant is a matter of the QueueManager's operations.
LEMMA LoopIndexInv ==
  ASSUME TypeOK, IndexInv, InSchedule,
         UNCHANGED <<running, waiting, combined>>,
         \A r \in Req : status[r] # "UNSEEN" => status'[r] # "UNSEEN",
         \/ UNCHANGED queueManagerVars
         \/ failed_assertion' = "none" => UpdateIdxsAfterPreemption /\ PreemptionAssertion
         \/ UpdateIdxsAfterNewScheduling
         \/ UpdateIdxsAfterIgnored
  PROVE  IndexInv'
<1>1. QueuesAreDisjoint'
  BY DEF IndexInv, QueuesAreDisjoint, TypeOK, QueuesTypeOK
<1>2. Range(combined') = running' \cup waiting'
  BY DEF IndexInv, CombinedIsMerged
<1>3. ASSUME failed_assertion' = "none", ignored_req_ids' = {}
      PROVE  Roles' /\ Exact'
  <2>1. CASE UNCHANGED queueManagerVars
    BY <1>3, <2>1
       DEF IndexInv, CombinedIsMerged, queueManagerVars, Roles, Exact, Denied
  <2>2. CASE UpdateIdxsAfterPreemption /\ PreemptionAssertion
    <3>1. ignored_req_ids = {}
      BY <1>3, <2>2 DEF UpdateIdxsAfterPreemption, queueManagerVars
    <3> QED BY <2>2, <3>1, PreemptionKeepsExact DEF IndexInv, CombinedIsMerged
  <2>3. CASE UpdateIdxsAfterNewScheduling
    <3>1. ignored_req_ids = {}
      BY <1>3, <2>3 DEF UpdateIdxsAfterNewScheduling, queueManagerVars
    <3> QED BY <2>3, <3>1, SchedulingKeepsExact DEF IndexInv, CombinedIsMerged
  <2>4. CASE UpdateIdxsAfterIgnored
    <3>1. UNCHANGED queueManagerVars
      BY <1>3, <2>4 DEF UpdateIdxsAfterIgnored
    <3> QED BY <2>1, <3>1
  <2> QED BY <1>3, <2>1, <2>2, <2>3, <2>4
<1> QED BY <1>1, <1>2, <1>3 DEF IndexInv, CombinedIsMerged, InSchedule

\* Every step of schedule() keeps the invariant.
LEMMA ScheduleIndexInv ==
  ASSUME TypeOK, IndexInv, ScheduleStep
  PROVE  IndexInv'
<1>1. CASE BeginSchedule
  BY <1>1, BeginIndexInv
<1>2. CASE EndLoop \/ GiveUpAllocation \/ EndTail \/ ScheduleRaises
  <2>1. InSchedule
    BY <1>2 DEF EndLoop, GiveUpAllocation, EndTail, ScheduleRaises, Phase, InSchedule
  <2>2. UNCHANGED queueManagerVars /\ UNCHANGED <<running, waiting, status>>
    BY <1>2 DEF EndLoop, GiveUpAllocation, EndTail, ScheduleRaises, queueVars, requestVars
  <2> QED BY <2>1, <2>2, LoopIndexInv DEF queueManagerVars
<1>3. ASSUME NEW r \in Req,
             \/ SkipMaxTokensInFlight(r) \/ ConsiderRunning(r)
             \/ ConsiderWaiting(r) \/ ScheduleRunning(r)
      PROVE  IndexInv'
  <2>1. InSchedule
    BY <1>3 DEF SkipMaxTokensInFlight, ConsiderRunning, ConsiderWaiting, ScheduleRunning,
                Current, Phase, InSchedule
  <2>2. UNCHANGED queueManagerVars /\ UNCHANGED <<running, waiting, status>>
    BY <1>3 DEF SkipMaxTokensInFlight, ConsiderRunning, ConsiderWaiting, ScheduleRunning,
                queueVars, requestVars
  <2> QED BY <2>1, <2>2, LoopIndexInv DEF queueManagerVars
<1>4. ASSUME NEW r \in Req, IgnoreWaiting(r) PROVE IndexInv'
  <2>1. InSchedule
    BY <1>4 DEF IgnoreWaiting, Current, Phase, InSchedule
  <2>2. /\ UpdateIdxsAfterIgnored /\ UNCHANGED <<running, waiting>>
        /\ status' = [status EXCEPT ![r] = "FINISHED_IGNORED"]
    BY <1>4 DEF IgnoreWaiting, queueVars
  <2>3. combined' = combined
    BY <2>2 DEF UpdateIdxsAfterIgnored, queueManagerVars
  <2>4. \A q \in Req : status[q] # "UNSEEN" => status'[q] # "UNSEEN"
    BY <2>2 DEF TypeOK, RequestsTypeOK
  <2> QED BY <2>1, <2>2, <2>3, <2>4, LoopIndexInv
<1>5. ASSUME NEW r \in Req, ScheduleWaiting(r) PROVE IndexInv'
  <2>1. InSchedule
    BY <1>5 DEF ScheduleWaiting, Phase, InSchedule
  <2>2. /\ UpdateIdxsAfterNewScheduling /\ UNCHANGED <<running, waiting>>
        /\ status' = [status EXCEPT ![r] = "RUNNING"]
    BY <1>5 DEF ScheduleWaiting, queueVars
  <2>3. combined' = combined
    BY <2>2 DEF UpdateIdxsAfterNewScheduling, queueManagerVars
  <2>4. \A q \in Req : status[q] # "UNSEEN" => status'[q] # "UNSEEN"
    BY <2>2 DEF TypeOK, RequestsTypeOK
  <2> QED BY <2>1, <2>2, <2>3, <2>4, LoopIndexInv
<1>6. ASSUME NEW r \in Req, PreemptLastRunning(r) \/ PreemptUnreached(r)
      PROVE  IndexInv'
  <2>1. InSchedule
    BY <1>6 DEF PreemptLastRunning, PreemptUnreached, Phase, InSchedule
  <2>2. Preempt(r)
    BY <1>6 DEF PreemptLastRunning, PreemptUnreached
  <2>3. /\ UpdateIdxsAfterPreemption /\ UNCHANGED <<running, waiting>>
        /\ status' = [status EXCEPT ![r] = "PREEMPTED"]
        /\ failed_assertion' = "none" => PreemptionAssertion
    BY <2>2 DEF Preempt, queueVars
  <2>4. combined' = combined
    BY <2>3 DEF UpdateIdxsAfterPreemption, queueManagerVars
  <2>5. \A q \in Req : status[q] # "UNSEEN" => status'[q] # "UNSEEN"
    BY <2>3 DEF TypeOK, RequestsTypeOK
  <2> QED BY <2>1, <2>3, <2>4, <2>5, LoopIndexInv
<1>7. CASE CommitSchedule
  <2>1. InSchedule
    BY <1>7 DEF CommitSchedule, Phase, InSchedule
  <2>2. /\ running' = RunningAfterUpdate /\ waiting' = WaitingAfterUpdate
        /\ status' = status /\ step' = Idle
    BY <1>7 DEF CommitSchedule
  <2>3. RunningAfterUpdate \subseteq Range(combined)
    <3>1. \A i \in 1..(first_waiting_idx - 1) : combined[i] \in Range(combined)
      BY LenProperties DEF TypeOK, QueueManagerTypeOK, Range
    <3> QED BY <3>1 DEF RunningAfterUpdate
  <2>4. Range(combined) = running \cup waiting
    BY <2>1 DEF IndexInv, CombinedIsMerged
  <2>5. QueuesAreDisjoint'
    BY <2>2, <2>3, <2>4 DEF WaitingAfterUpdate, IndexInv, QueuesAreDisjoint
  <2>6. step'.phase = "idle"
    BY <2>2 DEF Idle
  <2> QED BY <2>5, <2>6 DEF IndexInv, CombinedIsMerged, InSchedule
<1> QED BY <1>1, <1>2, <1>3, <1>4, <1>5, <1>6, <1>7 DEF ScheduleStep

\* So does every step of the engine and of its clients.
LEMMA NextIndexInv ==
  ASSUME TypeOK, IndexInv, [SchedulerNext]_vars
  PROVE  IndexInv'
<1>1. CASE ClientStep \/ UpdateFromOutput
  BY <1>1, BetweenStepsIndexInv
<1>2. CASE ScheduleStep
  BY <1>2, ScheduleIndexInv
<1>3. CASE EngineIdle \/ EngineDead \/ UNCHANGED vars
  <2>1. UNCHANGED vars
    BY <1>3 DEF EngineIdle, EngineDead
  <2> QED BY <2>1
          DEF vars, queueManagerVars, queueVars, requestVars, IndexInv, QueuesAreDisjoint,
              CombinedIsMerged, InSchedule, Roles, Exact, Denied
<1> QED BY <1>1, <1>2, <1>3 DEF SchedulerNext, EngineStep

\* At every moment of a schedule(), under every policy and whatever was admitted,
\* preempted or put back before, the two patched indices are what a scan of the
\* whole merged list would return: the next victim is the last running request and
\* the next candidate the first waiting one.
THEOREM IndicesExact == SchedulerSpec => []IndicesAreExact
<1>1. SchedulerInit => IndexInv
  BY DEF SchedulerInit, IndexInv, QueuesAreDisjoint, CombinedIsMerged, InSchedule, Idle
<1>2. TypeOK /\ IndexInv /\ [SchedulerNext]_vars => IndexInv'
  BY NextIndexInv
<1>3. TypeOK /\ IndexInv => IndicesAreExact
  BY ExactIndicesAreExact
<1> QED BY <1>1, <1>2, <1>3, TypeCorrect, PTL DEF SchedulerSpec

=============================================================================
