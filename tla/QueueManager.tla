---------------------------- MODULE QueueManager ----------------------------
(***************************************************************************)
(* The QueueManager of RPS-Serve (vllm/v1/core/sched/queue_manager.py).    *)
(*                                                                         *)
(* schedule() walks one list, `combined', in which running and waiting     *)
(* requests are merged by priority.  The manager keeps the sets of ids in  *)
(* each role and two indices: the last running request (the next victim of *)
(* a preemption) and the first waiting one (the next to be admitted).  The *)
(* indices are not recomputed from scratch: each operation patches them,   *)
(* and update_queues() cuts `combined' at the second one.                  *)
(*                                                                         *)
(* Sequences are indexed from 1 here and from 0 in the code, and 0 stands  *)
(* for Python's None.                                                      *)
(***************************************************************************)
EXTENDS Integers, FiniteSets, Sequences, SequencesExt

CONSTANTS Req   \* the request ids a client may submit

ASSUME ReqAssumption == IsFiniteSet(Req)

VARIABLES
  combined,            \* the merged list, most urgent request first
  running_req_ids,
  waiting_req_ids,
  preempted_req_ids,
  ignored_req_ids,     \* never cleared by the code
  last_running_idx,
  first_waiting_idx

queueManagerVars ==
  <<combined, running_req_ids, waiting_req_ids, preempted_req_ids,
    ignored_req_ids, last_running_idx, first_waiting_idx>>

None == 0

\* Slip: a scan down that stops before the first element.
LastIndexInTail(seq, ids, upto) ==
  SelectLastInSubSeq(seq, 2, upto, LAMBDA r : r \in ids)

\* The two scans every operation ends with.
LastIndexIn(seq, ids, upto) ==
  SelectLastInSubSeq(seq, 1, upto, LAMBDA r : r \in ids)

FirstIndexIn(seq, ids, from) ==
  SelectInSubSeq(seq, from, Len(seq), LAMBDA r : r \in ids)

QueueManagerInit ==
  /\ combined = <<>>
  /\ running_req_ids = {}
  /\ waiting_req_ids = {}
  /\ preempted_req_ids = {}
  /\ ignored_req_ids = {}
  /\ last_running_idx = None
  /\ first_waiting_idx = None

-----------------------------------------------------------------------------
(* combine_queues: sort by (priority, role), roles ordered running,        *)
(* preempted, waiting.  The order inside an equal (priority, role) group   *)
(* is Python's stable one and is left open.                                *)

Orderings(S) == Bijection(1..Cardinality(S), S)

\* Slip: the two parts of the sort key are swapped.
SortedByRole(seq, role, priority) ==
  \A i, j \in DOMAIN seq : i < j => role[seq[i]] <= role[seq[j]]

SortedByPriority(seq, role, priority) ==
  \A i, j \in DOMAIN seq :
    i < j => \/ priority[seq[i]] < priority[seq[j]]
             \/ /\ priority[seq[i]] = priority[seq[j]]
                /\ role[seq[i]] <= role[seq[j]]

CombineQueues(running, preempted, waiting, priority) ==
  LET role == [r \in Req |-> IF r \in preempted THEN 1
                            ELSE IF r \in running THEN 0 ELSE 2]
  IN  /\ combined' \in { seq \in Orderings(running \cup waiting) :
                           SortedByPriority(seq, role, priority) }
      /\ running_req_ids' = running \ preempted
      /\ preempted_req_ids' = preempted
      /\ waiting_req_ids' = waiting
      /\ last_running_idx' =
           LastIndexIn(combined', running_req_ids', Len(combined'))
      /\ first_waiting_idx' =
           FirstIndexIn(combined', waiting_req_ids' \cup preempted_req_ids', 1)
      /\ UNCHANGED ignored_req_ids

-----------------------------------------------------------------------------
(* The operations on the indices.  Each acts on the request its index      *)
(* designates, whatever request the caller has in hand.                    *)

\* Slips: the first index is left where it was, or put past the end.
FirstWaitingUnmoved(last) == first_waiting_idx

FirstWaitingPastTheEnd(last) ==
  IF first_waiting_idx = None THEN Len(combined) + 1 ELSE first_waiting_idx

\* The first waiting index, given the last running one after the preemption.
FirstWaitingAfterPreemption(last) ==
  IF last = None THEN first_waiting_idx
  ELSE IF first_waiting_idx = None THEN Len(combined)
  ELSE IF last_running_idx < first_waiting_idx THEN last_running_idx
  ELSE first_waiting_idx

UpdateIdxsAfterPreemption ==
  LET victim == combined[last_running_idx]
      running == running_req_ids \ {victim}
      last == LastIndexIn(combined, running, last_running_idx)
  IN  IF last_running_idx = None
      THEN UNCHANGED queueManagerVars
      ELSE /\ running_req_ids' = running
           /\ preempted_req_ids' = preempted_req_ids \cup {victim}
           /\ last_running_idx' = last
           /\ first_waiting_idx' = FirstWaitingAfterPreemption(last)
           /\ UNCHANGED <<combined, waiting_req_ids, ignored_req_ids>>

\* The assertion inside it: when the last running request is preempted the
\* first waiting request must already be the head of the list.
PreemptionAssertion ==
  (last_running_idx # None /\ last_running_idx' = None) => first_waiting_idx = 1

\* Slip: case B2, the index follows the admitted request, is missing.
LastRunningNotFollowing(next) ==
  IF next = None THEN Len(combined)
  ELSE IF last_running_idx = None THEN 1 ELSE last_running_idx

\* The last running index, given the first waiting one after the admission.
LastRunningAfterScheduling(next) ==
  IF next = None THEN Len(combined)
  ELSE IF last_running_idx = None THEN 1
  ELSE IF first_waiting_idx > last_running_idx THEN first_waiting_idx
  ELSE last_running_idx

UpdateIdxsAfterNewScheduling ==
  LET scheduled == combined[first_waiting_idx]
      waiting == waiting_req_ids \ {scheduled}
      preempted == preempted_req_ids \ {scheduled}
      next == FirstIndexIn(combined, waiting \cup preempted, first_waiting_idx)
  IN  IF first_waiting_idx = None
      THEN UNCHANGED queueManagerVars
      ELSE /\ waiting_req_ids' = waiting
           /\ preempted_req_ids' = preempted
           /\ running_req_ids' = running_req_ids \cup {scheduled}
           /\ first_waiting_idx' = next
           /\ last_running_idx' = LastRunningAfterScheduling(next)
           /\ UNCHANGED <<combined, ignored_req_ids>>

\* Slip: the index stays on the ignored request.
IgnoringKeepsFirstWaiting ==
  /\ waiting_req_ids' = waiting_req_ids \ {combined[first_waiting_idx]}
  /\ ignored_req_ids' = ignored_req_ids \cup {combined[first_waiting_idx]}
  /\ UNCHANGED <<combined, running_req_ids, preempted_req_ids,
                 last_running_idx, first_waiting_idx>>

UpdateIdxsAfterIgnored ==
  LET ignored == combined[first_waiting_idx]
      waiting == waiting_req_ids \ {ignored}
  IN  IF first_waiting_idx = None
      THEN UNCHANGED queueManagerVars
      ELSE /\ waiting_req_ids' = waiting
           /\ ignored_req_ids' = ignored_req_ids \cup {ignored}
           /\ first_waiting_idx' =
                FirstIndexIn(combined, waiting \cup preempted_req_ids,
                             first_waiting_idx)
           /\ UNCHANGED <<combined, running_req_ids, preempted_req_ids,
                          last_running_idx>>

-----------------------------------------------------------------------------
(* update_queues: the running and the waiting list of the next step.       *)

UpdateQueuesAssertion ==
  (ignored_req_ids = {} /\ last_running_idx # None /\ first_waiting_idx # None)
    => last_running_idx = first_waiting_idx - 1

\* Slips: the cut is one element too far; ignored requests are not considered.
RunningWithFirstWaiting ==
  IF ignored_req_ids # {} THEN Range(combined) \cap running_req_ids
  ELSE IF last_running_idx = None THEN {}
  ELSE IF first_waiting_idx = None THEN Range(combined)
  ELSE { combined[i] : i \in 1..first_waiting_idx }

RunningDespiteIgnored ==
  IF last_running_idx = None THEN {}
  ELSE IF first_waiting_idx = None THEN Range(combined)
  ELSE { combined[i] : i \in 1..(first_waiting_idx - 1) }

RunningAfterUpdate ==
  IF ignored_req_ids # {} THEN Range(combined) \cap running_req_ids
  ELSE IF last_running_idx = None THEN {}
  ELSE IF first_waiting_idx = None THEN Range(combined)
  ELSE { combined[i] : i \in 1..(first_waiting_idx - 1) }

WaitingAfterUpdate == Range(combined) \ RunningAfterUpdate

=============================================================================
