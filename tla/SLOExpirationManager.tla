------------------------ MODULE SLOExpirationManager ------------------------
(***************************************************************************)
(* The scheduling policies of RPS-Serve                                    *)
(* (vllm/v1/core/sched/slo_expiration_manager.py).  A policy gives every   *)
(* known request a priority at the start of each schedule(); a smaller     *)
(* number is more urgent.                                                  *)
(*                                                                         *)
(* fcfs and catfcfs set a priority once, from the arrival time, with a     *)
(* band per category under catfcfs.  The other policies rank all the       *)
(* requests anew in each step, 1 being the most urgent.  The scores of     *)
(* "rps" and "wait-only" are real-valued functions of the request's age    *)
(* and of the moving averages of its category's queue: what they fix for   *)
(* every history is kept (two requests of one category share all the terms *)
(* but the age, so the older is never ranked after the younger) and how    *)
(* two categories compare at a given moment is left open.                  *)
(***************************************************************************)
EXTENDS QueueManager

CONSTANTS
  Policy,        \* the policy the engine is started with
  ArrivalTime,   \* [Req -> Nat \ {0}]
  Category,      \* [Req -> Categories]
  Slo,           \* [Req -> Nat], the latency objective, used by "edf"
  BandWidth      \* the 10^18 that keeps the bands of "catfcfs" apart

Policies == {"fcfs", "catfcfs", "edf", "wait-only", "rps"}

\* The frontend's classifier gives every request one of three categories.
Categories == {"sand", "pebbles", "rocks"}

ASSUME PolicyAssumption ==
  /\ Policy \in Policies
  /\ ArrivalTime \in [Req -> Nat \ {0}]
  /\ Category \in [Req -> Categories]
  /\ Slo \in [Req -> Nat]
  /\ BandWidth \in Nat
  /\ \A r \in Req : ArrivalTime[r] < BandWidth

\* The policies whose priorities are ranks.
Ranking == Policy \in {"edf", "wait-only", "rps"}

\* catfcfs puts the categories in disjoint bands of priorities.
Band(r) ==
  IF Policy # "catfcfs" \/ Category[r] = "sand" THEN 0
  ELSE IF Category[r] = "pebbles" THEN 1 ELSE 10

InitialPriority(r) == Band(r) * BandWidth + ArrivalTime[r]

Deadline(r) == ArrivalTime[r] + Slo[r]

\* p is ranked before q at every moment at which both are known.
RankedBefore(p, q) ==
  IF Policy = "edf"
  THEN \/ Deadline(p) < Deadline(q)
       \/ Deadline(p) = Deadline(q) /\ ArrivalTime[p] < ArrivalTime[q]
  ELSE Category[p] = Category[q] /\ ArrivalTime[p] < ArrivalTime[q]

Rankings(S) ==
  { rank \in Bijection(S, 1..Cardinality(S)) :
      \A p, q \in S : RankedBefore(p, q) => rank[p] < rank[q] }

\* update_priorities: the set of priority assignments it may produce.
UpdatedPriorities(requests, priority) ==
  IF Ranking
  THEN { [r \in Req |-> IF r \in requests THEN rank[r] ELSE priority[r]] :
           rank \in Rankings(requests) }
  ELSE { [r \in Req |-> IF r \in requests /\ priority[r] = 0
                        THEN InitialPriority(r) ELSE priority[r]] }

=============================================================================
