---------------------------- MODULE Collectives ----------------------------
(***************************************************************************)
(* What the engines of one data-parallel deployment must keep to, whatever *)
(* else they do.  Every forward pass is a collective operation of all the  *)
(* ranks, and so are the two all-reduces of the engine core: a rank that   *)
(* enters one waits until all the others have entered the same one.  So no *)
(* rank may enter one kind while another waits in a different kind, and    *)
(* whoever waits must be joined by all the others.                         *)
(***************************************************************************)
CONSTANTS
  Engines,    \* the ranks
  Kinds,      \* the kinds of collective operations
  Loop        \* of a rank that waits in none; not one of the Kinds

VARIABLE at   \* at[e] is the operation in which rank e waits, or Loop

Init == at = [e \in Engines |-> Loop]

Enter(e, k) ==
  /\ at[e] = Loop
  /\ \A f \in Engines : at[f] \in {Loop, k}
  /\ at' = [at EXCEPT ![e] = k]

\* All have entered: they leave together, into the loop or straight into the
\* next operation.
Complete(k) ==
  /\ at = [e \in Engines |-> k]
  /\ \E next \in {Loop} \union Kinds : at' = [e \in Engines |-> next]

\* Rank e enters the operation in which another rank waits.
Join(e) ==
  \E k \in Kinds :
    /\ \E f \in Engines : at[f] = k
    /\ Enter(e, k)

Next ==
  \/ \E e \in Engines, k \in Kinds : Enter(e, k)
  \/ \E k \in Kinds : Complete(k)

Safety == Init /\ [][Next]_at

Spec ==
  /\ Safety
  /\ \A e \in Engines : WF_at(Join(e))
  /\ WF_at(\E k \in Kinds : Complete(k))
=============================================================================
