----------------------------- MODULE MCAsyncLLM ------------------------------
(* Instances of the front end for TLC. *)
EXTENDS AsyncLLM

CONSTANTS c1, c2, x1

TwoSamples == [c \in Calls |-> IF c = c1 THEN 2 ELSE 1]
KindsOfCalls == [c \in Calls |-> IF c = c1 THEN {"DELTA", "FINAL_ONLY"} ELSE {"CUMULATIVE"}]
Lengths == [c \in Calls |-> IF c = c1 THEN 2 ELSE 1]
OneId == [c \in Calls |-> x1]
=============================================================================
