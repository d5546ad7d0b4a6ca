---------------------------- MODULE MCScheduler -----------------------------
(* Instances of the scheduler for TLC. *)
EXTENDS SchedulerProperties

CONSTANTS r1, r2, r3

\* Functions on the requests, by the values they give to r1, r2, r3.
On3(a, b, c) == r1 :> a @@ r2 :> b @@ r3 :> c

Arrivals == On3(1, 2, 3)
TextOnly == On3(0, 0, 0)
EachItsCategory == On3("sand", "pebbles", "rocks")
UrgentLast == On3("rocks", "pebbles", "sand")
SameSlo == On3(1, 1, 1)
Slos == On3(3, 1, 1)

Prompts == On3(4, 2, 1)
LongerPrompts == On3(4, 3, 2)
LongThirdPrompt == On3(4, 2, 4)
Outputs == On3(2, 3, 2)
SameArrival == On3(1, 1, 1)
Images == On3(3, 2, 0)
ImageStarts == On3(1, 0, 0)
ImagesOneTooLarge == On3(3, 2, 4)

=============================================================================
