--------------------------- MODULE MCDataParallel ---------------------------
(* Instances of the data-parallel deployment for TLC. *)
EXTENDS DataParallel, TLC

CONSTANTS e1, e2, q1, q2

OneAndTwo == q1 :> 1 @@ q2 :> 2
OneEach == q1 :> 1 @@ q2 :> 1
OneForEachEngine == q1 :> {e2} @@ q2 :> {e1}
=============================================================================
