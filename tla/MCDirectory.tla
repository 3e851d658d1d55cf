---------------------------- MODULE MCDirectory -----------------------------
(* Instances of Directory for TLC.                                         *)
EXTENDS Directory, TLC

CONSTANTS p1, p2, g1, m, A, B

(* One monitor moves from controller A to controller B.                    *)
OneMonitor == [k \in {p1, p2, g1} |-> m]
TwoControllers == (p1 :> A) @@ (p2 :> B)

=============================================================================
