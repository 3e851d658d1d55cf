--------------------------- MODULE MCThreadQueue ----------------------------
(* Instances of ThreadQueue for TLC.                                       *)
EXTENDS ThreadQueue

CONSTANTS c1, c2, wt, x1, x2, x3

=============================================================================
