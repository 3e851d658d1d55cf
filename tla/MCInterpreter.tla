--------------------------- MODULE MCInterpreter ----------------------------
(* Instances of Interpreter for TLC.                                       *)
EXTENDS Interpreter, TLC

CONSTANTS host, contact, small, big, bad

(* A configuration of one piece, one of three, and a malformed packet.     *)
Sizes == (small :> 1) @@ (big :> 3) @@ (bad :> ERR)

=============================================================================
