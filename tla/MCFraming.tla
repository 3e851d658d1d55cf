----------------------------- MODULE MCFraming ------------------------------
(* Instances of Framing for TLC.                                           *)
EXTENDS Framing, TLC

CONSTANTS t1, t2

(* A packet of four bytes, and one of eight of which three are sent.        *)
Files == (t1 :> 2) @@ (t2 :> 6)

=============================================================================
