----------------------------- MODULE MCStartup ------------------------------
(* Instances of Startup for TLC.                                           *)
EXTENDS Startup, TLC

CONSTANTS m1, m2, t1, t2

Targets == (t1 :> m1) @@ (t2 :> m2)

=============================================================================
