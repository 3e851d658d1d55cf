------------------------------ MODULE MCMapper ------------------------------
(* Instances of Mapper for TLC.                                            *)
EXTENDS Mapper, TLC

CONSTANTS r1, r2, r3

ThreeKinds == (r1 :> "contacts") @@ (r2 :> "monitors") @@ (r3 :> "nothing")

=============================================================================
