---------------------------- MODULE MCController ----------------------------
(* Instances of Controller for TLC.                                        *)
EXTENDS Controller, TLC

CONSTANTS m1, m2, t1, t2, a, b

(* The tools ask for the monitor named a.                                  *)
NamesOf == (m1 :> a) @@ (m2 :> b) @@ (t1 :> a) @@ (t2 :> a)
TwoMonitors == [c \in {m1, m2, t1} |-> NamesOf[c]]
TwoTools == [c \in {m1, t1, t2} |-> NamesOf[c]]

=============================================================================
