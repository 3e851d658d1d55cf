----------------------------- MODULE SpoolFifo ------------------------------
(***************************************************************************)
(* What mbuffer.c promises: "a spool, as long as there is data in it, it   *)
(* will keep adding it to the network stream".  Packets are numbered in    *)
(* the order they enter; they leave in that order, each at most once, and  *)
(* each either reaches the stream or is given up after a failed write.     *)
(***************************************************************************)
EXTENDS Naturals, Sequences

VARIABLES
  added,   (* packets that have entered                                    *)
  done,    (* packets that have left                                       *)
  wire     (* the packets on the network stream, in order                  *)

fifoVars == <<added, done, wire>>

Init == added = 0 /\ done = 0 /\ wire = << >>

Add == added' = added + 1 /\ UNCHANGED <<done, wire>>

Send ==
  /\ done < added
  /\ done' = done + 1
  /\ wire' = Append(wire, done + 1)
  /\ UNCHANGED added

GiveUp ==
  /\ done < added
  /\ done' = done + 1
  /\ UNCHANGED <<added, wire>>

Next == Add \/ Send \/ GiveUp

Spec == Init /\ [][Next]_fifoVars

=============================================================================
