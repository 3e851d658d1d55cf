------------------------------- MODULE Deque --------------------------------
(***************************************************************************)
(* What cfulist.h says of a list: a sequence with two ends, read at any    *)
(* place, walked, and returned an item at a time by one iteration.  Two    *)
(* things are left open.  An iteration survives every change but the       *)
(* removal of the item it would return next; from then on, and until it is *)
(* reset, it is lost and may return anything.  And of the nth entry only   *)
(* the data is specified, not the size.                                    *)
(***************************************************************************)
EXTENDS Integers, Sequences

CONSTANTS Data, NULL, Index    (* Index: the numbers a caller may ask for  *)

VARIABLES
  items, rest,      (* the items, those the iteration has yet to return    *)
  lost, returned

dequeVars == <<items, rest, lost, returned>>

Item(rv, d, size) == [rv |-> rv, data |-> d, size |-> size]
None == Item(0, NULL, NULL)
Whole(d) == Item(1, d, d)
(* The answer to a call that adds, to one with a number, to an iteration.  *)
Added(rv) == [added |-> rv]
Asked(n, item) == [n |-> n, item |-> item]
Given(item) == [given |-> item]
Items == [rv : {0, 1}, data : Data \cup {NULL}, size : Data \cup {NULL}]

Last(s) == s[Len(s)]
Front(s) == SubSeq(s, 1, Len(s) - 1)

Init == items = << >> /\ rest = << >> /\ lost = FALSE /\ returned = None

Push(d) == /\ returned' = Added(1) /\ items' = Append(items, d)
           /\ rest' = IF rest = << >> THEN rest ELSE Append(rest, d)
           /\ UNCHANGED lost
Unshift(d) == /\ returned' = Added(1) /\ items' = <<d>> \o items
              /\ UNCHANGED <<rest, lost>>
(* There is no memory for another.                                         *)
NotAdded == returned' = Added(0) /\ UNCHANGED <<items, rest, lost>>

Pop == /\ items # << >> /\ returned' = Whole(Last(items))
       /\ items' = Front(items)
       /\ rest' = IF rest = << >> THEN rest ELSE Front(rest)
       /\ lost' = (lost \/ Len(rest) = 1)
Shift == /\ items # << >> /\ returned' = Whole(Head(items))
         /\ items' = Tail(items)
         /\ rest' = IF rest = items THEN << >> ELSE rest
         /\ lost' = (lost \/ rest = items)

Missing == items = << >> /\ returned' = None
First == items # << >> /\ returned' = Whole(Head(items))
End == items # << >> /\ returned' = Whole(Last(items))

(* Item n, counted from 0; what is given as its size is left open.         *)
Nth(n) ==
  \/ /\ n < Len(items)
     /\ \E size \in Data : returned' = Asked(n, Item(1, items[n + 1], size))
  \/ n >= Len(items) /\ returned' = Asked(n, None)

(* A walk over the first n items, or over all if there are fewer.          *)
Walked(n) == Item(n, SubSeq(items, 1, n), NULL)
Walk(n) ==
  returned' = Asked(n, Walked(IF n < Len(items) THEN n ELSE Len(items)))
WalkAll == returned' = Walked(Len(items))
Look == /\ \/ Missing \/ First \/ End \/ WalkAll
           \/ \E n \in Index : Nth(n) \/ Walk(n)
        /\ UNCHANGED <<items, rest, lost>>

Reset == UNCHANGED <<returned, items>> /\ rest' = items /\ lost' = FALSE
Gives(s) == IF s = << >> THEN returned' = Given(None) /\ rest' = << >>
            ELSE returned' = Given(Whole(Head(s))) /\ rest' = Tail(s)
GivesAnything == rest' = << >> /\ \E r \in Items : returned' = Given(r)
Each == Gives(items) /\ lost' = FALSE /\ UNCHANGED items
Following == /\ IF lost THEN GivesAnything ELSE Gives(rest)
             /\ UNCHANGED <<items, lost>>

Destroy == /\ UNCHANGED returned /\ lost' = FALSE
           /\ items' = << >> /\ rest' = << >>

Next == \/ NotAdded \/ \E d \in Data : Push(d) \/ Unshift(d)
        \/ Pop \/ Shift \/ Look \/ Reset \/ Each \/ Following \/ Destroy

Spec == Init /\ [][Next]_dequeVars

=============================================================================
