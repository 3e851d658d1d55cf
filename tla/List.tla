-------------------------------- MODULE List --------------------------------
(***************************************************************************)
(* The list of cfulist.c: entries linked both ways, with an iterator kept  *)
(* in the list.  Every function but the iteration works under the mutex of *)
(* the list from its first access to its last, so that each is one action. *)
(* Memory is a set of cells; an entry is a cell.                           *)
(***************************************************************************)
EXTENDS Integers, Sequences, FiniteSets

CONSTANTS Cell, Data, NULL

CellType == [data : Data, next : Cell \cup {NULL}, prev : Cell \cup {NULL}]
ListType == [entries : Cell \cup {NULL}, tail : Cell \cup {NULL}, num_entries : Nat,
             each_ptr : Cell \cup {NULL}]

ASSUME CellAssumption ==
  IsFiniteSet(Cell) /\ NULL \notin Cell \cup Data \cup CellType \cup ListType

VARIABLES
  list,        (* NULL, or the head, tail, counter and iterator            *)
  cell,        (* NULL, or the entry in a cell                             *)
  lost,        (* history: the entry each_ptr pointed to was freed         *)
  returned     (* what a function returned last                            *)

listVars == <<list, cell, lost, returned>>

Item(rv, d, size) == [rv |-> rv, data |-> d, size |-> size]
Whole(d) == Item(1, d, d)
None == Item(0, NULL, NULL)
(* The answer to a call that adds, to one with a number, to an iteration.  *)
Added(rv) == [added |-> rv]
Asked(n, item) == [n |-> n, item |-> item]
Given(item) == [given |-> item]
Items == [rv : {0, 1}, data : Data \cup {NULL}, size : Data \cup {NULL}]

NoEntries == [entries |-> NULL, tail |-> NULL, num_entries |-> 0, each_ptr |-> NULL]

ListInit == /\ list = NULL /\ cell = [c \in Cell |-> NULL]
            /\ lost = FALSE /\ returned = None

cfulist_new ==
  list = NULL /\ list' = NoEntries /\ returned' = None /\ UNCHANGED <<cell, lost>>

(* The cells with one pointer set; nothing is done through NULL.           *)
With(f, c, field, v) == IF c = NULL THEN f ELSE [f EXCEPT ![c][field] = v]
Freed(c) == lost' = (lost \/ list.each_ptr = c)
Returns(item) == returned' = item

Full == \A c \in Cell : cell[c] # NULL
(* It makes no difference which of them calloc() gives.                    *)
FreeCell == CHOOSE c \in Cell : cell[c] = NULL

cfulist_push_data(d) ==
  /\ list # NULL
  /\ \/ Full /\ Returns(Added(0)) /\ UNCHANGED <<list, cell, lost>>
     \/ LET c == FreeCell IN
          /\ ~Full
          /\ cell' = [With(cell, list.tail, "next", c) EXCEPT
                        ![c] = [data |-> d, next |-> NULL, prev |-> list.tail]]
          /\ list' = [list EXCEPT !.tail = c, !.num_entries = @ + 1,
                                  !.entries = IF list.tail = NULL THEN c ELSE @]
          /\ Returns(Added(1)) /\ UNCHANGED lost

cfulist_unshift_data(d) ==
  /\ list # NULL
  /\ \/ Full /\ Returns(Added(0)) /\ UNCHANGED <<list, cell, lost>>
     \/ LET c == FreeCell IN
          /\ ~Full
          /\ cell' = [With(cell, list.entries, "prev", c) EXCEPT
                        ![c] = [data |-> d, next |-> list.entries, prev |-> NULL]]
          /\ list' = [list EXCEPT !.entries = c, !.num_entries = @ + 1,
                                  !.tail = IF list.entries = NULL THEN c ELSE @]
          /\ Returns(Added(1)) /\ UNCHANGED lost

(* Both ends: c is freed, its neighbour n loses the pointer to it.         *)
Unlinked_KeepPointer(c, n, field) == [cell EXCEPT ![c] = NULL]
Unlinked(c, n, field) == [With(cell, n, field, NULL) EXCEPT ![c] = NULL]

cfulist_pop_data ==
  /\ list # NULL
  /\ LET t == list.tail
     IN IF t = NULL THEN Returns(None) /\ UNCHANGED <<list, cell, lost>>
        ELSE LET p == cell[t].prev
             IN /\ cell' = Unlinked(t, p, "next")
                /\ list' = [list EXCEPT !.tail = p, !.num_entries = @ - 1,
                                        !.entries = IF p = NULL THEN NULL ELSE @]
                /\ Returns(Whole(cell[t].data)) /\ Freed(t)

cfulist_shift_data ==
  /\ list # NULL
  /\ LET h == list.entries
     IN IF h = NULL THEN Returns(None) /\ UNCHANGED <<list, cell, lost>>
        ELSE /\ cell' = Unlinked(h, cell[h].next, "prev")
             /\ list' = [list EXCEPT !.entries = cell[h].next, !.num_entries = @ - 1,
                                     !.tail = IF cell[h].next = NULL THEN NULL ELSE @]
             /\ Returns(Whole(cell[h].data)) /\ Freed(h)

-----------------------------------------------------------------------------
(* The cell some steps from c, NULL past the end, and the data up there.   *)
Steps(c) ==
  LET w[n \in Nat] == IF n = 0 THEN c
                      ELSE IF w[n - 1] = NULL THEN NULL ELSE cell[w[n - 1]].next
  IN w
IsLength(c, n) == Steps(c)[n] = NULL /\ \A m \in 0..(n - 1) : Steps(c)[m] # NULL
Length(c) == CHOOSE n \in 0..Cardinality(Cell) : IsLength(c, n)
From(c) == [i \in 1..Length(c) |-> cell[Steps(c)[i - 1]].data]
Contents == IF list = NULL THEN << >> ELSE From(list.entries)

Looks(r) == list # NULL /\ returned' = r /\ UNCHANGED <<list, cell, lost>>
DataAt(c) == IF c = NULL THEN None ELSE Whole(cell[c].data)

cfulist_first_data == Looks(DataAt(list.entries))
cfulist_last_data == Looks(DataAt(list.tail))

(* The numbers a caller asks for: every entry and one past the last.       *)
Index == 0..Cardinality(Cell)

(* The size it gives is that of the first entry.  Past the end it returns  *)
(* 0 and leaves the caller's data alone.                                   *)
cfulist_nth_data_FromOne(n) ==
  Looks(Asked(n, LET s == Contents
                 IN IF n \in 1..Len(s) THEN Item(1, s[n], s[1]) ELSE None))

cfulist_nth_data(n) ==
  Looks(Asked(n, LET s == Contents
                 IN IF n < Len(s) THEN Item(1, s[n + 1], s[1]) ELSE None))

(* fe_fn stops the walk at the nth entry, or never does.  cfulist_map and  *)
(* cfulist_join are walks that collect what they see.                      *)
Walked(n) == Item(n, SubSeq(Contents, 1, n), NULL)
cfulist_foreach(n) ==
  LET len == Len(Contents)
  IN n > 0 /\ Looks(Asked(n, Walked(IF n < len THEN n ELSE len)))
cfulist_map == Looks(Walked(Len(Contents)))
cfulist_join == Looks(Walked(Len(Contents)))

cfulist_reset_each ==
  /\ list # NULL /\ list' = [list EXCEPT !.each_ptr = list.entries]
  /\ lost' = FALSE /\ UNCHANGED <<cell, returned>>

(* What it reads through a pointer to a freed cell is undefined.           *)
NextFrom(c) ==
  IF c = NULL THEN Returns(Given(None)) /\ list' = [list EXCEPT !.each_ptr = NULL]
  ELSE /\ Returns(Given(Whole(cell[c].data)))
       /\ list' = [list EXCEPT !.each_ptr = cell[c].next]

NextLost ==
  \E c \in Cell \cup {NULL}, r \in Items :
    Returns(Given(r)) /\ list' = [list EXCEPT !.each_ptr = c]
cfulist_next_data ==
  /\ list # NULL /\ IF lost THEN NextLost ELSE NextFrom(list.each_ptr)
  /\ UNCHANGED <<cell, lost>>

cfulist_each_data ==
  /\ list # NULL /\ NextFrom(list.entries) /\ lost' = FALSE /\ UNCHANGED cell

cfulist_destroy ==
  /\ list # NULL /\ list' = NULL
  /\ cell' = [c \in Cell |-> NULL] /\ lost' = FALSE /\ UNCHANGED returned

(* The functions that remove or look at data take a list that is NULL (of  *)
(* their shorter forms, cfulist_pop() does not).                           *)
NullList == list = NULL /\ Returns(None) /\ UNCHANGED <<list, cell, lost>>

ListNext ==
  \/ cfulist_new \/ cfulist_destroy \/ NullList
  \/ \E d \in Data : cfulist_push_data(d) \/ cfulist_unshift_data(d)
  \/ cfulist_pop_data \/ cfulist_shift_data
  \/ cfulist_first_data \/ cfulist_last_data
  \/ \E n \in Index : cfulist_nth_data(n) \/ cfulist_foreach(n)
  \/ cfulist_map \/ cfulist_join
  \/ cfulist_reset_each \/ cfulist_each_data \/ cfulist_next_data

-----------------------------------------------------------------------------
(* The entries in order, one cell each, and the pointers between them.     *)
IsChain(s) ==
  LET n == list.num_entries IN
  /\ s \in [1..n -> Cell]
  /\ \A i, j \in 1..n : s[i] = s[j] => i = j
  /\ list.entries = IF n = 0 THEN NULL ELSE s[1]
  /\ list.tail = IF n = 0 THEN NULL ELSE s[n]
  /\ \A c \in Cell : cell[c] # NULL <=> \E i \in 1..n : s[i] = c
  /\ \A i \in 1..n : /\ cell[s[i]].next = IF i = n THEN NULL ELSE s[i + 1]
                     /\ cell[s[i]].prev = IF i = 1 THEN NULL ELSE s[i - 1]

(* Whatever was called, the pointers lead through the same entries from    *)
(* either end, the counter tells how many they are, and no other cell is   *)
(* in use.                                                                 *)
BothWays ==
  list # NULL =>
    /\ list.num_entries = Cardinality({c \in Cell : cell[c] # NULL})
    /\ \E s \in [1..list.num_entries -> Cell] : IsChain(s)

(* The linked entries behave as a deque: pop, shift, first and last return *)
(* the item at their end, nth the data of the entry of that number, a walk *)
(* visits the entries in order as far as it is let, and an iteration       *)
(* returns what it should as long as the entry it comes to next is not     *)
(* freed under it.  The size that nth returns is not part of this.         *)
Deq == INSTANCE Deque WITH
  items <- Contents,
  rest <- IF list = NULL \/ lost THEN << >> ELSE From(list.each_ptr)
DequeSpec == Deq!Spec

=============================================================================
