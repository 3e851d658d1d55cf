------------------------- MODULE ThreadQueueProofs --------------------------
(**************************************************************************  *)
(* Proofs about List and ThreadQueue: the pointers of the list form one      *)
(* chain, walking along it shows a deque, and a call of make_request         *)
(* returns its own answer, for every number of cells and clients.            *)
(**************************************************************************  *)
EXTENDS ThreadQueue, FiniteSetTheorems, WellFoundedInduction, SequenceTheorems, TLAPS

Used == {c \in Cell : cell[c] # NULL}
Reachable(e) == e = NULL \/ e \in Used

LInv ==
  /\ cell \in [Cell -> CellType \cup {NULL}]
  /\ lost \in BOOLEAN
  /\ list # NULL => /\ list \in ListType
                    /\ \E s \in [1..list.num_entries -> Cell] : IsChain(s)
                    /\ ~lost => Reachable(list.each_ptr)
  /\ list = NULL => Used = {}

(* Calls that leave the list alone, or move its iterator only.               *)
LEMMA SameList ==
  ASSUME LInv, UNCHANGED <<list, cell, lost>>
  PROVE  LInv' /\ Used' = Used
BY DEF LInv, IsChain, Used, Reachable

LEMMA IteratorMoves ==
  ASSUME LInv, list # NULL, NEW e \in Cell \cup {NULL},
         list' = [list EXCEPT !.each_ptr = e], cell' = cell,
         lost' \in BOOLEAN, ~lost' => Reachable(e)
  PROVE  LInv'
<1>1. /\ list \in ListType /\ list' \in ListType /\ list' # NULL
      /\ list'.num_entries = list.num_entries /\ list'.entries = list.entries
      /\ list'.tail = list.tail /\ list'.each_ptr = e
  BY CellAssumption DEF LInv, ListType
<1>2. PICK s \in [1..list.num_entries -> Cell] : IsChain(s)
  BY DEF LInv
<1>3. IsChain(s)'
  BY <1>1, <1>2 DEF IsChain
<1>4. Used' = Used
  BY DEF Used
<1> QED
  BY <1>1, <1>3, <1>4 DEF LInv, Reachable

(* A list that has entries has a first and a last one.                       *)
LEMMA Ends ==
  ASSUME LInv, list # NULL
  PROVE  /\ list.num_entries \in Nat
         /\ list.num_entries # 0 => list.entries \in Used /\ list.tail \in Used
         /\ list.num_entries = 0 => list.entries = NULL /\ list.tail = NULL
         /\ \A c \in Used : Reachable(cell[c].next)
         /\ \A c \in Used : cell[c] \in CellType
<1>1. PICK s \in [1..list.num_entries -> Cell] : IsChain(s)
  BY DEF LInv
<1>2. list.num_entries \in Nat
  BY DEF LInv, ListType
<1>3. list.num_entries # 0 => list.entries \in Used /\ list.tail \in Used
  BY <1>1, <1>2 DEF IsChain, Used
<1>4. ASSUME NEW c \in Used PROVE Reachable(cell[c].next)
  <2>1. PICK i \in 1..list.num_entries : s[i] = c
    BY <1>1 DEF IsChain, Used
  <2>2. CASE i = list.num_entries
    BY <1>1, <2>1, <2>2 DEF IsChain, Reachable
  <2>3. CASE i # list.num_entries
    <3>1. i + 1 \in 1..list.num_entries
      BY <1>2, <2>3
    <3>2. cell[c].next = s[i + 1] /\ s[i + 1] \in Cell
      BY <1>1, <2>1, <2>3, <3>1 DEF IsChain
    <3>3. s[i + 1] \in Used
      BY <1>1, <3>1, <3>2 DEF IsChain, Used
    <3> QED
      BY <3>2, <3>3 DEF Reachable
  <2> QED
    BY <2>2, <2>3
<1>5. \A c \in Used : cell[c] \in CellType
  BY DEF LInv, Used
<1>6. list.num_entries = 0 => list.entries = NULL /\ list.tail = NULL
  BY <1>1 DEF IsChain
<1> QED
  BY <1>2, <1>3, <1>4, <1>5, <1>6

LEMMA FreeCellIsFree ==
  ASSUME ~Full
  PROVE  FreeCell \in Cell /\ cell[FreeCell] = NULL
BY DEF Full, FreeCell

(* One pointer set: nothing but that pointer changes.                        *)
LEMMA WithFacts ==
  ASSUME LInv, NEW e, Reachable(e), NEW v \in Cell \cup {NULL},
         NEW field \in {"next", "prev"}
  PROVE  LET f == With(cell, e, field, v) IN
         /\ f \in [Cell -> CellType \cup {NULL}]
         /\ \A y \in Cell \ Used : f[y] = NULL
         /\ \A y \in Used :
              /\ f[y] \in CellType
              /\ f[y].data = cell[y].data
              /\ f[y].next = IF y = e /\ field = "next" THEN v ELSE cell[y].next
              /\ f[y].prev = IF y = e /\ field = "prev" THEN v ELSE cell[y].prev
<1> USE CellAssumption
<1>1. /\ cell \in [Cell -> CellType \cup {NULL}]
      /\ \A y \in Used : cell[y] \in CellType /\ y \in Cell
      /\ \A y \in Cell \ Used : cell[y] = NULL
  BY DEF LInv, Used
<1>2. CASE e = NULL
  BY <1>1, <1>2 DEF With, Used
<1>3. CASE e # NULL /\ field = "next"
  <2>1. e \in Used /\ With(cell, e, field, v) = [cell EXCEPT ![e].next = v]
    BY <1>1, <1>3 DEF With, Reachable
  <2>2. [cell[e] EXCEPT !.next = v] \in CellType
    BY <1>1, <2>1 DEF CellType
  <2>3. /\ [cell[e] EXCEPT !.next = v].data = cell[e].data
        /\ [cell[e] EXCEPT !.next = v].next = v
        /\ [cell[e] EXCEPT !.next = v].prev = cell[e].prev
    BY <1>1, <2>1 DEF CellType
  <2>4. [cell EXCEPT ![e].next = v] =
          [y \in Cell |-> IF y = e THEN [cell[e] EXCEPT !.next = v] ELSE cell[y]]
    BY <1>1, <2>1
  <2> DEFINE r == [cell[e] EXCEPT !.next = v]
             f == With(cell, e, field, v)
  <2>5. /\ f \in [Cell -> CellType \cup {NULL}]
        /\ \A y \in Cell : f[y] = IF y = e THEN r ELSE cell[y]
    BY <1>1, <2>1, <2>2, <2>4
  <2> HIDE DEF r, f
  <2>6. /\ \A y \in Cell \ Used : f[y] = NULL
        /\ \A y \in Used : f[y] \in CellType
    BY <1>1, <2>1, <2>2, <2>5 DEF r
  <2>7. \A y \in Used :
          /\ f[y].data = cell[y].data
          /\ f[y].next = IF y = e /\ field = "next" THEN v ELSE cell[y].next
          /\ f[y].prev = IF y = e /\ field = "prev" THEN v ELSE cell[y].prev
    BY <1>1, <1>3, <2>3, <2>5 DEF r
  <2> QED
    BY <2>5, <2>6, <2>7 DEF f
<1>4. CASE e # NULL /\ field = "prev"
  <2>1. e \in Used /\ With(cell, e, field, v) = [cell EXCEPT ![e].prev = v]
    BY <1>1, <1>4 DEF With, Reachable
  <2>2. [cell[e] EXCEPT !.prev = v] \in CellType
    BY <1>1, <2>1 DEF CellType
  <2>3. /\ [cell[e] EXCEPT !.prev = v].data = cell[e].data
        /\ [cell[e] EXCEPT !.prev = v].prev = v
        /\ [cell[e] EXCEPT !.prev = v].next = cell[e].next
    BY <1>1, <2>1 DEF CellType
  <2>4. [cell EXCEPT ![e].prev = v] =
          [y \in Cell |-> IF y = e THEN [cell[e] EXCEPT !.prev = v] ELSE cell[y]]
    BY <1>1, <2>1
  <2> DEFINE r == [cell[e] EXCEPT !.prev = v]
             f == With(cell, e, field, v)
  <2>5. /\ f \in [Cell -> CellType \cup {NULL}]
        /\ \A y \in Cell : f[y] = IF y = e THEN r ELSE cell[y]
    BY <1>1, <2>1, <2>2, <2>4
  <2> HIDE DEF r, f
  <2>6. /\ \A y \in Cell \ Used : f[y] = NULL
        /\ \A y \in Used : f[y] \in CellType
    BY <1>1, <2>1, <2>2, <2>5 DEF r
  <2>7. \A y \in Used :
          /\ f[y].data = cell[y].data
          /\ f[y].next = IF y = e /\ field = "next" THEN v ELSE cell[y].next
          /\ f[y].prev = IF y = e /\ field = "prev" THEN v ELSE cell[y].prev
    BY <1>1, <1>4, <2>3, <2>5 DEF r
  <2> QED
    BY <2>5, <2>6, <2>7 DEF f
<1> QED
  BY <1>2, <1>3, <1>4

-----------------------------------------------------------------------------
(* The functions that add an entry at an end.                                *)
(* A call that changes nothing; an entry c that a function adds to the       *)
(* chain s, or removes from it, which makes it the chain t.                  *)
AsBefore == UNCHANGED <<list, cell, lost>> /\ returned' = None
Refused == UNCHANGED <<list, cell, lost>> /\ returned' = Added(0)

AddsAs(c, d, s, t) ==
  /\ IsChain(s) /\ IsChain(t)' /\ c \in Cell \ Used /\ list' # NULL
  /\ list'.num_entries = list.num_entries + 1
  /\ list'.each_ptr = list.each_ptr /\ lost' = lost
  /\ returned' = Added(1) /\ cell'[c].data = d
  /\ \A y \in Used : cell'[y].data = cell[y].data

AddsLast(d) ==
  \E c, s, t :
    /\ AddsAs(c, d, s, t)
    /\ t = [i \in 1..(list.num_entries + 1) |->
              IF i = list.num_entries + 1 THEN c ELSE s[i]]

AddsFirst(d) ==
  \E c, s, t :
    /\ AddsAs(c, d, s, t)
    /\ t = [i \in 1..(list.num_entries + 1) |-> IF i = 1 THEN c ELSE s[i - 1]]

Adds(d) ==
  \/ UNCHANGED cell
  \/ \E c \in Cell \ Used : /\ Used' = Used \cup {c}
                            /\ cell'[c].data = d
                            /\ \A y \in Used : cell'[y].data = cell[y].data

LEMMA PushStep ==
  ASSUME LInv, NEW d \in Data, cfulist_push_data(d)
  PROVE  LInv' /\ list' # NULL /\ Adds(d) /\ (Refused \/ AddsLast(d))
<1> USE CellAssumption
<1>1. CASE UNCHANGED <<list, cell, lost>> /\ Returns(Added(0))
  BY <1>1, SameList DEF Adds, Refused, Returns, cfulist_push_data
<1>2. CASE ~(UNCHANGED <<list, cell, lost>> /\ Returns(Added(0)))
  <2>0. PICK c : c = FreeCell
    OBVIOUS
  <2> DEFINE n == list.num_entries
             new == [data |-> d, next |-> NULL, prev |-> list.tail]
             f == With(cell, list.tail, "next", c)
  <2>1. /\ list # NULL /\ ~Full /\ lost' = lost
        /\ returned' = Added(1)
        /\ cell' = [f EXCEPT ![c] = new]
        /\ list' = [list EXCEPT !.tail = c, !.num_entries = @ + 1,
                                !.entries = IF list.tail = NULL THEN c ELSE @]
    BY <1>2, <2>0 DEF cfulist_push_data, Returns
  <2>2. c \in Cell \ Used
    BY <2>0, <2>1, FreeCellIsFree DEF Used
  <2>3. PICK s \in [1..n -> Cell] : IsChain(s)
    BY <2>1 DEF LInv
  <2>4. /\ n \in Nat /\ list \in ListType
        /\ Reachable(list.tail)
        /\ list.tail = NULL <=> n = 0
    BY <2>1, Ends DEF LInv, Used, Reachable
  <2>5. /\ new \in CellType /\ new.data = d /\ new.next = NULL
        /\ new.prev = list.tail
    BY <2>4 DEF CellType, ListType
  <2>6. /\ f \in [Cell -> CellType \cup {NULL}]
        /\ \A y \in Cell \ Used : f[y] = NULL
        /\ \A y \in Used :
             /\ f[y] \in CellType
             /\ f[y].data = cell[y].data
             /\ f[y].next = IF y = list.tail THEN c ELSE cell[y].next
             /\ f[y].prev = cell[y].prev
    BY <2>2, <2>4, WithFacts
  <2> HIDE DEF f, new
  <2>7. /\ cell' \in [Cell -> CellType \cup {NULL}]
        /\ cell'[c] = new
        /\ \A y \in Cell : y # c => cell'[y] = f[y]
    BY <2>1, <2>2, <2>5, <2>6
  <2>8. \A y \in Cell : cell'[y] # NULL <=> y \in Used \/ y = c
    BY <2>2, <2>5, <2>6, <2>7
  <2>9. Used' = Used \cup {c}
    BY <2>2, <2>8 DEF Used
  <2>10. \A y \in Used :
           /\ cell'[y].data = cell[y].data
           /\ cell'[y].prev = cell[y].prev
           /\ cell'[y].next = IF y = list.tail THEN c ELSE cell[y].next
    BY <2>2, <2>6, <2>7 DEF Used
  <2>11. list' = [entries |-> IF n = 0 THEN c ELSE list.entries, tail |-> c,
                  num_entries |-> n + 1, each_ptr |-> list.each_ptr]
    BY <2>1, <2>4 DEF ListType
  <2>12. /\ list' \in ListType /\ list'.num_entries = n + 1 /\ list'.tail = c
         /\ list'.entries = IF n = 0 THEN c ELSE list.entries
         /\ list'.each_ptr = list.each_ptr
    BY <2>2, <2>4, <2>11 DEF ListType
  <2>a. PICK t : t = [i \in 1..(n + 1) |-> IF i = n + 1 THEN c ELSE s[i]]
    OBVIOUS
  <2>13. IsChain(t)'
    <3>1. t \in [1..(n + 1) -> Cell]
      BY <2>2, <2>4, <2>a
    <3>2. \A i \in 1..n : t[i] = s[i] /\ s[i] \in Used /\ s[i] # c
      BY <2>2, <2>3, <2>4, <2>a DEF IsChain, Used
    <3>3. t[n + 1] = c
      BY <2>4, <2>a
    <3>4. \A i \in 1..(n + 1) : i = n + 1 \/ i \in 1..n
      BY <2>4
    <3>5. \A i, j \in 1..(n + 1) : t[i] = t[j] => i = j
      BY <2>3, <3>2, <3>3, <3>4 DEF IsChain
    <3>6. t[1] = IF n = 0 THEN c ELSE s[1]
      BY <2>4, <2>a
    <3>7. \A i \in 1..n : s[i] = list.tail <=> i = n
      BY <2>3, <2>4 DEF IsChain
    <3>8. \A i \in 1..n : cell'[s[i]].next = t[i + 1]
      <4> SUFFICES ASSUME NEW i \in 1..n PROVE cell'[s[i]].next = t[i + 1]
        OBVIOUS
      <4>1. CASE i = n
        BY <2>10, <3>2, <3>3, <3>7, <4>1
      <4>2. CASE i # n
        <5>1. i + 1 \in 1..n
          BY <2>4, <4>2
        <5>2. cell[s[i]].next = s[i + 1]
          BY <2>3, <4>2 DEF IsChain
        <5> QED
          BY <2>10, <3>2, <3>7, <4>2, <5>1, <5>2
      <4> QED
        BY <4>1, <4>2
    <3>9. \A i \in 1..n :
            cell'[s[i]].prev = IF i = 1 THEN NULL ELSE t[i - 1]
      BY <2>3, <2>4, <2>10, <3>2 DEF IsChain
    <3>10. cell'[c].next = NULL /\ cell'[c].prev = IF n = 0 THEN NULL ELSE t[n]
      <4>1. list.tail = IF n = 0 THEN NULL ELSE s[n]
        BY <2>3 DEF IsChain
      <4>2. n # 0 => n \in 1..n
        BY <2>4
      <4> QED
        BY <2>5, <2>7, <3>2, <4>1, <4>2
    <3>11. \A y \in Cell : cell'[y] # NULL <=> \E i \in 1..(n + 1) : t[i] = y
      <4>1. \A y \in Cell : y \in Used <=> \E i \in 1..n : s[i] = y
        BY <2>3 DEF IsChain, Used
      <4> QED
        BY <2>4, <2>8, <3>2, <3>3, <3>4, <4>1
    <3>12. list'.entries = t[1]
      <4>1. n # 0 => list.entries = s[1]
        BY <2>3 DEF IsChain
      <4> QED
        BY <2>12, <3>6, <4>1
    <3>13. \A i \in 1..(n + 1) :
             /\ cell'[t[i]].next = IF i = n + 1 THEN NULL ELSE t[i + 1]
             /\ cell'[t[i]].prev = IF i = 1 THEN NULL ELSE t[i - 1]
      <4> SUFFICES ASSUME NEW i \in 1..(n + 1)
                   PROVE  /\ cell'[t[i]].next = IF i = n + 1 THEN NULL ELSE t[i + 1]
                          /\ cell'[t[i]].prev = IF i = 1 THEN NULL ELSE t[i - 1]
        OBVIOUS
      <4>1. CASE i = n + 1
        BY <2>4, <3>3, <3>10, <4>1
      <4>2. CASE i # n + 1
        BY <2>4, <3>2, <3>4, <3>8, <3>9, <4>2
      <4> QED
        BY <4>1, <4>2
    <3> QED
      BY <2>4, <2>12, <3>1, <3>3, <3>5, <3>11, <3>12, <3>13 DEF IsChain
  <2>14. t \in [1..list'.num_entries -> Cell]
    BY <2>13 DEF IsChain
  <2>15. list' # NULL /\ (~lost' => Reachable(list.each_ptr)')
    BY <2>1, <2>9, <2>12 DEF LInv, Reachable
  <2>16. lost' \in BOOLEAN
    BY <2>1 DEF LInv
  <2>17. LInv'
    BY <2>7, <2>12, <2>13, <2>14, <2>15, <2>16 DEF LInv
  <2>18. Adds(d)
    BY <2>2, <2>5, <2>7, <2>9, <2>10 DEF Adds
  <2>19. AddsLast(d)
    <3>1. AddsAs(c, d, s, t)
      BY <2>1, <2>2, <2>3, <2>5, <2>7, <2>10, <2>12, <2>13, <2>15 DEF AddsAs
    <3> QED
      BY <2>2, <2>a, <3>1 DEF AddsLast
  <2> QED
    BY <2>15, <2>17, <2>18, <2>19
<1> QED
  BY <1>1, <1>2

LEMMA UnshiftStep ==
  ASSUME LInv, NEW d \in Data, cfulist_unshift_data(d)
  PROVE  LInv' /\ list' # NULL /\ Adds(d) /\ (Refused \/ AddsFirst(d))
<1> USE CellAssumption
<1>1. CASE UNCHANGED <<list, cell, lost>> /\ Returns(Added(0))
  BY <1>1, SameList DEF Adds, Refused, Returns, cfulist_unshift_data
<1>2. CASE ~(UNCHANGED <<list, cell, lost>> /\ Returns(Added(0)))
  <2>0. PICK c : c = FreeCell
    OBVIOUS
  <2> DEFINE n == list.num_entries
             new == [data |-> d, next |-> list.entries, prev |-> NULL]
             f == With(cell, list.entries, "prev", c)
  <2>1. /\ list # NULL /\ ~Full /\ lost' = lost
        /\ returned' = Added(1)
        /\ cell' = [f EXCEPT ![c] = new]
        /\ list' = [list EXCEPT !.entries = c, !.num_entries = @ + 1,
                                !.tail = IF list.entries = NULL THEN c ELSE @]
    BY <1>2, <2>0 DEF cfulist_unshift_data, Returns
  <2>2. c \in Cell \ Used
    BY <2>0, <2>1, FreeCellIsFree DEF Used
  <2>3. PICK s \in [1..n -> Cell] : IsChain(s)
    BY <2>1 DEF LInv
  <2>4. /\ n \in Nat /\ list \in ListType
        /\ Reachable(list.entries)
        /\ list.entries = NULL <=> n = 0
    BY <2>1, Ends DEF LInv, Used, Reachable
  <2>5. /\ new \in CellType /\ new.data = d /\ new.next = list.entries
        /\ new.prev = NULL
    BY <2>4 DEF CellType, ListType
  <2>6. /\ f \in [Cell -> CellType \cup {NULL}]
        /\ \A y \in Cell \ Used : f[y] = NULL
        /\ \A y \in Used :
             /\ f[y] \in CellType
             /\ f[y].data = cell[y].data
             /\ f[y].next = cell[y].next
             /\ f[y].prev = IF y = list.entries THEN c ELSE cell[y].prev
    BY <2>2, <2>4, WithFacts
  <2> HIDE DEF f, new
  <2>7. /\ cell' \in [Cell -> CellType \cup {NULL}]
        /\ cell'[c] = new
        /\ \A y \in Cell : y # c => cell'[y] = f[y]
    BY <2>1, <2>2, <2>5, <2>6
  <2>8. \A y \in Cell : cell'[y] # NULL <=> y \in Used \/ y = c
    BY <2>2, <2>5, <2>6, <2>7
  <2>9. Used' = Used \cup {c}
    BY <2>2, <2>8 DEF Used
  <2>10. \A y \in Used :
           /\ cell'[y].data = cell[y].data
           /\ cell'[y].next = cell[y].next
           /\ cell'[y].prev = IF y = list.entries THEN c ELSE cell[y].prev
    BY <2>2, <2>6, <2>7 DEF Used
  <2>11. list' = [entries |-> c, tail |-> IF n = 0 THEN c ELSE list.tail,
                  num_entries |-> n + 1, each_ptr |-> list.each_ptr]
    BY <2>1, <2>4 DEF ListType
  <2>12. /\ list' \in ListType /\ list'.num_entries = n + 1
         /\ list'.entries = c
         /\ list'.tail = IF n = 0 THEN c ELSE list.tail
         /\ list'.each_ptr = list.each_ptr
    BY <2>2, <2>4, <2>11 DEF ListType
  <2>a. PICK t : t = [i \in 1..(n + 1) |-> IF i = 1 THEN c ELSE s[i - 1]]
    OBVIOUS
  <2>13. IsChain(t)'
    <3>1. t \in [1..(n + 1) -> Cell]
      <4>1. \A i \in 1..(n + 1) : i = 1 \/ i - 1 \in 1..n
        BY <2>4
      <4> QED
        BY <2>2, <2>a, <4>1
    <3>2. \A i \in 1..n : t[i + 1] = s[i] /\ s[i] \in Used /\ s[i] # c
      <4>1. \A i \in 1..n : i + 1 \in 1..(n + 1) /\ i + 1 # 1 /\ (i + 1) - 1 = i
        BY <2>4
      <4> QED
        BY <2>2, <2>3, <2>a, <4>1 DEF IsChain, Used
    <3>3. t[1] = c
      BY <2>4, <2>a
    <3>4. \A i \in 1..(n + 1) : i = 1 \/ \E j \in 1..n : i = j + 1
      <4>1. \A i \in 1..(n + 1) : i # 1 => i - 1 \in 1..n /\ i = (i - 1) + 1
        BY <2>4
      <4> QED
        BY <4>1
    <3>5. \A i, j \in 1..(n + 1) : t[i] = t[j] => i = j
      <4> SUFFICES ASSUME NEW i \in 1..(n + 1), NEW j \in 1..(n + 1), t[i] = t[j]
                   PROVE  i = j
        OBVIOUS
      <4>1. i = 1 <=> j = 1
        BY <3>2, <3>3, <3>4
      <4>2. CASE i # 1
        <5>1. PICK k \in 1..n : i = k + 1
          BY <3>4, <4>2
        <5>2. PICK l \in 1..n : j = l + 1
          BY <3>4, <4>1, <4>2
        <5>3. s[k] = s[l]
          BY <3>2, <5>1, <5>2
        <5> QED
          BY <2>3, <5>1, <5>2, <5>3 DEF IsChain
      <4> QED
        BY <4>1, <4>2
    <3>6. \A i \in 1..n : s[i] = list.entries <=> i = 1
      BY <2>3, <2>4 DEF IsChain
    <3>7. \A i \in 1..n : cell'[s[i]].prev = t[i]
      <4> SUFFICES ASSUME NEW i \in 1..n PROVE cell'[s[i]].prev = t[i]
        OBVIOUS
      <4>1. CASE i = 1
        BY <2>10, <3>2, <3>3, <3>6, <4>1
      <4>2. CASE i # 1
        <5>1. i - 1 \in 1..n /\ i = (i - 1) + 1
          BY <2>4, <4>2
        <5>2. cell[s[i]].prev = s[i - 1]
          BY <2>3, <4>2 DEF IsChain
        <5>3. t[i] = s[i - 1]
          BY <3>2, <5>1
        <5> QED
          BY <2>10, <3>2, <3>6, <4>2, <5>2, <5>3
      <4> QED
        BY <4>1, <4>2
    <3>8. \A i \in 1..n :
            cell'[s[i]].next = IF i = n THEN NULL ELSE t[(i + 1) + 1]
      <4>1. \A i \in 1..n : i # n => i + 1 \in 1..n
        BY <2>4
      <4>2. \A i \in 1..n : cell[s[i]].next = IF i = n THEN NULL ELSE s[i + 1]
        BY <2>3 DEF IsChain
      <4> QED
        BY <2>10, <3>2, <4>1, <4>2
    <3>9. cell'[c].prev = NULL /\ cell'[c].next = IF n = 0 THEN NULL ELSE t[2]
      <4>1. list.entries = IF n = 0 THEN NULL ELSE s[1]
        BY <2>3 DEF IsChain
      <4>2. n # 0 => 1 \in 1..n /\ t[2] = s[1]
        <5>1. n # 0 => 1 \in 1..n /\ 1 + 1 = 2
          BY <2>4
        <5> QED
          BY <3>2, <5>1
      <4> QED
        BY <2>5, <2>7, <4>1, <4>2
    <3>10. \A y \in Cell : cell'[y] # NULL <=> \E i \in 1..(n + 1) : t[i] = y
      <4>1. \A y \in Cell : y \in Used <=> \E i \in 1..n : s[i] = y
        BY <2>3 DEF IsChain, Used
      <4>2. 1 \in 1..(n + 1) /\ \A i \in 1..n : i + 1 \in 1..(n + 1)
        BY <2>4
      <4> QED
        BY <2>8, <3>2, <3>3, <3>4, <4>1, <4>2
    <3>11. list'.tail = t[n + 1]
      <4>1. n # 0 => list.tail = s[n] /\ n \in 1..n
        BY <2>3, <2>4 DEF IsChain
      <4>2. CASE n = 0
        BY <2>12, <3>3, <4>2
      <4>3. CASE n # 0
        BY <2>12, <3>2, <4>1, <4>3
      <4> QED
        BY <4>2, <4>3
    <3>12. \A i \in 1..(n + 1) :
             /\ cell'[t[i]].next = IF i = n + 1 THEN NULL ELSE t[i + 1]
             /\ cell'[t[i]].prev = IF i = 1 THEN NULL ELSE t[i - 1]
      <4> SUFFICES ASSUME NEW i \in 1..(n + 1)
                   PROVE  /\ cell'[t[i]].next = IF i = n + 1 THEN NULL ELSE t[i + 1]
                          /\ cell'[t[i]].prev = IF i = 1 THEN NULL ELSE t[i - 1]
        OBVIOUS
      <4>1. CASE i = 1
        BY <2>4, <3>3, <3>9, <4>1
      <4>2. CASE i # 1
        <5>1. PICK j \in 1..n : i = j + 1
          BY <3>4, <4>2
        <5>2. t[i] = s[j] /\ i - 1 = j /\ (i = n + 1 <=> j = n)
          BY <2>4, <3>2, <5>1
        <5>3. /\ cell'[t[i]].next = IF j = n THEN NULL ELSE t[i + 1]
              /\ cell'[t[i]].prev = t[j]
          BY <3>7, <3>8, <5>1, <5>2
        <5> QED
          BY <4>2, <5>2, <5>3
      <4> QED
        BY <4>1, <4>2
    <3> QED
      BY <2>4, <2>12, <3>1, <3>3, <3>5, <3>10, <3>11, <3>12 DEF IsChain
  <2>14. t \in [1..list'.num_entries -> Cell]
    BY <2>13 DEF IsChain
  <2>15. list' # NULL /\ (~lost' => Reachable(list.each_ptr)')
    BY <2>1, <2>9, <2>12 DEF LInv, Reachable
  <2>16. lost' \in BOOLEAN
    BY <2>1 DEF LInv
  <2>17. LInv'
    BY <2>7, <2>12, <2>13, <2>14, <2>15, <2>16 DEF LInv
  <2>18. Adds(d)
    BY <2>2, <2>5, <2>7, <2>9, <2>10 DEF Adds
  <2>19. AddsFirst(d)
    <3>1. AddsAs(c, d, s, t)
      BY <2>1, <2>2, <2>3, <2>5, <2>7, <2>10, <2>12, <2>13, <2>15 DEF AddsAs
    <3> QED
      BY <2>2, <2>a, <3>1 DEF AddsFirst
  <2> QED
    BY <2>15, <2>17, <2>18, <2>19
<1> QED
  BY <1>1, <1>2

(* The functions that remove one.                                            *)
Removes(c) ==
  /\ c \in Used /\ Used' = Used \ {c}
  /\ returned' = Whole(cell[c].data)
  /\ \A y \in Used' : cell'[y].data = cell[y].data

RemovesAs(c, s, t) ==
  /\ c \in Cell /\ IsChain(s) /\ IsChain(t)' /\ Removes(c)
  /\ list.num_entries \in Nat \ {0} /\ list' # NULL
  /\ list'.num_entries = list.num_entries - 1
  /\ list'.each_ptr = list.each_ptr /\ lost' = (lost \/ list.each_ptr = c)

RemovesLast ==
  \E c, s, t :
    /\ RemovesAs(c, s, t) /\ c = s[list.num_entries]
    /\ t = [i \in 1..(list.num_entries - 1) |-> s[i]]

RemovesFirst ==
  \E c, s, t :
    /\ RemovesAs(c, s, t) /\ c = s[1]
    /\ t = [i \in 1..(list.num_entries - 1) |-> s[i + 1]]

LEMMA PopStep ==
  ASSUME LInv, cfulist_pop_data
  PROVE  /\ LInv' /\ list' # NULL
         /\ (AsBefore /\ list.num_entries = 0) \/ RemovesLast
<1> USE CellAssumption
<1>1. CASE list.tail = NULL
  BY <1>1, SameList, Ends DEF cfulist_pop_data, Used, AsBefore, Returns
<1>2. CASE list.tail # NULL
  <2>1. PICK c, p : c = list.tail /\ p = cell[c].prev
    OBVIOUS
  <2> DEFINE n == list.num_entries
             f == With(cell, p, "next", NULL)
  <2>2. /\ list # NULL /\ lost' = (lost \/ list.each_ptr = c)
        /\ cell' = [f EXCEPT ![c] = NULL]
        /\ list' = [list EXCEPT !.tail = p, !.num_entries = @ - 1,
                                !.entries = IF p = NULL THEN NULL ELSE @]
        /\ returned' = Whole(cell[c].data)
    BY <1>2, <2>1 DEF cfulist_pop_data, Unlinked, Freed, Returns
  <2>3. PICK s \in [1..n -> Cell] : IsChain(s)
    BY <2>2 DEF LInv
  <2>4. /\ n \in Nat \ {0} /\ n \in 1..n /\ list \in ListType /\ c \in Used
        /\ cell[c] \in CellType
    BY <1>2, <2>1, <2>2, Ends DEF LInv
  <2>5. /\ c = s[n] /\ p = IF n = 1 THEN NULL ELSE s[n - 1]
        /\ n # 1 => n - 1 \in 1..n
    BY <2>1, <2>3, <2>4 DEF IsChain
  <2>6. /\ Reachable(p) /\ p \in Cell \cup {NULL} /\ p # c
        /\ p = NULL <=> n = 1
    BY <2>3, <2>4, <2>5 DEF Reachable, Used, IsChain
  <2>7. /\ f \in [Cell -> CellType \cup {NULL}]
        /\ \A y \in Cell \ Used : f[y] = NULL
        /\ \A y \in Used :
             /\ f[y] \in CellType
             /\ f[y].data = cell[y].data
             /\ f[y].next = IF y = p THEN NULL ELSE cell[y].next
             /\ f[y].prev = cell[y].prev
    BY <2>6, WithFacts
  <2> HIDE DEF f
  <2>8. /\ cell' \in [Cell -> CellType \cup {NULL}]
        /\ cell'[c] = NULL
        /\ \A y \in Cell : y # c => cell'[y] = f[y]
    BY <2>2, <2>4, <2>7 DEF Used
  <2>9. \A y \in Cell : cell'[y] # NULL <=> y \in Used /\ y # c
    BY <2>7, <2>8
  <2>10. Used' = Used \ {c}
    BY <2>9 DEF Used
  <2>11. \A y \in Used \ {c} :
           /\ cell'[y].data = cell[y].data
           /\ cell'[y].prev = cell[y].prev
           /\ cell'[y].next = IF y = p THEN NULL ELSE cell[y].next
    BY <2>7, <2>8 DEF Used
  <2>12. list' = [entries |-> IF n = 1 THEN NULL ELSE list.entries, tail |-> p,
                  num_entries |-> n - 1, each_ptr |-> list.each_ptr]
    BY <2>2, <2>4, <2>6 DEF ListType
  <2>13. /\ list' \in ListType /\ list'.num_entries = n - 1 /\ list'.tail = p
         /\ list'.entries = IF n = 1 THEN NULL ELSE list.entries
         /\ list'.each_ptr = list.each_ptr
    BY <2>4, <2>6, <2>12 DEF ListType
  <2>a. PICK t : t = [i \in 1..(n - 1) |-> s[i]]
    OBVIOUS
  <2>14. IsChain(t)'
    <3>1. \A i \in 1..(n - 1) : i \in 1..n /\ i # n
      BY <2>4
    <3>2. t \in [1..(n - 1) -> Cell]
      BY <2>3, <2>a, <3>1
    <3>3. \A i \in 1..(n - 1) : t[i] = s[i] /\ s[i] \in Used \ {c}
      BY <2>3, <2>4, <2>5, <2>a, <3>1 DEF IsChain, Used
    <3>4. \A i, j \in 1..(n - 1) : t[i] = t[j] => i = j
      BY <2>3, <3>1, <3>3 DEF IsChain
    <3>5. \A i \in 1..(n - 1) : s[i] = p <=> i = n - 1
      <4>1. \A i \in 1..(n - 1) : n # 1
        BY <2>4
      <4> QED
        BY <2>3, <2>4, <2>5, <3>1, <4>1 DEF IsChain
    <3>6. \A i \in 1..(n - 1) :
            /\ cell'[t[i]].next = IF i = n - 1 THEN NULL ELSE t[i + 1]
            /\ cell'[t[i]].prev = IF i = 1 THEN NULL ELSE t[i - 1]
      <4> SUFFICES ASSUME NEW i \in 1..(n - 1)
                   PROVE  /\ cell'[t[i]].next = IF i = n - 1 THEN NULL ELSE t[i + 1]
                          /\ cell'[t[i]].prev = IF i = 1 THEN NULL ELSE t[i - 1]
        OBVIOUS
      <4>1. /\ cell'[t[i]].next = IF i = n - 1 THEN NULL ELSE cell[s[i]].next
            /\ cell'[t[i]].prev = cell[s[i]].prev
        BY <2>11, <3>3, <3>5
      <4>2. /\ cell[s[i]].next = s[i + 1]
            /\ cell[s[i]].prev = IF i = 1 THEN NULL ELSE s[i - 1]
        BY <2>3, <3>1 DEF IsChain
      <4>3. /\ i # n - 1 => i + 1 \in 1..(n - 1)
            /\ i # 1 => i - 1 \in 1..(n - 1)
        BY <2>4
      <4> QED
        BY <3>3, <4>1, <4>2, <4>3
    <3>7. \A y \in Cell : cell'[y] # NULL <=> \E i \in 1..(n - 1) : t[i] = y
      <4>1. \A y \in Cell : y \in Used <=> \E i \in 1..n : s[i] = y
        BY <2>3 DEF IsChain, Used
      <4>2. \A i \in 1..n : i = n \/ i \in 1..(n - 1)
        BY <2>4
      <4> QED
        BY <2>5, <2>9, <3>1, <3>3, <4>1, <4>2
    <3>8. /\ list'.entries = IF n - 1 = 0 THEN NULL ELSE t[1]
          /\ list'.tail = IF n - 1 = 0 THEN NULL ELSE t[n - 1]
      <4>1. list.entries = s[1]
        BY <2>3, <2>4 DEF IsChain
      <4>2. n # 1 => 1 \in 1..(n - 1) /\ n - 1 \in 1..(n - 1)
        BY <2>4
      <4>3. n - 1 = 0 <=> n = 1
        BY <2>4
      <4> QED
        BY <2>5, <2>13, <3>3, <4>1, <4>2, <4>3
    <3> QED
      BY <2>13, <3>2, <3>4, <3>6, <3>7, <3>8 DEF IsChain
  <2>15. t \in [1..list'.num_entries -> Cell]
    BY <2>14 DEF IsChain
  <2>16. list' # NULL /\ (~lost' => Reachable(list.each_ptr)')
    <3>1. ~lost' => ~lost /\ list.each_ptr # c
      BY <2>2, Zenon
    <3> QED
      BY <2>2, <2>10, <2>13, <3>1 DEF LInv, Reachable
  <2>17. lost' \in BOOLEAN
    BY <2>2 DEF LInv
  <2>18. LInv'
    BY <2>8, <2>13, <2>14, <2>15, <2>16, <2>17 DEF LInv
  <2>19. Removes(c) /\ c \in Cell
    BY <2>2, <2>4, <2>10, <2>11 DEF Removes, Used
  <2>20. RemovesLast
    <3>1. RemovesAs(c, s, t)
      BY <2>2, <2>3, <2>4, <2>13, <2>14, <2>16, <2>19 DEF RemovesAs
    <3> QED
      BY <2>5, <2>a, <2>19, <3>1 DEF RemovesLast
  <2> QED
    BY <2>16, <2>18, <2>20
<1> QED
  BY <1>1, <1>2

LEMMA ShiftStep ==
  ASSUME LInv, cfulist_shift_data
  PROVE  /\ LInv' /\ list' # NULL
         /\ list.num_entries # 0 => \E c \in Cell : Removes(c)
         /\ (AsBefore /\ list.num_entries = 0) \/ RemovesFirst
<1> USE CellAssumption
<1>1. CASE list.entries = NULL
  BY <1>1, SameList, Ends DEF cfulist_shift_data, Used, AsBefore, Returns
<1>2. CASE list.entries # NULL
  <2>1. PICK c, q : c = list.entries /\ q = cell[c].next
    OBVIOUS
  <2> DEFINE n == list.num_entries
             f == With(cell, q, "prev", NULL)
  <2>2. /\ list # NULL /\ lost' = (lost \/ list.each_ptr = c)
        /\ cell' = [f EXCEPT ![c] = NULL]
        /\ list' = [list EXCEPT !.entries = q, !.num_entries = @ - 1,
                                !.tail = IF q = NULL THEN NULL ELSE @]
        /\ returned' = Whole(cell[c].data)
    BY <1>2, <2>1 DEF cfulist_shift_data, Unlinked, Freed, Returns
  <2>3. PICK s \in [1..n -> Cell] : IsChain(s)
    BY <2>2 DEF LInv
  <2>4. /\ n \in Nat \ {0} /\ 1 \in 1..n /\ list \in ListType /\ c \in Used
        /\ cell[c] \in CellType
    BY <1>2, <2>1, <2>2, Ends DEF LInv
  <2>5. /\ c = s[1] /\ q = IF n = 1 THEN NULL ELSE s[2]
        /\ n # 1 => 2 \in 1..n
    BY <2>1, <2>3, <2>4 DEF IsChain
  <2>6. /\ Reachable(q) /\ q \in Cell \cup {NULL} /\ q # c
        /\ q = NULL <=> n = 1
    BY <2>3, <2>4, <2>5 DEF Reachable, Used, IsChain
  <2>7. /\ f \in [Cell -> CellType \cup {NULL}]
        /\ \A y \in Cell \ Used : f[y] = NULL
        /\ \A y \in Used :
             /\ f[y] \in CellType
             /\ f[y].data = cell[y].data
             /\ f[y].next = cell[y].next
             /\ f[y].prev = IF y = q THEN NULL ELSE cell[y].prev
    BY <2>6, WithFacts
  <2> HIDE DEF f
  <2>8. /\ cell' \in [Cell -> CellType \cup {NULL}]
        /\ cell'[c] = NULL
        /\ \A y \in Cell : y # c => cell'[y] = f[y]
    BY <2>2, <2>4, <2>7 DEF Used
  <2>9. \A y \in Cell : cell'[y] # NULL <=> y \in Used /\ y # c
    BY <2>7, <2>8
  <2>10. Used' = Used \ {c}
    BY <2>9 DEF Used
  <2>11. \A y \in Used \ {c} :
           /\ cell'[y].data = cell[y].data
           /\ cell'[y].next = cell[y].next
           /\ cell'[y].prev = IF y = q THEN NULL ELSE cell[y].prev
    BY <2>7, <2>8 DEF Used
  <2>12. list' = [entries |-> q, tail |-> IF n = 1 THEN NULL ELSE list.tail,
                  num_entries |-> n - 1, each_ptr |-> list.each_ptr]
    BY <2>2, <2>4, <2>6 DEF ListType
  <2>13. /\ list' \in ListType /\ list'.num_entries = n - 1
         /\ list'.entries = q
         /\ list'.tail = IF n = 1 THEN NULL ELSE list.tail
         /\ list'.each_ptr = list.each_ptr
    BY <2>4, <2>6, <2>12 DEF ListType
  <2>a. PICK t : t = [i \in 1..(n - 1) |-> s[i + 1]]
    OBVIOUS
  <2>14. IsChain(t)'
    <3>1. \A i \in 1..(n - 1) : i + 1 \in 1..n /\ i + 1 # 1 /\ (i + 1) - 1 = i
      BY <2>4
    <3>2. t \in [1..(n - 1) -> Cell]
      BY <2>3, <2>a, <3>1
    <3>3. \A i \in 1..(n - 1) : t[i] = s[i + 1] /\ s[i + 1] \in Used \ {c}
      BY <2>3, <2>4, <2>5, <2>a, <3>1 DEF IsChain, Used
    <3>4. \A i, j \in 1..(n - 1) : t[i] = t[j] => i = j
      <4>1. \A i, j \in 1..(n - 1) : s[i + 1] = s[j + 1] => i + 1 = j + 1
        BY <2>3, <3>1 DEF IsChain
      <4> QED
        BY <3>3, <4>1
    <3>5. \A i \in 1..(n - 1) : s[i + 1] = q <=> i = 1
      <4>1. \A i \in 1..(n - 1) : n # 1 /\ (i + 1 = 2 <=> i = 1)
        BY <2>4
      <4> QED
        BY <2>3, <2>4, <2>5, <3>1, <4>1 DEF IsChain
    <3>6. \A i \in 1..(n - 1) :
            /\ cell'[t[i]].next = IF i = n - 1 THEN NULL ELSE t[i + 1]
            /\ cell'[t[i]].prev = IF i = 1 THEN NULL ELSE t[i - 1]
      <4> SUFFICES ASSUME NEW i \in 1..(n - 1)
                   PROVE  /\ cell'[t[i]].next = IF i = n - 1 THEN NULL ELSE t[i + 1]
                          /\ cell'[t[i]].prev = IF i = 1 THEN NULL ELSE t[i - 1]
        OBVIOUS
      <4>1. /\ cell'[t[i]].next = cell[s[i + 1]].next
            /\ cell'[t[i]].prev = IF i = 1 THEN NULL ELSE cell[s[i + 1]].prev
        BY <2>11, <3>3, <3>5
      <4>2. /\ cell[s[i + 1]].next =
                 IF i + 1 = n THEN NULL ELSE s[(i + 1) + 1]
            /\ cell[s[i + 1]].prev = s[i]
        BY <2>3, <3>1 DEF IsChain
      <4>3. /\ i # n - 1 => i + 1 \in 1..(n - 1)
            /\ i # 1 => i - 1 \in 1..(n - 1) /\ (i - 1) + 1 = i
            /\ i + 1 = n <=> i = n - 1
        BY <2>4
      <4>4. /\ i # n - 1 => t[i + 1] = s[(i + 1) + 1]
            /\ i # 1 => t[i - 1] = s[i]
        BY <3>3, <4>3
      <4> QED
        BY <4>1, <4>2, <4>3, <4>4
    <3>7. \A y \in Cell : cell'[y] # NULL <=> \E i \in 1..(n - 1) : t[i] = y
      <4>1. \A y \in Cell : y \in Used <=> \E i \in 1..n : s[i] = y
        BY <2>3 DEF IsChain, Used
      <4>2. \A i \in 1..n : i = 1 \/ \E j \in 1..(n - 1) : i = j + 1
        <5>1. \A i \in 1..n : i # 1 => i - 1 \in 1..(n - 1) /\ i = (i - 1) + 1
          BY <2>4
        <5> QED
          BY <5>1
      <4>3. \A y \in Used \ {c} : \E j \in 1..(n - 1) : t[j] = y
        BY <2>5, <3>3, <4>1, <4>2 DEF Used
      <4> QED
        BY <2>9, <3>3, <4>3
    <3>8. /\ list'.entries = IF n - 1 = 0 THEN NULL ELSE t[1]
          /\ list'.tail = IF n - 1 = 0 THEN NULL ELSE t[n - 1]
      <4>1. list.tail = s[n]
        BY <2>3, <2>4 DEF IsChain
      <4>2. n # 1 => /\ 1 \in 1..(n - 1) /\ n - 1 \in 1..(n - 1)
                     /\ 1 + 1 = 2 /\ (n - 1) + 1 = n
        BY <2>4
      <4>3. n # 1 => t[1] = s[2] /\ t[n - 1] = s[n]
        BY <3>3, <4>2
      <4>4. n - 1 = 0 <=> n = 1
        BY <2>4
      <4> QED
        BY <2>5, <2>13, <4>1, <4>3, <4>4
    <3> QED
      BY <2>13, <3>2, <3>4, <3>6, <3>7, <3>8 DEF IsChain
  <2>15. t \in [1..list'.num_entries -> Cell]
    BY <2>14 DEF IsChain
  <2>16. list' # NULL /\ (~lost' => Reachable(list.each_ptr)')
    <3>1. ~lost' => ~lost /\ list.each_ptr # c
      BY <2>2, Zenon
    <3> QED
      BY <2>2, <2>10, <2>13, <3>1 DEF LInv, Reachable
  <2>17. lost' \in BOOLEAN
    BY <2>2 DEF LInv
  <2>18. LInv'
    BY <2>8, <2>13, <2>14, <2>15, <2>16, <2>17 DEF LInv
  <2>19. Removes(c) /\ c \in Cell
    BY <2>2, <2>4, <2>10, <2>11 DEF Removes, Used
  <2>20. RemovesFirst
    <3>1. RemovesAs(c, s, t)
      BY <2>2, <2>3, <2>4, <2>13, <2>14, <2>16, <2>19 DEF RemovesAs
    <3> QED
      BY <2>5, <2>a, <2>19, <3>1 DEF RemovesFirst
  <2> QED
    BY <2>16, <2>18, <2>19, <2>20
<1> QED
  BY <1>1, <1>2

(* Every function of the list.                                               *)
LEMMA NewList ==
  ASSUME LInv, cfulist_new
  PROVE  LInv' /\ list' # NULL /\ Used' = {}
<1> USE CellAssumption
<1>1. /\ list' = NoEntries /\ cell' = cell /\ lost' = lost /\ Used = {}
  BY DEF cfulist_new, LInv
<1>2. Used' = {}
  BY <1>1 DEF Used
<1>3. list' \in ListType /\ list'.num_entries = 0 /\ list'.entries = NULL
      /\ list'.tail = NULL /\ list'.each_ptr = NULL
  BY <1>1 DEF NoEntries, ListType
<1>4. PICK t : t \in [1..0 -> Cell]
  <2>1. \A i \in 1..0 : FALSE
    OBVIOUS
  <2>2. [i \in 1..0 |-> NULL] \in [1..0 -> Cell]
    BY <2>1
  <2> QED
    BY <2>2
<1>5. IsChain(t)'
  BY <1>1, <1>2, <1>3, <1>4 DEF IsChain, Used
<1> QED
  BY <1>1, <1>2, <1>3, <1>4, <1>5 DEF LInv, Reachable

LEMMA DestroyList ==
  ASSUME LInv, cfulist_destroy
  PROVE  LInv' /\ Used' = {}
BY DEF LInv, cfulist_destroy, Used

LEMMA NextStep ==
  ASSUME LInv, cfulist_next_data \/ cfulist_each_data \/ cfulist_reset_each
  PROVE  LInv'
<1> USE CellAssumption
<1>1. list # NULL /\ cell' = cell /\ Reachable(list.entries)
  BY Ends DEF cfulist_next_data, cfulist_each_data, cfulist_reset_each,
     Reachable, LInv
<1>2. ASSUME NEW e, Reachable(e), list' = [list EXCEPT !.each_ptr = e],
             lost' \in BOOLEAN
      PROVE  LInv'
  BY <1>1, <1>2, IteratorMoves DEF Reachable, Used
<1>3. ASSUME NEW c, Reachable(c), NextFrom(c), lost' \in BOOLEAN PROVE LInv'
  <2>1. CASE c = NULL
    BY <1>2, <1>3, <2>1 DEF NextFrom, Reachable
  <2>2. CASE c # NULL
    <3>1. Reachable(cell[c].next)
      BY <1>1, <1>3, <2>2, Ends DEF Reachable
    <3> QED
      BY <1>2, <1>3, <2>2, <3>1 DEF NextFrom
  <2> QED
    BY <2>1, <2>2
<1>4. CASE cfulist_next_data
  <2>1. lost' = lost /\ lost \in BOOLEAN
    BY <1>4 DEF cfulist_next_data, LInv
  <2>2. CASE lost
    <3>1. PICK e \in Cell \cup {NULL} : list' = [list EXCEPT !.each_ptr = e]
      BY <1>4, <2>2 DEF cfulist_next_data, NextLost
    <3> QED
      BY <1>1, <2>1, <2>2, <3>1, IteratorMoves
  <2>3. CASE ~lost
    BY <1>1, <1>3, <1>4, <2>1, <2>3 DEF cfulist_next_data, LInv
  <2> QED
    BY <2>2, <2>3
<1>5. CASE cfulist_each_data
  <2>1. lost' \in BOOLEAN /\ NextFrom(list.entries)
    BY <1>5 DEF cfulist_each_data
  <2> QED
    BY <1>1, <1>3, <2>1
<1>6. CASE cfulist_reset_each
  <2>1. lost' \in BOOLEAN /\ list' = [list EXCEPT !.each_ptr = list.entries]
    BY <1>6 DEF cfulist_reset_each
  <2> QED
    BY <1>1, <1>2, <2>1
<1> QED
  BY <1>4, <1>5, <1>6

LEMMA ListStep ==
  ASSUME LInv, ListNext
  PROVE  LInv'
<1>1. CASE UNCHANGED <<list, cell, lost>>
  BY <1>1, SameList
<1>2. CASE ~UNCHANGED <<list, cell, lost>>
  <2>1. \/ cfulist_new \/ cfulist_destroy
        \/ \E d \in Data : cfulist_push_data(d) \/ cfulist_unshift_data(d)
        \/ cfulist_pop_data \/ cfulist_shift_data
        \/ cfulist_reset_each \/ cfulist_each_data \/ cfulist_next_data
    BY <1>2
       DEF ListNext, NullList, Looks, cfulist_first_data, cfulist_last_data,
           cfulist_nth_data, cfulist_foreach, cfulist_map, cfulist_join
  <2> QED
    BY <2>1, NewList, DestroyList, PushStep, UnshiftStep, PopStep, ShiftStep,
       NextStep
<1> QED
  BY <1>1, <1>2

-----------------------------------------------------------------------------
(* Counting and sequences.                                                   *)
LEMMA Least ==
  ASSUME NEW S \in SUBSET Nat, S # {}
  PROVE  \E m \in S : \A k \in S : m <= k
<1> DEFINE T == {0..n : n \in S}
<1>0. \A n \in Nat : IsFiniteSet(0..n)
  BY FS_Interval
<1>1. T \subseteq FiniteSubsetsOf(Nat) /\ T # {}
  <2>1. ASSUME NEW n \in S PROVE 0..n \in FiniteSubsetsOf(Nat)
    BY <1>0 DEF FiniteSubsetsOf
  <2> QED
    BY <2>1
<1>2. PICK x \in T : \A y \in T : ~(<<y, x>> \in StrictSubsetOrdering(Nat))
  <2> HIDE DEF T
  <2> QED
    BY <1>1, FS_StrictSubsetOrderingWellFounded, WFMin
<1>3. PICK m \in S : x = 0..m
  BY <1>2
<1>4. ASSUME NEW k \in S PROVE m <= k
  <2>1. SUFFICES ASSUME k < m PROVE FALSE
    OBVIOUS
  <2>2. <<0..k, 0..m>> \in StrictSubsetOrdering(Nat)
    BY <2>1 DEF StrictSubsetOrdering
  <2> QED
    BY <1>2, <1>3, <2>2
<1> QED
  BY <1>4

LEMMA NatSetInduction ==
  ASSUME NEW S, 0 \in S, \A n \in Nat : n \in S => n + 1 \in S
  PROVE  Nat \subseteq S
<1> DEFINE T == Nat \ S
<1>1. SUFFICES ASSUME T # {} PROVE FALSE
  OBVIOUS
<1>2. PICK m \in T : \A k \in T : m <= k
  BY <1>1, Least
<1>3. m \in Nat /\ m # 0 /\ m - 1 \in Nat
  OBVIOUS
<1>4. m - 1 \in S
  BY <1>2, <1>3
<1> QED
  BY <1>3, <1>4

(* Sequences compared entry by entry.                                        *)
LEMMA IsAppended ==
  ASSUME NEW S, NEW s \in Seq(S), NEW t \in Seq(S), NEW d \in S,
         Len(t) = Len(s) + 1, \A i \in 1..Len(s) : t[i] = s[i], t[Len(s) + 1] = d
  PROVE  t = Append(s, d)
<1>1. /\ Append(s, d) \in Seq(S) /\ Len(Append(s, d)) = Len(s) + 1
      /\ \A i \in 1..Len(s) : Append(s, d)[i] = s[i]
      /\ Append(s, d)[Len(s) + 1] = d
  BY AppendProperties
<1>2. \A i \in 1..Len(t) : i \in 1..Len(s) \/ i = Len(s) + 1
  BY LenProperties
<1>3. \A i \in 1..Len(t) : t[i] = Append(s, d)[i]
  BY <1>1, <1>2
<1> QED
  BY <1>1, <1>3, SeqEqual

LEMMA IsPrepended ==
  ASSUME NEW S, NEW s \in Seq(S), NEW t \in Seq(S), NEW d \in S,
         Len(t) = Len(s) + 1, t[1] = d, \A i \in 1..Len(s) : t[i + 1] = s[i]
  PROVE  t = <<d>> \o s
<1>0. <<d>> \in Seq(S) /\ Len(<<d>>) = 1 /\ <<d>>[1] = d /\ Len(s) \in Nat
  OBVIOUS
<1> DEFINE u == <<d>>
<1>1. u \in Seq(S) /\ Len(u) = 1 /\ u[1] = d
  BY <1>0
<1> HIDE DEF u
<1>2. /\ u \o s \in Seq(S) /\ Len(u \o s) = 1 + Len(s)
      /\ \A i \in 1..(1 + Len(s)) :
           (u \o s)[i] = IF i <= 1 THEN u[i] ELSE s[i - 1]
  <2>1. /\ u \o s \in Seq(S) /\ Len(u \o s) = Len(u) + Len(s)
        /\ \A i \in 1..Len(u) + Len(s) :
             (u \o s)[i] = IF i <= Len(u) THEN u[i] ELSE s[i - Len(u)]
    BY <1>1, ConcatProperties
  <2> QED
    BY <1>1, <2>1
<1>3. \A i \in 1..Len(t) : i = 1 \/ (i - 1 \in 1..Len(s) /\ (i - 1) + 1 = i)
  BY <1>0
<1>4. \A i \in 1..Len(t) : t[i] = (u \o s)[i]
  <2> SUFFICES ASSUME NEW i \in 1..Len(t) PROVE t[i] = (u \o s)[i]
    OBVIOUS
  <2>1. i \in 1..(1 + Len(s)) /\ (i <= 1 <=> i = 1)
    BY <1>0
  <2>2. CASE i = 1
    BY <1>1, <1>2, <2>1, <2>2
  <2>3. CASE i # 1
    <3>1. t[i] = s[i - 1]
      BY <1>3, <2>3
    <3> QED
      BY <1>2, <2>1, <2>3, <3>1
  <2> QED
    BY <2>2, <2>3
<1>5. t = u \o s
  BY <1>0, <1>2, <1>4, SeqEqual
<1> QED
  BY <1>5 DEF u

LEMMA IsCutLast ==
  ASSUME NEW S, NEW s \in Seq(S), NEW t \in Seq(S), s # << >>,
         Len(t) = Len(s) - 1, \A i \in 1..Len(t) : t[i] = s[i]
  PROVE  t = SubSeq(s, 1, Len(s) - 1)
<1>1. /\ Len(s) \in Nat \ {0} /\ \A i \in 1..(Len(s) - 1) : i \in 1..Len(s)
      /\ \A i \in 1..Len(s) : s[i] \in S
  BY EmptySeq, ElementOfSeq
<1>2. 1 \in Int /\ Len(s) - 1 \in Int /\ Len(s) - 1 - 1 + 1 = Len(s) - 1
  BY <1>1
<1> DEFINE u == SubSeq(s, 1, Len(s) - 1)
<1>3. /\ u \in Seq(S)
      /\ Len(u) = IF 1 <= Len(s) - 1 THEN Len(s) - 1 - 1 + 1 ELSE 0
      /\ \A i \in 1..(Len(s) - 1 - 1 + 1) : u[i] = s[1 + i - 1]
  BY <1>1, <1>2, SubSeqProperties
<1>4. Len(u) = Len(s) - 1 /\ \A i \in 1..(Len(s) - 1) : u[i] = s[i]
  BY <1>1, <1>3
<1> HIDE DEF u
<1>5. t = u
  BY <1>3, <1>4, SeqEqual
<1> QED
  BY <1>5 DEF u

LEMMA IsCutFirst ==
  ASSUME NEW S, NEW s \in Seq(S), NEW t \in Seq(S), s # << >>,
         Len(t) = Len(s) - 1, \A i \in 1..Len(t) : t[i] = s[i + 1]
  PROVE  t = Tail(s)
<1>1. /\ Tail(s) \in Seq(S) /\ Len(Tail(s)) = Len(s) - 1
      /\ \A i \in 1..Len(Tail(s)) : Tail(s)[i] = s[i + 1]
  BY HeadTailProperties
<1> QED
  BY <1>1, SeqEqual

-----------------------------------------------------------------------------
(* The walk along the list sees its chain.                                   *)
(* A function that satisfies the equations of Steps is Steps.                *)
LEMMA StepsUnique ==
  ASSUME NEW c, NEW g, g = [i \in Nat |-> g[i]], g[0] = c,
         \A i \in Nat : g[i + 1] = IF g[i] = NULL THEN NULL ELSE cell[g[i]].next
  PROVE  Steps(c) = g
<1> DEFINE E(w) == [n \in Nat |-> IF n = 0 THEN c
                      ELSE IF w[n - 1] = NULL THEN NULL ELSE cell[w[n - 1]].next]
<1>1. \A i \in Nat : i # 0 => i - 1 \in Nat /\ (i - 1) + 1 = i
  OBVIOUS
<1>2. \A i \in Nat : i # 0 => g[i] = IF g[i - 1] = NULL THEN NULL ELSE cell[g[i - 1]].next
  BY <1>1
<1>3. \A i \in Nat : g[i] = IF i = 0 THEN c
          ELSE IF g[i - 1] = NULL THEN NULL ELSE cell[g[i - 1]].next
  BY <1>2
<1>4. g = E(g)
  BY <1>3
<1> DEFINE w == CHOOSE w : w = E(w)
<1>5. w = E(w)
  <2> HIDE DEF E
  <2> QED
    BY <1>4
<1>6. Steps(c) = w
  BY DEF Steps
<1> HIDE DEF w
<1>7. /\ w[0] = c
      /\ \A i \in Nat : i # 0 => w[i] = IF w[i - 1] = NULL THEN NULL ELSE cell[w[i - 1]].next
  BY <1>5
<1>8. \A i \in Nat : w[i + 1] = IF w[i] = NULL THEN NULL ELSE cell[w[i]].next
  <2>1. \A i \in Nat : i + 1 \in Nat /\ i + 1 # 0 /\ (i + 1) - 1 = i
    OBVIOUS
  <2> HIDE DEF E
  <2> QED
    BY <1>7, <2>1
<1> DEFINE S == {i \in Nat : w[i] = g[i]}
<1>9. Nat \subseteq S
  <2>1. 0 \in S
    BY <1>7
  <2>2. \A i \in Nat : i \in S => i + 1 \in S
    BY <1>8
  <2> HIDE DEF S
  <2> QED
    BY <2>1, <2>2, NatSetInduction
<1>10. w = [i \in Nat |-> w[i]]
  BY <1>5
<1> QED
  BY <1>6, <1>9, <1>10

LEMMA StepsFromNull == \A i \in Nat : Steps(NULL)[i] = NULL
<1> DEFINE g == [i \in Nat |-> NULL]
<1>1. Steps(NULL) = g
  <2>1. g = [i \in Nat |-> g[i]] /\ \A i \in Nat : g[i] = NULL /\ i + 1 \in Nat
    OBVIOUS
  <2> HIDE DEF g
  <2> QED
    BY <2>1, StepsUnique
<1> QED
  BY <1>1

LEMMA StepsInChain ==
  ASSUME LInv, list # NULL, NEW s, IsChain(s), NEW k \in 1..list.num_entries
  PROVE  \A i \in Nat : Steps(s[k])[i] = IF k + i <= list.num_entries
                                         THEN s[k + i] ELSE NULL
<1> DEFINE n == list.num_entries
           g == [i \in Nat |-> IF k + i <= n THEN s[k + i] ELSE NULL]
<1>0. n \in Nat /\ NULL \notin Cell
  BY CellAssumption DEF LInv, ListType
<1>1. \A i \in Nat : g[i] = IF k + i <= n THEN s[k + i] ELSE NULL
  OBVIOUS
<1>2. g[0] = s[k]
  BY <1>0
<1>3. ASSUME NEW i \in Nat
      PROVE  g[i + 1] = IF g[i] = NULL THEN NULL ELSE cell[g[i]].next
  <2>1. CASE k + i <= n
    <3>1. k + i \in 1..n /\ (k + i = n <=> ~(k + (i + 1) <= n)) /\ k + (i + 1) = (k + i) + 1
      BY <1>0, <2>1
    <3>2. s[k + i] \in Cell /\ cell[s[k + i]].next = IF k + i = n THEN NULL ELSE s[(k + i) + 1]
      BY <3>1 DEF IsChain
    <3>3. g[i] = s[k + i] /\ g[i + 1] = IF k + (i + 1) <= n THEN s[k + (i + 1)] ELSE NULL
      BY <2>1
    <3> HIDE DEF g, n
    <3> QED
      BY <1>0, <3>1, <3>2, <3>3
  <2>2. CASE ~(k + i <= n)
    <3>1. ~(k + (i + 1) <= n)
      BY <1>0, <2>2
    <3> QED
      BY <2>2, <3>1
  <2> QED
    BY <2>1, <2>2
<1>4. g = [i \in Nat |-> g[i]]
  OBVIOUS
<1>5. Steps(s[k]) = g
  <2> HIDE DEF g
  <2> QED
    BY <1>2, <1>3, <1>4, StepsUnique
<1> QED
  BY <1>5

(* As many cells are in use as the counter says.                             *)
LEMMA UsedCount ==
  ASSUME LInv, list # NULL
  PROVE  /\ list.num_entries = Cardinality(Used)
         /\ Cardinality(Cell) \in Nat /\ list.num_entries <= Cardinality(Cell)
<1> DEFINE n == list.num_entries
<1>1. PICK s \in [1..n -> Cell] : IsChain(s)
  BY DEF LInv
<1>2. n \in Nat
  BY DEF LInv, ListType
<1>3. s \in Bijection(1..n, Used)
  <2>1. \A i \in 1..n : s[i] \in Used
    BY <1>1 DEF IsChain, Used
  <2>2. \A c \in Used : \E i \in 1..n : s[i] = c
    BY <1>1 DEF IsChain, Used
  <2>3. \A i, j \in 1..n : s[i] = s[j] => i = j
    BY <1>1 DEF IsChain
  <2>4. s \in [1..n -> Used]
    BY <2>1
  <2> QED
    BY <2>2, <2>3, <2>4 DEF Bijection, Injection, Surjection, IsInjective
<1>4. IsFiniteSet(1..n) /\ Cardinality(1..n) = n
  BY <1>2, FS_Interval
<1>5. Cardinality(Used) = n
  BY <1>3, <1>4, FS_Bijection DEF ExistsBijection
<1>6. Used \subseteq Cell /\ IsFiniteSet(Cell)
  BY CellAssumption DEF Used
<1> QED
  BY <1>5, <1>6, FS_Subset, FS_CardinalityType

LEMMA BothWaysHolds == LInv => BothWays
<1> SUFFICES ASSUME LInv, list # NULL PROVE BothWays
  BY DEF BothWays
<1>1. list.num_entries = Cardinality({c \in Cell : cell[c] # NULL})
  BY UsedCount DEF Used
<1> QED
  BY <1>1 DEF LInv, BothWays

(* The data of the chain s from its entry k on.                              *)
View(s, k) == [i \in 1..(list.num_entries - k + 1) |-> cell[s[k + i - 1]].data]
Place(s, k) == IF k = list.num_entries + 1 THEN NULL ELSE s[k]

LEMMA LengthIs ==
  ASSUME NEW c, NEW n \in 0..Cardinality(Cell), Cardinality(Cell) \in Nat, IsLength(c, n)
  PROVE  Length(c) = n
<1>1. ASSUME NEW m \in 0..Cardinality(Cell), IsLength(c, m)
      PROVE  m = n
  <2>1. CASE m < n
    <3>1. m \in 0..(n - 1)
      BY <2>1
    <3> QED
      BY <1>1, <3>1 DEF IsLength
  <2>2. CASE n < m
    <3>1. n \in 0..(m - 1)
      BY <2>2
    <3> QED
      BY <1>1, <3>1 DEF IsLength
  <2> QED
    BY <2>1, <2>2
<1> QED
  BY <1>1 DEF Length

LEMMA NothingFromNull == From(NULL) = << >>
<1>1. Cardinality(Cell) \in Nat
  BY CellAssumption, FS_CardinalityType
<1>2. IsLength(NULL, 0)
  BY StepsFromNull DEF IsLength
<1>3. Length(NULL) = 0
  BY <1>1, <1>2, LengthIs
<1> QED
  BY <1>3 DEF From

LEMMA FromPlace ==
  ASSUME LInv, list # NULL, NEW s, IsChain(s), NEW k \in 1..(list.num_entries + 1)
  PROVE  From(Place(s, k)) = View(s, k)
<1> DEFINE n == list.num_entries
<1>0. n \in Nat /\ NULL \notin Cell
  BY CellAssumption DEF LInv, ListType
<1>1. CASE k = n + 1
  <2>1. n - k + 1 = 0
    BY <1>0, <1>1
  <2> QED
    BY <1>1, <2>1, NothingFromNull DEF View, Place
<1>2. CASE k # n + 1
  <2>1. k \in 1..n /\ Place(s, k) = s[k]
    BY <1>0, <1>2 DEF Place
  <2>2. \A i \in Nat : Steps(s[k])[i] = IF k + i <= n THEN s[k + i] ELSE NULL
    BY <2>1, StepsInChain
  <2>3. n <= Cardinality(Cell) /\ Cardinality(Cell) \in Nat
    BY UsedCount
  <2>4. IsLength(s[k], n - k + 1)
    <3>1. n - k + 1 \in Nat /\ ~(k + (n - k + 1) <= n)
      BY <1>0, <2>1
    <3>2. \A m \in 0..((n - k + 1) - 1) : m \in Nat /\ k + m <= n /\ k + m \in 1..n
      BY <1>0, <2>1
    <3>3. \A m \in 1..n : s[m] # NULL
      BY <1>0 DEF IsChain
    <3> HIDE DEF n
    <3> QED
      BY <2>2, <3>1, <3>2, <3>3 DEF IsLength
  <2>5. Length(s[k]) = n - k + 1
    <3>1. n - k + 1 \in 0..Cardinality(Cell)
      BY <1>0, <2>1, <2>3
    <3> HIDE DEF n
    <3> QED
      BY <2>3, <2>4, <3>1, LengthIs
  <2>6. \A i \in 1..(n - k + 1) : Steps(s[k])[i - 1] = s[k + i - 1]
    <3>1. \A i \in 1..(n - k + 1) : i - 1 \in Nat /\ k + (i - 1) <= n /\ k + (i - 1) = k + i - 1
      BY <1>0, <2>1
    <3> HIDE DEF n
    <3> QED
      BY <2>2, <3>1
  <2> QED
    BY <2>1, <2>5, <2>6 DEF From, View
<1> QED
  BY <1>1, <1>2

(* What an iteration has yet to return, as DequeSpec has it.                 *)
Rest == IF list = NULL \/ lost THEN << >> ELSE From(list.each_ptr)

(* The list as its chain shows it: its data, and the rest of an iteration.   *)
LEMMA Seen ==
  ASSUME LInv, list # NULL, NEW s, IsChain(s)
  PROVE  /\ list.num_entries \in Nat
         /\ Contents = View(s, 1)
         /\ \A k \in 1..(list.num_entries + 1) : From(Place(s, k)) = View(s, k)
         /\ list.entries = Place(s, 1)
         /\ ~lost => \E k \in 1..(list.num_entries + 1) :
                       list.each_ptr = Place(s, k) /\ Rest = View(s, k)
<1> DEFINE n == list.num_entries
<1>0. n \in Nat /\ NULL \notin Cell
  BY CellAssumption DEF LInv, ListType
<1>1. \A k \in 1..(n + 1) : From(Place(s, k)) = View(s, k)
  BY FromPlace
<1>2. list.entries = Place(s, 1) /\ 1 \in 1..(n + 1)
  BY <1>0 DEF Place, IsChain
<1>3. Contents = View(s, 1)
  BY <1>1, <1>2 DEF Contents
<1>4. ASSUME ~lost PROVE \E k \in 1..(n + 1) : list.each_ptr = Place(s, k)
  <2>1. CASE list.each_ptr = NULL
    BY <1>0, <2>1 DEF Place
  <2>2. CASE list.each_ptr # NULL
    <3>1. PICK k \in 1..n : s[k] = list.each_ptr
      BY <1>4, <2>2 DEF LInv, Reachable, Used, IsChain
    <3>2. k \in 1..(n + 1) /\ k # n + 1
      BY <1>0
    <3> QED
      BY <3>1, <3>2 DEF Place
  <2> QED
    BY <2>1, <2>2
<1> QED
  BY <1>0, <1>1, <1>2, <1>3, <1>4 DEF Rest

(* The data of a chain is a sequence of what was put in.                     *)
LEMMA Viewed ==
  ASSUME LInv, list # NULL, NEW s, IsChain(s), NEW k \in 1..(list.num_entries + 1)
  PROVE  /\ View(s, k) \in Seq(Data)
         /\ Len(View(s, k)) = list.num_entries - k + 1
         /\ list.num_entries - k + 1 \in Nat
         /\ \A i \in 1..(list.num_entries - k + 1) :
              View(s, k)[i] = cell[s[k + i - 1]].data
<1> DEFINE n == list.num_entries
           len == n - k + 1
<1>0. n \in Nat /\ NULL \notin Cell /\ len \in Nat
  BY CellAssumption DEF LInv, ListType
<1>1. \A i \in 1..len : k + i - 1 \in 1..n
  BY <1>0
<1>2. \A i \in 1..n : s[i] \in Used
  BY DEF IsChain, Used
<1>3. \A c \in Used : cell[c].data \in Data
  BY DEF LInv, Used, CellType
<1>4. \A i \in 1..len : cell[s[k + i - 1]].data \in Data
  BY <1>1, <1>2, <1>3
<1>5. View(s, k) = [i \in 1..len |-> cell[s[k + i - 1]].data]
  BY DEF View
<1> HIDE DEF len, n
<1>6. View(s, k) \in [1..len -> Data]
  BY <1>4, <1>5
<1>7. View(s, k) \in Seq(Data) /\ Len(View(s, k)) = len
  BY <1>0, <1>6
<1> QED
  BY <1>0, <1>5, <1>7 DEF len, n

(* The same after a step.                                                    *)
LEMMA SeenNext ==
  (LInv /\ list # NULL => \A s : IsChain(s) =>
     /\ list.num_entries \in Nat
     /\ Contents = View(s, 1)
     /\ \A k \in 1..(list.num_entries + 1) : From(Place(s, k)) = View(s, k)
     /\ list.entries = Place(s, 1)
     /\ ~lost => \E k \in 1..(list.num_entries + 1) :
                       list.each_ptr = Place(s, k) /\ Rest = View(s, k))'
<1>1. LInv /\ list # NULL => \A s : IsChain(s) =>
     /\ list.num_entries \in Nat
     /\ Contents = View(s, 1)
     /\ \A k \in 1..(list.num_entries + 1) : From(Place(s, k)) = View(s, k)
     /\ list.entries = Place(s, 1)
     /\ ~lost => \E k \in 1..(list.num_entries + 1) :
                       list.each_ptr = Place(s, k) /\ Rest = View(s, k)
  BY Seen
<1> QED
  BY <1>1, PTL

LEMMA ViewedNext ==
  (LInv /\ list # NULL => \A s : IsChain(s) => \A k \in 1..(list.num_entries + 1) :
     /\ View(s, k) \in Seq(Data)
     /\ Len(View(s, k)) = list.num_entries - k + 1
     /\ list.num_entries - k + 1 \in Nat
     /\ \A i \in 1..(list.num_entries - k + 1) :
          View(s, k)[i] = cell[s[k + i - 1]].data)'
<1>1. LInv /\ list # NULL => \A s : IsChain(s) => \A k \in 1..(list.num_entries + 1) :
     /\ View(s, k) \in Seq(Data)
     /\ Len(View(s, k)) = list.num_entries - k + 1
     /\ list.num_entries - k + 1 \in Nat
     /\ \A i \in 1..(list.num_entries - k + 1) :
          View(s, k)[i] = cell[s[k + i - 1]].data
  BY Viewed
<1> QED
  BY <1>1, PTL

LEMMA NothingFromNullNext == (From(NULL) = << >>)'
BY NothingFromNull, PTL

-----------------------------------------------------------------------------
LEMMA PlaceUnique ==
  LInv /\ list # NULL => \A s : IsChain(s) => \A k, m \in 1..(list.num_entries + 1) :
    Place(s, k) = Place(s, m) => k = m
<1> SUFFICES ASSUME LInv, list # NULL, NEW s, IsChain(s),
                    NEW k \in 1..(list.num_entries + 1),
                    NEW m \in 1..(list.num_entries + 1), Place(s, k) = Place(s, m)
             PROVE  k = m
  OBVIOUS
<1>1. list.num_entries \in Nat /\ NULL \notin Cell
  BY CellAssumption DEF LInv, ListType
<1>2. \A j \in 1..(list.num_entries + 1) :
        j = list.num_entries + 1 \/ j \in 1..list.num_entries
  BY <1>1
<1>3. \A j \in 1..list.num_entries : s[j] # NULL
  BY <1>1 DEF IsChain
<1> QED
  BY <1>2, <1>3 DEF IsChain, Place

LEMMA PlaceUniqueNext ==
  (LInv /\ list # NULL => \A s : IsChain(s) => \A k, m \in 1..(list.num_entries + 1) :
    Place(s, k) = Place(s, m) => k = m)'
BY PlaceUnique, PTL

(* No data past the last entry.                                              *)
LEMMA NothingLeft ==
  ASSUME LInv, list # NULL, NEW s, IsChain(s), NEW k \in 1..(list.num_entries + 1)
  PROVE  View(s, k) = << >> <=> k = list.num_entries + 1
<1>1. /\ View(s, k) \in Seq(Data) /\ Len(View(s, k)) = list.num_entries - k + 1
      /\ list.num_entries \in Nat
  BY Viewed, Seen
<1>2. \A v \in Seq(Data) : v = << >> <=> Len(v) = 0
  BY EmptySeq
<1>3. View(s, k) = << >> <=> list.num_entries - k + 1 = 0
  BY <1>1, <1>2
<1> QED
  BY <1>1, <1>3

LEMMA NothingLeftNext ==
  (LInv /\ list # NULL => \A s : IsChain(s) => \A k \in 1..(list.num_entries + 1) :
    View(s, k) = << >> <=> k = list.num_entries + 1)'
<1>1. LInv /\ list # NULL => \A s : IsChain(s) => \A k \in 1..(list.num_entries + 1) :
        View(s, k) = << >> <=> k = list.num_entries + 1
  BY NothingLeft
<1> QED
  BY <1>1, PTL

LEMMA RestLost == (list = NULL \/ lost => Rest = << >>) /\ (list = NULL \/ lost => Rest = << >>)'
<1>1. list = NULL \/ lost => Rest = << >>
  BY DEF Rest
<1> QED
  BY <1>1, PTL

(* What each function does to the data and to the rest of an iteration.      *)
LEMMA PushSeen ==
  ASSUME LInv, LInv', list # NULL, NEW d \in Data, AddsLast(d)
  PROVE  /\ Contents' = Append(Contents, d)
         /\ Rest' = IF Rest = << >> THEN Rest ELSE Append(Rest, d)
         /\ returned' = Added(1) /\ lost' = lost
<1> DEFINE n == list.num_entries
<1>1. PICK c, s, t :
        /\ AddsAs(c, d, s, t)
        /\ t = [i \in 1..(n + 1) |-> IF i = n + 1 THEN c ELSE s[i]]
  BY DEF AddsLast
<1>2. /\ IsChain(s) /\ IsChain(t)' /\ list' # NULL /\ list'.num_entries = n + 1
      /\ list'.each_ptr = list.each_ptr /\ lost' = lost
      /\ returned' = Added(1) /\ cell'[c].data = d
      /\ \A y \in Used : cell'[y].data = cell[y].data
  BY <1>1 DEF AddsAs
<1>3. /\ n \in Nat /\ \A i \in 1..n : t[i] = s[i] /\ s[i] \in Used
      /\ t[n + 1] = c
  <2>1. n \in Nat
    BY <1>2, Seen
  <2>2. \A i \in 1..n : i \in 1..(n + 1) /\ i # n + 1
    BY <2>1
  <2>3. \A i \in 1..n : s[i] \in Used
    BY <1>2 DEF IsChain, Used
  <2> QED
    BY <1>1, <2>1, <2>2, <2>3
<1>4. \A k \in 1..(n + 1) : View(t, k)' = Append(View(s, k), d)
  <2> SUFFICES ASSUME NEW k \in 1..(n + 1) PROVE View(t, k)' = Append(View(s, k), d)
    OBVIOUS
  <2> DEFINE v == View(s, k)
             w == View(t, k)'
  <2>1. /\ v \in Seq(Data) /\ Len(v) = n - k + 1
        /\ \A i \in 1..(n - k + 1) : v[i] = cell[s[k + i - 1]].data
    BY <1>2, Viewed
  <2>2. k \in 1..(list'.num_entries + 1)
    BY <1>2, <1>3
  <2>3. /\ w \in Seq(Data) /\ Len(w) = list'.num_entries - k + 1
        /\ \A i \in 1..(list'.num_entries - k + 1) : w[i] = cell'[t[k + i - 1]].data
    BY <1>2, <2>2, ViewedNext
  <2> HIDE DEF v, w
  <2>4. Len(w) = Len(v) + 1
    BY <1>2, <1>3, <2>1, <2>3
  <2>5. \A i \in 1..Len(v) : w[i] = v[i]
    <3>1. \A i \in 1..Len(v) : /\ i \in 1..(list'.num_entries - k + 1)
                               /\ i \in 1..(n - k + 1) /\ k + i - 1 \in 1..n
      BY <1>2, <1>3, <2>1
    <3> QED
      BY <1>2, <1>3, <2>1, <2>3, <3>1
  <2>6. w[Len(v) + 1] = d
    <3>1. /\ Len(v) + 1 \in 1..(list'.num_entries - k + 1)
          /\ k + (Len(v) + 1) - 1 = n + 1
      BY <1>2, <1>3, <2>1
    <3> QED
      BY <1>2, <1>3, <2>3, <3>1
  <2> QED
    BY <2>1, <2>3, <2>4, <2>5, <2>6, IsAppended DEF v, w
<1>5. Contents' = Append(Contents, d)
  <2>1. Contents = View(s, 1) /\ Contents' = View(t, 1)' /\ 1 \in 1..(n + 1)
    BY <1>2, <1>3, Seen, SeenNext
  <2> QED
    BY <1>4, <2>1
<1>6. Rest' = IF Rest = << >> THEN Rest ELSE Append(Rest, d)
  <2>1. CASE lost
    BY <1>2, <2>1, RestLost
  <2>2. CASE ~lost
    <3>1. PICK k \in 1..(n + 1) : list.each_ptr = Place(s, k) /\ Rest = View(s, k)
      BY <1>2, <2>2, Seen
    <3>2. PICK m \in 1..(list'.num_entries + 1) :
            list'.each_ptr = Place(t, m)' /\ Rest' = View(t, m)'
      BY <1>2, <2>2, SeenNext
    <3>3. CASE k = n + 1
      <4>0. PICK e : e = list'.num_entries + 1
        OBVIOUS
      <4>1. Place(t, e)' = NULL /\ e \in 1..(list'.num_entries + 1)
        BY <1>2, <1>3, <4>0 DEF Place
      <4>2. list.each_ptr = NULL
        BY <3>1, <3>3 DEF Place
      <4>3. m = e /\ e = list'.num_entries + 1
        BY <1>2, <3>2, <4>0, <4>1, <4>2, PlaceUniqueNext
      <4> QED
        BY <1>2, <3>1, <3>2, <3>3, <4>3, NothingLeft, NothingLeftNext
    <3>4. CASE k # n + 1
      <4>1. k \in 1..n /\ k \in 1..(list'.num_entries + 1) /\ k # list'.num_entries + 1
        BY <1>2, <1>3, <3>4
      <4>2. Place(t, k)' = s[k] /\ Place(s, k) = s[k]
        BY <1>3, <3>4, <4>1 DEF Place
      <4>3. m = k
        BY <1>2, <3>1, <3>2, <4>1, <4>2, PlaceUniqueNext
      <4> QED
        BY <1>2, <1>4, <3>1, <3>2, <3>4, <4>3, NothingLeft
    <3> QED
      BY <3>3, <3>4
  <2> QED
    BY <2>1, <2>2
<1> QED
  BY <1>2, <1>5, <1>6

LEMMA UnshiftSeen ==
  ASSUME LInv, LInv', list # NULL, NEW d \in Data, AddsFirst(d)
  PROVE  /\ Contents' = <<d>> \o Contents /\ Rest' = Rest
         /\ returned' = Added(1) /\ lost' = lost
<1> DEFINE n == list.num_entries
<1>1. PICK c, s, t :
        /\ AddsAs(c, d, s, t)
        /\ t = [i \in 1..(n + 1) |-> IF i = 1 THEN c ELSE s[i - 1]]
  BY DEF AddsFirst
<1>2. /\ IsChain(s) /\ IsChain(t)' /\ list' # NULL /\ list'.num_entries = n + 1
      /\ list'.each_ptr = list.each_ptr /\ lost' = lost
      /\ returned' = Added(1) /\ cell'[c].data = d
      /\ \A y \in Used : cell'[y].data = cell[y].data
  BY <1>1 DEF AddsAs
<1>3. /\ n \in Nat /\ \A i \in 1..n : t[i + 1] = s[i] /\ s[i] \in Used
      /\ t[1] = c
  <2>1. n \in Nat
    BY <1>2, Seen
  <2>2. /\ \A i \in 1..n : i + 1 \in 1..(n + 1) /\ i + 1 # 1 /\ (i + 1) - 1 = i
        /\ 1 \in 1..(n + 1)
    BY <2>1
  <2>3. \A i \in 1..n : s[i] \in Used
    BY <1>2 DEF IsChain, Used
  <2> QED
    BY <1>1, <2>1, <2>2, <2>3
<1>a. n \in Nat /\ list'.num_entries = n + 1
  BY <1>2, <1>3
<1>4. \A k \in 1..(n + 1) : View(t, k + 1)' = View(s, k)
  <2> SUFFICES ASSUME NEW k \in 1..(n + 1) PROVE View(t, k + 1)' = View(s, k)
    OBVIOUS
  <2> DEFINE v == View(s, k)
             w == View(t, k + 1)'
  <2>1. /\ v \in Seq(Data) /\ Len(v) = n - k + 1
        /\ \A i \in 1..(n - k + 1) : v[i] = cell[s[k + i - 1]].data
    BY <1>2, Viewed
  <2>2. k + 1 \in 1..(list'.num_entries + 1)
    BY <1>2, <1>3
  <2>3. /\ w \in Seq(Data) /\ Len(w) = list'.num_entries - (k + 1) + 1
        /\ \A i \in 1..(list'.num_entries - (k + 1) + 1) :
             w[i] = cell'[t[(k + 1) + i - 1]].data
    BY <1>2, <2>2, ViewedNext
  <2> HIDE DEF v, w
  <2>4. Len(w) = Len(v)
    BY <1>2, <1>3, <2>1, <2>3
  <2>5. \A i \in 1..Len(v) : w[i] = v[i]
    <3>0. list'.num_entries - (k + 1) + 1 = n - k + 1
      BY <1>a
    <3>1. \A i \in 1..(n - k + 1) : /\ k + i - 1 \in 1..n
                                    /\ (k + 1) + i - 1 = (k + i - 1) + 1
      BY <1>a
    <3>2. \A i \in 1..(n - k + 1) : w[i] = cell'[t[(k + i - 1) + 1]].data
      BY <2>3, <3>0, <3>1
    <3>3. \A j \in 1..n : cell'[t[j + 1]].data = cell[s[j]].data
      BY <1>2, <1>3
    <3>4. \A i \in 1..(n - k + 1) : w[i] = cell[s[k + i - 1]].data
      BY <3>1, <3>2, <3>3
    <3> QED
      BY <2>1, <3>4
  <2> QED
    BY <2>1, <2>3, <2>4, <2>5, SeqEqual DEF v, w
<1>5. Contents' = <<d>> \o Contents
  <2> DEFINE v == View(s, 1)
             w == View(t, 1)'
  <2>0. 1 \in 1..(n + 1) /\ 1 \in 1..(list'.num_entries + 1)
    BY <1>2, <1>3
  <2>1. v = Contents /\ w = Contents'
    BY <1>2, Seen, SeenNext
  <2>2. /\ v \in Seq(Data) /\ Len(v) = n
        /\ \A i \in 1..n : v[i] = cell[s[i]].data
    <3>1. /\ v \in Seq(Data) /\ Len(v) = n - 1 + 1
          /\ \A i \in 1..(n - 1 + 1) : v[i] = cell[s[1 + i - 1]].data
      BY <1>2, <2>0, Viewed
    <3> HIDE DEF v
    <3> QED
      BY <1>3, <3>1
  <2>3. /\ w \in Seq(Data) /\ Len(w) = n + 1
        /\ \A i \in 1..(n + 1) : w[i] = cell'[t[i]].data
    <3>1. /\ w \in Seq(Data) /\ Len(w) = list'.num_entries - 1 + 1
          /\ \A i \in 1..(list'.num_entries - 1 + 1) :
               w[i] = cell'[t[1 + i - 1]].data
      BY <1>2, <2>0, ViewedNext
    <3> HIDE DEF w
    <3> QED
      BY <1>2, <1>3, <3>1
  <2> HIDE DEF v, w
  <2>4. /\ Len(w) = Len(v) + 1 /\ w[1] = d
        /\ \A i \in 1..Len(v) : w[i + 1] = v[i]
    <3>1. 1 \in 1..(n + 1) /\ \A i \in 1..n : i + 1 \in 1..(n + 1)
      BY <1>a
    <3>2. \A j \in 1..n : cell'[t[j + 1]].data = cell[s[j]].data
      BY <1>2, <1>3
    <3>3. w[1] = d
      BY <1>2, <1>3, <2>3, <3>1
    <3>4. \A i \in 1..n : w[i + 1] = v[i]
      BY <2>2, <2>3, <3>1, <3>2
    <3> QED
      BY <2>2, <2>3, <3>3, <3>4
  <2>5. w = <<d>> \o v
    BY <2>2, <2>3, <2>4, IsPrepended
  <2> QED
    BY <2>1, <2>5
<1>6. Rest' = Rest
  <2>1. CASE lost
    BY <1>2, <2>1, RestLost
  <2>2. CASE ~lost
    <3>1. PICK k \in 1..(n + 1) : list.each_ptr = Place(s, k) /\ Rest = View(s, k)
      BY <1>2, <2>2, Seen
    <3>2. PICK m \in 1..(list'.num_entries + 1) :
            list'.each_ptr = Place(t, m)' /\ Rest' = View(t, m)'
      BY <1>2, <2>2, SeenNext
    <3>3. k + 1 \in 1..(list'.num_entries + 1)
      BY <1>2, <1>3
    <3>4. Place(t, k + 1)' = Place(s, k)
      <4>1. k + 1 = list'.num_entries + 1 <=> k = n + 1
        BY <1>2, <1>3
      <4>2. k # n + 1 => k \in 1..n
        BY <1>3
      <4> QED
        BY <1>3, <4>1, <4>2 DEF Place
    <3>5. m = k + 1
      BY <1>2, <3>1, <3>2, <3>3, <3>4, PlaceUniqueNext
    <3> QED
      BY <1>4, <3>1, <3>2, <3>5
  <2> QED
    BY <2>1, <2>2
<1> QED
  BY <1>2, <1>5, <1>6

LEMMA PopSeen ==
  ASSUME LInv, LInv', list # NULL, RemovesLast
  PROVE  /\ Contents # << >>
         /\ Contents' = SubSeq(Contents, 1, Len(Contents) - 1)
         /\ returned' = Whole(Contents[Len(Contents)])
         /\ Rest' = IF Rest = << >> THEN Rest ELSE SubSeq(Rest, 1, Len(Rest) - 1)
         /\ lost' = (lost \/ Len(Rest) = 1)
<1> DEFINE n == list.num_entries
<1>1. PICK c, s, t :
        /\ RemovesAs(c, s, t) /\ c = s[n]
        /\ t = [i \in 1..(n - 1) |-> s[i]]
  BY DEF RemovesLast
<1>2. /\ IsChain(s) /\ IsChain(t)' /\ list' # NULL /\ list'.num_entries = n - 1
      /\ n \in Nat \ {0}
      /\ list'.each_ptr = list.each_ptr /\ lost' = (lost \/ list.each_ptr = c)
      /\ returned' = Whole(cell[c].data)
      /\ \A y \in Used' : cell'[y].data = cell[y].data
  BY <1>1 DEF RemovesAs, Removes
<1>a. n \in Nat \ {0} /\ list'.num_entries = n - 1
  BY <1>2
<1>3. \A i \in 1..(n - 1) : t[i] = s[i] /\ t[i] \in Used' /\ i \in 1..n
  <2>1. \A i \in 1..list'.num_entries : t[i] \in Used'
    BY <1>2 DEF IsChain, Used
  <2>2. \A i \in 1..(n - 1) : i \in 1..n
    BY <1>a
  <2> QED
    BY <1>1, <1>a, <2>1, <2>2
<1>4. \A k \in 1..n : View(t, k)' = SubSeq(View(s, k), 1, Len(View(s, k)) - 1)
  <2> SUFFICES ASSUME NEW k \in 1..n
               PROVE  View(t, k)' = SubSeq(View(s, k), 1, Len(View(s, k)) - 1)
    OBVIOUS
  <2> DEFINE v == View(s, k)
             w == View(t, k)'
  <2>0. k \in 1..(n + 1) /\ k # n + 1 /\ k \in 1..(list'.num_entries + 1)
    BY <1>2
  <2>1. /\ v \in Seq(Data) /\ Len(v) = n - k + 1 /\ v # << >>
        /\ \A i \in 1..(n - k + 1) : v[i] = cell[s[k + i - 1]].data
    BY <1>2, <2>0, Viewed, NothingLeft
  <2>3. /\ w \in Seq(Data) /\ Len(w) = list'.num_entries - k + 1
        /\ \A i \in 1..(list'.num_entries - k + 1) : w[i] = cell'[t[k + i - 1]].data
    BY <1>2, <2>0, ViewedNext
  <2> HIDE DEF v, w
  <2>4. Len(w) = Len(v) - 1
    BY <1>2, <2>1, <2>3
  <2>5. \A i \in 1..Len(w) : w[i] = v[i]
    <3>0. list'.num_entries - k + 1 = n - k
      BY <1>a
    <3>1. \A i \in 1..(n - k) : i \in 1..(n - k + 1) /\ k + i - 1 \in 1..(n - 1)
      BY <1>a
    <3>2. \A i \in 1..(n - k) : w[i] = cell'[t[k + i - 1]].data
      BY <2>3, <3>0
    <3>3. \A j \in 1..(n - 1) : cell'[t[j]].data = cell[s[j]].data
      BY <1>2, <1>3
    <3>4. \A i \in 1..(n - k) : w[i] = v[i]
      BY <2>1, <3>1, <3>2, <3>3
    <3> QED
      BY <2>3, <3>0, <3>4
  <2> QED
    BY <2>1, <2>3, <2>4, <2>5, IsCutLast DEF v, w
<1>5. /\ Contents # << >>
      /\ Contents' = SubSeq(Contents, 1, Len(Contents) - 1)
      /\ returned' = Whole(Contents[Len(Contents)])
  <2>1. /\ Contents = View(s, 1) /\ Contents' = View(t, 1)' /\ 1 \in 1..n
        /\ 1 \in 1..(n + 1) /\ 1 # n + 1
    BY <1>2, Seen, SeenNext
  <2>2. View(s, 1) # << >>
    BY <1>2, <2>1, NothingLeft
  <2>3. Len(View(s, 1)) = n - 1 + 1
    BY <1>2, <2>1, Viewed
  <2>4. \A i \in 1..(n - 1 + 1) : View(s, 1)[i] = cell[s[1 + i - 1]].data
    BY <1>2, <2>1, Viewed
  <2>5. n - 1 + 1 = n /\ 1 + n - 1 = n /\ n \in 1..(n - 1 + 1)
    BY <1>2
  <2>6. View(s, 1)[n] = cell[s[n]].data
    BY <2>4, <2>5
  <2> QED
    BY <1>1, <1>2, <1>4, <2>1, <2>2, <2>3, <2>5, <2>6
<1>6. /\ Rest' = IF Rest = << >> THEN Rest ELSE SubSeq(Rest, 1, Len(Rest) - 1)
      /\ lost' = (lost \/ Len(Rest) = 1)
  <2>1. CASE lost
    <3>1. lost' /\ Rest = << >> /\ Rest' = << >>
      BY <1>2, <2>1, RestLost
    <3> QED
      BY <1>2, <2>1, <3>1, Zenon
  <2>2. CASE ~lost
    <3>1. PICK k \in 1..(n + 1) : list.each_ptr = Place(s, k) /\ Rest = View(s, k)
      BY <1>2, <2>2, Seen
    <3>2. Len(Rest) = n - k + 1 /\ (Rest = << >> <=> k = n + 1)
      BY <1>2, <3>1, Viewed, NothingLeft
    <3>3. list.each_ptr = c <=> k = n
      <4>1. Place(s, n) = c /\ n \in 1..(n + 1)
        BY <1>1, <1>2 DEF Place
      <4> QED
        BY <1>2, <3>1, <4>1, PlaceUnique
    <3>4. lost' = (lost \/ Len(Rest) = 1)
      <4>1. k = n <=> Len(Rest) = 1
        BY <1>2, <3>2
      <4> QED
        BY <1>2, <3>3, <4>1, Zenon
    <3>5. CASE lost'
      <4>1. k = n
        BY <1>2, <2>2, <3>3, <3>5, Zenon
      <4>2. Rest # << >> /\ Len(Rest) = 1
        BY <1>2, <3>2, <4>1
      <4>3. SubSeq(Rest, 1, Len(Rest) - 1) = << >>
        <5>1. Len(Rest) - 1 \in Int /\ Len(Rest) - 1 < 1
          BY <4>2
        <5> QED
          BY <5>1, SubSeqEmpty
      <4>4. Rest' = << >>
        BY <3>5, RestLost
      <4> QED
        BY <3>4, <4>2, <4>3, <4>4
    <3>6. CASE ~lost'
      <4>1. PICK m \in 1..(list'.num_entries + 1) :
              list'.each_ptr = Place(t, m)' /\ Rest' = View(t, m)'
        BY <1>2, <3>6, SeenNext
      <4>2. CASE k = n + 1
        <5>1. PICK e : e = list'.num_entries + 1
          OBVIOUS
        <5>2. Place(t, e)' = NULL /\ e \in 1..(list'.num_entries + 1)
          BY <1>2, <5>1 DEF Place
        <5>3. list.each_ptr = NULL
          BY <3>1, <4>2 DEF Place
        <5>4. m = e
          BY <1>2, <4>1, <5>2, <5>3, PlaceUniqueNext
        <5> QED
          BY <1>2, <3>2, <3>4, <4>1, <4>2, <5>1, <5>4, NothingLeftNext
      <4>3. CASE k # n + 1
        <5>0. k # n
          BY <1>2, <3>3, <3>6, Zenon
        <5>1. k \in 1..(n - 1) /\ k \in 1..n /\ k \in 1..(list'.num_entries + 1)
              /\ k # list'.num_entries + 1
          BY <1>2, <4>3, <5>0
        <5>2. Place(t, k)' = s[k] /\ Place(s, k) = s[k]
          BY <1>3, <4>3, <5>1 DEF Place
        <5>3. m = k
          BY <1>2, <3>1, <4>1, <5>1, <5>2, PlaceUniqueNext
        <5> QED
          BY <1>4, <3>1, <3>2, <3>4, <4>1, <4>3, <5>1, <5>3
      <4> QED
        BY <4>2, <4>3
    <3> QED
      BY <3>5, <3>6
  <2> QED
    BY <2>1, <2>2
<1> QED
  BY <1>5, <1>6

LEMMA ShiftSeen ==
  ASSUME LInv, LInv', list # NULL, RemovesFirst
  PROVE  /\ Contents # << >>
         /\ Contents' = Tail(Contents)
         /\ returned' = Whole(Head(Contents))
         /\ Rest' = IF Rest = Contents THEN << >> ELSE Rest
         /\ lost' = (lost \/ Rest = Contents)
<1> DEFINE n == list.num_entries
<1>1. PICK c, s, t :
        /\ RemovesAs(c, s, t) /\ c = s[1]
        /\ t = [i \in 1..(n - 1) |-> s[i + 1]]
  BY DEF RemovesFirst
<1>2. /\ IsChain(s) /\ IsChain(t)' /\ list' # NULL /\ list'.num_entries = n - 1
      /\ n \in Nat \ {0}
      /\ list'.each_ptr = list.each_ptr /\ lost' = (lost \/ list.each_ptr = c)
      /\ returned' = Whole(cell[c].data)
      /\ \A y \in Used' : cell'[y].data = cell[y].data
  BY <1>1 DEF RemovesAs, Removes
<1>a. n \in Nat \ {0} /\ list'.num_entries = n - 1
  BY <1>2
<1>3. \A i \in 1..(n - 1) : t[i] = s[i + 1] /\ t[i] \in Used' /\ i + 1 \in 1..n
  <2>1. \A i \in 1..list'.num_entries : t[i] \in Used'
    BY <1>2 DEF IsChain, Used
  <2>2. \A i \in 1..(n - 1) : i + 1 \in 1..n
    BY <1>a
  <2> QED
    BY <1>1, <1>a, <2>1, <2>2
<1>b. \A j \in 1..(n - 1) : cell'[t[j]].data = cell[s[j + 1]].data
  BY <1>2, <1>3
<1>4. \A k \in 1..n : View(t, k)' = View(s, k + 1)
  <2> SUFFICES ASSUME NEW k \in 1..n PROVE View(t, k)' = View(s, k + 1)
    OBVIOUS
  <2> DEFINE v == View(s, k + 1)
             w == View(t, k)'
  <2>0. k + 1 \in 1..(n + 1) /\ k \in 1..(list'.num_entries + 1)
    BY <1>a
  <2>1. /\ v \in Seq(Data) /\ Len(v) = n - (k + 1) + 1
        /\ \A i \in 1..(n - (k + 1) + 1) : v[i] = cell[s[(k + 1) + i - 1]].data
    BY <1>2, <2>0, Viewed
  <2>2. /\ w \in Seq(Data) /\ Len(w) = list'.num_entries - k + 1
        /\ \A i \in 1..(list'.num_entries - k + 1) : w[i] = cell'[t[k + i - 1]].data
    BY <1>2, <2>0, ViewedNext
  <2> HIDE DEF v, w
  <2>3. list'.num_entries - k + 1 = n - k /\ n - (k + 1) + 1 = n - k
    BY <1>a
  <2>4. \A i \in 1..(n - k) : /\ k + i - 1 \in 1..(n - 1)
                              /\ (k + 1) + i - 1 = (k + i - 1) + 1
    BY <1>a
  <2>5. \A i \in 1..(n - k) : v[i] = cell[s[(k + i - 1) + 1]].data
    BY <2>1, <2>3, <2>4
  <2>6. \A i \in 1..(n - k) : w[i] = v[i]
    BY <1>b, <2>2, <2>3, <2>4, <2>5
  <2> QED
    BY <2>1, <2>2, <2>3, <2>6, SeqEqual DEF v, w
<1>5. /\ Contents # << >> /\ Contents \in Seq(Data) /\ Len(Contents) = n
      /\ Contents' = Tail(Contents)
      /\ returned' = Whole(Head(Contents))
  <2> DEFINE v == View(s, 1)
             w == View(t, 1)'
  <2>0. 1 \in 1..(n + 1) /\ 1 # n + 1 /\ 1 \in 1..(list'.num_entries + 1) /\ 1 \in 1..n
    BY <1>a
  <2>1. Contents = v /\ Contents' = w
    BY <1>2, Seen, SeenNext
  <2>2. v # << >>
    BY <1>2, <2>0, NothingLeft
  <2>3. /\ v \in Seq(Data) /\ Len(v) = n - 1 + 1
        /\ \A i \in 1..(n - 1 + 1) : v[i] = cell[s[1 + i - 1]].data
    BY <1>2, <2>0, Viewed
  <2>4. /\ w \in Seq(Data) /\ Len(w) = list'.num_entries - 1 + 1
        /\ \A i \in 1..(list'.num_entries - 1 + 1) : w[i] = cell'[t[1 + i - 1]].data
    BY <1>2, <2>0, ViewedNext
  <2> HIDE DEF v, w
  <2>5. Len(v) = n /\ \A i \in 1..n : v[i] = cell[s[i]].data
    BY <1>a, <2>3
  <2>6. Len(w) = n - 1 /\ \A i \in 1..(n - 1) : w[i] = cell'[t[i]].data
    BY <1>a, <2>4
  <2>7. \A i \in 1..(n - 1) : w[i] = v[i + 1]
    BY <1>3, <1>b, <2>5, <2>6
  <2>8. w = Tail(v)
    BY <2>2, <2>3, <2>4, <2>5, <2>6, <2>7, IsCutFirst
  <2>9. v[1] = cell[c].data /\ Head(v) = v[1]
    BY <1>1, <2>0, <2>5
  <2> QED
    BY <1>2, <2>1, <2>2, <2>3, <2>5, <2>8, <2>9
<1>6. /\ Rest' = IF Rest = Contents THEN << >> ELSE Rest
      /\ lost' = (lost \/ Rest = Contents)
  <2>1. CASE lost
    <3>1. lost' /\ Rest = << >> /\ Rest' = << >>
      BY <1>2, <2>1, RestLost
    <3> QED
      BY <1>2, <1>5, <2>1, <3>1, Zenon
  <2>2. CASE ~lost
    <3>1. PICK k \in 1..(n + 1) : list.each_ptr = Place(s, k) /\ Rest = View(s, k)
      BY <1>2, <2>2, Seen
    <3>2. 1 \in 1..(n + 1) /\ 1 # n + 1 /\ Place(s, 1) = c
      BY <1>1, <1>a DEF Place
    <3>3. list.each_ptr = c <=> k = 1
      BY <1>2, <3>1, <3>2, PlaceUnique
    <3>4. Rest = Contents <=> k = 1
      <4>1. Contents = View(s, 1)
        BY <1>2, Seen
      <4>2. Len(Rest) = n - k + 1
        BY <1>2, <3>1, Viewed
      <4>3. k # 1 => Len(Rest) # Len(Contents)
        BY <1>a, <1>5, <4>2
      <4> QED
        BY <3>1, <4>1, <4>3
    <3>5. lost' = (lost \/ Rest = Contents)
      BY <1>2, <3>3, <3>4, Zenon
    <3>6. CASE lost'
      <4>1. Rest = Contents /\ Rest' = << >>
        BY <2>2, <3>5, <3>6, RestLost, Zenon
      <4> QED
        BY <3>5, <4>1
    <3>7. CASE ~lost'
      <4>1. PICK m \in 1..(list'.num_entries + 1) :
              list'.each_ptr = Place(t, m)' /\ Rest' = View(t, m)'
        BY <1>2, <3>7, SeenNext
      <4>2. k # 1 /\ Rest # Contents
        BY <3>4, <3>5, <3>7, Zenon
      <4>3. PICK j : j = k - 1
        OBVIOUS
      <4>4. /\ j \in 1..n /\ k = j + 1 /\ j \in 1..(list'.num_entries + 1)
            /\ (j = list'.num_entries + 1 <=> k = n + 1)
            /\ (k # n + 1 => j \in 1..(n - 1))
        BY <1>a, <4>2, <4>3
      <4>5. Place(t, j)' = Place(s, k)
        BY <1>3, <4>4 DEF Place
      <4>6. m = j
        BY <1>2, <3>1, <4>1, <4>4, <4>5, PlaceUniqueNext
      <4> QED
        BY <1>4, <3>1, <3>5, <4>1, <4>2, <4>4, <4>6
    <3> QED
      BY <3>6, <3>7
  <2> QED
    BY <2>1, <2>2
<1> QED
  BY <1>5, <1>6

(* The chain is the same when only the iterator moves.                       *)
LEMMA StillChain ==
  ASSUME list # NULL, list' # NULL, cell' = cell,
         list'.num_entries = list.num_entries, list'.entries = list.entries,
         list'.tail = list.tail, NEW s, IsChain(s)
  PROVE  /\ IsChain(s)'
         /\ \A k : View(s, k)' = View(s, k) /\ Place(s, k)' = Place(s, k)
<1>1. IsChain(s)'
  BY DEF IsChain
<1>2. \A k : View(s, k)' = View(s, k) /\ Place(s, k)' = Place(s, k)
  BY DEF View, Place
<1> QED
  BY <1>1, <1>2

LEMMA StillSeen ==
  ASSUME LInv, LInv', list # NULL, list' # NULL, cell' = cell,
         list'.num_entries = list.num_entries, list'.entries = list.entries,
         list'.tail = list.tail
  PROVE  Contents' = Contents
<1>1. PICK s : IsChain(s)
  BY DEF LInv
<1>2. IsChain(s)' /\ View(s, 1)' = View(s, 1)
  BY <1>1, StillChain
<1> QED
  BY <1>1, <1>2, Seen, SeenNext

LEMMA MovedTo ==
  ASSUME LInv, LInv', list # NULL, list' # NULL, cell' = cell,
         list'.num_entries = list.num_entries, list'.entries = list.entries,
         list'.tail = list.tail, ~lost', NEW s, IsChain(s),
         NEW k \in 1..(list.num_entries + 1), list'.each_ptr = Place(s, k)
  PROVE  Rest' = View(s, k)
<1>1. IsChain(s)' /\ \A j : View(s, j)' = View(s, j) /\ Place(s, j)' = Place(s, j)
  BY StillChain
<1>2. PICK m \in 1..(list'.num_entries + 1) :
        list'.each_ptr = Place(s, m)' /\ Rest' = View(s, m)'
  BY <1>1, SeenNext
<1>3. m = k
  BY <1>1, <1>2, PlaceUniqueNext
<1> QED
  BY <1>1, <1>2, <1>3

LEMMA Unseen ==
  ASSUME LInv, UNCHANGED <<list, cell, lost>>
  PROVE  Contents' = Contents /\ Rest' = Rest
<1>0. list' = list /\ cell' = cell /\ lost' = lost
  OBVIOUS
<1>1. LInv'
  BY SameList
<1>2. CASE list = NULL
  BY <1>2 DEF Contents, Rest
<1>3. CASE list # NULL
  <2>1. Contents' = Contents
    BY <1>1, <1>3, StillSeen
  <2>2. CASE lost
    <3>1. lost'
      BY <1>0, <2>2, Zenon
    <3> QED
      BY <2>1, <2>2, <3>1, RestLost
  <2>3. CASE ~lost
    <3>1. PICK s : IsChain(s)
      BY <1>3 DEF LInv
    <3>2. PICK k \in 1..(list.num_entries + 1) :
            list.each_ptr = Place(s, k) /\ Rest = View(s, k)
      BY <1>3, <2>3, <3>1, Seen
    <3> QED
      <4>1. ~lost'
        BY <1>0, <2>3
      <4> QED
        BY <1>0, <1>1, <1>3, <2>1, <3>1, <3>2, <4>1, MovedTo
  <2> QED
    BY <2>1, <2>2, <2>3
<1> QED
  BY <1>2, <1>3

(* The data in the list, one by one.                                         *)
LEMMA SeenData ==
  ASSUME LInv, list # NULL, NEW s, IsChain(s)
  PROVE  /\ Contents \in Seq(Data) /\ Len(Contents) = list.num_entries
         /\ list.num_entries \in Nat
         /\ Contents = << >> <=> list.num_entries = 0
         /\ \A i \in 1..list.num_entries : Contents[i] = cell[s[i]].data
<1> DEFINE n == list.num_entries
           v == View(s, 1)
<1>1. n \in Nat /\ Contents = v
  BY Seen
<1>2. 1 \in 1..(n + 1)
  BY <1>1
<1>3. /\ v \in Seq(Data) /\ Len(v) = n - 1 + 1
      /\ \A i \in 1..(n - 1 + 1) : v[i] = cell[s[1 + i - 1]].data
  BY <1>2, Viewed
<1>4. v = << >> <=> 1 = n + 1
  BY <1>2, NothingLeft
<1> HIDE DEF v, n
<1>5. Len(v) = n /\ (v = << >> <=> n = 0) /\ \A i \in 1..n : v[i] = cell[s[i]].data
  BY <1>1, <1>3, <1>4
<1> QED
  BY <1>1, <1>3, <1>5 DEF n

LEMMA NoneSeen ==
  ASSUME LInv, list # NULL, list.num_entries = 0
  PROVE  Contents = << >>
<1>1. PICK s : IsChain(s)
  BY DEF LInv
<1> QED
  BY <1>1, SeenData

LEMMA MissingRefines ==
  ASSUME LInv, AsBefore, Contents = << >>
  PROVE  Deq!Next
<1>1. Contents' = Contents /\ Rest' = Rest /\ lost' = lost /\ returned' = None
  BY Unseen DEF AsBefore
<1>2. Deq!Missing
  BY <1>1 DEF Deq!Missing, Deq!None, Deq!Item, None, Item
<1>3. Deq!Look
  BY <1>1, <1>2 DEF Deq!Look, Rest
<1> QED
  BY <1>3 DEF Deq!Next

LEMMA RefusedRefines ==
  ASSUME LInv, Refused
  PROVE  Deq!Next
<1>1. Contents' = Contents /\ Rest' = Rest /\ lost' = lost /\ returned' = Added(0)
  BY Unseen DEF Refused
<1>2. Deq!NotAdded
  BY <1>1 DEF Deq!NotAdded, Deq!Added, Added, Rest
<1> QED
  BY <1>2 DEF Deq!Next

LEMMA PushRefines ==
  ASSUME LInv, NEW d \in Data, cfulist_push_data(d)
  PROVE  Deq!Next
<1>1. list # NULL /\ LInv' /\ (Refused \/ AddsLast(d))
  BY PushStep DEF cfulist_push_data
<1>2. CASE AddsLast(d)
  <2>1. Deq!Push(d)
    BY <1>1, <1>2, PushSeen DEF Deq!Push, Deq!Added, Added, Rest
  <2> QED
    BY <2>1 DEF Deq!Next
<1> QED
  BY <1>1, <1>2, RefusedRefines

LEMMA UnshiftRefines ==
  ASSUME LInv, NEW d \in Data, cfulist_unshift_data(d)
  PROVE  Deq!Next
<1>1. list # NULL /\ LInv' /\ (Refused \/ AddsFirst(d))
  BY UnshiftStep DEF cfulist_unshift_data
<1>2. CASE AddsFirst(d)
  <2>1. Deq!Unshift(d)
    BY <1>1, <1>2, UnshiftSeen DEF Deq!Unshift, Deq!Added, Added, Rest
  <2> QED
    BY <2>1 DEF Deq!Next
<1> QED
  BY <1>1, <1>2, RefusedRefines

LEMMA PopRefines ==
  ASSUME LInv, cfulist_pop_data
  PROVE  Deq!Next
<1>1. /\ list # NULL /\ LInv'
      /\ (AsBefore /\ list.num_entries = 0) \/ RemovesLast
  BY PopStep DEF cfulist_pop_data
<1>2. CASE RemovesLast
  <2>1. Deq!Pop
    BY <1>1, <1>2, PopSeen
       DEF Deq!Pop, Deq!Front, Deq!Last, Deq!Whole, Deq!Item, Whole, Item, Rest
  <2> QED
    BY <2>1 DEF Deq!Next
<1> QED
  BY <1>1, <1>2, NoneSeen, MissingRefines

LEMMA ShiftRefines ==
  ASSUME LInv, cfulist_shift_data
  PROVE  Deq!Next
<1>1. /\ list # NULL /\ LInv'
      /\ (AsBefore /\ list.num_entries = 0) \/ RemovesFirst
  BY ShiftStep DEF cfulist_shift_data
<1>2. CASE RemovesFirst
  <2>1. Deq!Shift
    BY <1>1, <1>2, ShiftSeen
       DEF Deq!Shift, Deq!Whole, Deq!Item, Whole, Item, Rest
  <2> QED
    BY <2>1 DEF Deq!Next
<1> QED
  BY <1>1, <1>2, NoneSeen, MissingRefines

LEMMA NewRefines ==
  ASSUME LInv, cfulist_new
  PROVE  Deq!Next
<1>1. /\ list = NULL /\ list' = NoEntries /\ returned' = None
      /\ UNCHANGED <<cell, lost>>
  BY DEF cfulist_new
<1>2. LInv' /\ list' # NULL
  BY NewList
<1>3. list'.entries = NULL /\ list'.each_ptr = NULL
  BY <1>1 DEF NoEntries
<1>4. Contents = << >> /\ Contents' = << >> /\ Rest = << >> /\ Rest' = << >>
  BY <1>1, <1>3, NothingFromNullNext DEF Contents, Rest
<1>5. Deq!Missing
  BY <1>1, <1>4 DEF Deq!Missing, Deq!None, Deq!Item, None, Item
<1>6. Deq!Look
  BY <1>1, <1>4, <1>5 DEF Deq!Look, Rest
<1> QED
  BY <1>6 DEF Deq!Next

LEMMA DestroyRefines ==
  ASSUME cfulist_destroy
  PROVE  Deq!Next
<1>1. list' = NULL /\ lost' = FALSE /\ returned' = returned
  BY DEF cfulist_destroy
<1>2. Contents' = << >> /\ Rest' = << >>
  BY <1>1 DEF Contents, Rest
<1>3. Deq!Destroy
  BY <1>1, <1>2 DEF Deq!Destroy, Rest
<1> QED
  BY <1>3 DEF Deq!Next

(* The functions that only look.                                             *)
LEMMA LookRefines ==
  ASSUME LInv, list # NULL, NEW r, Looks(r),
         \/ Contents = << >> /\ r = None
         \/ /\ Contents # << >>
            /\ r \in {Whole(Head(Contents)), Whole(Contents[Len(Contents)])}
         \/ r = Walked(Len(Contents))
  PROVE  Deq!Next
<1>1. returned' = r /\ UNCHANGED <<list, cell, lost>>
  BY DEF Looks
<1>2. Contents' = Contents /\ Rest' = Rest /\ lost' = lost
  BY <1>1, Unseen
<1>3. CASE Contents = << >> /\ r = None
  BY <1>1, <1>3, MissingRefines DEF AsBefore
<1>4. CASE Contents # << >> /\ r = Whole(Head(Contents))
  <2>1. Deq!First
    BY <1>1, <1>4 DEF Deq!First, Deq!Whole, Deq!Item, Whole, Item
  <2> QED
    BY <1>2, <2>1 DEF Deq!Look, Deq!Next, Rest
<1>5. CASE Contents # << >> /\ r = Whole(Contents[Len(Contents)])
  <2>1. Deq!End
    BY <1>1, <1>5 DEF Deq!End, Deq!Last, Deq!Whole, Deq!Item, Whole, Item
  <2> QED
    BY <1>2, <2>1 DEF Deq!Look, Deq!Next, Rest
<1>6. CASE r = Walked(Len(Contents))
  <2>1. Deq!WalkAll
    BY <1>1, <1>6 DEF Deq!WalkAll, Deq!Walked, Deq!Item, Item, Walked
  <2> QED
    BY <1>2, <2>1 DEF Deq!Look, Deq!Next, Rest
<1> QED
  BY <1>3, <1>4, <1>5, <1>6

(* Those that are asked for a number.                                        *)
LEMMA NumberedRefines ==
  ASSUME LInv, NEW m \in Index, cfulist_nth_data(m) \/ cfulist_foreach(m)
  PROVE  Deq!Next
<1>1. PICK r : Looks(r)
  BY DEF cfulist_nth_data, cfulist_foreach
<1>2. list # NULL /\ returned' = r /\ UNCHANGED <<list, cell, lost>>
  BY <1>1 DEF Looks
<1>3. PICK s : IsChain(s)
  BY <1>2 DEF LInv
<1>4. /\ Contents' = Contents /\ Rest' = Rest /\ lost' = lost
      /\ Contents \in Seq(Data) /\ Len(Contents) \in Nat /\ m \in Nat
  <2>1. Cardinality(Cell) \in Nat
    BY CellAssumption, FS_CardinalityType
  <2> QED
    BY <1>2, <1>3, <2>1, Unseen, SeenData DEF Index
<1>5. CASE cfulist_nth_data(m)
  <2>1. ASSUME m < Len(Contents) PROVE Deq!Nth(m)
    <3>1. returned' = Asked(m, Item(1, Contents[m + 1], Contents[1]))
      BY <1>5, <2>1 DEF cfulist_nth_data, Looks
    <3>2. Contents[1] \in Data
      BY <1>4, <2>1
    <3> QED
      BY <2>1, <3>1, <3>2 DEF Deq!Nth, Deq!Asked, Deq!Item, Asked, Item
  <2>2. ASSUME ~(m < Len(Contents)) PROVE Deq!Nth(m)
    <3>1. returned' = Asked(m, None) /\ m >= Len(Contents)
      BY <1>4, <1>5, <2>2 DEF cfulist_nth_data, Looks
    <3> QED
      BY <3>1 DEF Deq!Nth, Deq!Asked, Deq!Item, Deq!None, Asked, Item, None
  <2>3. Deq!Nth(m)
    BY <2>1, <2>2
  <2> QED
    BY <1>4, <2>3 DEF Deq!Look, Deq!Next, Rest
<1>6. CASE cfulist_foreach(m)
  <2>1. Deq!Walk(m)
    BY <1>6 DEF cfulist_foreach, Looks, Deq!Walk, Deq!Walked, Deq!Asked, Deq!Item,
                Asked, Item, Walked
  <2> QED
    BY <1>4, <2>1 DEF Deq!Look, Deq!Next, Rest
<1> QED
  BY <1>5, <1>6

LEMMA LooksRefine ==
  ASSUME LInv,
         \/ cfulist_first_data \/ cfulist_last_data
         \/ cfulist_map \/ cfulist_join
  PROVE  Deq!Next
<1>1. list # NULL
  BY DEF cfulist_first_data, cfulist_last_data, cfulist_map, cfulist_join, Looks
<1>2. PICK s : IsChain(s)
  BY <1>1 DEF LInv
<1> DEFINE n == list.num_entries
<1>3. /\ n \in Nat /\ Len(Contents) = n /\ Contents \in Seq(Data)
      /\ Contents = << >> <=> n = 0
      /\ \A i \in 1..n : Contents[i] = cell[s[i]].data
  BY <1>1, <1>2, SeenData
<1>4. /\ list.entries = IF n = 0 THEN NULL ELSE s[1]
      /\ list.tail = IF n = 0 THEN NULL ELSE s[n]
      /\ \A i \in 1..n : s[i] # NULL
  BY <1>2, CellAssumption DEF IsChain
<1>5. DOMAIN Contents = 1..n /\ (n # 0 => Head(Contents) = Contents[1])
  BY <1>3, LenProperties
<1>6. CASE cfulist_first_data
  <2>1. Looks(DataAt(list.entries))
    BY <1>6 DEF cfulist_first_data
  <2>2. CASE n = 0
    BY <1>1, <1>3, <1>4, <2>1, <2>2, LookRefines DEF DataAt
  <2>3. CASE n # 0
    <3>1. 1 \in 1..n
      BY <1>3, <2>3
    <3>2. DataAt(list.entries) = Whole(Head(Contents))
      BY <1>3, <1>4, <1>5, <2>3, <3>1 DEF DataAt
    <3> QED
      BY <1>1, <1>3, <2>1, <2>3, <3>2, LookRefines
  <2> QED
    BY <2>2, <2>3
<1>7. CASE cfulist_last_data
  <2>1. Looks(DataAt(list.tail))
    BY <1>7 DEF cfulist_last_data
  <2>2. CASE n = 0
    BY <1>1, <1>3, <1>4, <2>1, <2>2, LookRefines DEF DataAt
  <2>3. CASE n # 0
    <3>1. n \in 1..n
      BY <1>3, <2>3
    <3>2. DataAt(list.tail) = Whole(Contents[Len(Contents)])
      BY <1>3, <1>4, <2>3, <3>1 DEF DataAt
    <3> QED
      BY <1>1, <1>3, <2>1, <2>3, <3>2, LookRefines
  <2> QED
    BY <2>2, <2>3
<1>8. CASE cfulist_map \/ cfulist_join
  <2>1. Looks(Walked(Len(Contents)))
    BY <1>8 DEF cfulist_map, cfulist_join
  <2> QED
    BY <1>1, <2>1, LookRefines
<1> QED
  BY <1>6, <1>7, <1>8

(* The iteration.                                                            *)
LEMMA IterationRefines ==
  ASSUME LInv, cfulist_next_data \/ cfulist_each_data \/ cfulist_reset_each
  PROVE  Deq!Next
<1>0. LInv' /\ list # NULL /\ cell' = cell
  BY NextStep DEF cfulist_next_data, cfulist_each_data, cfulist_reset_each
<1>1. PICK s : IsChain(s)
  BY <1>0 DEF LInv
<1> DEFINE n == list.num_entries
<1>2. n \in Nat /\ list \in ListType
  BY <1>0 DEF LInv, ListType
<1>3. /\ Contents \in Seq(Data) /\ Len(Contents) = n
      /\ Contents = << >> <=> n = 0
      /\ \A i \in 1..n : Contents[i] = cell[s[i]].data
      /\ Contents = View(s, 1) /\ list.entries = Place(s, 1)
  BY <1>0, <1>1, Seen, SeenData
<1>4. ASSUME NEW e \in Cell \cup {NULL}, list' = [list EXCEPT !.each_ptr = e]
      PROVE  /\ list' # NULL /\ list'.num_entries = list.num_entries
             /\ list'.entries = list.entries /\ list'.tail = list.tail
             /\ list'.each_ptr = e
  BY <1>2, <1>4, CellAssumption DEF ListType
<1>5. \A k \in 1..(n + 1) : Place(s, k) \in Cell \cup {NULL}
  <2>1. \A k \in 1..(n + 1) : k = n + 1 \/ k \in 1..n
    BY <1>2
  <2> QED
    BY <1>1, <2>1 DEF Place, IsChain
<1>6. ASSUME NEW k \in 1..(n + 1), list' = [list EXCEPT !.each_ptr = Place(s, k)]
      PROVE  Contents' = Contents /\ (~lost' => Rest' = View(s, k))
  <2>1. /\ list' # NULL /\ list'.num_entries = list.num_entries
        /\ list'.entries = list.entries /\ list'.tail = list.tail
        /\ list'.each_ptr = Place(s, k)
    BY <1>4, <1>5, <1>6
  <2> QED
    BY <1>0, <1>1, <2>1, StillSeen, MovedTo
<1>7. ASSUME NEW k \in 1..(n + 1), NextFrom(Place(s, k)), ~lost'
      PROVE  /\ Contents' = Contents
             /\ IF View(s, k) = << >> THEN returned' = Given(None) /\ Rest' = << >>
                ELSE /\ returned' = Given(Whole(Head(View(s, k))))
                     /\ Rest' = Tail(View(s, k))
  <2>1. View(s, k) = << >> <=> k = n + 1
    BY <1>0, <1>1, NothingLeft
  <2>2. CASE k = n + 1
    <3>1. Place(s, k) = NULL
      BY <2>2 DEF Place
    <3>2. returned' = Given(None) /\ list' = [list EXCEPT !.each_ptr = Place(s, k)]
      BY <1>7, <3>1 DEF NextFrom, Returns
    <3> QED
      BY <1>6, <1>7, <2>1, <2>2, <3>2
  <2>3. CASE k # n + 1
    <3>1. k \in 1..n /\ k + 1 \in 1..(n + 1) /\ Place(s, k) = s[k]
      BY <1>2, <2>3 DEF Place
    <3>2. s[k] \in Cell /\ s[k] # NULL /\ cell[s[k]].next = Place(s, k + 1)
      <4>1. k + 1 = n + 1 <=> k = n
        BY <1>2, <3>1
      <4> QED
        BY <1>1, <3>1, <4>1, CellAssumption DEF Place, IsChain
    <3>3. /\ returned' = Given(Whole(cell[s[k]].data))
          /\ list' = [list EXCEPT !.each_ptr = Place(s, k + 1)]
      BY <1>7, <3>1, <3>2 DEF NextFrom, Returns
    <3>4. Contents' = Contents /\ Rest' = View(s, k + 1)
      BY <1>6, <1>7, <3>1, <3>3
    <3> DEFINE v == View(s, k)
               w == View(s, k + 1)
    <3>5. /\ v \in Seq(Data) /\ Len(v) = n - k + 1
          /\ \A i \in 1..(n - k + 1) : v[i] = cell[s[k + i - 1]].data
      BY <1>0, <1>1, Viewed
    <3>6. /\ w \in Seq(Data) /\ Len(w) = n - (k + 1) + 1
          /\ \A i \in 1..(n - (k + 1) + 1) : w[i] = cell[s[(k + 1) + i - 1]].data
      BY <1>0, <1>1, <3>1, Viewed
    <3>7. v # << >>
      BY <2>1, <2>3
    <3> HIDE DEF v, w
    <3>8. /\ n - (k + 1) + 1 = n - k /\ k + 1 - 1 = k /\ 1 \in 1..(n - k + 1)
          /\ \A i \in 1..(n - k) : /\ i + 1 \in 1..(n - k + 1)
                                   /\ k + (i + 1) - 1 = (k + 1) + i - 1
      BY <1>2, <3>1
    <3>9. \A i \in 1..(n - k) : w[i] = v[i + 1]
      BY <3>5, <3>6, <3>8
    <3>10. Len(w) = Len(v) - 1
      BY <1>2, <3>1, <3>5, <3>6
    <3>11. w = Tail(v)
      BY <3>5, <3>6, <3>7, <3>8, <3>9, <3>10, IsCutFirst
    <3>12. Head(v) = cell[s[k]].data
      <4>1. v[1] = cell[s[k]].data
        BY <3>5, <3>8
      <4> QED
        BY <3>5, <3>7, <4>1
    <3> QED
      BY <2>1, <2>3, <3>3, <3>4, <3>11, <3>12 DEF v, w
  <2> QED
    BY <2>2, <2>3
<1>8. 1 \in 1..(n + 1)
  BY <1>2
<1>9. CASE cfulist_reset_each
  <2>1. /\ list' = [list EXCEPT !.each_ptr = list.entries]
        /\ lost' = FALSE /\ returned' = returned
    BY <1>9 DEF cfulist_reset_each
  <2>2. Contents' = Contents /\ Rest' = Contents
    BY <1>3, <1>6, <1>8, <2>1
  <2>3. Deq!Reset
    BY <2>1, <2>2 DEF Deq!Reset, Rest
  <2> QED
    BY <2>3 DEF Deq!Next
<1>10. CASE cfulist_each_data
  <2>1. NextFrom(list.entries) /\ lost' = FALSE
    BY <1>10 DEF cfulist_each_data
  <2>2. /\ Contents' = Contents
        /\ IF Contents = << >> THEN returned' = Given(None) /\ Rest' = << >>
           ELSE returned' = Given(Whole(Head(Contents))) /\ Rest' = Tail(Contents)
    BY <1>3, <1>7, <1>8, <2>1
  <2>3. Deq!Each
    BY <2>1, <2>2
       DEF Deq!Each, Deq!Gives, Deq!Given, Deq!None, Deq!Whole, Deq!Item,
           Given, None, Whole, Item, Rest
  <2> QED
    BY <2>3 DEF Deq!Next
<1>11. CASE cfulist_next_data /\ ~lost
  <2>1. NextFrom(list.each_ptr) /\ lost' = lost
    BY <1>11 DEF cfulist_next_data
  <2>2. PICK k \in 1..(n + 1) : list.each_ptr = Place(s, k) /\ Rest = View(s, k)
    BY <1>0, <1>1, <1>11, Seen
  <2>3. /\ Contents' = Contents
        /\ IF Rest = << >> THEN returned' = Given(None) /\ Rest' = << >>
           ELSE returned' = Given(Whole(Head(Rest))) /\ Rest' = Tail(Rest)
    BY <1>7, <1>11, <2>1, <2>2
  <2>4. Deq!Following
    BY <1>11, <2>1, <2>3
       DEF Deq!Following, Deq!Gives, Deq!Given, Deq!None, Deq!Whole, Deq!Item,
           Given, None, Whole, Item, Rest
  <2> QED
    BY <2>4 DEF Deq!Next
<1>12. CASE cfulist_next_data /\ lost
  <2>1. NextLost /\ lost' = lost
    BY <1>12 DEF cfulist_next_data
  <2>2. PICK e \in Cell \cup {NULL}, r \in Items :
          returned' = Given(r) /\ list' = [list EXCEPT !.each_ptr = e]
    BY <2>1 DEF NextLost, Returns
  <2>3. Contents' = Contents
    BY <1>0, <1>4, <2>2, StillSeen
  <2>4. Rest' = << >>
    BY <1>12, <2>1, RestLost
  <2>5. Deq!Following
    BY <1>12, <2>1, <2>2, <2>3, <2>4 
       DEF Deq!Following, Deq!GivesAnything, Deq!Given, Deq!Items, Given, Items, Rest
  <2> QED
    BY <2>5 DEF Deq!Next
<1> QED
  BY <1>9, <1>10, <1>11, <1>12

-----------------------------------------------------------------------------
(* The clients.  What a client that was signalled will return is its own.    *)
Asking(c) == at[c] \in {"asked", "wait"} /\ entry[c] \in SlotType /\ ~entry[c].woken
Serving == worker \in {"serve", "fn"}

QType ==
  /\ at \in [Client -> {"idle", "asked", "wait", "relock", "done"}]
  /\ answer \in [Client -> Client \cup {NULL}]
  /\ entry \in [Client -> SlotType \cup {NULL}]
  /\ early \subseteq Client
  /\ Running => list # NULL
  /\ \A c \in Client : at[c] \in {"asked", "wait", "relock"} => entry[c] \in SlotType

AnswerInv ==
  \A c \in Client :
    /\ at[c] \in {"asked", "wait"} /\ entry[c].woken => entry[c].out = c
    /\ at[c] = "relock" /\ c \notin early => entry[c].out = c
    /\ at[c] = "done" /\ c \notin early => answer[c] = c

(* Until a client is woken for no reason, the clients whose requests are     *)
(* in the list or with the worker are waiting, and each request is in one    *)
(* place only.                                                               *)
Listed(c) == \E x \in Used : cell[x].data = c
OnePlace ==
  /\ \A x \in Used : cell[x].data \in Client /\ Asking(cell[x].data)
  /\ \A x, y \in Used : cell[x].data = cell[y].data => x = y
  /\ Serving => request \in Client /\ Asking(request) /\ ~Listed(request)

QueueInv == early = {} => tq # "corrupt" /\ (Running => OnePlace)

QInv == LInv /\ QType /\ AnswerInv /\ QueueInv

(* A step that changes one client.                                           *)
LEMMA AskStep ==
  ASSUME QInv, NEW c \in Client, Ask(c)
  PROVE  QInv'
<1> USE CellAssumption, ClientAssumption
<1>1. /\ tq = "up" /\ at[c] \in {"idle", "done"} /\ cfulist_push_data(c)
      /\ entry' = [entry EXCEPT ![c] = Fresh(c)]
      /\ answer' = [answer EXCEPT ![c] = NULL]
      /\ at' = [at EXCEPT ![c] = "asked"]
      /\ UNCHANGED <<tq, worker, request, early>>
  BY DEF Ask, Reaches
<1>2. LInv' /\ list' # NULL /\ Adds(c)
  BY <1>1, PushStep DEF QInv
<1>3. Fresh(c) \in SlotType /\ ~Fresh(c).woken
  BY DEF Fresh, SlotType
<1>4. \A b \in Client : /\ at'[b] = IF b = c THEN "asked" ELSE at[b]
                        /\ entry'[b] = IF b = c THEN Fresh(c) ELSE entry[b]
                        /\ answer'[b] = IF b = c THEN NULL ELSE answer[b]
  BY <1>1 DEF QInv, QType
<1>5. QType'
  <2>1. /\ at' \in [Client -> {"idle", "asked", "wait", "relock", "done"}]
        /\ answer' \in [Client -> Client \cup {NULL}]
        /\ entry' \in [Client -> SlotType \cup {NULL}]
    BY <1>1, <1>3 DEF QInv, QType
  <2>2. \A b \in Client :
          at'[b] \in {"asked", "wait", "relock"} => entry'[b] \in SlotType
    BY <1>3, <1>4 DEF QInv, QType
  <2> QED
    BY <1>1, <1>2, <2>1, <2>2 DEF QInv, QType
<1>6. AnswerInv'
  BY <1>1, <1>3, <1>4 DEF QInv, AnswerInv
<1>7. QueueInv'
  <2> SUFFICES ASSUME early = {} PROVE OnePlace'
    BY <1>1 DEF QInv, QueueInv
  <2>1. OnePlace /\ ~Asking(c)
    BY <1>1 DEF QInv, QueueInv, Running, Asking
  <2>2. Asking(c)' /\ \A b \in Client : b # c => (Asking(b)' <=> Asking(b))
    BY <1>3, <1>4 DEF Asking
  <2>3. CASE UNCHANGED cell
    BY <1>1, <2>1, <2>2, <2>3 DEF OnePlace, Listed, Used, Serving
  <2>4. CASE ~UNCHANGED cell
    <3>1. PICK x \in Cell \ Used :
            /\ Used' = Used \cup {x} /\ cell'[x].data = c
            /\ \A y \in Used : cell'[y].data = cell[y].data
      BY <1>2, <2>4 DEF Adds
    <3>2. ASSUME NEW y \in Used', NEW b, b = cell'[y].data
          PROVE  b \in Client /\ Asking(b)'
      <4>1. CASE y = x
        BY <2>2, <3>1, <3>2, <4>1
      <4>2. CASE y # x
        <5>1. y \in Used /\ b = cell[y].data
          BY <3>1, <3>2, <4>2
        <5>2. b \in Client /\ Asking(b)
          BY <2>1, <5>1 DEF OnePlace
        <5> QED
          BY <2>1, <2>2, <5>2
      <4> QED
        BY <4>1, <4>2
    <3>3. \A y, z \in Used' : cell'[y].data = cell'[z].data => y = z
      BY <2>1, <3>1 DEF OnePlace
    <3>4. Serving' => request' \in Client /\ Asking(request)' /\ ~Listed(request)'
      BY <1>1, <2>1, <2>2, <3>1 DEF OnePlace, Listed, Serving
    <3> QED
      BY <3>2, <3>3, <3>4 DEF OnePlace, Asking
  <2> QED
    BY <2>3, <2>4
<1> QED
  BY <1>2, <1>5, <1>6, <1>7 DEF QInv

LEMMA WaitStep ==
  ASSUME QInv, NEW c \in Client, Wait(c)
  PROVE  QInv'
<1> USE CellAssumption, ClientAssumption
<1>1. /\ at[c] = "asked" /\ at' = [at EXCEPT ![c] = "wait"]
      /\ entry' = [entry EXCEPT ![c].held = NULL]
      /\ UNCHANGED <<list, cell, lost, tq, worker, request, answer, early>>
  BY DEF Wait, Reaches, listVars, queueVars
<1>2. entry[c] \in SlotType
  BY <1>1 DEF QInv, QType
<1>3. /\ [entry[c] EXCEPT !.held = NULL] \in SlotType
      /\ [entry[c] EXCEPT !.held = NULL].woken = entry[c].woken
      /\ [entry[c] EXCEPT !.held = NULL].out = entry[c].out
  BY <1>2 DEF SlotType
<1>4. \A b \in Client :
        /\ at'[b] = IF b = c THEN "wait" ELSE at[b]
        /\ entry'[b] = IF b = c THEN [entry[c] EXCEPT !.held = NULL] ELSE entry[b]
  BY <1>1 DEF QInv, QType
<1>5. LInv' /\ Used' = Used
  BY <1>1, SameList DEF QInv
<1>6. QType'
  <2>1. /\ at' \in [Client -> {"idle", "asked", "wait", "relock", "done"}]
        /\ entry' \in [Client -> SlotType \cup {NULL}]
    BY <1>1, <1>3 DEF QInv, QType
  <2>2. \A b \in Client :
          at'[b] \in {"asked", "wait", "relock"} => entry'[b] \in SlotType
    BY <1>3, <1>4 DEF QInv, QType
  <2> QED
    BY <1>1, <2>1, <2>2 DEF QInv, QType, Running
<1>7. \A b \in Client : Asking(b)' <=> Asking(b)
  BY <1>1, <1>2, <1>3, <1>4 DEF Asking
<1>8. AnswerInv'
  BY <1>1, <1>3, <1>4 DEF QInv, AnswerInv
<1>9. QueueInv'
  BY <1>1, <1>5, <1>7
     DEF QInv, QueueInv, Running, OnePlace, Listed, Serving, Asking
<1> QED
  BY <1>5, <1>6, <1>8, <1>9 DEF QInv

(* A client wakes up because it was signalled, or for no reason.             *)
LEMMA WakeUpStep ==
  ASSUME QInv, NEW c \in Client, WakeUp(c)
  PROVE  QInv'
<1> USE CellAssumption, ClientAssumption
<1>1. /\ at[c] = "wait" /\ at' = [at EXCEPT ![c] = "relock"]
      /\ UNCHANGED <<list, cell, lost, tq, worker, request, entry, answer>>
      /\ \/ entry[c].woken /\ early' = early
         \/ early' = early \cup {c}
  BY DEF WakeUp, Reaches, listVars, queueVars
<1>2. \A b \in Client : at'[b] = IF b = c THEN "relock" ELSE at[b]
  BY <1>1 DEF QInv, QType
<1>3. LInv' /\ Used' = Used
  BY <1>1, SameList DEF QInv
<1>4. QType'
  <2>1. at' \in [Client -> {"idle", "asked", "wait", "relock", "done"}]
    BY <1>1 DEF QInv, QType
  <2>2. \A b \in Client :
          at'[b] \in {"asked", "wait", "relock"} => entry'[b] \in SlotType
    BY <1>1, <1>2 DEF QInv, QType
  <2> QED
    BY <1>1, <2>1, <2>2 DEF QInv, QType, Running
<1>5. AnswerInv'
  BY <1>1, <1>2 DEF QInv, AnswerInv
<1>6. QueueInv'
  <2> SUFFICES ASSUME early' = {} PROVE QueueInv'
    BY DEF QueueInv
  <2>1. early = {} /\ entry[c].woken
    BY <1>1
  <2>2. \A b \in Client : Asking(b) => Asking(b)'
    BY <1>1, <1>2, <2>1 DEF Asking
  <2> QED
    BY <1>1, <1>3, <2>1, <2>2
       DEF QInv, QueueInv, Running, OnePlace, Listed, Serving, Asking
<1> QED
  BY <1>3, <1>4, <1>5, <1>6 DEF QInv

LEMMA ReturnStep ==
  ASSUME QInv, NEW c \in Client, Return(c)
  PROVE  QInv'
<1> USE CellAssumption, ClientAssumption
<1>1. /\ at[c] = "relock" /\ at' = [at EXCEPT ![c] = "done"]
      /\ answer' = [answer EXCEPT ![c] = entry[c].out]
      /\ entry' = [entry EXCEPT ![c] = NULL]
      /\ UNCHANGED <<list, cell, lost, tq, worker, request, early>>
  BY DEF Return, Reaches, listVars, queueVars
<1>2. \A b \in Client : /\ at'[b] = IF b = c THEN "done" ELSE at[b]
                        /\ entry'[b] = IF b = c THEN NULL ELSE entry[b]
                        /\ answer'[b] = IF b = c THEN entry[c].out ELSE answer[b]
  BY <1>1 DEF QInv, QType
<1>3. LInv' /\ Used' = Used
  BY <1>1, SameList DEF QInv
<1>4. QType'
  <2>1. entry[c].out \in Client \cup {NULL}
    BY <1>1 DEF QInv, QType, SlotType
  <2>2. /\ at' \in [Client -> {"idle", "asked", "wait", "relock", "done"}]
        /\ entry' \in [Client -> SlotType \cup {NULL}]
        /\ answer' \in [Client -> Client \cup {NULL}]
    BY <1>1, <2>1 DEF QInv, QType
  <2>3. \A b \in Client :
          at'[b] \in {"asked", "wait", "relock"} => entry'[b] \in SlotType
    BY <1>2 DEF QInv, QType
  <2> QED
    BY <1>1, <2>2, <2>3 DEF QInv, QType, Running
<1>5. AnswerInv'
  BY <1>1, <1>2 DEF QInv, AnswerInv
<1>6. \A b \in Client : Asking(b) => Asking(b)'
  BY <1>1, <1>2 DEF Asking
<1>7. QueueInv'
  BY <1>1, <1>3, <1>6
     DEF QInv, QueueInv, Running, OnePlace, Listed, Serving, Asking
<1> QED
  BY <1>3, <1>4, <1>5, <1>7 DEF QInv

-----------------------------------------------------------------------------
(* Steps of the worker and of the program that leave the clients and the     *)
(* list alone, and take no request.                                          *)
LEMMA QuietStep ==
  ASSUME QInv, UNCHANGED <<list, cell, lost, clientVars, early>>,
         tq' # "corrupt", Running' => Running,
         Serving' => Serving /\ request' = request
  PROVE  QInv'
<1>1. LInv' /\ Used' = Used
  BY SameList DEF QInv
<1>2. UNCHANGED <<at, answer, entry, early, list, cell>>
  BY DEF clientVars
<1>3. QType' /\ AnswerInv'
  BY <1>2 DEF QInv, QType, AnswerInv
<1>4. QueueInv'
  BY <1>1, <1>2 DEF QInv, QueueInv, OnePlace, Listed, Asking
<1> QED
  BY <1>1, <1>3, <1>4 DEF QInv

(* The worker takes the first request off the list.                          *)
LEMMA TakeStep ==
  ASSUME QInv, Take
  PROVE  QInv'
<1>1. /\ Running /\ worker = "lock" /\ tq' = tq
      /\ UNCHANGED <<at, answer, entry, early>>
  BY DEF Take, clientVars
<1>2. CASE list.num_entries = 0
  <2>1. UNCHANGED <<list, cell, lost, clientVars, early>> /\ worker' = "wait"
    BY <1>2 DEF Take, listVars
  <2>2. tq' # "corrupt"
    BY <1>1 DEF Running
  <2> QED
    BY <1>1, <2>1, <2>2, QuietStep DEF Running, Serving
<1>3. CASE list.num_entries # 0
  <2>1. cfulist_shift_data /\ request' = returned'.data /\ worker' = "serve"
    BY <1>3 DEF Take
  <2>2. PICK x \in Cell : Removes(x)
    BY <1>3, <2>1, ShiftStep DEF QInv
  <2>3. LInv' /\ list' # NULL
    BY <2>1, ShiftStep DEF QInv
  <2>4. request' = cell[x].data
    BY <2>1, <2>2 DEF Removes, Whole, Item
  <2>5. QType' /\ AnswerInv'
    BY <1>1, <2>3 DEF QInv, QType, AnswerInv
  <2>6. QueueInv'
    <3> SUFFICES ASSUME early = {} PROVE tq # "corrupt" /\ OnePlace'
      BY <1>1 DEF QueueInv
    <3>1. OnePlace /\ tq # "corrupt"
      BY <1>1 DEF QInv, QueueInv
    <3>2. \A b : Asking(b)' <=> Asking(b)
      BY <1>1 DEF Asking
    <3>3. /\ x \in Used /\ Used' = Used \ {x}
          /\ \A y \in Used' : cell'[y].data = cell[y].data
      BY <2>2 DEF Removes
    <3>4. \A y \in Used' : cell[y].data # cell[x].data
      BY <3>1, <3>3 DEF OnePlace
    <3> QED
      BY <2>4, <3>1, <3>2, <3>3, <3>4 DEF OnePlace, Listed, Asking
  <2> QED
    BY <2>3, <2>5, <2>6 DEF QInv
<1> QED
  BY <1>2, <1>3

LEMMA LockRequestStep ==
  ASSUME QInv, LockRequest
  PROVE  QInv'
<1> USE CellAssumption, ClientAssumption
<1>1. /\ Running /\ worker = "serve" /\ request' = request
      /\ UNCHANGED <<list, cell, lost, at, answer, early>>
  BY DEF LockRequest, listVars
<1>2. LInv' /\ Used' = Used
  BY <1>1, SameList DEF QInv
<1>3. CASE entry[request] = NULL
  <2>1. tq' = "corrupt" /\ entry' = entry
    BY <1>3 DEF LockRequest
  <2>2. early # {}
    BY <1>1, <1>3 DEF QInv, QueueInv, OnePlace, Serving, Asking
  <2>3. QType' /\ AnswerInv' /\ QueueInv'
    BY <1>1, <2>1, <2>2 DEF QInv, QType, AnswerInv, QueueInv, Running
  <2> QED
    BY <1>2, <2>3 DEF QInv
<1>4. CASE entry[request] # NULL
  <2>1. /\ tq' = tq /\ worker' = "fn"
        /\ entry' = [entry EXCEPT ![request].held = Worker]
    BY <1>4 DEF LockRequest
  <2>2. \A b \in Client : b # request => entry'[b] = entry[b]
    BY <2>1 DEF QInv, QType
  <2>3. request \in Client =>
          /\ entry[request] \in SlotType /\ entry'[request] \in SlotType
          /\ entry'[request].woken = entry[request].woken
          /\ entry'[request].out = entry[request].out
    <3> SUFFICES ASSUME request \in Client
                 PROVE  /\ entry[request] \in SlotType
                        /\ entry'[request] \in SlotType
                        /\ entry'[request].woken = entry[request].woken
                        /\ entry'[request].out = entry[request].out
      OBVIOUS
    <3>1. entry[request] \in SlotType
      BY <1>4 DEF QInv, QType
    <3>2. entry'[request] = [entry[request] EXCEPT !.held = Worker]
      BY <2>1 DEF QInv, QType
    <3> QED
      BY <3>1, <3>2 DEF SlotType
  <2>4. entry' \in [Client -> SlotType \cup {NULL}]
    <3>1. \A b \in Client : entry'[b] \in SlotType \cup {NULL}
      BY <2>2, <2>3 DEF QInv, QType
    <3>2. entry' = [b \in Client |-> entry'[b]]
      BY <2>1 DEF QInv, QType
    <3> QED
      BY <3>1, <3>2
  <2>5. \A b \in Client :
          /\ entry[b] \in SlotType => entry'[b] \in SlotType
          /\ at[b] \in {"asked", "wait", "relock"} =>
               entry'[b].woken = entry[b].woken /\ entry'[b].out = entry[b].out
    BY <2>2, <2>3
  <2>6. QType'
    BY <1>1, <2>1, <2>4, <2>5 DEF QInv, QType, Running
  <2>7. AnswerInv'
    BY <1>1, <2>5 DEF QInv, AnswerInv
  <2>8. \A b \in Client : Asking(b) => Asking(b)'
    BY <1>1, <2>5 DEF Asking
  <2>9. QueueInv'
    BY <1>1, <1>2, <2>1, <2>8
       DEF QInv, QueueInv, Running, OnePlace, Listed, Serving, Asking
  <2> QED
    BY <1>2, <2>6, <2>7, <2>9 DEF QInv
<1> QED
  BY <1>3, <1>4

LEMMA ServeStep ==
  ASSUME QInv, Serve
  PROVE  QInv'
<1> USE CellAssumption, ClientAssumption
<1>1. /\ Running /\ worker = "fn" /\ worker' = "lock" /\ tq' = tq
      /\ entry' = [entry EXCEPT ![request] = Served(request)]
      /\ UNCHANGED <<list, cell, lost, at, answer, early>>
  BY DEF Serve, listVars
<1>2. LInv' /\ Used' = Used
  BY <1>1, SameList DEF QInv
<1>3. \A b \in Client : b # request => entry'[b] = entry[b]
  BY <1>1 DEF QInv, QType
<1>4. request \in Client => /\ entry'[request] = Served(request)
                            /\ Served(request) \in SlotType
                            /\ Served(request).out = request
  BY <1>1 DEF QInv, QType, Served, SlotType
<1>5. QType'
  <2>1. \A b \in Client : entry'[b] \in SlotType \cup {NULL}
    BY <1>3, <1>4 DEF QInv, QType
  <2>2. entry' = [b \in Client |-> entry'[b]]
    BY <1>1 DEF QInv, QType
  <2>3. \A b \in Client :
          at'[b] \in {"asked", "wait", "relock"} => entry'[b] \in SlotType
    BY <1>1, <1>3, <1>4 DEF QInv, QType
  <2> QED
    BY <1>1, <2>1, <2>2, <2>3 DEF QInv, QType, Running
<1>6. AnswerInv'
  BY <1>1, <1>3, <1>4 DEF QInv, AnswerInv
<1>7. QueueInv'
  <2> SUFFICES ASSUME early = {} PROVE tq # "corrupt" /\ OnePlace'
    BY <1>1 DEF QueueInv
  <2>1. OnePlace /\ tq # "corrupt" /\ ~Listed(request) /\ request \in Client
    BY <1>1 DEF QInv, QueueInv, OnePlace, Serving
  <2>2. \A b \in Client : b # request /\ Asking(b) => Asking(b)'
    BY <1>1, <1>3 DEF Asking
  <2>3. \A y \in Used : cell[y].data # request
    BY <2>1 DEF Listed
  <2> QED
    BY <1>1, <1>2, <2>1, <2>2, <2>3 DEF OnePlace, Serving, Asking
<1> QED
  BY <1>2, <1>5, <1>6, <1>7 DEF QInv

(* The program makes, uses and destroys its lists and its queue.             *)
LEMMA ProgramStep ==
  ASSUME QInv, OwnList \/ (\E b \in BOOLEAN : cfuthread_queue_new(b)) \/ Join
  PROVE  QInv'
<1>1. UNCHANGED <<at, answer, entry, early>>
  BY DEF OwnList, cfuthread_queue_new, Join, clientVars
<1>2. AnswerInv'
  BY <1>1 DEF QInv, AnswerInv
<1>3. CASE OwnList
  <2>1. LInv' /\ tq' = "none"
    BY <1>3, ListStep DEF QInv, OwnList, NoQueueYet, queueVars
  <2>2. QType' /\ QueueInv'
    BY <1>1, <2>1 DEF QInv, QType, QueueInv, Running
  <2> QED
    BY <1>2, <2>1, <2>2 DEF QInv
<1>4. CASE \E b \in BOOLEAN : cfuthread_queue_new(b)
  <2>1. cfulist_new /\ tq' = "up" /\ worker' = "init"
    BY <1>4 DEF cfuthread_queue_new
  <2>2. LInv' /\ list' # NULL /\ Used' = {}
    BY <2>1, NewList DEF QInv
  <2>3. QType' /\ QueueInv'
    BY <1>1, <2>1, <2>2 DEF QInv, QType, QueueInv, OnePlace, Serving
  <2> QED
    BY <1>2, <2>2, <2>3 DEF QInv
<1>5. CASE Join
  <2>1. LInv' /\ tq' = "none"
    BY <1>5, DestroyList DEF QInv, Join
  <2>2. QType' /\ QueueInv'
    BY <1>1, <2>1 DEF QInv, QType, QueueInv, Running
  <2> QED
    BY <1>2, <2>1, <2>2 DEF QInv
<1> QED
  BY <1>3, <1>4, <1>5

LEMMA OtherStep ==
  ASSUME QInv,
         \/ InitDone \/ Look_Again \/ CancelWorker \/ Cancelled({"wait"})
         \/ Cancelled({"init", "fn"}) \/ UNCHANGED vars
  PROVE  QInv'
<1>1. /\ UNCHANGED <<list, cell, lost, clientVars, early>>
      /\ Running' => Running
      /\ Serving' => Serving /\ request' = request
  BY DEF InitDone, Look_Again, CancelWorker, Cancelled, vars, listVars,
         queueVars, Running, Serving
<1>2. CASE tq' # "corrupt"
  BY <1>1, <1>2, QuietStep
<1>3. CASE tq' = "corrupt"
  <2>1. tq = "corrupt"
    BY <1>3 DEF InitDone, Look_Again, CancelWorker, Cancelled, AfterCancel,
       Running, vars, queueVars
  <2>2. early # {}
    BY <2>1 DEF QInv, QueueInv
  <2>3. LInv'
    BY <1>1, SameList DEF QInv
  <2>4. QType' /\ AnswerInv' /\ QueueInv'
    BY <1>1, <1>3, <2>2
       DEF QInv, QType, AnswerInv, QueueInv, Running, clientVars
  <2> QED
    BY <2>3, <2>4 DEF QInv
<1> QED
  BY <1>2, <1>3

(* The invariant holds at the start and after every step.                    *)
LEMMA InitQInv == Init => QInv
<1> SUFFICES ASSUME Init PROVE QInv
  OBVIOUS
<1>1. list = NULL /\ cell = [c \in Cell |-> NULL] /\ lost = FALSE
  BY DEF Init, ListInit
<1>2. LInv
  BY <1>1 DEF LInv, Used
<1>3. /\ tq = "none" /\ early = {} /\ at = [c \in Client |-> "idle"]
      /\ answer = [c \in Client |-> NULL] /\ entry = [c \in Client |-> NULL]
  BY DEF Init
<1>4. QType /\ AnswerInv /\ QueueInv
  BY <1>3 DEF QType, AnswerInv, QueueInv, Running
<1> QED
  BY <1>2, <1>4 DEF QInv

LEMMA QInvStep ==
  ASSUME QInv, [Next]_vars
  PROVE  QInv'
BY AskStep, WaitStep, WakeUpStep, ReturnStep, TakeStep, LockRequestStep,
   ServeStep, ProgramStep, OtherStep
   DEF Next, ClientStep, WorkerStep

(* The pointers of the list form one chain through the cells in use, an      *)
(* iterator that is not lost is in it, and a request is in one place, for    *)
(* every number of cells and clients.                                        *)
THEOREM Invariance == Spec => []QInv
BY InitQInv, QInvStep, PTL DEF Spec

(* A call of cfuthread_queue_make_request returns the answer to its own      *)
(* request, and the worker touches no request that is gone, unless a         *)
(* client was woken for no reason (cfuthread_queue.c:133).                   *)
THEOREM OwnAnswerAlways == Spec => []OwnAnswer
<1>1. QInv => OwnAnswer
  BY DEF QInv, AnswerInv, QueueInv, OwnAnswer
<1> QED
  BY <1>1, Invariance, PTL

-----------------------------------------------------------------------------
(* Every function of the list is a step of the deque.                        *)
LEMMA ListRefines ==
  ASSUME LInv, ListNext
  PROVE  Deq!Next
<1>1. CASE NullList
  BY <1>1, MissingRefines DEF NullList, AsBefore, Returns, Contents
<1> QED
  BY <1>1, NewRefines, DestroyRefines, PushRefines, UnshiftRefines, PopRefines,
     ShiftRefines, LooksRefine, NumberedRefines, IterationRefines DEF ListNext

LEMMA StepRefines ==
  ASSUME QInv, [Next]_vars
  PROVE  [Deq!Next]_(Deq!dequeVars)
<1> USE ClientAssumption
<1>1. LInv
  BY DEF QInv
<1>2. CASE UNCHANGED listVars
  <2>1. UNCHANGED <<list, cell, lost>> /\ returned' = returned /\ lost' = lost
    BY <1>2 DEF listVars
  <2>2. Contents' = Contents /\ Rest' = Rest
    BY <1>1, <2>1, Unseen
  <2> QED
    BY <2>1, <2>2 DEF Deq!dequeVars, Rest
<1>3. CASE OwnList
  BY <1>1, <1>3, ListRefines DEF OwnList
<1>4. ASSUME NEW c \in Client, Ask(c) PROVE Deq!Next
  BY <1>1, <1>4, PushRefines DEF Ask
<1>5. CASE Take
  <2>1. cfulist_shift_data \/ UNCHANGED listVars
    BY <1>5 DEF Take
  <2> QED
    BY <1>1, <1>2, <2>1, ShiftRefines
<1>6. ASSUME NEW b \in BOOLEAN, cfuthread_queue_new(b) PROVE Deq!Next
  BY <1>1, <1>6, NewRefines DEF cfuthread_queue_new
<1>7. CASE Join
  BY <1>7, DestroyRefines DEF Join
<1>8. CASE \E c \in Client : ClientStep(c)
  <2>1. UNCHANGED listVars
    BY <1>8 DEF ClientStep, Wait, WakeUp, Return
  <2> QED
    BY <1>2, <2>1
<1>9. CASE \/ InitDone \/ LockRequest \/ Serve \/ Look_Again \/ CancelWorker
           \/ Cancelled({"wait"}) \/ Cancelled({"init", "fn"}) \/ UNCHANGED vars
  <2>1. UNCHANGED listVars
    BY <1>9 DEF InitDone, LockRequest, Serve, Look_Again, CancelWorker, Cancelled, vars
  <2> QED
    BY <1>2, <2>1
<1> QED
  BY <1>3, <1>4, <1>5, <1>6, <1>7, <1>8, <1>9 DEF Next, WorkerStep

(* Linked and unlinked under its mutex, the list is a deque: every function  *)
(* of cfulist.c is a step of one, the nth entry and a walk over n entries    *)
(* for the very n they were called with, and of an iteration that a removal  *)
(* leaves behind.  What is given as the size of the nth entry is left open.  *)
THEOREM IsADeque == Spec => DequeSpec
<1>1. Init => Deq!Init
  <2> SUFFICES ASSUME Init PROVE Deq!Init
    OBVIOUS
  <2>1. list = NULL /\ lost = FALSE /\ returned = None
    BY DEF Init, ListInit
  <2> QED
    BY <2>1 DEF Deq!Init, Deq!None, Deq!Item, None, Item, Contents
<1>2. QInv /\ [Next]_vars => [Deq!Next]_(Deq!dequeVars)
  BY StepRefines
<1> QED
  BY <1>1, <1>2, Invariance, PTL DEF Spec, DequeSpec, Deq!Spec

(* The pointers lead through the same entries from either end, and no        *)
(* other cell is in use, for every number of cells.                          *)
THEOREM AlwaysBothWays == Spec => []BothWays
<1>1. QInv => BothWays
  BY BothWaysHolds DEF QInv
<1> QED
  BY <1>1, Invariance, PTL

=============================================================================
