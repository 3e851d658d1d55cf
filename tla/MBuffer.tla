------------------------------ MODULE MBuffer -------------------------------
(***************************************************************************)
(* The spool of the monitor daemon (north_south/src/mbuffer.c): a linked   *)
(* list protected by `mutex', and `empty_mutex', a mutex used as a binary  *)
(* semaphore: the spool thread locks it to wait for data, a thread that    *)
(* calls QAddData unlocks it to announce data.  The thread that unlocks    *)
(* empty_mutex is not the one that locked it; the pthread library the      *)
(* daemon links (a normal mutex) simply releases the lock, and releasing   *)
(* a lock that is free leaves it free.                                     *)
(*                                                                         *)
(* A packet is named by its ticket: its place in the order in which        *)
(* QAddData linked the packets.                                            *)
(***************************************************************************)
EXTENDS Naturals, Sequences

CONSTANTS
  Producers,  (* the threads that call QAddData                            *)
  Spool,      (* the thread QStartSpool creates                            *)
  Elements,   (* the heap cells malloc may return for a struct Element     *)
  NULL,       (* the null pointer, and the owner of a free mutex           *)
  MaxAdds     (* bound on the calls of QAddData                            *)

ASSUME MBufferAssumption ==
  /\ Spool \notin Producers
  /\ NULL \notin Producers \cup {Spool} \cup Elements
  /\ MaxAdds \in Nat

Threads == Producers \cup {Spool}

VARIABLES
  mutex,        (* owner of queue's lock, NULL when it is free             *)
  empty_mutex,  (* TRUE while the empty_mutex is locked                    *)
  head, tail,   (* the struct Queue                                        *)
  next, data,   (* the fields of every struct Element                      *)
  heap,         (* what each cell is used for                              *)
  element,      (* the local variable `element' of each thread             *)
  pc,           (* where each thread is                                    *)
  process,      (* "running", "segv" (null dereference), "killed" (SIGPIPE)*)
  calls,        (* QAddData calls so far                                   *)
  added,        (* tickets given out: packets linked so far                *)
  spooled,      (* packets taken off the list                              *)
  wire,         (* the tickets written to the socket, in order             *)
  lost          (* the tickets whose write() failed                        *)

vars == <<mutex, empty_mutex, head, tail, next, data, heap, element, pc,
          process, calls, added, spooled, wire, lost>>

(* Variables by what may change them.                                      *)
listVars == <<head, tail, next, data, heap>>
wireVars == <<spooled, wire, lost>>

Linked == {e \in Elements : heap[e] = "linked"}

ProducerLabels == {"idle", "unlockEmpty", "lockMutex", "append", "fixHead",
                   "unlockMutex"}
SpoolLabels == {"lockEmpty", "lockMutex", "write", "shift", "unlockMutex",
                "free"}

Goto(t, from, to) ==
  /\ process = "running"
  /\ pc[t] = from
  /\ pc' = [pc EXCEPT ![t] = to]

Lock(t) == mutex = NULL /\ mutex' = t

(* Faulty variant: a return without the unlock.                            *)
Unlock_Forgotten == UNCHANGED mutex

Unlock == mutex' = NULL

-----------------------------------------------------------------------------
(* Faulty variant: an empty_mutex that starts unlocked.                    *)
QInit_GateOpen ==
  /\ mutex = NULL
  /\ empty_mutex = FALSE
  /\ head = NULL
  /\ tail = NULL

QInit ==
  /\ mutex = NULL
  /\ empty_mutex = TRUE
  /\ head = NULL
  /\ tail = NULL

(* QInit, then QStartSpool.  The socket is the one monitor_Connect         *)
(* connected: QSpoolData's test fd < 0 never holds.                        *)
Init ==
  /\ QInit
  /\ next = [e \in Elements |-> NULL]
  /\ data = [e \in Elements |-> 0]
  /\ heap = [e \in Elements |-> "unused"]
  /\ element = [t \in Threads |-> NULL]
  /\ pc = [t \in Threads |-> IF t = Spool THEN "lockEmpty" ELSE "idle"]
  /\ process = "running"
  /\ calls = 0
  /\ added = 0
  /\ spooled = 0
  /\ wire = << >>
  /\ lost = {}

-----------------------------------------------------------------------------
(* QAddData.  A cell that malloc returns may be one the spool has freed.   *)
QAddMalloc(p) ==
  /\ Goto(p, "idle", "unlockEmpty")
  /\ calls < MaxAdds
  /\ calls' = calls + 1
  /\ \E e \in Elements :
       /\ heap[e] = "unused"
       /\ heap' = [heap EXCEPT ![e] = "allocated"]
       /\ element' = [element EXCEPT ![p] = e]
  /\ UNCHANGED <<mutex, empty_mutex, head, tail, next, data, process, added>>
  /\ UNCHANGED wireVars

(* malloc() == NULL: QAddData returns ERR, the caller drops the packet.    *)
QAddNoMemory(p) ==
  /\ process = "running"
  /\ pc[p] = "idle"
  /\ calls < MaxAdds
  /\ calls' = calls + 1
  /\ UNCHANGED <<mutex, empty_mutex, element, pc, process, added>>
  /\ UNCHANGED <<listVars, wireVars>>

(* The gate opens before the element is linked.                            *)
QAddUnlockEmpty(p) ==
  /\ Goto(p, "unlockEmpty", "lockMutex")
  /\ empty_mutex' = FALSE
  /\ UNCHANGED <<mutex, element, process, calls, added>>
  /\ UNCHANGED <<listVars, wireVars>>

QAddLock(p) ==
  /\ Goto(p, "lockMutex", "append")
  /\ Lock(p)
  /\ UNCHANGED <<empty_mutex, element, process, calls, added>>
  /\ UNCHANGED <<listVars, wireVars>>

QAddAppend(p) ==
  /\ Goto(p, "append", "fixHead")
  /\ LET e == element[p] IN
       /\ next' = IF tail = NULL
                    THEN [next EXCEPT ![e] = NULL]
                    ELSE [next EXCEPT ![e] = NULL, ![tail] = e]
       /\ data' = [data EXCEPT ![e] = added + 1]
       /\ heap' = [heap EXCEPT ![e] = "linked"]
       /\ tail' = e
  /\ added' = added + 1
  /\ UNCHANGED <<mutex, empty_mutex, head, element, process, calls>>
  /\ UNCHANGED wireVars

QAddFixHead(p) ==
  /\ Goto(p, "fixHead", "unlockMutex")
  /\ head' = IF head = NULL THEN tail ELSE head
  /\ UNCHANGED <<mutex, empty_mutex, tail, next, data, heap, element,
                 process, calls, added>>
  /\ UNCHANGED wireVars

QAddUnlock(p) ==
  /\ Goto(p, "unlockMutex", "idle")
  /\ Unlock
  /\ UNCHANGED <<empty_mutex, element, process, calls, added>>
  /\ UNCHANGED <<listVars, wireVars>>

QAddData(p) ==
  \/ QAddUnlockEmpty(p) \/ QAddLock(p) \/ QAddAppend(p)
  \/ QAddFixHead(p) \/ QAddUnlock(p)

-----------------------------------------------------------------------------
(* QSpoolData, one turn of its loop.                                       *)
SpoolLockEmpty ==
  /\ Goto(Spool, "lockEmpty", "lockMutex")
  /\ ~empty_mutex
  /\ empty_mutex' = TRUE
  /\ UNCHANGED <<mutex, element, process, calls, added>>
  /\ UNCHANGED <<listVars, wireVars>>

SpoolLock ==
  /\ Goto(Spool, "lockMutex", "write")
  /\ Lock(Spool)
  /\ UNCHANGED <<empty_mutex, element, process, calls, added>>
  /\ UNCHANGED <<listVars, wireVars>>

(* Faulty variant: a write() that is repeated.                             *)
WriteData_Twice(e) ==
  \/ wire' = wire \o <<data[e], data[e]>> /\ UNCHANGED lost
  \/ lost' = lost \cup {data[e]} /\ UNCHANGED wire

(* write(fd, element->data, ...): it succeeds, or fails and the packet is  *)
(* dropped all the same.                                                   *)
WriteData(e) ==
  \/ wire' = Append(wire, data[e]) /\ UNCHANGED lost
  \/ lost' = lost \cup {data[e]} /\ UNCHANGED wire

SpoolWrite ==
  /\ Goto(Spool, "write", "shift")
  /\ head # NULL
  /\ element' = [element EXCEPT ![Spool] = head]
  /\ WriteData(head)
  /\ UNCHANGED <<mutex, empty_mutex, process, calls, added, spooled>>
  /\ UNCHANGED listVars

(* The code dereferences queue.head without a test.                        *)
SpoolNullHead ==
  /\ process = "running"
  /\ pc[Spool] = "write"
  /\ head = NULL
  /\ process' = "segv"
  /\ UNCHANGED <<mutex, empty_mutex, element, pc, calls, added>>
  /\ UNCHANGED <<listVars, wireVars>>

(* The daemon installs no handler: SIGPIPE ends it.                        *)
SpoolBrokenPipe ==
  /\ process = "running"
  /\ pc[Spool] = "write"
  /\ head # NULL
  /\ process' = "killed"
  /\ UNCHANGED <<mutex, empty_mutex, element, pc, calls, added>>
  /\ UNCHANGED <<listVars, wireVars>>

(* Faulty variant: tail keeps the element that is about to be freed.       *)
ShiftHead_KeepTail(e) ==
  /\ head' = next[e]
  /\ tail' = tail
  /\ empty_mutex' = IF next[e] = NULL THEN empty_mutex ELSE FALSE

(* Drop the head; leave the gate open if there is another element.         *)
ShiftHead(e) ==
  /\ head' = next[e]
  /\ tail' = IF next[e] = NULL THEN NULL ELSE tail
  /\ empty_mutex' = IF next[e] = NULL THEN empty_mutex ELSE FALSE

SpoolShift ==
  /\ Goto(Spool, "shift", "unlockMutex")
  /\ ShiftHead(element[Spool])
  /\ heap' = [heap EXCEPT ![element[Spool]] = "popped"]
  /\ spooled' = spooled + 1
  /\ UNCHANGED <<mutex, next, data, element, process, calls, added, wire,
                 lost>>

SpoolUnlock ==
  /\ Goto(Spool, "unlockMutex", "free")
  /\ Unlock
  /\ UNCHANGED <<empty_mutex, element, process, calls, added>>
  /\ UNCHANGED <<listVars, wireVars>>

(* Faulty variant: the freed element is cleared with the null pointer.     *)
SpoolFree_Cleared ==
  /\ Goto(Spool, "free", "lockEmpty")
  /\ heap' = [heap EXCEPT ![element[Spool]] = "unused"]
  /\ data' = [data EXCEPT ![element[Spool]] = NULL]
  /\ UNCHANGED <<mutex, empty_mutex, head, tail, next, element, process,
                 calls, added>>
  /\ UNCHANGED wireVars

(* free(element->data); free(element), after the lock is released.         *)
SpoolFree ==
  /\ Goto(Spool, "free", "lockEmpty")
  /\ heap' = [heap EXCEPT ![element[Spool]] = "unused"]
  /\ UNCHANGED <<mutex, empty_mutex, head, tail, next, data, element,
                 process, calls, added>>
  /\ UNCHANGED wireVars

QSpoolData ==
  \/ SpoolLockEmpty \/ SpoolLock \/ SpoolWrite \/ SpoolNullHead
  \/ SpoolBrokenPipe \/ SpoolShift \/ SpoolUnlock \/ SpoolFree

-----------------------------------------------------------------------------
Next ==
  \/ \E p \in Producers : QAddMalloc(p) \/ QAddNoMemory(p) \/ QAddData(p)
  \/ QSpoolData

Spec == Init /\ [][Next]_vars

(* A thread that can run does run, and write() returns.  Nobody is obliged *)
(* to call QAddData.  The calls are bounded, so a mutex that stays wanted  *)
(* is in the end free for good: weak fairness of each thread is enough.    *)
Fairness ==
  /\ \A p \in Producers : WF_vars(QAddData(p))
  /\ WF_vars(QSpoolData)

FairSpec == Spec /\ Fairness

-----------------------------------------------------------------------------
(* Type invariant.                                                         *)
TypeOK ==
  /\ mutex \in Threads \cup {NULL}
  /\ empty_mutex \in BOOLEAN
  /\ head \in Elements \cup {NULL}
  /\ tail \in Elements \cup {NULL}
  /\ next \in [Elements -> Elements \cup {NULL}]
  /\ data \in [Elements -> Nat]
  /\ heap \in [Elements -> {"unused", "allocated", "linked", "popped"}]
  /\ element \in [Threads -> Elements \cup {NULL}]
  /\ pc \in [Threads -> ProducerLabels \cup SpoolLabels]
  /\ \A p \in Producers : pc[p] \in ProducerLabels
  /\ pc[Spool] \in SpoolLabels
  /\ process \in {"running", "segv", "killed"}
  /\ calls \in 0..MaxAdds
  /\ added \in Nat
  /\ spooled \in Nat
  /\ wire \in Seq(Nat)
  /\ lost \subseteq Nat

-----------------------------------------------------------------------------
(* The inductive invariant, by parts.                                      *)
Critical == {"append", "fixHead", "write", "shift", "unlockMutex"}

(* The owner of the mutex is the one thread in a critical section.         *)
MutexInv == \A t \in Threads : (pc[t] \in Critical) <=> (mutex = t)

(* A producer owns the cell it is about to link.                           *)
Holding == {p \in Producers : pc[p] \in {"unlockEmpty", "lockMutex", "append"}}

CellInv ==
  /\ \A p \in Holding : /\ element[p] \in Elements
                        /\ heap[element[p]] = "allocated"
  /\ \A p, q \in Holding : element[p] = element[q] => p = q
  /\ pc[Spool] = "shift" => element[Spool] = head /\ head # NULL
  /\ pc[Spool] \in {"unlockMutex", "free"} =>
       /\ element[Spool] \in Elements
       /\ heap[element[Spool]] = "popped"

(* The linked cells hold the tickets spooled+1 .. added, one each; next    *)
(* leads from each ticket to the following one and from the tail nowhere.  *)
(* The head is missing only while a producer is about to set it.           *)
ListInv ==
  /\ \A e \in Linked : data[e] \in (spooled + 1)..added
  /\ \A e, f \in Linked : data[e] = data[f] => e = f
  /\ \A e \in Linked : next[e] # NULL =>
       next[e] \in Linked /\ data[next[e]] = data[e] + 1
  /\ \A e \in Linked : (next[e] = NULL) <=> (e = tail)
  /\ tail # NULL => tail \in Linked /\ data[tail] = added
  /\ tail = NULL => Linked = {} /\ spooled = added
  /\ head # NULL => head \in Linked /\ data[head] = spooled + 1
  /\ (head = NULL /\ tail # NULL) =>
       added = spooled + 1 /\ \E p \in Producers : pc[p] = "fixHead"

(* Every ticket given out is in exactly one of three places: on the list,  *)
(* on the wire, or lost in a failed write(); the wire is in ticket order.  *)
Done == IF pc[Spool] = "shift" THEN spooled + 1 ELSE spooled

WireInv ==
  /\ Done \in Nat
  /\ Done <= added
  /\ \A i \in 1..Len(wire) : wire[i] \in 1..Done /\ wire[i] \notin lost
  /\ \A i, j \in 1..Len(wire) : i < j => wire[i] < wire[j]
  /\ lost \subseteq 1..Done
  /\ \A t \in 1..Done : t \in lost \/ \E i \in 1..Len(wire) : wire[i] = t

(* What the gate promises.  Outstanding: the packets announced by an       *)
(* unlock of empty_mutex and not yet taken off the list.                   *)
Pending == {p \in Producers : pc[p] \in {"lockMutex", "append"}}
Outstanding == Linked \cup {element[p] : p \in Pending}
SpoolPastGate == pc[Spool] \in {"lockMutex", "write", "shift"}

GateInv ==
  /\ (~empty_mutex \/ SpoolPastGate) => Outstanding # {}
  /\ (~empty_mutex /\ SpoolPastGate) =>
       \E e, f \in Outstanding : e # f
  /\ process = "segv" => pc[Spool] = "write" /\ head = NULL

IInv ==
  /\ TypeOK
  /\ MutexInv
  /\ CellInv
  /\ ListInv
  /\ WireInv
  /\ GateInv

-----------------------------------------------------------------------------
(* Properties.                                                             *)

(* The list the two threads share is never broken: head, tail and the next *)
(* fields describe one chain through exactly the linked cells, in the      *)
(* order of the tickets; in particular the tail that QAddData writes       *)
(* through (mbuffer.c:64) and the head the spool writes from are never     *)
(* cells the spool has freed.                                              *)
ListIntact == ListInv /\ CellInv

(* A packet is written at most once and in the order QAddData linked it,   *)
(* and it leaves the list only by a write() that returned.                 *)
InOrderOnce == WireInv

(* The spool may find the list empty, and die of it (mbuffer.c:106), only  *)
(* while some QAddData has unlocked empty_mutex (mbuffer.c:57) and has not *)
(* yet got the mutex (mbuffer.c:59): the early unlock is the only cause.   *)
CrashWindow ==
  process = "segv" => \E p \in Producers : pc[p] = "lockMutex"

(* Whenever QAddData or the spool itself has unlocked empty_mutex, at      *)
(* least one more packet leaves the list, so a packet that two merged      *)
(* announcements left behind moves again at the next call of QAddData.     *)
(* That the list is always emptied (mbuffer.c:3) is more than it promises. *)
GateServed ==
  \A k \in 0..MaxAdds :
    (~empty_mutex /\ spooled = k) ~> (spooled > k \/ process # "running")

(* QAddData, called from the thread that reads the socket, returns.        *)
AddReturns ==
  \A p \in Producers :
    (pc[p] = "unlockEmpty") ~> (pc[p] = "idle" \/ process # "running")

(* The spool implements the abstract one.                                  *)
Fifo == INSTANCE SpoolFifo WITH done <- Done
FifoSpec == Fifo!Spec

=============================================================================
