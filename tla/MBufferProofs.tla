---------------------------- MODULE MBufferProofs ---------------------------
(***************************************************************************)
(* Proofs about MBuffer.  IInv is inductive: each of its parts is kept by  *)
(* every step from a state where all the parts hold; one lemma per part.   *)
(***************************************************************************)
EXTENDS MBuffer, TLAPS

(* Every step keeps the types.  CellInv is needed where the spool follows  *)
(* its local pointer: an element it holds is not NULL.                     *)
LEMMA TypeOKStep ==
  ASSUME TypeOK, CellInv, [Next]_vars
  PROVE  TypeOK'
<1>1. CASE UNCHANGED vars
  BY <1>1 DEF vars, TypeOK, CellInv, Threads, ProducerLabels, SpoolLabels
<1>2. ASSUME NEW p \in Producers, QAddMalloc(p) PROVE TypeOK'
  BY <1>2, MBufferAssumption DEF QAddMalloc, Goto, Lock, Unlock, listVars,
     wireVars, TypeOK, CellInv, Threads, ProducerLabels, SpoolLabels
<1>3. ASSUME NEW p \in Producers, QAddNoMemory(p) PROVE TypeOK'
  BY <1>3, MBufferAssumption DEF QAddNoMemory, Goto, Lock, Unlock, listVars,
     wireVars, TypeOK, CellInv, Threads, ProducerLabels, SpoolLabels
<1>4. ASSUME NEW p \in Producers, QAddUnlockEmpty(p) PROVE TypeOK'
  BY <1>4, MBufferAssumption DEF QAddUnlockEmpty, Goto, Lock, Unlock,
     listVars, wireVars, TypeOK, CellInv, Threads, ProducerLabels, SpoolLabels
<1>5. ASSUME NEW p \in Producers, QAddLock(p) PROVE TypeOK'
  BY <1>5, MBufferAssumption DEF QAddLock, Goto, Lock, Unlock, listVars,
     wireVars, TypeOK, CellInv, Threads, ProducerLabels, SpoolLabels
<1>6. ASSUME NEW p \in Producers, QAddAppend(p) PROVE TypeOK'
  <2>1. element[p] \in Elements \cup {NULL} /\ added + 1 \in Nat
    BY MBufferAssumption DEF TypeOK, Threads
  <2>2. next' \in [Elements -> Elements \cup {NULL}]
    BY <1>6, <2>1 DEF QAddAppend, TypeOK
  <2>3. /\ data' \in [Elements -> Nat]
        /\ heap' \in [Elements -> {"unused", "allocated", "linked", "popped"}]
    BY <1>6, <2>1 DEF QAddAppend, TypeOK
  <2> QED
    BY <1>6, <2>1, <2>2, <2>3, MBufferAssumption
       DEF QAddAppend, Goto, wireVars, TypeOK, Threads, ProducerLabels,
           SpoolLabels
<1>7. ASSUME NEW p \in Producers, QAddFixHead(p) PROVE TypeOK'
  BY <1>7, MBufferAssumption DEF QAddFixHead, Goto, Lock, Unlock, listVars,
     wireVars, TypeOK, CellInv, Threads, ProducerLabels, SpoolLabels
<1>8. ASSUME NEW p \in Producers, QAddUnlock(p) PROVE TypeOK'
  BY <1>8, MBufferAssumption DEF QAddUnlock, Goto, Lock, Unlock, listVars,
     wireVars, TypeOK, CellInv, Threads, ProducerLabels, SpoolLabels
<1>9. CASE SpoolLockEmpty
  BY <1>9, MBufferAssumption DEF SpoolLockEmpty, Goto, Lock, Unlock,
     listVars, wireVars, TypeOK, CellInv, Threads, ProducerLabels, SpoolLabels
<1>10. CASE SpoolLock
  BY <1>10, MBufferAssumption DEF SpoolLock, Goto, Lock, Unlock, listVars,
     wireVars, TypeOK, CellInv, Threads, ProducerLabels, SpoolLabels
<1>11. CASE SpoolWrite
  <2>1. head \in Elements /\ data[head] \in Nat
    BY <1>11 DEF SpoolWrite, WriteData, TypeOK
  <2>2. wire' = Append(wire, data[head]) => wire' \in Seq(Nat)
    BY <2>1 DEF TypeOK
  <2>3. lost' = lost \cup {data[head]} => lost' \subseteq Nat
    BY <2>1 DEF TypeOK
  <2> QED
    BY <1>11, <2>1, <2>2, <2>3, MBufferAssumption
       DEF SpoolWrite, WriteData, Goto, listVars, TypeOK, Threads,
           ProducerLabels, SpoolLabels
<1>12. CASE SpoolNullHead
  BY <1>12, MBufferAssumption DEF SpoolNullHead, Goto, Lock, Unlock,
     listVars, wireVars, TypeOK, CellInv, Threads, ProducerLabels, SpoolLabels
<1>13. CASE SpoolBrokenPipe
  BY <1>13, MBufferAssumption DEF SpoolBrokenPipe, Goto, Lock, Unlock,
     listVars, wireVars, TypeOK, CellInv, Threads, ProducerLabels, SpoolLabels
<1>14. CASE SpoolShift
  <2>1. element[Spool] \in Elements
    BY <1>14 DEF SpoolShift, ShiftHead, Goto, TypeOK, CellInv
  <2>2. next[element[Spool]] \in Elements \cup {NULL}
    BY <2>1 DEF TypeOK
  <2>3. heap' \in [Elements -> {"unused", "allocated", "linked", "popped"}]
    BY <1>14, <2>1 DEF SpoolShift, ShiftHead, TypeOK
  <2>4. head' \in Elements \cup {NULL} /\ tail' \in Elements \cup {NULL}
    BY <1>14, <2>2 DEF SpoolShift, ShiftHead, TypeOK
  <2>5. /\ spooled' \in Nat
        /\ pc' = [pc EXCEPT ![Spool] = "unlockMutex"]
        /\ UNCHANGED <<mutex, next, data, element, process, calls, added,
                       wire, lost>>
    BY <1>14 DEF SpoolShift, ShiftHead, Goto, TypeOK
  <2>6. /\ pc' \in [Threads -> ProducerLabels \cup SpoolLabels]
        /\ \A p \in Producers : pc'[p] \in ProducerLabels
        /\ pc'[Spool] \in SpoolLabels
    BY <2>5, MBufferAssumption
       DEF TypeOK, Threads, ProducerLabels, SpoolLabels
  <2>7. empty_mutex' \in BOOLEAN
    BY <1>14 DEF SpoolShift, ShiftHead, TypeOK
  <2> QED
    BY <2>3, <2>4, <2>5, <2>6, <2>7 DEF TypeOK
<1>15. CASE SpoolUnlock
  BY <1>15, MBufferAssumption DEF SpoolUnlock, Goto, Lock, Unlock, listVars,
     wireVars, TypeOK, CellInv, Threads, ProducerLabels, SpoolLabels
<1>16. CASE SpoolFree
  BY <1>16, MBufferAssumption DEF SpoolFree, Goto, Lock, Unlock, listVars,
     wireVars, TypeOK, CellInv, Threads, ProducerLabels, SpoolLabels
<1> QED
  BY <1>1, <1>2, <1>3, <1>4, <1>5, <1>6, <1>7, <1>8, <1>9, <1>10, <1>11,
     <1>12, <1>13, <1>14, <1>15, <1>16 DEF Next, QAddData, QSpoolData

(* The mutex is owned by exactly the thread between its lock and unlock.   *)
LEMMA MutexInvStep ==
  ASSUME TypeOK, MutexInv, [Next]_vars
  PROVE  MutexInv'
<1>1. CASE UNCHANGED vars
  BY <1>1 DEF vars, TypeOK, MutexInv, Critical, Threads, ProducerLabels,
     SpoolLabels
<1>2. ASSUME NEW p \in Producers, QAddMalloc(p) PROVE MutexInv'
  BY <1>2, MBufferAssumption
     DEF QAddMalloc, Goto, Lock, Unlock, listVars, wireVars, TypeOK,
         MutexInv, Critical, Threads, ProducerLabels, SpoolLabels
<1>3. ASSUME NEW p \in Producers, QAddNoMemory(p) PROVE MutexInv'
  BY <1>3, MBufferAssumption
     DEF QAddNoMemory, Goto, Lock, Unlock, listVars, wireVars, TypeOK,
         MutexInv, Critical, Threads, ProducerLabels, SpoolLabels
<1>4. ASSUME NEW p \in Producers, QAddUnlockEmpty(p) PROVE MutexInv'
  BY <1>4, MBufferAssumption DEF QAddUnlockEmpty, Goto, Lock, Unlock,
     listVars, wireVars, TypeOK, MutexInv, Critical, Threads, ProducerLabels,
     SpoolLabels
<1>5. ASSUME NEW p \in Producers, QAddLock(p) PROVE MutexInv'
  BY <1>5, MBufferAssumption
     DEF QAddLock, Goto, Lock, Unlock, listVars, wireVars, TypeOK, MutexInv,
         Critical, Threads, ProducerLabels, SpoolLabels
<1>6. ASSUME NEW p \in Producers, QAddAppend(p) PROVE MutexInv'
  BY <1>6, MBufferAssumption
     DEF QAddAppend, Goto, Lock, Unlock, listVars, wireVars, TypeOK,
         MutexInv, Critical, Threads, ProducerLabels, SpoolLabels
<1>7. ASSUME NEW p \in Producers, QAddFixHead(p) PROVE MutexInv'
  BY <1>7, MBufferAssumption
     DEF QAddFixHead, Goto, Lock, Unlock, listVars, wireVars, TypeOK,
         MutexInv, Critical, Threads, ProducerLabels, SpoolLabels
<1>8. ASSUME NEW p \in Producers, QAddUnlock(p) PROVE MutexInv'
  BY <1>8, MBufferAssumption
     DEF QAddUnlock, Goto, Lock, Unlock, listVars, wireVars, TypeOK,
         MutexInv, Critical, Threads, ProducerLabels, SpoolLabels
<1>9. CASE SpoolLockEmpty
  BY <1>9, MBufferAssumption DEF SpoolLockEmpty, Goto, Lock, Unlock,
     listVars, wireVars, TypeOK, MutexInv, Critical, Threads, ProducerLabels,
     SpoolLabels
<1>10. CASE SpoolLock
  BY <1>10, MBufferAssumption
     DEF SpoolLock, Goto, Lock, Unlock, listVars, wireVars, TypeOK, MutexInv,
         Critical, Threads, ProducerLabels, SpoolLabels
<1>11. CASE SpoolWrite
  BY <1>11, MBufferAssumption
     DEF SpoolWrite, WriteData, Goto, Lock, Unlock, listVars, wireVars,
         TypeOK, MutexInv, Critical, Threads, ProducerLabels, SpoolLabels
<1>12. CASE SpoolNullHead
  BY <1>12, MBufferAssumption DEF SpoolNullHead, Goto, Lock, Unlock,
     listVars, wireVars, TypeOK, MutexInv, Critical, Threads, ProducerLabels,
     SpoolLabels
<1>13. CASE SpoolBrokenPipe
  BY <1>13, MBufferAssumption DEF SpoolBrokenPipe, Goto, Lock, Unlock,
     listVars, wireVars, TypeOK, MutexInv, Critical, Threads, ProducerLabels,
     SpoolLabels
<1>14. CASE SpoolShift
  BY <1>14, MBufferAssumption
     DEF SpoolShift, ShiftHead, Goto, Lock, Unlock, listVars, wireVars,
         TypeOK, MutexInv, Critical, Threads, ProducerLabels, SpoolLabels
<1>15. CASE SpoolUnlock
  BY <1>15, MBufferAssumption
     DEF SpoolUnlock, Goto, Lock, Unlock, listVars, wireVars, TypeOK,
         MutexInv, Critical, Threads, ProducerLabels, SpoolLabels
<1>16. CASE SpoolFree
  BY <1>16, MBufferAssumption
     DEF SpoolFree, Goto, Lock, Unlock, listVars, wireVars, TypeOK, MutexInv,
         Critical, Threads, ProducerLabels, SpoolLabels
<1> QED
  BY <1>1, <1>2, <1>3, <1>4, <1>5, <1>6, <1>7, <1>8, <1>9, <1>10, <1>11,
     <1>12, <1>13, <1>14, <1>15, <1>16 DEF Next, QAddData, QSpoolData

(* A producer's new cell is its own until it is linked, and the spool's    *)
(* local pointer is the head until the head is shifted.                    *)
LEMMA CellInvStep ==
  ASSUME TypeOK, MutexInv, CellInv, ListInv, [Next]_vars
  PROVE  CellInv'
<1>1. CASE UNCHANGED vars
  BY <1>1 DEF vars, TypeOK, MutexInv, CellInv, Holding, Critical, Threads,
     ProducerLabels, SpoolLabels
<1>2. ASSUME NEW p \in Producers, QAddMalloc(p) PROVE CellInv'
  BY <1>2, MBufferAssumption DEF QAddMalloc, Goto, Lock, Unlock, listVars,
     wireVars, TypeOK, MutexInv, CellInv, Holding, Critical, Threads,
     ProducerLabels, SpoolLabels
<1>3. ASSUME NEW p \in Producers, QAddNoMemory(p) PROVE CellInv'
  BY <1>3, MBufferAssumption DEF QAddNoMemory, Goto, Lock, Unlock, listVars,
     wireVars, TypeOK, MutexInv, CellInv, Holding, Critical, Threads,
     ProducerLabels, SpoolLabels
<1>4. ASSUME NEW p \in Producers, QAddUnlockEmpty(p) PROVE CellInv'
  BY <1>4, MBufferAssumption
     DEF QAddUnlockEmpty, Goto, Lock, Unlock, listVars, wireVars, TypeOK,
         MutexInv, CellInv, Holding, Critical, Threads, ProducerLabels,
         SpoolLabels
<1>5. ASSUME NEW p \in Producers, QAddLock(p) PROVE CellInv'
  BY <1>5, MBufferAssumption DEF QAddLock, Goto, Lock, Unlock, listVars,
     wireVars, TypeOK, MutexInv, CellInv, Holding, Critical, Threads,
     ProducerLabels, SpoolLabels
<1>6. ASSUME NEW p \in Producers, QAddAppend(p) PROVE CellInv'
  BY <1>6, MBufferAssumption DEF QAddAppend, Goto, Lock, Unlock, listVars,
     wireVars, TypeOK, MutexInv, CellInv, Holding, Critical, Threads,
     ProducerLabels, SpoolLabels
<1>7. ASSUME NEW p \in Producers, QAddFixHead(p) PROVE CellInv'
  BY <1>7, MBufferAssumption DEF QAddFixHead, Goto, Lock, Unlock, listVars,
     wireVars, TypeOK, MutexInv, CellInv, Holding, Critical, Threads,
     ProducerLabels, SpoolLabels
<1>8. ASSUME NEW p \in Producers, QAddUnlock(p) PROVE CellInv'
  BY <1>8, MBufferAssumption DEF QAddUnlock, Goto, Lock, Unlock, listVars,
     wireVars, TypeOK, MutexInv, CellInv, Holding, Critical, Threads,
     ProducerLabels, SpoolLabels
<1>9. CASE SpoolLockEmpty
  BY <1>9, MBufferAssumption
     DEF SpoolLockEmpty, Goto, Lock, Unlock, listVars, wireVars, TypeOK,
         MutexInv, CellInv, Holding, Critical, Threads, ProducerLabels,
         SpoolLabels
<1>10. CASE SpoolLock
  BY <1>10, MBufferAssumption DEF SpoolLock, Goto, Lock, Unlock, listVars,
     wireVars, TypeOK, MutexInv, CellInv, Holding, Critical, Threads,
     ProducerLabels, SpoolLabels
<1>11. CASE SpoolWrite
  BY <1>11, MBufferAssumption
     DEF SpoolWrite, WriteData, Goto, Lock, Unlock, listVars, wireVars,
         TypeOK, MutexInv, CellInv, Holding, Critical, Threads,
         ProducerLabels, SpoolLabels
<1>12. CASE SpoolNullHead
  BY <1>12, MBufferAssumption
     DEF SpoolNullHead, Goto, Lock, Unlock, listVars, wireVars, TypeOK,
         MutexInv, CellInv, Holding, Critical, Threads, ProducerLabels,
         SpoolLabels
<1>13. CASE SpoolBrokenPipe
  BY <1>13, MBufferAssumption
     DEF SpoolBrokenPipe, Goto, Lock, Unlock, listVars, wireVars, TypeOK,
         MutexInv, CellInv, Holding, Critical, Threads, ProducerLabels,
         SpoolLabels
<1>14. CASE SpoolShift
  BY <1>14, MBufferAssumption
     DEF SpoolShift, ShiftHead, ListInv, Linked, Goto, Lock, Unlock,
         listVars, wireVars, TypeOK, MutexInv, CellInv, Holding, Critical,
         Threads, ProducerLabels, SpoolLabels
<1>15. CASE SpoolUnlock
  BY <1>15, MBufferAssumption DEF SpoolUnlock, Goto, Lock, Unlock, listVars,
     wireVars, TypeOK, MutexInv, CellInv, Holding, Critical, Threads,
     ProducerLabels, SpoolLabels
<1>16. CASE SpoolFree
  BY <1>16, MBufferAssumption DEF SpoolFree, Goto, Lock, Unlock, listVars,
     wireVars, TypeOK, MutexInv, CellInv, Holding, Critical, Threads,
     ProducerLabels, SpoolLabels
<1> QED
  BY <1>1, <1>2, <1>3, <1>4, <1>5, <1>6, <1>7, <1>8, <1>9, <1>10, <1>11,
     <1>12, <1>13, <1>14, <1>15, <1>16 DEF Next, QAddData, QSpoolData

(* Linking at the tail and shifting the head keep the chain of tickets.    *)
LEMMA ListInvStep ==
  ASSUME TypeOK, MutexInv, CellInv, ListInv, [Next]_vars
  PROVE  ListInv'
<1>1. CASE UNCHANGED vars
  BY <1>1 DEF vars, TypeOK, MutexInv, CellInv, ListInv, Linked, Holding,
     Critical, Threads, ProducerLabels, SpoolLabels
<1>2. ASSUME NEW p \in Producers, QAddMalloc(p) PROVE ListInv'
  BY <1>2, MBufferAssumption DEF QAddMalloc, Goto, Lock, Unlock, listVars,
     wireVars, TypeOK, MutexInv, CellInv, ListInv, Linked, Holding, Critical,
     Threads, ProducerLabels, SpoolLabels
<1>3. ASSUME NEW p \in Producers, QAddNoMemory(p) PROVE ListInv'
  BY <1>3, MBufferAssumption DEF QAddNoMemory, Goto, Lock, Unlock, listVars,
     wireVars, TypeOK, MutexInv, CellInv, ListInv, Linked, Holding, Critical,
     Threads, ProducerLabels, SpoolLabels
<1>4. ASSUME NEW p \in Producers, QAddUnlockEmpty(p) PROVE ListInv'
  BY <1>4, MBufferAssumption DEF QAddUnlockEmpty, Goto, Lock, Unlock,
     listVars, wireVars, TypeOK, MutexInv, CellInv, ListInv, Linked, Holding,
     Critical, Threads, ProducerLabels, SpoolLabels
<1>5. ASSUME NEW p \in Producers, QAddLock(p) PROVE ListInv'
  BY <1>5, MBufferAssumption DEF QAddLock, Goto, Lock, Unlock, listVars,
     wireVars, TypeOK, MutexInv, CellInv, ListInv, Linked, Holding, Critical,
     Threads, ProducerLabels, SpoolLabels
<1>6. ASSUME NEW p \in Producers, QAddAppend(p) PROVE ListInv'
  BY <1>6, MBufferAssumption DEF QAddAppend, Goto, Lock, Unlock, listVars,
     wireVars, TypeOK, MutexInv, CellInv, ListInv, Linked, Holding, Critical,
     Threads, ProducerLabels, SpoolLabels
<1>7. ASSUME NEW p \in Producers, QAddFixHead(p) PROVE ListInv'
  BY <1>7, MBufferAssumption DEF QAddFixHead, Goto, Lock, Unlock, listVars,
     wireVars, TypeOK, MutexInv, CellInv, ListInv, Linked, Holding, Critical,
     Threads, ProducerLabels, SpoolLabels
<1>8. ASSUME NEW p \in Producers, QAddUnlock(p) PROVE ListInv'
  BY <1>8, MBufferAssumption DEF QAddUnlock, Goto, Lock, Unlock, listVars,
     wireVars, TypeOK, MutexInv, CellInv, ListInv, Linked, Holding, Critical,
     Threads, ProducerLabels, SpoolLabels
<1>9. CASE SpoolLockEmpty
  BY <1>9, MBufferAssumption DEF SpoolLockEmpty, Goto, Lock, Unlock,
     listVars, wireVars, TypeOK, MutexInv, CellInv, ListInv, Linked, Holding,
     Critical, Threads, ProducerLabels, SpoolLabels
<1>10. CASE SpoolLock
  BY <1>10, MBufferAssumption DEF SpoolLock, Goto, Lock, Unlock, listVars,
     wireVars, TypeOK, MutexInv, CellInv, ListInv, Linked, Holding, Critical,
     Threads, ProducerLabels, SpoolLabels
<1>11. CASE SpoolWrite
  BY <1>11, MBufferAssumption
     DEF SpoolWrite, WriteData, Goto, Lock, Unlock, listVars, wireVars,
         TypeOK, MutexInv, CellInv, ListInv, Linked, Holding, Critical,
         Threads, ProducerLabels, SpoolLabels
<1>12. CASE SpoolNullHead
  BY <1>12, MBufferAssumption DEF SpoolNullHead, Goto, Lock, Unlock,
     listVars, wireVars, TypeOK, MutexInv, CellInv, ListInv, Linked, Holding,
     Critical, Threads, ProducerLabels, SpoolLabels
<1>13. CASE SpoolBrokenPipe
  BY <1>13, MBufferAssumption DEF SpoolBrokenPipe, Goto, Lock, Unlock,
     listVars, wireVars, TypeOK, MutexInv, CellInv, ListInv, Linked, Holding,
     Critical, Threads, ProducerLabels, SpoolLabels
<1>14. CASE SpoolShift
  BY <1>14, MBufferAssumption
     DEF SpoolShift, ShiftHead, Goto, Lock, Unlock, listVars, wireVars,
         TypeOK, MutexInv, CellInv, ListInv, Linked, Holding, Critical,
         Threads, ProducerLabels, SpoolLabels
<1>15. CASE SpoolUnlock
  BY <1>15, MBufferAssumption DEF SpoolUnlock, Goto, Lock, Unlock, listVars,
     wireVars, TypeOK, MutexInv, CellInv, ListInv, Linked, Holding, Critical,
     Threads, ProducerLabels, SpoolLabels
<1>16. CASE SpoolFree
  BY <1>16, MBufferAssumption DEF SpoolFree, Goto, Lock, Unlock, listVars,
     wireVars, TypeOK, MutexInv, CellInv, ListInv, Linked, Holding, Critical,
     Threads, ProducerLabels, SpoolLabels
<1> QED
  BY <1>1, <1>2, <1>3, <1>4, <1>5, <1>6, <1>7, <1>8, <1>9, <1>10, <1>11,
     <1>12, <1>13, <1>14, <1>15, <1>16 DEF Next, QAddData, QSpoolData

(* Only the write() touches the wire, and it writes the next ticket.       *)
LEMMA WireInvStep ==
  ASSUME TypeOK, MutexInv, CellInv, ListInv, WireInv, [Next]_vars
  PROVE  WireInv'
<1>1. CASE UNCHANGED vars
  BY <1>1 DEF vars, TypeOK, CellInv, ListInv, WireInv, Done, Linked,
     Threads, ProducerLabels, SpoolLabels
<1>2. ASSUME NEW p \in Producers, QAddMalloc(p) PROVE WireInv'
  BY <1>2, MBufferAssumption DEF QAddMalloc, Goto, Lock, Unlock, listVars,
     wireVars, TypeOK, CellInv, ListInv, WireInv, Done, Linked, Threads,
     ProducerLabels, SpoolLabels
<1>3. ASSUME NEW p \in Producers, QAddNoMemory(p) PROVE WireInv'
  BY <1>3, MBufferAssumption DEF QAddNoMemory, Goto, Lock, Unlock, listVars,
     wireVars, TypeOK, CellInv, ListInv, WireInv, Done, Linked, Threads,
     ProducerLabels, SpoolLabels
<1>4. ASSUME NEW p \in Producers, QAddUnlockEmpty(p) PROVE WireInv'
  BY <1>4, MBufferAssumption DEF QAddUnlockEmpty, Goto, Lock, Unlock,
     listVars, wireVars, TypeOK, CellInv, ListInv, WireInv, Done, Linked,
     Threads, ProducerLabels, SpoolLabels
<1>5. ASSUME NEW p \in Producers, QAddLock(p) PROVE WireInv'
  BY <1>5, MBufferAssumption DEF QAddLock, Goto, Lock, Unlock, listVars,
     wireVars, TypeOK, CellInv, ListInv, WireInv, Done, Linked, Threads,
     ProducerLabels, SpoolLabels
<1>6. ASSUME NEW p \in Producers, QAddAppend(p) PROVE WireInv'
  BY <1>6, MBufferAssumption DEF QAddAppend, Goto, Lock, Unlock, listVars,
     wireVars, TypeOK, CellInv, ListInv, WireInv, Done, Linked, Threads,
     ProducerLabels, SpoolLabels
<1>7. ASSUME NEW p \in Producers, QAddFixHead(p) PROVE WireInv'
  BY <1>7, MBufferAssumption DEF QAddFixHead, Goto, Lock, Unlock, listVars,
     wireVars, TypeOK, CellInv, ListInv, WireInv, Done, Linked, Threads,
     ProducerLabels, SpoolLabels
<1>8. ASSUME NEW p \in Producers, QAddUnlock(p) PROVE WireInv'
  BY <1>8, MBufferAssumption DEF QAddUnlock, Goto, Lock, Unlock, listVars,
     wireVars, TypeOK, CellInv, ListInv, WireInv, Done, Linked, Threads,
     ProducerLabels, SpoolLabels
<1>9. CASE SpoolLockEmpty
  BY <1>9, MBufferAssumption DEF SpoolLockEmpty, Goto, Lock, Unlock,
     listVars, wireVars, TypeOK, CellInv, ListInv, WireInv, Done, Linked,
     Threads, ProducerLabels, SpoolLabels
<1>10. CASE SpoolLock
  BY <1>10, MBufferAssumption DEF SpoolLock, Goto, Lock, Unlock, listVars,
     wireVars, TypeOK, CellInv, ListInv, WireInv, Done, Linked, Threads,
     ProducerLabels, SpoolLabels
<1>11. CASE SpoolWrite
  <2> DEFINE t == data[head]
  <2>1. /\ t = spooled + 1 /\ t \in Nat /\ t <= added
        /\ Done = spooled /\ Done' = t
    BY <1>11, MBufferAssumption
       DEF SpoolWrite, WriteData, Goto, listVars, TypeOK, ListInv, Done,
           Linked, Threads
  <2> HIDE DEF t
  <2>2. lost \subseteq 1..spooled /\ spooled \in Nat
    BY <2>1 DEF WireInv, TypeOK
  <2>3. CASE wire' = Append(wire, t) /\ UNCHANGED lost
    <3>1. /\ wire \in Seq(Nat) /\ Len(wire') = Len(wire) + 1
          /\ \A i \in 1..Len(wire) : wire'[i] = wire[i]
          /\ wire'[Len(wire) + 1] = t
      BY <2>1, <2>3 DEF TypeOK
    <3>2. \A i \in 1..Len(wire') : wire'[i] \in 1..t /\ wire'[i] \notin lost'
      BY <2>1, <2>2, <2>3, <3>1 DEF WireInv
    <3>3. \A i, j \in 1..Len(wire') : i < j => wire'[i] < wire'[j]
      <4>1. \A i \in 1..Len(wire) : wire[i] \in Nat /\ wire[i] < t
        BY <2>1, <2>2 DEF WireInv
      <4>2. \A i, j \in 1..Len(wire) : i < j => wire[i] < wire[j]
        BY DEF WireInv
      <4>3. Len(wire) \in Nat
        BY <3>1
      <4> QED
        BY <3>1, <4>1, <4>2, <4>3
    <3>4. \A u \in 1..t : u \in lost' \/ \E i \in 1..Len(wire') : wire'[i] = u
      <4> SUFFICES ASSUME NEW u \in 1..t
                   PROVE  u \in lost' \/ \E i \in 1..Len(wire') : wire'[i] = u
        OBVIOUS
      <4>1. CASE u = t
        BY <3>1, <4>1
      <4>2. CASE u # t
        BY <2>1, <2>2, <2>3, <3>1, <4>2 DEF WireInv
      <4> QED
        BY <4>1, <4>2
    <3> QED
      BY <1>11, <2>1, <2>2, <2>3, <3>2, <3>3, <3>4
         DEF SpoolWrite, WriteData, WireInv
  <2>4. CASE lost' = lost \cup {t} /\ UNCHANGED wire
    BY <1>11, <2>1, <2>2, <2>4 DEF SpoolWrite, WriteData, WireInv
  <2> QED
    BY <1>11, <2>3, <2>4 DEF SpoolWrite, WriteData, t
<1>12. CASE SpoolNullHead
  BY <1>12, MBufferAssumption DEF SpoolNullHead, Goto, Lock, Unlock,
     listVars, wireVars, TypeOK, CellInv, ListInv, WireInv, Done, Linked,
     Threads, ProducerLabels, SpoolLabels
<1>13. CASE SpoolBrokenPipe
  BY <1>13, MBufferAssumption DEF SpoolBrokenPipe, Goto, Lock, Unlock,
     listVars, wireVars, TypeOK, CellInv, ListInv, WireInv, Done, Linked,
     Threads, ProducerLabels, SpoolLabels
<1>14. CASE SpoolShift
  BY <1>14, MBufferAssumption
     DEF SpoolShift, ShiftHead, Goto, Lock, Unlock, listVars, wireVars,
         TypeOK, CellInv, ListInv, WireInv, Done, Linked, Threads,
         ProducerLabels, SpoolLabels
<1>15. CASE SpoolUnlock
  BY <1>15, MBufferAssumption DEF SpoolUnlock, Goto, Lock, Unlock, listVars,
     wireVars, TypeOK, CellInv, ListInv, WireInv, Done, Linked, Threads,
     ProducerLabels, SpoolLabels
<1>16. CASE SpoolFree
  BY <1>16, MBufferAssumption DEF SpoolFree, Goto, Lock, Unlock, listVars,
     wireVars, TypeOK, CellInv, ListInv, WireInv, Done, Linked, Threads,
     ProducerLabels, SpoolLabels
<1> QED
  BY <1>1, <1>2, <1>3, <1>4, <1>5, <1>6, <1>7, <1>8, <1>9, <1>10, <1>11,
     <1>12, <1>13, <1>14, <1>15, <1>16 DEF Next, QAddData, QSpoolData

(* The gate is open only for an element that is linked or on its way.      *)
LEMMA GateInvStep ==
  ASSUME TypeOK, MutexInv, CellInv, ListInv, GateInv, [Next]_vars
  PROVE  GateInv'
<1>1. CASE UNCHANGED vars
  BY <1>1 DEF vars, TypeOK, MutexInv, CellInv, GateInv, Outstanding,
     SpoolPastGate, Pending, Linked, Holding, Critical, Threads,
     ProducerLabels, SpoolLabels
<1>2. ASSUME NEW p \in Producers, QAddMalloc(p) PROVE GateInv'
  <2>1. Linked' = Linked /\ Pending' = Pending
    BY <1>2, MBufferAssumption
       DEF QAddMalloc, Goto, Linked, Pending, TypeOK, Threads
  <2>2. \A q \in Pending : element'[q] = element[q]
    BY <1>2 DEF QAddMalloc, Goto, Pending, TypeOK, Threads
  <2>3. Outstanding' = Outstanding
    BY <2>1, <2>2 DEF Outstanding
  <2> QED
    BY <1>2, <2>3, MBufferAssumption
       DEF QAddMalloc, Goto, GateInv, SpoolPastGate, TypeOK, Threads
<1>3. ASSUME NEW p \in Producers, QAddNoMemory(p) PROVE GateInv'
  BY <1>3, MBufferAssumption DEF QAddNoMemory, Goto, Lock, Unlock, listVars,
     wireVars, TypeOK, MutexInv, CellInv, GateInv, Outstanding, SpoolPastGate,
     Pending, Linked, Holding, Critical, Threads, ProducerLabels, SpoolLabels
<1>4. ASSUME NEW p \in Producers, QAddUnlockEmpty(p) PROVE GateInv'
  BY <1>4, MBufferAssumption DEF QAddUnlockEmpty, Goto, Lock, Unlock,
     listVars, wireVars, TypeOK, MutexInv, CellInv, GateInv, Outstanding,
     SpoolPastGate, Pending, Linked, Holding, Critical, Threads,
     ProducerLabels, SpoolLabels
<1>5. ASSUME NEW p \in Producers, QAddLock(p) PROVE GateInv'
  BY <1>5, MBufferAssumption DEF QAddLock, Goto, Lock, Unlock, listVars,
     wireVars, TypeOK, MutexInv, CellInv, GateInv, Outstanding, SpoolPastGate,
     Pending, Linked, Holding, Critical, Threads, ProducerLabels, SpoolLabels
<1>6. ASSUME NEW p \in Producers, QAddAppend(p) PROVE GateInv'
  BY <1>6, MBufferAssumption DEF QAddAppend, Goto, Lock, Unlock, listVars,
     wireVars, TypeOK, MutexInv, CellInv, GateInv, Outstanding, SpoolPastGate,
     Pending, Linked, Holding, Critical, Threads, ProducerLabels, SpoolLabels
<1>7. ASSUME NEW p \in Producers, QAddFixHead(p) PROVE GateInv'
  BY <1>7, MBufferAssumption DEF QAddFixHead, Goto, Lock, Unlock, listVars,
     wireVars, TypeOK, MutexInv, CellInv, GateInv, Outstanding, SpoolPastGate,
     Pending, Linked, Holding, Critical, Threads, ProducerLabels, SpoolLabels
<1>8. ASSUME NEW p \in Producers, QAddUnlock(p) PROVE GateInv'
  BY <1>8, MBufferAssumption DEF QAddUnlock, Goto, Lock, Unlock, listVars,
     wireVars, TypeOK, MutexInv, CellInv, GateInv, Outstanding, SpoolPastGate,
     Pending, Linked, Holding, Critical, Threads, ProducerLabels, SpoolLabels
<1>9. CASE SpoolLockEmpty
  BY <1>9, MBufferAssumption DEF SpoolLockEmpty, Goto, Lock, Unlock,
     listVars, wireVars, TypeOK, MutexInv, CellInv, GateInv, Outstanding,
     SpoolPastGate, Pending, Linked, Holding, Critical, Threads,
     ProducerLabels, SpoolLabels
<1>10. CASE SpoolLock
  BY <1>10, MBufferAssumption DEF SpoolLock, Goto, Lock, Unlock, listVars,
     wireVars, TypeOK, MutexInv, CellInv, GateInv, Outstanding, SpoolPastGate,
     Pending, Linked, Holding, Critical, Threads, ProducerLabels, SpoolLabels
<1>11. CASE SpoolWrite
  BY <1>11, MBufferAssumption
     DEF SpoolWrite, WriteData, Goto, Lock, Unlock, listVars, wireVars,
         TypeOK, MutexInv, CellInv, GateInv, Outstanding, SpoolPastGate,
         Pending, Linked, Holding, Critical, Threads, ProducerLabels,
         SpoolLabels
<1>12. CASE SpoolNullHead
  BY <1>12, MBufferAssumption DEF SpoolNullHead, Goto, Lock, Unlock,
     listVars, wireVars, TypeOK, MutexInv, CellInv, GateInv, Outstanding,
     SpoolPastGate, Pending, Linked, Holding, Critical, Threads,
     ProducerLabels, SpoolLabels
<1>13. CASE SpoolBrokenPipe
  BY <1>13, MBufferAssumption DEF SpoolBrokenPipe, Goto, Lock, Unlock,
     listVars, wireVars, TypeOK, MutexInv, CellInv, GateInv, Outstanding,
     SpoolPastGate, Pending, Linked, Holding, Critical, Threads,
     ProducerLabels, SpoolLabels
<1>14. CASE SpoolShift
  <2> DEFINE e == element[Spool]
  <2>1. /\ e = head /\ e \in Linked /\ pc[Spool] = "shift"
        /\ Linked' = Linked \ {e} /\ Pending' = Pending
        /\ element' = element /\ ~SpoolPastGate'
    BY <1>14, MBufferAssumption
       DEF SpoolShift, ShiftHead, Goto, CellInv, ListInv, Linked, Pending,
           SpoolPastGate, TypeOK, Threads
  <2>2. \A q \in Pending : element[q] # e
    BY <2>1 DEF Pending, Linked, CellInv, Holding
  <2>3. Outstanding' = Outstanding \ {e}
    BY <2>1, <2>2 DEF Outstanding
  <2>4. ASSUME ~empty_mutex PROVE Outstanding' # {}
    BY <2>1, <2>3, <2>4 DEF GateInv, SpoolPastGate
  <2>5. ASSUME next[e] # NULL PROVE Outstanding' # {}
    <3>1. next[e] \in Linked /\ data[next[e]] = data[e] + 1 /\ data[e] \in Nat
      BY <2>1, <2>5 DEF ListInv, TypeOK, Linked
    <3> QED
      BY <2>3, <3>1 DEF Outstanding
  <2> QED
    BY <1>14, <2>1, <2>4, <2>5 DEF SpoolShift, ShiftHead, Goto, GateInv
<1>15. CASE SpoolUnlock
  BY <1>15, MBufferAssumption DEF SpoolUnlock, Goto, Lock, Unlock, listVars,
     wireVars, TypeOK, MutexInv, CellInv, GateInv, Outstanding, SpoolPastGate,
     Pending, Linked, Holding, Critical, Threads, ProducerLabels, SpoolLabels
<1>16. CASE SpoolFree
  BY <1>16, MBufferAssumption DEF SpoolFree, Goto, Lock, Unlock, listVars,
     wireVars, TypeOK, MutexInv, CellInv, GateInv, Outstanding, SpoolPastGate,
     Pending, Linked, Holding, Critical, Threads, ProducerLabels, SpoolLabels
<1> QED
  BY <1>1, <1>2, <1>3, <1>4, <1>5, <1>6, <1>7, <1>8, <1>9, <1>10, <1>11,
     <1>12, <1>13, <1>14, <1>15, <1>16 DEF Next, QAddData, QSpoolData

-----------------------------------------------------------------------------
(* The freshly initialised buffer satisfies the invariant.                 *)
LEMMA InitIInv == Init => IInv
<1> SUFFICES ASSUME Init PROVE IInv
  OBVIOUS
<1> USE MBufferAssumption DEF Init, QInit, Threads, Linked
<1>1. TypeOK
  BY DEF TypeOK, ProducerLabels, SpoolLabels
<1>2. MutexInv /\ CellInv
  BY DEF MutexInv, CellInv, Critical, Holding
<1>3. ListInv
  BY DEF ListInv
<1>4. WireInv
  BY DEF WireInv, Done
<1>5. GateInv
  BY DEF GateInv, SpoolPastGate
<1> QED
  BY <1>1, <1>2, <1>3, <1>4, <1>5 DEF IInv

(* IInv is inductive.                                                      *)
LEMMA IInvStep ==
  ASSUME IInv, [Next]_vars
  PROVE  IInv'
BY TypeOKStep, MutexInvStep, CellInvStep, ListInvStep, WireInvStep,
   GateInvStep DEF IInv

(* In every reachable state of the spool all the parts of IInv hold.       *)
THEOREM Invariance == Spec => []IInv
BY InitIInv, IInvStep, PTL DEF Spec

(* The variables keep their types, for any number of producers, cells and  *)
(* calls.                                                                  *)
THEOREM TypeCorrect == Spec => []TypeOK
<1>1. IInv => TypeOK
  BY DEF IInv
<1> QED
  BY <1>1, Invariance, PTL

(* The shared list is never broken: QAddData never writes through a freed  *)
(* tail and the spool never writes from a freed head.                      *)
THEOREM ListIsIntact == Spec => []ListIntact
<1>1. IInv => ListIntact
  BY DEF IInv, ListIntact
<1> QED
  BY <1>1, Invariance, PTL

(* Packets leave in the order they were linked, each at most once, and     *)
(* none leaves without a write().                                          *)
THEOREM PacketsInOrder == Spec => []InOrderOnce
<1>1. IInv => InOrderOnce
  BY DEF IInv, InOrderOnce
<1> QED
  BY <1>1, Invariance, PTL

(* The only way to the null dereference in QSpoolData is the early unlock  *)
(* of QAddData: at the crash some producer is between its unlock of        *)
(* empty_mutex and its lock of mutex.                                      *)
THEOREM CrashOnlyInWindow == Spec => []CrashWindow
<1>1. IInv => CrashWindow
  <2> SUFFICES ASSUME IInv, process = "segv"
               PROVE  \E p \in Producers : pc[p] = "lockMutex"
    BY DEF CrashWindow
  <2>1. pc[Spool] = "write" /\ head = NULL /\ Outstanding # {}
    BY DEF IInv, GateInv, SpoolPastGate
  <2>2. mutex = Spool
    BY <2>1 DEF IInv, MutexInv, Critical, Threads
  <2>3. \A p \in Producers : pc[p] # "append" /\ pc[p] # "fixHead"
    BY <2>2, MBufferAssumption DEF IInv, MutexInv, Critical, Threads
  <2>4. Linked = {}
    BY <2>1, <2>3 DEF IInv, ListInv
  <2> QED
    BY <2>1, <2>3, <2>4 DEF Outstanding, Pending
<1> QED
  BY <1>1, Invariance, PTL

-----------------------------------------------------------------------------
(* Every step of the spool is a step of the abstract spool or leaves it    *)
(* unchanged: linking a packet is Add, a write() is Send or GiveUp.        *)
LEMMA FifoStep ==
  ASSUME IInv, [Next]_vars
  PROVE  [Fifo!Next]_(Fifo!fifoVars)
<1> USE DEF Fifo!fifoVars, Done, Goto, wireVars, listVars, IInv
<1>1. CASE UNCHANGED vars
  BY <1>1 DEF vars
<1>2. ASSUME NEW p \in Producers, QAddAppend(p) PROVE Fifo!Add
  BY <1>2, MBufferAssumption DEF QAddAppend, Fifo!Add, TypeOK, Threads
<1>3. ASSUME NEW p \in Producers,
             \/ QAddMalloc(p) \/ QAddNoMemory(p) \/ QAddUnlockEmpty(p)
             \/ QAddLock(p) \/ QAddFixHead(p) \/ QAddUnlock(p)
      PROVE  UNCHANGED Fifo!fifoVars
  BY <1>3, MBufferAssumption
     DEF QAddMalloc, QAddNoMemory, QAddUnlockEmpty, QAddLock, QAddFixHead,
         QAddUnlock, TypeOK, Threads
<1>4. CASE SpoolWrite
  <2>1. data[head] = spooled + 1 /\ spooled + 1 <= added
    BY <1>4 DEF SpoolWrite, WriteData, ListInv, Linked, TypeOK
  <2>2. /\ pc[Spool] = "write" /\ pc'[Spool] = "shift"
        /\ UNCHANGED <<added, spooled>>
    BY <1>4 DEF SpoolWrite, WriteData, TypeOK, Threads
  <2>3. CASE wire' = Append(wire, data[head])
    BY <2>1, <2>2, <2>3 DEF Fifo!Send, Fifo!Next, TypeOK
  <2>4. CASE UNCHANGED wire
    BY <2>1, <2>2, <2>4 DEF Fifo!GiveUp, Fifo!Next, TypeOK
  <2> QED
    BY <1>4, <2>3, <2>4 DEF SpoolWrite, WriteData
<1>5. CASE SpoolShift
  BY <1>5 DEF SpoolShift, ShiftHead, TypeOK, Threads
<1>6. CASE \/ SpoolLockEmpty \/ SpoolLock \/ SpoolNullHead
           \/ SpoolBrokenPipe \/ SpoolUnlock \/ SpoolFree
  BY <1>6
     DEF SpoolLockEmpty, SpoolLock, SpoolNullHead, SpoolBrokenPipe,
         SpoolUnlock, SpoolFree, TypeOK, Threads
<1> QED
  BY <1>1, <1>2, <1>3, <1>4, <1>5, <1>6
     DEF Next, QAddData, QSpoolData, Fifo!Next

(* The spool implements the abstract first-in first-out spool.             *)
THEOREM ImplementsFifo == Spec => FifoSpec
<1>1. Init => Fifo!Init
  BY MBufferAssumption DEF Init, QInit, Fifo!Init, Done, Threads
<1> QED
  BY <1>1, Invariance, FifoStep, PTL DEF Spec, FifoSpec, Fifo!Spec

=============================================================================
