-------------------------- MODULE DirectoryProofs ---------------------------
(***************************************************************************)
(* Proofs about Directory: what a database that has not failed promises,   *)
(* for every number of calls, monitors and controllers.                    *)
(***************************************************************************)
EXTENDS Directory, TLAPS

(* Where a call and its thread are while nothing has failed.               *)
Together(k) ==
  /\ call[k] = "idle" => thread[k] = "none" /\ ~reply[k].sent
  /\ call[k] = "request" => thread[k] \in {"connect", "read"} /\ ~reply[k].sent
  /\ call[k] = "wait" => thread[k] \in {"connect", "read"}
  /\ call[k] # "crashed"
  /\ call[k] = "ended" => reply[k].sent

UpInv == ~failed =>
  cassandra = "up" /\ daemon = "up" /\ \A k \in Calls : Together(k)

(* An address that some controller has sent for a monitor.                 *)
Told(m, a) ==
  \E p \in Puts : call[p] # "idle" /\ MonitorOf[p] = m /\ ControllerOf[p] = a

ToldInv == ~failed =>
  /\ \A m \in Monitors : table[m] # NULL => Told(m, table[m])
  /\ \A k \in Gets : reply[k].sent /\ reply[k].value # NULL =>
       Told(MonitorOf[k], reply[k].value)
  /\ \A k \in Gets : result[k] # NULL => Told(MonitorOf[k], result[k])

(* Puts that do not overlap: at most one for a monitor is under way, it is *)
(* the latest, and the row is written when it has its answer.              *)
PutInv == ~failed /\ ~overlapped =>
  /\ \A p, q \in Puts :
       Pending(p) /\ Pending(q) /\ MonitorOf[p] = MonitorOf[q] => p = q
  /\ \A p \in Puts : Pending(p) =>
       /\ latest[MonitorOf[p]] = ControllerOf[p]
       /\ reply[p].sent => table[MonitorOf[p]] = ControllerOf[p]
  /\ \A m \in Monitors :
       (\A p \in Puts : MonitorOf[p] = m => ~Pending(p)) => table[m] = latest[m]

DInv == TypeOK /\ UpInv /\ ToldInv /\ PutInv

LEMMA TypeOKStep ==
  ASSUME TypeOK, [Next]_vars
  PROVE  TypeOK'
<1> USE DirectoryAssumption DEF TypeOK, Addresses, None, Reply, Calls, Goto
<1>1. CASE UNCHANGED vars
  BY <1>1 DEF vars, servers, history
<1>2. ASSUME NEW k \in Calls, LibDb(k) PROVE TypeOK'
  <2>1. CASE Begin(k)
    BY <2>1 DEF Begin, servers, AfterNull
  <2>2. CASE Send(k)
    BY <2>2 DEF Send, servers, history
  <2>3. CASE Receive(k)
    <3>1. reply[k].value \in Controllers \cup {NULL}
      <4>1. reply[k] # [sent |-> FALSE]
        BY <2>3 DEF Receive
      <4> QED
        BY <4>1
    <3>2. result' \in [Gets -> Controllers \cup {NULL} \cup {Garbage}]
      BY <2>3, <3>1 DEF Receive
    <3> QED
      BY <2>3, <3>2 DEF Receive, servers, history
  <2>4. CASE ReceiveNothing(k)
    BY <2>4 DEF ReceiveNothing, servers, history
  <2> QED
    BY <1>2, <2>1, <2>2, <2>3, <2>4 DEF LibDb
<1>3. ASSUME NEW k \in Calls, ServerThread(k) PROVE TypeOK'
  <2>1. CASE Connect(k)
    BY <2>1 DEF Connect, servers, history
  <2>2. CASE ProcessPut(k)
    BY <2>2 DEF ProcessPut, Asked, servers, history
  <2>3. CASE ProcessGet(k)
    <3>1. [sent |-> TRUE, value |-> table[MonitorOf[k]]]
            \in [sent : {TRUE}, value : Controllers \cup {NULL}]
      BY <2>3 DEF ProcessGet
    <3>2. CASE cassandra = "up"
      <4>1. reply' = [reply EXCEPT ![k] =
                        [sent |-> TRUE, value |-> table[MonitorOf[k]]]]
        BY <2>3, <3>2 DEF ProcessGet
      <4>2. reply' \in [Puts \cup Gets ->
                         {[sent |-> FALSE]}
                           \cup [sent : {TRUE}, value : Controllers \cup {NULL}]]
        BY <3>1, <4>1
      <4>3. UNCHANGED <<cassandra, daemon, table, call, thread, result, latest,
                        failed, overlapped>>
        BY <2>3, <3>2 DEF ProcessGet, servers, history
      <4> QED
        BY <4>2, <4>3
    <3>3. CASE cassandra # "up"
      BY <2>3, <3>3 DEF ProcessGet, Asked, servers, history
    <3> QED
      BY <3>2, <3>3
  <2>4. CASE Hangup(k)
    BY <2>4 DEF Hangup, servers, history
  <2> QED
    BY <1>3, <2>1, <2>2, <2>3, <2>4 DEF ServerThread
<1>4. CASE CassandraChanges \/ DaemonStops
  BY <1>4 DEF CassandraChanges, DaemonStops
<1> QED
  BY <1>1, <1>2, <1>3, <1>4 DEF Next

(* The steps a call can take while nothing fails.                          *)
LEMMA BeginStep ==
  ASSUME DInv, NEW k \in Calls, Begin(k), ~failed
  PROVE  UpInv' /\ ToldInv' /\ PutInv'
<1> USE DirectoryAssumption DEF Calls
<1>1. daemon = "up" /\ cassandra = "up" /\ \A j \in Calls : Together(j)
  BY DEF DInv, UpInv
<1>2. /\ call[k] = "idle" /\ call' = [call EXCEPT ![k] = "request"]
      /\ thread' = [thread EXCEPT ![k] = "connect"]
      /\ UNCHANGED <<cassandra, daemon, table, reply, result, failed>>
  BY <1>1 DEF Begin, Goto, servers
<1>3. \A j \in Calls : call'[j] = IF j = k THEN "request" ELSE call[j]
  BY <1>2 DEF DInv, TypeOK
<1>4. UpInv'
  BY <1>1, <1>2, <1>3 DEF UpInv, Together, DInv, TypeOK
<1>5. ToldInv'
  BY <1>2, <1>3 DEF DInv, ToldInv, Told
<1>6. PutInv'
  <2>1. CASE k \in Puts
    <3>1. /\ latest' = [latest EXCEPT ![MonitorOf[k]] = ControllerOf[k]]
          /\ ~overlapped' => /\ ~overlapped
                             /\ \A p \in Puts \ {k} :
                                  Pending(p) => MonitorOf[p] # MonitorOf[k]
      BY <2>1 DEF Begin
    <3>2. \A p \in Puts : Pending(p)' <=> (p = k \/ Pending(p))
      BY <1>3 DEF Pending
    <3>3. ~reply[k].sent
      BY <1>1, <1>2 DEF Together
    <3>4. \A m \in Monitors : latest'[m] =
            IF m = MonitorOf[k] THEN ControllerOf[k] ELSE latest[m]
      BY <3>1 DEF DInv, TypeOK
    <3> QED
      BY <1>2, <2>1, <3>1, <3>2, <3>3, <3>4 DEF DInv, PutInv
  <2>2. CASE k \notin Puts
    <3>1. UNCHANGED <<latest, overlapped>>
      BY <2>2 DEF Begin
    <3>2. \A p \in Puts : Pending(p)' <=> Pending(p)
      BY <1>3, <2>2 DEF Pending
    <3> QED
      BY <1>2, <3>1, <3>2 DEF DInv, PutInv
  <2> QED
    BY <2>1, <2>2
<1> QED
  BY <1>4, <1>5, <1>6

LEMMA TalkStep ==
  ASSUME DInv, NEW k \in Calls, Send(k) \/ Receive(k) \/ ReceiveNothing(k),
         ~failed
  PROVE  UpInv' /\ ToldInv' /\ PutInv'
<1> USE DirectoryAssumption DEF Calls
<1>1. daemon = "up" /\ cassandra = "up" /\ \A j \in Calls : Together(j)
  BY DEF DInv, UpInv
<1>2. ~(call[k] \in {"request", "wait"} /\ Closed(k))
  BY <1>1 DEF Together, Closed
<1>3. CASE Send(k)
  <2>1. /\ call[k] = "request" /\ call' = [call EXCEPT ![k] = "wait"]
        /\ UNCHANGED <<cassandra, daemon, table, thread, reply, result, latest,
                       failed, overlapped>>
    BY <1>2, <1>3 DEF Send, Goto, servers, history
  <2>2. \A j \in Calls : call'[j] = IF j = k THEN "wait" ELSE call[j]
    BY <2>1 DEF DInv, TypeOK
  <2>3. UpInv' /\ ToldInv'
    BY <1>1, <2>1, <2>2 DEF DInv, UpInv, Together, ToldInv, Told
  <2>4. PutInv'
    BY <2>1, <2>2 DEF DInv, PutInv, Pending
  <2> QED
    BY <2>3, <2>4
<1>4. CASE Receive(k)
  <2>1. /\ call[k] = "wait" /\ reply[k].sent
        /\ call' = [call EXCEPT ![k] = "ended"]
        /\ \A g \in Gets : result'[g] = IF g = k THEN reply[k].value ELSE result[g]
        /\ UNCHANGED <<cassandra, daemon, table, thread, reply, latest, failed,
                       overlapped>>
    BY <1>4 DEF Receive, Goto, servers, history
  <2>2. \A j \in Calls : call'[j] = IF j = k THEN "ended" ELSE call[j]
    BY <2>1 DEF DInv, TypeOK
  <2>3. UpInv'
    BY <1>1, <2>1, <2>2 DEF UpInv, Together
  <2>4. \A m, a : Told(m, a) => Told(m, a)'
    BY <2>2 DEF Told
  <2>5. ToldInv'
    BY <2>1, <2>4 DEF DInv, ToldInv
  <2>6. PutInv'
    <3>1. \A p \in Puts : Pending(p)' <=> Pending(p) /\ p # k
      BY <2>2 DEF Pending
    <3>2. k \in Puts => Pending(k)
      BY <2>1 DEF Pending
    <3> SUFFICES ASSUME ~overlapped PROVE PutInv'
      BY <2>1 DEF PutInv
    <3>3. ASSUME NEW m \in Monitors,
                 \A p \in Puts : MonitorOf[p] = m => ~Pending(p)'
          PROVE  table[m] = latest[m]
      <4>1. CASE k \in Puts /\ MonitorOf[k] = m
        BY <2>1, <3>2, <4>1 DEF DInv, PutInv
      <4>2. CASE ~(k \in Puts /\ MonitorOf[k] = m)
        BY <3>1, <3>3, <4>2 DEF DInv, PutInv
      <4> QED
        BY <4>1, <4>2
    <3> QED
      BY <2>1, <3>1, <3>3 DEF DInv, PutInv
  <2> QED
    BY <2>3, <2>5, <2>6
<1>5. CASE ReceiveNothing(k)
  BY <1>2, <1>5 DEF ReceiveNothing, Goto
<1> QED
  BY <1>3, <1>4, <1>5

LEMMA ServerStep ==
  ASSUME DInv, NEW k \in Calls, ServerThread(k), ~failed
  PROVE  UpInv' /\ ToldInv' /\ PutInv'
<1> USE DirectoryAssumption DEF Calls
<1>1. daemon = "up" /\ cassandra = "up" /\ \A j \in Calls : Together(j)
  BY DEF DInv, UpInv
<1>2. \A m, a : UNCHANGED call => (Told(m, a)' <=> Told(m, a))
  BY DEF Told
<1>3. CASE Connect(k) \/ Hangup(k)
  <2>1. /\ UNCHANGED <<cassandra, daemon, table, call, reply, result, latest,
                       failed, overlapped>>
        /\ \A j \in Calls : j # k => thread'[j] = thread[j]
    BY <1>3 DEF Connect, Hangup, servers, history, DInv, TypeOK
  <2>2. Connect(k) => thread'[k] = "read" /\ thread[k] = "connect"
    BY <1>1 DEF Connect, DInv, TypeOK
  <2>3. Hangup(k) => call[k] = "ended"
    BY <1>1 DEF Hangup, Together
  <2>4. UpInv'
    BY <1>1, <1>3, <2>1, <2>2, <2>3 DEF UpInv, Together
  <2>5. ToldInv' /\ PutInv'
    BY <1>2, <2>1 DEF DInv, ToldInv, PutInv, Pending
  <2> QED
    BY <2>4, <2>5
<1>4. CASE ProcessPut(k)
  <2>1. /\ k \in Puts /\ call[k] = "wait"
        /\ table' = [table EXCEPT ![MonitorOf[k]] = ControllerOf[k]]
        /\ reply' = [reply EXCEPT ![k] = Reply(NULL)]
        /\ UNCHANGED <<cassandra, daemon, call, thread, result, latest, failed,
                       overlapped>>
    BY <1>1, <1>4 DEF ProcessPut, Asked, servers, history
  <2>2. \A j \in Calls : /\ j # k => reply'[j] = reply[j]
                         /\ j = k => reply'[j].sent
    BY <2>1 DEF DInv, TypeOK, Reply
  <2>3. \A m \in Monitors : table'[m] =
          IF m = MonitorOf[k] THEN ControllerOf[k] ELSE table[m]
    BY <2>1 DEF DInv, TypeOK
  <2>4. UpInv'
    BY <1>1, <2>1, <2>2 DEF UpInv, Together
  <2>5. ToldInv'
    <3>1. Told(MonitorOf[k], ControllerOf[k])
      BY <2>1 DEF Told
    <3> QED
      BY <1>2, <2>1, <2>2, <2>3, <3>1 DEF DInv, ToldInv
  <2>6. PutInv'
    <3>1. Pending(k)
      BY <2>1 DEF Pending
    <3> QED
      BY <2>1, <2>2, <2>3, <3>1 DEF DInv, PutInv, Pending
  <2> QED
    BY <2>4, <2>5, <2>6
<1>5. CASE ProcessGet(k)
  <2>1. /\ k \in Gets /\ call[k] = "wait"
        /\ reply' = [reply EXCEPT ![k] = Reply(table[MonitorOf[k]])]
        /\ UNCHANGED <<cassandra, daemon, table, call, thread, result, latest,
                       failed, overlapped>>
    BY <1>1, <1>5 DEF ProcessGet, Asked, servers, history
  <2>2. \A j \in Calls : /\ j # k => reply'[j] = reply[j]
                         /\ j = k => /\ reply'[j].sent
                                     /\ reply'[j].value = table[MonitorOf[k]]
    BY <2>1 DEF DInv, TypeOK, Reply
  <2>3. UpInv'
    BY <1>1, <2>1, <2>2 DEF UpInv, Together
  <2>4. ToldInv'
    BY <1>2, <2>1, <2>2 DEF DInv, ToldInv
  <2>5. PutInv'
    <3>1. \A p \in Puts : p # k
      BY <2>1
    <3> QED
      BY <2>1, <2>2, <3>1 DEF DInv, PutInv, Pending
  <2> QED
    BY <2>3, <2>4, <2>5
<1> QED
  BY <1>3, <1>4, <1>5 DEF ServerThread

(* The parts of DInv hold at the start and after every step.               *)
LEMMA InitDInv == Init => DInv
<1> SUFFICES ASSUME Init PROVE DInv
  OBVIOUS
<1>1. TypeOK
  BY DEF Init, TypeOK, Addresses
<1>2. \A k \in Calls : /\ call[k] = "idle" /\ thread[k] = "none"
                       /\ reply[k] = None /\ ~reply[k].sent
  BY DEF Init, None
<1>3. UpInv
  BY <1>2 DEF Init, UpInv, Together
<1>4. ToldInv
  BY <1>2 DEF Init, ToldInv, Calls
<1>5. PutInv
  BY <1>2 DEF Init, PutInv, Pending, Calls
<1> QED
  BY <1>1, <1>3, <1>4, <1>5 DEF DInv

LEMMA DInvStep ==
  ASSUME DInv, [Next]_vars
  PROVE  DInv'
<1>1. TypeOK'
  BY TypeOKStep DEF DInv
<1>2. CASE UNCHANGED vars
  BY <1>1, <1>2
     DEF vars, servers, history, DInv, UpInv, Together, ToldInv, Told, PutInv,
         Pending
<1>3. CASE failed'
  BY <1>1, <1>3 DEF DInv, UpInv, ToldInv, PutInv
<1>4. CASE ~failed' /\ Next
  <2>1. PICK k \in Calls : LibDb(k) \/ ServerThread(k)
    BY <1>4 DEF Next, CassandraChanges, DaemonStops
  <2>2. ~failed
    BY <1>4, <2>1
       DEF LibDb, ServerThread, Begin, Send, Receive, ReceiveNothing, Connect,
           ProcessPut, ProcessGet, Hangup, history
  <2> QED
    BY <1>1, <2>1, <2>2, BeginStep, TalkStep, ServerStep DEF DInv, LibDb
<1> QED
  BY <1>2, <1>3, <1>4

(* DInv is an invariant.                                                   *)
THEOREM Invariance == Spec => []DInv
BY InitDInv, DInvStep, PTL DEF Spec

(* The database has the mapping of the controller that was the last to be  *)
(* told of a monitor (interpreter.c:110), unless it failed or puts for one *)
(* monitor overlapped.                                                     *)
THEOREM TableIsCurrent == Spec => []CurrentUnlessFailed
<1>1. DInv => CurrentUnlessFailed
  <2> SUFFICES ASSUME DInv, ~failed, ~overlapped, Quiet
               PROVE  table = latest
    BY DEF CurrentUnlessFailed
  <2>1. \A m \in Monitors : table[m] = latest[m]
    BY DEF DInv, PutInv, Quiet
  <2> QED
    BY <2>1 DEF DInv, TypeOK
<1> QED
  BY <1>1, Invariance, PTL

(* Unless the database failed no call ends its process, and a tool goes to *)
(* an address that a controller has sent for its monitor (tools.c:117).    *)
THEOREM AnswersAreSound == Spec => []SoundUnlessFailed
<1>1. DInv => SoundUnlessFailed
  BY DEF DInv, UpInv, Together, ToldInv, Told, SoundUnlessFailed
<1> QED
  BY <1>1, Invariance, PTL

=============================================================================
