----------------------------- MODULE Directory ------------------------------
(***************************************************************************)
(* The database of the controllers' addresses: libDbGet and libDbPut of    *)
(* lib.c, and the daemon between them and Cassandra (Server, ServerThread, *)
(* Protocol and CassandraClient).  A put is made by the handler of an      *)
(* IDENT packet and tells at which controller a monitor is; a get is made  *)
(* by an ns_tool that looks for it.                                        *)
(*                                                                         *)
(* Each call has a connection and a thread of the daemon of its own, and   *)
(* each such thread its own session with Cassandra.                        *)
(***************************************************************************)
EXTENDS Naturals

CONSTANTS
  Puts,          (* the calls of libDbPut                                  *)
  Gets,          (* the calls of libDbGet                                  *)
  MonitorOf,     (* the monitor each call is about                         *)
  Monitors,      (* the monitor ids                                        *)
  ControllerOf,  (* the controller that makes each put                     *)
  Controllers,   (* the addresses of the controllers                       *)
  Garbage,       (* a string that is no address                            *)
  NULL           (* the empty string, no reply                             *)

Calls == Puts \cup Gets

ASSUME DirectoryAssumption ==
  /\ Puts \cap Gets = {}
  /\ MonitorOf \in [Calls -> Monitors]
  /\ ControllerOf \in [Puts -> Controllers]
  /\ NULL \notin Controllers /\ Garbage \notin Controllers
  /\ NULL # Garbage

VARIABLES
  cassandra,   (* "up" or "down"                                           *)
  daemon,      (* "up" or "down"                                           *)
  table,       (* the controller of each monitor in control_servers        *)
  call,        (* where each call is                                       *)
  thread,      (* the daemon's thread for each call                        *)
  reply,       (* what it has sent back: none, or one with a value         *)
  result,      (* the address each get has returned                        *)
  latest,      (* history: the controller that was last to call libDbPut   *)
  failed,      (* history: Cassandra or the daemon was down                *)
  overlapped   (* history: two puts for one monitor at the same time       *)

servers == <<cassandra, daemon>>
history == <<latest, failed, overlapped>>
vars == <<servers, table, call, thread, reply, result, history>>

None == [sent |-> FALSE]
Reply(v) == [sent |-> TRUE, value |-> v]

Init ==
  /\ cassandra = "up"
  /\ daemon = "up"
  /\ table = [m \in Monitors |-> NULL]
  /\ call = [k \in Calls |-> "idle"]
  /\ thread = [k \in Calls |-> "none"]
  /\ reply = [k \in Calls |-> None]
  /\ result = [k \in Gets |-> NULL]
  /\ latest = [m \in Monitors |-> NULL]
  /\ failed = FALSE
  /\ overlapped = FALSE

Pending(k) == call[k] \in {"request", "wait"}

Goto(k, from, to) ==
  /\ call[k] = from
  /\ call' = [call EXCEPT ![k] = to]

(* A call whose result is NULL: configIdent does not look at it,           *)
(* pushConfigFile takes its length.                                        *)
AfterNull(k) == IF k \in Puts THEN "ended" ELSE "crashed"

-----------------------------------------------------------------------------
(* The beginning of libDbPut and libDbGet: libConnect.                     *)
Begin(k) ==
  /\ Goto(k, "idle", IF daemon = "up" THEN "request" ELSE AfterNull(k))
  /\ thread' = [thread EXCEPT ![k] = IF daemon = "up" THEN "connect" ELSE @]
  /\ IF k \in Puts
       THEN /\ latest' = [latest EXCEPT ![MonitorOf[k]] = ControllerOf[k]]
            /\ overlapped' = (overlapped \/ \E p \in Puts \ {k} :
                                Pending(p) /\ MonitorOf[p] = MonitorOf[k])
       ELSE UNCHANGED <<latest, overlapped>>
  /\ UNCHANGED <<servers, table, reply, result, failed>>

(* The other end of the connection is closed.                              *)
Closed(k) == daemon = "down" \/ thread[k] = "ended"

(* write() of the request line; on a closed connection SIGPIPE may end the *)
(* process.                                                                *)
Send(k) ==
  /\ \/ Goto(k, "request", "wait")
     \/ Closed(k) /\ Goto(k, "request", "crashed")
  /\ UNCHANGED <<servers, table, thread, reply, result, history>>

(* The reply without its first word; an empty value is no address.         *)
Receive(k) ==
  /\ reply[k].sent
  /\ Goto(k, "wait", "ended")
  /\ result' = [g \in Gets |-> IF g = k THEN reply[k].value ELSE result[g]]
  /\ UNCHANGED <<servers, table, thread, reply, history>>

(* End of file without a reply: the code goes on with a buffer it has      *)
(* never filled; memmove() of a negative length ends the process, or a     *)
(* string that happens to be there is taken for the reply.                 *)
ReceiveNothing(k) ==
  /\ Closed(k) /\ ~reply[k].sent
  /\ \/ Goto(k, "wait", "crashed") /\ UNCHANGED result
     \/ /\ Goto(k, "wait", "ended")
        /\ result' = [g \in Gets |-> IF g = k THEN Garbage ELSE result[g]]
  /\ UNCHANGED <<servers, table, thread, reply, history>>

LibDb(k) == Begin(k) \/ Send(k) \/ Receive(k) \/ ReceiveNothing(k)

-----------------------------------------------------------------------------
(* ServerThread.run: the session with Cassandra comes first; an exception  *)
(* of connect() ends the thread and closes the socket.                     *)
Connect(k) ==
  /\ daemon = "up"
  /\ thread[k] = "connect"
  /\ thread' = [thread EXCEPT ![k] =
                  IF cassandra = "up" THEN "read" ELSE "ended"]
  /\ UNCHANGED <<servers, table, call, reply, result, history>>

Asked(k) ==
  daemon = "up" /\ thread[k] = "read" /\ call[k] = "wait" /\ ~reply[k].sent

(* Faulty variant: the row is not written under the monitor's key.         *)
ProcessPut_Lost(k) ==
  /\ Asked(k) /\ k \in Puts
  /\ reply' = [reply EXCEPT ![k] = Reply(NULL)]
  /\ UNCHANGED <<servers, table, call, thread, result, history>>

(* processPut and putServer: "put:true", or "put:false" for an exception,  *)
(* which does not tell whether the row was written.                        *)
ProcessPut(k) ==
  LET written == [table EXCEPT ![MonitorOf[k]] = ControllerOf[k]] IN
  /\ Asked(k) /\ k \in Puts
  /\ \/ cassandra = "up" /\ table' = written
     \/ cassandra = "down" /\ table' \in {table, written}
  /\ reply' = [reply EXCEPT ![k] = Reply(NULL)]
  /\ UNCHANGED <<servers, call, thread, result, history>>

(* Faulty variant: a monitor without a row is an exception.                *)
ProcessGet_NoRow(k) ==
  /\ Asked(k) /\ k \in Gets
  /\ IF cassandra = "up" /\ table[MonitorOf[k]] # NULL
       THEN /\ reply' = [reply EXCEPT ![k] = Reply(table[MonitorOf[k]])]
            /\ UNCHANGED thread
       ELSE thread' = [thread EXCEPT ![k] = "ended"] /\ UNCHANGED reply
  /\ UNCHANGED <<servers, table, call, result, history>>

(* Faulty variant: a line without a value is not answered.                 *)
ProcessGet_Silent(k) ==
  /\ Asked(k) /\ k \in Gets
  /\ IF cassandra = "up" /\ table[MonitorOf[k]] # NULL
       THEN reply' = [reply EXCEPT ![k] = Reply(table[MonitorOf[k]])]
       ELSE UNCHANGED reply
  /\ UNCHANGED <<servers, table, call, thread, result, history>>

(* processGet and getServer: nothing catches an exception here.            *)
ProcessGet(k) ==
  /\ Asked(k) /\ k \in Gets
  /\ IF cassandra = "up"
       THEN /\ reply' = [reply EXCEPT ![k] = Reply(table[MonitorOf[k]])]
            /\ UNCHANGED thread
       ELSE thread' = [thread EXCEPT ![k] = "ended"] /\ UNCHANGED reply
  /\ UNCHANGED <<servers, table, call, result, history>>

(* Faulty variant: the thread goes on reading after the end of the stream. *)
Hangup_Ignored(k) ==
  /\ daemon = "up"
  /\ thread[k] = "read"
  /\ call[k] = "crashed"
  /\ thread' = [thread EXCEPT ![k] = "ended"]
  /\ UNCHANGED <<servers, table, call, reply, result, history>>

(* readLine() returns null: the process that made the call is gone.  The   *)
(* controller stays, and libDbPut never closes its socket.                 *)
Hangup(k) ==
  /\ daemon = "up"
  /\ thread[k] = "read"
  /\ call[k] = "crashed" \/ (k \in Gets /\ call[k] = "ended")
  /\ thread' = [thread EXCEPT ![k] = "ended"]
  /\ UNCHANGED <<servers, table, call, reply, result, history>>

ServerThread(k) ==
  Connect(k) \/ ProcessPut(k) \/ ProcessGet(k) \/ Hangup(k)

-----------------------------------------------------------------------------
(* Cassandra goes and comes back; the daemon is not started again.         *)
CassandraChanges ==
  /\ cassandra' = IF cassandra = "up" THEN "down" ELSE "up"
  /\ failed' = TRUE
  /\ UNCHANGED <<daemon, table, call, thread, reply, result, latest,
                 overlapped>>

DaemonStops ==
  /\ daemon = "up"
  /\ daemon' = "down"
  /\ failed' = TRUE
  /\ UNCHANGED <<cassandra, table, call, thread, reply, result, latest,
                 overlapped>>

Next ==
  \/ \E k \in Calls : LibDb(k) \/ ServerThread(k)
  \/ CassandraChanges \/ DaemonStops

Spec == Init /\ [][Next]_vars

(* The processes that made a call, and the daemon's threads, run.          *)
Fairness ==
  \A k \in Calls :
    WF_vars(Send(k) \/ Receive(k) \/ ReceiveNothing(k))
      /\ WF_vars(ServerThread(k))

FairSpec == Spec /\ Fairness

-----------------------------------------------------------------------------
(* Type invariant.                                                         *)
Addresses == Controllers \cup {NULL}

TypeOK ==
  /\ cassandra \in {"up", "down"} /\ daemon \in {"up", "down"}
  /\ table \in [Monitors -> Addresses]
  /\ call \in [Calls -> {"idle", "request", "wait", "ended", "crashed"}]
  /\ thread \in [Calls -> {"none", "connect", "read", "ended"}]
  /\ reply \in [Calls -> {None} \cup [sent : {TRUE}, value : Addresses]]
  /\ result \in [Gets -> Addresses \cup {Garbage}]
  /\ latest \in [Monitors -> Addresses]
  /\ failed \in BOOLEAN /\ overlapped \in BOOLEAN

Quiet == \A p \in Puts : ~Pending(p)

(* "Also send this mapping to the cassandra database" (interpreter.c:110): *)
(* when no put is under way, the database has the mapping of the           *)
(* controller that was the last to be told of the monitor, if the database *)
(* did not fail and puts for one monitor did not overlap.                  *)
CurrentUnlessFailed ==
  ~failed /\ ~overlapped /\ Quiet => table = latest

(* A tool that finds no entry can "gracefully fail" (tools.c:117): no call *)
(* ends its process, and no tool goes to an address no controller has      *)
(* sent, unless the database has failed.                                   *)
SoundUnlessFailed ==
  ~failed =>
    /\ \A k \in Calls : call[k] # "crashed"
    /\ \A k \in Gets : result[k] # NULL =>
         \E p \in Puts : /\ call[p] # "idle"
                         /\ MonitorOf[p] = MonitorOf[k]
                         /\ ControllerOf[p] = result[k]

(* Whatever fails, a call comes back or ends its process.                  *)
CallsEnd == \A k \in Calls : Pending(k) ~> ~Pending(k)

(* The daemon does not keep a thread for a tool that is gone.              *)
ToolThreadsEnd ==
  \A k \in Gets : (thread[k] # "none" /\ call[k] \in {"ended", "crashed"})
    ~> (daemon = "down" \/ thread[k] = "ended")

=============================================================================
