---------------------------- MODULE ThreadQueue -----------------------------
(***************************************************************************)
(* The work queue of cfuthread_queue.c: clients put requests in a list, a  *)
(* worker thread serves them.  Everything between two operations that can  *)
(* block is one action.  A request is named after its client; a condition  *)
(* variable may wake its thread for no reason.  A program has one list at  *)
(* a time, one of its own or that of its queue, and one queue that is used. *)
(***************************************************************************)
EXTENDS List

CONSTANTS
  Client, Worker,
  MaxEarly     (* bound on the wake-ups for no reason                      *)

SlotType == [held : Client \cup {NULL, Worker}, out : Client \cup {NULL},
             woken : BOOLEAN]

ASSUME ClientAssumption ==
  Data = Client /\ Worker \notin Client /\ NULL \notin SlotType

VARIABLES
  tq,          (* none, up, destroying, ending; or crashed, corrupt        *)
  cleanup,     (* the queue has a cleanup function                         *)
  worker, request, signalled,   (* the worker, what it took, its signal    *)
  at, answer,  (* per client: where it is, what its call returned          *)
  entry,       (* per client: NULL, or its request                         *)
  early        (* history: clients that were woken for no reason           *)

queueVars == <<tq, cleanup, worker, request, signalled>>
clientVars == <<at, answer, entry>>
vars == <<listVars, queueVars, clientVars, early>>

Init ==
  /\ ListInit /\ tq = "none" /\ cleanup = FALSE
  /\ worker = "gone" /\ request = NULL /\ signalled = FALSE
  /\ at = [c \in Client |-> "idle"] /\ answer = [c \in Client |-> NULL]
  /\ entry = [c \in Client |-> NULL] /\ early = {}

Running == tq \in {"up", "destroying"}
Reaches(c, place) == at' = [at EXCEPT ![c] = place]

(* The program works on a list of its own.                                 *)
NoQueueYet == tq = "none" /\ \A c \in Client : at[c] = "idle"
OwnList ==
  /\ NoQueueYet
  /\ ListNext /\ UNCHANGED <<queueVars, clientVars, early>>

cfuthread_queue_new(has_cleanup) ==
  /\ NoQueueYet /\ cfulist_new
  /\ tq' = "up" /\ cleanup' = has_cleanup
  /\ worker' = "init" /\ signalled' = FALSE
  /\ UNCHANGED <<request, clientVars, early>>

-----------------------------------------------------------------------------
(* cfuthread_queue_make_request.  The client holds the mutex of its        *)
(* request from before it is in the list until it waits.                   *)
Fresh_Unlocked(c) == [held |-> NULL, out |-> NULL, woken |-> FALSE]
Fresh(c) == [held |-> c, out |-> NULL, woken |-> FALSE]

Ask(c) ==
  /\ tq = "up" /\ at[c] \in {"idle", "done"}
  /\ cfulist_push_data(c)
  /\ entry' = [entry EXCEPT ![c] = Fresh(c)]
  /\ signalled' = (signalled \/ worker = "wait")
  /\ answer' = [answer EXCEPT ![c] = NULL] /\ Reaches(c, "asked")
  /\ UNCHANGED <<tq, cleanup, worker, request, early>>

Wait(c) ==
  /\ at[c] = "asked"
  /\ entry' = [entry EXCEPT ![c].held = NULL] /\ Reaches(c, "wait")
  /\ UNCHANGED <<listVars, queueVars, answer, early>>

WakeUp(c) ==
  /\ at[c] = "wait" /\ Reaches(c, "relock")
  /\ \/ entry[c].woken /\ UNCHANGED early
     \/ /\ ~entry[c].woken /\ Cardinality(early) < MaxEarly
        /\ early' = early \cup {c}
  /\ UNCHANGED <<listVars, queueVars, answer, entry>>

(* It has the mutex, releases it, and destroys its request.                *)
Return(c) ==
  /\ at[c] = "relock" /\ entry[c].held = NULL
  /\ answer' = [answer EXCEPT ![c] = entry[c].out]
  /\ entry' = [entry EXCEPT ![c] = NULL] /\ Reaches(c, "done")
  /\ UNCHANGED <<listVars, queueVars, early>>

-----------------------------------------------------------------------------
(* _run_queue.                                                             *)
InitDone ==
  /\ Running /\ worker = "init" /\ worker' = "lock"
  /\ UNCHANGED <<listVars, tq, cleanup, request, signalled, clientVars, early>>

Take ==
  /\ Running /\ worker = "lock"
  /\ IF list.num_entries = 0
     THEN worker' = "wait" /\ signalled' = FALSE /\ UNCHANGED <<request, listVars>>
     ELSE /\ cfulist_shift_data /\ request' = returned'.data
          /\ worker' = "serve" /\ UNCHANGED signalled
  /\ UNCHANGED <<tq, cleanup, clientVars, early>>

(* A thread that is to be cancelled does not go on waiting.                *)
Look_Again ==
  /\ Running /\ worker = "wait" /\ (signalled \/ tq = "up")
  /\ worker' = "lock"
  /\ UNCHANGED <<listVars, tq, cleanup, request, signalled, clientVars, early>>

(* What becomes of a request, whose client may have destroyed it.          *)
LockRequest ==
  /\ Running /\ worker = "serve"
  /\ IF entry[request] = NULL
     THEN tq' = "corrupt" /\ UNCHANGED <<worker, entry>>
     ELSE /\ entry[request].held = NULL
          /\ entry' = [entry EXCEPT ![request].held = Worker]
          /\ worker' = "fn" /\ UNCHANGED tq
  /\ UNCHANGED <<listVars, cleanup, request, signalled, at, answer, early>>

Served_OutLost(c) == [held |-> NULL, out |-> NULL, woken |-> at[c] = "wait"]
Served(c) == [held |-> NULL, out |-> c, woken |-> at[c] = "wait"]

Serve ==
  /\ Running /\ worker = "fn"
  /\ entry' = [entry EXCEPT ![request] = Served(request)]
  /\ worker' = "lock" /\ request' = NULL
  /\ UNCHANGED <<listVars, tq, cleanup, signalled, at, answer, early>>

-----------------------------------------------------------------------------
(* cfuthread_queue_destroy.  The worker ends where it blocks, or inside a  *)
(* function of the program; its cleanup function is called even if there   *)
(* is none.                                                                *)
CancelWorker ==
  /\ tq = "up" /\ tq' = "destroying"
  /\ UNCHANGED <<listVars, cleanup, worker, request, signalled, clientVars, early>>

AfterCancel_Crash == "crashed"
AfterCancel == IF worker = "init" \/ cleanup THEN "ending" ELSE "crashed"

Cancelled(places) ==
  /\ tq = "destroying" /\ worker \in places
  /\ tq' = AfterCancel /\ worker' = "gone"
  /\ UNCHANGED <<listVars, cleanup, request, signalled, clientVars, early>>

Join ==
  /\ tq = "ending" /\ tq' = "none" /\ request' = NULL
  /\ cfulist_destroy
  /\ UNCHANGED <<cleanup, worker, signalled, clientVars, early>>

ClientStep(c) == Wait(c) \/ WakeUp(c) \/ Return(c)
WorkerStep == InitDone \/ Take \/ LockRequest \/ Serve \/ Join

Next ==
  \/ OwnList
  \/ /\ tq \notin {"crashed", "corrupt"}
     /\ \E c \in Client : Ask(c) \/ ClientStep(c)
  \/ \E b \in BOOLEAN : cfuthread_queue_new(b)
  \/ WorkerStep \/ Look_Again
  \/ CancelWorker \/ Cancelled({"wait"}) \/ Cancelled({"init", "fn"})

Spec == Init /\ [][Next]_vars

(* Threads run; a thread that has been signalled wakes up.                 *)
Woken(c) == tq \notin {"crashed", "corrupt"} /\ entry[c] # NULL /\ entry[c].woken /\ WakeUp(c)
Fairness ==
  /\ \A c \in Client :
       /\ WF_vars(tq \notin {"crashed", "corrupt"} /\ (Wait(c) \/ Return(c)))
       /\ WF_vars(Woken(c))
  /\ WF_vars(WorkerStep) /\ WF_vars(signalled /\ Look_Again)
  /\ WF_vars(Cancelled({"wait"}))
FairSpec == Spec /\ Fairness

-----------------------------------------------------------------------------
(* A call of cfuthread_queue_make_request returns the answer to its own    *)
(* request, and the worker never touches a request that its client has     *)
(* destroyed, unless a client was woken for no reason: the wait is not     *)
(* repeated.                                                               *)
OwnAnswer ==
  /\ \A c \in Client : at[c] = "done" /\ c \notin early => answer[c] = c
  /\ tq = "corrupt" => early # {}

(* A request is answered as long as the queue is not destroyed: no signal  *)
(* is lost between the list and either wait.                               *)
RequestAnswered ==
  \A c \in Client :
    at[c] = "asked" ~> at[c] = "done" \/ early # {} \/ tq # "up"

(* Destroying a queue that has a cleanup function ends, and does not crash *)
(* the program, whatever the worker is about to do.                        *)
DestroyEnds == tq = "destroying" /\ cleanup ~> tq = "none" \/ early # {}

=============================================================================
