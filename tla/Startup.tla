------------------------------ MODULE Startup -------------------------------
(***************************************************************************)
(* The start of the daemons (controller.c, monitor.c, the binding part of  *)
(* cconnection.c and mconnection.c).  Both daemons fork, and the parent,   *)
(* which should "die", goes on like the child: two processes compete for   *)
(* the two ports of the controller, and two processes of every monitor     *)
(* identify themselves under the same name.                                *)
(*                                                                         *)
(* Controller says what happens on one connection; here a registration and *)
(* a push are single steps.                                                *)
(***************************************************************************)
EXTENDS Naturals

CONSTANTS
  Monitors,  (* the monitor ids                                          *)
  Tools,     (* the ns_tools                                             *)
  Target,    (* the monitor each tool pushes to                          *)
  NULL       (* no process                                               *)

Copies == {"parent", "child"}
Sides == {"south", "north"}

ASSUME StartupAssumption ==
  /\ Target \in [Tools -> Monitors]
  /\ NULL \notin Copies

VARIABLES
  fg,     (* the controller is started as a foreground process             *)
  pc,     (* where each process of the controller is                       *)
  bound,  (* the process that has bound each port                          *)
  loop,   (* the two loop threads of each process                          *)
  map,    (* controller_map of each process: the connection of a monitor   *)
  db,     (* the monitors the database says are at this controller         *)
  mon,    (* the processes of each monitor                                 *)
  tool    (* each tool: "idle" or how its push ended                       *)

ctlVars == <<pc, bound, loop>>
regVars == <<map, db>>
vars == <<fg, ctlVars, regVars, mon, tool>>

Init ==
  /\ fg \in BOOLEAN
  /\ pc = [p \in Copies |-> IF p = "parent" THEN "fork" ELSE "none"]
  /\ bound = [s \in Sides |-> NULL]
  /\ loop = [p \in Copies |-> [s \in Sides |-> "none"]]
  /\ map = [p \in Copies |-> [m \in Monitors |-> NULL]]
  /\ db = {}
  /\ mon = [m \in Monitors |->
              [i \in Copies |-> IF i = "parent" THEN "fork" ELSE "none"]]
  /\ tool = [t \in Tools |-> "idle"]

-----------------------------------------------------------------------------
(* controller_Start.  fork() may fail.                                     *)
Fork ==
  /\ pc["parent"] = "fork"
  /\ \/ pc' = [p \in Copies |->
                 IF fg /\ p = "child" THEN "none" ELSE "bindSouth"]
     \/ ~fg /\ pc' = [pc EXCEPT !["parent"] = "exited"]
  /\ UNCHANGED <<fg, bound, loop, regVars, mon, tool>>

(* controller_Bind: bind() fails when the other process has the port; the  *)
(* connection is NULL then.                                                *)
Bind(p, from, side, to) ==
  /\ pc[p] = from
  /\ pc' = [pc EXCEPT ![p] = to]
  /\ bound' = [bound EXCEPT ![side] = IF @ = NULL THEN p ELSE @]
  /\ UNCHANGED <<fg, loop, regVars, mon, tool>>

BindSouth(p) == Bind(p, "bindSouth", "south", "bindNorth")
BindNorth(p) == Bind(p, "bindNorth", "north", "create")

(* pthread_create for both loops.                                          *)
CreateThreads(p) ==
  /\ pc[p] = "create"
  /\ pc' = [pc EXCEPT ![p] = "join"]
  /\ loop' = [loop EXCEPT ![p] = [s \in Sides |-> "start"]]
  /\ UNCHANGED <<fg, bound, regVars, mon, tool>>

(* Faulty variant: a process that has not both ports serves none.          *)
StartLoop_Both(p, side) ==
  /\ loop[p][side] = "start"
  /\ loop' = [loop EXCEPT ![p][side] =
                IF \A s \in Sides : bound[s] = p THEN "listen" ELSE "ended"]
  /\ UNCHANGED <<fg, pc, bound, regVars, mon, tool>>

(* A loop whose connection is NULL ends at once.                           *)
StartLoop(p, side) ==
  /\ loop[p][side] = "start"
  /\ loop' = [loop EXCEPT ![p][side] =
                IF bound[side] = p THEN "listen" ELSE "ended"]
  /\ UNCHANGED <<fg, pc, bound, regVars, mon, tool>>

(* The joins at the end of controller_StartComm.                           *)
Join(p) ==
  /\ pc[p] = "join"
  /\ \A s \in Sides : loop[p][s] = "ended"
  /\ pc' = [pc EXCEPT ![p] = "exited"]
  /\ UNCHANGED <<fg, bound, loop, regVars, mon, tool>>

ControllerStart(p) ==
  \/ p = "parent" /\ Fork
  \/ BindSouth(p) \/ BindNorth(p) \/ CreateThreads(p)
  \/ \E s \in Sides : StartLoop(p, s)
  \/ Join(p)

Listening(side) ==
  bound[side] # NULL /\ loop[bound[side]][side] = "listen"

-----------------------------------------------------------------------------
(* monitor_Start: both processes go on, or one in the foreground; a fork() *)
(* that fails ends it.                                                     *)
MonitorFork(m) ==
  /\ mon[m]["parent"] = "fork"
  /\ \/ mon' = [mon EXCEPT ![m] = [i \in Copies |-> "connect"]]
     \/ mon' = [mon EXCEPT ![m]["parent"] = "connect"]
     \/ mon' = [mon EXCEPT ![m]["parent"] = "exited"]
  /\ UNCHANGED <<fg, ctlVars, regVars, tool>>

(* Faulty variant: only the database learns the name.                      *)
MonitorConnect_NoMap(m, i) ==
  /\ mon[m][i] = "connect"
  /\ Listening("south")
  /\ mon' = [mon EXCEPT ![m][i] = "up"]
  /\ db' = db \cup {m}
  /\ UNCHANGED <<fg, ctlVars, map, tool>>

(* Faulty variant: the entry is the name, not the connection.              *)
MonitorConnect_Name(m, i) ==
  /\ mon[m][i] = "connect"
  /\ Listening("south")
  /\ mon' = [mon EXCEPT ![m][i] = "up"]
  /\ map' = [map EXCEPT ![bound["south"]][m] = m]
  /\ db' = db \cup {m}
  /\ UNCHANGED <<fg, ctlVars, tool>>

(* monitor_StartComm, and the handshake that follows: the later of two     *)
(* processes replaces the entry of the earlier.                            *)
MonitorConnect(m, i) ==
  /\ mon[m][i] = "connect"
  /\ Listening("south")
  /\ mon' = [mon EXCEPT ![m][i] = "up"]
  /\ map' = [map EXCEPT ![bound["south"]][m] = i]
  /\ db' = db \cup {m}
  /\ UNCHANGED <<fg, ctlVars, tool>>

(* connect() is refused, or the connection breaks: the process ends; no    *)
(* one re-establishes the connection.                                      *)
MonitorRefused(m, i) ==
  /\ mon[m][i] = "connect"
  /\ ~Listening("south")
  /\ mon' = [mon EXCEPT ![m][i] = "exited"]
  /\ UNCHANGED <<fg, ctlVars, regVars, tool>>

MonitorBreaks(m, i) ==
  /\ mon[m][i] = "up"
  /\ mon' = [mon EXCEPT ![m][i] = "exited"]
  /\ UNCHANGED <<fg, ctlVars, regVars, tool>>

MonitorStart(m) ==
  \/ MonitorFork(m)
  \/ \E i \in Copies :
       MonitorConnect(m, i) \/ MonitorRefused(m, i) \/ MonitorBreaks(m, i)

-----------------------------------------------------------------------------
(* pushConfigFile and wrpNorth.                                            *)
ToolPush(t) ==
  LET m == Target[t]
      i == map[bound["north"]][m]
  IN
  /\ tool[t] = "idle"
  /\ m \in db
  /\ tool' = [tool EXCEPT ![t] =
       IF ~Listening("north") THEN "refused"
       ELSE IF i = NULL THEN "missed"
       ELSE IF mon[m][i] = "up" THEN "delivered" ELSE "lost"]
  /\ UNCHANGED <<fg, ctlVars, regVars, mon>>

Next ==
  \/ \E p \in Copies : ControllerStart(p)
  \/ \E m \in Monitors : MonitorStart(m)
  \/ \E t \in Tools : ToolPush(t)

Spec == Init /\ [][Next]_vars

Fairness == \A p \in Copies : WF_vars(ControllerStart(p))

FairSpec == Spec /\ Fairness

-----------------------------------------------------------------------------
(* Type invariant.                                                         *)
TypeOK ==
  /\ fg \in BOOLEAN
  /\ pc \in [Copies -> {"none", "fork", "bindSouth", "bindNorth", "create",
                        "join", "exited"}]
  /\ bound \in [Sides -> Copies \cup {NULL}]
  /\ loop \in [Copies -> [Sides -> {"none", "start", "listen", "ended"}]]
  /\ map \in [Copies -> [Monitors -> Copies \cup {NULL}]]
  /\ db \subseteq Monitors
  /\ mon \in [Monitors ->
                [Copies -> {"none", "fork", "connect", "up", "exited"}]]
  /\ tool \in [Tools -> {"idle", "refused", "missed", "delivered", "lost"}]

Split == bound["south"] # bound["north"]

(* Both ports are bound when a loop listens, and a process of a foreground *)
(* controller binds both.                                                  *)
BoundInv ==
  /\ \A p \in Copies :
       /\ pc[p] \in {"none", "fork", "bindSouth", "bindNorth", "create"} =>
            \A s \in Sides : loop[p][s] = "none"
       /\ pc[p] \in {"none", "fork"} => \A s \in Sides : bound[s] # p
       /\ pc[p] \in {"bindNorth", "create", "join"} => bound["south"] # NULL
       /\ pc[p] \in {"create", "join"} => bound["north"] # NULL
       /\ \A s \in Sides : loop[p][s] \in {"start", "listen"} => pc[p] = "join"
       /\ \A s \in Sides : loop[p][s] = "listen" => bound[s] = p
       /\ pc[p] = "bindSouth" => bound["north"] # p
  /\ pc["parent"] = "fork" \/ fg => pc["child"] = "none"
  /\ \A t \in Tools : tool[t] = "missed" => \A s \in Sides : bound[s] # NULL

(* A name in the database is in the map of the process that has the south  *)
(* port.                                                                   *)
RegInv == \A m \in db :
  bound["south"] # NULL /\ map[bound["south"]][m] # NULL

(* A monitor that the database knows is in the map the tool's request is   *)
(* looked up in, unless the two processes that fork() left (controller.c:  *)
(* 90-107) share the two ports between them.                               *)
MissOnlyIfSplit ==
  \A t \in Tools : tool[t] = "missed" => Split /\ ~fg

IInv == TypeOK /\ BoundInv /\ RegInv /\ MissOnlyIfSplit

(* In spite of the race both ports are served, whoever wins them.          *)
BothServed ==
  pc["parent"] = "bindSouth" ~> Listening("south") /\ Listening("north")

=============================================================================
