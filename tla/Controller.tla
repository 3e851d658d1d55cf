----------------------------- MODULE Controller -----------------------------
(***************************************************************************)
(* The controller daemon (north_south/src/cconnection.c, with configIdent  *)
(* of interpreter.c and the descriptors libDbPut of lib.c leaves behind).  *)
(*                                                                         *)
(* Two loops accept connections: monitors from the south, ns_tools from    *)
(* the north.  Each accepted connection gets a handler thread, which finds *)
(* its descriptor in the loop's variable fd, passed by address.  A monitor *)
(* answers the HELLO packet with an IDENT packet, which enters its name in *)
(* controller_map and in the database; a tool sends a name and a packet,   *)
(* which the handler writes to the descriptor controller_map has for it.   *)
(*                                                                         *)
(* A handler is named by the connection it was created for, which is not   *)
(* always the one it serves.  Streams are sequences of tokens: "ident" is  *)
(* a whole IDENT packet, "key" the characters of a name, "nl" the newline  *)
(* and "packet" a configuration packet (Framing has the bytes).            *)
(***************************************************************************)
EXTENDS Naturals, Sequences

CONSTANTS
  South,       (* the connections of monitors                              *)
  North,       (* the connections of ns_tools                              *)
  Names,       (* the monitor ids                                          *)
  NameOf,      (* the id a monitor has, or a tool asks for                 *)
  MaxFd,       (* the descriptors the process may have besides its own     *)
  Garbage,     (* any other string: a name read past its end               *)
  DbSock,      (* a socket to the database daemon                          *)
  NULL,        (* a free descriptor, no connection                         *)
  MaxRestarts  (* bound on the restarts of the daemon                      *)

Conns == South \cup North
FDs == 1..MaxFd
Keys == Names \cup {Garbage}

ASSUME ControllerAssumption ==
  /\ South \cap North = {}
  /\ NameOf \in [Conns -> Names]
  /\ Garbage \notin Names
  /\ NULL \notin Conns \cup Keys \cup {DbSock}
  /\ DbSock \notin Conns
  /\ MaxFd \in Nat
  /\ MaxRestarts \in Nat

Sides == {"south", "north"}
SideOf(c) == IF c \in South THEN "south" ELSE "north"
ConnsOf(side) == IF side = "south" THEN South ELSE North

VARIABLES
  process,         (* "running" or "dead" (SIGPIPE, segmentation fault)    *)
  restarts,        (* how often it was started again                       *)
  fds,             (* what each descriptor refers to                       *)
  loop,            (* each accept loop: "accept" or "ended"                *)
  loopFd,          (* the variable fd of each accept loop, 0 for -1        *)
  pc,              (* where the handler of each connection is              *)
  fd,              (* the variable fd of each handler, 0 for -1            *)
  key,             (* the name each handler has read, NULL before          *)
  south_fd,        (* what wrpNorth found in controller_map                *)
  controller_map,  (* name -> descriptor, 0 when there is no entry         *)
  db,              (* the names the database says are at this controller   *)
  peer,            (* the other end: "away", "up" or "gone"                *)
  backlog,         (* connections that are not accepted yet                *)
  stream,          (* what each peer has sent and nobody has read          *)
  owes,            (* packets each peer has yet to write                   *)
  greeted,         (* history: monitors that got a HELLO packet            *)
  raced,           (* history: an accept(), also one that failed, wrote    *)
                   (* over an fd that a new thread had yet to read         *)
  owner,           (* history: the connection behind each map entry        *)
  route,           (* history: the owner of the entry wrpNorth found       *)
  missed,          (* history: handlers that found no entry                *)
  delivered        (* history: where each packet went, and whether the     *)
                   (* connection its entry was made for had been closed    *)

threadVars == <<pc, fd, key, south_fd>>
peerVars == <<peer, backlog, stream, owes>>
tableVars == <<fds, loop, loopFd>>
nameVars == <<controller_map, db>>
historyVars == <<greeted, raced, owner, route, missed, delivered>>
vars == <<process, restarts, tableVars, threadVars, nameVars, peerVars,
          historyVars>>

(* The labels between a handler's first and last use of its descriptor.    *)
Serving == {"hello", "listen", "ident", "dbput", "key", "lookup", "packet",
            "forward", "close"}
Labels == Serving \cup {"none", "start", "done"}

Goto(c, from, to) ==
  /\ process = "running"
  /\ pc[c] = from
  /\ pc' = [pc EXCEPT ![c] = to]

HasFree == \E f \in FDs : fds[f] = NULL

(* The kernel gives the lowest free descriptor.                            *)
LowestFree(f) ==
  /\ f \in FDs
  /\ fds[f] = NULL
  /\ \A g \in FDs : fds[g] = NULL => f <= g

(* What a descriptor refers to now; -1 refers to nothing.                  *)
Refers(f) == IF f \in FDs THEN fds[f] ELSE NULL
At(c) == Refers(fd[c])
Token(c) == At(c) \in Conns /\ stream[At(c)] # << >>
EndOfFile(c) ==
  \/ At(c) = NULL
  \/ At(c) \in Conns /\ stream[At(c)] = << >> /\ peer[At(c)] = "gone"
Consume(c) == stream' = [stream EXCEPT ![At(c)] = Tail(@)]

-----------------------------------------------------------------------------
(* controller_StartComm, both ports bound.                                 *)
Init ==
  /\ process = "running"
  /\ restarts = 0
  /\ fds = [f \in FDs |-> NULL]
  /\ loop = [s \in Sides |-> "accept"]
  /\ loopFd = [s \in Sides |-> 0]
  /\ controller_map = [k \in Keys |-> 0]
  /\ pc = [c \in Conns |-> "none"]
  /\ fd = [c \in Conns |-> 0]
  /\ key = [c \in Conns |-> NULL]
  /\ south_fd = [c \in Conns |-> 0]
  /\ db = {}
  /\ peer = [c \in Conns |-> "away"]
  /\ backlog = {}
  /\ stream = [c \in Conns |-> << >>]
  /\ owes = [c \in Conns |-> 0]
  /\ greeted = {}
  /\ raced = FALSE
  /\ owner = [k \in Keys |-> NULL]
  /\ route = [c \in Conns |-> NULL]
  /\ missed = {}
  /\ delivered = {}

(* The operator starts the daemon again: the map is empty, the database    *)
(* still has the names.                                                    *)
Restart ==
  /\ process = "dead"
  /\ restarts < MaxRestarts
  /\ process' = "running"
  /\ restarts' = restarts + 1
  /\ fds' = [f \in FDs |-> NULL]
  /\ loop' = [s \in Sides |-> "accept"]
  /\ loopFd' = [s \in Sides |-> 0]
  /\ controller_map' = [k \in Keys |-> 0]
  /\ pc' = [c \in Conns |-> IF pc[c] = "none" THEN "none" ELSE "done"]
  /\ peer' = [c \in Conns |-> IF peer[c] = "away" THEN "away" ELSE "gone"]
  /\ backlog' = {}
  /\ raced' = FALSE
  /\ owner' = [k \in Keys |-> NULL]
  /\ delivered' = {}
  /\ UNCHANGED <<fd, key, south_fd, db, stream, owes, greeted, route,
                 missed>>

-----------------------------------------------------------------------------
(* The peers.  A monitor connects once; it answers every HELLO packet with *)
(* its name (configHello); it may go away at any time.                     *)
MonitorConnect(c) ==
  /\ process = "running"
  /\ peer[c] = "away"
  /\ peer' = [peer EXCEPT ![c] = "up"]
  /\ backlog' = backlog \cup {c}
  /\ UNCHANGED <<process, restarts, stream, owes>>
  /\ UNCHANGED <<tableVars, threadVars, nameVars, historyVars>>

MonitorIdent(c) ==
  /\ peer[c] = "up"
  /\ owes[c] > 0
  /\ owes' = [owes EXCEPT ![c] = @ - 1]
  /\ stream' = [stream EXCEPT ![c] = Append(@, "ident")]
  /\ UNCHANGED <<process, restarts, peer, backlog>>
  /\ UNCHANGED <<tableVars, threadVars, nameVars, historyVars>>

(* pushConfigFile: the tool connects to the controller the database names, *)
(* writes the name, writes the packet and closes; it closes earlier when   *)
(* it cannot read its file, or is killed.                                  *)
ToolConnect(c) ==
  /\ process = "running"
  /\ peer[c] = "away"
  /\ NameOf[c] \in db
  /\ peer' = [peer EXCEPT ![c] = "up"]
  /\ backlog' = backlog \cup {c}
  /\ owes' = [owes EXCEPT ![c] = 2]
  /\ UNCHANGED <<process, restarts, stream>>
  /\ UNCHANGED <<tableVars, threadVars, nameVars, historyVars>>

ToolName(c) ==
  /\ peer[c] = "up"
  /\ owes[c] = 2
  /\ owes' = [owes EXCEPT ![c] = 1]
  /\ stream' = [stream EXCEPT ![c] = @ \o <<"key", "nl">>]
  /\ UNCHANGED <<process, restarts, peer, backlog>>
  /\ UNCHANGED <<tableVars, threadVars, nameVars, historyVars>>

ToolPacket(c) ==
  /\ peer[c] = "up"
  /\ owes[c] = 1
  /\ owes' = [owes EXCEPT ![c] = 0]
  /\ stream' = [stream EXCEPT ![c] = Append(@, "packet")]
  /\ UNCHANGED <<process, restarts, peer, backlog>>
  /\ UNCHANGED <<tableVars, threadVars, nameVars, historyVars>>

PeerClose(c) ==
  /\ peer[c] = "up"
  /\ peer' = [peer EXCEPT ![c] = "gone"]
  /\ UNCHANGED <<process, restarts, backlog, stream, owes>>
  /\ UNCHANGED <<tableVars, threadVars, nameVars, historyVars>>

-----------------------------------------------------------------------------
(* A new thread has yet to read the variable fd of its loop.               *)
Unread(side) == \E d \in ConnsOf(side) : pc[d] = "start"

(* controller_SouthLoop and controller_NorthLoop.  The new thread gets the *)
(* address of the loop's fd; the loop goes on without waiting for it.      *)
Accept(side) ==
  /\ process = "running"
  /\ loop[side] = "accept"
  /\ \E c \in backlog \cap ConnsOf(side), f \in FDs :
       /\ LowestFree(f)
       /\ fds' = [fds EXCEPT ![f] = c]
       /\ loopFd' = [loopFd EXCEPT ![side] = f]
       /\ backlog' = backlog \ {c}
       /\ pc' = [pc EXCEPT ![c] = "start"]
  /\ raced' = (raced \/ Unread(side))
  /\ UNCHANGED <<process, restarts, loop, fd, key, south_fd, peer, stream,
                 owes, greeted, owner, route, missed, delivered>>
  /\ UNCHANGED nameVars

(* accept() < 0: the descriptor table is full.  The loop's fd is -1, also  *)
(* for a thread that has yet to read it, and the loop is over.             *)
AcceptFails(side) ==
  /\ process = "running"
  /\ loop[side] = "accept"
  /\ ~HasFree
  /\ loop' = [loop EXCEPT ![side] = "ended"]
  /\ loopFd' = [loopFd EXCEPT ![side] = 0]
  /\ raced' = (raced \/ Unread(side))
  /\ UNCHANGED <<process, restarts, fds, greeted, owner, route, missed,
                 delivered>>
  /\ UNCHANGED <<threadVars, nameVars, peerVars>>

(* What the loop's variable holds for a new thread.  The stack of a loop   *)
(* that is over belongs to nobody, so there it may be anything.            *)
LoopFd(side) ==
  IF loop[side] = "accept" THEN {loopFd[side]} ELSE 0..MaxFd

(* Faulty variant: a handler that listens without a handshake.             *)
ReadArgument_NoHandshake(c) ==
  /\ Goto(c, "start", IF c \in South THEN "listen" ELSE "key")
  /\ \E f \in LoopFd(SideOf(c)) : fd' = [fd EXCEPT ![c] = f]
  /\ UNCHANGED <<process, restarts, key, south_fd>>
  /\ UNCHANGED <<tableVars, nameVars, peerVars, historyVars>>

(* The first line of a handler copies the loop's variable.                 *)
ReadArgument(c) ==
  /\ Goto(c, "start", IF c \in South THEN "hello" ELSE "key")
  /\ \E f \in LoopFd(SideOf(c)) : fd' = [fd EXCEPT ![c] = f]
  /\ UNCHANGED <<process, restarts, key, south_fd>>
  /\ UNCHANGED <<tableVars, nameVars, peerVars, historyVars>>

(* A write() to a connection whose peer has gone may end the process.      *)
BrokenPipe(c, dest) ==
  /\ process = "running"
  /\ pc[c] \in {"hello", "forward"}
  /\ dest \in Conns /\ peer[dest] = "gone"
  /\ process' = "dead"
  /\ UNCHANGED restarts
  /\ UNCHANGED <<tableVars, threadVars, nameVars, peerVars, historyVars>>

(* The descriptors after close(f), which is an error for -1.               *)
Without(f) == [g \in FDs |-> IF g = f THEN NULL ELSE fds[g]]

(* Faulty variants: the handler of a tool closes the monitor's descriptor; *)
(* the map forgets a closed descriptor and the database does not.          *)
Close_SouthFd(c) ==
  /\ Goto(c, "close", "done")
  /\ fds' = Without(IF c \in South THEN fd[c] ELSE south_fd[c])
  /\ UNCHANGED <<process, restarts, loop, loopFd, fd, key, south_fd>>
  /\ UNCHANGED <<nameVars, peerVars, historyVars>>

Close_Forget(c) ==
  /\ Goto(c, "close", "done")
  /\ fds' = Without(fd[c])
  /\ controller_map' = [k \in Keys |-> IF controller_map[k] = fd[c] THEN 0
                                         ELSE controller_map[k]]
  /\ UNCHANGED <<process, restarts, loop, loopFd, fd, key, south_fd, db>>
  /\ UNCHANGED <<peerVars, historyVars>>

(* close(fd): also of a descriptor that is closed, or is another's now.    *)
Close(c) ==
  /\ Goto(c, "close", "done")
  /\ fds' = Without(fd[c])
  /\ UNCHANGED <<process, restarts, loop, loopFd, fd, key, south_fd>>
  /\ UNCHANGED <<nameVars, peerVars, historyVars>>

-----------------------------------------------------------------------------
(* controller_wrpHandshake.  The result of the write() is ignored, as is   *)
(* the error of controller_Handshake and of listenPackets for -1.          *)
Handshake(c) ==
  /\ Goto(c, "hello", "listen")
  /\ IF At(c) \in South /\ peer[At(c)] = "up"
       THEN /\ owes' = [owes EXCEPT ![At(c)] = @ + 1]
            /\ greeted' = greeted \cup {At(c)}
       ELSE UNCHANGED <<owes, greeted>>
  /\ UNCHANGED <<process, restarts, fd, key, south_fd, peer, backlog, stream,
                 raced, owner, route, missed, delivered>>
  /\ UNCHANGED <<tableVars, nameVars>>

(* listenPackets: an IDENT packet.  Its bytes are copied as the key without*)
(* a terminator, so the key may have what follows them in the heap.        *)
ListenIdent(c) ==
  /\ Goto(c, "listen", "ident")
  /\ Token(c) /\ Head(stream[At(c)]) = "ident"
  /\ Consume(c)
  /\ \E k \in {NameOf[At(c)], Garbage} : key' = [key EXCEPT ![c] = k]
  /\ UNCHANGED <<process, restarts, fd, south_fd, peer, backlog, owes>>
  /\ UNCHANGED <<tableVars, nameVars, historyVars>>

(* Anything else: no packet, which is skipped, or a configuration packet,  *)
(* which the interpreter writes to a file and changes nothing here.        *)
ListenCorrupted(c) ==
  /\ process = "running"
  /\ pc[c] = "listen"
  /\ Token(c) /\ Head(stream[At(c)]) # "ident"
  /\ Consume(c)
  /\ UNCHANGED <<process, restarts, peer, backlog, owes>>
  /\ UNCHANGED <<tableVars, threadVars, nameVars, historyVars>>

(* Faulty variant: no close() after listenPackets returns.                 *)
ListenEnds_NoClose(c) ==
  /\ Goto(c, "listen", "done")
  /\ EndOfFile(c)
  /\ UNCHANGED <<process, restarts, fd, key, south_fd>>
  /\ UNCHANGED <<tableVars, nameVars, peerVars, historyVars>>

(* read() <= 0: end of the stream, or a closed descriptor; or fd < 0.      *)
ListenEnds(c) ==
  /\ Goto(c, "listen", "close")
  /\ EndOfFile(c)
  /\ UNCHANGED <<process, restarts, fd, key, south_fd>>
  /\ UNCHANGED <<tableVars, nameVars, peerVars, historyVars>>

(* Faulty variant: the map gets the connection, not its number.            *)
IdentMap_Connection(c) ==
  /\ Goto(c, "ident", "dbput")
  /\ controller_map' = [controller_map EXCEPT ![key[c]] = At(c)]
  /\ owner' = [owner EXCEPT ![key[c]] = At(c)]
  /\ UNCHANGED <<process, restarts, fd, key, south_fd, db, greeted, raced,
                 route, missed, delivered>>
  /\ UNCHANGED <<tableVars, peerVars>>

(* configIdent: first the map, an older entry is replaced ...              *)
IdentMap(c) ==
  /\ Goto(c, "ident", "dbput")
  /\ controller_map' = [controller_map EXCEPT ![key[c]] = fd[c]]
  /\ owner' = [owner EXCEPT ![key[c]] = At(c)]
  /\ UNCHANGED <<process, restarts, fd, key, south_fd, db, greeted, raced,
                 route, missed, delivered>>
  /\ UNCHANGED <<tableVars, peerVars>>

(* ... then libDbPut, whose result is not looked at.  It opens a socket,   *)
(* unless the table is full, and never closes it, also when connect() or   *)
(* the request fails.                                                      *)
IdentDb(c) ==
  /\ Goto(c, "dbput", "listen")
  /\ \/ \E f \in FDs :
          /\ LowestFree(f)
          /\ fds' = [fds EXCEPT ![f] = DbSock]
          /\ db' \in {db, db \cup {key[c]}}
     \/ ~HasFree /\ UNCHANGED <<fds, db>>
  /\ UNCHANGED <<process, restarts, loop, loopFd, fd, key, south_fd,
                 controller_map>>
  /\ UNCHANGED <<peerVars, historyVars>>

(* The daemon closes without a reply: libDbPut takes the byte count 0 for  *)
(* a reply and shifts a buffer it has never filled (lib.c:371-383).        *)
IdentDbNoReply(c) ==
  /\ process = "running"
  /\ pc[c] = "dbput"
  /\ HasFree
  /\ process' = "dead"
  /\ UNCHANGED restarts
  /\ UNCHANGED <<tableVars, threadVars, nameVars, peerVars, historyVars>>

WrpHandshake(c) ==
  \/ Handshake(c) \/ ListenIdent(c) \/ ListenCorrupted(c) \/ ListenEnds(c)
  \/ IdentMap(c) \/ IdentDb(c) \/ IdentDbNoReply(c)

-----------------------------------------------------------------------------
(* controller_wrpNorth.  The name is read character by character up to the *)
(* newline; a packet's bytes may contain one.                              *)
ReadKey(c) ==
  /\ pc[c] = "key"
  /\ Token(c)
  /\ LET t == Head(stream[At(c)]) IN
       \/ /\ t = "key" /\ Goto(c, "key", "key")
          /\ key' = [key EXCEPT ![c] = IF key[c] = NULL THEN NameOf[At(c)]
                                                        ELSE Garbage]
       \/ /\ t = "nl" /\ Goto(c, "key", "lookup")
          /\ key' = [key EXCEPT ![c] = IF key[c] = NULL THEN Garbage ELSE @]
       \/ /\ t \in {"packet", "ident"}
          /\ Goto(c, "key", "key") \/ Goto(c, "key", "lookup")
          /\ key' = [key EXCEPT ![c] = Garbage]
  /\ Consume(c)
  /\ UNCHANGED <<process, restarts, fd, south_fd, peer, backlog, owes>>
  /\ UNCHANGED <<tableVars, nameVars, historyVars>>

(* Faulty variant: the loop goes on when read() returns 0.                 *)
ReadKeyEnds_Spin(c) ==
  /\ Goto(c, "key", "key")
  /\ EndOfFile(c)
  /\ UNCHANGED <<process, restarts, fd, key, south_fd>>
  /\ UNCHANGED <<tableVars, nameVars, peerVars, historyVars>>

(* The stream ends before the newline: the name is never terminated.       *)
ReadKeyEnds(c) ==
  /\ Goto(c, "key", "lookup")
  /\ EndOfFile(c)
  /\ \E k \in {key[c], Garbage} \ {NULL} : key' = [key EXCEPT ![c] = k]
  /\ UNCHANGED <<process, restarts, fd, south_fd>>
  /\ UNCHANGED <<tableVars, nameVars, peerVars, historyVars>>

(* Faulty variant: any entry of the bucket is taken for the name's.        *)
Lookup_AnyEntry(c) ==
  \E k \in Keys :
    LET f == controller_map[k] IN
    /\ Goto(c, "lookup", IF f = 0 THEN "close" ELSE "packet")
    /\ south_fd' = [south_fd EXCEPT ![c] = f]
    /\ route' = [route EXCEPT ![c] = owner[k]]
    /\ missed' = IF f = 0 THEN missed \cup {c} ELSE missed
    /\ UNCHANGED <<process, restarts, fd, key, greeted, raced, owner,
                   delivered>>
    /\ UNCHANGED <<tableVars, nameVars, peerVars>>

Lookup(c) ==
  LET f == controller_map[key[c]] IN
  /\ Goto(c, "lookup", IF f = 0 THEN "close" ELSE "packet")
  /\ south_fd' = [south_fd EXCEPT ![c] = f]
  /\ route' = [route EXCEPT ![c] = owner[key[c]]]
  /\ missed' = IF f = 0 THEN missed \cup {c} ELSE missed
  /\ UNCHANGED <<process, restarts, fd, key, greeted, raced, owner, delivered>>
  /\ UNCHANGED <<tableVars, nameVars, peerVars>>

(* Whatever the two read() calls return is taken for the packet.           *)
ReadPacket(c) ==
  /\ Goto(c, "packet", "forward")
  /\ \/ Token(c) /\ Consume(c)
     \/ EndOfFile(c) /\ UNCHANGED stream
  /\ UNCHANGED <<process, restarts, fd, key, south_fd, peer, backlog, owes>>
  /\ UNCHANGED <<tableVars, nameVars, historyVars>>

(* The socket is blocking: while the other end is there the write() may    *)
(* wait for it to read.                                                    *)
MayBlock(c) ==
  /\ pc[c] = "forward"
  /\ LET dest == Refers(south_fd[c]) IN
       dest = DbSock \/ (dest \in Conns /\ peer[dest] = "up")

(* The write() goes to whatever the descriptor refers to by now.           *)
Forward(c) ==
  LET dest == Refers(south_fd[c]) IN
  /\ Goto(c, "forward", "close")
  /\ delivered' =
       IF MayBlock(c)
         THEN delivered \cup
                {[tool |-> c, dest |-> dest,
                  stale |-> route[c] \in Conns /\ pc[route[c]] = "done"]}
         ELSE delivered
  /\ UNCHANGED <<process, restarts, fd, key, south_fd, greeted, raced, owner,
                 route, missed>>
  /\ UNCHANGED <<tableVars, nameVars, peerVars>>

WrpNorth(c) ==
  \/ ReadKey(c) \/ ReadKeyEnds(c) \/ Lookup(c) \/ ReadPacket(c) \/ Forward(c)

-----------------------------------------------------------------------------
Handler(c) ==
  ReadArgument(c) \/ WrpHandshake(c) \/ WrpNorth(c) \/ Close(c)

Killed(c) ==
  \/ pc[c] = "hello" /\ BrokenPipe(c, At(c))
  \/ pc[c] = "forward" /\ BrokenPipe(c, Refers(south_fd[c]))

Next ==
  \/ \E c \in South : MonitorConnect(c) \/ MonitorIdent(c)
  \/ \E c \in North : ToolConnect(c) \/ ToolName(c) \/ ToolPacket(c)
  \/ \E side \in Sides : Accept(side) \/ AcceptFails(side)
  \/ \E c \in Conns : PeerClose(c) \/ Handler(c) \/ Killed(c)
  \/ Restart

Spec == Init /\ [][Next]_vars

(* The loops and the handlers run, and a tool ends.  Monitors may stay     *)
(* connected for ever without writing or reading: nothing makes a write()  *)
(* of a packet return while its other end is there.                        *)
Fairness ==
  /\ \A side \in Sides : WF_vars(Accept(side) \/ AcceptFails(side))
  /\ \A c \in Conns : WF_vars(Handler(c) /\ ~MayBlock(c))
  /\ \A c \in North : WF_vars(PeerClose(c))

FairSpec == Spec /\ Fairness

-----------------------------------------------------------------------------
(* Type invariant.                                                         *)
TableType ==
  /\ process \in {"running", "dead"}
  /\ restarts \in 0..MaxRestarts
  /\ fds \in [FDs -> Conns \cup {DbSock, NULL}]
  /\ loop \in [Sides -> {"accept", "ended"}]
  /\ loopFd \in [Sides -> 0..MaxFd]

ThreadType ==
  /\ pc \in [Conns -> Labels]
  /\ fd \in [Conns -> 0..MaxFd]
  /\ key \in [Conns -> Keys \cup {NULL}]
  /\ south_fd \in [Conns -> 0..MaxFd]

NameType ==
  /\ controller_map \in [Keys -> 0..MaxFd]
  /\ db \subseteq Keys

PeerType ==
  /\ peer \in [Conns -> {"away", "up", "gone"}]
  /\ backlog \subseteq Conns
  /\ owes \in [Conns -> Nat]
  /\ stream \in [Conns -> Seq({"ident", "key", "nl", "packet"})]
  /\ \A c \in South : stream[c] \in Seq({"ident"})

HistoryType ==
  /\ greeted \subseteq South
  /\ raced \in BOOLEAN
  /\ owner \in [Keys -> Conns \cup {DbSock, NULL}]
  /\ route \in [Conns -> Conns \cup {DbSock, NULL}]
  /\ missed \subseteq North
  /\ delivered \subseteq
       [tool : North, dest : Conns \cup {DbSock}, stale : BOOLEAN]

TypeOK == TableType /\ ThreadType /\ NameType /\ PeerType /\ HistoryType

-----------------------------------------------------------------------------
(* The inductive invariant, by parts.                                      *)
SouthLabels == {"hello", "listen", "ident", "dbput"}
NorthLabels == {"key", "lookup", "packet", "forward"}

(* What every handler knows about its own variables.                       *)
ThreadInv ==
  \A c \in Conns :
    /\ pc[c] \in SouthLabels => c \in South
    /\ pc[c] \in NorthLabels => c \in North
    /\ pc[c] \in {"ident", "dbput"} => fd[c] \in FDs
    /\ pc[c] \in {"ident", "dbput", "lookup"} => key[c] \in Keys
    /\ pc[c] \in {"packet", "forward"} => south_fd[c] \in FDs
    /\ c \in backlog => pc[c] = "none"
    /\ peer[c] = "away" =>
         pc[c] = "none" /\ c \notin backlog /\ stream[c] = << >>
    /\ pc[c] \in {"none", "start"} => key[c] = NULL

(* While no fd was overwritten too early, a new thread's is still there,   *)
(* and its loop is.                                                        *)
StartInv ==
  ~raced => \A c \in Conns : pc[c] = "start" =>
    loop[SideOf(c)] = "accept" /\ Refers(loopFd[SideOf(c)]) = c

(* As long as no accept(), with a new descriptor or with the -1 of a full  *)
(* table, has overwritten an fd that a new thread had yet to read          *)
(* (cconnection.c:108-117, 143-152), every handler works on the descriptor *)
(* of its own connection: no thread reads, writes or closes another's, and *)
(* no descriptor is closed twice.                                          *)
OwnDescriptor ==
  ~raced => \A c \in Conns : pc[c] \in Serving => At(c) = c

(* In the same case no descriptor is lost: each one in use belongs to the  *)
(* one handler that will close it, or is a socket libDbPut left open.      *)
NoDescriptorLost ==
  ~raced =>
    \A f \in FDs : fds[f] \in Conns =>
      LET c == fds[f] IN
        \/ pc[c] = "start" /\ loopFd[SideOf(c)] = f
        \/ pc[c] \in Serving /\ fd[c] = f

(* What a handler may have read as a name from its own connection.         *)
KeyInv ==
  ~raced => \A c \in Conns : pc[c] # "done" =>
    key[c] \in {NULL, Garbage, NameOf[c]}

(* An entry was made by a monitor of that name for its own descriptor,     *)
(* which is still that monitor's while its handler runs.                   *)
Leads(f, o) ==
  /\ o \in South
  /\ pc[o] \notin {"none", "start"}
  /\ pc[o] # "done" => fd[o] = f

MapInv ==
  ~raced => \A k \in Keys : controller_map[k] # 0 =>
    /\ Leads(controller_map[k], owner[k])
    /\ k # Garbage => NameOf[owner[k]] = k

RouteInv ==
  ~raced => \A c \in Conns : pc[c] \in {"packet", "forward"} =>
    /\ Leads(south_fd[c], route[c])
    /\ key[c] # Garbage => NameOf[route[c]] = NameOf[c]

DeliveredInv ==
  \A d \in delivered :
    /\ pc[d.tool] \in {"close", "done"}
    /\ ~raced /\ ~d.stale /\ key[d.tool] # Garbage =>
         d.dest \in South /\ NameOf[d.dest] = NameOf[d.tool]

(* Before the first restart the map has every name the database has, and a *)
(* tool asks only for those.                                               *)
DbInv ==
  restarts = 0 =>
    /\ \A k \in db : controller_map[k] # 0
    /\ \A c \in Conns : pc[c] = "dbput" => controller_map[key[c]] # 0
    /\ \A c \in North : peer[c] # "away" => NameOf[c] \in db
    /\ \A c \in Conns : pc[c] \in {"key", "lookup"} =>
         key[c] \in {NULL, Garbage} \cup db
    /\ \A c \in missed : pc[c] \in {"close", "done"} /\ key[c] = Garbage

IInv ==
  /\ TypeOK /\ ThreadInv
  /\ StartInv /\ OwnDescriptor /\ NoDescriptorLost
  /\ KeyInv /\ MapInv /\ RouteInv /\ DeliveredInv
  /\ DbInv

-----------------------------------------------------------------------------
(* Properties.                                                             *)

(* configIdent enters a name in the map before it tells the database, so a *)
(* tool that the database sent here is not turned away, unless its name    *)
(* was mangled on the way or the daemon has been started again since.      *)
MissOnlyIfMangled ==
  restarts = 0 => \A c \in missed : key[c] = Garbage

(* In the same case a packet goes to the monitor the tool asked for as     *)
(* long as that monitor's connection is not closed.                        *)
RightWhileConnected ==
  ~raced => \A d \in delivered :
    ~d.stale /\ key[d.tool] # Garbage =>
      d.dest \in South /\ NameOf[d.dest] = NameOf[d.tool]

(* Packets are passed on "the correct connection stream"                   *)
(* (cconnection.c:204): the connection of the monitor the tool asked for.  *)
CorrectStream ==
  \A d \in delivered :
    d.dest \in South /\ NameOf[d.dest] = NameOf[d.tool]

(* The process, or one of its accept loops, has come to an end.            *)
OutOfService ==
  process = "dead" \/ \E side \in Sides : loop[side] = "ended"

(* The handler of a monitor's connection "initiates the handshake protocol"*)
(* (cconnection.c:224) with it, unless one of them is gone, an accept loop *)
(* has ended, or an fd was overwritten before it was read.                 *)
GreetedUnlessRaced ==
  \A c \in South : (c \in backlog) ~>
    (c \in greeted \/ peer[c] = "gone" \/ OutOfService \/ raced)

(* In the same case a tool is always answered by a close, unless its       *)
(* packet is held up for ever in a write() to a connection that stays up   *)
(* and does not read (cconnection.c:215).                                  *)
ToolAnswered ==
  \A c \in North : (c \in backlog) ~>
    (pc[c] = "done" \/ OutOfService \/ raced \/ []MayBlock(c))

=============================================================================
