-------------------------- MODULE ControllerProofs --------------------------
(***************************************************************************)
(* Proofs about Controller.  IInv is inductive: each of its parts is kept  *)
(* by every step from a state in which the parts it depends on hold, one   *)
(* lemma per part.  The parts about names and packets hold on to the same  *)
(* thing: while no accept() overwrote an fd too early, a handler's fd      *)
(* refers to its own connection.                                           *)
(***************************************************************************)
EXTENDS Controller, SequenceTheorems, TLAPS

(* A read() takes the first token of a stream: the streams keep their      *)
(* types.                                                                  *)
LEMMA ConsumeType ==
  ASSUME PeerType, NEW s \in Conns, stream[s] # << >>,
         stream' = [stream EXCEPT ![s] = Tail(@)],
         UNCHANGED <<peer, backlog, owes>>
  PROVE  PeerType'
<1>1. Tail(stream[s]) \in Seq({"ident", "key", "nl", "packet"})
  BY HeadTailProperties DEF PeerType
<1>2. s \in South => Tail(stream[s]) \in Seq({"ident"})
  BY HeadTailProperties DEF PeerType
<1> QED
  BY <1>1, <1>2 DEF PeerType

(* Every step keeps the types.  ThreadInv is needed where a handler uses   *)
(* its descriptor, its name or the descriptor it found in the map.         *)
LEMMA TypeOKStep ==
  ASSUME TypeOK, ThreadInv, [Next]_vars
  PROVE  TypeOK'
<1> USE ControllerAssumption DEF Conns, FDs, Keys
<1>1. CASE UNCHANGED vars
  BY <1>1
     DEF vars, tableVars, threadVars, nameVars, peerVars, historyVars,
         TypeOK, TableType, ThreadType, NameType, PeerType, HistoryType,
         ThreadInv, Sides, SideOf
<1>2. ASSUME NEW c \in South, MonitorConnect(c) PROVE TypeOK'
  BY <1>2
     DEF MonitorConnect, tableVars, threadVars, nameVars, historyVars,
         TypeOK, TableType, ThreadType, NameType, PeerType, HistoryType,
         ThreadInv, Sides, SideOf
<1>3. ASSUME NEW c \in South, MonitorIdent(c) PROVE TypeOK'
  <2>1. TableType'
    BY <1>3 DEF MonitorIdent, Goto, tableVars, TypeOK, TableType
  <2>2. ThreadType'
    BY <1>3
       DEF MonitorIdent, threadVars, TypeOK, ThreadType, TableType, Sides,
           SideOf
  <2>3. NameType'
    BY <1>3 DEF MonitorIdent, nameVars, TypeOK, NameType, ThreadInv
  <2>4. PeerType'
    <3>1. /\ stream' = [stream EXCEPT ![c] = Append(@, "ident")]
          /\ UNCHANGED <<peer, backlog>>
          /\ owes' \in [Conns -> Nat]
      BY <1>3 DEF MonitorIdent, TypeOK, PeerType
    <3>2. Append(stream[c], "ident") \in Seq({"ident", "key", "nl", "packet"})
      BY DEF TypeOK, PeerType
    <3>3. Append(stream[c], "ident") \in Seq({"ident"})
      BY DEF TypeOK, PeerType
    <3> QED
      BY <1>3, <3>1, <3>2, <3>3 DEF TypeOK, PeerType
  <2>5. HistoryType'
    BY <1>3
       DEF MonitorIdent, historyVars, TypeOK, HistoryType, TableType,
           NameType, ThreadType, ThreadInv
  <2> QED
    BY <2>1, <2>2, <2>3, <2>4, <2>5 DEF TypeOK
<1>4. ASSUME NEW c \in North, ToolConnect(c) PROVE TypeOK'
  BY <1>4
     DEF ToolConnect, tableVars, threadVars, nameVars, historyVars, TypeOK,
         TableType, ThreadType, NameType, PeerType, HistoryType, ThreadInv,
         Sides, SideOf
<1>5. ASSUME NEW c \in North, ToolName(c) PROVE TypeOK'
  <2>1. TableType'
    BY <1>5 DEF ToolName, Goto, tableVars, TypeOK, TableType
  <2>2. ThreadType'
    BY <1>5
       DEF ToolName, threadVars, TypeOK, ThreadType, TableType, Sides, SideOf
  <2>3. NameType'
    BY <1>5 DEF ToolName, nameVars, TypeOK, NameType, ThreadInv
  <2>4. PeerType'
    <3>1. /\ stream' = [stream EXCEPT ![c] = @ \o <<"key", "nl">>]
          /\ UNCHANGED <<peer, backlog>>
          /\ owes' \in [Conns -> Nat]
      BY <1>5 DEF ToolName, TypeOK, PeerType
    <3>2. stream[c] \o <<"key", "nl">>
            \in Seq({"ident", "key", "nl", "packet"})
      BY DEF TypeOK, PeerType
    <3> QED
      BY <1>5, <3>1, <3>2 DEF TypeOK, PeerType
  <2>5. HistoryType'
    BY <1>5
       DEF ToolName, historyVars, TypeOK, HistoryType, TableType, NameType,
           ThreadType, ThreadInv
  <2> QED
    BY <2>1, <2>2, <2>3, <2>4, <2>5 DEF TypeOK
<1>6. ASSUME NEW c \in North, ToolPacket(c) PROVE TypeOK'
  <2>1. TableType'
    BY <1>6 DEF ToolPacket, Goto, tableVars, TypeOK, TableType
  <2>2. ThreadType'
    BY <1>6
       DEF ToolPacket, threadVars, TypeOK, ThreadType, TableType, Sides,
           SideOf
  <2>3. NameType'
    BY <1>6 DEF ToolPacket, nameVars, TypeOK, NameType, ThreadInv
  <2>4. PeerType'
    <3>1. /\ stream' = [stream EXCEPT ![c] = Append(@, "packet")]
          /\ UNCHANGED <<peer, backlog>>
          /\ owes' \in [Conns -> Nat]
      BY <1>6 DEF ToolPacket, TypeOK, PeerType
    <3>2. Append(stream[c], "packet") \in Seq({"ident", "key", "nl", "packet"})
      BY DEF TypeOK, PeerType
    <3> QED
      BY <1>6, <3>1, <3>2 DEF TypeOK, PeerType
  <2>5. HistoryType'
    BY <1>6
       DEF ToolPacket, historyVars, TypeOK, HistoryType, TableType, NameType,
           ThreadType, ThreadInv
  <2> QED
    BY <2>1, <2>2, <2>3, <2>4, <2>5 DEF TypeOK
<1>7. ASSUME NEW side \in Sides, Accept(side) PROVE TypeOK'
  <2>1. TableType'
    BY <1>7 DEF Accept, Unread, ConnsOf, tableVars, TypeOK, TableType
  <2>2. ThreadType'
    BY <1>7
       DEF Accept, Unread, Sides, Goto, threadVars, TypeOK, ThreadType,
           TableType, Labels, SideOf
  <2>3. NameType'
    BY <1>7
       DEF Accept, Unread, nameVars, TypeOK, NameType, ThreadType, ThreadInv
  <2>4. PeerType'
    BY <1>7 DEF Accept, Unread, peerVars, TypeOK, PeerType
  <2>5. HistoryType'
    BY <1>7
       DEF Accept, Unread, Goto, historyVars, TypeOK, HistoryType, TableType,
           NameType, ThreadType, ThreadInv
  <2> QED
    BY <2>1, <2>2, <2>3, <2>4, <2>5 DEF TypeOK
<1>8. ASSUME NEW side \in Sides, AcceptFails(side) PROVE TypeOK'
  <2>1. TableType'
    BY <1>8 DEF AcceptFails, Sides, TypeOK, TableType
  <2>2. ThreadType'
    BY <1>8 DEF AcceptFails, threadVars, TypeOK, ThreadType
  <2>3. NameType' /\ PeerType'
    BY <1>8
       DEF AcceptFails, nameVars, peerVars, TypeOK, NameType, PeerType
  <2>4. HistoryType'
    <3>1. Unread(side) \in BOOLEAN
      BY DEF Unread
    <3> QED
      BY <1>8, <3>1 DEF AcceptFails, TypeOK, HistoryType
  <2> QED
    BY <2>1, <2>2, <2>3, <2>4 DEF TypeOK
<1>9. ASSUME NEW c \in Conns, PeerClose(c) PROVE TypeOK'
  BY <1>9
     DEF PeerClose, tableVars, threadVars, nameVars, historyVars, TypeOK,
         TableType, ThreadType, NameType, PeerType, HistoryType, ThreadInv,
         Sides, SideOf
<1>10. ASSUME NEW c \in Conns, ReadArgument(c) PROVE TypeOK'
  <2>1. pc' \in [Conns -> Labels]
    BY <1>10
       DEF ReadArgument, Goto, TypeOK, ThreadType, Labels, Serving
  <2>2. PICK f \in LoopFd(SideOf(c)) : fd' = [fd EXCEPT ![c] = f]
    BY <1>10 DEF ReadArgument
  <2>3. f \in 0..MaxFd
    BY <2>2 DEF LoopFd, SideOf, Sides, TypeOK, TableType
  <2>4. ThreadType'
    BY <1>10, <2>1, <2>2, <2>3 DEF ReadArgument, TypeOK, ThreadType
  <2>5. UNCHANGED <<tableVars, nameVars, peerVars, historyVars, process,
                    restarts>>
    BY <1>10 DEF ReadArgument
  <2> QED
    BY <2>4, <2>5
       DEF tableVars, nameVars, peerVars, historyVars, TypeOK, TableType,
           NameType, PeerType, HistoryType
<1>11. ASSUME NEW c \in Conns, Handshake(c) PROVE TypeOK'
  <2>1. TableType'
    BY <1>11 DEF Handshake, tableVars, TypeOK, TableType
  <2>2. ThreadType'
    BY <1>11
       DEF Handshake, Goto, threadVars, TypeOK, ThreadType, TableType,
           Labels, Serving, Sides, SideOf
  <2>3. NameType'
    BY <1>11 DEF Handshake, nameVars, TypeOK, NameType, ThreadType, ThreadInv
  <2>4. PeerType'
    <3>1. UNCHANGED <<peer, backlog, stream>>
      BY <1>11 DEF Handshake
    <3>2. owes' \in [Conns -> Nat]
      <4>1. ASSUME NEW d \in South, owes' = [owes EXCEPT ![d] = @ + 1]
            PROVE  owes' \in [Conns -> Nat]
        BY <4>1 DEF TypeOK, PeerType
      <4> QED
        BY <1>11, <4>1 DEF Handshake, TypeOK, PeerType
    <3> QED
      BY <3>1, <3>2 DEF TypeOK, PeerType
  <2>5. HistoryType'
    BY <1>11
       DEF Handshake, historyVars, TypeOK, HistoryType, TableType, NameType,
           ThreadType, ThreadInv
  <2> QED
    BY <2>1, <2>2, <2>3, <2>4, <2>5 DEF TypeOK
<1>12. ASSUME NEW c \in Conns, ListenIdent(c) PROVE TypeOK'
  <2>1. TableType'
    BY <1>12 DEF ListenIdent, tableVars, TypeOK, TableType
  <2>2. ThreadType'
    BY <1>12
       DEF ListenIdent, Token, At, Refers, Goto, threadVars, TypeOK,
           ThreadType, TableType, Labels, Serving, Sides, SideOf
  <2>3. NameType'
    BY <1>12
       DEF ListenIdent, nameVars, TypeOK, NameType, ThreadType, ThreadInv
  <2>4. PeerType'
    BY <1>12, ConsumeType DEF ListenIdent, Token, Consume, TypeOK
  <2>5. HistoryType'
    BY <1>12
       DEF ListenIdent, Goto, historyVars, TypeOK, HistoryType, TableType,
           NameType, ThreadType, ThreadInv
  <2> QED
    BY <2>1, <2>2, <2>3, <2>4, <2>5 DEF TypeOK
<1>13. ASSUME NEW c \in Conns, ListenCorrupted(c) PROVE TypeOK'
  <2>1. TableType'
    BY <1>13 DEF ListenCorrupted, tableVars, TypeOK, TableType
  <2>2. ThreadType'
    BY <1>13
       DEF ListenCorrupted, At, Refers, Goto, threadVars, TypeOK, ThreadType,
           TableType, Sides, SideOf
  <2>3. NameType'
    BY <1>13
       DEF ListenCorrupted, nameVars, TypeOK, NameType, ThreadType, ThreadInv
  <2>4. PeerType'
    BY <1>13, ConsumeType DEF ListenCorrupted, Token, Consume, TypeOK
  <2>5. HistoryType'
    BY <1>13
       DEF ListenCorrupted, Goto, historyVars, TypeOK, HistoryType,
           TableType, NameType, ThreadType, ThreadInv
  <2> QED
    BY <2>1, <2>2, <2>3, <2>4, <2>5 DEF TypeOK
<1>14. ASSUME NEW c \in Conns, ListenEnds(c) PROVE TypeOK'
  BY <1>14
     DEF ListenEnds, EndOfFile, At, Refers, tableVars, nameVars, peerVars,
         historyVars, Goto, TypeOK, TableType, ThreadType, NameType,
         PeerType, HistoryType, ThreadInv, Sides, SideOf, Serving, Labels
<1>15. ASSUME NEW c \in Conns, IdentMap(c) PROVE TypeOK'
  <2>1. TableType'
    BY <1>15 DEF IdentMap, tableVars, TypeOK, TableType
  <2>2. ThreadType'
    BY <1>15
       DEF IdentMap, Goto, threadVars, TypeOK, ThreadType, TableType, Labels,
           Serving, Sides, SideOf
  <2>3. NameType'
    BY <1>15 DEF IdentMap, nameVars, TypeOK, NameType, ThreadType, ThreadInv
  <2>4. PeerType'
    BY <1>15 DEF IdentMap, peerVars, TypeOK, PeerType
  <2>5. HistoryType'
    BY <1>15
       DEF IdentMap, At, Refers, Goto, historyVars, TypeOK, HistoryType,
           TableType, NameType, ThreadType, ThreadInv, Serving
  <2> QED
    BY <2>1, <2>2, <2>3, <2>4, <2>5 DEF TypeOK
<1>16. ASSUME NEW c \in Conns, IdentDb(c) PROVE TypeOK'
  <2>1. TableType'
    BY <1>16 DEF IdentDb, tableVars, TypeOK, TableType
  <2>2. ThreadType'
    BY <1>16
       DEF IdentDb, Goto, threadVars, tableVars, TypeOK, ThreadType,
           TableType, Labels, Serving, Sides, SideOf
  <2>3. NameType'
    BY <1>16
       DEF IdentDb, Goto, nameVars, TypeOK, NameType, ThreadType, ThreadInv
  <2>4. PeerType'
    BY <1>16 DEF IdentDb, peerVars, TypeOK, PeerType
  <2>5. HistoryType'
    BY <1>16
       DEF IdentDb, historyVars, TypeOK, HistoryType, TableType, NameType,
           ThreadType, ThreadInv
  <2> QED
    BY <2>1, <2>2, <2>3, <2>4, <2>5 DEF TypeOK
<1>17. ASSUME NEW c \in Conns, IdentDbNoReply(c) PROVE TypeOK'
  BY <1>17
     DEF IdentDbNoReply, HasFree, tableVars, threadVars, nameVars, peerVars,
         historyVars, TypeOK, TableType, ThreadType, NameType, PeerType,
         HistoryType, ThreadInv, Sides, SideOf
<1>18. ASSUME NEW c \in Conns, ReadKey(c) PROVE TypeOK'
  <2>1. TableType'
    BY <1>18 DEF ReadKey, tableVars, TypeOK, TableType
  <2>2. ThreadType'
    <3>1. pc' \in [Conns -> Labels]
      BY <1>18 DEF ReadKey, Goto, TypeOK, ThreadType, Labels, Serving
    <3>2. NameOf[At(c)] \in Keys
      BY <1>18 DEF ReadKey, Token
    <3>3. key' \in [Conns -> Keys \cup {NULL}]
      BY <1>18, <3>2 DEF ReadKey, TypeOK, ThreadType
    <3> QED
      BY <1>18, <3>1, <3>3 DEF ReadKey, TypeOK, ThreadType
  <2>3. NameType'
    BY <1>18 DEF ReadKey, nameVars, TypeOK, NameType, ThreadType, ThreadInv
  <2>4. PeerType'
    BY <1>18, ConsumeType DEF ReadKey, Token, Consume, TypeOK
  <2>5. HistoryType'
    BY <1>18
       DEF ReadKey, Goto, historyVars, TypeOK, HistoryType, TableType,
           NameType, ThreadType, ThreadInv
  <2> QED
    BY <2>1, <2>2, <2>3, <2>4, <2>5 DEF TypeOK
<1>19. ASSUME NEW c \in Conns, ReadKeyEnds(c) PROVE TypeOK'
  <2>1. TableType'
    BY <1>19 DEF ReadKeyEnds, tableVars, TypeOK, TableType
  <2>2. ThreadType'
    BY <1>19
       DEF ReadKeyEnds, Goto, threadVars, TypeOK, ThreadType, TableType,
           Labels, Serving, Sides, SideOf
  <2>3. NameType'
    BY <1>19
       DEF ReadKeyEnds, nameVars, TypeOK, NameType, ThreadType, ThreadInv
  <2>4. PeerType'
    BY <1>19 DEF ReadKeyEnds, peerVars, TypeOK, PeerType
  <2>5. HistoryType'
    BY <1>19
       DEF ReadKeyEnds, historyVars, TypeOK, HistoryType, TableType,
           NameType, ThreadType, ThreadInv
  <2> QED
    BY <2>1, <2>2, <2>3, <2>4, <2>5 DEF TypeOK
<1>20. ASSUME NEW c \in Conns, Lookup(c) PROVE TypeOK'
  <2>1. TableType'
    BY <1>20 DEF Lookup, tableVars, TypeOK, TableType
  <2>2. ThreadType'
    <3>1. key[c] \in Keys
      BY <1>20 DEF Lookup, Goto, ThreadInv
    <3>2. controller_map[key[c]] \in 0..MaxFd
      BY <3>1 DEF TypeOK, NameType
    <3> QED
      BY <1>20, <3>2 DEF Lookup, Goto, TypeOK, ThreadType, Labels, Serving
  <2>3. NameType'
    BY <1>20 DEF Lookup, nameVars, TypeOK, NameType, ThreadInv
  <2>4. PeerType'
    BY <1>20 DEF Lookup, peerVars, TypeOK, PeerType
  <2>5. HistoryType'
    BY <1>20
       DEF Lookup, Goto, historyVars, TypeOK, HistoryType, TableType,
           NameType, ThreadType, ThreadInv, NorthLabels
  <2> QED
    BY <2>1, <2>2, <2>3, <2>4, <2>5 DEF TypeOK
<1>21. ASSUME NEW c \in Conns, ReadPacket(c) PROVE TypeOK'
  <2>1. TableType'
    BY <1>21 DEF ReadPacket, Goto, tableVars, TypeOK, TableType
  <2>2. ThreadType'
    BY <1>21
       DEF ReadPacket, EndOfFile, At, Refers, Goto, threadVars, TypeOK,
           ThreadType, TableType, Labels, Serving, Sides, SideOf
  <2>3. NameType'
    BY <1>21
       DEF ReadPacket, Goto, nameVars, TypeOK, NameType, ThreadType,
           ThreadInv
  <2>4. PeerType'
    <3>1. CASE Token(c) /\ Consume(c)
      BY <1>21, <3>1, ConsumeType DEF ReadPacket, Token, Consume, TypeOK
    <3>2. CASE UNCHANGED stream
      BY <1>21, <3>2 DEF ReadPacket, TypeOK, PeerType
    <3> QED
      BY <1>21, <3>1, <3>2 DEF ReadPacket
  <2>5. HistoryType'
    BY <1>21
       DEF ReadPacket, At, Refers, Goto, historyVars, TypeOK, HistoryType,
           TableType, NameType, ThreadType, ThreadInv
  <2> QED
    BY <2>1, <2>2, <2>3, <2>4, <2>5 DEF TypeOK
<1>22. ASSUME NEW c \in Conns, Forward(c) PROVE TypeOK'
  <2>1. TableType'
    BY <1>22 DEF Forward, MayBlock, Refers, tableVars, TypeOK, TableType
  <2>2. ThreadType'
    BY <1>22
       DEF Forward, MayBlock, Refers, Goto, TypeOK, ThreadType, TableType,
           Labels, Serving, Sides, SideOf
  <2>3. NameType'
    BY <1>22
       DEF Forward, MayBlock, Refers, nameVars, TypeOK, NameType, ThreadInv
  <2>4. PeerType'
    BY <1>22 DEF Forward, MayBlock, Refers, peerVars, TypeOK, PeerType
  <2>5. HistoryType'
    <3> DEFINE dest == Refers(south_fd[c])
               st == route[c] \in Conns /\ pc[route[c]] = "done"
               d == [tool |-> c, dest |-> dest, stale |-> st]
    <3>1. c \in North /\ south_fd[c] \in FDs
      BY <1>22 DEF Forward, MayBlock, Refers, Goto, ThreadInv, NorthLabels
    <3>2. delivered' \in {delivered, delivered \cup {d}}
      BY <1>22 DEF Forward, MayBlock, Refers
    <3>3. delivered' # delivered => dest \in Conns \cup {DbSock}
      BY <1>22 DEF Forward, MayBlock, Refers
    <3>4. st \in BOOLEAN
      OBVIOUS
    <3> HIDE DEF dest, st
    <3>5. delivered' # delivered =>
            d \in [tool : North, dest : Conns \cup {DbSock}, stale : BOOLEAN]
      BY <3>1, <3>3, <3>4
    <3>6. UNCHANGED <<greeted, raced, owner, route, missed>>
      BY <1>22 DEF Forward, MayBlock, Refers
    <3> QED
      BY <3>2, <3>5, <3>6 DEF TypeOK, HistoryType
  <2> QED
    BY <2>1, <2>2, <2>3, <2>4, <2>5 DEF TypeOK
<1>23. ASSUME NEW c \in Conns, Close(c) PROVE TypeOK'
  <2>1. TableType'
    BY <1>23 DEF Close, Without, tableVars, TypeOK, TableType
  <2>2. ThreadType'
    BY <1>23
       DEF Close, Without, Goto, TypeOK, ThreadType, TableType, Labels,
           Sides, SideOf
  <2>3. NameType'
    BY <1>23 DEF Close, Without, nameVars, TypeOK, NameType, ThreadInv
  <2>4. PeerType'
    BY <1>23 DEF Close, Without, peerVars, TypeOK, PeerType
  <2>5. HistoryType'
    BY <1>23
       DEF Close, Without, historyVars, TypeOK, HistoryType, TableType,
           NameType, ThreadType, ThreadInv
  <2> QED
    BY <2>1, <2>2, <2>3, <2>4, <2>5 DEF TypeOK
<1>24. ASSUME NEW c \in Conns, Killed(c) PROVE TypeOK'
  <2>1. TableType'
    BY <1>24 DEF Killed, BrokenPipe, tableVars, TypeOK, TableType
  <2>2. ThreadType'
    BY <1>24
       DEF Killed, BrokenPipe, Goto, threadVars, TypeOK, ThreadType,
           TableType, Sides, SideOf
  <2>3. NameType'
    BY <1>24
       DEF Killed, BrokenPipe, nameVars, TypeOK, NameType, ThreadType,
           ThreadInv
  <2>4. PeerType'
    BY <1>24 DEF Killed, BrokenPipe, peerVars, TypeOK, PeerType
  <2>5. HistoryType'
    BY <1>24
       DEF Killed, BrokenPipe, historyVars, TypeOK, HistoryType, TableType,
           NameType, ThreadType, ThreadInv
  <2> QED
    BY <2>1, <2>2, <2>3, <2>4, <2>5 DEF TypeOK
<1>25. CASE Restart
  <2>1. TableType'
    BY <1>25 DEF Restart, Goto, tableVars, TypeOK, TableType
  <2>2. ThreadType'
    BY <1>25 DEF Restart, TypeOK, ThreadType, TableType, Labels, Sides, SideOf
  <2>3. NameType'
    BY <1>25 DEF Restart, nameVars, TypeOK, NameType, ThreadInv
  <2>4. PeerType'
    BY <1>25 DEF Restart, Goto, peerVars, TypeOK, PeerType
  <2>5. HistoryType'
    BY <1>25
       DEF Restart, historyVars, TypeOK, HistoryType, TableType, NameType,
           ThreadType, ThreadInv
  <2> QED
    BY <2>1, <2>2, <2>3, <2>4, <2>5 DEF TypeOK
<1> QED
  BY <1>1, <1>2, <1>3, <1>4, <1>5, <1>6, <1>7, <1>8, <1>9, <1>10, <1>11,
     <1>12, <1>13, <1>14, <1>15, <1>16, <1>17, <1>18, <1>19, <1>20, <1>21,
     <1>22, <1>23, <1>24, <1>25 DEF Next, Handler, WrpHandshake, WrpNorth

(* Every step keeps what a handler knows about its own variables: it uses  *)
(* nothing before the line that sets it.                                   *)
LEMMA ThreadInvStep ==
  ASSUME TypeOK, ThreadInv, [Next]_vars
  PROVE  ThreadInv'
<1> USE ControllerAssumption DEF Conns, FDs, Keys
<1>1. CASE UNCHANGED vars
  BY <1>1
     DEF vars, tableVars, threadVars, nameVars, peerVars, historyVars,
         TypeOK, TableType, ThreadType, NameType, PeerType, HistoryType,
         ThreadInv, SideOf, Sides
<1>2. ASSUME NEW c \in South, MonitorConnect(c) PROVE ThreadInv'
  BY <1>2
     DEF MonitorConnect, tableVars, threadVars, nameVars, historyVars,
         TypeOK, TableType, ThreadType, NameType, PeerType, HistoryType,
         ThreadInv, SideOf, Sides
<1>3. ASSUME NEW c \in South, MonitorIdent(c) PROVE ThreadInv'
  BY <1>3
     DEF MonitorIdent, tableVars, threadVars, nameVars, historyVars, TypeOK,
         TableType, ThreadType, NameType, PeerType, HistoryType, ThreadInv,
         SideOf, Sides
<1>4. ASSUME NEW c \in North, ToolConnect(c) PROVE ThreadInv'
  BY <1>4
     DEF ToolConnect, tableVars, threadVars, nameVars, historyVars, TypeOK,
         TableType, ThreadType, NameType, PeerType, HistoryType, ThreadInv,
         SideOf, Sides
<1>5. ASSUME NEW c \in North, ToolName(c) PROVE ThreadInv'
  BY <1>5
     DEF ToolName, tableVars, threadVars, nameVars, historyVars, TypeOK,
         TableType, ThreadType, NameType, PeerType, HistoryType, ThreadInv,
         SideOf, Sides
<1>6. ASSUME NEW c \in North, ToolPacket(c) PROVE ThreadInv'
  BY <1>6
     DEF ToolPacket, tableVars, threadVars, nameVars, historyVars, TypeOK,
         TableType, ThreadType, NameType, PeerType, HistoryType, ThreadInv,
         SideOf, Sides
<1>7. ASSUME NEW side \in Sides, Accept(side) PROVE ThreadInv'
  BY <1>7
     DEF Accept, Unread, ConnsOf, Sides, nameVars, TypeOK, TableType,
         ThreadType, NameType, PeerType, HistoryType, ThreadInv, SideOf,
         Serving, SouthLabels, NorthLabels
<1>8. ASSUME NEW side \in Sides, AcceptFails(side) PROVE ThreadInv'
  BY <1>8
     DEF AcceptFails, Unread, threadVars, nameVars, peerVars, historyVars,
         TypeOK, TableType, ThreadType, NameType, PeerType, HistoryType,
         ThreadInv, SideOf, Sides
<1>9. ASSUME NEW c \in Conns, PeerClose(c) PROVE ThreadInv'
  BY <1>9
     DEF PeerClose, tableVars, threadVars, nameVars, historyVars, TypeOK,
         TableType, ThreadType, NameType, PeerType, HistoryType, ThreadInv,
         SideOf, Sides
<1>10. ASSUME NEW c \in Conns, ReadArgument(c) PROVE ThreadInv'
  BY <1>10
     DEF ReadArgument, LoopFd, SideOf, tableVars, nameVars, peerVars,
         historyVars, Goto, TypeOK, TableType, ThreadType, NameType,
         PeerType, HistoryType, ThreadInv, Sides, Labels, SouthLabels,
         NorthLabels
<1>11. ASSUME NEW c \in Conns, Handshake(c) PROVE ThreadInv'
  BY <1>11
     DEF Handshake, At, Refers, tableVars, nameVars, Goto, TypeOK, TableType,
         ThreadType, NameType, PeerType, HistoryType, ThreadInv, SideOf,
         Sides, Serving, SouthLabels, NorthLabels
<1>12. ASSUME NEW c \in Conns, ListenIdent(c) PROVE ThreadInv'
  <2>1. /\ pc[c] = "listen" /\ pc'[c] = "ident" /\ key'[c] \in Keys
        /\ \A d \in Conns : d # c => pc'[d] = pc[d] /\ key'[d] = key[d]
        /\ UNCHANGED <<fd, south_fd, peer, backlog>>
    BY <1>12 DEF ListenIdent, Goto, Token, TypeOK, ThreadType
  <2>3. fd[c] \in FDs
    BY <1>12 DEF ListenIdent, Token, At, Refers
  <2>2. \A d \in Conns : peer[d] = "away" => stream'[d] = << >>
    BY <1>12 DEF ListenIdent, Consume, ThreadInv
  <2> QED
    BY <2>1, <2>2, <2>3 DEF ThreadInv, SouthLabels, NorthLabels, Serving
<1>13. ASSUME NEW c \in Conns, ListenCorrupted(c) PROVE ThreadInv'
  BY <1>13
     DEF ListenCorrupted, Token, Consume, At, Refers, tableVars, threadVars,
         nameVars, historyVars, TypeOK, TableType, ThreadType, NameType,
         PeerType, HistoryType, ThreadInv, SideOf, Sides
<1>14. ASSUME NEW c \in Conns, ListenEnds(c) PROVE ThreadInv'
  BY <1>14
     DEF ListenEnds, EndOfFile, At, Refers, tableVars, nameVars, peerVars,
         historyVars, Goto, TypeOK, TableType, ThreadType, NameType,
         PeerType, HistoryType, ThreadInv, SideOf, Sides, Serving,
         SouthLabels, NorthLabels
<1>15. ASSUME NEW c \in Conns, IdentMap(c) PROVE ThreadInv'
  BY <1>15
     DEF IdentMap, At, Refers, tableVars, peerVars, Goto, TypeOK, TableType,
         ThreadType, NameType, PeerType, HistoryType, ThreadInv, SideOf,
         Sides, Serving, SouthLabels, NorthLabels
<1>16. ASSUME NEW c \in Conns, IdentDb(c) PROVE ThreadInv'
  BY <1>16
     DEF IdentDb, HasFree, peerVars, historyVars, Goto, TypeOK, TableType,
         ThreadType, NameType, PeerType, HistoryType, ThreadInv, SideOf,
         Sides, Serving, SouthLabels, NorthLabels
<1>17. ASSUME NEW c \in Conns, IdentDbNoReply(c) PROVE ThreadInv'
  BY <1>17
     DEF IdentDbNoReply, HasFree, tableVars, threadVars, nameVars, peerVars,
         historyVars, TypeOK, TableType, ThreadType, NameType, PeerType,
         HistoryType, ThreadInv, SideOf, Sides
<1>18. ASSUME NEW c \in Conns, ReadKey(c) PROVE ThreadInv'
  <2>1. /\ pc[c] = "key" /\ pc'[c] \in {"key", "lookup"}
        /\ \A d \in Conns : d # c => pc'[d] = pc[d] /\ key'[d] = key[d]
        /\ UNCHANGED <<fd, south_fd, loopFd, peer, backlog>>
    BY <1>18 DEF ReadKey, Goto, tableVars, TypeOK, ThreadType
  <2>2. pc'[c] = "lookup" => key'[c] \in Keys
    BY <1>18, <2>1 DEF ReadKey, Goto, TypeOK, ThreadType
  <2>3. \A d \in Conns : peer[d] = "away" => stream'[d] = << >>
    BY <1>18 DEF ReadKey, Consume, ThreadInv
  <2> QED
    BY <2>1, <2>2, <2>3 DEF ThreadInv, SouthLabels, NorthLabels, Serving
<1>19. ASSUME NEW c \in Conns, ReadKeyEnds(c) PROVE ThreadInv'
  BY <1>19
     DEF ReadKeyEnds, EndOfFile, At, Refers, tableVars, nameVars, peerVars,
         historyVars, Goto, TypeOK, TableType, ThreadType, NameType,
         PeerType, HistoryType, ThreadInv, SideOf, Sides, Serving,
         SouthLabels, NorthLabels
<1>20. ASSUME NEW c \in Conns, Lookup(c) PROVE ThreadInv'
  BY <1>20
     DEF Lookup, tableVars, nameVars, peerVars, Goto, TypeOK, TableType,
         ThreadType, NameType, PeerType, HistoryType, ThreadInv, SideOf,
         Sides, Serving, SouthLabels, NorthLabels
<1>21. ASSUME NEW c \in Conns, ReadPacket(c) PROVE ThreadInv'
  <2>1. /\ pc[c] = "packet" /\ pc'[c] = "forward"
        /\ \A d \in Conns : d # c => pc'[d] = pc[d]
        /\ UNCHANGED <<fd, south_fd, key, peer, backlog>>
    BY <1>21 DEF ReadPacket, Goto, TypeOK, ThreadType
  <2>2. \A d \in Conns : peer[d] = "away" => stream'[d] = << >>
    <3>1. CASE Token(c) /\ Consume(c)
      BY <3>1 DEF Token, Consume, ThreadInv
    <3>2. CASE UNCHANGED stream
      BY <3>2 DEF ThreadInv
    <3> QED
      BY <1>21, <3>1, <3>2 DEF ReadPacket
  <2> QED
    BY <2>1, <2>2 DEF ThreadInv, SouthLabels, NorthLabels
<1>22. ASSUME NEW c \in Conns, Forward(c) PROVE ThreadInv'
  BY <1>22
     DEF Forward, MayBlock, Refers, tableVars, nameVars, peerVars, Goto,
         TypeOK, TableType, ThreadType, NameType, PeerType, HistoryType,
         ThreadInv, SideOf, Sides, Serving, SouthLabels, NorthLabels
<1>23. ASSUME NEW c \in Conns, Close(c) PROVE ThreadInv'
  BY <1>23
     DEF Close, Without, nameVars, peerVars, historyVars, Goto, TypeOK,
         TableType, ThreadType, NameType, PeerType, HistoryType, ThreadInv,
         SideOf, Sides, Serving, SouthLabels, NorthLabels
<1>24. ASSUME NEW c \in Conns, Killed(c) PROVE ThreadInv'
  BY <1>24
     DEF Killed, BrokenPipe, At, Refers, tableVars, threadVars, nameVars,
         peerVars, historyVars, TypeOK, TableType, ThreadType, NameType,
         PeerType, HistoryType, ThreadInv, SideOf, Sides
<1>25. CASE Restart
  BY <1>25
     DEF Restart, TableType, ThreadType, NameType, PeerType, HistoryType,
         ThreadInv, SideOf, Sides, Serving, SouthLabels, NorthLabels
<1> QED
  BY <1>1, <1>2, <1>3, <1>4, <1>5, <1>6, <1>7, <1>8, <1>9, <1>10, <1>11,
     <1>12, <1>13, <1>14, <1>15, <1>16, <1>17, <1>18, <1>19, <1>20, <1>21,
     <1>22, <1>23, <1>24, <1>25 DEF Next, Handler, WrpHandshake, WrpNorth

(* Only accept() writes the fd of a loop, and sets raced when a thread of  *)
(* the same side has yet to read it, whether it succeeds or fails; Close   *)
(* frees only descriptors of the closing handler.                          *)
LEMMA StartInvStep ==
  ASSUME TypeOK, ThreadInv, StartInv, OwnDescriptor, NoDescriptorLost,
         [Next]_vars
  PROVE  StartInv'
<1> USE ControllerAssumption DEF Conns, FDs, Keys
<1>1. CASE UNCHANGED vars
  BY <1>1
     DEF vars, tableVars, threadVars, nameVars, peerVars, historyVars,
         TypeOK, TableType, ThreadType, ThreadInv, StartInv, OwnDescriptor,
         SideOf, At, Refers
<1>2. ASSUME NEW c \in South, MonitorConnect(c) PROVE StartInv'
  BY <1>2
     DEF MonitorConnect, tableVars, threadVars, nameVars, historyVars,
         TypeOK, TableType, ThreadType, ThreadInv, StartInv, OwnDescriptor,
         SideOf, At, Refers
<1>3. ASSUME NEW c \in South, MonitorIdent(c) PROVE StartInv'
  BY <1>3
     DEF MonitorIdent, tableVars, threadVars, nameVars, historyVars, TypeOK,
         TableType, ThreadType, ThreadInv, StartInv, OwnDescriptor, SideOf,
         At, Refers
<1>4. ASSUME NEW c \in North, ToolConnect(c) PROVE StartInv'
  BY <1>4
     DEF ToolConnect, tableVars, threadVars, nameVars, historyVars, TypeOK,
         TableType, ThreadType, ThreadInv, StartInv, OwnDescriptor, SideOf,
         At, Refers
<1>5. ASSUME NEW c \in North, ToolName(c) PROVE StartInv'
  BY <1>5
     DEF ToolName, tableVars, threadVars, nameVars, historyVars, TypeOK,
         TableType, ThreadType, ThreadInv, StartInv, OwnDescriptor, SideOf,
         At, Refers
<1>6. ASSUME NEW c \in North, ToolPacket(c) PROVE StartInv'
  BY <1>6
     DEF ToolPacket, tableVars, threadVars, nameVars, historyVars, TypeOK,
         TableType, ThreadType, ThreadInv, StartInv, OwnDescriptor, SideOf,
         At, Refers
<1>7. ASSUME NEW side \in Sides, Accept(side) PROVE StartInv'
  <2>1. PICK c \in backlog \cap ConnsOf(side), f \in FDs :
          /\ fds[f] = NULL
          /\ fds' = [fds EXCEPT ![f] = c]
          /\ loopFd' = [loopFd EXCEPT ![side] = f]
          /\ pc' = [pc EXCEPT ![c] = "start"]
    BY <1>7 DEF Accept, Unread, LowestFree
  <2>2. /\ c \in Conns /\ SideOf(c) = side /\ pc[c] = "none"
        /\ pc'[c] = "start" /\ loopFd'[side] = f /\ fds'[f] = c
        /\ \A d \in Conns : d # c => pc'[d] = pc[d]
        /\ \A g \in FDs : g # f => fds'[g] = fds[g]
    BY <1>7, <2>1
       DEF ConnsOf, SideOf, Sides, TypeOK, TableType, ThreadType, ThreadInv
  <2>3. UNCHANGED <<fd, key, south_fd, owner, route, controller_map>>
    BY <1>7 DEF Accept, Unread, nameVars
  <2>4. ASSUME ~raced', NEW d \in Conns, pc'[d] = "start"
        PROVE  /\ loop'[SideOf(d)] = "accept"
               /\ Refers(loopFd[SideOf(d)])' = d
    <3>1. CASE d = c
      BY <1>7, <2>2, <3>1 DEF Accept, Refers
    <3>2. CASE d # c
      <4>a. pc[d] = "start"
        BY <2>2, <2>4, <3>2
      <4>b. raced' = (raced \/ \E e \in ConnsOf(side) : pc[e] = "start")
        BY <1>7 DEF Accept, Unread
      <4>c. ~raced /\ d \notin ConnsOf(side)
        BY <2>4, <4>a, <4>b
      <4>1. pc[d] = "start" /\ ~raced /\ d \notin ConnsOf(side)
        BY <4>a, <4>c
      <4>2. SideOf(d) # side /\ SideOf(d) \in Sides
        BY <1>7, <4>1 DEF SideOf, ConnsOf, Sides
      <4>3. loopFd'[SideOf(d)] = loopFd[SideOf(d)] /\ UNCHANGED loop
        BY <1>7, <2>1, <4>1, <4>2 DEF Accept
      <4>4. loop[SideOf(d)] = "accept" /\ Refers(loopFd[SideOf(d)]) = d
        BY <4>1 DEF StartInv
      <4>5. loopFd[SideOf(d)] \in FDs /\ fds[loopFd[SideOf(d)]] = d
        BY <4>4 DEF Refers
      <4> QED
        BY <2>1, <2>2, <4>3, <4>4, <4>5 DEF Refers
    <3> QED
      BY <3>1, <3>2
  <2> QED
    BY <2>4 DEF StartInv
<1>8. ASSUME NEW side \in Sides, AcceptFails(side) PROVE StartInv'
  <2>1. UNCHANGED <<fds, pc>> /\ raced' = (raced \/ Unread(side))
        /\ loop' = [loop EXCEPT ![side] = "ended"]
        /\ loopFd' = [loopFd EXCEPT ![side] = 0]
    BY <1>8 DEF AcceptFails, threadVars
  <2>2. ASSUME ~raced', NEW d \in Conns, pc'[d] = "start"
        PROVE  /\ loop'[SideOf(d)] = "accept"
               /\ Refers(loopFd[SideOf(d)])' = d
    <3>1. d \notin ConnsOf(side) /\ ~raced /\ pc[d] = "start"
      BY <2>1, <2>2 DEF Unread
    <3>2. SideOf(d) # side
      BY <1>8, <3>1 DEF SideOf, ConnsOf, Sides
    <3>3. loop[SideOf(d)] = "accept" /\ Refers(loopFd[SideOf(d)]) = d
      BY <3>1 DEF StartInv
    <3> QED
      BY <2>1, <3>2, <3>3 DEF Refers
  <2> QED
    BY <2>2 DEF StartInv
<1>9. ASSUME NEW c \in Conns, PeerClose(c) PROVE StartInv'
  BY <1>9
     DEF PeerClose, tableVars, threadVars, nameVars, historyVars, TypeOK,
         TableType, ThreadType, ThreadInv, StartInv, OwnDescriptor, SideOf,
         At, Refers
<1>10. ASSUME NEW c \in Conns, ReadArgument(c) PROVE StartInv'
  BY <1>10
     DEF ReadArgument, LoopFd, SideOf, tableVars, nameVars, peerVars,
         historyVars, Goto, TypeOK, TableType, ThreadType, ThreadInv,
         StartInv, OwnDescriptor, At, Refers
<1>11. ASSUME NEW c \in Conns, Handshake(c) PROVE StartInv'
  BY <1>11
     DEF Handshake, At, Refers, tableVars, nameVars, Goto, TypeOK, TableType,
         ThreadType, ThreadInv, StartInv, OwnDescriptor, SideOf
<1>12. ASSUME NEW c \in Conns, ListenIdent(c) PROVE StartInv'
  BY <1>12
     DEF ListenIdent, Token, Consume, At, Refers, tableVars, nameVars,
         historyVars, Goto, TypeOK, TableType, ThreadType, ThreadInv,
         StartInv, OwnDescriptor, SideOf
<1>13. ASSUME NEW c \in Conns, ListenCorrupted(c) PROVE StartInv'
  BY <1>13
     DEF ListenCorrupted, Token, Consume, At, Refers, tableVars, threadVars,
         nameVars, historyVars, TypeOK, TableType, ThreadType, ThreadInv,
         StartInv, OwnDescriptor, SideOf
<1>14. ASSUME NEW c \in Conns, ListenEnds(c) PROVE StartInv'
  BY <1>14
     DEF ListenEnds, EndOfFile, At, Refers, tableVars, nameVars, peerVars,
         historyVars, Goto, TypeOK, TableType, ThreadType, ThreadInv,
         StartInv, OwnDescriptor, SideOf
<1>15. ASSUME NEW c \in Conns, IdentMap(c) PROVE StartInv'
  BY <1>15
     DEF IdentMap, At, Refers, tableVars, peerVars, Goto, TypeOK, TableType,
         ThreadType, ThreadInv, StartInv, OwnDescriptor, SideOf
<1>16. ASSUME NEW c \in Conns, IdentDb(c) PROVE StartInv'
  BY <1>16
     DEF IdentDb, LowestFree, HasFree, peerVars, historyVars, Goto, TypeOK,
         TableType, ThreadType, ThreadInv, StartInv, OwnDescriptor, SideOf,
         At, Refers
<1>17. ASSUME NEW c \in Conns, IdentDbNoReply(c) PROVE StartInv'
  BY <1>17
     DEF IdentDbNoReply, HasFree, tableVars, threadVars, nameVars, peerVars,
         historyVars, TypeOK, TableType, ThreadType, ThreadInv, StartInv,
         OwnDescriptor, SideOf, At, Refers
<1>18. ASSUME NEW c \in Conns, ReadKey(c) PROVE StartInv'
  BY <1>18
     DEF ReadKey, Token, Consume, At, Refers, tableVars, nameVars,
         historyVars, Goto, TypeOK, TableType, ThreadType, ThreadInv,
         StartInv, OwnDescriptor, SideOf
<1>19. ASSUME NEW c \in Conns, ReadKeyEnds(c) PROVE StartInv'
  BY <1>19
     DEF ReadKeyEnds, EndOfFile, At, Refers, tableVars, nameVars, peerVars,
         historyVars, Goto, TypeOK, TableType, ThreadType, ThreadInv,
         StartInv, OwnDescriptor, SideOf
<1>20. ASSUME NEW c \in Conns, Lookup(c) PROVE StartInv'
  BY <1>20
     DEF Lookup, tableVars, nameVars, peerVars, Goto, TypeOK, TableType,
         ThreadType, ThreadInv, StartInv, OwnDescriptor, SideOf, At, Refers
<1>21. ASSUME NEW c \in Conns, ReadPacket(c) PROVE StartInv'
  BY <1>21
     DEF ReadPacket, Token, Consume, EndOfFile, At, Refers, tableVars,
         nameVars, historyVars, Goto, TypeOK, TableType, ThreadType,
         ThreadInv, StartInv, OwnDescriptor, SideOf
<1>22. ASSUME NEW c \in Conns, Forward(c) PROVE StartInv'
  BY <1>22
     DEF Forward, MayBlock, Refers, tableVars, nameVars, peerVars, Goto,
         TypeOK, TableType, ThreadType, ThreadInv, StartInv, OwnDescriptor,
         SideOf, At, Refers
<1>23. ASSUME NEW c \in Conns, Close(c) PROVE StartInv'
  BY <1>23
     DEF Close, Without, nameVars, peerVars, historyVars, Goto, TypeOK,
         TableType, ThreadType, ThreadInv, StartInv, OwnDescriptor, SideOf,
         At, Refers, Serving
<1>24. ASSUME NEW c \in Conns, Killed(c) PROVE StartInv'
  BY <1>24
     DEF Killed, BrokenPipe, At, Refers, tableVars, threadVars, nameVars,
         peerVars, historyVars, TypeOK, TableType, ThreadType, ThreadInv,
         StartInv, OwnDescriptor, SideOf
<1>25. CASE Restart
  BY <1>25
     DEF Restart, TableType, ThreadType, ThreadInv, StartInv, OwnDescriptor,
         SideOf, At, Refers
<1> QED
  BY <1>1, <1>2, <1>3, <1>4, <1>5, <1>6, <1>7, <1>8, <1>9, <1>10, <1>11,
     <1>12, <1>13, <1>14, <1>15, <1>16, <1>17, <1>18, <1>19, <1>20, <1>21,
     <1>22, <1>23, <1>24, <1>25 DEF Next, Handler, WrpHandshake, WrpNorth

(* A handler starts with the descriptor of its own connection; nobody else *)
(* frees it, and accept() and socket() only take free ones.                *)
LEMMA OwnDescriptorStep ==
  ASSUME TypeOK, ThreadInv, StartInv, OwnDescriptor, NoDescriptorLost,
         [Next]_vars
  PROVE  OwnDescriptor'
<1> USE ControllerAssumption DEF Conns, FDs, Keys
<1>1. CASE UNCHANGED vars
  BY <1>1
     DEF vars, tableVars, threadVars, nameVars, peerVars, historyVars,
         TypeOK, TableType, ThreadType, ThreadInv, StartInv, OwnDescriptor,
         SideOf, At, Refers
<1>2. ASSUME NEW c \in South, MonitorConnect(c) PROVE OwnDescriptor'
  BY <1>2
     DEF MonitorConnect, tableVars, threadVars, nameVars, historyVars,
         TypeOK, TableType, ThreadType, ThreadInv, StartInv, OwnDescriptor,
         SideOf, At, Refers
<1>3. ASSUME NEW c \in South, MonitorIdent(c) PROVE OwnDescriptor'
  BY <1>3
     DEF MonitorIdent, tableVars, threadVars, nameVars, historyVars, TypeOK,
         TableType, ThreadType, ThreadInv, StartInv, OwnDescriptor, SideOf,
         At, Refers
<1>4. ASSUME NEW c \in North, ToolConnect(c) PROVE OwnDescriptor'
  BY <1>4
     DEF ToolConnect, tableVars, threadVars, nameVars, historyVars, TypeOK,
         TableType, ThreadType, ThreadInv, StartInv, OwnDescriptor, SideOf,
         At, Refers
<1>5. ASSUME NEW c \in North, ToolName(c) PROVE OwnDescriptor'
  BY <1>5
     DEF ToolName, tableVars, threadVars, nameVars, historyVars, TypeOK,
         TableType, ThreadType, ThreadInv, StartInv, OwnDescriptor, SideOf,
         At, Refers
<1>6. ASSUME NEW c \in North, ToolPacket(c) PROVE OwnDescriptor'
  BY <1>6
     DEF ToolPacket, tableVars, threadVars, nameVars, historyVars, TypeOK,
         TableType, ThreadType, ThreadInv, StartInv, OwnDescriptor, SideOf,
         At, Refers
<1>7. ASSUME NEW side \in Sides, Accept(side) PROVE OwnDescriptor'
  <2>1. PICK c \in backlog \cap ConnsOf(side), f \in FDs :
          /\ fds[f] = NULL
          /\ fds' = [fds EXCEPT ![f] = c]
          /\ loopFd' = [loopFd EXCEPT ![side] = f]
          /\ pc' = [pc EXCEPT ![c] = "start"]
    BY <1>7 DEF Accept, Unread, LowestFree
  <2>2. /\ c \in Conns /\ SideOf(c) = side /\ pc[c] = "none"
        /\ pc'[c] = "start" /\ loopFd'[side] = f /\ fds'[f] = c
        /\ \A d \in Conns : d # c => pc'[d] = pc[d]
        /\ \A g \in FDs : g # f => fds'[g] = fds[g]
    BY <1>7, <2>1
       DEF ConnsOf, SideOf, Sides, TypeOK, TableType, ThreadType, ThreadInv
  <2>3. UNCHANGED <<fd, key, south_fd, owner, route, controller_map>>
    BY <1>7 DEF Accept, Unread, nameVars
  <2>4. ASSUME ~raced', NEW d \in Conns, pc'[d] \in Serving
        PROVE  At(d)' = d
    <3>1. d # c /\ pc[d] \in Serving /\ ~raced
      BY <1>7, <2>2, <2>4 DEF Accept, Unread, Serving
    <3>2. fd[d] \in FDs /\ fds[fd[d]] = d
      BY <3>1 DEF OwnDescriptor, At, Refers
    <3> QED
      BY <2>1, <2>2, <2>3, <3>2 DEF At, Refers
  <2> QED
    BY <2>4 DEF OwnDescriptor, At, Refers
<1>8. ASSUME NEW side \in Sides, AcceptFails(side) PROVE OwnDescriptor'
  BY <1>8
     DEF AcceptFails, Unread, threadVars, nameVars, peerVars, historyVars,
         TypeOK, TableType, ThreadType, ThreadInv, StartInv, OwnDescriptor,
         SideOf, At, Refers
<1>9. ASSUME NEW c \in Conns, PeerClose(c) PROVE OwnDescriptor'
  BY <1>9
     DEF PeerClose, tableVars, threadVars, nameVars, historyVars, TypeOK,
         TableType, ThreadType, ThreadInv, StartInv, OwnDescriptor, SideOf,
         At, Refers
<1>10. ASSUME NEW c \in Conns, ReadArgument(c) PROVE OwnDescriptor'
  BY <1>10
     DEF ReadArgument, LoopFd, SideOf, tableVars, nameVars, peerVars,
         historyVars, Goto, TypeOK, TableType, ThreadType, ThreadInv,
         StartInv, OwnDescriptor, At, Refers
<1>11. ASSUME NEW c \in Conns, Handshake(c) PROVE OwnDescriptor'
  BY <1>11
     DEF Handshake, At, Refers, tableVars, nameVars, Goto, TypeOK, TableType,
         ThreadType, ThreadInv, StartInv, OwnDescriptor, SideOf, Serving
<1>12. ASSUME NEW c \in Conns, ListenIdent(c) PROVE OwnDescriptor'
  BY <1>12
     DEF ListenIdent, Token, Consume, At, Refers, tableVars, nameVars,
         historyVars, Goto, TypeOK, TableType, ThreadType, ThreadInv,
         StartInv, OwnDescriptor, SideOf, Serving
<1>13. ASSUME NEW c \in Conns, ListenCorrupted(c) PROVE OwnDescriptor'
  BY <1>13
     DEF ListenCorrupted, Token, Consume, At, Refers, tableVars, threadVars,
         nameVars, historyVars, TypeOK, TableType, ThreadType, ThreadInv,
         StartInv, OwnDescriptor, SideOf
<1>14. ASSUME NEW c \in Conns, ListenEnds(c) PROVE OwnDescriptor'
  BY <1>14
     DEF ListenEnds, EndOfFile, At, Refers, tableVars, nameVars, peerVars,
         historyVars, Goto, TypeOK, TableType, ThreadType, ThreadInv,
         StartInv, OwnDescriptor, SideOf, Serving
<1>15. ASSUME NEW c \in Conns, IdentMap(c) PROVE OwnDescriptor'
  BY <1>15
     DEF IdentMap, At, Refers, tableVars, peerVars, Goto, TypeOK, TableType,
         ThreadType, ThreadInv, StartInv, OwnDescriptor, SideOf, Serving
<1>16. ASSUME NEW c \in Conns, IdentDb(c) PROVE OwnDescriptor'
  BY <1>16
     DEF IdentDb, LowestFree, HasFree, peerVars, historyVars, Goto, TypeOK,
         TableType, ThreadType, ThreadInv, StartInv, OwnDescriptor, SideOf,
         At, Refers, Serving
<1>17. ASSUME NEW c \in Conns, IdentDbNoReply(c) PROVE OwnDescriptor'
  BY <1>17
     DEF IdentDbNoReply, HasFree, tableVars, threadVars, nameVars, peerVars,
         historyVars, TypeOK, TableType, ThreadType, ThreadInv, StartInv,
         OwnDescriptor, SideOf, At, Refers
<1>18. ASSUME NEW c \in Conns, ReadKey(c) PROVE OwnDescriptor'
  BY <1>18
     DEF ReadKey, Token, Consume, At, Refers, tableVars, nameVars,
         historyVars, Goto, TypeOK, TableType, ThreadType, ThreadInv,
         StartInv, OwnDescriptor, SideOf, Serving
<1>19. ASSUME NEW c \in Conns, ReadKeyEnds(c) PROVE OwnDescriptor'
  BY <1>19
     DEF ReadKeyEnds, EndOfFile, At, Refers, tableVars, nameVars, peerVars,
         historyVars, Goto, TypeOK, TableType, ThreadType, ThreadInv,
         StartInv, OwnDescriptor, SideOf, Serving
<1>20. ASSUME NEW c \in Conns, Lookup(c) PROVE OwnDescriptor'
  BY <1>20
     DEF Lookup, tableVars, nameVars, peerVars, Goto, TypeOK, TableType,
         ThreadType, ThreadInv, StartInv, OwnDescriptor, SideOf, At, Refers,
         Serving
<1>21. ASSUME NEW c \in Conns, ReadPacket(c) PROVE OwnDescriptor'
  BY <1>21
     DEF ReadPacket, Token, Consume, EndOfFile, At, Refers, tableVars,
         nameVars, historyVars, Goto, TypeOK, TableType, ThreadType,
         ThreadInv, StartInv, OwnDescriptor, SideOf, Serving
<1>22. ASSUME NEW c \in Conns, Forward(c) PROVE OwnDescriptor'
  BY <1>22
     DEF Forward, MayBlock, Refers, tableVars, nameVars, peerVars, Goto,
         TypeOK, TableType, ThreadType, ThreadInv, StartInv, OwnDescriptor,
         SideOf, At, Refers, Serving
<1>23. ASSUME NEW c \in Conns, Close(c) PROVE OwnDescriptor'
  BY <1>23
     DEF Close, Without, nameVars, peerVars, historyVars, Goto, TypeOK,
         TableType, ThreadType, ThreadInv, StartInv, OwnDescriptor, SideOf,
         At, Refers, Serving
<1>24. ASSUME NEW c \in Conns, Killed(c) PROVE OwnDescriptor'
  BY <1>24
     DEF Killed, BrokenPipe, At, Refers, tableVars, threadVars, nameVars,
         peerVars, historyVars, TypeOK, TableType, ThreadType, ThreadInv,
         StartInv, OwnDescriptor, SideOf
<1>25. CASE Restart
  BY <1>25
     DEF Restart, TableType, ThreadType, ThreadInv, StartInv, OwnDescriptor,
         SideOf, At, Refers, Serving
<1> QED
  BY <1>1, <1>2, <1>3, <1>4, <1>5, <1>6, <1>7, <1>8, <1>9, <1>10, <1>11,
     <1>12, <1>13, <1>14, <1>15, <1>16, <1>17, <1>18, <1>19, <1>20, <1>21,
     <1>22, <1>23, <1>24, <1>25 DEF Next, Handler, WrpHandshake, WrpNorth

(* A descriptor with a connection is either still in the loop's fd, for the*)
(* thread that was created for it, or in the fd of that thread, until it   *)
(* closes it.                                                              *)
LEMMA NoDescriptorLostStep ==
  ASSUME TypeOK, ThreadInv, StartInv, OwnDescriptor, NoDescriptorLost,
         [Next]_vars
  PROVE  NoDescriptorLost'
<1> USE ControllerAssumption DEF Conns, FDs, Keys
<1>1. CASE UNCHANGED vars
  BY <1>1
     DEF vars, tableVars, threadVars, nameVars, peerVars, historyVars,
         TypeOK, TableType, ThreadType, ThreadInv, StartInv, OwnDescriptor,
         NoDescriptorLost, SideOf, At, Refers
<1>2. ASSUME NEW c \in South, MonitorConnect(c) PROVE NoDescriptorLost'
  BY <1>2
     DEF MonitorConnect, tableVars, threadVars, nameVars, historyVars,
         TypeOK, TableType, ThreadType, ThreadInv, StartInv, OwnDescriptor,
         NoDescriptorLost, SideOf, At, Refers
<1>3. ASSUME NEW c \in South, MonitorIdent(c) PROVE NoDescriptorLost'
  BY <1>3
     DEF MonitorIdent, tableVars, threadVars, nameVars, historyVars, TypeOK,
         TableType, ThreadType, ThreadInv, StartInv, OwnDescriptor,
         NoDescriptorLost, SideOf, At, Refers
<1>4. ASSUME NEW c \in North, ToolConnect(c) PROVE NoDescriptorLost'
  BY <1>4
     DEF ToolConnect, tableVars, threadVars, nameVars, historyVars, TypeOK,
         TableType, ThreadType, ThreadInv, StartInv, OwnDescriptor,
         NoDescriptorLost, SideOf, At, Refers
<1>5. ASSUME NEW c \in North, ToolName(c) PROVE NoDescriptorLost'
  BY <1>5
     DEF ToolName, tableVars, threadVars, nameVars, historyVars, TypeOK,
         TableType, ThreadType, ThreadInv, StartInv, OwnDescriptor,
         NoDescriptorLost, SideOf, At, Refers
<1>6. ASSUME NEW c \in North, ToolPacket(c) PROVE NoDescriptorLost'
  BY <1>6
     DEF ToolPacket, tableVars, threadVars, nameVars, historyVars, TypeOK,
         TableType, ThreadType, ThreadInv, StartInv, OwnDescriptor,
         NoDescriptorLost, SideOf, At, Refers
<1>7. ASSUME NEW side \in Sides, Accept(side) PROVE NoDescriptorLost'
  <2>1. PICK c \in backlog \cap ConnsOf(side), f \in FDs :
          /\ fds[f] = NULL
          /\ fds' = [fds EXCEPT ![f] = c]
          /\ loopFd' = [loopFd EXCEPT ![side] = f]
          /\ pc' = [pc EXCEPT ![c] = "start"]
    BY <1>7 DEF Accept, Unread, LowestFree
  <2>2. /\ c \in Conns /\ SideOf(c) = side /\ pc[c] = "none"
        /\ pc'[c] = "start" /\ loopFd'[side] = f /\ fds'[f] = c
        /\ \A d \in Conns : d # c => pc'[d] = pc[d]
        /\ \A g \in FDs : g # f => fds'[g] = fds[g]
    BY <1>7, <2>1
       DEF ConnsOf, SideOf, Sides, TypeOK, TableType, ThreadType, ThreadInv
  <2>3. UNCHANGED <<fd, key, south_fd, owner, route, controller_map>>
    BY <1>7 DEF Accept, Unread, nameVars
  <2>4. ASSUME ~raced', NEW g \in FDs, fds'[g] \in Conns, NEW d, d = fds'[g]
        PROVE  \/ pc'[d] = "start" /\ loopFd'[SideOf(d)] = g
               \/ pc'[d] \in Serving /\ fd'[d] = g
    <3>1. CASE g = f
      BY <2>2, <2>4, <3>1
    <3>2. CASE g # f
      <4>1. d = fds[g] /\ d \in Conns /\ ~raced
        BY <1>7, <2>2, <2>4, <3>2 DEF Accept, Unread
      <4>2. \/ pc[d] = "start" /\ loopFd[SideOf(d)] = g
            \/ pc[d] \in Serving /\ fd[d] = g
        BY <4>1 DEF NoDescriptorLost
      <4>3. d # c
        BY <2>2, <4>2 DEF Serving
      <4>4. pc[d] = "start" => d \notin ConnsOf(side)
        BY <1>7, <2>4, <4>1 DEF Accept, Unread
      <4>5. pc[d] = "start" => loopFd'[SideOf(d)] = loopFd[SideOf(d)]
        BY <1>7, <2>1, <4>1, <4>4 DEF SideOf, ConnsOf
      <4> QED
        BY <2>2, <2>3, <4>1, <4>2, <4>3, <4>5
    <3> QED
      BY <3>1, <3>2
  <2> QED
    BY <2>4 DEF NoDescriptorLost
<1>8. ASSUME NEW side \in Sides, AcceptFails(side) PROVE NoDescriptorLost'
  <2>1. UNCHANGED <<fds, pc, fd>> /\ raced' = (raced \/ Unread(side))
        /\ loopFd' = [loopFd EXCEPT ![side] = 0]
    BY <1>8 DEF AcceptFails, threadVars
  <2>2. ASSUME ~raced', NEW g \in FDs, fds'[g] \in Conns, NEW d, d = fds'[g]
        PROVE  \/ pc'[d] = "start" /\ loopFd'[SideOf(d)] = g
               \/ pc'[d] \in Serving /\ fd'[d] = g
    <3>1. \/ pc[d] = "start" /\ loopFd[SideOf(d)] = g
          \/ pc[d] \in Serving /\ fd[d] = g
      BY <2>1, <2>2 DEF NoDescriptorLost
    <3>2. pc[d] = "start" => d \notin ConnsOf(side) /\ d \in Conns
      BY <2>1, <2>2 DEF Unread
    <3>3. pc[d] = "start" => SideOf(d) # side
      BY <1>8, <3>2 DEF SideOf, ConnsOf, Sides
    <3> QED
      BY <2>1, <3>1, <3>3
  <2> QED
    BY <2>2 DEF NoDescriptorLost
<1>9. ASSUME NEW c \in Conns, PeerClose(c) PROVE NoDescriptorLost'
  BY <1>9
     DEF PeerClose, tableVars, threadVars, nameVars, historyVars, TypeOK,
         TableType, ThreadType, ThreadInv, StartInv, OwnDescriptor,
         NoDescriptorLost, SideOf, At, Refers
<1>10. ASSUME NEW c \in Conns, ReadArgument(c) PROVE NoDescriptorLost'
  <2>1. /\ pc[c] = "start" /\ pc'[c] \in Serving
        /\ \A d \in Conns : d # c => pc'[d] = pc[d] /\ fd'[d] = fd[d]
        /\ UNCHANGED <<fds, loopFd, raced>>
        /\ fd'[c] \in LoopFd(SideOf(c))
    BY <1>10
       DEF ReadArgument, Goto, tableVars, historyVars, TypeOK, ThreadType,
           Serving
  <2>3. ~raced => fd'[c] = loopFd[SideOf(c)]
    BY <2>1 DEF StartInv, LoopFd
  <2>2. ASSUME ~raced', NEW g \in FDs, fds'[g] \in Conns, NEW d, d = fds'[g]
        PROVE  \/ pc'[d] = "start" /\ loopFd'[SideOf(d)] = g
               \/ pc'[d] \in Serving /\ fd'[d] = g
    <3>1. \/ pc[d] = "start" /\ loopFd[SideOf(d)] = g
          \/ pc[d] \in Serving /\ fd[d] = g
      BY <2>1, <2>2 DEF NoDescriptorLost
    <3>2. CASE d = c
      BY <2>1, <2>2, <2>3, <3>1, <3>2 DEF Serving
    <3>3. CASE d # c
      BY <2>1, <2>2, <3>1, <3>3
    <3> QED
      BY <3>2, <3>3
  <2> QED
    BY <2>2 DEF NoDescriptorLost
<1>11. ASSUME NEW c \in Conns, Handshake(c) PROVE NoDescriptorLost'
  BY <1>11
     DEF Handshake, At, Refers, tableVars, nameVars, Goto, TypeOK, TableType,
         ThreadType, ThreadInv, StartInv, OwnDescriptor, NoDescriptorLost,
         SideOf, Serving
<1>12. ASSUME NEW c \in Conns, ListenIdent(c) PROVE NoDescriptorLost'
  BY <1>12
     DEF ListenIdent, Token, Consume, At, Refers, tableVars, nameVars,
         historyVars, Goto, TypeOK, TableType, ThreadType, ThreadInv,
         StartInv, OwnDescriptor, NoDescriptorLost, SideOf, Serving
<1>13. ASSUME NEW c \in Conns, ListenCorrupted(c) PROVE NoDescriptorLost'
  BY <1>13
     DEF ListenCorrupted, Token, Consume, At, Refers, tableVars, threadVars,
         nameVars, historyVars, TypeOK, TableType, ThreadType, ThreadInv,
         StartInv, OwnDescriptor, NoDescriptorLost, SideOf
<1>14. ASSUME NEW c \in Conns, ListenEnds(c) PROVE NoDescriptorLost'
  BY <1>14
     DEF ListenEnds, EndOfFile, At, Refers, tableVars, nameVars, peerVars,
         historyVars, Goto, TypeOK, TableType, ThreadType, ThreadInv,
         StartInv, OwnDescriptor, NoDescriptorLost, SideOf, Serving
<1>15. ASSUME NEW c \in Conns, IdentMap(c) PROVE NoDescriptorLost'
  BY <1>15
     DEF IdentMap, At, Refers, tableVars, peerVars, Goto, TypeOK, TableType,
         ThreadType, ThreadInv, StartInv, OwnDescriptor, NoDescriptorLost,
         SideOf, Serving
<1>16. ASSUME NEW c \in Conns, IdentDb(c) PROVE NoDescriptorLost'
  <2>1. /\ pc[c] = "dbput" /\ pc'[c] = "listen"
        /\ \A d \in Conns : d # c => pc'[d] = pc[d]
        /\ UNCHANGED <<fd, loopFd, raced>>
    BY <1>16 DEF IdentDb, Goto, historyVars, TypeOK, ThreadType
  <2>2. \A g \in FDs : fds'[g] \in Conns => fds'[g] = fds[g]
    BY <1>16 DEF IdentDb, TypeOK, TableType
  <2> QED
    BY <2>1, <2>2 DEF NoDescriptorLost, Serving
<1>17. ASSUME NEW c \in Conns, IdentDbNoReply(c) PROVE NoDescriptorLost'
  BY <1>17
     DEF IdentDbNoReply, HasFree, tableVars, threadVars, nameVars, peerVars,
         historyVars, TypeOK, TableType, ThreadType, ThreadInv, StartInv,
         OwnDescriptor, NoDescriptorLost, SideOf, At, Refers
<1>18. ASSUME NEW c \in Conns, ReadKey(c) PROVE NoDescriptorLost'
  <2>1. /\ pc[c] = "key" /\ pc'[c] \in {"key", "lookup"}
        /\ \A d \in Conns : d # c => pc'[d] = pc[d]
        /\ UNCHANGED <<fds, fd, loopFd, raced>>
    BY <1>18 DEF ReadKey, Goto, tableVars, historyVars, TypeOK, ThreadType
  <2> QED
    BY <2>1 DEF NoDescriptorLost, Serving
<1>19. ASSUME NEW c \in Conns, ReadKeyEnds(c) PROVE NoDescriptorLost'
  BY <1>19
     DEF ReadKeyEnds, EndOfFile, At, Refers, tableVars, nameVars, peerVars,
         historyVars, Goto, TypeOK, TableType, ThreadType, ThreadInv,
         StartInv, OwnDescriptor, NoDescriptorLost, SideOf, Serving
<1>20. ASSUME NEW c \in Conns, Lookup(c) PROVE NoDescriptorLost'
  BY <1>20
     DEF Lookup, tableVars, nameVars, peerVars, Goto, TypeOK, TableType,
         ThreadType, ThreadInv, StartInv, OwnDescriptor, NoDescriptorLost,
         SideOf, At, Refers, Serving
<1>21. ASSUME NEW c \in Conns, ReadPacket(c) PROVE NoDescriptorLost'
  BY <1>21
     DEF ReadPacket, Token, Consume, EndOfFile, At, Refers, tableVars,
         nameVars, historyVars, Goto, TypeOK, TableType, ThreadType,
         ThreadInv, StartInv, OwnDescriptor, NoDescriptorLost, SideOf,
         Serving
<1>22. ASSUME NEW c \in Conns, Forward(c) PROVE NoDescriptorLost'
  BY <1>22
     DEF Forward, MayBlock, Refers, tableVars, nameVars, peerVars, Goto,
         TypeOK, TableType, ThreadType, ThreadInv, StartInv, OwnDescriptor,
         NoDescriptorLost, SideOf, At, Refers, Serving
<1>23. ASSUME NEW c \in Conns, Close(c) PROVE NoDescriptorLost'
  BY <1>23
     DEF Close, Without, nameVars, peerVars, historyVars, Goto, TypeOK,
         TableType, ThreadType, ThreadInv, StartInv, OwnDescriptor,
         NoDescriptorLost, SideOf, At, Refers
<1>24. ASSUME NEW c \in Conns, Killed(c) PROVE NoDescriptorLost'
  BY <1>24
     DEF Killed, BrokenPipe, At, Refers, tableVars, threadVars, nameVars,
         peerVars, historyVars, TypeOK, TableType, ThreadType, ThreadInv,
         StartInv, OwnDescriptor, NoDescriptorLost, SideOf
<1>25. CASE Restart
  BY <1>25
     DEF Restart, TableType, ThreadType, ThreadInv, StartInv, OwnDescriptor,
         NoDescriptorLost, SideOf, At, Refers
<1> QED
  BY <1>1, <1>2, <1>3, <1>4, <1>5, <1>6, <1>7, <1>8, <1>9, <1>10, <1>11,
     <1>12, <1>13, <1>14, <1>15, <1>16, <1>17, <1>18, <1>19, <1>20, <1>21,
     <1>22, <1>23, <1>24, <1>25 DEF Next, Handler, WrpHandshake, WrpNorth

(* A handler reads names from its own connection only.                     *)
LEMMA KeyInvStep ==
  ASSUME TypeOK, ThreadInv, OwnDescriptor, KeyInv, [Next]_vars
  PROVE  KeyInv'
<1> USE ControllerAssumption DEF Conns, FDs, Keys
<1>1. CASE UNCHANGED vars
  BY <1>1
     DEF vars, threadVars, nameVars, peerVars, historyVars, TypeOK,
         TableType, ThreadType, ThreadInv, OwnDescriptor, KeyInv, At, Refers
<1>2. ASSUME NEW c \in South, MonitorConnect(c) PROVE KeyInv'
  BY <1>2
     DEF MonitorConnect, threadVars, nameVars, historyVars, TypeOK,
         TableType, ThreadType, ThreadInv, OwnDescriptor, KeyInv, At, Refers
<1>3. ASSUME NEW c \in South, MonitorIdent(c) PROVE KeyInv'
  BY <1>3
     DEF MonitorIdent, threadVars, nameVars, historyVars, TypeOK, TableType,
         ThreadType, ThreadInv, OwnDescriptor, KeyInv, At, Refers
<1>4. ASSUME NEW c \in North, ToolConnect(c) PROVE KeyInv'
  BY <1>4
     DEF ToolConnect, threadVars, nameVars, historyVars, TypeOK, TableType,
         ThreadType, ThreadInv, OwnDescriptor, KeyInv, At, Refers
<1>5. ASSUME NEW c \in North, ToolName(c) PROVE KeyInv'
  BY <1>5
     DEF ToolName, threadVars, nameVars, historyVars, TypeOK, TableType,
         ThreadType, ThreadInv, OwnDescriptor, KeyInv, At, Refers
<1>6. ASSUME NEW c \in North, ToolPacket(c) PROVE KeyInv'
  BY <1>6
     DEF ToolPacket, threadVars, nameVars, historyVars, TypeOK, TableType,
         ThreadType, ThreadInv, OwnDescriptor, KeyInv, At, Refers
<1>7. ASSUME NEW side \in Sides, Accept(side) PROVE KeyInv'
  <2>1. PICK c \in backlog \cap ConnsOf(side), f \in FDs :
          /\ fds[f] = NULL
          /\ fds' = [fds EXCEPT ![f] = c]
          /\ loopFd' = [loopFd EXCEPT ![side] = f]
          /\ pc' = [pc EXCEPT ![c] = "start"]
    BY <1>7 DEF Accept, Unread, LowestFree
  <2>2. /\ c \in Conns /\ SideOf(c) = side /\ pc[c] = "none"
        /\ pc'[c] = "start" /\ loopFd'[side] = f /\ fds'[f] = c
        /\ \A d \in Conns : d # c => pc'[d] = pc[d]
        /\ \A g \in FDs : g # f => fds'[g] = fds[g]
    BY <1>7, <2>1
       DEF ConnsOf, SideOf, Sides, TypeOK, TableType, ThreadType, ThreadInv
  <2>3. UNCHANGED <<fd, key, south_fd, owner, route, controller_map>>
    BY <1>7 DEF Accept, Unread, nameVars
  <2>4. ASSUME ~raced', NEW d \in Conns, pc'[d] # "done"
        PROVE  key'[d] \in {NULL, Garbage, NameOf[d]}
    <3>1. ~raced /\ pc[d] # "done"
      BY <1>7, <2>2, <2>4 DEF Accept, Unread
    <3> QED
      BY <2>3, <3>1 DEF KeyInv
  <2> QED
    BY <2>4 DEF KeyInv
<1>8. ASSUME NEW side \in Sides, AcceptFails(side) PROVE KeyInv'
  BY <1>8
     DEF AcceptFails, Unread, threadVars, nameVars, peerVars, historyVars,
         TypeOK, TableType, ThreadType, ThreadInv, OwnDescriptor, KeyInv, At,
         Refers
<1>9. ASSUME NEW c \in Conns, PeerClose(c) PROVE KeyInv'
  BY <1>9
     DEF PeerClose, threadVars, nameVars, historyVars, TypeOK, TableType,
         ThreadType, ThreadInv, OwnDescriptor, KeyInv, At, Refers
<1>10. ASSUME NEW c \in Conns, ReadArgument(c) PROVE KeyInv'
  BY <1>10
     DEF ReadArgument, LoopFd, SideOf, nameVars, peerVars, historyVars, Goto,
         TypeOK, TableType, ThreadType, ThreadInv, OwnDescriptor, KeyInv, At,
         Refers
<1>11. ASSUME NEW c \in Conns, Handshake(c) PROVE KeyInv'
  BY <1>11
     DEF Handshake, At, Refers, nameVars, Goto, TypeOK, TableType, ThreadType,
         ThreadInv, OwnDescriptor, KeyInv
<1>12. ASSUME NEW c \in Conns, ListenIdent(c) PROVE KeyInv'
  BY <1>12
     DEF ListenIdent, Token, Consume, At, Refers, nameVars, historyVars, Goto,
         TypeOK, TableType, ThreadType, ThreadInv, OwnDescriptor, KeyInv,
         Serving
<1>13. ASSUME NEW c \in Conns, ListenCorrupted(c) PROVE KeyInv'
  BY <1>13
     DEF ListenCorrupted, Token, Consume, At, Refers, threadVars, nameVars,
         historyVars, TypeOK, TableType, ThreadType, ThreadInv,
         OwnDescriptor, KeyInv
<1>14. ASSUME NEW c \in Conns, ListenEnds(c) PROVE KeyInv'
  BY <1>14
     DEF ListenEnds, EndOfFile, At, Refers, nameVars, peerVars, historyVars,
         Goto, TypeOK, TableType, ThreadType, ThreadInv, OwnDescriptor,
         KeyInv
<1>15. ASSUME NEW c \in Conns, IdentMap(c) PROVE KeyInv'
  BY <1>15
     DEF IdentMap, At, Refers, peerVars, Goto, TypeOK, TableType, ThreadType,
         ThreadInv, OwnDescriptor, KeyInv
<1>16. ASSUME NEW c \in Conns, IdentDb(c) PROVE KeyInv'
  BY <1>16
     DEF IdentDb, HasFree, peerVars, historyVars, Goto, TypeOK, TableType,
         ThreadType, ThreadInv, OwnDescriptor, KeyInv, At, Refers
<1>17. ASSUME NEW c \in Conns, IdentDbNoReply(c) PROVE KeyInv'
  BY <1>17
     DEF IdentDbNoReply, HasFree, threadVars, nameVars, peerVars,
         historyVars, TypeOK, TableType, ThreadType, ThreadInv,
         OwnDescriptor, KeyInv, At, Refers
<1>18. ASSUME NEW c \in Conns, ReadKey(c) PROVE KeyInv'
  <2>1. /\ pc[c] = "key" /\ raced' = raced
        /\ \A d \in Conns : d # c => pc'[d] = pc[d] /\ key'[d] = key[d]
    BY <1>18 DEF ReadKey, Goto, historyVars, TypeOK, ThreadType
  <2>2. ~raced => At(c) = c
    BY <2>1 DEF OwnDescriptor, Serving
  <2>3. key'[c] \in {key[c], Garbage, NameOf[At(c)]}
    BY <1>18 DEF ReadKey, Goto, TypeOK, ThreadType
  <2>4. ~raced => key[c] \in {NULL, Garbage, NameOf[c]}
    BY <2>1 DEF KeyInv
  <2> QED
    BY <2>1, <2>2, <2>3, <2>4 DEF KeyInv
<1>19. ASSUME NEW c \in Conns, ReadKeyEnds(c) PROVE KeyInv'
  BY <1>19
     DEF ReadKeyEnds, EndOfFile, At, Refers, nameVars, peerVars, historyVars,
         Goto, TypeOK, TableType, ThreadType, ThreadInv, OwnDescriptor,
         KeyInv
<1>20. ASSUME NEW c \in Conns, Lookup(c) PROVE KeyInv'
  BY <1>20
     DEF Lookup, nameVars, peerVars, Goto, TypeOK, TableType, ThreadType,
         ThreadInv, OwnDescriptor, KeyInv, At, Refers
<1>21. ASSUME NEW c \in Conns, ReadPacket(c) PROVE KeyInv'
  BY <1>21
     DEF ReadPacket, Token, Consume, EndOfFile, At, Refers, nameVars,
         historyVars, Goto, TypeOK, TableType, ThreadType, ThreadInv,
         OwnDescriptor, KeyInv
<1>22. ASSUME NEW c \in Conns, Forward(c) PROVE KeyInv'
  BY <1>22
     DEF Forward, MayBlock, Refers, nameVars, peerVars, Goto, TypeOK,
         TableType, ThreadType, ThreadInv, OwnDescriptor, KeyInv, At, Refers
<1>23. ASSUME NEW c \in Conns, Close(c) PROVE KeyInv'
  BY <1>23
     DEF Close, Without, nameVars, peerVars, historyVars, Goto, TypeOK,
         TableType, ThreadType, ThreadInv, OwnDescriptor, KeyInv, At, Refers
<1>24. ASSUME NEW c \in Conns, Killed(c) PROVE KeyInv'
  BY <1>24
     DEF Killed, BrokenPipe, At, Refers, threadVars, nameVars, peerVars,
         historyVars, TypeOK, TableType, ThreadType, ThreadInv,
         OwnDescriptor, KeyInv
<1>25. CASE Restart
  BY <1>25
     DEF Restart, TableType, ThreadType, ThreadInv, OwnDescriptor, KeyInv,
         At, Refers
<1> QED
  BY <1>1, <1>2, <1>3, <1>4, <1>5, <1>6, <1>7, <1>8, <1>9, <1>10, <1>11,
     <1>12, <1>13, <1>14, <1>15, <1>16, <1>17, <1>18, <1>19, <1>20, <1>21,
     <1>22, <1>23, <1>24, <1>25 DEF Next, Handler, WrpHandshake, WrpNorth

(* An entry of the map is made by a handler on its own connection, under   *)
(* the name of that connection's monitor or a mangled one; the descriptor  *)
(* is that monitor's until its handler is done.                            *)
LEMMA MapInvStep ==
  ASSUME TypeOK, ThreadInv, OwnDescriptor, KeyInv, MapInv, [Next]_vars
  PROVE  MapInv'
<1> USE ControllerAssumption DEF Conns, FDs, Keys
<1>1. CASE UNCHANGED vars
  BY <1>1
     DEF vars, threadVars, nameVars, peerVars, historyVars, TypeOK,
         TableType, ThreadType, NameType, ThreadInv, OwnDescriptor, KeyInv,
         MapInv, Leads, At, Refers
<1>2. ASSUME NEW c \in South, MonitorConnect(c) PROVE MapInv'
  BY <1>2
     DEF MonitorConnect, threadVars, nameVars, historyVars, TypeOK,
         TableType, ThreadType, NameType, ThreadInv, OwnDescriptor, KeyInv,
         MapInv, Leads, At, Refers
<1>3. ASSUME NEW c \in South, MonitorIdent(c) PROVE MapInv'
  BY <1>3
     DEF MonitorIdent, threadVars, nameVars, historyVars, TypeOK, TableType,
         ThreadType, NameType, ThreadInv, OwnDescriptor, KeyInv, MapInv,
         Leads, At, Refers
<1>4. ASSUME NEW c \in North, ToolConnect(c) PROVE MapInv'
  BY <1>4
     DEF ToolConnect, threadVars, nameVars, historyVars, TypeOK, TableType,
         ThreadType, NameType, ThreadInv, OwnDescriptor, KeyInv, MapInv,
         Leads, At, Refers
<1>5. ASSUME NEW c \in North, ToolName(c) PROVE MapInv'
  BY <1>5
     DEF ToolName, threadVars, nameVars, historyVars, TypeOK, TableType,
         ThreadType, NameType, ThreadInv, OwnDescriptor, KeyInv, MapInv,
         Leads, At, Refers
<1>6. ASSUME NEW c \in North, ToolPacket(c) PROVE MapInv'
  BY <1>6
     DEF ToolPacket, threadVars, nameVars, historyVars, TypeOK, TableType,
         ThreadType, NameType, ThreadInv, OwnDescriptor, KeyInv, MapInv,
         Leads, At, Refers
<1>7. ASSUME NEW side \in Sides, Accept(side) PROVE MapInv'
  <2>1. PICK c \in backlog \cap ConnsOf(side), f \in FDs :
          /\ fds[f] = NULL
          /\ fds' = [fds EXCEPT ![f] = c]
          /\ loopFd' = [loopFd EXCEPT ![side] = f]
          /\ pc' = [pc EXCEPT ![c] = "start"]
    BY <1>7 DEF Accept, Unread, LowestFree
  <2>2. /\ c \in Conns /\ SideOf(c) = side /\ pc[c] = "none"
        /\ pc'[c] = "start" /\ loopFd'[side] = f /\ fds'[f] = c
        /\ \A d \in Conns : d # c => pc'[d] = pc[d]
        /\ \A g \in FDs : g # f => fds'[g] = fds[g]
    BY <1>7, <2>1
       DEF ConnsOf, SideOf, Sides, TypeOK, TableType, ThreadType, ThreadInv
  <2>3. UNCHANGED <<fd, key, south_fd, owner, route, controller_map>>
    BY <1>7 DEF Accept, Unread, nameVars
  <2>4. ASSUME ~raced', NEW k \in Keys, controller_map'[k] # 0
        PROVE  /\ Leads(controller_map[k], owner[k])'
               /\ k # Garbage => NameOf[owner'[k]] = k
    <3>1. /\ Leads(controller_map[k], owner[k])
          /\ k # Garbage => NameOf[owner[k]] = k
      BY <1>7, <2>3, <2>4 DEF Accept, Unread, MapInv
    <3>2. owner[k] # c /\ owner[k] \in Conns
      BY <2>2, <3>1 DEF Leads
    <3> QED
      BY <2>2, <2>3, <3>1, <3>2 DEF Leads
  <2> QED
    BY <2>4 DEF MapInv
<1>8. ASSUME NEW side \in Sides, AcceptFails(side) PROVE MapInv'
  BY <1>8
     DEF AcceptFails, Unread, threadVars, nameVars, peerVars, historyVars,
         TypeOK, TableType, ThreadType, NameType, ThreadInv, OwnDescriptor,
         KeyInv, MapInv, Leads, At, Refers
<1>9. ASSUME NEW c \in Conns, PeerClose(c) PROVE MapInv'
  BY <1>9
     DEF PeerClose, threadVars, nameVars, historyVars, TypeOK, TableType,
         ThreadType, NameType, ThreadInv, OwnDescriptor, KeyInv, MapInv,
         Leads, At, Refers
<1>10. ASSUME NEW c \in Conns, ReadArgument(c) PROVE MapInv'
  BY <1>10
     DEF ReadArgument, LoopFd, SideOf, nameVars, peerVars, historyVars, Goto,
         TypeOK, TableType, ThreadType, NameType, ThreadInv, OwnDescriptor,
         KeyInv, MapInv, Leads, At, Refers
<1>11. ASSUME NEW c \in Conns, Handshake(c) PROVE MapInv'
  BY <1>11
     DEF Handshake, At, Refers, nameVars, Goto, TypeOK, TableType, ThreadType,
         NameType, ThreadInv, OwnDescriptor, KeyInv, MapInv, Leads
<1>12. ASSUME NEW c \in Conns, ListenIdent(c) PROVE MapInv'
  BY <1>12
     DEF ListenIdent, Token, Consume, At, Refers, nameVars, historyVars, Goto,
         TypeOK, TableType, ThreadType, NameType, ThreadInv, OwnDescriptor,
         KeyInv, MapInv, Leads
<1>13. ASSUME NEW c \in Conns, ListenCorrupted(c) PROVE MapInv'
  BY <1>13
     DEF ListenCorrupted, Token, Consume, At, Refers, threadVars, nameVars,
         historyVars, TypeOK, TableType, ThreadType, NameType, ThreadInv,
         OwnDescriptor, KeyInv, MapInv, Leads
<1>14. ASSUME NEW c \in Conns, ListenEnds(c) PROVE MapInv'
  BY <1>14
     DEF ListenEnds, EndOfFile, At, Refers, nameVars, peerVars, historyVars,
         Goto, TypeOK, TableType, ThreadType, NameType, ThreadInv,
         OwnDescriptor, KeyInv, MapInv, Leads
<1>15. ASSUME NEW c \in Conns, IdentMap(c) PROVE MapInv'
  <2>1. /\ pc[c] = "ident" /\ pc'[c] = "dbput" /\ c \in South
        /\ key[c] \in Keys /\ UNCHANGED <<fd, raced>>
        /\ \A d \in Conns : d # c => pc'[d] = pc[d]
        /\ controller_map' = [controller_map EXCEPT ![key[c]] = fd[c]]
        /\ owner' = [owner EXCEPT ![key[c]] = At(c)]
    BY <1>15 DEF IdentMap, Goto, TypeOK, ThreadType, ThreadInv, SouthLabels
  <2>2. ASSUME ~raced', NEW k \in Keys, controller_map'[k] # 0
        PROVE  /\ Leads(controller_map[k], owner[k])'
               /\ k # Garbage => NameOf[owner'[k]] = k
    <3>1. CASE k = key[c]
      <4>1. At(c) = c /\ key[c] \in {Garbage, NameOf[c]}
        BY <2>1, <2>2 DEF OwnDescriptor, KeyInv, Serving
      <4>2. controller_map'[k] = fd[c] /\ owner'[k] = c
        BY <2>1, <3>1, <4>1 DEF TypeOK, NameType, HistoryType
      <4> QED
        BY <2>1, <3>1, <4>1, <4>2 DEF Leads
    <3>2. CASE k # key[c]
      <4>1. controller_map'[k] = controller_map[k] /\ owner'[k] = owner[k]
        BY <2>1, <3>2 DEF HistoryType
      <4>2. /\ Leads(controller_map[k], owner[k])
            /\ k # Garbage => NameOf[owner[k]] = k
        BY <2>1, <2>2, <4>1 DEF MapInv
      <4> QED
        BY <2>1, <4>1, <4>2 DEF Leads
    <3> QED
      BY <3>1, <3>2
  <2> QED
    BY <2>2 DEF MapInv
<1>16. ASSUME NEW c \in Conns, IdentDb(c) PROVE MapInv'
  BY <1>16
     DEF IdentDb, HasFree, peerVars, historyVars, Goto, TypeOK, TableType,
         ThreadType, NameType, ThreadInv, OwnDescriptor, KeyInv, MapInv,
         Leads, At, Refers
<1>17. ASSUME NEW c \in Conns, IdentDbNoReply(c) PROVE MapInv'
  BY <1>17
     DEF IdentDbNoReply, HasFree, threadVars, nameVars, peerVars,
         historyVars, TypeOK, TableType, ThreadType, NameType, ThreadInv,
         OwnDescriptor, KeyInv, MapInv, Leads, At, Refers
<1>18. ASSUME NEW c \in Conns, ReadKey(c) PROVE MapInv'
  BY <1>18
     DEF ReadKey, Token, Consume, At, Refers, tableVars, nameVars,
         historyVars, Goto, TypeOK, TableType, ThreadType, NameType,
         ThreadInv, OwnDescriptor, KeyInv, MapInv, Leads, Labels,
         SouthLabels, NorthLabels
<1>19. ASSUME NEW c \in Conns, ReadKeyEnds(c) PROVE MapInv'
  BY <1>19
     DEF ReadKeyEnds, EndOfFile, At, Refers, nameVars, peerVars, historyVars,
         Goto, TypeOK, TableType, ThreadType, NameType, ThreadInv,
         OwnDescriptor, KeyInv, MapInv, Leads
<1>20. ASSUME NEW c \in Conns, Lookup(c) PROVE MapInv'
  BY <1>20
     DEF Lookup, nameVars, peerVars, Goto, TypeOK, TableType, ThreadType,
         NameType, ThreadInv, OwnDescriptor, KeyInv, MapInv, Leads, At, Refers
<1>21. ASSUME NEW c \in Conns, ReadPacket(c) PROVE MapInv'
  BY <1>21
     DEF ReadPacket, Token, Consume, EndOfFile, At, Refers, nameVars,
         historyVars, Goto, TypeOK, TableType, ThreadType, NameType,
         ThreadInv, OwnDescriptor, KeyInv, MapInv, Leads
<1>22. ASSUME NEW c \in Conns, Forward(c) PROVE MapInv'
  BY <1>22
     DEF Forward, MayBlock, Refers, nameVars, peerVars, Goto, TypeOK,
         TableType, ThreadType, NameType, ThreadInv, OwnDescriptor, KeyInv,
         MapInv, Leads, At, Refers
<1>23. ASSUME NEW c \in Conns, Close(c) PROVE MapInv'
  BY <1>23
     DEF Close, Without, nameVars, peerVars, historyVars, Goto, TypeOK,
         TableType, ThreadType, NameType, ThreadInv, OwnDescriptor, KeyInv,
         MapInv, Leads, At, Refers
<1>24. ASSUME NEW c \in Conns, Killed(c) PROVE MapInv'
  BY <1>24
     DEF Killed, BrokenPipe, At, Refers, threadVars, nameVars, peerVars,
         historyVars, TypeOK, TableType, ThreadType, NameType, ThreadInv,
         OwnDescriptor, KeyInv, MapInv, Leads
<1>25. CASE Restart
  BY <1>25
     DEF Restart, TableType, ThreadType, NameType, ThreadInv, OwnDescriptor,
         KeyInv, MapInv, Leads, At, Refers
<1> QED
  BY <1>1, <1>2, <1>3, <1>4, <1>5, <1>6, <1>7, <1>8, <1>9, <1>10, <1>11,
     <1>12, <1>13, <1>14, <1>15, <1>16, <1>17, <1>18, <1>19, <1>20, <1>21,
     <1>22, <1>23, <1>24, <1>25 DEF Next, Handler, WrpHandshake, WrpNorth

(* What a handler found in the map keeps leading to the monitor of the     *)
(* entry, until that monitor's handler is done.                            *)
LEMMA RouteInvStep ==
  ASSUME TypeOK, ThreadInv, KeyInv, MapInv, RouteInv, [Next]_vars
  PROVE  RouteInv'
<1> USE ControllerAssumption DEF Conns, FDs, Keys
<1>1. CASE UNCHANGED vars
  BY <1>1
     DEF vars, threadVars, nameVars, peerVars, historyVars, TypeOK,
         TableType, ThreadType, NameType, HistoryType, ThreadInv, KeyInv,
         MapInv, RouteInv, Leads
<1>2. ASSUME NEW c \in South, MonitorConnect(c) PROVE RouteInv'
  BY <1>2
     DEF MonitorConnect, threadVars, nameVars, historyVars, TypeOK,
         TableType, ThreadType, NameType, HistoryType, ThreadInv, KeyInv,
         MapInv, RouteInv, Leads
<1>3. ASSUME NEW c \in South, MonitorIdent(c) PROVE RouteInv'
  BY <1>3
     DEF MonitorIdent, threadVars, nameVars, historyVars, TypeOK, TableType,
         ThreadType, NameType, HistoryType, ThreadInv, KeyInv, MapInv,
         RouteInv, Leads
<1>4. ASSUME NEW c \in North, ToolConnect(c) PROVE RouteInv'
  BY <1>4
     DEF ToolConnect, threadVars, nameVars, historyVars, TypeOK, TableType,
         ThreadType, NameType, HistoryType, ThreadInv, KeyInv, MapInv,
         RouteInv, Leads
<1>5. ASSUME NEW c \in North, ToolName(c) PROVE RouteInv'
  BY <1>5
     DEF ToolName, threadVars, nameVars, historyVars, TypeOK, TableType,
         ThreadType, NameType, HistoryType, ThreadInv, KeyInv, MapInv,
         RouteInv, Leads
<1>6. ASSUME NEW c \in North, ToolPacket(c) PROVE RouteInv'
  BY <1>6
     DEF ToolPacket, threadVars, nameVars, historyVars, TypeOK, TableType,
         ThreadType, NameType, HistoryType, ThreadInv, KeyInv, MapInv,
         RouteInv, Leads
<1>7. ASSUME NEW side \in Sides, Accept(side) PROVE RouteInv'
  BY <1>7
     DEF Accept, Unread, ConnsOf, Sides, nameVars, TypeOK, TableType,
         ThreadType, NameType, HistoryType, ThreadInv, KeyInv, MapInv,
         RouteInv, Leads, Serving
<1>8. ASSUME NEW side \in Sides, AcceptFails(side) PROVE RouteInv'
  BY <1>8
     DEF AcceptFails, Unread, threadVars, nameVars, peerVars, historyVars,
         TypeOK, TableType, ThreadType, NameType, HistoryType, ThreadInv,
         KeyInv, MapInv, RouteInv, Leads
<1>9. ASSUME NEW c \in Conns, PeerClose(c) PROVE RouteInv'
  BY <1>9
     DEF PeerClose, threadVars, nameVars, historyVars, TypeOK, TableType,
         ThreadType, NameType, HistoryType, ThreadInv, KeyInv, MapInv,
         RouteInv, Leads
<1>10. ASSUME NEW c \in Conns, ReadArgument(c) PROVE RouteInv'
  BY <1>10
     DEF ReadArgument, LoopFd, SideOf, nameVars, peerVars, historyVars, Goto,
         TypeOK, TableType, ThreadType, NameType, HistoryType, ThreadInv,
         KeyInv, MapInv, RouteInv, Leads
<1>11. ASSUME NEW c \in Conns, Handshake(c) PROVE RouteInv'
  BY <1>11
     DEF Handshake, At, Refers, nameVars, Goto, TypeOK, TableType, ThreadType,
         NameType, HistoryType, ThreadInv, KeyInv, MapInv, RouteInv, Leads
<1>12. ASSUME NEW c \in Conns, ListenIdent(c) PROVE RouteInv'
  BY <1>12
     DEF ListenIdent, Token, Consume, At, Refers, nameVars, historyVars, Goto,
         TypeOK, TableType, ThreadType, NameType, HistoryType, ThreadInv,
         KeyInv, MapInv, RouteInv, Leads
<1>13. ASSUME NEW c \in Conns, ListenCorrupted(c) PROVE RouteInv'
  BY <1>13
     DEF ListenCorrupted, Token, Consume, At, Refers, threadVars, nameVars,
         historyVars, TypeOK, TableType, ThreadType, NameType, HistoryType,
         ThreadInv, KeyInv, MapInv, RouteInv, Leads
<1>14. ASSUME NEW c \in Conns, ListenEnds(c) PROVE RouteInv'
  BY <1>14
     DEF ListenEnds, EndOfFile, At, Refers, nameVars, peerVars, historyVars,
         Goto, TypeOK, TableType, ThreadType, NameType, HistoryType,
         ThreadInv, KeyInv, MapInv, RouteInv, Leads
<1>15. ASSUME NEW c \in Conns, IdentMap(c) PROVE RouteInv'
  BY <1>15
     DEF IdentMap, At, Refers, peerVars, Goto, TypeOK, TableType, ThreadType,
         NameType, HistoryType, ThreadInv, KeyInv, MapInv, RouteInv, Leads
<1>16. ASSUME NEW c \in Conns, IdentDb(c) PROVE RouteInv'
  BY <1>16
     DEF IdentDb, HasFree, peerVars, historyVars, Goto, TypeOK, TableType,
         ThreadType, NameType, HistoryType, ThreadInv, KeyInv, MapInv,
         RouteInv, Leads
<1>17. ASSUME NEW c \in Conns, IdentDbNoReply(c) PROVE RouteInv'
  BY <1>17
     DEF IdentDbNoReply, HasFree, threadVars, nameVars, peerVars,
         historyVars, TypeOK, TableType, ThreadType, NameType, HistoryType,
         ThreadInv, KeyInv, MapInv, RouteInv, Leads
<1>18. ASSUME NEW c \in Conns, ReadKey(c) PROVE RouteInv'
  <2>1. /\ pc[c] = "key" /\ pc'[c] \in {"key", "lookup"} /\ c \in North
        /\ \A d \in Conns : d # c => pc'[d] = pc[d] /\ key'[d] = key[d]
        /\ UNCHANGED <<fd, south_fd, route, raced>>
    BY <1>18
       DEF ReadKey, Goto, historyVars, TypeOK, ThreadType, ThreadInv,
           NorthLabels
  <2>2. ASSUME ~raced', NEW d \in Conns, pc'[d] \in {"packet", "forward"}
        PROVE  /\ Leads(south_fd[d], route[d])'
               /\ key'[d] # Garbage => NameOf[route'[d]] = NameOf[d]
    <3>1. /\ Leads(south_fd[d], route[d])
          /\ key[d] # Garbage => NameOf[route[d]] = NameOf[d]
          /\ d # c
      BY <2>1, <2>2 DEF RouteInv
    <3> QED
      BY <2>1, <3>1 DEF Leads
  <2> QED
    BY <2>2 DEF RouteInv
<1>19. ASSUME NEW c \in Conns, ReadKeyEnds(c) PROVE RouteInv'
  BY <1>19
     DEF ReadKeyEnds, EndOfFile, At, Refers, nameVars, peerVars, historyVars,
         Goto, TypeOK, TableType, ThreadType, NameType, HistoryType,
         ThreadInv, KeyInv, MapInv, RouteInv, Leads
<1>20. ASSUME NEW c \in Conns, Lookup(c) PROVE RouteInv'
  BY <1>20
     DEF Lookup, nameVars, peerVars, Goto, TypeOK, TableType, ThreadType,
         NameType, HistoryType, ThreadInv, KeyInv, MapInv, RouteInv, Leads,
         Labels, NorthLabels
<1>21. ASSUME NEW c \in Conns, ReadPacket(c) PROVE RouteInv'
  <2>1. /\ pc[c] = "packet" /\ pc'[c] = "forward"
        /\ \A d \in Conns : d # c => pc'[d] = pc[d]
        /\ UNCHANGED <<key, fd, south_fd, route, raced>>
    BY <1>21 DEF ReadPacket, Goto, historyVars, TypeOK, ThreadType
  <2>2. ASSUME ~raced', NEW d \in Conns, pc'[d] \in {"packet", "forward"}
        PROVE  /\ Leads(south_fd[d], route[d])'
               /\ key'[d] # Garbage => NameOf[route'[d]] = NameOf[d]
    <3>1. /\ Leads(south_fd[d], route[d])
          /\ key[d] # Garbage => NameOf[route[d]] = NameOf[d]
      BY <2>1, <2>2 DEF RouteInv
    <3> QED
      BY <2>1, <3>1 DEF Leads
  <2> QED
    BY <2>2 DEF RouteInv
<1>22. ASSUME NEW c \in Conns, Forward(c) PROVE RouteInv'
  BY <1>22
     DEF Forward, MayBlock, Refers, nameVars, peerVars, Goto, TypeOK,
         TableType, ThreadType, NameType, HistoryType, ThreadInv, KeyInv,
         MapInv, RouteInv, Leads
<1>23. ASSUME NEW c \in Conns, Close(c) PROVE RouteInv'
  BY <1>23
     DEF Close, Without, nameVars, peerVars, historyVars, Goto, TypeOK,
         TableType, ThreadType, NameType, HistoryType, ThreadInv, KeyInv,
         MapInv, RouteInv, Leads
<1>24. ASSUME NEW c \in Conns, Killed(c) PROVE RouteInv'
  BY <1>24
     DEF Killed, BrokenPipe, At, Refers, threadVars, nameVars, peerVars,
         historyVars, TypeOK, TableType, ThreadType, NameType, HistoryType,
         ThreadInv, KeyInv, MapInv, RouteInv, Leads, Labels, SouthLabels
<1>25. CASE Restart
  BY <1>25
     DEF Restart, TableType, ThreadType, NameType, HistoryType, ThreadInv,
         KeyInv, MapInv, RouteInv, Leads
<1> QED
  BY <1>1, <1>2, <1>3, <1>4, <1>5, <1>6, <1>7, <1>8, <1>9, <1>10, <1>11,
     <1>12, <1>13, <1>14, <1>15, <1>16, <1>17, <1>18, <1>19, <1>20, <1>21,
     <1>22, <1>23, <1>24, <1>25 DEF Next, Handler, WrpHandshake, WrpNorth

(* What wrpNorth writes goes to the monitor behind the entry it found,     *)
(* unless that monitor's connection was closed.                            *)
LEMMA DeliveredInvStep ==
  ASSUME TypeOK, ThreadInv, OwnDescriptor, RouteInv, DeliveredInv, [Next]_vars
  PROVE  DeliveredInv'
<1> USE ControllerAssumption DEF Conns, FDs, Keys
<1>1. CASE UNCHANGED vars
  BY <1>1
     DEF vars, threadVars, nameVars, peerVars, historyVars, TypeOK,
         TableType, ThreadType, HistoryType, ThreadInv, DeliveredInv
<1>2. ASSUME NEW c \in South, MonitorConnect(c) PROVE DeliveredInv'
  BY <1>2
     DEF MonitorConnect, threadVars, nameVars, historyVars, TypeOK,
         TableType, ThreadType, HistoryType, ThreadInv, DeliveredInv
<1>3. ASSUME NEW c \in South, MonitorIdent(c) PROVE DeliveredInv'
  BY <1>3
     DEF MonitorIdent, threadVars, nameVars, historyVars, TypeOK, TableType,
         ThreadType, HistoryType, ThreadInv, DeliveredInv
<1>4. ASSUME NEW c \in North, ToolConnect(c) PROVE DeliveredInv'
  BY <1>4
     DEF ToolConnect, threadVars, nameVars, historyVars, TypeOK, TableType,
         ThreadType, HistoryType, ThreadInv, DeliveredInv
<1>5. ASSUME NEW c \in North, ToolName(c) PROVE DeliveredInv'
  BY <1>5
     DEF ToolName, threadVars, nameVars, historyVars, TypeOK, TableType,
         ThreadType, HistoryType, ThreadInv, DeliveredInv
<1>6. ASSUME NEW c \in North, ToolPacket(c) PROVE DeliveredInv'
  BY <1>6
     DEF ToolPacket, threadVars, nameVars, historyVars, TypeOK, TableType,
         ThreadType, HistoryType, ThreadInv, DeliveredInv
<1>7. ASSUME NEW side \in Sides, Accept(side) PROVE DeliveredInv'
  BY <1>7
     DEF Accept, Unread, ConnsOf, Sides, nameVars, TypeOK, TableType,
         ThreadType, HistoryType, ThreadInv, DeliveredInv
<1>8. ASSUME NEW side \in Sides, AcceptFails(side) PROVE DeliveredInv'
  BY <1>8
     DEF AcceptFails, Unread, threadVars, nameVars, peerVars, historyVars,
         TypeOK, TableType, ThreadType, HistoryType, ThreadInv, DeliveredInv
<1>9. ASSUME NEW c \in Conns, PeerClose(c) PROVE DeliveredInv'
  BY <1>9
     DEF PeerClose, threadVars, nameVars, historyVars, TypeOK, TableType,
         ThreadType, HistoryType, ThreadInv, DeliveredInv
<1>10. ASSUME NEW c \in Conns, ReadArgument(c) PROVE DeliveredInv'
  BY <1>10
     DEF ReadArgument, LoopFd, SideOf, nameVars, peerVars, historyVars, Goto,
         TypeOK, TableType, ThreadType, HistoryType, ThreadInv, DeliveredInv
<1>11. ASSUME NEW c \in Conns, Handshake(c) PROVE DeliveredInv'
  BY <1>11
     DEF Handshake, At, Refers, nameVars, Goto, TypeOK, TableType, ThreadType,
         HistoryType, ThreadInv, DeliveredInv
<1>12. ASSUME NEW c \in Conns, ListenIdent(c) PROVE DeliveredInv'
  BY <1>12
     DEF ListenIdent, Token, Consume, At, Refers, nameVars, historyVars, Goto,
         TypeOK, TableType, ThreadType, HistoryType, ThreadInv, DeliveredInv
<1>13. ASSUME NEW c \in Conns, ListenCorrupted(c) PROVE DeliveredInv'
  BY <1>13
     DEF ListenCorrupted, Token, Consume, At, Refers, threadVars, nameVars,
         historyVars, TypeOK, TableType, ThreadType, HistoryType, ThreadInv,
         DeliveredInv
<1>14. ASSUME NEW c \in Conns, ListenEnds(c) PROVE DeliveredInv'
  BY <1>14
     DEF ListenEnds, EndOfFile, At, Refers, nameVars, peerVars, historyVars,
         Goto, TypeOK, TableType, ThreadType, HistoryType, ThreadInv,
         DeliveredInv
<1>15. ASSUME NEW c \in Conns, IdentMap(c) PROVE DeliveredInv'
  BY <1>15
     DEF IdentMap, At, Refers, peerVars, Goto, TypeOK, TableType, ThreadType,
         HistoryType, ThreadInv, DeliveredInv
<1>16. ASSUME NEW c \in Conns, IdentDb(c) PROVE DeliveredInv'
  BY <1>16
     DEF IdentDb, HasFree, peerVars, historyVars, Goto, TypeOK, TableType,
         ThreadType, HistoryType, ThreadInv, DeliveredInv
<1>17. ASSUME NEW c \in Conns, IdentDbNoReply(c) PROVE DeliveredInv'
  BY <1>17
     DEF IdentDbNoReply, HasFree, threadVars, nameVars, peerVars,
         historyVars, TypeOK, TableType, ThreadType, HistoryType, ThreadInv,
         DeliveredInv
<1>18. ASSUME NEW c \in Conns, ReadKey(c) PROVE DeliveredInv'
  <2>1. /\ pc[c] = "key" /\ pc'[c] \in {"key", "lookup"}
        /\ \A d \in Conns : d # c => pc'[d] = pc[d] /\ key'[d] = key[d]
        /\ UNCHANGED <<delivered, raced>>
    BY <1>18 DEF ReadKey, Goto, historyVars, TypeOK, ThreadType
  <2>2. \A d \in delivered : d.tool \in Conns /\ d.tool # c
    BY <2>1 DEF DeliveredInv, TypeOK, HistoryType
  <2> QED
    BY <2>1, <2>2 DEF DeliveredInv
<1>19. ASSUME NEW c \in Conns, ReadKeyEnds(c) PROVE DeliveredInv'
  BY <1>19
     DEF ReadKeyEnds, EndOfFile, At, Refers, nameVars, peerVars, historyVars,
         Goto, TypeOK, TableType, ThreadType, HistoryType, ThreadInv,
         DeliveredInv
<1>20. ASSUME NEW c \in Conns, Lookup(c) PROVE DeliveredInv'
  BY <1>20
     DEF Lookup, nameVars, peerVars, Goto, TypeOK, TableType, ThreadType,
         HistoryType, ThreadInv, DeliveredInv
<1>21. ASSUME NEW c \in Conns, ReadPacket(c) PROVE DeliveredInv'
  BY <1>21
     DEF ReadPacket, Token, Consume, EndOfFile, At, Refers, nameVars,
         historyVars, Goto, TypeOK, TableType, ThreadType, HistoryType,
         ThreadInv, DeliveredInv
<1>22. ASSUME NEW c \in Conns, Forward(c) PROVE DeliveredInv'
  <2> DEFINE dest == Refers(south_fd[c])
             st == route[c] \in Conns /\ pc[route[c]] = "done"
             new == [tool |-> c, dest |-> dest, stale |-> st]
  <2>1. /\ pc[c] = "forward" /\ pc'[c] = "close" /\ c \in North
        /\ \A d \in Conns : d # c => pc'[d] = pc[d]
        /\ UNCHANGED <<key, raced>>
        /\ delivered' \in {delivered, delivered \cup {new}}
    BY <1>22
       DEF Forward, MayBlock, Refers, Goto, TypeOK, ThreadType, ThreadInv,
           NorthLabels
  <2>2. \A d \in delivered : d.tool \in Conns /\ d.tool # c
    BY <2>1 DEF DeliveredInv, TypeOK, HistoryType
  <2>3. ASSUME ~raced, ~st, key[c] # Garbage
        PROVE  dest \in South /\ NameOf[dest] = NameOf[c]
    <3>1. /\ Leads(south_fd[c], route[c])
          /\ NameOf[route[c]] = NameOf[c]
      BY <2>1, <2>3 DEF RouteInv
    <3>2. route[c] \in South /\ pc[route[c]] \in Serving
      BY <2>3, <3>1 DEF Leads, TypeOK, ThreadType, Labels
    <3>3. dest = route[c]
      BY <2>3, <3>1, <3>2 DEF Leads, OwnDescriptor, At, Refers
    <3> QED
      BY <3>1, <3>2, <3>3
  <2>4. new.tool = c /\ new.dest = dest /\ new.stale = st
    OBVIOUS
  <2> HIDE DEF dest, st, new
  <2> QED
    BY <2>1, <2>2, <2>3, <2>4 DEF DeliveredInv
<1>23. ASSUME NEW c \in Conns, Close(c) PROVE DeliveredInv'
  BY <1>23
     DEF Close, Without, nameVars, peerVars, historyVars, Goto, TypeOK,
         TableType, ThreadType, HistoryType, ThreadInv, DeliveredInv
<1>24. ASSUME NEW c \in Conns, Killed(c) PROVE DeliveredInv'
  BY <1>24
     DEF Killed, BrokenPipe, At, Refers, threadVars, nameVars, peerVars,
         historyVars, TypeOK, TableType, ThreadType, HistoryType, ThreadInv,
         DeliveredInv
<1>25. CASE Restart
  BY <1>25
     DEF Restart, TableType, ThreadType, HistoryType, ThreadInv, DeliveredInv
<1> QED
  BY <1>1, <1>2, <1>3, <1>4, <1>5, <1>6, <1>7, <1>8, <1>9, <1>10, <1>11,
     <1>12, <1>13, <1>14, <1>15, <1>16, <1>17, <1>18, <1>19, <1>20, <1>21,
     <1>22, <1>23, <1>24, <1>25 DEF Next, Handler, WrpHandshake, WrpNorth

(* Before the first restart no entry is ever removed, and the database     *)
(* learns a name after the map did.                                        *)
LEMMA DbInvStep ==
  ASSUME TypeOK, ThreadInv, DbInv, [Next]_vars
  PROVE  DbInv'
<1> USE ControllerAssumption DEF Conns, FDs, Keys
<1>1. CASE UNCHANGED vars
  BY <1>1
     DEF vars, threadVars, nameVars, peerVars, historyVars, TypeOK,
         TableType, ThreadType, NameType, PeerType, HistoryType, ThreadInv,
         DbInv
<1>2. ASSUME NEW c \in South, MonitorConnect(c) PROVE DbInv'
  BY <1>2
     DEF MonitorConnect, threadVars, nameVars, historyVars, TypeOK,
         TableType, ThreadType, NameType, PeerType, HistoryType, ThreadInv,
         DbInv
<1>3. ASSUME NEW c \in South, MonitorIdent(c) PROVE DbInv'
  BY <1>3
     DEF MonitorIdent, threadVars, nameVars, historyVars, TypeOK, TableType,
         ThreadType, NameType, PeerType, HistoryType, ThreadInv, DbInv
<1>4. ASSUME NEW c \in North, ToolConnect(c) PROVE DbInv'
  BY <1>4
     DEF ToolConnect, threadVars, nameVars, historyVars, TypeOK, TableType,
         ThreadType, NameType, PeerType, HistoryType, ThreadInv, DbInv
<1>5. ASSUME NEW c \in North, ToolName(c) PROVE DbInv'
  BY <1>5
     DEF ToolName, threadVars, nameVars, historyVars, TypeOK, TableType,
         ThreadType, NameType, PeerType, HistoryType, ThreadInv, DbInv
<1>6. ASSUME NEW c \in North, ToolPacket(c) PROVE DbInv'
  BY <1>6
     DEF ToolPacket, threadVars, nameVars, historyVars, TypeOK, TableType,
         ThreadType, NameType, PeerType, HistoryType, ThreadInv, DbInv
<1>7. ASSUME NEW side \in Sides, Accept(side) PROVE DbInv'
  BY <1>7
     DEF Accept, Unread, ConnsOf, Sides, nameVars, TypeOK, TableType,
         ThreadType, NameType, PeerType, HistoryType, ThreadInv, DbInv
<1>8. ASSUME NEW side \in Sides, AcceptFails(side) PROVE DbInv'
  BY <1>8
     DEF AcceptFails, Unread, threadVars, nameVars, peerVars, historyVars,
         TypeOK, TableType, ThreadType, NameType, PeerType, HistoryType,
         ThreadInv, DbInv
<1>9. ASSUME NEW c \in Conns, PeerClose(c) PROVE DbInv'
  BY <1>9
     DEF PeerClose, threadVars, nameVars, historyVars, TypeOK, TableType,
         ThreadType, NameType, PeerType, HistoryType, ThreadInv, DbInv
<1>10. ASSUME NEW c \in Conns, ReadArgument(c) PROVE DbInv'
  BY <1>10
     DEF ReadArgument, LoopFd, SideOf, nameVars, peerVars, historyVars, Goto,
         TypeOK, TableType, ThreadType, NameType, PeerType, HistoryType,
         ThreadInv, DbInv
<1>11. ASSUME NEW c \in Conns, Handshake(c) PROVE DbInv'
  BY <1>11
     DEF Handshake, At, Refers, nameVars, Goto, TypeOK, TableType, ThreadType,
         NameType, PeerType, HistoryType, ThreadInv, DbInv
<1>12. ASSUME NEW c \in Conns, ListenIdent(c) PROVE DbInv'
  BY <1>12
     DEF ListenIdent, Token, Consume, At, Refers, nameVars, historyVars, Goto,
         TypeOK, TableType, ThreadType, NameType, PeerType, HistoryType,
         ThreadInv, DbInv, Serving, Labels, NorthLabels
<1>13. ASSUME NEW c \in Conns, ListenCorrupted(c) PROVE DbInv'
  BY <1>13
     DEF ListenCorrupted, Token, Consume, At, Refers, threadVars, nameVars,
         historyVars, TypeOK, TableType, ThreadType, NameType, PeerType,
         HistoryType, ThreadInv, DbInv
<1>14. ASSUME NEW c \in Conns, ListenEnds(c) PROVE DbInv'
  BY <1>14
     DEF ListenEnds, EndOfFile, At, Refers, nameVars, peerVars, historyVars,
         Goto, TypeOK, TableType, ThreadType, NameType, PeerType,
         HistoryType, ThreadInv, DbInv
<1>15. ASSUME NEW c \in Conns, IdentMap(c) PROVE DbInv'
  BY <1>15
     DEF IdentMap, At, Refers, peerVars, Goto, TypeOK, TableType, ThreadType,
         NameType, PeerType, HistoryType, ThreadInv, DbInv, Serving
<1>16. ASSUME NEW c \in Conns, IdentDb(c) PROVE DbInv'
  BY <1>16
     DEF IdentDb, HasFree, peerVars, historyVars, Goto, TypeOK, TableType,
         ThreadType, NameType, PeerType, HistoryType, ThreadInv, DbInv
<1>17. ASSUME NEW c \in Conns, IdentDbNoReply(c) PROVE DbInv'
  BY <1>17
     DEF IdentDbNoReply, HasFree, threadVars, nameVars, peerVars,
         historyVars, TypeOK, TableType, ThreadType, NameType, PeerType,
         HistoryType, ThreadInv, DbInv
<1>18. ASSUME NEW c \in Conns, ReadKey(c) PROVE DbInv'
  <2>1. /\ pc[c] = "key" /\ pc'[c] \in {"key", "lookup"} /\ c \in North
        /\ \A d \in Conns : d # c => pc'[d] = pc[d] /\ key'[d] = key[d]
        /\ UNCHANGED <<restarts, controller_map, db, peer, missed>>
    BY <1>18
       DEF ReadKey, Goto, nameVars, historyVars, TypeOK, ThreadType,
           ThreadInv, NorthLabels
  <2>2. ASSUME restarts = 0
        PROVE  key'[c] \in {NULL, Garbage} \cup db
    <3>1. CASE Head(stream[At(c)]) = "key"
      <4>1. At(c) \in Conns /\ stream[At(c)] # << >>
        BY <1>18 DEF ReadKey, Token
      <4>2. At(c) \in North
        BY <3>1, <4>1, HeadTailProperties DEF TypeOK, PeerType
      <4>3. peer[At(c)] # "away"
        BY <4>1 DEF ThreadInv
      <4> QED
        BY <1>18, <2>2, <3>1, <4>2, <4>3
           DEF ReadKey, DbInv, TypeOK, ThreadType
    <3>2. CASE Head(stream[At(c)]) # "key"
      BY <1>18, <2>1, <2>2, <3>2 DEF ReadKey, DbInv, TypeOK, ThreadType
    <3> QED
      BY <3>1, <3>2
  <2> QED
    BY <2>1, <2>2 DEF DbInv, TypeOK, HistoryType
<1>19. ASSUME NEW c \in Conns, ReadKeyEnds(c) PROVE DbInv'
  BY <1>19
     DEF ReadKeyEnds, EndOfFile, At, Refers, nameVars, peerVars, historyVars,
         Goto, TypeOK, TableType, ThreadType, NameType, PeerType,
         HistoryType, ThreadInv, DbInv
<1>20. ASSUME NEW c \in Conns, Lookup(c) PROVE DbInv'
  BY <1>20
     DEF Lookup, nameVars, peerVars, Goto, TypeOK, TableType, ThreadType,
         NameType, PeerType, HistoryType, ThreadInv, DbInv, NorthLabels
<1>21. ASSUME NEW c \in Conns, ReadPacket(c) PROVE DbInv'
  BY <1>21
     DEF ReadPacket, Token, Consume, EndOfFile, At, Refers, nameVars,
         historyVars, Goto, TypeOK, TableType, ThreadType, NameType,
         PeerType, HistoryType, ThreadInv, DbInv
<1>22. ASSUME NEW c \in Conns, Forward(c) PROVE DbInv'
  BY <1>22
     DEF Forward, MayBlock, Refers, nameVars, peerVars, Goto, TypeOK,
         TableType, ThreadType, NameType, PeerType, HistoryType, ThreadInv,
         DbInv
<1>23. ASSUME NEW c \in Conns, Close(c) PROVE DbInv'
  BY <1>23
     DEF Close, Without, nameVars, peerVars, historyVars, Goto, TypeOK,
         TableType, ThreadType, NameType, PeerType, HistoryType, ThreadInv,
         DbInv
<1>24. ASSUME NEW c \in Conns, Killed(c) PROVE DbInv'
  BY <1>24
     DEF Killed, BrokenPipe, At, Refers, threadVars, nameVars, peerVars,
         historyVars, TypeOK, TableType, ThreadType, NameType, PeerType,
         HistoryType, ThreadInv, DbInv
<1>25. CASE Restart
  BY <1>25
     DEF Restart, TypeOK, TableType, ThreadType, NameType, PeerType,
         HistoryType, ThreadInv, DbInv
<1> QED
  BY <1>1, <1>2, <1>3, <1>4, <1>5, <1>6, <1>7, <1>8, <1>9, <1>10, <1>11,
     <1>12, <1>13, <1>14, <1>15, <1>16, <1>17, <1>18, <1>19, <1>20, <1>21,
     <1>22, <1>23, <1>24, <1>25 DEF Next, Handler, WrpHandshake, WrpNorth

(* The state after controller_StartComm has all the parts of IInv.         *)
LEMMA InitIInv == Init => IInv
<1> SUFFICES ASSUME Init PROVE IInv
  OBVIOUS
<1> USE ControllerAssumption DEF Init, Conns, FDs, Keys
<1>1. TableType /\ ThreadType /\ NameType
  BY DEF TableType, ThreadType, NameType, Sides, Labels, Serving
<1>2. PeerType
  <2>1. /\ << >> \in Seq({"ident", "key", "nl", "packet"})
        /\ << >> \in Seq({"ident"})
    OBVIOUS
  <2> QED
    BY <2>1 DEF PeerType
<1>3. HistoryType
  BY DEF HistoryType
<1>4. ThreadInv /\ StartInv /\ OwnDescriptor /\ NoDescriptorLost
  BY
     DEF ThreadInv, StartInv, OwnDescriptor, NoDescriptorLost, SouthLabels,
         NorthLabels, Serving
<1>5. KeyInv /\ MapInv /\ RouteInv /\ DeliveredInv
  BY DEF KeyInv, MapInv, RouteInv, DeliveredInv
<1>6. DbInv
  BY DEF DbInv
<1> QED
  BY <1>1, <1>2, <1>3, <1>4, <1>5, <1>6 DEF IInv, TypeOK

(* IInv is inductive.                                                      *)
LEMMA IInvStep ==
  ASSUME IInv, [Next]_vars
  PROVE  IInv'
BY TypeOKStep, ThreadInvStep, StartInvStep, OwnDescriptorStep,
   NoDescriptorLostStep, KeyInvStep, MapInvStep, RouteInvStep,
   DeliveredInvStep, DbInvStep DEF IInv

(* In every reachable state of the daemon all the parts of IInv hold.      *)
THEOREM Invariance == Spec => []IInv
BY InitIInv, IInvStep, PTL DEF Spec

(* The variables keep their types, for any number of monitors, tools and   *)
(* descriptors.                                                            *)
THEOREM TypeCorrect == Spec => []TypeOK
<1>1. IInv => TypeOK
  BY DEF IInv
<1> QED
  BY <1>1, Invariance, PTL

(* Unless an accept(), also one that failed, overwrote an fd that a new    *)
(* thread had yet to read (cconnection.c:108-117, 143-152), no handler     *)
(* reads, writes or closes a descriptor that is not its own.               *)
THEOREM HandlersOwnDescriptors == Spec => []OwnDescriptor
<1>1. IInv => OwnDescriptor
  BY DEF IInv
<1> QED
  BY <1>1, Invariance, PTL

(* In the same case every descriptor of a connection has a handler that    *)
(* will close it.                                                          *)
THEOREM DescriptorsNotLost == Spec => []NoDescriptorLost
<1>1. IInv => NoDescriptorLost
  BY DEF IInv
<1> QED
  BY <1>1, Invariance, PTL

(* Until the daemon is restarted, the order of the two writes in           *)
(* configIdent (map, then database) means that a tool the database sent    *)
(* here finds an entry, unless the name it sent was mangled.               *)
THEOREM MissesAreMangled == Spec => []MissOnlyIfMangled
<1>1. IInv => MissOnlyIfMangled
  BY DEF IInv, DbInv, MissOnlyIfMangled
<1> QED
  BY <1>1, Invariance, PTL

(* A packet reaches the monitor it is meant for unless an fd was           *)
(* overwritten, its name was mangled, or the connection behind the entry   *)
(* was closed before the write() (cconnection.c:185-215).                  *)
THEOREM PacketsReachTheirMonitor == Spec => []RightWhileConnected
<1>1. IInv => RightWhileConnected
  BY DEF IInv, DeliveredInv, RightWhileConnected
<1> QED
  BY <1>1, Invariance, PTL

=============================================================================
