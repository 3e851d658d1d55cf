---------------------------- MODULE MapperProofs ----------------------------
(***************************************************************************)
(* Proofs about Mapper: whatever concurrent requests of a user do to each  *)
(* other's directory, no request pushes a whole configuration without its  *)
(* own change.                                                             *)
(***************************************************************************)
EXTENDS Mapper, TLAPS

(* Every step keeps the types.  A request has a file when it closes it.    *)
LEMMA TypeOKStep ==
  ASSUME TypeOK, FileInv, [Next]_vars
  PROVE  TypeOK'
<1> USE MapperAssumption
<1>1. CASE UNCHANGED vars
  BY <1>1 DEF vars, historyVars, dirVars, fileVars, TypeOK
<1>2. ASSUME NEW r \in Requests, Save(r) PROVE TypeOK'
  <2>1. (\E q \in Requests : Busy(q)) \in BOOLEAN
    OBVIOUS
  <2>2. overlap' \in BOOLEAN
    BY <1>2, <2>1 DEF Save, TypeOK
  <2>3. db' \in DataType /\ own' \in [Requests -> DataType]
    BY <1>2 DEF Save, TypeOK, DataType
  <2>4. lost' \in BOOLEAN
    BY <1>2 DEF Save
  <2> QED
    BY <1>2, <2>2, <2>3, <2>4 DEF Save, Goto, dirVars, fileVars, TypeOK
<1>3. ASSUME NEW r \in Requests, MakeDir(r) PROVE TypeOK'
  BY <1>3 DEF MakeDir, historyVars, Goto, fileVars, TypeOK
<1>4. ASSUME NEW r \in Requests, List(r, "list", "remove", "rmdir")
      PROVE  TypeOK'
  BY <1>4 DEF List, historyVars, Goto, dirVars, fileVars, TypeOK
<1>5. ASSUME NEW r \in Requests, Remove(r, "remove", "rmdir") PROVE TypeOK'
  BY <1>5 DEF Remove, historyVars, Goto, fileVars, TypeOK
<1>6. ASSUME NEW r \in Requests, RemoveDir(r, "rmdir", "again") PROVE TypeOK'
  BY <1>6 DEF RemoveDir, historyVars, Goto, fileVars, TypeOK
<1>7. ASSUME NEW r \in Requests, MakeDirAgain(r) PROVE TypeOK'
  BY <1>7 DEF MakeDirAgain, historyVars, Goto, fileVars, TypeOK
<1>8. ASSUME NEW r \in Requests, Open(r) PROVE TypeOK'
  <2>1. CASE dir
    <3>1. PICK f \in Requests : /\ entry' = f
                               /\ file' = [file EXCEPT ![r] = f]
                               /\ content' = [content EXCEPT ![f] = Empty]
      BY <1>8, <2>1 DEF Open, historyVars, TypeOK
    <3>2. content' \in [Requests -> ContentType]
      BY <3>1 DEF TypeOK, ContentType
    <3>3. /\ pc' = [pc EXCEPT ![r] = "contacts"]
          /\ UNCHANGED <<db, own, dir, data, payload, monitor, overlap, lost>>
      BY <1>8, <2>1 DEF Open, historyVars, Goto
    <3> QED
      BY <3>1, <3>2, <3>3 DEF TypeOK
  <2>2. CASE ~dir
    BY <1>8, <2>2 DEF Open, historyVars, Goto, fileVars, TypeOK
  <2> QED
    BY <2>1, <2>2
<1>9. ASSUME NEW r \in Requests, MapContacts(r) PROVE TypeOK'
  BY <1>9
     DEF MapContacts, historyVars, Map, Goto, dirVars, fileVars, TypeOK,
         DataType
<1>10. ASSUME NEW r \in Requests, MapGroups(r) PROVE TypeOK'
  BY <1>10
     DEF MapGroups, historyVars, Map, Goto, dirVars, fileVars, TypeOK,
         DataType
<1>11. ASSUME NEW r \in Requests, MapMonitors(r) PROVE TypeOK'
  BY <1>11
     DEF MapMonitors, historyVars, Map, Goto, dirVars, fileVars, TypeOK,
         DataType
<1>12. ASSUME NEW r \in Requests, CloseFile(r) PROVE TypeOK'
  BY <1>12
     DEF CloseFile, historyVars, Goto, dirVars, TypeOK, ContentType, Config
<1>13. ASSUME NEW r \in Requests, ToolReads(r) PROVE TypeOK'
  BY <1>13 DEF ToolReads, historyVars, Goto, dirVars, fileVars, TypeOK
<1>14. ASSUME NEW r \in Requests, ToolSends(r) PROVE TypeOK'
  <2>1. lost' = lost \/ lost' = ~overlap
    BY <1>14 DEF ToolSends
  <2>2. lost' \in BOOLEAN
    BY <2>1 DEF TypeOK
  <2>3. monitor' \in ContentType
    BY <1>14 DEF ToolSends, TypeOK
  <2> QED
    BY <1>14, <2>2, <2>3 DEF ToolSends, Goto, dirVars, fileVars, TypeOK
<1>15. ASSUME NEW r \in Requests, List(r, "listEnd", "removeEnd", "rmdirEnd")
      PROVE  TypeOK'
  BY <1>15 DEF List, historyVars, Goto, dirVars, fileVars, TypeOK
<1>16. ASSUME NEW r \in Requests, Remove(r, "removeEnd", "rmdirEnd")
      PROVE  TypeOK'
  BY <1>16 DEF Remove, historyVars, Goto, fileVars, TypeOK
<1>17. ASSUME NEW r \in Requests, RemoveDir(r, "rmdirEnd", "done")
      PROVE  TypeOK'
  BY <1>17 DEF RemoveDir, historyVars, Goto, fileVars, TypeOK
<1>18. ASSUME NEW r \in Requests, ToolFails(r) PROVE TypeOK'
  BY <1>18 DEF ToolFails, Goto, dirVars, fileVars, TypeOK
<1> QED
  BY <1>1, <1>2, <1>3, <1>4, <1>5, <1>6, <1>7, <1>8, <1>9, <1>10, <1>11,
     <1>12, <1>13, <1>14, <1>15, <1>16, <1>17, <1>18 DEF Next, Request

(* A step that takes the directory away found no file in it, and Open is   *)
(* the only step that makes a file, or an entry, or gives a request a file.*)
LEMMA FileInvStep ==
  ASSUME TypeOK, FileInv, [Next]_vars
  PROVE  FileInv'
<1> USE MapperAssumption
<1>1. CASE UNCHANGED vars
  BY <1>1 DEF vars, dirVars, fileVars, FileInv, NotOpened, Writing
<1>2. ASSUME NEW r \in Requests, Save(r) PROVE FileInv'
  BY <1>2 DEF Save, Goto, dirVars, fileVars, FileInv, NotOpened, Writing
<1>3. ASSUME NEW r \in Requests, MakeDir(r) PROVE FileInv'
  BY <1>3 DEF MakeDir, Goto, fileVars, FileInv, NotOpened, Writing
<1>4. ASSUME NEW r \in Requests, List(r, "list", "remove", "rmdir")
      PROVE  FileInv'
  BY <1>4 DEF List, Goto, dirVars, fileVars, FileInv, NotOpened, Writing
<1>5. ASSUME NEW r \in Requests, Remove(r, "remove", "rmdir") PROVE FileInv'
  BY <1>5 DEF Remove, Goto, fileVars, FileInv, NotOpened, Writing
<1>6. ASSUME NEW r \in Requests, RemoveDir(r, "rmdir", "again") PROVE FileInv'
  BY <1>6 DEF RemoveDir, Goto, fileVars, TypeOK, FileInv, NotOpened, Writing
<1>7. ASSUME NEW r \in Requests, MakeDirAgain(r) PROVE FileInv'
  BY <1>7 DEF MakeDirAgain, Goto, fileVars, FileInv, NotOpened, Writing
<1>8. ASSUME NEW r \in Requests, Open(r) PROVE FileInv'
  BY <1>8 DEF Open, Goto, fileVars, TypeOK, FileInv, NotOpened, Writing
<1>9. ASSUME NEW r \in Requests, MapContacts(r) PROVE FileInv'
  BY <1>9
     DEF MapContacts, Map, Goto, dirVars, fileVars, FileInv, NotOpened,
         Writing
<1>10. ASSUME NEW r \in Requests, MapGroups(r) PROVE FileInv'
  BY <1>10
     DEF MapGroups, Map, Goto, dirVars, fileVars, FileInv, NotOpened, Writing
<1>11. ASSUME NEW r \in Requests, MapMonitors(r) PROVE FileInv'
  BY <1>11
     DEF MapMonitors, Map, Goto, dirVars, fileVars, FileInv, NotOpened,
         Writing
<1>12. ASSUME NEW r \in Requests, CloseFile(r) PROVE FileInv'
  BY <1>12 DEF CloseFile, Goto, dirVars, FileInv, NotOpened, Writing
<1>13. ASSUME NEW r \in Requests, ToolReads(r) PROVE FileInv'
  BY <1>13 DEF ToolReads, Goto, dirVars, fileVars, FileInv, NotOpened, Writing
<1>14. ASSUME NEW r \in Requests, ToolSends(r) PROVE FileInv'
  BY <1>14 DEF ToolSends, Goto, dirVars, fileVars, FileInv, NotOpened, Writing
<1>15. ASSUME NEW r \in Requests, List(r, "listEnd", "removeEnd", "rmdirEnd")
      PROVE  FileInv'
  BY <1>15 DEF List, Goto, dirVars, fileVars, FileInv, NotOpened, Writing
<1>16. ASSUME NEW r \in Requests, Remove(r, "removeEnd", "rmdirEnd")
      PROVE  FileInv'
  BY <1>16 DEF Remove, Goto, fileVars, FileInv, NotOpened, Writing
<1>17. ASSUME NEW r \in Requests, RemoveDir(r, "rmdirEnd", "done")
      PROVE  FileInv'
  BY <1>17 DEF RemoveDir, Goto, fileVars, TypeOK, FileInv, NotOpened, Writing
<1>18. ASSUME NEW r \in Requests, ToolFails(r) PROVE FileInv'
  BY <1>18 DEF ToolFails, Goto, dirVars, fileVars, FileInv, NotOpened, Writing
<1> QED
  BY <1>1, <1>2, <1>3, <1>4, <1>5, <1>6, <1>7, <1>8, <1>9, <1>10, <1>11,
     <1>12, <1>13, <1>14, <1>15, <1>16, <1>17, <1>18 DEF Next, Request

(* Save is the only step that changes the data, and it only adds.          *)
LEMMA DataInvStep ==
  ASSUME TypeOK, DataInv, [Next]_vars
  PROVE  DataInv'
<1> USE MapperAssumption
<1>1. CASE UNCHANGED vars
  BY <1>1 DEF vars, DataInv
<1>2. ASSUME NEW r \in Requests, Save(r) PROVE DataInv'
  BY <1>2 DEF Save, Goto, TypeOK, DataType, DataInv, AtLeast
<1>3. ASSUME NEW r \in Requests, MakeDir(r) PROVE DataInv'
  BY <1>3 DEF MakeDir, Goto, DataInv
<1>4. ASSUME NEW r \in Requests, List(r, "list", "remove", "rmdir")
      PROVE  DataInv'
  BY <1>4 DEF List, Goto, DataInv
<1>5. ASSUME NEW r \in Requests, Remove(r, "remove", "rmdir") PROVE DataInv'
  BY <1>5 DEF Remove, Goto, DataInv
<1>6. ASSUME NEW r \in Requests, RemoveDir(r, "rmdir", "again") PROVE DataInv'
  BY <1>6 DEF RemoveDir, Goto, DataInv
<1>7. ASSUME NEW r \in Requests, MakeDirAgain(r) PROVE DataInv'
  BY <1>7 DEF MakeDirAgain, Goto, DataInv
<1>8. ASSUME NEW r \in Requests, Open(r) PROVE DataInv'
  BY <1>8 DEF Open, Goto, DataInv
<1>9. ASSUME NEW r \in Requests, MapContacts(r) PROVE DataInv'
  BY <1>9 DEF MapContacts, Map, Goto, DataInv
<1>10. ASSUME NEW r \in Requests, MapGroups(r) PROVE DataInv'
  BY <1>10 DEF MapGroups, Map, Goto, DataInv
<1>11. ASSUME NEW r \in Requests, MapMonitors(r) PROVE DataInv'
  BY <1>11 DEF MapMonitors, Map, Goto, DataInv
<1>12. ASSUME NEW r \in Requests, CloseFile(r) PROVE DataInv'
  BY <1>12 DEF CloseFile, Goto, DataInv
<1>13. ASSUME NEW r \in Requests, ToolReads(r) PROVE DataInv'
  BY <1>13 DEF ToolReads, Goto, DataInv
<1>14. ASSUME NEW r \in Requests, ToolSends(r) PROVE DataInv'
  BY <1>14 DEF ToolSends, Goto, DataInv
<1>15. ASSUME NEW r \in Requests, List(r, "listEnd", "removeEnd", "rmdirEnd")
      PROVE  DataInv'
  BY <1>15 DEF List, Goto, DataInv
<1>16. ASSUME NEW r \in Requests, Remove(r, "removeEnd", "rmdirEnd")
      PROVE  DataInv'
  BY <1>16 DEF Remove, Goto, DataInv
<1>17. ASSUME NEW r \in Requests, RemoveDir(r, "rmdirEnd", "done")
      PROVE  DataInv'
  BY <1>17 DEF RemoveDir, Goto, DataInv
<1>18. ASSUME NEW r \in Requests, ToolFails(r) PROVE DataInv'
  BY <1>18 DEF ToolFails, Goto, DataInv
<1> QED
  BY <1>1, <1>2, <1>3, <1>4, <1>5, <1>6, <1>7, <1>8, <1>9, <1>10, <1>11,
     <1>12, <1>13, <1>14, <1>15, <1>16, <1>17, <1>18 DEF Next, Request

(* A request is past its makedirs from a moment when there was no file.    *)
(* What the file gets after that was read after it, hence after the        *)
(* request's own change.                                                   *)
LEMMA FreshInvStep ==
  ASSUME TypeOK, FileInv, DataInv, FreshInv, [Next]_vars
  PROVE  FreshInv'
<1> USE MapperAssumption
<1>1. CASE UNCHANGED vars
  BY <1>1 DEF vars, dirVars, fileVars, FreshInv, ReadBy, Past
<1>2. ASSUME NEW r \in Requests, Save(r) PROVE FreshInv'
  BY <1>2 DEF Save, Goto, dirVars, fileVars, FreshInv, ReadBy, Past
<1>3. ASSUME NEW r \in Requests, MakeDir(r) PROVE FreshInv'
  BY <1>3 DEF MakeDir, Goto, fileVars, FileInv, FreshInv, ReadBy, Past
<1>4. ASSUME NEW r \in Requests, List(r, "list", "remove", "rmdir")
      PROVE  FreshInv'
  BY <1>4 DEF List, Goto, dirVars, fileVars, FreshInv, ReadBy, Past
<1>5. ASSUME NEW r \in Requests, Remove(r, "remove", "rmdir") PROVE FreshInv'
  BY <1>5 DEF Remove, FreshInv
<1>6. ASSUME NEW r \in Requests, RemoveDir(r, "rmdir", "again")
      PROVE  FreshInv'
  BY <1>6 DEF RemoveDir, Goto, fileVars, FreshInv, ReadBy, Past
<1>7. ASSUME NEW r \in Requests, MakeDirAgain(r) PROVE FreshInv'
  BY <1>7 DEF MakeDirAgain, Goto, fileVars, FreshInv, ReadBy, Past
<1>8. ASSUME NEW r \in Requests, Open(r) PROVE FreshInv'
  BY <1>8
     DEF Open, Goto, TypeOK, FileInv, FreshInv, ReadBy, Past, NotOpened,
         Empty
<1>9. ASSUME NEW r \in Requests, MapContacts(r) PROVE FreshInv'
  BY <1>9
     DEF MapContacts, Map, Goto, dirVars, fileVars, TypeOK, DataType,
         DataInv, FreshInv, ReadBy, Past, AtLeast
<1>10. ASSUME NEW r \in Requests, MapGroups(r) PROVE FreshInv'
  BY <1>10
     DEF MapGroups, Map, Goto, dirVars, fileVars, TypeOK, DataType, DataInv,
         FreshInv, ReadBy, Past, AtLeast, Parts
<1>11. ASSUME NEW r \in Requests, MapMonitors(r) PROVE FreshInv'
  BY <1>11
     DEF MapMonitors, Map, Goto, dirVars, fileVars, TypeOK, DataType,
         DataInv, FreshInv, ReadBy, Past, AtLeast
<1>12. ASSUME NEW r \in Requests, CloseFile(r) PROVE FreshInv'
  BY <1>12
     DEF CloseFile, Goto, dirVars, FreshInv, ReadBy, Past, AtLeast, Mixed,
         Config
<1>13. ASSUME NEW r \in Requests, ToolReads(r) PROVE FreshInv'
  BY <1>13 DEF ToolReads, Goto, dirVars, fileVars, FreshInv, ReadBy, Past
<1>14. ASSUME NEW r \in Requests, ToolSends(r) PROVE FreshInv'
  BY <1>14 DEF ToolSends, Goto, dirVars, fileVars, FreshInv, ReadBy, Past
<1>15. ASSUME NEW r \in Requests, List(r, "listEnd", "removeEnd", "rmdirEnd")
      PROVE  FreshInv'
  BY <1>15 DEF List, Goto, dirVars, fileVars, FreshInv, ReadBy, Past
<1>16. ASSUME NEW r \in Requests, Remove(r, "removeEnd", "rmdirEnd")
      PROVE  FreshInv'
  BY <1>16 DEF Remove, FreshInv
<1>17. ASSUME NEW r \in Requests, RemoveDir(r, "rmdirEnd", "done")
      PROVE  FreshInv'
  BY <1>17 DEF RemoveDir, Goto, fileVars, FreshInv, ReadBy, Past
<1>18. ASSUME NEW r \in Requests, ToolFails(r) PROVE FreshInv'
  BY <1>18 DEF ToolFails, Goto, dirVars, fileVars, FreshInv, ReadBy, Past
<1> QED
  BY <1>1, <1>2, <1>3, <1>4, <1>5, <1>6, <1>7, <1>8, <1>9, <1>10, <1>11,
     <1>12, <1>13, <1>14, <1>15, <1>16, <1>17, <1>18 DEF Next, Request

(* ToolReads takes what FreshInv says about the file; own changes only     *)
(* before.                                                                 *)
LEMMA OwnChangePushedStep ==
  ASSUME TypeOK, DataInv, FreshInv, OwnChangePushed, [Next]_vars
  PROVE  OwnChangePushed'
<1> USE MapperAssumption
<1>1. CASE UNCHANGED vars
  BY <1>1 DEF vars, OwnChangePushed
<1>2. ASSUME NEW r \in Requests, Save(r) PROVE OwnChangePushed'
  BY <1>2 DEF Save, Goto, DataInv, OwnChangePushed, Empty
<1>3. ASSUME NEW r \in Requests, MakeDir(r) PROVE OwnChangePushed'
  BY <1>3 DEF MakeDir, OwnChangePushed
<1>4. ASSUME NEW r \in Requests, List(r, "list", "remove", "rmdir")
      PROVE  OwnChangePushed'
  BY <1>4 DEF List, OwnChangePushed
<1>5. ASSUME NEW r \in Requests, Remove(r, "remove", "rmdir")
      PROVE  OwnChangePushed'
  BY <1>5 DEF Remove, OwnChangePushed
<1>6. ASSUME NEW r \in Requests, RemoveDir(r, "rmdir", "again")
      PROVE  OwnChangePushed'
  BY <1>6 DEF RemoveDir, OwnChangePushed
<1>7. ASSUME NEW r \in Requests, MakeDirAgain(r) PROVE OwnChangePushed'
  BY <1>7 DEF MakeDirAgain, OwnChangePushed
<1>8. ASSUME NEW r \in Requests, Open(r) PROVE OwnChangePushed'
  BY <1>8 DEF Open, OwnChangePushed
<1>9. ASSUME NEW r \in Requests, MapContacts(r) PROVE OwnChangePushed'
  BY <1>9 DEF MapContacts, Map, OwnChangePushed
<1>10. ASSUME NEW r \in Requests, MapGroups(r) PROVE OwnChangePushed'
  BY <1>10 DEF MapGroups, Map, OwnChangePushed
<1>11. ASSUME NEW r \in Requests, MapMonitors(r) PROVE OwnChangePushed'
  BY <1>11 DEF MapMonitors, Map, OwnChangePushed
<1>12. ASSUME NEW r \in Requests, CloseFile(r) PROVE OwnChangePushed'
  BY <1>12 DEF CloseFile, OwnChangePushed
<1>13. ASSUME NEW r \in Requests, ToolReads(r) PROVE OwnChangePushed'
  BY <1>13 DEF ToolReads, Goto, FreshInv, OwnChangePushed, Past
<1>14. ASSUME NEW r \in Requests, ToolSends(r) PROVE OwnChangePushed'
  BY <1>14 DEF ToolSends, OwnChangePushed
<1>15. ASSUME NEW r \in Requests, List(r, "listEnd", "removeEnd", "rmdirEnd")
      PROVE  OwnChangePushed'
  BY <1>15 DEF List, OwnChangePushed
<1>16. ASSUME NEW r \in Requests, Remove(r, "removeEnd", "rmdirEnd")
      PROVE  OwnChangePushed'
  BY <1>16 DEF Remove, OwnChangePushed
<1>17. ASSUME NEW r \in Requests, RemoveDir(r, "rmdirEnd", "done")
      PROVE  OwnChangePushed'
  BY <1>17 DEF RemoveDir, OwnChangePushed
<1>18. ASSUME NEW r \in Requests, ToolFails(r) PROVE OwnChangePushed'
  BY <1>18 DEF ToolFails, OwnChangePushed
<1> QED
  BY <1>1, <1>2, <1>3, <1>4, <1>5, <1>6, <1>7, <1>8, <1>9, <1>10, <1>11,
     <1>12, <1>13, <1>14, <1>15, <1>16, <1>17, <1>18 DEF Next, Request

(* The initial state has the parts of IInv.                                *)
LEMMA InitIInv == Init => IInv
<1> SUFFICES ASSUME Init PROVE IInv
  OBVIOUS
<1> USE MapperAssumption DEF Init
<1>1. TypeOK
  BY DEF TypeOK, ContentType, DataType, Nothing, Parts
<1>2. FileInv /\ FreshInv
  BY DEF FileInv, FreshInv, Writing
<1>3. DataInv /\ OwnChangePushed
  BY DEF DataInv, OwnChangePushed, AtLeast, Nothing, Parts, Empty
<1> QED
  BY <1>1, <1>2, <1>3 DEF IInv

(* IInv is an invariant, for any number of requests.                       *)
THEOREM Invariance == Spec => []IInv
<1>1. IInv /\ [Next]_vars => IInv'
  BY TypeOKStep, FileInvStep, DataInvStep, FreshInvStep, OwnChangePushedStep
     DEF IInv
<1> QED
  BY InitIInv, <1>1, PTL DEF Spec

(* A request never pushes a whole configuration that lacks its own change  *)
(* (mapperinterface.py:55-86), for any number of concurrent requests.      *)
THEOREM PushesOwnChange == Spec => []OwnChangePushed
<1>1. IInv => OwnChangePushed
  BY DEF IInv
<1> QED
  BY <1>1, Invariance, PTL

(* The variables keep their types, for any number of requests.             *)
THEOREM TypeCorrect == Spec => []TypeOK
<1>1. IInv => TypeOK
  BY DEF IInv
<1> QED
  BY <1>1, Invariance, PTL

-----------------------------------------------------------------------------
(* Requests that do not overlap: what one of them has done at each place,  *)
(* and what it leaves.                                                     *)
Pushed(r) == ~lost => payload[r].state = "whole" /\ monitor = Config(db)

Stage(r) ==
  /\ pc[r] \notin {"list", "remove", "rmdir", "again", "error"}
  /\ pc[r] = "mkdir" => ~dir /\ entry = NULL
  /\ pc[r] = "open" => dir /\ entry = NULL
  /\ Writing(r) => dir /\ entry = r /\ file[r] = r /\ content[r] = Empty
  /\ pc[r] \in {"mkdir", "open"} \/ Writing(r) => ~lost
  /\ \A k \in ReadBy(r) : data[r][k] = db[k]
  /\ pc[r] = "read" =>
       dir /\ entry = r /\ content[r] = Config(db) /\ ~lost
  /\ pc[r] = "send" =>
       dir /\ entry # NULL /\ payload[r] = Config(db) /\ ~lost
  /\ pc[r] \in {"listEnd", "removeEnd"} => dir /\ entry # NULL /\ Pushed(r)
  /\ pc[r] = "rmdirEnd" => dir /\ entry = NULL /\ Pushed(r)

OneBusy == \A r, q \in Requests : Busy(r) /\ Busy(q) => r = q
Left ==
  AllEnded =>
    /\ ~dir /\ entry = NULL
    /\ SomeDone /\ ~lost => monitor = Config(db)

AloneInv == ~overlap => OneBusy /\ Left /\ \A r \in Requests : Stage(r)

(* A step of the only request at work, which goes on to another place.     *)
Goes(r, place) ==
  /\ Busy(r) /\ overlap' = overlap /\ pc' = [pc EXCEPT ![r] = place]
  /\ place \notin {"idle", "error"}
  /\ Stage(r)'
  /\ place = "done" =>
       ~dir' /\ entry' = NULL /\ (~lost' => monitor' = Config(db'))

LEMMA GoesStep ==
  ASSUME TypeOK, AloneInv, ~overlap, NEW r \in Requests, NEW place,
         Goes(r, place)
  PROVE  AloneInv'
<1>1. /\ \A q \in Requests : pc'[q] = IF q = r THEN place ELSE pc[q]
      /\ \A q \in Requests : q # r => ~Busy(q)
      /\ \A q \in Requests : Stage(q)
  BY DEF Goes, TypeOK, AloneInv, OneBusy
<1>2. OneBusy'
  BY <1>1 DEF OneBusy, Busy
<1>3. ASSUME NEW q \in Requests, q # r PROVE Stage(q)'
  BY <1>1, <1>3
     DEF Goes, Stage, Busy, Ended, Writing, ReadBy
<1>4. Left'
  <2>1. CASE place = "done"
    BY <2>1 DEF Goes, Left
  <2>2. CASE place # "done"
    BY <1>1, <2>2 DEF Goes, Left, AllEnded, Ended
  <2> QED
    BY <2>1, <2>2
<1> QED
  BY <1>2, <1>3, <1>4 DEF AloneInv, Goes

(* A request that starts while no other is at work finds no directory.     *)
LEMMA SaveAlone ==
  ASSUME TypeOK, AloneInv, NEW r \in Requests, Save(r)
  PROVE  AloneInv'
<1> SUFFICES ASSUME ~overlap' PROVE AloneInv'
  BY DEF AloneInv
<1>1. ~overlap /\ \A q \in Requests : ~Busy(q)
  BY DEF Save
<1>2. /\ \A q \in Requests : Stage(q)
      /\ Left
  BY <1>1 DEF AloneInv
<1>3. AllEnded
  BY <1>1 DEF AllEnded, Busy
<1>4. /\ \A q \in Requests : pc'[q] = IF q = r THEN "mkdir" ELSE pc[q]
      /\ UNCHANGED <<dir, entry>> /\ ~lost'
  BY DEF Save, Goto, TypeOK, dirVars
<1>5. ASSUME NEW q \in Requests PROVE Stage(q)'
  <2>1. pc'[q] \in {"mkdir", "idle", "done"}
    BY <1>2, <1>3, <1>4 DEF AllEnded, Ended, Stage
  <2>2. ~dir' /\ entry' = NULL
    BY <1>2, <1>3, <1>4 DEF Left
  <2> QED
    BY <1>4, <2>1, <2>2 DEF Stage, Writing, ReadBy
<1>6. OneBusy'
  BY <1>1, <1>4 DEF OneBusy, Busy
<1>7. Left'
  BY <1>4 DEF Left, AllEnded, Ended
<1> QED
  BY <1>5, <1>6, <1>7 DEF AloneInv

(* The steps that take the directory into use.                             *)
LEMMA EnterAlone ==
  ASSUME TypeOK, AloneInv, ~overlap, NEW r \in Requests,
         \/ MakeDir(r) \/ List(r, "list", "remove", "rmdir")
         \/ Remove(r, "remove", "rmdir") \/ RemoveDir(r, "rmdir", "again")
         \/ MakeDirAgain(r) \/ Open(r)
  PROVE  AloneInv'
<1> USE MapperAssumption
<1>1. Stage(r)
  BY DEF AloneInv
<1>2. MakeDir(r) \/ Open(r)
  BY <1>1 DEF Stage, List, Remove, RemoveDir, MakeDirAgain, Goto
<1>3. CASE MakeDir(r)
  <2>1. /\ pc[r] = "mkdir" /\ ~dir /\ entry = NULL
        /\ pc' = [pc EXCEPT ![r] = "open"] /\ dir'
        /\ ~lost /\ UNCHANGED <<entry, overlap, lost>>
    BY <1>1, <1>3 DEF Stage, MakeDir, Goto, historyVars
  <2>2. Goes(r, "open")
    BY <2>1 DEF Goes, Stage, Busy, Ended, Writing, ReadBy, TypeOK
  <2> QED
    BY <2>2, GoesStep
<1>4. CASE Open(r)
  <2>1. /\ pc[r] = "open" /\ dir /\ entry = NULL
        /\ pc' = [pc EXCEPT ![r] = "contacts"] /\ entry' = r
        /\ file' = [file EXCEPT ![r] = r]
        /\ content' = [content EXCEPT ![r] = Empty]
        /\ ~lost /\ UNCHANGED <<dir, overlap, lost>>
    BY <1>1, <1>4 DEF Stage, Open, Goto, historyVars
  <2>2. Goes(r, "contacts")
    BY <2>1 DEF Goes, Stage, Busy, Ended, Writing, ReadBy, TypeOK
  <2> QED
    BY <2>2, GoesStep
<1> QED
  BY <1>2, <1>3, <1>4

(* The loops: nobody changes the database meanwhile.                       *)
LEMMA MapAlone ==
  ASSUME TypeOK, AloneInv, ~overlap, NEW r \in Requests,
         MapContacts(r) \/ MapGroups(r) \/ MapMonitors(r)
  PROVE  AloneInv'
<1>1. PICK part \in Parts, to \in {"groups", "monitors", "close"} :
        /\ Map(r, part, to) /\ Writing(r) /\ pc[r] = part
        /\ part = "contacts" => to = "groups"
        /\ part = "groups" => to = "monitors"
        /\ part = "monitors" => to = "close"
  BY DEF MapContacts, MapGroups, MapMonitors, Map, Goto, Parts, Writing
<1>2. Stage(r)
  BY DEF AloneInv
<1>3. /\ pc' = [pc EXCEPT ![r] = to]
      /\ data' = [data EXCEPT ![r][part] = db[part]]
      /\ UNCHANGED <<db, dir, entry, file, content, overlap, lost>>
  BY <1>1 DEF Map, Goto, dirVars, fileVars, historyVars
<1>4. pc'[r] = to
  BY <1>3 DEF TypeOK
<1>5. \A k \in ReadBy(r)' : data'[r][k] = db'[k]
  <2>1. ReadBy(r)' \subseteq ReadBy(r) \cup {part}
    BY <1>1, <1>4 DEF ReadBy, Parts
  <2>2. data[r] \in [Parts -> Nat]
    BY DEF TypeOK, DataType
  <2>3. \A k \in Parts : data'[r][k] = IF k = part THEN db[k] ELSE data[r][k]
    BY <1>3, <2>2 DEF TypeOK
  <2> QED
    BY <1>2, <1>3, <2>1, <2>3 DEF ReadBy, Stage
<1>6. Stage(r)'
  BY <1>1, <1>2, <1>3, <1>4, <1>5 DEF Stage, Writing
<1>7. Goes(r, to)
  BY <1>1, <1>3, <1>6 DEF Goes, Busy, Ended, Writing
<1> QED
  BY <1>7, GoesStep

(* The file gets what the database holds, and ns_tools sends it, or fails. *)
LEMMA PushAlone ==
  ASSUME TypeOK, AloneInv, ~overlap, NEW r \in Requests,
         CloseFile(r) \/ ToolFails(r) \/ ToolReads(r) \/ ToolSends(r)
  PROVE  AloneInv'
<1> USE MapperAssumption
<1>1. Stage(r)
  BY DEF AloneInv
<1>2. CASE CloseFile(r)
  <2>1. /\ pc[r] = "close" /\ pc' = [pc EXCEPT ![r] = "read"]
        /\ content' = [content EXCEPT ![r] = Config(data[r])]
        /\ dir /\ entry = r
        /\ ~lost /\ UNCHANGED <<db, dir, entry, overlap, lost>>
    BY <1>1, <1>2 DEF CloseFile, Goto, Stage, Writing, dirVars, historyVars
  <2>2. data[r] = db
    <3>1. \A k \in Parts : data[r][k] = db[k]
      BY <1>1, <2>1 DEF Stage, ReadBy
    <3> QED
      BY <3>1 DEF TypeOK, DataType
  <2>3. content'[r] = Config(db')
    BY <2>1, <2>2 DEF TypeOK
  <2>4. Goes(r, "read")
    BY <2>1, <2>3 DEF Goes, Stage, Busy, Ended, Writing, ReadBy, TypeOK
  <2> QED
    BY <2>4, GoesStep
<1>3. CASE ToolReads(r)
  <2>1. /\ pc[r] = "read" /\ pc' = [pc EXCEPT ![r] = "send"]
        /\ payload' = [payload EXCEPT ![r] = Config(db)]
        /\ dir /\ entry = r /\ ~lost
        /\ UNCHANGED <<db, dir, entry, overlap, lost>>
    BY <1>1, <1>3 DEF ToolReads, Goto, Stage, dirVars, historyVars
  <2>2. Goes(r, "send")
    BY <2>1 DEF Goes, Stage, Busy, Ended, Writing, ReadBy, TypeOK, Config
  <2> QED
    BY <2>2, GoesStep
<1>4. CASE ToolSends(r)
  <2>1. /\ pc[r] = "send" /\ pc' = [pc EXCEPT ![r] = "listEnd"]
        /\ payload[r] = Config(db) /\ (lost' \/ monitor' = Config(db))
        /\ dir /\ entry # NULL
        /\ UNCHANGED <<db, dir, entry, payload, overlap>>
    BY <1>1, <1>4 DEF ToolSends, Goto, Stage, dirVars
  <2>2. Pushed(r)'
    BY <2>1 DEF Pushed, Config
  <2>3. Goes(r, "listEnd")
    BY <2>1, <2>2 DEF Goes, Stage, Busy, Ended, Writing, ReadBy, TypeOK
  <2> QED
    BY <2>3, GoesStep
<1>5. CASE ToolFails(r)
  <2>1. /\ pc[r] = "read" /\ pc' = [pc EXCEPT ![r] = "listEnd"]
        /\ lost' /\ dir /\ entry # NULL
        /\ UNCHANGED <<db, dir, entry, overlap>>
    BY <1>1, <1>5 DEF ToolFails, Goto, Stage, dirVars
  <2>2. Goes(r, "listEnd")
    BY <2>1 DEF Goes, Stage, Pushed, Busy, Ended, Writing, ReadBy, TypeOK
  <2> QED
    BY <2>2, GoesStep
<1> QED
  BY <1>2, <1>3, <1>4, <1>5

(* The end of do_map: the directory is removed with the file.              *)
LEMMA LeaveAlone ==
  ASSUME TypeOK, AloneInv, ~overlap, NEW r \in Requests,
         \/ List(r, "listEnd", "removeEnd", "rmdirEnd")
         \/ Remove(r, "removeEnd", "rmdirEnd")
         \/ RemoveDir(r, "rmdirEnd", "done")
  PROVE  AloneInv'
<1>1. Stage(r)
  BY DEF AloneInv
<1>2. CASE List(r, "listEnd", "removeEnd", "rmdirEnd")
  <2>1. /\ pc[r] = "listEnd" /\ pc' = [pc EXCEPT ![r] = "removeEnd"]
        /\ dir /\ entry # NULL /\ Pushed(r)
        /\ UNCHANGED <<db, dir, entry, payload, monitor, overlap, lost>>
    BY <1>1, <1>2 DEF List, Goto, Stage, dirVars, historyVars
  <2>2. Goes(r, "removeEnd")
    BY <2>1 DEF Goes, Stage, Pushed, Busy, Ended, Writing, ReadBy, TypeOK
  <2> QED
    BY <2>2, GoesStep
<1>3. CASE Remove(r, "removeEnd", "rmdirEnd")
  <2>1. /\ pc[r] = "removeEnd" /\ pc' = [pc EXCEPT ![r] = "rmdirEnd"]
        /\ dir /\ entry' = NULL /\ Pushed(r)
        /\ UNCHANGED <<db, dir, payload, monitor, overlap, lost>>
    BY <1>1, <1>3 DEF Remove, Goto, Stage, historyVars
  <2>2. Goes(r, "rmdirEnd")
    BY <2>1 DEF Goes, Stage, Pushed, Busy, Ended, Writing, ReadBy, TypeOK
  <2> QED
    BY <2>2, GoesStep
<1>4. CASE RemoveDir(r, "rmdirEnd", "done")
  <2>1. /\ pc[r] = "rmdirEnd" /\ pc' = [pc EXCEPT ![r] = "done"]
        /\ ~dir' /\ entry' = NULL /\ Pushed(r)
        /\ UNCHANGED <<db, payload, monitor, overlap, lost>>
    BY <1>1, <1>4 DEF RemoveDir, Goto, Stage, historyVars
  <2>2. Goes(r, "done")
    BY <2>1 DEF Goes, Stage, Pushed, Busy, Ended, Writing, ReadBy, TypeOK
  <2> QED
    BY <2>2, GoesStep
<1> QED
  BY <1>2, <1>3, <1>4

LEMMA AloneInvStep ==
  ASSUME TypeOK, AloneInv, [Next]_vars
  PROVE  AloneInv'
<1>1. CASE UNCHANGED vars
  BY <1>1
     DEF vars, dirVars, fileVars, historyVars, AloneInv, OneBusy, Left,
         AllEnded, SomeDone, Busy, Stage, Pushed, Writing, ReadBy
<1>2. CASE Next
  <2>1. PICK r \in Requests : Save(r) \/ Request(r)
    BY <1>2 DEF Next
  <2>2. CASE Request(r) /\ overlap
    <3>1. overlap'
      BY <2>2
         DEF Request, MakeDir, List, Remove, RemoveDir, MakeDirAgain, Open,
             MapContacts, MapGroups, MapMonitors, Map, CloseFile, ToolFails,
             ToolReads, ToolSends, historyVars
    <3> QED
      BY <3>1 DEF AloneInv
  <2>3. CASE Request(r) /\ ~overlap
    BY <2>3, EnterAlone, MapAlone, PushAlone, LeaveAlone DEF Request
  <2> QED
    BY <2>1, <2>2, <2>3, SaveAlone
<1> QED
  BY <1>1, <1>2

LEMMA InitAloneInv == Init => AloneInv
BY DEF Init, AloneInv, OneBusy, Left, SomeDone, Busy, Ended, Stage, Writing,
       ReadBy

(* AloneInv is an invariant, too.                                          *)
THEOREM AloneInvariance == Spec => []AloneInv
<1>1. IInv /\ AloneInv /\ [Next]_vars => AloneInv'
  BY AloneInvStep DEF IInv
<1> QED
  BY InitAloneInv, <1>1, Invariance, PTL DEF Spec

(* A request that no other overlaps never ends in an exception, whether    *)
(* ns_tools fails or not, and what ns_tools reads is a whole configuration *)
(* (mapperinterface.py:21-112).                                            *)
THEOREM SucceedsAlone == Spec => []AloneSucceeds
<1>1. AloneInv => AloneSucceeds
  BY DEF AloneInv, Stage, Pushed, Config, AloneSucceeds
<1> QED
  BY <1>1, AloneInvariance, PTL

(* In the same case the directory is gone when the last of them has ended, *)
(* and the monitor has the newest data unless the push of that last one    *)
(* failed (mapperinterface.py:108).                                        *)
THEOREM PushesNewestAlone == Spec => []NewestPushedAlone
<1>1. AloneInv => NewestPushedAlone
  BY DEF AloneInv, Left, NewestPushedAlone
<1> QED
  BY <1>1, AloneInvariance, PTL

=============================================================================
