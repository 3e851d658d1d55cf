------------------------------- MODULE Mapper -------------------------------
(***************************************************************************)
(* The control server's way from a change of a user's data to the push of  *)
(* a configuration (controlserver/servicelevelinterface/views.py and       *)
(* mapperinterface.py).  Every request runs in a thread of its own; all    *)
(* requests of a user share the directory /tmp/<username>/ and the file    *)
(* cfgFile.cfg in it.  The module is about the requests of one user.       *)
(*                                                                         *)
(* The user's data are the numbers of the changes made so far to contacts  *)
(* and to monitors.  The querysets of MapperInterface.do_map are lazy, and *)
(* all() makes a new one: the contacts are read from the database when the *)
(* loop over them starts, again for the group of all contacts, and the     *)
(* monitors when their loop starts.  What a request writes to the file     *)
(* stays in its buffer until close().                                      *)
(*                                                                         *)
(* The push is a process of its own, ns_tools (north_south/src/tools.c),   *)
(* which may fail on its way; do_map drops its result.                     *)
(***************************************************************************)
EXTENDS Integers, FiniteSets

CONSTANTS
  Requests,  (* the requests                                               *)
  KindOf,    (* what each changes: contacts, monitors, or nothing (the     *)
             (* link CommandViewSet.mapper)                                *)
  NULL       (* no file                                                    *)

(* What a configuration is made of, and what each part is read from.       *)
Parts == {"contacts", "groups", "monitors"}
SourceOf(part) == IF part = "groups" THEN "contacts" ELSE part

ASSUME MapperAssumption ==
  /\ KindOf \in [Requests -> {"contacts", "monitors", "nothing"}]
  /\ NULL \notin Requests
  /\ IsFiniteSet(Requests)

(* What a file may contain: nothing yet, a configuration, or the bytes of  *)
(* two writers.                                                            *)
Empty == [state |-> "empty"]
Mixed == [state |-> "mixed"]
Config(data) == [state |-> "whole", data |-> data]

VARIABLES
  db,       (* the user's data in the control server's database            *)
  pc,       (* where each request is                                       *)
  own,      (* the data right after the request's own change               *)
  dir,      (* the directory exists                                        *)
  entry,    (* the file cfgFile.cfg refers to; a file is named by the      *)
            (* request that created it                                     *)
  file,     (* the file each request has opened                            *)
  content,  (* the content of each file                                    *)
  data,     (* what each request has read from the database                *)
  payload,  (* what each request's ns_tools has read from the file         *)
  monitor,  (* the configuration the monitor was sent last                 *)
  overlap,  (* history: two requests were at work at the same time         *)
  lost      (* history: ns_tools of the request that started last failed,  *)
            (* or its packet did not reach the monitor; not kept when      *)
            (* requests have overlapped                                    *)

dirVars == <<dir, entry>>
fileVars == <<file, content>>
historyVars == <<overlap, lost>>
vars == <<db, pc, own, dirVars, fileVars, data, payload, monitor,
          historyVars>>

Nothing == [k \in Parts |-> 0]

Init ==
  /\ db = Nothing
  /\ pc = [r \in Requests |-> "idle"]
  /\ own = [r \in Requests |-> Nothing]
  /\ dir = FALSE
  /\ entry = NULL
  /\ file = [r \in Requests |-> NULL]
  /\ content = [r \in Requests |-> Empty]
  /\ data = [r \in Requests |-> Nothing]
  /\ payload = [r \in Requests |-> Empty]
  /\ monitor = Empty
  /\ overlap = FALSE
  /\ lost = FALSE

Ended == {"done", "error"}
Busy(r) == pc[r] \notin Ended \cup {"idle"}

Goto(r, from, to) ==
  /\ pc[r] = from
  /\ pc' = [pc EXCEPT ![r] = to]

-----------------------------------------------------------------------------
(* Faulty variant: a change that takes an earlier one back.                *)
Save_Undo(r) ==
  /\ Goto(r, "idle", "mkdir")
  /\ db' = [k \in Parts |->
            IF SourceOf(k) = KindOf[r] THEN db[k] - 1 ELSE db[k]]
  /\ own' = [own EXCEPT ![r] = db']
  /\ overlap' = (overlap \/ \E q \in Requests : Busy(q))
  /\ lost' = FALSE
  /\ UNCHANGED <<dirVars, fileVars, data, payload, monitor>>

(* create, update or destroy: first the database, then do_map.             *)
Save(r) ==
  /\ Goto(r, "idle", "mkdir")
  /\ db' = [k \in Parts |->
            IF SourceOf(k) = KindOf[r] THEN db[k] + 1 ELSE db[k]]
  /\ own' = [own EXCEPT ![r] = db']
  /\ overlap' = (overlap \/ \E q \in Requests : Busy(q))
  /\ lost' = FALSE
  /\ UNCHANGED <<dirVars, fileVars, data, payload, monitor>>

(* os.makedirs; the exception handler is next when the directory is there. *)
MakeDir(r) ==
  /\ Goto(r, "mkdir", IF dir THEN "list" ELSE "open")
  /\ dir' = TRUE
  /\ UNCHANGED <<db, own, entry, fileVars, data, payload, monitor,
                 historyVars>>

(* shutil.rmtree, from the handler and at the end: the directory is listed,*)
(* the file it has is removed, then the directory.  An exception ends the  *)
(* request when the directory or the file is gone meanwhile, or when the   *)
(* directory has a new file by then.                                       *)
List(r, from, remove, rmdir) ==
  /\ Goto(r, from, IF ~dir THEN "error"
                   ELSE IF entry = NULL THEN rmdir ELSE remove)
  /\ UNCHANGED <<db, own, dirVars, fileVars, data, payload, monitor,
                 historyVars>>

(* Faulty variant: os.rmdir, which leaves the file where it is.            *)
Remove_Skip(r, from, to) ==
  /\ Goto(r, from, IF entry = NULL THEN "error" ELSE to)
  /\ UNCHANGED <<db, own, dirVars, fileVars, data, payload, monitor,
                 historyVars>>

Remove(r, from, to) ==
  /\ Goto(r, from, IF entry = NULL THEN "error" ELSE to)
  /\ entry' = NULL
  /\ UNCHANGED <<db, own, dir, fileVars, data, payload, monitor,
                 historyVars>>

RemoveDir(r, from, to) ==
  /\ Goto(r, from, IF dir /\ entry = NULL THEN to ELSE "error")
  /\ dir' = (dir /\ entry # NULL)
  /\ UNCHANGED <<db, own, entry, fileVars, data, payload, monitor,
                 historyVars>>

(* os.makedirs in the handler: nothing catches its exception.              *)
MakeDirAgain(r) ==
  /\ Goto(r, "again", IF dir THEN "error" ELSE "open")
  /\ dir' = TRUE
  /\ UNCHANGED <<db, own, entry, fileVars, data, payload, monitor,
                 historyVars>>

(* open(..., "w"): a file that is there is emptied and shared.             *)
Open(r) ==
  LET f == IF entry = NULL THEN r ELSE entry IN
  /\ Goto(r, "open", IF dir THEN "contacts" ELSE "error")
  /\ IF dir
       THEN /\ entry' = f
            /\ file' = [file EXCEPT ![r] = f]
            /\ content' = [content EXCEPT ![f] = Empty]
       ELSE UNCHANGED <<entry, fileVars>>
  /\ UNCHANGED <<db, own, dir, data, payload, monitor,
                 historyVars>>

(* Faulty variant: a queryset is evaluated before the request's own change.*)
Map_Early(r, part, to) ==
  /\ Goto(r, part, to)
  /\ data' = [data EXCEPT ![r][part] =
                IF SourceOf(part) = KindOf[r] THEN own[r][part] - 1
                                              ELSE db[part]]
  /\ UNCHANGED <<db, own, dirVars, fileVars, payload, monitor,
                 historyVars>>

(* The loops over the contacts and over the monitors.                      *)
Map(r, part, to) ==
  /\ Goto(r, part, to)
  /\ data' = [data EXCEPT ![r][part] = db[part]]
  /\ UNCHANGED <<db, own, dirVars, fileVars, payload, monitor,
                 historyVars>>

MapContacts(r) == Map(r, "contacts", "groups")
MapGroups(r) == Map(r, "groups", "monitors")
MapMonitors(r) == Map(r, "monitors", "close")

(* Faulty variant: ns_tools is called before the file is closed.           *)
CloseFile_Late(r) ==
  /\ Goto(r, "close", "read")
  /\ UNCHANGED <<db, own, dirVars, fileVars, data, payload, monitor,
                 historyVars>>

(* close() writes the buffer, over what another request has written.       *)
CloseFile(r) ==
  /\ Goto(r, "close", "read")
  /\ content' = [content EXCEPT ![file[r]] =
                   IF @ = Empty THEN Config(data[r]) ELSE Mixed]
  /\ UNCHANGED <<db, own, dirVars, file, data, payload, monitor,
                 historyVars>>

(* ns_tools ends before it opens the file: the database does not answer    *)
(* (libDbGet returns NULL, which strlen() cannot take), it has no entry for*)
(* the monitor, or connect() to the controller fails.  do_map does not look*)
(* at the result of the call, here or below.                               *)
ToolFails(r) ==
  /\ Goto(r, "read", "listEnd")
  /\ lost' = ~overlap
  /\ UNCHANGED <<db, own, dirVars, fileVars, data, payload, monitor, overlap>>

(* ns_tools opens the file by its name, and reads it, if it is there.      *)
ToolReads(r) ==
  /\ Goto(r, "read", IF entry = NULL THEN "listEnd" ELSE "send")
  /\ payload' =
       IF entry = NULL THEN payload
                       ELSE [payload EXCEPT ![r] = content[entry]]
  /\ UNCHANGED <<db, own, dirVars, fileVars, data, monitor, historyVars>>

(* It writes the monitor's name and the packet, and does not look at the   *)
(* results: the packet may get lost, here or in the controller.            *)
ToolSends(r) ==
  /\ Goto(r, "send", "listEnd")
  /\ \/ monitor' = payload[r] /\ UNCHANGED lost
     \/ lost' = ~overlap /\ UNCHANGED monitor
  /\ UNCHANGED <<db, own, dirVars, fileVars, data, payload, overlap>>

Request(r) ==
  \/ MakeDir(r) \/ List(r, "list", "remove", "rmdir")
  \/ Remove(r, "remove", "rmdir") \/ RemoveDir(r, "rmdir", "again")
  \/ MakeDirAgain(r)
  \/ Open(r) \/ MapContacts(r) \/ MapGroups(r) \/ MapMonitors(r)
  \/ CloseFile(r)
  \/ ToolFails(r) \/ ToolReads(r) \/ ToolSends(r)
  \/ List(r, "listEnd", "removeEnd", "rmdirEnd")
  \/ Remove(r, "removeEnd", "rmdirEnd") \/ RemoveDir(r, "rmdirEnd", "done")

Next == \E r \in Requests : Save(r) \/ Request(r)

Spec == Init /\ [][Next]_vars

-----------------------------------------------------------------------------
(* Type invariant.                                                         *)
DataType == [Parts -> Nat]
ContentType ==
  {Empty, Mixed} \cup [state : {"whole"}, data : DataType]

TypeOK ==
  /\ db \in DataType
  /\ pc \in [Requests ->
       {"idle", "mkdir", "list", "remove", "rmdir", "again", "open",
        "contacts", "groups", "monitors", "close", "read", "send",
        "listEnd", "removeEnd", "rmdirEnd", "done", "error"}]
  /\ own \in [Requests -> DataType]
  /\ dir \in BOOLEAN
  /\ entry \in Requests \cup {NULL}
  /\ file \in [Requests -> Requests \cup {NULL}]
  /\ content \in [Requests -> ContentType]
  /\ data \in [Requests -> DataType]
  /\ payload \in [Requests -> ContentType]
  /\ monitor \in ContentType
  /\ overlap \in BOOLEAN
  /\ lost \in BOOLEAN

(* The inductive invariant of OwnChangePushed, by parts.  A request is past*)
(* its makedirs when the directory it found is empty or its own.           *)
Past(r) == pc[r] \in {"rmdir", "again", "open", "contacts", "groups",
                      "monitors", "close", "read"}
Writing(r) == pc[r] \in {"contacts", "groups", "monitors", "close"}
NotOpened(r) == pc[r] \in {"idle", "mkdir", "list", "remove", "rmdir",
                           "again", "open"}

AtLeast(d, e) == \A k \in Parts : d[k] >= e[k]

(* A file is named by a request that has opened it.                        *)
FileInv ==
  /\ ~dir => entry = NULL
  /\ \A r \in Requests : NotOpened(r) =>
       entry # r /\ \A q \in Requests : file[q] # r
  /\ \A r \in Requests : Writing(r) => file[r] \in Requests

(* The data only grow.                                                     *)
DataInv ==
  \A r \in Requests :
    /\ AtLeast(db, own[r])
    /\ pc[r] = "idle" => payload[r] = Empty

(* What a request has read so far, while it has not written it.            *)
ReadBy(r) ==
  {k \in Parts : \/ pc[r] = "close"
                 \/ pc[r] = "monitors" /\ k # "monitors"
                 \/ pc[r] = "groups" /\ k = "contacts"}

(* What a request that is past its makedirs finds in the file, or another  *)
(* will still write to it, was read after the request's own change.        *)
FreshInv ==
  \A r, q \in Requests : Past(r) /\ entry # NULL =>
    /\ content[entry].state = "whole" =>
         AtLeast(content[entry].data, own[r])
    /\ file[q] = entry =>
         \A k \in ReadBy(q) : data[q][k] >= own[r][k]

(* Whatever other requests of the user do to the directory meanwhile, a    *)
(* whole configuration that a request pushes has the request's own change, *)
(* and all that came before it.                                            *)
OwnChangePushed ==
  \A r \in Requests : payload[r].state = "whole" =>
    AtLeast(payload[r].data, own[r])

IInv == TypeOK /\ FileInv /\ DataInv /\ FreshInv /\ OwnChangePushed

(* A request ends in an exception after it has changed the database, or    *)
(* pushes less than a whole configuration, only when requests of the user  *)
(* overlap: also a push that fails leaves nothing behind that stops the    *)
(* next request (mapperinterface.py:57-62, 83-86).                         *)
AloneSucceeds ==
  ~overlap => \A r \in Requests :
    /\ pc[r] # "error"
    /\ pc[r] = "send" => payload[r].state = "whole"
    /\ pc[r] = "listEnd" => lost \/ payload[r].state = "whole"

AllEnded == \A r \in Requests : pc[r] \in Ended \cup {"idle"}
SomeDone == \E r \in Requests : pc[r] \in Ended

(* Once no request is at work the directory is gone and the monitor has    *)
(* "the user's newest data" (mapperinterface.py:108), if no two requests   *)
(* overlapped and the push of the last of them did not fail: it makes up   *)
(* for every push before it that failed.                                   *)
NewestPushedAlone ==
  ~overlap /\ AllEnded =>
    /\ ~dir
    /\ SomeDone /\ ~lost => monitor = Config(db)

=============================================================================
