---------------------------- MODULE Interpreter -----------------------------
(***************************************************************************)
(* The configuration files of a monitor (interpreter.c): what a packet     *)
(* with a configuration does to its file and to Nagios.  One thread calls  *)
(* parsePacket, one packet after the other.  A file is a sequence of       *)
(* pieces, each named after the configuration it came from.                *)
(***************************************************************************)
EXTENDS Integers, Sequences, SequencesExt

CONSTANTS
  Type,        (* HOST, SERVICE and CONTACT, each with a file of its own   *)
  Config,      (* configurations                                           *)
  Pieces,      (* their sizes in pieces; that of a packet that claims to   *)
               (* be shorter than a header is -1                           *)
  MaxFd,       (* descriptors the process may still open when it starts    *)
  NONE         (* no file, or no configuration                             *)

ASSUME PiecesAssumption ==
  MaxFd \in Nat /\ Pieces \in [Config -> Int] /\ NONE \notin Config

VARIABLES
  file,        (* per type: the contents, NONE if there is no file         *)
  running,     (* per type: the contents Nagios read when it last started  *)
  open,        (* descriptors that were opened and never closed            *)
  sent,        (* history, per type: the configuration received last       *)
  spoiled,     (* history, per type: it was refused, cut short, or shorter *)
               (* than the file                                            *)
  longest,     (* history, per type: the most pieces written at once       *)
  unread       (* history: Nagios was not restarted since the last write   *)

fileVars == <<file, running, open, sent, spoiled, longest, unread>>

ERR == -1
Whole(c) == [i \in 1..Pieces[c] |-> c]

FilesInit ==
  /\ file \in [Type -> {NONE, << >>}] /\ running = file
  /\ open = 0 /\ sent = [t \in Type |-> NONE]
  /\ spoiled = [t \in Type |-> FALSE] /\ longest = [t \in Type |-> 0] /\ unread = FALSE

(* open() without O_CREAT and O_TRUNC.                                     *)
Opens(t, c) == Pieces[c] >= 0 /\ file[t] # NONE /\ open < MaxFd

(* write() puts n pieces over the beginning of the file.                   *)
Over_Replace(old, c, n) == SubSeq(Whole(c), 1, n)
Over(old, c, n) == SubSeq(Whole(c), 1, n) \o SubSeq(old, n + 1, Len(old))

(* A write that is cut short counts as a success, and the descriptor stays *)
(* open; one that fails closes it.                                         *)
writeFile(t, c, count) ==
  IF Opens(t, c) /\ count # ERR
  THEN /\ count \in 0..Pieces[c]
       /\ file' = [file EXCEPT ![t] = Over(@, c, count)]
       /\ open' = open + 1
       /\ spoiled' = [spoiled EXCEPT ![t] = count < Pieces[c] \/ Pieces[c] < Len(file[t])]
       /\ longest' = [longest EXCEPT ![t] = IF count > @ THEN count ELSE @]
  ELSE /\ count = ERR
       /\ spoiled' = [spoiled EXCEPT ![t] = TRUE]
       /\ UNCHANGED <<file, open, longest>>

(* The service reads every file, or the command fails.                     *)
restartNagios_First == \/ running' = file /\ unread' = FALSE
                       \/ UNCHANGED running /\ unread' = TRUE
restartNagios == \/ running' = file' /\ unread' = FALSE
                 \/ UNCHANGED running /\ unread' = TRUE

(* parsePacket with configHost, configContact or configService.            *)
parsePacket(t, c, count) ==
  /\ writeFile(t, c, count)
  /\ sent' = [sent EXCEPT ![t] = c]
  /\ IF count < 0 THEN UNCHANGED <<running, unread>> ELSE restartNagios

(* The daemon ends and is started again.                                   *)
Restart == open' = 0 /\ UNCHANGED <<file, running, sent, spoiled, longest, unread>>

FilesNext ==
  \/ \E t \in Type, c \in Config : \E n \in ERR..Pieces[c] : parsePacket(t, c, n)
  \/ Restart

FilesSpec == FilesInit /\ [][FilesNext]_fileVars

-----------------------------------------------------------------------------
(* Types of the files, of what Nagios runs, and of the descriptors.        *)
TypeOK ==
  /\ file \in [Type -> Seq(Config) \cup {NONE}]
  /\ running \in [Type -> Seq(Config) \cup {NONE}]
  /\ open \in 0..MaxFd /\ sent \in [Type -> Config \cup {NONE}]
  /\ spoiled \in [Type -> BOOLEAN] /\ longest \in [Type -> Nat] /\ unread \in BOOLEAN

(* Once Nagios has been restarted it runs, of every type, exactly the      *)
(* configuration the monitor received last, unless that one was refused,   *)
(* cut short by write(), or shorter than what the file held.               *)
NagiosCurrent ==
  ~unread => \A t \in Type : sent[t] # NONE /\ ~spoiled[t] => running[t] = Whole(sent[t])

(* A file keeps the length of the longest configuration it ever got:       *)
(* Nagios never runs one that is shorter without the tail of an older one. *)
TailStays ==
  ~unread => \A t \in Type : running[t] # NONE => Len(running[t]) = longest[t]

=============================================================================
