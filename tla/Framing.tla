------------------------------ MODULE Framing ------------------------------
(***************************************************************************)
(* A configuration packet on its way from an ns_tool to the interpreter of *)
(* a monitor: newPacket and listenPackets of lib.c, the second half of     *)
(* wrpNorth of cconnection.c, and the two writes of pushConfigFile.        *)
(*                                                                         *)
(* The connections are byte streams: a read() returns what has arrived, at *)
(* most what it asks for, and the code calls it once for a header and once *)
(* for a payload.  A packet is a header of H bytes and a payload.  A byte  *)
(* is <<t, i>>, the i-th byte of the packet of tool t; the first is the    *)
(* magic number, the second the length field, a number below Width.        *)
(* Configurations are text, which never contains the magic number; read as *)
(* a length their bytes are any number, like memory never written (Junk).  *)
(***************************************************************************)
EXTENDS Naturals, Sequences, FiniteSets, SequencesExt

CONSTANTS
  Tools,    (* the ns_tools; each pushes one file through its own handler  *)
  Size,     (* the size of each tool's file                                *)
  H,        (* sizeof(struct Packet)                                       *)
  Width,    (* the number of values of the field len                       *)
  SndBuf,   (* the bytes the connection to the monitor takes in            *)
  Monitor,  (* the name of that connection                                 *)
  NULL      (* no tool                                                     *)

ASSUME FramingAssumption ==
  /\ IsFiniteSet(Tools)
  /\ Monitor \notin Tools /\ NULL \notin Tools
  /\ Size \in [Tools -> Nat]
  /\ H \in Nat \ {0, 1}
  /\ Width \in Nat /\ Width > H
  /\ SndBuf \in Nat \ {0}

Streams == Tools \cup {Monitor}
Junk == <<NULL, 0>>
Bytes == (Tools \X Nat) \cup {Junk}

VARIABLES
  stream,      (* the bytes written to a connection and not yet read       *)
  here,        (* how many of them have arrived                            *)
  tool,        (* each tool: "push" or "closed"                            *)
  relay,       (* each wrpNorth: "header", "payload", "write" or "done"    *)
  len,         (* its packet.len                                           *)
  buffer,      (* its forward_buffer, then what it has yet to write        *)
  controller,  (* "up" or "dead"                                           *)
  monitor,     (* listenPackets: "header", "payload" or "dead"             *)
  header,      (* the header it has read                                   *)
  handed,      (* what it handed to parsePacket                            *)
  short,       (* history: a read() returned less than it was asked for    *)
  split        (* history: a write() was split by another                  *)

wireVars == <<stream, here>>
relayVars == <<relay, len, buffer, controller>>
monitorVars == <<monitor, header, handed>>
vars == <<wireVars, tool, relayVars, monitorVars, short, split>>

LeastOf(m, n) == IF m <= n THEN m ELSE n
FirstOf(s, n) == SubSeq(s, 1, LeastOf(n, Len(s)))
AfterOf(s, n) == SubSeq(s, n + 1, Len(s))

(* The bytes a buffer of n bytes has when only those of s were set.        *)
Padded(s, n) == [i \in 1..n |-> IF i <= Len(s) THEN s[i] ELSE Junk]

(* newPacket: the sum is kept in the sixteen bits of header.len, so of a   *)
(* packet that does not fit only the remainder is sent.                    *)
PacketLen(t) == (Size[t] + H) % Width
Fits(t) == Size[t] + H < Width
PacketOf(t) == [i \in 1..(Size[t] + H) |-> <<t, i>>]
Pushed(t) == SubSeq(PacketOf(t), 1, PacketLen(t))

(* The numbers a header's length field may be read as.                     *)
LenField(h) ==
  IF h[2][2] = 2 THEN {PacketLen(h[2][1])} ELSE 0..(Width - 1)

(* read(s, n): blocks until something is there or the other end has closed.*)
Ready(s, n) ==
  \/ n = 0
  \/ here[s] > 0
  \/ s \in Tools /\ tool[s] = "closed" /\ stream[s] = << >>

Read(s, n) == SubSeq(stream[s], 1, LeastOf(n, here[s]))

Consume(s, n) ==
  /\ stream' = [stream EXCEPT ![s] = AfterOf(@, Len(Read(s, n)))]
  /\ here' = [here EXCEPT ![s] = @ - Len(Read(s, n))]

ReadShort(s, n) == short' = (short \/ Len(Read(s, n)) < n)

Init ==
  /\ stream = [s \in Streams |-> << >>]
  /\ here = [s \in Streams |-> 0]
  /\ tool = [t \in Tools |-> "push"]
  /\ relay = [t \in Tools |-> "header"]
  /\ len = [t \in Tools |-> 0]
  /\ buffer = [t \in Tools |-> << >>]
  /\ controller = "up"
  /\ monitor = "header"
  /\ header = << >>
  /\ handed = << >>
  /\ short = FALSE
  /\ split = FALSE

-----------------------------------------------------------------------------
(* The network delivers some more bytes.                                   *)
Arrive(s) ==
  /\ \E n \in (here[s] + 1)..Len(stream[s]) : here' = [here EXCEPT ![s] = n]
  /\ UNCHANGED <<stream, tool, relayVars, monitorVars, short, split>>

(* pushConfigFile writes header.len bytes of the packet, and closes.       *)
Push(t) ==
  /\ tool[t] = "push"
  /\ tool' = [tool EXCEPT ![t] = "closed"]
  /\ stream' = [stream EXCEPT ![t] = Pushed(t)]
  /\ UNCHANGED <<here, relayVars, monitorVars, short, split>>

-----------------------------------------------------------------------------
(* wrpNorth.  The result of read() is not looked at: what it did not fill  *)
(* is whatever the stack had.                                              *)
RelayHeader(t) ==
  /\ controller = "up"
  /\ relay[t] = "header"
  /\ Ready(t, H)
  /\ Consume(t, H)
  /\ ReadShort(t, H)
  /\ LET h == Padded(Read(t, H), H) IN
       /\ buffer' = [buffer EXCEPT ![t] = h]
       /\ \E n \in LenField(h) : len' = [len EXCEPT ![t] = n]
  /\ relay' = [relay EXCEPT ![t] = "payload"]
  /\ UNCHANGED <<tool, controller, monitorVars, split>>

(* Faulty variant: the payload is read with the length of the packet.      *)
RelayPayload_Len(t) ==
  LET n == len[t] IN
  /\ controller = "up"
  /\ relay[t] = "payload"
  /\ Ready(t, n)
  /\ Consume(t, n)
  /\ ReadShort(t, n - H)
  /\ buffer' = [buffer EXCEPT ![t] = Padded(@ \o Read(t, n), n + H)]
  /\ relay' = [relay EXCEPT ![t] = "write"]
  /\ UNCHANGED <<tool, len, controller, monitorVars, split>>

(* A length of at least H: the buffer has len bytes, read() fills some.    *)
RelayPayload(t) ==
  LET n == len[t] - H IN
  /\ controller = "up"
  /\ relay[t] = "payload"
  /\ len[t] >= H
  /\ Ready(t, n)
  /\ Consume(t, n)
  /\ ReadShort(t, n)
  /\ buffer' = [buffer EXCEPT ![t] = Padded(@ \o Read(t, n), len[t])]
  /\ relay' = [relay EXCEPT ![t] = "write"]
  /\ UNCHANGED <<tool, len, controller, monitorVars, split>>

(* A smaller one: the header does not fit in the buffer, and the size for  *)
(* read() wraps around, so it takes all there is.  That ends the process   *)
(* or goes unnoticed.                                                      *)
RelayOverrun(t) ==
  /\ controller = "up"
  /\ relay[t] = "payload"
  /\ len[t] < H
  /\ \/ controller' = "dead" /\ UNCHANGED <<relay, buffer, wireVars>>
     \/ /\ Ready(t, H)
        /\ Consume(t, here[t])
        /\ buffer' = [buffer EXCEPT ![t] = FirstOf(@, len[t])]
        /\ relay' = [relay EXCEPT ![t] = "write"]
        /\ UNCHANGED controller
  /\ short' = TRUE
  /\ UNCHANGED <<tool, len, monitorVars, split>>

(* The handler is inside a write() of which a part has gone out.           *)
Midway(t) ==
  relay[t] = "write" /\ buffer[t] # << >> /\ Len(buffer[t]) < len[t]

(* write() puts as much as fits, waits, and goes on; meanwhile the write() *)
(* of another handler may get in.                                          *)
RelayWrite(t) ==
  LET room == SndBuf - Len(stream[Monitor])
      rest == AfterOf(buffer[t], room)
  IN
  /\ controller = "up"
  /\ relay[t] = "write"
  /\ room > 0
  /\ stream' = [stream EXCEPT ![Monitor] = @ \o FirstOf(buffer[t], room)]
  /\ buffer' = [buffer EXCEPT ![t] = rest]
  /\ relay' = [relay EXCEPT ![t] = IF rest = << >> THEN "done" ELSE @]
  /\ split' = (split \/ \E u \in Tools \ {t} : Midway(u))
  /\ UNCHANGED <<here, tool, len, controller, monitorVars, short>>

WrpNorth(t) ==
  RelayHeader(t) \/ RelayPayload(t) \/ RelayOverrun(t) \/ RelayWrite(t)

-----------------------------------------------------------------------------
(* listenPackets.                                                          *)
(* Faulty variant: the test for a short header takes full ones, too.       *)
IsHeader_OffByOne(h) == Len(h) > H /\ h[1][2] = 1

(* A whole header with the magic number.                                   *)
IsHeader(h) == Len(h) = H /\ h[1][2] = 1

(* "Packet Corrupted": the bytes that were read are dropped.               *)
ListenCorrupted ==
  /\ monitor = "header"
  /\ here[Monitor] > 0
  /\ ~IsHeader(Read(Monitor, H))
  /\ Consume(Monitor, H)
  /\ ReadShort(Monitor, H)
  /\ UNCHANGED <<tool, relayVars, monitorVars, split>>

(* A length below H makes datalen negative, and memcpy a huge copy.        *)
ListenHeader ==
  LET h == Read(Monitor, H) IN
  /\ monitor = "header"
  /\ here[Monitor] > 0
  /\ IsHeader(h)
  /\ Consume(Monitor, H)
  /\ \E n \in LenField(h) :
       /\ monitor' = IF n < H THEN "dead" ELSE "payload"
       /\ header' = [bytes |-> h, len |-> n]
  /\ UNCHANGED <<tool, relayVars, handed, short, split>>

(* One read() for the payload, and on to parsePacket.                      *)
ListenPayload ==
  LET n == header.len - H IN
  /\ monitor = "payload"
  /\ Ready(Monitor, n)
  /\ Consume(Monitor, n)
  /\ ReadShort(Monitor, n)
  /\ handed' = Append(handed,
                 Padded(header.bytes \o Read(Monitor, n), header.len))
  /\ monitor' = "header"
  /\ UNCHANGED <<tool, relayVars, header, split>>

ListenPackets == ListenCorrupted \/ ListenHeader \/ ListenPayload

-----------------------------------------------------------------------------
Next ==
  \/ \E s \in Streams : Arrive(s)
  \/ \E t \in Tools : Push(t) \/ WrpNorth(t)
  \/ ListenPackets

Spec == Init /\ [][Next]_vars

(* The network delivers what was written, and the threads run.             *)
Fairness ==
  /\ \A s \in Streams : WF_vars(Arrive(s))
  /\ \A t \in Tools : WF_vars(WrpNorth(t))
  /\ WF_vars(ListenPackets)

FairSpec == Spec /\ Fairness

-----------------------------------------------------------------------------
(* What the interpreter is given "indicated by the header" (lib.c:90) is   *)
(* always the packet of some tool, whole unless its length did not fit.    *)
Intact ==
  \A i \in DOMAIN handed : \E t \in Tools :
    handed[i] = IF Fits(t) THEN PacketOf(t) ELSE Pushed(t)

(* What listenPackets has handed over, what it has read of the next packet,*)
(* what is on the stream and what a write() in progress will add.          *)
Passage ==
  FlattenSeq(handed)
    \o (IF monitor = "payload" THEN header.bytes ELSE << >>)
    \o stream[Monitor]
    \o (IF \E t \in Tools : Midway(t)
          THEN buffer[CHOOSE t \in Tools : Midway(t)]
          ELSE << >>)

Orders == UNION {[1..n -> Tools] : n \in 0..Cardinality(Tools)}

(* While every read() returned all it was asked for and no write() was     *)
(* split, the bytes between the controller's handlers and the interpreter  *)
(* are packets as they were pushed, each of another tool, in some order;   *)
(* listenPackets skips nothing and no length makes a process fail.         *)
WholePackets ==
  ~short /\ ~split =>
    /\ controller = "up" /\ monitor # "dead"
    /\ Intact
    /\ \E o \in Orders :
         /\ IsInjective(o)
         /\ Passage = FlattenSeq([i \in DOMAIN o |-> Pushed(o[i])])

(* In that case every packet that was pushed reaches the interpreter.      *)
Delivered ==
  \A t \in Tools : tool[t] = "closed" ~>
    \/ short \/ split
    \/ \E i \in DOMAIN handed : handed[i] = Pushed(t)

=============================================================================
