# Nagios Service: a verification project

TLA+ models of the Nagios Service, the TLC runs that check them and the
theorems TLAPS proves about them. Paths without a directory are in
`north_south/src/`, the Java files in
`cassandra-client/nagios-cassandra-client/src/main/java/`, the Python files in
`controlserver/servicelevelinterface/`, and the `cfu...` files in
`dep/libcfu-0.03/src/`.

## The system

A user describes monitors and contacts at a Django site. Every change is turned
into a Nagios configuration and pushed to the user's monitoring server, which
sits behind a connection it opened itself:

```
 browser --REST--> control server --(ns_tools)--> controller <--TCP-- monitor --> Nagios
                        |                |            |
                        |                +-- get --+  +-- put --+
                        v                          v  v
                  its own database            database daemon --> Cassandra
```

| part | source | state it keeps | operations |
|---|---|---|---|
| Control server, mapper interface | `views.py`, `mapperinterface.py` | the user's data, the directory `/tmp/<user>/` and its file | save, map, call `ns_tools`, remove |
| ns_tools | `tools.c` | none | look the controller up, send a name and a packet |
| Controller connections | `cconnection.c` | descriptor table, `controller_map`, the accept loops' `fd`, one thread per connection | accept, handshake, identify, relay, close |
| Packets | `lib.c`, `cconnection.c` | the byte streams, what each reader has read of a packet | `newPacket`, `listenPackets`, the relay |
| Interpreter | `interpreter.c` | Nagios' files, the map's entries | `parsePacket` and a handler per type |
| Database client | `lib.c` | one socket per call | `libDbGet`, `libDbPut` |
| Database daemon | `Server.java`, `ServerThread.java`, `Protocol.java`, `CassandraClient.java` | the table `control_servers`, a thread and a session per connection | get, put, update, delete, init |
| Start of the daemons | `controller.c`, `monitor.c`, `cconnection.c`, `mconnection.c` | the processes and the ports they bound | fork, bind, listen, connect |
| Monitor spool | `mbuffer.c` | a linked list, two mutexes | `QAddData`, `QSpoolData` |
| Hash table | `cfuhash.c` | buckets with chains, a counter, an iterator, one mutex | put, get, delete, clear, rehash, iterate, copy, merge |
| List and work queue | `cfulist.c`, `cfuthread_queue.c` | a doubly linked list with an iterator; a worker, requests with a mutex and a condition each | both ends, walks, iteration; request, serve, destroy |
| Option parser | `cfuopt.c` | the options by name, the arguments left over | add an option, parse, parse again |
| Configuration files | `cfuconf.c` | nested containers with directives, the stack of open ones | parse, look up |

How they interact: a monitor connects to the controller, gets a HELLO packet,
puts an IDENT packet with its name into its spool and the spool thread writes it.
The controller enters name -> descriptor in `controller_map` and name -> its own
address in the database. `ns_tools` asks the database for the controller of a
name, connects to its north port, and sends the name, a newline and a packet; the
controller's handler looks the name up and writes the packet to the descriptor it
finds. The monitor's interpreter writes the file and restarts Nagios.

The last four rows are the vendored library libcfu 0.03. `controller_map` is one
of its hash tables, used by every handler of the controller; the two readers are
built from hash tables and lists, the work queue from a list. The controller calls
nothing else of it; the rest is modelled as the library it is, for any program that
uses it the way its headers say.

What is hard about it, and impossible to see in a unit test: threads that share a
variable by address (`cconnection.c:117`), a mutex used as a semaphore and
released too early (`mbuffer.c:57`), descriptor numbers that outlive their
connection (`cconnection.c:215`), short reads and split writes (`lib.c:112`,
`cconnection.c:212`), two copies of each daemon (`controller.c:94`), database
failures nobody looks at (`interpreter.c:111`), files that are opened without
being emptied (`interpreter.c:211`), requests of one user that share a directory
(`mapperinterface.py:57`), counters that are read after their lock was released
(`cfuhash.c:457`), a wait on a condition that is not repeated
(`cfuthread_queue.c:133`), and an argument vector that is overwritten in place
(`cfuopt.c:282`). `PROJECT.json` lists these hazards
with the line each bites at and the properties that are about it.

## Modules

Definitions keep the names of the functions they model; `PROJECT.json` maps each
to its lines. An operator named after another one, with the mistake in it after an
underscore (`Unlinked_KeepPointer`, `Save_Undo`), is no part of a specification: it
is a plausible mistake in the definition that follows it, used to make sure that a
property would notice.

* `MBuffer` - the spool. Each action is what a thread does between two lock
  operations; `pc` is the place in the function, `heap` what a cell of the heap
  is used for, so that a freed element may be handed out again. A packet is its
  ticket, its place in the order of linking. `SpoolFifo` is what the file's first
  comment promises, an ordered queue that sends or gives up each packet; the two
  are connected by the refinement `FifoSpec` (`done <- Done`: a packet has left
  as soon as its `write()` has returned). The other threads of the monitor appear
  only as callers of `QAddData`.
* `Controller` - the descriptor table, both accept loops, a handler per
  connection, `controller_map`, the database as the set of names it has for this
  controller, and the peers (monitors that may be silent, tools that may be
  killed at any point). A handler is named by the connection it was created for;
  `At(c)` is the connection its descriptor refers to now. A new thread reads its
  descriptor from the loop's own variable, and whatever `accept()` returns next goes
  there first: another connection's descriptor, or the -1 of a failure, which is 0 in
  the model. Streams are sequences of tokens. The history variables `raced`, `owner`,
  `route`, `missed` and `delivered` record what the properties are about and no guard reads them.
* `Framing` - one level below `Controller`: the bytes of a packet from the tool
  through the relay to the interpreter. A `read()` returns any non-empty part of
  what was written, a `write()` fills the send buffer and goes on when there is
  room. Bytes are pairs of their packet and their place; bytes nobody wrote are
  `Junk`, and a length field taken from the wrong place is any number.
* `Startup` - one level above: both processes of the controller, both processes
  of every monitor, who has which port, and one step for a registration or a push.
* `Directory` - the calls of `libDbPut` and `libDbGet`, a thread of the daemon
  for each, Cassandra and the daemon failing at any step.
* `Mapper` - the requests of one user, each step a system call on the shared
  directory or a query. A configuration is known by how recent each of its parts
  is: the contacts, the group of all contacts (a query of its own) and the
  monitors. `ns_tools` may end before it reads the file or connects, and what it
  sends may be lost further on; the request notices neither. `lost` and `overlap`
  are history. A configuration is small enough to stay in the file object's buffer
  until `close()`; one that is larger could also be read in part, which is the
  case `Mixed` of the model.
* `Interpreter` - the three files of Nagios, a packet at a time: a file is the
  sequence of the pieces in it, each named after its configuration, so that a write
  over a longer file leaves a visible tail. `write()` may fail or stop at any
  piece, the descriptor it used is never closed, Nagios may not come back, and the
  daemon may be restarted. `sent`, `spoiled`, `longest` and `unread` are history.
* `HashTable` - threads that share one table. What a function does under the lock
  is one action; the two counters it reads after the unlock to decide about a
  rehash are two more, in either order. A chain is the set of its entries: nothing
  a caller can rely on depends on their order, so a walk may meet them in any, and
  a walk that stops early in fewer. `Dictionary` is the map it promises, connected
  by the refinement `MapSpec`; it is what `Controller` takes for granted.
* `List` - the entries with both pointers, the head, tail, counter and iterator of
  `cfulist.c`; what a walk along `next` meets is `From`. An answer is recorded with
  the number that was asked for. `Deque` is the sequence with one iteration that the
  header promises (`DequeSpec`): the data of the nth entry is that of the very n
  asked for. The header also promises its size, which the code gets wrong, so
  `Deque` leaves the size of an nth entry open. `ThreadQueue` extends `List` with
  the worker, the clients and the end of the queue; each mutex and condition
  variable of the code is a place (`at`, `worker`) and a field of the request.
* `Options` and `Configuration` - the two parsers, an argument or a line per
  action, each compared with a definition of what its input means that has neither
  loop nor stack. `Meant` is the meaning of every well-quoted value, `Promised` says
  for which the code is held to it, and `FindsLast` is about lookups of one value.
  `Settings` composes the two to a program that reads its command line and then the
  file an option names.

`MC...` modules give the constants values for TLC; `...Proofs` modules hold the
theorems of the module they are named after. `PacketProofs` has those of `Framing`
and `Interpreter`, the two modules a packet goes through, and `StartProofs` those of
`Startup` and `Settings`, what a program does before it serves anybody; the initial
states, steps and specifications of `Interpreter` and `Settings` have names of their
own (`FilesInit`, `ReadInit` and so on) so that one module can extend both.

The modules overlap where one abstracts another: a packet is one token in
`Controller` and bytes in `Framing`; binding the ports is assumed in
`Controller` and modelled in `Startup`; the reply of the database is a
nondeterministic success in `Controller` and a protocol in `Directory`;
`parsePacket` is one byte-level hand-over in `Framing` and the change of a file in
`Interpreter`; the map of the controller is `Dictionary`, implemented by
`HashTable`.

## Runs

| run | shows |
|---|---|
| `mbuffer_spool` | two producers, three cells, three calls: the list is one chain, packets are written in order and at most once, the null dereference needs a `QAddData` between its two locks, an announcement moves at least one packet, `QAddData` returns, and the spool implements `SpoolFifo` |
| `controller_safety` | two monitors, a tool, four descriptors and a restart: handlers own their descriptors, none is lost, a lookup misses only for a mangled name, and a packet goes to the right monitor while that one is connected |
| `controller_progress` | a monitor and two tools: a monitor is greeted and a tool is answered |
| `controller_stream` | violated: a packet goes to another monitor |
| `framing_packets` | between handlers and interpreter there are whole packets, and each arrives, as long as no read was short and no write split |
| `startup_two_processes` | a lookup misses only when the two processes share the ports; both ports are served |
| `directory_calls` | without a failure or an overlap the table is current and a tool finds only what was put; whatever fails, calls end and tools' threads end |
| `mapper_requests` | a whole configuration contains its request's own change; without an overlap no request ends in an exception, and at the end the monitor has the newest data unless the last push was lost |
| `interpreter_files` | after a restart Nagios runs the last configuration unless it was refused, cut short or shorter than the file; a file never gets shorter |
| `hash_table` | entries are in the chain of their hash after any rehash, a table that is too full does not stay so, a copy has what was there all the time, and the operations are those of a map |
| `work_queue` | the list is right from both ends and is a deque, sizes of nth entries apart; a call gets its own answer, no signal is lost, and destroying the queue ends |
| `settings` | a command line and a file are understood as they are written, a lookup of one value finds what the file says last, and `argv` is never overrun by the first parse |

The violated property states what a comment of the source says; the finding in
`PROJECT.json` quotes it. `RightWhileConnected` says under which condition the
promise is kept, and this one holds.

The same is so, without a run of its own, wherever a property below has a
condition in it. The models have these behaviours, because the code has them:

* the last packet of a spool may wait until another one is added (an addition
  opens the gate before it links, `mbuffer.c:57`, so two additions may open it once
  and the spool close it behind the first); `GateServed` is what is left of the promise;
* a short read or a split write puts a packet together with bytes of another one
  (`lib.c:112`, `cconnection.c:212`), hence the condition of `WholePackets`;
* a connected monitor is not reached when the two processes share the ports;
* an `accept()` that fails, for want of a descriptor for instance, stores -1 where
  the thread of the connection before it may have yet to read its own
  (`cconnection.c:108`, `:143`): that thread serves nobody and its descriptor is
  never closed (`raced` in `OwnDescriptor`, `NoDescriptorLost`);
* a packet for a monitor that stays connected and does not read holds up its handler
  in `write()` for ever (`cconnection.c:215`), and the tool gets no answer
  (`MayBlock` in `ToolAnswered`);
* overlapping requests leave a monitor with an older configuration or none, and so
  does an `ns_tools` whose lookup, connection or push fails (`tools.c:108-131`):
  its result is dropped (`mapperinterface.py:83`) and the request succeeds (`lost` in
  `NewestPushedAlone`);
* a configuration that is shorter than the file leaves a tail (`TailStays`);
* `cfuopt_parse` writes past the end of `argv` when it is called again, because
  the arguments left over by the first call are kept (`ParsedAsMeant`);
* a container that is not closed is accepted, and a closing tag at the top level
  reads through a null pointer (`NestedAsWritten` speaks of neither);
* a client that is woken for no reason takes an answer that is not there and
  destroys the request that the worker still has (`OwnAnswer`);
* a queue without a cleanup function crashes when it is destroyed
  (`DestroyEnds`), and a cell freed under an iteration is read (`Deque`'s `lost`).

Three promises of libcfu's headers are broken for every input of their kind, not
under a condition. They are left out of the properties that would otherwise contain
them, and nothing here should be read as saying that they hold:

* a quoted value that is empty or ends in an escaped quote is not found, which
  `cfuconf.h:81` allows (`Promised` leaves it out of `NestedAsWritten`);
* a lookup of several values returns the second one in place of each
  (`cfuconf.c:223`), where `cfuconf.h:112-117` promises them all (`FindsLast` leaves
  it out; `cfuconf_get_directive_n_args` is modelled as it is);
* `cfulist_nth_data` gives the size of the first entry (`cfulist.c:311`), where
  `cfulist.h:116-119` promises that of the nth (`Deque` leaves it open;
  `cfulist_nth_data` of `List` is modelled as it is).

The conditions in the names of other properties are needed as well, each for a
behaviour of the code: the spool may find its list empty (`CrashWindow`), a new
thread may find another connection's descriptor, or that of a failed `accept()`
(`GreetedUnlessRaced`), a name may be mangled on its way into the map
(`MissOnlyIfMangled`), one process may accept the monitors and the other the tools
(`MissOnlyIfSplit`), a put may fail unnoticed and a failed lookup end the tool
(`CurrentUnlessFailed`, `SoundUnlessFailed`).

### Bounds

* Two producers and three cells: one cell held by each producer and one linked,
  or the spool freeing a cell that a producer gets again. Three calls: a gate
  opened twice while the spool is past it, and a packet after that.
* Two monitors and one tool, or one monitor and two tools: each race of
  `Controller` is between two threads, and its third party is the connection that
  loses. Four descriptors in `controller_safety`, three connections and one socket of
  the database, and three in `controller_progress`: the table fills up in both, so
  `accept()` also fails. One restart: an empty map and a database that is not.
* A header of two bytes, five values of the length field and a send buffer of
  three bytes, against packets of four bytes and of eight, of which the length field
  has room for three: one that fits the buffer and one that does not, one that is
  sent whole and one that is not. Two tools: a split write needs two.
* Two monitors and two tools with different targets in `Startup`.
* Two puts and a get for one monitor in `Directory`: an overlap and a reader.
* Three requests in `Mapper`, one of each kind: two that share a file and one that
  removes it.
* Two files and configurations of one piece, of three and malformed, in
  `Interpreter`: longer, shorter and equal to what the file holds, cut at every
  place. `MaxFd` is three, so descriptors run out.
* Two threads and three keys in `HashTable`, of which two are one key in a table that
  ignores case and the third shares their chain in a table of two buckets and not in
  one of four. `MaxEntries` is two, which fills tables of one and two.
* Two clients and three cells in `ThreadQueue`: a request in the list while another
  is served, and a list of its own that gets full. `MaxEarly` is one: the first
  wake-up for no reason is all the difference, as the properties no longer promise
  anything after it.
* Three arguments (`MaxArgs`): an option, its value and what follows. Two calls of
  `cfuopt_parse` (`MaxCalls`): the second one gets what the first has left. Four
  lines (`MaxLines`): a tag inside another and what follows, or two tags that differ
  in case, and the directives in and after them.

### Fairness

Weak fairness of every thread of the programs: they are preemptively scheduled and
none waits for another except at the locks and calls that are modelled. A mutex
that stays wanted is in the end free for good, because calls are bounded, so no
strong fairness is used. An accept loop goes on whether its `accept()` gives a
descriptor or fails, so the two together are fair. A handler of the controller is
fair except while it is in a `write()` of a packet to a connection that is up
(`MayBlock`). The network delivers what was written (`Framing`). A tool
closes its connection in the end (`pushConfigFile` has no loop that waits). In
`ThreadQueue` a thread that has been signalled wakes up and a worker that is
cancelled while it waits ends; the program's own functions run in finite time. A
wake-up for no reason is never owed. Nothing is assumed
of monitors, which may neither write nor read, of callers, who need not call, of Cassandra,
which need not come back, nor of whoever restarts a daemon.

## Proofs

For every value of the constants that satisfies the module's assumption:

* `MBufferProofs`: `IInv` is invariant. Its parts are the types, mutual exclusion,
  who owns which cell, the chain (the linked cells hold the tickets
  `spooled+1..added`, and `next` leads from each ticket to the following one), the
  wire and the gate. `ListIntact`, `InOrderOnce` and `CrashWindow` follow.
  `ListIntact` alone is not inductive: that the spool's element is still the head
  when it shifts needs mutual exclusion, and that a producer does not link a cell
  twice needs ownership. `ImplementsFifo` maps every step to a step of `SpoolFifo`
  or to a stutter, from the same invariant.
* `ControllerProofs`: `IInv` has ten parts. `OwnDescriptor` needs to know where a
  new thread's descriptor is before the thread has copied it (`StartInv`, up to the
  moment when a connection or a failure overwrites it) and that
  every descriptor in use has one handler (`NoDescriptorLost`), else a close could
  hit another's. `RightWhileConnected` follows from what every entry of the map
  (`MapInv`), every route taken from it (`RouteInv`) and every delivery
  (`DeliveredInv`) owes to the monitor that made it. `DbInv` is the order of map
  and database that `MissOnlyIfMangled` rests on.
* `StartProofs`: what a program does before it serves anybody. What has been bound,
  and by whom, before anybody listens (`BoundInv`), and that the database has only
  names in the map of the process with the south port (`RegInv`), give
  `MissOnlyIfSplit`. `ParsedAsMeant` speaks of the end of the first call; on the way
  there (`ParseInv`) what is left over and what the variables have is what the
  arguments before the present one mean, and the present one is not a value that
  the option before it has taken. Nothing is left over that was not an argument,
  so argv has room for it. `NestedAsWritten` compares a reader with a stack to a
  definition that counts: a line is inside a tag unless some line in between has
  balanced it. The invariant (`ReadInv`) says that the stack and the present
  container are the tags around the next line (`TreeInv`), and what that takes: from
  each tag that is open on, there are as many more opening than closing tags as tags
  are still open (`NoTag`, `NewTag`, `LastTag` are its three cases), so that a
  closing tag balances the last of them and no other. What was around a line that
  has been read never changes (`AroundStays`). That the numbers of a finite set have
  an order is proved as well (`InOrderIs`), and that a well-quoted text is cut at its
  last quote and loses no character but its escapes (`Understands`), for the values
  that are `Promised`.
* `MapperProofs`: `OwnChangePushed`. A request is past its `makedirs` from a moment
  when there was no file; whatever the file gets later was read later
  (`FreshInv`), and data only grow (`DataInv`). A second invariant, `AloneInv`,
  says what directory, file and monitor are like at each place of the one request
  that is under way (`Stage`) and after the last one (`Left`), as long as no two
  have overlapped; `AloneSucceeds` and `NewestPushedAlone` follow. A failing `ns_tools`
  leaves the request where a sent packet does; what `Left` then says of the monitor
  needs `lost`.
* `DirectoryProofs`: while nothing has failed, a call and its thread are in step
  (`UpInv`), every address on its way, in the table or returned was sent by some
  controller (`ToldInv`), and among puts that do not overlap the latest decides
  (`PutInv`). `CurrentUnlessFailed` is `PutInv` when no put is left.
* `PacketProofs`: for packets of any size, headers and length fields included.
  `WholePackets` says that there is some order of tools, and is not inductive: it
  says neither where in that order the monitor is nor what a handler holds. The
  invariant (`WireInv`) names the order, that in which the handlers began to write,
  and cuts it in two (`InOrder`): the packets of the first part are what was handed
  over, those of the second, laid end to end, are what the reader has of the header
  it is at, the stream, and what the one handler inside a `write()` has left. A
  handler that begins to write adds itself to the second part, a hand-over moves
  the first of the second part to the first. What a handler holds at each of its
  places (`ToolInv`) says that the header it reads is that of a packet, so its
  length is that packet's; what the reader sees is then the beginning of the first
  pending packet. That `FlattenSeq` lays sequences end to end is itself proved, by
  an induction over the places of the sequence (`FlattenConcat`, `FlattenFirst`).
  A configuration too long for the length field is part of it: its packet is
  shorter than its file, and `WholePackets` says by how much.
  `NagiosCurrent` needs to know that the file itself is current (`FileCurrent`) and
  that Nagios has read it unless a restart is due (`HasRead`); a lemma says what a
  write over a sequence leaves.
* `HashTableProofs`: `OverfullNoticed`, the argument that a test made without the
  lock is good enough. What a thread has read of the counters is never less than
  what it will be measured by: whoever raises `entries` afterwards makes the test
  as well. It needs only the counters and the places of the threads, so it holds for
  any number of threads, keys and sizes for which `hash_size` is defined.
  `TableInv` adds what the table is made of: `WellLinked` with the types and
  finiteness of the chains, without which the counter says nothing about them.
  `CopyInv` says that a key is still to be copied, has been copied, or was absent
  at some moment since the copy began; the list of keys that a copy starts from is
  complete because the counter is never less than the entries. `EachInv` says that
  an iteration under the lock has met each key behind it once and none of those
  ahead. From the three of them every action maps to an operation of the map
  (`IsADictionary`): a rehash, whose chains are all new, to nothing at all.
* `ThreadQueueProofs`: the pointers of the list. `LInv` says that there is one
  sequence of distinct cells which `next` and `prev`, head, tail and counter all
  follow, for every operation and any number of cells; `BothWays` is that. On it
  rests where a request is (`OnePlace`: in the list or with the worker, once), and on
  that `OwnAnswer`. `IsADeque` needs to know where a walk leads: from the cell at
  place i of that sequence it meets the data of the cells from i on and then `NULL`
  (an induction over the steps of the walk, which the lemma `NatSetInduction` makes
  possible for sets of numbers), and the iterator is at some place of the sequence,
  or past its end, unless its cell was freed. The answers with a number are compared
  with what the deque has at that number. Removing either end, adding at either
  end and moving the iterator are then what they are for the deque.

Every inductive invariant was first checked by TLC as an invariant of the runs'
instances. The proofs rest on the modules' named assumptions and the library's facts on
finite sets, functions and sequences, on nothing else. The assumptions say that a
model value used as `NULL` is none of the values it is told apart from (threads,
cells, records), that sizes and bounds are numbers, that there are finitely many
tools and a header holds at least the two fields that are looked at, that every
table size asked for exists, that the texts of lines are sequences, and that a quote
is no escape.

Only model-checked: all liveness (`GateServed`, `AddReturns`, `GreetedUnlessRaced`,
`ToolAnswered`, `Delivered`, `BothServed`, `CallsEnd`, `ToolThreadsEnd`,
`RequestAnswered`, `DestroyEnds`), which the prover cannot do under fairness. All
other properties of the passing runs are theorems.

## Not modelled

* Wording: the text of configurations, log messages, usage.
* update, delete and init of the database daemon (no caller in the repository); the
  names and addresses on the line protocol are single values, so a reply in pieces
  (`lib.c:254`) is not seen.
* Of the hash table: flags and thresholds changed while it is in use,
  `CFUHASH_NO_LOCKING`, iteration without the lock (the header asks for it),
  bencode and printing. Of the option parser, the help text; of the configuration
  reader, printing; both only read. `cfustring.c`, `cfutime.c`, `cfu.c`: formatting.
* A failure to create the worker of a queue, and `cfulist_pop` of a list that is
  NULL.
* Django's models, serializers and settings, the stand-alone `mapper/mapper.py`,
  the older copies in `cassandra-client/`, `log.c`, the install scripts and the
  archives: declarations, pure input and output, or not part of the running system.
* Checksums: every comparison in the code is a stub that returns true, so a
  packet is never dropped for one.

## Plan

Done, in this order: `MBuffer` with `SpoolFifo`, `Controller`, `Framing`,
`Startup`, `Directory`, `Mapper`, `Interpreter`, `HashTable` with `Dictionary`,
`List` with `Deque`, `ThreadQueue`, `Options` and `Configuration` with `Settings`;
and proofs of all safety properties. Left, the most useful first:

1. `Push`: a request of `Mapper` composed with `Directory`, `Controller` and
   `Interpreter`, with "the newest configuration of a user reaches the user's
   Nagios" as the abstract specification and the conditions the single modules have
   found.
2. `Monitor`: the spool composed with `listenPackets`, IDENT included, up to the
   loss of the connection with packets on the list.
3. The line protocol of the database daemon: replies in pieces, update and delete.
