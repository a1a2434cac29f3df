# A TLA+ model of NYCU-Intro-NP-2022

The repository holds one student's network programs: two homework servers (an
IRC daemon and a DNS server) and the programs of ten labs. They do not share
code or talk to each other; each is a system of its own, most of them a server
with a protocol. The modules here model those whose behaviour depends on the
order of events: connections, messages, descriptors, processes, signals.
Everything is written from the code under `src/`; what a README, a comment or a
test says is only quoted where a run shows that the code does something else.

## 1. Inventory

| Program | State | Operations | What is hard |
|---|---|---|---|
| **mircd**, `src/Homework/1/mircd` | client objects by descriptor, nicknames, channels with their users and topics, all maps of references into each other | 11 commands, the dispatcher with its checks, accept, disconnect | a reference outlives the client it refers to; a descriptor is used again; a command that fails half-way has already changed a map; several commands in one read |
| **dnsd**, `src/Homework/2/dnsd` | zones (read once), the query in hand, one socket to the upstream server | look a name up by its suffixes, answer, answer "nip" names, forward | one thread waits for one datagram and takes whatever comes; answers get lost, late, doubled; boundaries of the name syntax |
| **chat server**, `src/Lab/5` | clients by descriptor and their count, forked children that send | accept, text, `/name`, `/who`, `/exit`, disconnect | edge-triggered epoll; a child works on a copy of the table while the server goes on; several lines in one read |
| **robust UDP**, `src/Lab/8` | what is still to be sent and a bitmap; what has been received, the same bitmap, byte counts | rounds of sending, acknowledgements, saving, FIN | loss, duplication, reordering; an old bitmap overwrites a new one; unsigned arithmetic with sentinels |
| **XDP transfer**, `src/Lab/10` | the same, on one broadcast medium | the same, with FINs that never end | as above, and a process hears its own packets |
| **throughput server and client**, `src/Lab/6` | tables by descriptor, a counter; the client's connections | command and sink connections; `/reset`, `/report`, `/clients`, `/exit`; a signal handler | batches of events, reuse and exhaustion of descriptors; the handler interrupts the conversation it continues |
| **constant-bitrate senders**, `src/Lab/3` | the bytes counted and the time that has gone by; what a socket has taken | wait until the next packet is due, count it, send it; report on a signal | a wait in the wrong unit, an unsigned difference of times, a count that is ahead of the sending |
| **nkat**, `src/Lab/4` | descriptor tables of a parent and its children | accept, fork, dup, exec | which process still holds a connection; failures of fork and exec |
| **sudoku solver**, `src/Lab/9` | a board, the depth of the recursion | backtracking, then a conversation | undoing what a failed branch has done |

Within each program the parts interact as follows.

* *mircd*: `Server` reads a buffer, cuts it into lines and calls
  `Controller::call`, which looks the client up, checks that it may use the
  command and runs the handler; handlers work on the `Database` and send through
  descriptors. Errors are thrown and caught around each line.
* *dnsd*: `Server::interactive` takes a datagram, `query` strips labels until a
  zone matches and fills a reply from `Zone::get`, or calls `forward`, which
  sends the query on and blocks in `recv`.
* *chat*: `handle_client_input` answers some commands itself and forks a child
  for everything that goes to more than one client or takes long.
* *file transfers*: two processes and a network; every message carries either
  the number of a packet or a bitmap of packets. What is transferred is one
  archive, cut into chunks; the receiver joins them and walks through the
  archive from one file to the next.
* *throughput*: the client opens one command and several sink connections; its
  `SIGTERM` handler asks for the report.
* *constant bitrate*: one loop that paces, counts and sends, and a signal handler
  that reports the count. The README's client waits for a message of the server
  first; the programs do not read.

`PROJECT.json` lists all the components, also those without a model:

* The PAKO unpackers (Lab 2) decode a binary format byte by byte, without
  anything that happens in more than one order.
* `client-fork.cpp` (Lab 6) is an earlier throughput client whose children connect
  to the command port itself; its handler is `client.cpp`'s, which is modelled.
* The web crawler and the oracle services of Lab 7, the UDP echo examples of
  Lab 8 are the course's own programs, kept beside the solutions.
* The rest is scripts (proof of work, submission, packet decoding).

## 2. Modules

| Module | Models | Theorems |
|---|---|---|
| `Mircd` | all of mircd but `main` | `MircdProofs` |
| `Transfer` | *abstract*: what a file transfer promises | |
| `Archive` | what both transfers send and store: files, chunks, the unpacking loop | `ArchiveProofs` |
| `RobustUdp` | client and server of Lab 8, and the network; implements `Transfer` | `RobustUdpProofs` |
| `Xdp` | client and server of Lab 10, and the medium; implements `Transfer` | `XdpProofs` |
| `Broadcast` | *abstract*: what a chat room promises | |
| `Chat` | the chat server, its children, its clients; implements `Broadcast` | `ChatProofs` |
| `Dnsd` | the DNS server, its clients, upstream and the network | `DnsdProofs` |
| `Throughput` | the throughput server and any peers | `ThroughputProofs` |
| `ThroughputClient` | `client.cpp` composed with `Throughput`, one run after another | `ThroughputProofs` |
| `TcpCbr` | the pacing loops of both constant-bitrate senders | `LabProofs` |
| `Nkat` | the descriptor tables of nkat and its children | `LabProofs` |
| `Sudoku` | the search of the solver and what it sends | `LabProofs` |
| `MC...` | sets and values for TLC | |

Definitions have the names of the code where they can. `Mutant...` operators are
plausible mistakes, each placed before the definition that it replaces: with the
mutant in its place the property named in `PROJECT.json` fails, which shows that
the property depends on that definition.

### Mircd

`clients`, `nick_mp`, `channels`, `users`, `topic` are the maps of `Database`
and `Channel`; `status`, `nickname`, `joined` the fields of a `Client`. A value
of `Conn` is one C++ object. The maps hold references, so after
`Controller::client_del` an entry of `users` may refer to an object that is
gone. Reading through it is undefined: `Deref` lets the process die or go on
with any value. Commands are one action each, with the refusals of `call` and of
the handlers as actions of their own; `serving` is the descriptor whose buffer
is being cut into lines, so that several commands, also after a QUIT, may come
from one read. `Users` formats its rows into a buffer that is too short for them
and gives memory of `new[]` to `free`: it, too, lets the process die or go on.
What is sent is kept for one step in `out` as recipient, command and the nickname
it carries; wording is left out.

### RobustUdp, Xdp, Archive and Transfer

A packet is its number, and its payload is that fragment of the archive. The network is a set
of packets and a set of responses: putting into it may lose, taking from it may
leave a copy. A wrong checksum is a loss. Each client action is a
step of the code's loop: `SendNext`, `RoundSent`, `ReadResp`, `ReadTimeout`.
`Recv` is an iteration of the server's loop with the acknowledgement that may
end it; not sending one and losing it are the same. `Xdp` has one kind of packet
in both directions, read as a bitmap by the client (`s_res` is the last packet it has
heard) and as a number by the server, whoever has sent it: the constants `Bits` and
`Number` give the payload of the client's packets as bitmaps and the first 32 bits of a
bitmap as a number. Both processes run on one host in the evaluation
(`src/Lab/10/README.md:83`), where each hears what it has sent itself (`EchoData`,
`EchoAck`); with `HearsSelf = FALSE` they are on two. The client listens between
its rounds only, and the buffer of its socket holds `Room` packets. The server copies
whole fragments into `orig_size` bytes: `Join` is that copy, and when the last fragment
goes past the end the server may be `"crashed"` by it or go on. A timeout of the server's `recvfrom` returns -1, which the
code takes for a packet: `RecvTimeout` handles the last one again.

`Archive` follows the bytes. A byte is known by the file it belongs to and its
place in the record of that file (`init_t`, then the content), so that anything
that ends up elsewhere is seen. The receiver, when its loop has ended, has
fragments; `Joined` copies each to its place, `InitAt` is what the bytes at
the pointer are when taken for an `init_t` (anything, if they were never
received), and `StoreFile` is one turn of the unpacking loop with its
`O_TRUNC`. The files of an earlier transfer are on disk at the start. `SaveFile`
is that turn in both servers, and `Saved` its end: so the client may exit between
two files. `RobustUdp` compresses: `Frame` is one frame whose size is `CompSize`;
decompression is external and gives the archive back from a whole frame only. The
name of a file is its number: names are made by the code from the number.

In `Transfer` the receiver gets packets, the sender learns a part of what has
been got, the receiver stores when it has all, and the sender finishes when it
knows of all or has been told of the storing. The refinement maps `got` to
`recvbit`, `known` to what the client has erased, `stored` to the server's last
phase and `finished` to the client's exit.

### Chat and Broadcast

`ready` is epoll's list: a client socket enters it when something arrives and
leaves it when reported, whether or not it has been read to the end; the
listening socket stays. `Command` reads any part of what has arrived and looks at
its first line, as the code does. A child is the set of clients and descriptors
that it still has to send to. A client of `Slow` may leave what it is sent unread: its
buffer is then full, and as `send` does not wait and its result is not looked at, what
is sent to it may be lost; a message that is cut short counts as lost. The others read.
What each client may write, how much, and whether it may hang up is given
per client (`Lines`, `MaxLines`, `Leavers`). `Broadcast` says that a message goes to those
online when it was said, except its author, whom the code leaves out although
`src/Lab/5/README.md:38` says all online users, and reaches each of them who reads and
does not hang up; the refinement maps what the
children still have to do to the messages on their way. The inbox of a client is
a set: the order in which two children reach it is not promised by anything.
What a closed client has heard is forgotten. `fork` is assumed to succeed.

### Dnsd

A name is the sequence of its labels, top-level domain first. Zones and records
are constants, as the configuration is read once. `PopBack`, `Answer` and
`Forward` are the loop of `query`; `ZoneReply` is the reply with its four ways to
an error; `SendUpstream` and `RecvUpstream` are `forward`. `asked`, `net` and
`conn` are the way of a forwarded query to upstream and back to the socket. Of
the text of labels there remains what `niplike` asks. An empty label after a
trailing dot is taken to be dropped by the conversion of names.

### Throughput and ThroughputClient

`file` is the kernel's descriptor table; `mapping`, `cnt`, `mss` are the
program's. `EpollWait` reports ready descriptors, at most `MAX_EVENTS`; the batch
is handled in any order while peers go on. `mss` keeps the value of the first
connection that had a descriptor, as `emplace` does. `HandleServer` reads some of
the commands that have come, possibly cutting one, and answers each; `cuts` counts
those that are cut, of which each part is an unknown command. Answers are taken to fit
the send buffer. The client
module adds the program counter of `client.cpp` and its signal handler and uses
the peers' actions of `Throughput` for its system calls. Time, and with it the
rate of `/report`, is left out.

`cut` remembers what the signal has interrupted.

### TcpCbr

Both programs decide by the same quantity, the time for which the bytes counted so
far would suffice less the time that has gone by; `lead` is that, in whole
microseconds. `tcpcbr.c` computes a wait from it and puts microseconds into
`tv_nsec` (`Nap`); `tcpcbr-rate.c` sleeps a fixed `Pause` while the rate so far is
too high. `Elapse` is any step that takes time: up to `Quick` if nothing is in the
way, and longer at the cost of `stall`, which is all that the scheduler, the
sleeps and a full send buffer add during the run. `unsent` are packets
that are counted and that a non-blocking `send` has not taken. `Signal` is the
handler, at any point.

### Nkat and Sudoku

In `Nkat` the child's system calls between `fork` and `exec` are steps, so that
children interleave with the parent and each other; `Open` and `Dup` say what the
kernel does, close-on-exec included. In `Sudoku` a state is a moment of the
recursion: the board, the argument of the innermost call, and whether it begins
or its loop goes on; returning through cells of the puzzle's own is one step.

## 3. What is checked

Every run has its instance in the `.cfg`; `PROJECT.json` says what each shows.
Passing runs:

| Run | Properties | Instance |
|---|---|---|
| `mircd` | `Membership`, `RegistrationComplete`, `NoLeakedNick`; `StaleOnlyByLeaving`, `PrivmsgReachesMembers`, `WelcomeOnce` | 3 objects on 2 descriptors, 2 nicknames, 1 good and 1 bad channel |
| `robust_udp` | `NoFalseErase`, `SaveComplete`, `FastAcksOnlyNearTheEnd`, `FilesStored`; `ImplementsTransfer`, `Termination` | a file of one byte over an older one of two, and an empty file; 2 chunks, the last one partial |
| `xdp` | `FilesStored`; `ImplementsTransfer`, `Termination` | the same files; 2 chunks, the second record cut by the end of the first; one host |
| `chat` | `WhoFits`, `EventsKnown`; `ImplementsBroadcast`, `Welcomed`, `TextHeard` | 3 connections on 2 descriptors: one says two texts; one gives a command (`/name`, `/who`, `/exit` or an unknown one), may hang up like the first and may not read; one listens and stays |
| `dnsd` | `ClosestZone`, `RcodeAgrees`, `ReplyIsOwn`; `EventuallyAnswered` | up to 3 sendings of 14 queries to two nested zones and upstream, one datagram duplicated, any lost or refused |
| `throughput` | `TablesInStep`, `EveryByteCountedOnce`; `NoDataDropped`, `SinkDrained`, `Answered` | 3 connections on 2 descriptors, with different MSS; 2 commands, `/reset` or `/exit`, in one read, in two or cut |
| `throughput_client` | `OwnBytesCounted`, `ReportIsAnswer` | 2 runs of the client |
| `tcpcbr` | `NeverFarAhead`, `LateOnlyByStalls`; `CatchesUp` | a packet each 5 units of time, naps of a quarter of the wait, 12 units of delays in all |
| `nkat` | `ProgramTable`, `ErrorsNotSent`; `EndSeen` | 3 connections |
| `sudoku` | `FailOnlyWithoutSolution`, `CheckedIsSolution`; `Terminates` | 123 boards of side 4, 12 with a solution |

The safety properties of all runs are proved for instances of every size (section 4).
Liveness is not proved, so that for it these instances are all there is. The inductive parts beside the type invariants (`LoopInv`,
`FilesInv`, `SentOnce`, `TablesInv`, `ClientInv`, ...) are there for the proofs and stand in the
proof modules; each was checked on the instances above before it was proved.

Why these bounds are enough:

* *Descriptors* (mircd, chat, throughput): fewer than connections, so that one is
  used again while something still refers to the earlier connection; this is
  what all the stale entries need. A third client is enough for "another one
  who is neither".
* *File transfers*: with the initiation packet and two chunks a bitmap may be out
  of date in a proper part, a chunk may come before the initiation packet, and the
  last one is partial. The numbers are scaled: `Near` stands for 100, `SizeMod`
  for 2^64, and a word of three bits for the 32 of `orig_size`. In `Xdp` the packets of
  the client are read as bitmaps that mark what the server may lack, and an
  acknowledgement without packet 0 as a size that is too small or too large. The
  proofs cover all sizes. Of two files one is
  shorter than what it replaces and one is empty, and a record lies across the
  end of a fragment: the places where the unpacking loop could go wrong.
* *dnsd*: two zones of which one is inside the other, with and without the
  types that are asked for; two forwarded queries are enough to confuse answers,
  and a third sending meets what the first two have left behind.
* *tcpcbr*: `Time`, `Scale` and `MaxNsec` are small, in the relation they have in
  the code (`Scale * Time < MaxNsec`); the delays suffice to be late by more than two
  packets. The proofs cover all values.
* *Lines, commands, bytes, sends*: two of a kind let one be read together with, or
  instead of, another.
* *Sudoku*: side 4 has rows, columns and blocks that overlap as at side 9, and the
  boards include solvable ones and those that fail at every depth.

### Fairness

* File transfers: both processes run (weak fairness of their steps); a packet
  that is sent again and again arrives in the end, and what stays at a socket is
  read in the end (strong fairness of the delivery of each packet). Timeouts
  expire. In `Xdp` this includes that the client at some time hears nothing for a
  second: the silent server acknowledges once a second as well, by a timeout of
  the same length, so that the code relies on the two not staying in step; that the
  client, while it listens, reads what is in its buffer without the same packet
  being repeated for ever; and that of what waits at the server each chunk is read.
  What the server does between its loop and its FINs, file by file, needs only
  that it runs.
* Chat, dnsd: the server (and its children, upstream, the network) takes steps.
  Clients are under no obligation.
* Throughput: the server takes steps, and epoll, whose ready list is a queue,
  does not leave a descriptor out for ever.
* TcpCbr: the sender is scheduled. How long that takes is in the model.
* Nkat: the parent goes on after `accept`; children and programs need not.
* Sudoku: the search takes steps.

Deadlock is not checked: the servers may be told to exit or be left without
clients, and transfers and searches end.

### Where the code and its documents disagree

Two runs find a behaviour of the code that breaks what a README says; the lines
are quoted in `PROJECT.json`.

| Run | Behaviour |
|---|---|
| `mircd_nick_unique` | a refused rename gives the old nickname up while the client still bears it |
| `chat_ghost` | a client that writes and closes at once stays online |

Each of the following configurations, which are not among the runs of
`PROJECT.json`, ends with a counterexample as well. The comment at the property
says what the document promises.

| Configuration (`.cfg`) | Property | Behaviour |
|---|---|---|
| `MCMircdPrivmsgOnlyToMembers` | `PrivmsgOnlyToMembers` | a new client on the descriptor of one that left gets the messages of its channel |
| `MCMircdReplyCarriesNickname` | `ReplyCarriesNickname` | error replies do not carry the nickname |
| `MCRobustUdpStored`, `MCXdpStored` | `FilesStoredWhenClientExits` | the client may exit before the files are stored |
| `MCXdpOwnData` | `ClientSendsAll` | on one host, as in the evaluation, the client takes its own data for a bitmap |
| `MCXdpOwnAck` | `ServerSavesAll` | on one host, as in the evaluation, the server takes its own acknowledgement for the initiation packet |
| `MCChatNoLineLost` | `NoLineLost` | the second of two lines in one read is dropped |
| `MCDnsdBlocked` | `LocalAnswered` | one lost answer blocks the server for ever |
| `MCDnsdNoNs` | `CorrectAddress` | a zone without NS records answers existing names with a name error |
| `MCDnsdNip` | `NipAnswered` | an address directly below the domain is not answered |
| `MCThroughputCut` | `EveryCommandAnswered` | a command in two segments is never answered |
| `MCThroughputBytes` | `CounterIsBytes` | the counter is not the number of bytes |
| `MCThroughputAccepts` | `SinkAcceptsAny` | the server exits when descriptors run out |
| `MCThroughputClientOrder` | `SinksClosedBeforeReport` | the report is asked for before the sinks are closed |
| `TcpCbrSlow` | `RateKept` | below 248 bytes a second the wait is not a valid `tv_nsec`, and the lead grows without a bound |
| `TcpCbrReport` | `ReportedAreSent` | bytes are reported as sent that a full socket or the signal has kept back |
| `MCThroughputClientReport` | `ReportShown` | the answer to `/reset` may be shown as the report |

## 4. What is proved

The theorems hold for every value of the constants that the modules' `ASSUME`s
admit.

**Mircd** (`MircdProofs`). None of the properties is inductive by itself:
that a member has an entry among the channel's users (`Membership`) survives an
`accept` on a used descriptor only because a fresh object has joined nothing, and
survives a rename only because of the types. `IInv` adds `Objects`: a client
object has one descriptor, one that is not connected holds nothing, no map has an
object before it is accepted. `NoLeakedNick` says that the names reserved are
borne by clients; the converse is false (`mircd_nick_unique`). From `IInv` follow
`Membership`, `RegistrationComplete`, `NoLeakedNick` and, as action properties,
`StaleOnlyByLeaving`, `PrivmsgReachesMembers` and `WelcomeOnce`; for the last,
every command but `NICK` and `USER` is shown to send no welcome and to keep the status
(`SilentRefusal`, `SilentRooms`, `SilentQueries`, `SilentDisconnect`). The proof has a
lemma per command or group of commands. `StaleOnlyByLeaving` needs the converse of
`Membership` (`UsersInChannel`): an entry of `Channel::users` that is not stale is the client on
that descriptor, and he is in the channel; so `PART` and `client_del` know which entries
are theirs. What reading through a stale one does is undefined, and no theorem says
that the server stays up. `PrivmsgExactHolds` says when the README's promise
that `MCMircdPrivmsgOnlyToMembers` refutes is kept: until a client disconnects a `PRIVMSG`
reaches exactly the other clients in the channel. It rests on `UsersInChannel` as well:
until then no entry is stale.

**Archive** (`ArchiveProofs`), the bytes of both transfers. From the assumption that
records lie one after the other follow that offsets grow with the number of a
file (`OffsetMonotone`), that each byte of the archive belongs to one record and
one place in it (`RecordByte`, `RecordHeld`), and that fragments that are joined put
each byte back where it was (`JoinedByte`: division and remainder of its position
by the size of a fragment). So a turn of the unpacking loop at a record stores that file
and moves on to the next (`StoreStep`), and the loop ends behind the last one
(`StoreEnd`). What needs an induction over the files uses the least-number principle
for sets (`LeastElement`), from the library's theorem that `<` is well-founded.

**RobustUdp** (`RobustUdpProofs`). `IInv` is the types, `NoFalseErase` (also of
the bitmaps on their way), `LoopInv` (what the byte count stands for) and
`FinAfterSave`. `SaveComplete` needs arithmetic: with `Chunks` the number of
pieces of `CompSize`, the count of `DataSize` bytes per chunk reaches `CompSize`
exactly with the last one. `FastAcksOnlyNearTheEnd` follows the unsigned
subtraction through its wrap. `FrameRecovered`: when the loop has ended the map of
fragments is complete, and what they are joined to is the frame, so that it
decompresses. `FilesStored` follows from that and `FilesInv`: at each turn of the
unpacking loop `ptr` is the offset of a record, the files before it are those of the
client and the others the old ones. `Refinement` shows that every step is one of
`Transfer` or a stutter. What the client does promise when it exits before the files
are stored (`MCRobustUdpStored`) is `AllReceived`: the server has every packet. The assumptions are those of the C types: the size is
less than the sentinel, the sentinel fits the modulus, and the number of packets
is within what `UINT_MAX` bytes can hold.

**Xdp** (`XdpProofs`). All is proved whoever hears whom, on one host and on two, for as
many packets as the code can count: fewer than the bits of the bitmap, and
`Chunks * DataSize` within the 32 bits of `recv_size`, which therefore does not wrap
(`TypeCorrect`). Of `Number` it is only assumed that a bitmap with all of the first 32
bits, and so that of packet 0, is needed for `UINT_MAX`. A process that hears itself may act on a
packet of its own, and the theorems say exactly where that does harm: `SaveComplete` and
`FilesStored` hold while the server has the client's size or none (`SizeKnown`), and
`Refinement` shows every step to be one of `Transfer` or a stutter but the two of
`BelievesItself`: the client erases what its own data marks, or the server stores with a
size that it has read from its own acknowledgement. That these happen on one host is what
`MCXdpOwnData` and `MCXdpOwnAck` show; every other old bitmap, repeated packet or late FIN
is harmless. The refinement rests on bitmaps from the server never being ahead of
`recvbit`, on a FIN meaning that the files are stored, and on `SaveComplete`.

**Chat** (`ChatProofs`). `ChatInv` is the types with `WhoFits`, `EventsKnown` and three
parts that the refinement needs. `EventsReadable`: what epoll has reported can
still be read when its turn comes, so that an empty read means a closed client.
`NotYetIn`: nobody has heard anything before he is let in, and no child has him
among its clients. `SentOnce`: two children never carry the same message and no
child has a client twice, because a message is known by its line and a line is
handled once; so the pairs of message and client that are on their way are a set
from which a send takes exactly one. `Refinement` maps accepting to joining, the end
of a connection to leaving, a command to a line, a child's `send` to a delivery.
`AddressedHolds` is about whom a child sends to: welcomes, replies and lists of users
reach only the client they are about and broadcasts only the others, because a child
has the sockets of the fork, not what the server has on the same descriptors since.

**Dnsd** (`DnsdProofs`). `AnswersFromClosestZone`: the loop's invariant is that no
zone longer than the suffix in hand matches. `RepliesAreOwn`: until the
network duplicates a datagram at most one question is on its way, and only while
its query is the one in hand. After a duplicate, which stays at the socket as the
answer to the next forwarded query, the code promises nothing (server.cpp:126).
`CodeAgreesWithSections` is about configurations in which each zone has an NS record
(`EveryZoneHasNs`), and so is `RecordsAreFound`, that a name with records is answered
with them and without an error; without an NS record that is false, as
`MCDnsdNoNs` shows.

**Nkat** (`LabProofs`). `TablesInv` gives the parent's table and, for each step between
`fork` and `exec`, the child's: which of the standard descriptors its connection has
replaced (`Placed`), and that 3 is first the listening socket, then free, then the
copy of standard error. It rests on the least free number being known at each
`accept` and `dup` (`FreeIs`): 4 and 3. From it follow `ProgramTable`, since only that
copy is close-on-exec, and `ErrorsNotSent`. A child's step changes its own table only
(`ChildKeeps`), so that the interleaving of children does not matter.

**Sudoku** (`LabProofs`). `SearchInv` says what the board holds at each moment, above
all that no empty cell after `k` keeps a digit: it would be passed over as one of the
puzzle's. That is enough for `CheckedIsSolution`. `FailOnlyWithoutSolution` needs that
the search has passed no solution (`NonePassed`): each one agrees with the board
below `k` and has its digit at `k` still to come, or the first cell where it differs
belongs to a call whose loop has not come to its digit. A digit that `isValid` refuses is
no solution's, because what is filled of a valid board is valid (`ValidPart`), and when a loop
ends the solutions lie with the callers. When `Caller` is empty there are none.

**TcpCbr** (`LabProofs`). `NeverFarAheadHolds`: as long as the lead is below
`Scale * Time`, what a nap of its `Scale`th part leaves has room for one more packet
(`NapIsEnough`), so that the lead has a fixed point there although each sleep is
far too short. `LateOnlyByStallsHolds`: `Margin`, the lead without the delays, is
bounded from below at each point of the loop (`LagInv`): a turn takes at
most `2 * Quick` and gains `Time`, and a negative wait is not slept. That
`Quick + Quick < Time` is the assumption that the machine can keep the rate at all.

**Throughput** (`ThroughputProofs`). `TablesInv` ties the program's tables to the
kernel's: a descriptor is registered while it has a connection, is mapped to its
port and counted there, and has an mss above the header from its first connection on.
`HeldOnce`: a connection waits in one backlog, once, or has one descriptor.
`EventsReady`: what the batch still reports is so when its turn comes; it needs
`HeldOnce`, without which handling one descriptor could use up what another one's event was
about. `NoDataDropped` follows: `read` is given room, so that a 0 means that nothing
is left, and the event was then the peer's close. `EveryByteCountedOnce` is
inductive with the types (`CountInv`), but is about sums, and the answers to one
read are a fold. Both are recursive functions on the subsets of a finite set; that they
exist, that a sum does not depend on the order and changes with its terms
(`SumTaken`, `SumChange`, `SumAdd`), and that a fold of `Answer` moves what is counted
from `recv_size` into the answers and loses nothing (`AnswerFold`) is shown by taking
the least cardinality, or length, for which it would fail. `StaysUp` bounds what
`MCThroughputAccepts` finds: the server goes down only by `/exit` or when there are more
connections than descriptors; by counting, `accept` otherwise finds one free (`FdLeft`).

The client runs beside that server, and every step of it is one of the server's
peers (`ClientStep`), because it is written with their actions; so the invariants above
hold there too (`ClientInvariance`). `OwnBytesCounted`
and `ReportIsAnswer` need to know what is on its way at each point of the client
(`ClientInv`): a run's connections have seen nothing before it makes them
(`RunsInv`); at most one reset and one report are in a queue, in this order, and a
reset in a queue is the running client's, with no answer yet and no data that it could
take away (`ResetsInv`); and how many answers have come and been read (`AnswersInv`),
also when the signal handler has interrupted the wait for the answer to the
reset, which is the case in which the handler shows that one. `ServerTalk` says
what one read of such a queue does, for any way of cutting it.

`LabProofs` has the proofs of three programs that have nothing to do with each other;
`Nkat` and `Sudoku` therefore qualify the names that every module has (`NkatNext`,
`SearchNext`, ...).

The leaves of the proofs are small: all are found within a tenth of the provers'
default time (`tlapm --stretch 0.1`), so that a slower machine finds them as well.

**Only model-checked**: liveness, which needs fairness and `ENABLED`.

## 5. Not modelled

* The contents of messages: IRC texts, DNS encodings, JSON; how mircd cuts what it
  reads into lines, sizes of buffers and memory layout. `PROJECT.json` names the
  hazards that lie there. The bitmap of Lab 8 has `DATA_SIZE * 8` bits: the model
  keeps the archive within them.
* Time, beyond "a timeout may expire" and the pacing of `TcpCbr`: TTLs,
  `/report`'s seconds.
* Failures of system calls other than those named above (`fork` in nkat, `exec`,
  `accept` without descriptors, `send` to a closed peer or, in the chat server, to a full
  one). The answers of mircd and of the throughput server are taken to be sent.
* The buffers of stdio. In nkat it matters: the child inherits what the parent's `printf`
  has not written yet, and after a failed `exec` the `exit(-1)` of `fail` (nkat.c:79)
  writes it to descriptor 1, which is the connection. On a terminal nothing is left in
  the buffer after a line; with the standard output in a file or a pipe the client gets
  the lines "New connection from ..." of the connections before it. `ErrorsNotSent`
  is about the message of `fail`, which is not buffered.
* What an access behind a buffer or through a dead reference does, beyond that the
  process dies or goes on as if nothing were (`Users` and `Deref` in `Mircd`, `Join` in `Xdp`).
* The components of section 1 that are listed as such.

## 6. Plan

In order of what matters:

1. *Done*: `Mircd`, then `RobustUdp` with `Transfer` and `Archive`, `Chat` with
   `Broadcast`, `Dnsd`, `Xdp`, `Throughput` with its client, `Nkat`, `Sudoku`,
   `TcpCbr`; the proofs of every safety property that a run checks.
2. *Could be extended*: the loading of dnsd's configuration, by which zones come
   into the constant `rrs`; how mircd's 1024-byte reads cut lines; `/report`'s
   interval in `Throughput`; the forking client, whose children are left running
   when the signal comes before the parent has its control connection.
