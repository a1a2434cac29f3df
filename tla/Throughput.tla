----------------------------- MODULE Throughput -----------------------------
(* The throughput server of Lab/6: one thread and one epoll instance, a     *)
(* command port (serverfd) and a data sink port (sinkfd). A batch of events *)
(* is handled in any order, and while it is, connections come and go and    *)
(* descriptors are used again. Time is left out: /report's seconds and rate *)
(* are not modelled.                                                        *)
EXTENDS Integers, Sequences, FiniteSets, SequencesExt, FiniteSetsExt

CONSTANTS Control, Sink,  \* connections that peers make to the two ports
          None,
          Fds,            \* descriptors that accept may return
          MaxEvents,      \* MAX_EVENTS
          HeaderSize,     \* header_size
          Mss,            \* TCP_MAXSEG of each connection
          Command,        \* commands that the peers send
          MaxBytes,       \* bound: bytes written to a sink connection
          MaxCommands,    \* bound: commands written to a control connection
          Cuts            \* whether a segment may end inside a command

Conn     == Control \cup Sink
serverfd == 3
sinkfd   == 4
Listener == {serverfd, sinkfd}

ASSUME ThroughputAssumption ==
  /\ Control \cap Sink = {} /\ None \notin Conn
  /\ Fds \subseteq Nat \ 0 .. 5 /\ IsFiniteSet(Fds) /\ MaxEvents \in Nat \ {0}
  /\ HeaderSize \in Nat /\ IsFiniteSet(Control) /\ IsFiniteSet(Sink)
  /\ Mss \in [Conn -> Nat] /\ \A c \in Conn : Mss[c] > HeaderSize
  /\ Command \subseteq {"/reset", "/ping", "/report", "/clients", "/exit"}
  /\ MaxBytes \in Nat /\ MaxCommands \in Nat /\ Cuts \in BOOLEAN

VARIABLES peer,      \* the peer's end: "none", "open" or "closed"
          written,   \* bytes or commands that the peer has written
          cuts,      \* commands of it that the end of a segment has cut
          inbuf,     \* bytes that the server has not read
          cmds,      \* commands that the server has not read
          replies,   \* what the server has sent
          backlog,   \* connections that the server has not accepted
          file,      \* the connection behind a descriptor
          interest,  \* descriptors registered with epoll
          events,    \* rest of the batch of epoll_wait
          mapping,   \* listener by which a descriptor came, 0 for no entry
          cnt, mss, recv_size, running

peers  == <<peer, written, cuts>>
kernel == <<backlog, file, interest>>
tables == <<mapping, cnt, mss>>
vars   == <<peers, inbuf, cmds, replies, kernel, events, tables, recv_size, running>>

Port(c) == IF c \in Control THEN serverfd ELSE sinkfd

-----------------------------------------------------------------------------
(* The peers.                                                               *)

Connect(c) ==
  /\ running /\ peer[c] = "none"
  /\ peer' = [peer EXCEPT ![c] = "open"]
  /\ backlog' = [backlog EXCEPT ![Port(c)] = Append(@, c)]
  /\ UNCHANGED <<written, cuts, inbuf, cmds, replies, file, interest, events, tables, recv_size, running>>

Write(s, n) ==
  /\ running /\ peer[s] = "open" /\ written[s] + n <= MaxBytes
  /\ written' = [written EXCEPT ![s] = @ + n]
  /\ inbuf' = [inbuf EXCEPT ![s] = @ + n]
  /\ UNCHANGED <<peer, cuts, cmds, replies, kernel, events, tables, recv_size, running>>

Ask(c, m) ==
  /\ running /\ peer[c] = "open" /\ written[c] < MaxCommands
  /\ written' = [written EXCEPT ![c] = @ + 1]
  /\ cmds' = [cmds EXCEPT ![c] = Append(@, m)]
  /\ UNCHANGED <<peer, cuts, inbuf, replies, kernel, events, tables, recv_size, running>>

(* Closing with answers unread resets the connection, and commands on their *)
(* way may be lost.                                                         *)
Close(c) ==
  /\ peer[c] = "open"
  /\ peer' = [peer EXCEPT ![c] = "closed"]
  /\ cmds' \in IF replies[c] = <<>> THEN {cmds} ELSE {cmds, [cmds EXCEPT ![c] = <<>>]}
  /\ UNCHANGED <<written, cuts, inbuf, replies, kernel, events, tables, recv_size, running>>

-----------------------------------------------------------------------------
(* The server's loop.                                                       *)

Readable(fd) ==
  IF fd \in Listener THEN backlog[fd] # <<>>
  ELSE LET c == file[fd] IN inbuf[c] > 0 \/ cmds[c] # <<>> \/ peer[c] = "closed"

EpollWait ==
  /\ running /\ events = {}
  /\ LET ready == {fd \in interest : Readable(fd)} IN
       /\ ready # {}
       /\ events' \in {S \in SUBSET ready :
                         \/ S = ready /\ Cardinality(S) < MaxEvents
                         \/ Cardinality(S) = MaxEvents}
  /\ UNCHANGED <<peers, inbuf, cmds, replies, kernel, tables, recv_size, running>>

FreeFds == {fd \in Fds : file[fd] = None}

(* emplace keeps what is there: a descriptor that is used again keeps the   *)
(* mss of the first connection that had it.                                 *)
NewClient(l) ==
  /\ running /\ l \in events /\ FreeFds # {}
  /\ LET fd == Min(FreeFds)
         c  == Head(backlog[l])
     IN  /\ file' = [file EXCEPT ![fd] = c]
         /\ mapping' = [mapping EXCEPT ![fd] = IF @ = 0 THEN l ELSE @]
         /\ mss' = [mss EXCEPT ![fd] = IF @ = 0 THEN Mss[c] ELSE @]
         /\ interest' = interest \cup {fd}
  /\ cnt' = [cnt EXCEPT ![l] = @ + 1]
  /\ backlog' = [backlog EXCEPT ![l] = Tail(@)]
  /\ events' = events \ {l}
  /\ UNCHANGED <<peers, inbuf, cmds, replies, recv_size, running>>

(* Without a descriptor left accept fails, and fail() exits.                *)
AcceptFails(l) ==
  /\ running /\ l \in events /\ FreeFds = {}
  /\ running' = FALSE
  /\ UNCHANGED <<peers, inbuf, cmds, replies, kernel, events, tables, recv_size>>

MutantForget(fd) ==   \* leaves the entry of the descriptor in the table
  /\ interest' = interest \ {fd}
  /\ cnt' = [cnt EXCEPT ![mapping[fd]] = @ - 1]
  /\ file' = [file EXCEPT ![fd] = None]
  /\ UNCHANGED <<backlog, mapping, mss>>

(* handle_del_client *)
Forget(fd) ==
  /\ interest' = interest \ {fd}
  /\ cnt' = [cnt EXCEPT ![mapping[fd]] = @ - 1]
  /\ mapping' = [mapping EXCEPT ![fd] = 0]
  /\ file' = [file EXCEPT ![fd] = None]
  /\ UNCHANGED <<backlog, mss>>

MutantBufSize(fd) == mss[fd] - 2 * HeaderSize   \* takes off another header

BufSize(fd) == mss[fd] - HeaderSize

(* read returns 0 at the end of what the peer has written, and also when it *)
(* is given no room.                                                        *)
HandleSink(fd) ==
  /\ running /\ fd \in events /\ mapping[fd] = sinkfd
  /\ LET c == file[fd]
         n == Min({inbuf[c], BufSize(fd)})
     IN  \/ /\ n > 0
            /\ inbuf' = [inbuf EXCEPT ![c] = @ - n]
            /\ recv_size' = recv_size + HeaderSize + n
            /\ UNCHANGED <<kernel, tables>>
         \/ /\ n <= 0
            /\ Forget(fd)
            /\ UNCHANGED <<inbuf, recv_size>>
  /\ events' = events \ {fd}
  /\ UNCHANGED <<peers, cmds, replies, running>>

MutantAnswer(st, m) ==   \* resets the counter and then reports it
  IF ~st.up THEN st
  ELSE CASE m = "/reset"   -> [st EXCEPT !.size = 0, !.out = Append(@, <<"RESET", 0>>)]
         [] m = "/ping"    -> [st EXCEPT !.out = Append(@, <<"PONG", 0>>)]
         [] m = "/report"  -> [st EXCEPT !.out = Append(@, <<"REPORT", st.size>>)]
         [] m = "/clients" -> [st EXCEPT !.out = Append(@, <<"CLIENTS", cnt[sinkfd]>>)]
         [] m = "/exit"    -> [st EXCEPT !.up = FALSE]
         [] OTHER          -> st

Answer(st, m) ==
  IF ~st.up THEN st
  ELSE CASE m = "/reset"   -> [st EXCEPT !.size = 0, !.out = Append(@, <<"RESET", st.size>>)]
         [] m = "/ping"    -> [st EXCEPT !.out = Append(@, <<"PONG", 0>>)]
         [] m = "/report"  -> [st EXCEPT !.out = Append(@, <<"REPORT", st.size>>)]
         [] m = "/clients" -> [st EXCEPT !.out = Append(@, <<"CLIENTS", cnt[sinkfd]>>)]
         [] m = "/exit"    -> [st EXCEPT !.up = FALSE]
         [] OTHER          -> st

MutantSegments(q) ==   \* misses the last token of a read
  {<<SubSeq(q, 1, k - 1), SubSeq(q, k + 1, Len(q))>> : k \in 1 .. Len(q)}

(* What one read returns and what it leaves: commands up to some point. The *)
(* two parts of a command that is cut are both unknown commands.            *)
Segments(q) ==
  {<<SubSeq(q, 1, k), SubSeq(q, k + 1, Len(q))>> : k \in 1 .. Len(q)}
  \cup IF Cuts
       THEN {<<Append(SubSeq(q, 1, k - 1), "cut"), <<"cut">> \o SubSeq(q, k + 1, Len(q))>> :
               k \in {i \in 1 .. Len(q) : q[i] # "cut"}}
       ELSE {}

HandleServer(fd) ==
  /\ running /\ fd \in events /\ mapping[fd] = serverfd
  /\ \E seg \in Segments(cmds[file[fd]]) :
       LET c  == file[fd]
           st == FoldLeft(Answer, [size |-> recv_size, out |-> <<>>, up |-> TRUE], seg[1])
       IN  /\ cmds' = [cmds EXCEPT ![c] = seg[2]]
           /\ cuts' = [cuts EXCEPT ![c] = @ + Len(seg[1]) + Len(seg[2]) - Len(cmds[c])]
           /\ recv_size' = st.size
           /\ replies' = [replies EXCEPT ![c] = @ \o st.out]
           /\ running' = st.up
  /\ events' = events \ {fd}
  /\ UNCHANGED <<peer, written, inbuf, kernel, tables>>

(* The peer has closed and no command is left, or the connection is reset.  *)
LoseServer(fd) ==
  /\ running /\ fd \in events /\ mapping[fd] = serverfd
  /\ peer[file[fd]] = "closed"
  /\ cmds[file[fd]] = <<>> \/ replies[file[fd]] # <<>>
  /\ Forget(fd)
  /\ events' = events \ {fd}
  /\ UNCHANGED <<peers, inbuf, cmds, replies, recv_size, running>>

-----------------------------------------------------------------------------

Init ==
  /\ peer = [c \in Conn |-> "none"] /\ written = [c \in Conn |-> 0]
  /\ cuts = [c \in Conn |-> 0]
  /\ inbuf = [c \in Conn |-> 0] /\ cmds = [c \in Conn |-> <<>>]
  /\ replies = [c \in Conn |-> <<>>] /\ backlog = [l \in Listener |-> <<>>]
  /\ file = [fd \in Fds |-> None] /\ interest = Listener /\ events = {}
  /\ mapping = [fd \in Fds |-> 0] /\ cnt = [l \in Listener |-> 0]
  /\ mss = [fd \in Fds |-> 0] /\ recv_size = 0 /\ running = TRUE

Handle(fd) ==
  IF fd \in Listener THEN NewClient(fd) \/ AcceptFails(fd)
  ELSE HandleSink(fd) \/ HandleServer(fd) \/ LoseServer(fd)

Server == EpollWait \/ \E fd \in events : Handle(fd)

Peers ==
  \/ \E c \in Conn : Connect(c) \/ Close(c)
  \/ \E s \in Sink, n \in 1 .. MaxBytes : Write(s, n)
  \/ \E c \in Control, m \in Command : Ask(c, m)

Next == Server \/ Peers

Spec == Init /\ [][Next]_vars

(* The server runs, and epoll_wait, which returns at most MAX_EVENTS of the *)
(* ready descriptors, takes turns among them.                               *)
ServerFairness ==
  /\ WF_vars(Server)
  /\ \A fd \in Fds \cup Listener : SF_vars(EpollWait /\ fd \in events')

FairSpec == Spec /\ ServerFairness

-----------------------------------------------------------------------------
(* Properties.                                                              *)

(* Every variable has its type.                                             *)
TypeOK ==
  /\ peer \in [Conn -> {"none", "open", "closed"}]
  /\ written \in [Conn -> Nat] /\ cuts \in [Conn -> Nat] /\ inbuf \in [Conn -> Nat]
  /\ cmds \in [Conn -> Seq(Command \cup {"cut"})]
  /\ \A c \in Conn : \A i \in 1 .. Len(replies[c]) :
       replies[c][i] \in {"RESET", "PONG", "REPORT", "CLIENTS"} \X Nat
  /\ backlog \in [Listener -> Seq(Conn)]
  /\ file \in [Fds -> Conn \cup {None}]
  /\ interest \subseteq Fds \cup Listener /\ events \subseteq interest
  /\ mapping \in [Fds -> Listener \cup {0}] /\ cnt \in [Listener -> Nat]
  /\ mss \in [Fds -> Nat] /\ recv_size \in Nat /\ running \in BOOLEAN

(* main looks every event up in mapping without asking whether it is there, *)
(* and /clients answers with a count that is kept apart: also in the rest of *)
(* a batch, and when a descriptor has come back, the entry is there and says *)
(* by which port the connection came, and the counts are those of the open   *)
(* connections.                                                              *)
TablesInStep ==
  /\ \A fd \in interest \ Listener :
       /\ file[fd] # None
       /\ mapping[fd] = Port(file[fd])
  /\ \A l \in Listener : cnt[l] = Quantify(Fds, LAMBDA fd : file[fd] # None /\ Port(file[fd]) = l)

BytesRead == SumFunction([s \in Sink |-> written[s] - inbuf[s]])

Reported(q) ==
  SumFunction([i \in DOMAIN q |-> IF q[i][1] = "RESET" THEN q[i][2] ELSE 0])

(* All that was ever counted: what the resets have reported, and recv_size. *)
Counted == recv_size + SumFunction([c \in Control |-> Reported(replies[c])])

(* Over all connections and resets, every byte that was read is counted, in *)
(* one interval only, with at most one header for each.                     *)
EveryByteCountedOnce ==
  BytesRead <= Counted /\ Counted <= BytesRead * (1 + HeaderSize)

(* The server closes a sink connection only when its peer has, and when all *)
(* that was written is counted: also when its descriptor has the mss of     *)
(* another connection.                                                      *)
NoDataDropped ==
  [][\A fd \in Fds : LET c == file[fd] IN
       c \in Sink /\ file'[fd] # c => peer[c] = "closed" /\ inbuf[c] = 0]_vars

(* Sink connections that their peers have closed are read to the end and    *)
(* gone, again and again: what is closed and gone stays so.                 *)
SinkDrained ==
  []<>(\/ ~running
       \/ \A s \in Sink : peer[s] = "closed" =>
            inbuf[s] = 0 /\ \A fd \in Fds : file[fd] # s)

(* Every command of a peer that stays is answered, however many come in one *)
(* read, unless the end of a segment has cut it or the server exits: again  *)
(* and again there is none left, since the peers ask finitely often.        *)
Answered ==
  []<>(\/ ~running
       \/ \A c \in Control :
            Len(replies[c]) + cuts[c] >= written[c] \/ peer[c] = "closed")

(* Lab/6/README.md: /reset, /ping, /report and /clients are answered; so are *)
(* those of them that come in two segments.                                 *)
EveryCommandAnswered ==
  []<>(~running \/ \A c \in Control : Len(replies[c]) >= written[c] \/ peer[c] = "closed")

(* Lab/6/README.md: the counter counts "how many bytes have been received". *)
CounterIsBytes == Counted = BytesRead

(* Lab/6/README.md: the data sink "accepts any incoming TCP connection".    *)
SinkAcceptsAny == running
=============================================================================
