-------------------------------- MODULE Chat --------------------------------
(* The chat server of Lab/5: one epoll loop with edge-triggered client      *)
(* sockets, and a forked child for every broadcast. A child works on the    *)
(* clients and descriptors as they were at the fork, and sends to one at a  *)
(* time while the server goes on.                                           *)
(*                                                                          *)
(* A Conn is one TCP connection. Nicknames and times, which only dress the  *)
(* messages, are left out; a message is known by its kind, the connection   *)
(* it is about and the number of the line it answers (0 if none).           *)
EXTENDS Naturals, Sequences, FiniteSets

CONSTANTS Conn,      \* connections, each made at most once (bound)
          NoConn,
          Fd,        \* descriptors that accept can return; as many may be
                     \* connected at a time (bound)
          listenfd,
          Slow,      \* clients that may leave what they are sent unread
          Leavers,   \* clients that may close their connection
          Lines,     \* kinds of lines that each client writes
          MaxLines   \* lines that each client may write (bound)

LineKind == {"text", "/name", "/who", "/what", "/exit"}

ASSUME ChatAssumption ==
  /\ NoConn \notin Conn
  /\ Fd \subseteq Nat /\ listenfd \in Nat \ Fd
  /\ IsFiniteSet(Conn) /\ IsFiniteSet(Fd)
  /\ Slow \subseteq Conn /\ Leavers \subseteq Conn
  /\ Lines \in [Conn -> SUBSET LineKind]
  /\ MaxLines \in [Conn -> Nat]

VARIABLES fresh,    \* Conns yet to connect
          backlog,  \* connected, not yet accepted
          closed,   \* closed by the client
          wrote,    \* lines each client has written
          unread,   \* the last of them, not yet read by the server
          cliinfo,  \* fd -> Conn
          clicnt,
          ready,    \* descriptors on epoll's ready list
          events,   \* descriptors from epoll_wait that are still to be handled
          children, \* forked broadcasts, each with what is left to do
          inbox,    \* what has reached each client that has not closed
          up        \* the server runs

peers == <<fresh, backlog, closed, wrote, unread>>
vars  == <<peers, cliinfo, clicnt, ready, events, children, inbox, up>>

Kind == {"welcome", "landed", "left", "text", "renamed", "reply", "who"}
LineNo == UNION {0 .. MaxLines[c] : c \in Conn}
Msg  == [kind : Kind, about : Conn, line : LineNo]
M(kind, c, n) == [kind |-> kind, about |-> c, line |-> n]

Clients(cli) == {f \in Fd : cli[f] # NoConn}
Online       == {cliinfo[f] : f \in Clients(cliinfo)}
FdsOf(C)     == {f \in Clients(cliinfo) : cliinfo[f] \in C}

(* What is sent to a client that has closed is lost, and its reset is an     *)
(* event on the socket. What finds the buffer of a client that does not read *)
(* full is cut short or lost as well: send does not wait, and nobody looks   *)
(* at what it returns.                                                       *)
Sendstr(c, m) ==
  \/ c \in closed /\ ready' = ready \cup FdsOf({c}) /\ UNCHANGED inbox
  \/ /\ c \notin closed
     /\ inbox' = [inbox EXCEPT ![c] = @ \cup {m}]
     /\ UNCHANGED ready
  \/ c \in Slow \ closed /\ UNCHANGED <<inbox, ready>>

(* fork(): the child has the clients and the descriptors of this moment.    *)
Fork(cli, fds, m) ==
  children' = children \cup {[todo |-> {<<f, cli[f]>> : f \in fds}, msg |-> m]}

Sendexp(cli, skip, m) == Fork(cli, Clients(cli) \ {skip}, m)

-----------------------------------------------------------------------------
(* The clients and the kernel.                                              *)

Connect(c) ==
  /\ c \in fresh /\ (up \/ children # {}) /\ Cardinality(backlog \cup Online) < Cardinality(Fd)
  /\ fresh' = fresh \ {c} /\ backlog' = backlog \cup {c}
  /\ ready' = ready \cup {listenfd}
  /\ UNCHANGED <<closed, wrote, unread, cliinfo, clicnt, events, children, inbox, up>>

Write(c, l) ==
  /\ c \notin fresh \cup closed
  /\ wrote[c] < MaxLines[c]
  /\ wrote' = [wrote EXCEPT ![c] = @ + 1]
  /\ unread' = [unread EXCEPT ![c] = Append(@, l)]
  /\ ready' = ready \cup FdsOf({c})
  /\ UNCHANGED <<fresh, backlog, closed, cliinfo, clicnt, events, children, inbox, up>>

Close(c) ==
  /\ c \in Leavers \ (fresh \cup closed)
  /\ closed' = closed \cup {c}
  /\ inbox' = [inbox EXCEPT ![c] = {}]
  /\ ready' = ready \cup FdsOf({c})
  /\ UNCHANGED <<fresh, backlog, wrote, unread, cliinfo, clicnt, events, children, up>>

Readable(c) == unread[c] # <<>> \/ c \in closed

(* Whatever is on the ready list and still readable is reported. A client    *)
(* socket then leaves the list until something arrives, the listening one    *)
(* stays as long as somebody waits.                                          *)
Reported == {f \in ready : IF f = listenfd THEN backlog # {} ELSE Readable(cliinfo[f])}

MutantEpollWait ==   \* the listening socket is edge-triggered too
  /\ up /\ events = {} /\ Reported # {}
  /\ events' = Reported
  /\ ready' = {}
  /\ UNCHANGED <<peers, cliinfo, clicnt, children, inbox, up>>

EpollWait ==
  /\ up /\ events = {} /\ Reported # {}
  /\ events' = Reported
  /\ ready' = Reported \cap {listenfd}
  /\ UNCHANGED <<peers, cliinfo, clicnt, children, inbox, up>>

-----------------------------------------------------------------------------
(* handle_new_client and handle_client_input.                               *)

(* The welcome finds the buffer of a new socket empty.                       *)
Accept(c, f) ==
  /\ up /\ listenfd \in events
  /\ c \in backlog
  /\ cliinfo[f] = NoConn /\ \A g \in Fd \ Clients(cliinfo) : f <= g
  /\ events' = events \ {listenfd}
  /\ backlog' = backlog \ {c}
  /\ clicnt' = clicnt + 1
  /\ Sendexp(cliinfo, f, M("landed", c, 0))
  /\ cliinfo' = [cliinfo EXCEPT ![f] = c]
  /\ inbox' = IF c \in closed THEN inbox ELSE [inbox EXCEPT ![c] = {M("welcome", c, 0)}]
  /\ ready' = IF Readable(c) THEN ready \cup {f} ELSE ready
  /\ UNCHANGED <<fresh, closed, wrote, unread, up>>

MutantDisconnect(c, f) ==   \* leaves the count alone
  /\ cliinfo' = [cliinfo EXCEPT ![f] = NoConn]
  /\ Sendexp(cliinfo', f, M("left", c, 0))
  /\ ready' = ready \ {f}
  /\ UNCHANGED <<clicnt, unread, inbox, up>>

MutantNoDel(c, f) ==   \* leaves the descriptor to close(), but children hold copies
  /\ clicnt' = clicnt - 1
  /\ cliinfo' = [cliinfo EXCEPT ![f] = NoConn]
  /\ Sendexp(cliinfo', f, M("left", c, 0))
  /\ UNCHANGED <<ready, unread, inbox, up>>

Disconnect(c, f) ==
  /\ clicnt' = clicnt - 1
  /\ cliinfo' = [cliinfo EXCEPT ![f] = NoConn]
  /\ Sendexp(cliinfo', f, M("left", c, 0))
  /\ ready' = ready \ {f}
  /\ UNCHANGED <<unread, inbox, up>>

(* What the first line of the read asks for.                                 *)
Text(c, f, n) ==
  /\ Sendexp(cliinfo, f, M("text", c, n))
  /\ UNCHANGED <<ready, inbox, up>>

Name(c, f, n) ==
  /\ Sendstr(c, M("reply", c, n))
  /\ Sendexp(cliinfo, f, M("renamed", c, n))
  /\ UNCHANGED up

Who(c, f, n) ==
  /\ Fork(cliinfo, {f}, M("who", c, n))
  /\ UNCHANGED <<ready, inbox, up>>

Unknown(c, n) ==
  /\ Sendstr(c, M("reply", c, n))
  /\ UNCHANGED <<children, up>>

Exit ==
  /\ up' = FALSE
  /\ UNCHANGED <<ready, inbox, children>>

(* One read returns some of what has arrived, and only its first line is     *)
(* looked at.                                                                *)
Command(c, f) ==
  LET n == wrote[c] - Len(unread[c]) + 1
      l == Head(unread[c])
  IN /\ \E k \in 1 .. Len(unread[c]) :
          unread' = [unread EXCEPT ![c] = SubSeq(@, k + 1, Len(@))]
     /\ \/ l = "text"  /\ Text(c, f, n)
        \/ l = "/name" /\ Name(c, f, n)
        \/ l = "/who"  /\ Who(c, f, n)
        \/ l = "/what" /\ Unknown(c, n)
        \/ l = "/exit" /\ Exit
     /\ UNCHANGED <<cliinfo, clicnt>>

MutantInput(f) ==   \* handles one event per epoll_wait
  /\ up /\ f \in events \ {listenfd}
  /\ events' = {}
  /\ LET c == cliinfo[f]
     IN IF unread[c] = <<>> THEN Disconnect(c, f) ELSE Command(c, f)
  /\ UNCHANGED <<fresh, backlog, closed, wrote>>

Input(f) ==
  /\ up /\ f \in events \ {listenfd}
  /\ events' = events \ {f}
  /\ LET c == cliinfo[f]
     IN IF unread[c] = <<>> THEN Disconnect(c, f) ELSE Command(c, f)
  /\ UNCHANGED <<fresh, backlog, closed, wrote>>

-----------------------------------------------------------------------------
(* A child sends to the next of its clients, and exits after the last.       *)

After(ch, t) == IF ch.todo = {t} THEN {} ELSE {[ch EXCEPT !.todo = @ \ {t}]}

MutantChildSend(ch, t) ==   \* looks the descriptor up now, as a thread would
  /\ ch \in children /\ t \in ch.todo
  /\ children' = (children \ {ch}) \cup After(ch, t)
  /\ IF cliinfo[t[1]] = NoConn THEN UNCHANGED <<inbox, ready>>
                               ELSE Sendstr(cliinfo[t[1]], ch.msg)
  /\ UNCHANGED <<peers, cliinfo, clicnt, events, up>>

ChildSend(ch, t) ==
  /\ ch \in children /\ t \in ch.todo
  /\ children' = (children \ {ch}) \cup After(ch, t)
  /\ Sendstr(t[2], ch.msg)
  /\ UNCHANGED <<peers, cliinfo, clicnt, events, up>>

ChildExit(ch) ==   \* nobody to send to
  /\ ch \in children /\ ch.todo = {}
  /\ children' = children \ {ch}
  /\ UNCHANGED <<peers, cliinfo, clicnt, ready, events, inbox, up>>

-----------------------------------------------------------------------------
Init ==
  /\ fresh = Conn /\ backlog = {} /\ closed = {}
  /\ wrote = [c \in Conn |-> 0] /\ unread = [c \in Conn |-> <<>>]
  /\ cliinfo = [f \in Fd |-> NoConn] /\ clicnt = 0
  /\ ready = {} /\ events = {} /\ children = {}
  /\ inbox = [c \in Conn |-> {}]
  /\ up = TRUE

Peer == \E c \in Conn : Connect(c) \/ Close(c) \/ \E l \in Lines[c] : Write(c, l)

Server == \/ EpollWait
          \/ \E f \in Fd : Input(f) \/ \E c \in Conn : Accept(c, f)

Children == \E ch \in children : ChildExit(ch) \/ \E t \in ch.todo : ChildSend(ch, t)

Next == Peer \/ Server \/ Children

Spec == Init /\ [][Next]_vars

(* The server and its children are scheduled, the clients do as they like.   *)
FairSpec == Spec /\ WF_vars(Server) /\ WF_vars(Children)

-----------------------------------------------------------------------------
(* Properties.                                                               *)

(* Every variable has its type, and every connection is in one place.        *)
TypeOK ==
  /\ fresh \subseteq Conn /\ backlog \subseteq Conn /\ closed \subseteq Conn
  /\ fresh \cap backlog = {} /\ (fresh \cup backlog) \cap Online = {}
  /\ wrote \in [Conn -> Nat] /\ unread \in [Conn -> Seq(LineKind)]
  /\ \A c \in Conn : Len(unread[c]) <= wrote[c] /\ wrote[c] <= MaxLines[c]
  /\ cliinfo \in [Fd -> Conn \cup {NoConn}]
  /\ \A f, g \in Clients(cliinfo) : cliinfo[f] = cliinfo[g] => f = g
  /\ clicnt \in Nat
  /\ ready \cup events \subseteq Fd \cup {listenfd}
  /\ children \subseteq [todo : SUBSET (Fd \X Conn), msg : Msg]
  /\ inbox \in [Conn -> SUBSET Msg]
  /\ up \in BOOLEAN

(* What epoll reports can be handled (server.cpp:231-247): a descriptor that  *)
(* is reported, or going to be, is the listening one or that of a client the *)
(* server knows, although it closes descriptors that others, its children,   *)
(* keep open; and accept, which the loop calls once per event, does not wait *)
(* for a client that is not there.                                           *)
EventsKnown ==
  /\ ready \cup events \subseteq Clients(cliinfo) \cup {listenfd}
  /\ listenfd \in events => backlog # {}

(* The table of /who is allocated for clicnt clients and filled with one row *)
(* for each entry of cliinfo (server.cpp:147-158): the counter and the table,*)
(* changed apart on every arrival and departure, agree, or the child writes  *)
(* past the allocation.                                                      *)
WhoFits == clicnt = Cardinality(Clients(cliinfo))

(* What the children still have to send, and to whom.                        *)
Pending == UNION {{<<ch.msg, t[2]>> : t \in ch.todo} : ch \in children}

(* The forked broadcasts (sendexp, server.cpp:73-87) deliver what a chat room*)
(* promises: every message goes to those who were online when its line was   *)
(* handled, never to its author nor to a later user of the same descriptor,  *)
(* however late the child runs.                                              *)
Room == INSTANCE Broadcast WITH
  Welcome <- LAMBDA c : M("welcome", c, 0),
  Landed  <- LAMBDA c : M("landed", c, 0),
  Left    <- LAMBDA c : M("left", c, 0),
  By      <- LAMBDA m : m.about,
  online  <- Online,
  pending <- Pending,
  heard   <- inbox,
  gone    <- closed

ImplementsBroadcast == Room!Spec

(* Whoever connects is welcomed, or hangs up, or the server was told to exit:*)
(* one accept per event (server.cpp:232-233) is enough, because the listening*)
(* socket is reported again.                                                 *)
Welcomed == \A c \in Conn : c \in backlog ~> (c \in Online \cup closed \/ ~up)

(* A text line is heard by everyone else who is there when it is the next to *)
(* be read, reads what he is sent and does not hang up, whatever becomes of  *)
(* the others: its edge (server.cpp:235) is not lost among the other events  *)
(* of a batch, one read is enough, and the child that carries it (sendexp,   *)
(* server.cpp:73-87) goes on when its author writes more or hangs up, when   *)
(* the server exits or when others do not read. What comes before the line   *)
(* ahead of it is handled has no such promise: it is dropped when one read   *)
(* gets both (server.cpp:169), and is left without an edge when it lies      *)
(* behind the 1024 bytes of the read (see NoLineLost).                       *)
Carried(c, d, n) ==
  \E ch \in children : ch.msg = M("text", c, n) /\ \E t \in ch.todo : t[2] = d

InFront(c, d, n) ==
  /\ {c, d} \subseteq Online
  /\ unread[c] # <<>> /\ Head(unread[c]) = "text"
  /\ n = wrote[c] - Len(unread[c]) + 1
  /\ n = 1 \/ FdsOf({c}) \subseteq ready \cup events

TextHeard ==
  \A c \in {x \in Conn : "text" \in Lines[x]} :
  \A d \in Conn \ (Slow \cup {c}), n \in 1 .. MaxLines[c] :
    InFront(c, d, n) \/ Carried(c, d, n) ~>
      M("text", c, n) \in inbox[d] \/ d \in closed \/ ~(up \/ Carried(c, d, n))

(* Lab/5/README.md:38: every text message is delivered to all online users.  *)
(* Only the first line of a read is looked at (server.cpp:169): when all a   *)
(* client wrote has been read and every child has finished, another client   *)
(* that was there all along has not heard each line.                         *)
NoLineLost ==
  \A c \in Online :
    (unread[c] = <<>> /\ children = {} /\ Lines[c] = {"text"}) =>
       \A d \in Online \ (closed \cup {c}), n \in 1 .. wrote[c] :
          M("landed", c, 0) \in inbox[d] => M("text", c, n) \in inbox[d]

(* Lab/5/README.md:100: the server notices a disconnected client. Its socket *)
(* is edge-triggered (server.cpp:235) and read once per event, so the end of *)
(* a connection that arrives with its last lines is never read.              *)
LeaveNoticed ==
  \A c \in Conn : c \in Online \cap closed ~> (c \notin Online \/ ~up)
=============================================================================
