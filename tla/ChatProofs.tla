----------------------------- MODULE ChatProofs ----------------------------
(* Proofs about Chat, for any number of clients, descriptors and lines: the *)
(* table of /who fits, epoll's events can be handled, and the forked         *)
(* broadcasts implement Broadcast.                                           *)
EXTENDS Chat, FiniteSetTheorems, SequenceTheorems, TLAPS

(* Inductive with TypeOK, WhoFits and EventsKnown, for the broadcasts: what  *)
(* epoll has reported is still to be read, nobody hears before he is let in, *)
(* and no message is sent out twice, nor twice to the same client.           *)
Spoken(m) ==
  /\ m.kind \in {"landed", "left", "text", "renamed", "who"}
  /\ m.kind = "landed" => m.about \notin fresh \cup backlog
  /\ m.kind = "left" => m.about \notin fresh \cup backlog \cup Online
  /\ m.kind \in {"text", "renamed", "who"} =>
       m.line + Len(unread[m.about]) <= wrote[m.about]

EventsReadable == \A f \in events \ {listenfd} : Readable(cliinfo[f])

NotYetIn ==
  /\ \A c \in fresh \cup backlog : inbox[c] = {}
  /\ \A ch \in children : \A t \in ch.todo : t[2] \notin fresh \cup backlog

SentOnce ==
  /\ \A ch \in children : Spoken(ch.msg)
  /\ \A ch, other \in children : ch.msg = other.msg => ch = other
  /\ \A ch \in children : \A t, u \in ch.todo : t[2] = u[2] => t = u

CliType == [Fd -> Conn \cup {NoConn}]
OneFd(cli) == \A f, g \in Clients(cli) : cli[f] = cli[g] => f = g
OnlineOf(cli) == {cli[f] : f \in Clients(cli)}

Set(cli, f, x) == [cli EXCEPT ![f] = x]

LEMMA ClientsAdd ==
  ASSUME NEW cli \in CliType, NEW f \in Fd, cli[f] = NoConn, NEW c \in Conn,
         c \notin OnlineOf(cli), OneFd(cli)
  PROVE  /\ Set(cli, f, c) \in CliType /\ OneFd(Set(cli, f, c))
         /\ Clients(Set(cli, f, c)) = Clients(cli) \cup {f} /\ f \notin Clients(cli)
         /\ OnlineOf(Set(cli, f, c)) = OnlineOf(cli) \cup {c}
         /\ Clients(cli) \ {f} = Clients(cli)
         /\ \A g \in Clients(cli) : Set(cli, f, c)[g] = cli[g]
BY ChatAssumption DEF CliType, OneFd, OnlineOf, Clients, Set

LEMMA ClientsDel ==
  ASSUME NEW cli \in CliType, NEW f \in Clients(cli), OneFd(cli)
  PROVE  /\ Set(cli, f, NoConn) \in CliType /\ OneFd(Set(cli, f, NoConn))
         /\ Clients(Set(cli, f, NoConn)) = Clients(cli) \ {f}
         /\ OnlineOf(Set(cli, f, NoConn)) = OnlineOf(cli) \ {cli[f]}
         /\ \A g \in Clients(Set(cli, f, NoConn)) : Set(cli, f, NoConn)[g] = cli[g]
BY ChatAssumption DEF CliType, OneFd, OnlineOf, Clients, Set

LEMMA ClientsFinite ==
  ASSUME NEW cli
  PROVE  /\ IsFiniteSet(Clients(cli)) /\ Cardinality(Clients(cli)) \in Nat
         /\ \A f \in Clients(cli) :
              /\ Cardinality(Clients(cli) \ {f}) = Cardinality(Clients(cli)) - 1
              /\ Cardinality(Clients(cli)) - 1 \in Nat
         /\ \A f \in Fd \ Clients(cli) :
              Cardinality(Clients(cli) \cup {f}) = Cardinality(Clients(cli)) + 1
<1>1. IsFiniteSet(Clients(cli))
  BY ChatAssumption, FS_Subset DEF Clients
<1>2. Cardinality(Clients(cli)) \in Nat
  BY <1>1, FS_CardinalityType
<1>3. ASSUME NEW f \in Clients(cli)
      PROVE  /\ Cardinality(Clients(cli) \ {f}) = Cardinality(Clients(cli)) - 1
             /\ Cardinality(Clients(cli)) - 1 \in Nat
  <2>1. Cardinality(Clients(cli) \ {f}) = Cardinality(Clients(cli)) - 1
    BY <1>1, FS_RemoveElement
  <2>2. Cardinality(Clients(cli) \ {f}) \in Nat
    BY <1>1, FS_RemoveElement, FS_CardinalityType
  <2> QED BY <2>1, <2>2
<1>4. ASSUME NEW f \in Fd \ Clients(cli)
      PROVE  Cardinality(Clients(cli) \cup {f}) = Cardinality(Clients(cli)) + 1
  BY <1>1, FS_AddElement
<1> QED BY <1>1, <1>2, <1>3, <1>4

(* A child, as it is forked: each of its clients is there once.              *)
LEMMA ForkedChild ==
  ASSUME NEW cli \in CliType, OneFd(cli), NEW G \in SUBSET Clients(cli)
  PROVE  LET todo == {<<g, cli[g]>> : g \in G}
         IN  /\ todo \in SUBSET (Fd \X Conn)
             /\ \A t, u \in todo : t[2] = u[2] => t = u
             /\ \A d : (\E t \in todo : t[2] = d) <=> (\E g \in G : cli[g] = d)
<1> DEFINE todo == {<<g, cli[g]>> : g \in G}
<1>1. \A g \in G : g \in Fd /\ cli[g] \in Conn /\ g \in Clients(cli)
  BY DEF CliType, Clients
<1>2. todo \in SUBSET (Fd \X Conn)
  BY <1>1
<1>3. \A t \in todo : t[1] \in G /\ t = <<t[1], cli[t[1]]>> /\ t[2] = cli[t[1]]
  OBVIOUS
<1>4. ASSUME NEW t \in todo, NEW u \in todo, t[2] = u[2]
      PROVE  t = u
  <2>1. t[1] = u[1]
    BY <1>1, <1>3, <1>4 DEF OneFd
  <2> QED BY <1>3, <2>1
<1>5. \A g \in G : <<g, cli[g]>> \in todo /\ <<g, cli[g]>>[2] = cli[g]
  OBVIOUS
<1> HIDE DEF todo
<1>6. ASSUME NEW d, NEW t \in todo, t[2] = d
      PROVE  \E g \in G : cli[g] = d
  BY <1>3, <1>6
<1>7. ASSUME NEW g \in G
      PROVE  \E t \in todo : t[2] = cli[g]
  BY <1>5
<1>8. \A d : (\E t \in todo : t[2] = d) <=> (\E g \in G : cli[g] = d)
  BY <1>6, <1>7
<1> QED BY <1>2, <1>4, <1>8 DEF todo

LEMMA MsgType ==
  ASSUME NEW kind \in Kind, NEW c \in Conn, NEW n \in 0 .. MaxLines[c]
  PROVE  M(kind, c, n) \in Msg
BY DEF M, Msg, LineNo

(* What a read of k lines leaves, and the number of the first of them.       *)
LEMMA LinesTaken ==
  ASSUME TypeOK, NEW c \in Conn, unread[c] # <<>>, NEW k \in 1 .. Len(unread[c])
  PROVE  LET rest == SubSeq(unread[c], k + 1, Len(unread[c]))
             n    == wrote[c] - Len(unread[c]) + 1
         IN  /\ rest \in Seq(LineKind) /\ Len(rest) <= Len(unread[c])
             /\ Head(unread[c]) \in LineKind
             /\ n \in 0 .. MaxLines[c] /\ n + Len(rest) <= wrote[c]
             /\ \A m \in Nat : m + Len(unread[c]) <= wrote[c] => m # n
<1> DEFINE s == unread[c]
           w == wrote[c]
           x == MaxLines[c]
<1>1. s \in Seq(LineKind) /\ s # <<>> /\ w \in Nat /\ x \in Nat /\ Len(s) <= w /\ w <= x
  BY ChatAssumption DEF TypeOK
<1>2. k \in 1 .. Len(s)
  OBVIOUS
<1> HIDE DEF s, w, x
<1>3. Len(s) \in Nat /\ Len(s) > 0 /\ k + 1 \in Nat
  BY <1>1, <1>2, LenProperties
<1>4. Head(s) \in LineKind
  BY <1>1, HeadTailProperties
<1>5. SubSeq(s, k + 1, Len(s)) \in Seq(LineKind) /\ Len(SubSeq(s, k + 1, Len(s))) = Len(s) - k
  BY <1>1, <1>2, <1>3, SubSeqProperties
<1>6. /\ w - Len(s) + 1 \in 0 .. x /\ (w - Len(s) + 1) + (Len(s) - k) <= w
      /\ Len(s) - k <= Len(s)
      /\ \A m \in Nat : m + Len(s) <= w => m # w - Len(s) + 1
  <2>1. Len(s) \in Nat /\ Len(s) > 0 /\ k \in 1 .. Len(s) /\ w \in Nat /\ x \in Nat
        /\ Len(s) <= w /\ w <= x
    BY <1>1, <1>2, <1>3
  <2> QED BY ONLY <2>1
<1> QED BY <1>4, <1>5, <1>6 DEF s, w, x

-----------------------------------------------------------------------------
(* The inductive invariant.                                                  *)

ChatInv ==
  TypeOK /\ WhoFits /\ EventsKnown /\ EventsReadable /\ NotYetIn /\ SentOnce

(* What no step undoes: a client arrives and comes in, and lines are read.   *)
Progress ==
  /\ fresh' \cup backlog' \subseteq fresh \cup backlog
  /\ Online' \subseteq Online \cup backlog
  /\ \A c \in Conn : wrote[c] + Len(unread'[c]) <= wrote'[c] + Len(unread[c])

LEMMA SpokenStays ==
  ASSUME TypeOK, TypeOK', Progress, NEW m \in Msg, Spoken(m)
  PROVE  Spoken(m)'
<1>1. m.about \in Conn /\ m.line \in Nat
  <2>1. LineNo \subseteq Nat
    BY ChatAssumption DEF LineNo
  <2> QED BY <2>1 DEF Msg
<1>2. m.kind = "left" => m.about \notin fresh' \cup backlog' \cup Online'
  BY DEF Spoken, Progress
<1>3. m.kind = "landed" => m.about \notin fresh' \cup backlog'
  BY DEF Spoken, Progress
<1>4. ASSUME m.line + Len(unread[m.about]) <= wrote[m.about]
      PROVE  m.line + Len(unread'[m.about]) <= wrote'[m.about]
  <2>1. /\ unread[m.about] \in Seq(LineKind) /\ unread'[m.about] \in Seq(LineKind)
        /\ wrote[m.about] \in Nat /\ wrote'[m.about] \in Nat
    BY <1>1 DEF TypeOK
  <2>2. Len(unread[m.about]) \in Nat /\ Len(unread'[m.about]) \in Nat
    BY <2>1, LenProperties
  <2>3. wrote[m.about] + Len(unread'[m.about]) <= wrote'[m.about] + Len(unread[m.about])
    BY <1>1 DEF Progress
  <2> QED BY ONLY <1>1, <1>4, <2>1, <2>2, <2>3
<1> QED BY <1>2, <1>3, <1>4 DEF Spoken

LEMMA SameChildren ==
  ASSUME TypeOK, SentOnce, TypeOK', Progress, UNCHANGED children
  PROVE  SentOnce'
<1>1. \A ch \in children' : Spoken(ch.msg)'
  BY SpokenStays DEF TypeOK, SentOnce
<1> QED BY <1>1 DEF SentOnce

LEMMA NewChild ==
  ASSUME TypeOK, SentOnce, TypeOK', Progress,
         NEW m \in Msg, NEW todo \in SUBSET (Fd \X Conn),
         children' = children \cup {[todo |-> todo, msg |-> m]},
         Spoken(m)', \A ch \in children : ch.msg # m,
         \A t, u \in todo : t[2] = u[2] => t = u
  PROVE  SentOnce'
<1> DEFINE new == [todo |-> todo, msg |-> m]
<1>1. new.msg = m /\ new.todo = todo
  OBVIOUS
<1> HIDE DEF new
<1>2. children' = children \cup {new}
  BY DEF new
<1>3. \A ch \in children' : Spoken(ch.msg)'
  <2>1. \A ch \in children : Spoken(ch.msg)'
    BY SpokenStays DEF TypeOK, SentOnce
  <2> QED BY <1>1, <1>2, <2>1
<1>4. \A ch, other \in children' : ch.msg = other.msg => ch = other
  BY <1>1, <1>2 DEF SentOnce
<1>5. \A ch \in children' : \A t, u \in ch.todo : t[2] = u[2] => t = u
  BY <1>1, <1>2 DEF SentOnce
<1> QED BY <1>3, <1>4, <1>5 DEF SentOnce

-----------------------------------------------------------------------------
LEMMA InitChatInv == Init => ChatInv
<1> SUFFICES ASSUME Init PROVE ChatInv
  OBVIOUS
<1>1. Clients(cliinfo) = {} /\ Online = {}
  BY DEF Init, Clients, Online
<1>2. TypeOK
  <2>1. <<>> \in Seq(LineKind) /\ Len(<<>>) = 0
    BY EmptySeq
  <2>2. \A c \in Conn : Len(unread[c]) <= wrote[c] /\ wrote[c] <= MaxLines[c]
    BY <2>1, ChatAssumption DEF Init
  <2> QED BY <1>1, <2>1, <2>2 DEF Init, TypeOK
<1>3. WhoFits
  BY <1>1, FS_EmptySet DEF Init, WhoFits
<1> QED BY <1>1, <1>2, <1>3 DEF Init, ChatInv, EventsKnown, EventsReadable, NotYetIn, SentOnce

LEMMA PeerStep ==
  ASSUME ChatInv, Peer
  PROVE  ChatInv'
<1> USE DEF ChatInv
<1>0. \A C : FdsOf(C) \subseteq Clients(cliinfo) /\ Clients(cliinfo) \subseteq Fd
  BY DEF FdsOf, Clients
<1>1. ASSUME NEW c \in Conn, Connect(c)
      PROVE  ChatInv'
  <2>1. /\ c \in fresh /\ fresh' = fresh \ {c} /\ backlog' = backlog \cup {c}
        /\ ready' = ready \cup {listenfd}
        /\ UNCHANGED <<closed, wrote, unread, cliinfo, clicnt, events, children, inbox, up>>
    BY <1>1 DEF Connect
  <2>2. UNCHANGED Online /\ fresh' \cup backlog' = fresh \cup backlog
    BY <2>1 DEF Online, Clients, TypeOK
  <2>3. TypeOK'
    BY <2>1, <2>2 DEF TypeOK, Clients
  <2>4. Progress
    BY <2>1, <2>2 DEF Progress, TypeOK
  <2>5. WhoFits' /\ EventsKnown' /\ EventsReadable' /\ NotYetIn'
    BY <2>1, <2>2 DEF WhoFits, EventsKnown, EventsReadable, NotYetIn, Clients, Readable
  <2> QED BY <2>1, <2>3, <2>4, <2>5, SameChildren
<1>2. ASSUME NEW c \in Conn, Close(c)
      PROVE  ChatInv'
  <2>1. /\ closed' = closed \cup {c} /\ inbox' = [inbox EXCEPT ![c] = {}]
        /\ ready' = ready \cup FdsOf({c})
        /\ UNCHANGED <<fresh, backlog, wrote, unread, cliinfo, clicnt, events, children, up>>
    BY <1>2 DEF Close
  <2>2. UNCHANGED Online
    BY <2>1 DEF Online, Clients
  <2>3. TypeOK'
    BY <1>0, <2>1, <2>2 DEF TypeOK, Clients
  <2>4. Progress
    BY <2>1, <2>2 DEF Progress, TypeOK
  <2>5. WhoFits' /\ EventsKnown' /\ EventsReadable' /\ NotYetIn'
    BY <1>0, <2>1, <2>2
    DEF WhoFits, EventsKnown, EventsReadable, NotYetIn, Clients, Readable, TypeOK
  <2> QED BY <2>1, <2>3, <2>4, <2>5, SameChildren
<1>3. ASSUME NEW c \in Conn, NEW l \in Lines[c], Write(c, l)
      PROVE  ChatInv'
  <2>1. /\ wrote[c] < MaxLines[c] /\ wrote' = [wrote EXCEPT ![c] = @ + 1]
        /\ unread' = [unread EXCEPT ![c] = Append(@, l)]
        /\ ready' = ready \cup FdsOf({c})
        /\ UNCHANGED <<fresh, backlog, closed, cliinfo, clicnt, events, children, inbox, up>>
    BY <1>3 DEF Write
  <2>2. UNCHANGED Online
    BY <2>1 DEF Online, Clients
  <2>3. /\ unread[c] \in Seq(LineKind) /\ l \in LineKind /\ wrote[c] \in Nat
        /\ MaxLines[c] \in Nat /\ Len(unread[c]) <= wrote[c]
    BY ChatAssumption DEF TypeOK
  <2>4. /\ Append(unread[c], l) \in Seq(LineKind) /\ Append(unread[c], l) # <<>>
        /\ Len(Append(unread[c], l)) = Len(unread[c]) + 1 /\ Len(unread[c]) \in Nat
    BY <2>3, AppendProperties, LenProperties
  <2>5. wrote' \in [Conn -> Nat] /\ unread' \in [Conn -> Seq(LineKind)]
    BY <2>1, <2>3, <2>4 DEF TypeOK
  <2>6. ASSUME NEW d \in Conn
        PROVE  /\ Len(unread'[d]) <= wrote'[d] /\ wrote'[d] <= MaxLines[d]
               /\ wrote[d] + Len(unread'[d]) <= wrote'[d] + Len(unread[d])
    <3>1. CASE d = c
      BY <2>1, <2>3, <2>4, <3>1 DEF TypeOK
    <3>2. CASE d # c
      <4>1. wrote'[d] = wrote[d] /\ unread'[d] = unread[d]
        BY <2>1, <3>2 DEF TypeOK
      <4>2. wrote[d] \in Nat /\ Len(unread[d]) \in Nat
        BY LenProperties DEF TypeOK
      <4> QED BY <4>1, <4>2 DEF TypeOK
    <3> QED BY <3>1, <3>2
  <2>7. TypeOK'
    BY <1>0, <2>1, <2>2, <2>5, <2>6 DEF TypeOK, Clients
  <2>8. Progress
    BY <2>1, <2>2, <2>6 DEF Progress
  <2>9. WhoFits' /\ EventsKnown' /\ NotYetIn'
    BY <1>0, <2>1, <2>2 DEF WhoFits, EventsKnown, NotYetIn, Clients
  <2>10. EventsReadable'
    BY <2>1, <2>4 DEF EventsReadable, Readable, TypeOK
  <2> QED BY <2>1, <2>7, <2>8, <2>9, <2>10, SameChildren
<1> QED BY <1>1, <1>2, <1>3 DEF Peer

LEMMA EpollWaitStep ==
  ASSUME ChatInv, EpollWait
  PROVE  ChatInv'
<1> USE DEF ChatInv
<1>1. /\ events' = Reported /\ ready' = Reported \cap {listenfd} /\ Reported \subseteq ready
      /\ UNCHANGED <<peers, cliinfo, clicnt, children, inbox, up>>
  BY DEF EpollWait, Reported
<1>2. UNCHANGED Online
  BY <1>1 DEF Online, Clients
<1>3. TypeOK'
  BY <1>1, <1>2 DEF TypeOK, Clients, peers
<1>4. Progress
  BY <1>1, <1>2 DEF Progress, peers, TypeOK
<1>5. WhoFits' /\ EventsKnown' /\ EventsReadable' /\ NotYetIn'
  BY <1>1, <1>2
  DEF WhoFits, EventsKnown, EventsReadable, NotYetIn, Clients, Readable, Reported, peers
<1> QED BY <1>1, <1>3, <1>4, <1>5, SameChildren

LEMMA Descriptors ==
  ASSUME TypeOK
  PROVE  /\ cliinfo \in CliType /\ OneFd(cliinfo) /\ OnlineOf(cliinfo) = Online
         /\ Clients(cliinfo) \subseteq Fd /\ listenfd \notin Fd
         /\ \A f \in Clients(cliinfo) : cliinfo[f] \in Conn /\ cliinfo[f] \in Online
BY ChatAssumption DEF TypeOK, CliType, OneFd, OnlineOf, Online, Clients

(* A new client: everyone who is there is to hear of it.                     *)
LEMMA AcceptStep ==
  ASSUME ChatInv, NEW f \in Fd, NEW c \in Conn, Accept(c, f)
  PROVE  ChatInv'
<1> USE DEF ChatInv
<1> DEFINE m    == M("landed", c, 0)
           todo == {<<g, cliinfo[g]>> : g \in Clients(cliinfo)}
<1>1. /\ c \in backlog /\ cliinfo[f] = NoConn
      /\ events' = events \ {listenfd} /\ backlog' = backlog \ {c}
      /\ clicnt' = clicnt + 1 /\ cliinfo' = [cliinfo EXCEPT ![f] = c]
      /\ inbox' = IF c \in closed THEN inbox ELSE [inbox EXCEPT ![c] = {M("welcome", c, 0)}]
      /\ ready' \subseteq ready \cup {f}
      /\ UNCHANGED <<fresh, closed, wrote, unread, up>>
  BY DEF Accept
<1>2. /\ cliinfo' \in CliType /\ OneFd(cliinfo') /\ Clients(cliinfo') = Clients(cliinfo) \cup {f}
      /\ Online' = Online \cup {c} /\ Clients(cliinfo) \ {f} = Clients(cliinfo)
      /\ f \notin Clients(cliinfo) /\ \A g \in Clients(cliinfo) : cliinfo'[g] = cliinfo[g]
  <2>1. c \notin Online
    BY <1>1 DEF TypeOK
  <2>2. OnlineOf(cliinfo') = Online'
    BY DEF OnlineOf, Online
  <2>3. cliinfo \in CliType /\ OneFd(cliinfo) /\ c \notin OnlineOf(cliinfo)
    BY <2>1, Descriptors
  <2>4. cliinfo' = Set(cliinfo, f, c) /\ cliinfo[f] = NoConn
    BY <1>1 DEF Set
  <2>5. OnlineOf(cliinfo) = Online
    BY Descriptors
  <2> QED BY <2>2, <2>3, <2>4, <2>5, ClientsAdd
<1>3. children' = children \cup {[todo |-> todo, msg |-> m]}
  BY <1>2 DEF Accept, Sendexp, Fork
<1>4. m \in Msg /\ M("welcome", c, 0) \in Msg
  BY ChatAssumption, MsgType DEF Kind
<1>5. /\ todo \in SUBSET (Fd \X Conn) /\ \A t, u \in todo : t[2] = u[2] => t = u
      /\ \A t \in todo : t[2] \in Online
  BY Descriptors, ForkedChild
<1>6. m.kind = "landed" /\ m.about = c
  BY DEF M
<1> HIDE DEF todo, m
<1>7. TypeOK'
  <2>1. (fresh' \cup backlog') \cap Online' = {} /\ fresh' \cap backlog' = {}
    BY <1>1, <1>2 DEF TypeOK
  <2>2. inbox' \in [Conn -> SUBSET Msg]
    BY <1>1, <1>4 DEF TypeOK
  <2>3. children' \subseteq [todo : SUBSET (Fd \X Conn), msg : Msg]
    BY <1>3, <1>4, <1>5 DEF TypeOK
  <2>4. clicnt' \in Nat /\ ready' \cup events' \subseteq Fd \cup {listenfd}
    BY <1>1 DEF TypeOK
  <2> QED BY <1>1, <1>2, <2>1, <2>2, <2>3, <2>4 DEF TypeOK, CliType, OneFd
<1>8. Progress
  BY <1>1, <1>2 DEF Progress, TypeOK
<1>9. SentOnce'
  <2>1. \A ch \in children : ch.msg # m
    BY <1>1, <1>6 DEF SentOnce, Spoken
  <2>2. Spoken(m)'
    <3>1. c \notin fresh' \cup backlog'
      BY <1>1 DEF TypeOK
    <3> QED BY <1>6, <3>1 DEF Spoken
  <2> QED BY <1>3, <1>4, <1>5, <1>7, <1>8, <2>1, <2>2, NewChild
<1>10. WhoFits'
  BY <1>1, <1>2, ClientsFinite DEF WhoFits
<1>11. EventsKnown'
  BY <1>1, <1>2 DEF EventsKnown
<1>12. EventsReadable'
  <2>1. \A g \in events' \ {listenfd} :
          g \in events \ {listenfd} /\ cliinfo'[g] = cliinfo[g]
    BY <1>1, <1>2 DEF EventsKnown
  <2> QED BY <1>1, <2>1 DEF EventsReadable, Readable
<1>13. NotYetIn'
  <2>1. \A d \in fresh' \cup backlog' : inbox'[d] = {}
    BY <1>1 DEF NotYetIn, TypeOK
  <2>2. \A ch \in children' : \A t \in ch.todo : t[2] \notin fresh' \cup backlog'
    BY <1>1, <1>3, <1>5 DEF NotYetIn, TypeOK
  <2> QED BY <2>1, <2>2 DEF NotYetIn
<1> QED BY <1>7, <1>9, <1>10, <1>11, <1>12, <1>13

(* The end of a connection: everyone else is to hear of it.                  *)
LEMMA DisconnectStep ==
  ASSUME ChatInv, NEW f \in events \ {listenfd}, events' = events \ {f},
         NEW c, c = cliinfo[f], Disconnect(c, f),
         UNCHANGED <<fresh, backlog, closed, wrote>>
  PROVE  ChatInv'
<1> USE DEF ChatInv
<1> DEFINE m    == M("left", c, 0)
           todo == {<<g, cliinfo'[g]>> : g \in Clients(cliinfo')}
<1>0. f \in Clients(cliinfo)
  BY DEF EventsKnown
<1>1. /\ clicnt' = clicnt - 1 /\ cliinfo' = [cliinfo EXCEPT ![f] = NoConn]
      /\ ready' = ready \ {f}
      /\ UNCHANGED <<unread, inbox, up>>
  BY DEF Disconnect
<1>2. /\ cliinfo' \in CliType /\ OneFd(cliinfo') /\ Clients(cliinfo') = Clients(cliinfo) \ {f}
      /\ Online' = Online \ {c} /\ Clients(cliinfo') \ {f} = Clients(cliinfo')
      /\ \A g \in Clients(cliinfo') : cliinfo'[g] = cliinfo[g]
  <2>1. OnlineOf(cliinfo') = Online'
    BY DEF OnlineOf, Online
  <2>2. cliinfo \in CliType /\ OneFd(cliinfo) /\ OnlineOf(cliinfo) = Online
    BY Descriptors
  <2>3. cliinfo' = Set(cliinfo, f, NoConn)
    BY <1>1 DEF Set
  <2> QED BY <1>0, <2>1, <2>2, <2>3, ClientsDel
<1>3. children' = children \cup {[todo |-> todo, msg |-> m]}
  BY <1>2 DEF Disconnect, Sendexp, Fork
<1>4. c \in Conn /\ c \in Online /\ m \in Msg
  BY <1>0, Descriptors, ChatAssumption, MsgType DEF Kind
<1>5. /\ todo \in SUBSET (Fd \X Conn) /\ \A t, u \in todo : t[2] = u[2] => t = u
      /\ \A t \in todo : t[2] \in Online
  <2>1. /\ todo \in SUBSET (Fd \X Conn) /\ \A t, u \in todo : t[2] = u[2] => t = u
        /\ \A t \in todo : \E g \in Clients(cliinfo') : cliinfo'[g] = t[2]
    BY <1>2, ForkedChild
  <2> QED BY <1>2, <2>1, Descriptors
<1>6. m.kind = "left" /\ m.about = c
  BY DEF M
<1> HIDE DEF todo, m
<1>7. TypeOK'
  <2>1. (fresh' \cup backlog') \cap Online' = {} /\ fresh' \cap backlog' = {}
    BY <1>2 DEF TypeOK
  <2>3. children' \subseteq [todo : SUBSET (Fd \X Conn), msg : Msg]
    BY <1>3, <1>4, <1>5 DEF TypeOK
  <2>4. clicnt' \in Nat /\ ready' \cup events' \subseteq Fd \cup {listenfd}
    BY <1>0, <1>1, ClientsFinite DEF TypeOK, WhoFits
  <2> QED BY <1>1, <1>2, <2>1, <2>3, <2>4 DEF TypeOK, CliType, OneFd
<1>8. Progress
  BY <1>1, <1>2 DEF Progress, TypeOK
<1>9. SentOnce'
  <2>1. \A ch \in children : ch.msg # m
    BY <1>4, <1>6 DEF SentOnce, Spoken
  <2>2. Spoken(m)'
    <3>1. c \notin fresh' \cup backlog' \cup Online'
      BY <1>2, <1>4 DEF TypeOK
    <3> QED BY <1>6, <3>1 DEF Spoken
  <2> QED BY <1>3, <1>4, <1>5, <1>7, <1>8, <2>1, <2>2, NewChild
<1>10. WhoFits'
  BY <1>0, <1>1, <1>2, ClientsFinite DEF WhoFits
<1>11. EventsKnown'
  BY <1>1, <1>2 DEF EventsKnown
<1>12. EventsReadable'
  <2>1. \A g \in events' \ {listenfd} :
          g \in events \ {listenfd} /\ cliinfo'[g] = cliinfo[g]
    BY <1>1, <1>2 DEF EventsKnown
  <2> QED BY <1>1, <2>1 DEF EventsReadable, Readable
<1>13. NotYetIn'
  BY <1>1, <1>3, <1>5 DEF NotYetIn, TypeOK
<1> QED BY <1>7, <1>9, <1>10, <1>11, <1>12, <1>13

(* A line that is handled: k of them are taken, and the first is answered.   *)
LEMMA CommandFrame ==
  ASSUME ChatInv, NEW f \in events \ {listenfd}, events' = events \ {f},
         NEW c, c = cliinfo[f], unread[c] # <<>>, NEW k \in 1 .. Len(unread[c]),
         unread' = [unread EXCEPT ![c] = SubSeq(@, k + 1, Len(@))],
         ready \subseteq ready', ready' \subseteq ready \cup FdsOf(Conn),
         inbox' \in [Conn -> SUBSET Msg],
         \A d \in fresh \cup backlog : inbox'[d] = inbox[d],
         up' \in BOOLEAN,
         UNCHANGED <<fresh, backlog, closed, wrote, cliinfo, clicnt>>,
         NEW new \in SUBSET [todo : SUBSET (Fd \X Conn), msg : Msg],
         children' = children \cup new
  PROVE  /\ TypeOK' /\ Progress /\ WhoFits' /\ EventsKnown' /\ EventsReadable'
         /\ (\A ch \in new : \A t \in ch.todo : t[2] \in Online) => NotYetIn'
<1> USE DEF ChatInv
<1>1. c \in Conn /\ f \in Clients(cliinfo)
  BY Descriptors DEF EventsKnown
<1>2. UNCHANGED Online
  BY DEF Online, Clients
<1>3. /\ SubSeq(unread[c], k + 1, Len(unread[c])) \in Seq(LineKind)
      /\ Len(SubSeq(unread[c], k + 1, Len(unread[c]))) <= Len(unread[c])
  BY <1>1, LinesTaken
<1>4. unread' \in [Conn -> Seq(LineKind)]
  BY <1>1, <1>3 DEF TypeOK
<1>5. ASSUME NEW d \in Conn
      PROVE  Len(unread'[d]) <= Len(unread[d]) /\ Len(unread'[d]) \in Nat /\ Len(unread[d]) \in Nat
  <2>1. Len(unread'[d]) \in Nat /\ Len(unread[d]) \in Nat
    BY <1>4, LenProperties DEF TypeOK
  <2>2. CASE d = c
    BY <1>1, <1>3, <2>1, <2>2 DEF TypeOK
  <2>3. CASE d # c
    <3>1. unread'[d] = unread[d]
      BY <2>3 DEF TypeOK
    <3> QED BY <2>1, <3>1
  <2> QED BY <2>2, <2>3
<1>6. ASSUME NEW d \in Conn
      PROVE  /\ Len(unread'[d]) <= wrote'[d] /\ wrote'[d] <= MaxLines[d]
             /\ wrote[d] + Len(unread'[d]) <= wrote'[d] + Len(unread[d])
  <2>1. wrote[d] \in Nat /\ Len(unread[d]) <= wrote[d] /\ wrote[d] <= MaxLines[d] /\ wrote'[d] = wrote[d]
    BY DEF TypeOK
  <2> QED BY <1>5, <2>1
<1>7. FdsOf(Conn) \subseteq Clients(cliinfo) /\ Clients(cliinfo) \subseteq Fd
  BY DEF FdsOf, Clients
<1>8. TypeOK'
  <2>1. children' \subseteq [todo : SUBSET (Fd \X Conn), msg : Msg]
    BY DEF TypeOK
  <2>2. ready' \cup events' \subseteq Fd \cup {listenfd}
    BY <1>7 DEF TypeOK
  <2> QED BY <1>2, <1>4, <1>6, <2>1, <2>2 DEF TypeOK, Clients
<1>9. Progress
  BY <1>2, <1>6 DEF Progress
<1>10. WhoFits'
  BY DEF WhoFits, Clients
<1>11. EventsKnown'
  BY <1>7 DEF EventsKnown, Clients
<1>12. EventsReadable'
  <2>1. \A g \in events' \ {listenfd} : cliinfo[g] # c /\ cliinfo[g] \in Conn
    BY <1>1, Descriptors DEF EventsKnown, OneFd
  <2>2. \A g \in events' \ {listenfd} : unread'[cliinfo[g]] = unread[cliinfo[g]]
    BY <2>1 DEF TypeOK
  <2>3. \A g \in events' \ {listenfd} : Readable(cliinfo[g])
    BY DEF EventsReadable
  <2>4. cliinfo' = cliinfo /\ closed' = closed
    OBVIOUS
  <2> QED BY ONLY <2>2, <2>3, <2>4 DEF EventsReadable, Readable
<1>13. (\A ch \in new : \A t \in ch.todo : t[2] \in Online) => NotYetIn'
  BY DEF NotYetIn, TypeOK
<1> QED BY <1>8, <1>9, <1>10, <1>11, <1>12, <1>13

(* Where its answers go.                                                     *)
LEMMA Answered ==
  ASSUME ChatInv, NEW c \in Online, NEW m \in Msg, Sendstr(c, m)
  PROVE  /\ ready \subseteq ready' /\ ready' \subseteq ready \cup FdsOf(Conn)
         /\ inbox' \in [Conn -> SUBSET Msg]
         /\ \A d \in fresh \cup backlog : inbox'[d] = inbox[d]
<1> USE DEF ChatInv
<1>1. c \in Conn /\ c \notin fresh \cup backlog
  BY Descriptors DEF TypeOK, Online
<1>2. FdsOf({c}) \subseteq FdsOf(Conn)
  BY <1>1 DEF FdsOf
<1>3. CASE c \in closed
  BY <1>2, <1>3 DEF Sendstr, TypeOK
<1>4. CASE UNCHANGED <<inbox, ready>>
  BY <1>4 DEF TypeOK
<1>5. CASE inbox' = [inbox EXCEPT ![c] = @ \cup {m}] /\ UNCHANGED ready
  <2>1. inbox' = [inbox EXCEPT ![c] = @ \cup {m}] /\ ready' = ready
    BY <1>5
  <2>2. inbox \in [Conn -> SUBSET Msg] /\ inbox[c] \cup {m} \in SUBSET Msg
    BY <1>1 DEF TypeOK
  <2>3. inbox' \in [Conn -> SUBSET Msg]
    BY <2>1, <2>2
  <2>4. \A d \in fresh \cup backlog : d \in Conn /\ d # c
    BY <1>1 DEF TypeOK
  <2> QED BY <2>1, <2>2, <2>3, <2>4
<1> QED BY <1>3, <1>4, <1>5 DEF Sendstr

(* A message about a line is not on its way before the line is handled.      *)
LEMMA NewLine ==
  ASSUME ChatInv, Progress, TypeOK', NEW c \in Conn, unread[c] # <<>>,
         NEW k \in 1 .. Len(unread[c]),
         unread' = [unread EXCEPT ![c] = SubSeq(@, k + 1, Len(@))], UNCHANGED wrote,
         NEW kind \in {"text", "renamed", "who"},
         NEW n, n = wrote[c] - Len(unread[c]) + 1, NEW m, m = M(kind, c, n)
  PROVE  m \in Msg /\ Spoken(m)' /\ \A ch \in children : ch.msg # m
<1> USE DEF ChatInv
<1>1. /\ n \in 0 .. MaxLines[c]
      /\ n + Len(SubSeq(unread[c], k + 1, Len(unread[c]))) <= wrote[c]
      /\ \A i \in Nat : i + Len(unread[c]) <= wrote[c] => i # n
  BY LinesTaken
<1>2. m \in Msg
  BY <1>1, MsgType DEF Kind
<1>3. m.kind = kind /\ m.about = c /\ m.line = n
  BY DEF M
<1>4. unread'[c] = SubSeq(unread[c], k + 1, Len(unread[c])) /\ wrote'[c] = wrote[c]
  BY DEF TypeOK
<1>5. Spoken(m)'
  <2>1. /\ kind # "landed" /\ kind # "left"
        /\ kind \in {"landed", "left", "text", "renamed", "who"}
    OBVIOUS
  <2>2. n + Len(unread'[c]) <= wrote'[c]
    BY <1>1, <1>4
  <2> QED BY <1>3, <2>1, <2>2 DEF Spoken
<1>6. ASSUME NEW ch \in children, ch.msg = m PROVE FALSE
  <2>1. Spoken(m) /\ n \in Nat
    BY <1>1, <1>6 DEF SentOnce
  <2>2. n + Len(unread[c]) <= wrote[c]
    BY <1>3, <2>1 DEF Spoken
  <2> QED BY <1>1, <2>1, <2>2
<1> QED BY <1>2, <1>5, <1>6

LEMMA CommandStep ==
  ASSUME ChatInv, NEW f \in events \ {listenfd}, events' = events \ {f},
         NEW c, c = cliinfo[f], unread[c] # <<>>, Command(c, f),
         UNCHANGED <<fresh, backlog, closed, wrote>>
  PROVE  ChatInv'
<1> USE DEF ChatInv
<1>1. PICK k \in 1 .. Len(unread[c]) :
         unread' = [unread EXCEPT ![c] = SubSeq(@, k + 1, Len(@))]
  BY DEF Command
<1>2. PICK n : n = wrote[c] - Len(unread[c]) + 1
  OBVIOUS
<1>3. UNCHANGED <<cliinfo, clicnt>>
  BY DEF Command
<1>4. c \in Conn /\ c \in Online /\ f \in Clients(cliinfo)
  BY Descriptors DEF EventsKnown
<1>5. n \in 0 .. MaxLines[c]
  BY <1>2, <1>4, LinesTaken
(* Without a child, and with one that has m to send.                         *)
<1>6. ASSUME UNCHANGED children, up' \in BOOLEAN,
             ready \subseteq ready', ready' \subseteq ready \cup FdsOf(Conn),
             inbox' \in [Conn -> SUBSET Msg],
             \A d \in fresh \cup backlog : inbox'[d] = inbox[d]
      PROVE  ChatInv'
  <2>1. {} \in SUBSET [todo : SUBSET (Fd \X Conn), msg : Msg] /\ children' = children \cup {}
    BY <1>6
  <2>2. /\ TypeOK' /\ Progress /\ WhoFits' /\ EventsKnown' /\ EventsReadable'
        /\ (\A ch \in {} : \A t \in ch.todo : t[2] \in Online) => NotYetIn'
    BY <1>1, <1>3, <1>6, <2>1, CommandFrame
  <2> QED BY <1>6, <2>2, SameChildren
<1>7. ASSUME NEW kind \in {"text", "renamed", "who"}, NEW G \in SUBSET Clients(cliinfo),
             NEW m, m = M(kind, c, n), Fork(cliinfo, G, m), up' \in BOOLEAN,
             ready \subseteq ready', ready' \subseteq ready \cup FdsOf(Conn),
             inbox' \in [Conn -> SUBSET Msg],
             \A d \in fresh \cup backlog : inbox'[d] = inbox[d]
      PROVE  ChatInv'
  <2> DEFINE todo == {<<g, cliinfo[g]>> : g \in G}
             new == {[todo |-> todo, msg |-> m]}
  <2>1. children' = children \cup new
    BY <1>7 DEF Fork
  <2>2. /\ todo \in SUBSET (Fd \X Conn) /\ \A t, u \in todo : t[2] = u[2] => t = u
        /\ \A t \in todo : t[2] \in Online
    BY Descriptors, ForkedChild
  <2>3. m \in Msg
    BY <1>4, <1>5, <1>7, MsgType DEF Kind
  <2> HIDE DEF todo
  <2>5. new \in SUBSET [todo : SUBSET (Fd \X Conn), msg : Msg]
    BY <2>2, <2>3
  <2>6. \A ch \in new : \A t \in ch.todo : t[2] \in Online
    BY <2>2
  <2> HIDE DEF new
  <2>7. TypeOK' /\ Progress /\ WhoFits' /\ EventsKnown' /\ EventsReadable' /\ NotYetIn'
    BY <1>1, <1>3, <1>7, <2>1, <2>5, <2>6, CommandFrame
  <2>8. Spoken(m)' /\ \A ch \in children : ch.msg # m
    <3> HIDE DEF ChatInv
    <3>1. m = M(kind, c, n)
      BY <1>7
    <3> QED BY <1>1, <1>2, <1>4, <2>7, <3>1, NewLine
  <2>9. SentOnce'
    BY <2>1, <2>2, <2>3, <2>7, <2>8, NewChild DEF new
  <2> QED BY <2>7, <2>9
<1>8. UNCHANGED <<ready, inbox>> =>
        /\ ready \subseteq ready' /\ ready' \subseteq ready \cup FdsOf(Conn)
        /\ inbox' \in [Conn -> SUBSET Msg]
        /\ \A d \in fresh \cup backlog : inbox'[d] = inbox[d]
  BY DEF TypeOK
<1>9. M("reply", c, n) \in Msg
  BY <1>4, <1>5, MsgType DEF Kind
<1>10. up \in BOOLEAN
  BY DEF TypeOK
<1>11. CASE Text(c, f, n)
  BY <1>7, <1>8, <1>10, <1>11 DEF Text, Sendexp
<1>12. CASE Name(c, f, n)
  BY <1>4, <1>7, <1>9, <1>10, <1>12, Answered DEF Name, Sendexp
<1>13. CASE Who(c, f, n)
  BY <1>4, <1>7, <1>8, <1>10, <1>13 DEF Who
<1>14. CASE Unknown(c, n)
  BY <1>4, <1>6, <1>9, <1>10, <1>14, Answered DEF Unknown
<1>15. CASE Exit
  BY <1>6, <1>8, <1>15 DEF Exit
<1> QED BY <1>2, <1>11, <1>12, <1>13, <1>14, <1>15 DEF Command

LEMMA ChildrenStep ==
  ASSUME ChatInv, Children
  PROVE  ChatInv'
<1> USE DEF ChatInv
<1>1. PICK ch \in children : ChildExit(ch) \/ \E t \in ch.todo : ChildSend(ch, t)
  BY DEF Children
<1>2. ch.todo \in SUBSET (Fd \X Conn) /\ ch.msg \in Msg
      /\ ch = [todo |-> ch.todo, msg |-> ch.msg]
  BY DEF TypeOK
(* What is left of the children, whatever reached a client.                  *)
<1>3. ASSUME NEW left, children' = (children \ {ch}) \cup left,
             \A x \in left : x = [todo |-> x.todo, msg |-> ch.msg] /\ x.todo \subseteq ch.todo,
             \A x, y \in left : x = y,
             ready \subseteq ready', ready' \subseteq ready \cup FdsOf(Conn),
             inbox' \in [Conn -> SUBSET Msg],
             \A d \in fresh \cup backlog : inbox'[d] = inbox[d],
             UNCHANGED <<peers, cliinfo, clicnt, events, up>>
      PROVE  ChatInv'
  <2>1. UNCHANGED Online /\ UNCHANGED <<fresh, backlog, closed, wrote, unread>>
    BY <1>3 DEF Online, Clients, peers
  <2>2. FdsOf(Conn) \subseteq Clients(cliinfo) /\ Clients(cliinfo) \subseteq Fd
    BY DEF FdsOf, Clients
  <2>3. \A x \in left : x \in [todo : SUBSET (Fd \X Conn), msg : Msg]
    BY <1>2, <1>3
  <2>4. TypeOK'
    BY <1>3, <2>1, <2>2, <2>3 DEF TypeOK, Clients
  <2>5. Progress
    BY <2>1 DEF Progress, TypeOK
  <2>6. WhoFits' /\ EventsKnown' /\ EventsReadable'
    BY <1>3, <2>1, <2>2 DEF WhoFits, EventsKnown, EventsReadable, Clients, Readable
  <2>7. NotYetIn'
    BY <1>3, <2>1 DEF NotYetIn
  <2>8. \A x \in left : x.msg = ch.msg
    BY <1>3
  <2>9. SentOnce'
    <3>1. \A x \in children' : Spoken(x.msg)'
      <4>1. \A x \in children' : \E y \in children : x.msg = y.msg
        BY <1>3, <2>8
      <4>2. \A y \in children : y.msg \in Msg /\ Spoken(y.msg)
        BY DEF TypeOK, SentOnce
      <4> QED BY <2>4, <2>5, <4>1, <4>2, SpokenStays
    <3>2. \A x, y \in children' : x.msg = y.msg => x = y
      BY <1>3, <2>8 DEF SentOnce
    <3>3. \A x \in children' : \A t, u \in x.todo : t[2] = u[2] => t = u
      BY <1>3 DEF SentOnce
    <3> QED BY <3>1, <3>2, <3>3 DEF SentOnce
  <2> QED BY <2>4, <2>6, <2>7, <2>9
<1>4. CASE ChildExit(ch)
  <2> DEFINE none == {}
  <2>1. children' = (children \ {ch}) \cup none /\ UNCHANGED <<ready, inbox>>
    BY <1>4 DEF ChildExit
  <2>2. UNCHANGED <<peers, cliinfo, clicnt, events, up>>
    BY <1>4 DEF ChildExit
  <2>3. /\ ready \subseteq ready' /\ ready' \subseteq ready \cup FdsOf(Conn)
        /\ inbox' \in [Conn -> SUBSET Msg]
        /\ \A d \in fresh \cup backlog : inbox'[d] = inbox[d]
    BY <2>1 DEF TypeOK
  <2>4. /\ \A x \in none : x = [todo |-> x.todo, msg |-> ch.msg] /\ x.todo \subseteq ch.todo
        /\ \A x, y \in none : x = y
    OBVIOUS
  <2> HIDE DEF ChatInv, none
  <2> QED BY <1>3, <2>1, <2>2, <2>3, <2>4
<1>5. ASSUME NEW t \in ch.todo, ChildSend(ch, t)
      PROVE  ChatInv'
  <2>1. /\ children' = (children \ {ch}) \cup After(ch, t) /\ Sendstr(t[2], ch.msg)
        /\ UNCHANGED <<peers, cliinfo, clicnt, events, up>>
    BY <1>5 DEF ChildSend
  <2>2. t[2] \in Conn /\ t[2] \notin fresh \cup backlog
    BY <1>2 DEF NotYetIn
  <2>3. /\ ready \subseteq ready' /\ ready' \subseteq ready \cup FdsOf(Conn)
        /\ inbox' \in [Conn -> SUBSET Msg]
        /\ \A d \in fresh \cup backlog : inbox'[d] = inbox[d]
    <3>1. FdsOf({t[2]}) \subseteq FdsOf(Conn)
      BY <2>2 DEF FdsOf
    <3>2. inbox[t[2]] \cup {ch.msg} \in SUBSET Msg
      BY <1>2, <2>2 DEF TypeOK
    <3>3. CASE t[2] \in closed
      BY <2>1, <3>1, <3>3 DEF Sendstr, TypeOK
    <3>4. CASE UNCHANGED <<inbox, ready>>
      BY <3>4 DEF TypeOK
    <3>5. CASE inbox' = [inbox EXCEPT ![t[2]] = @ \cup {ch.msg}] /\ UNCHANGED ready
      <4>1. inbox' = [inbox EXCEPT ![t[2]] = @ \cup {ch.msg}] /\ ready' = ready
        BY <3>5
      <4>2. inbox' \in [Conn -> SUBSET Msg]
        BY <3>2, <4>1 DEF TypeOK
      <4>3. \A d \in fresh \cup backlog : d \in Conn /\ d # t[2]
        BY <2>2 DEF TypeOK
      <4> QED BY <4>1, <4>2, <4>3 DEF TypeOK
    <3> QED BY <2>1, <3>3, <3>4, <3>5 DEF Sendstr
  <2>4. /\ \A x \in After(ch, t) : x = [todo |-> x.todo, msg |-> ch.msg] /\ x.todo \subseteq ch.todo
        /\ \A x, y \in After(ch, t) : x = y
    <3>1. \A x \in After(ch, t) : x = [todo |-> ch.todo \ {t}, msg |-> ch.msg]
      BY <1>2 DEF After
    <3>2. \A x \in After(ch, t) : x.todo = ch.todo \ {t}
      BY ONLY <3>1
    <3>3. \A x \in After(ch, t) : x = [todo |-> x.todo, msg |-> ch.msg]
      BY ONLY <3>1, <3>2
    <3> QED BY ONLY <3>1, <3>2, <3>3
  <2> QED BY <1>3, <2>1, <2>3, <2>4
<1> QED BY <1>1, <1>4, <1>5

LEMMA InputStep ==
  ASSUME ChatInv, NEW f \in Fd, Input(f)
  PROVE  ChatInv'
<1>1. /\ f \in events \ {listenfd} /\ events' = events \ {f}
      /\ UNCHANGED <<fresh, backlog, closed, wrote>>
      /\ IF unread[cliinfo[f]] = <<>> THEN Disconnect(cliinfo[f], f) ELSE Command(cliinfo[f], f)
  BY DEF Input
<1>2. CASE unread[cliinfo[f]] = <<>>
  BY <1>1, <1>2, DisconnectStep
<1>3. CASE unread[cliinfo[f]] # <<>>
  BY <1>1, <1>3, CommandStep
<1> QED BY <1>2, <1>3

LEMMA StutterStep == ChatInv /\ UNCHANGED vars => ChatInv'
<1> SUFFICES ASSUME ChatInv, UNCHANGED vars PROVE ChatInv'
  OBVIOUS
<1> USE DEF ChatInv
<1>1. UNCHANGED <<fresh, backlog, closed, wrote, unread, cliinfo, clicnt, ready, events,
                  children, inbox, up>>
  BY DEF vars, peers
<1>2. UNCHANGED Online
  BY <1>1 DEF Online, Clients
<1>3. TypeOK'
  BY <1>1, <1>2 DEF TypeOK, Clients
<1>4. Progress
  BY <1>1, <1>2 DEF Progress, TypeOK
<1>5. WhoFits' /\ EventsKnown' /\ EventsReadable' /\ NotYetIn'
  BY <1>1 DEF WhoFits, EventsKnown, EventsReadable, NotYetIn, Clients, Readable
<1> QED BY <1>1, <1>3, <1>4, <1>5, SameChildren

(* The counter and the table stay together, epoll reports only what can be   *)
(* handled, and each message is carried by one child.                        *)
THEOREM Invariance == Spec => []ChatInv
<1>1. ChatInv /\ [Next]_vars => ChatInv'
  <2> SUFFICES ASSUME ChatInv, [Next]_vars PROVE ChatInv'
    OBVIOUS
  <2>1. CASE Server
    BY <2>1, EpollWaitStep, InputStep, AcceptStep DEF Server
  <2> QED BY <2>1, PeerStep, ChildrenStep, StutterStep DEF Next
<1> QED BY <1>1, InitChatInv, PTL DEF Spec

(* Every variable has its type, and every connection is in one place.        *)
THEOREM TypeCorrect == Spec => []TypeOK
<1>1. ChatInv => TypeOK
  BY DEF ChatInv
<1> QED BY <1>1, Invariance, PTL

(* The table of /who is allocated for as many clients as there are entries   *)
(* (server.cpp:147-158), for any number of clients and descriptors.          *)
THEOREM WhoFitsHolds == Spec => []WhoFits
<1>1. ChatInv => WhoFits
  BY DEF ChatInv
<1> QED BY <1>1, Invariance, PTL

(* What epoll reports can be handled (server.cpp:231-247): a client that the *)
(* server knows, or a connection to accept, whatever the children keep open. *)
THEOREM EventsKnownHolds == Spec => []EventsKnown
<1>1. ChatInv => EventsKnown
  BY DEF ChatInv
<1> QED BY <1>1, Invariance, PTL

-----------------------------------------------------------------------------
(* The refinement: what the children have to do are the messages on their    *)
(* way.                                                                      *)

LEMMA PendingIs ==
  \A p : p \in Pending <=> \E ch \in children : \E t \in ch.todo : p = <<ch.msg, t[2]>>
BY DEF Pending

LEMMA PendingSame == UNCHANGED children => UNCHANGED Pending
BY DEF Pending

(* A child that is forked.                                                   *)
LEMMA PendingAdded ==
  ASSUME NEW m, NEW cli \in CliType, OneFd(cli), NEW G \in SUBSET Clients(cli), Fork(cli, G, m)
  PROVE  Pending' = Pending \cup {<<m, d>> : d \in {cli[g] : g \in G}}
<1> DEFINE todo == {<<g, cli[g]>> : g \in G}
           new == [todo |-> todo, msg |-> m]
           D == {cli[g] : g \in G}
<1>1. children' = children \cup {new}
  BY DEF Fork
<1>2. \A d : (\E t \in todo : t[2] = d) <=> d \in D
  <2>1. \A d : (\E t \in todo : t[2] = d) <=> (\E g \in G : cli[g] = d)
    BY ForkedChild
  <2> QED BY <2>1
<1> HIDE DEF todo, D
<1>3. new.msg = m /\ new.todo = todo
  OBVIOUS
<1> HIDE DEF new
<1>4. \A p : p \in Pending' <=> \E ch \in children' : \E t \in ch.todo : p = <<ch.msg, t[2]>>
  BY DEF Pending
<1>5. ASSUME NEW p
      PROVE  p \in Pending' <=> p \in Pending \/ p \in {<<m, d>> : d \in D}
  <2>1. p \in Pending' <=> p \in Pending \/ \E t \in todo : p = <<m, t[2]>>
    BY <1>1, <1>3, <1>4, PendingIs
  <2>2. (\E t \in todo : p = <<m, t[2]>>) <=> (\E d \in D : p = <<m, d>>)
    BY <1>2
  <2> QED BY <2>1, <2>2
<1> QED BY <1>5 DEF D

(* One that has sent to one of its clients.                                  *)
LEMMA PendingSent ==
  ASSUME ChatInv, NEW ch \in children, NEW t \in ch.todo,
         children' = (children \ {ch}) \cup After(ch, t)
  PROVE  Pending' = Pending \ {<<ch.msg, t[2]>>}
<1>1. \A x, y \in children : x.msg = y.msg => x = y
  BY DEF ChatInv, SentOnce
<1>2. \A u \in ch.todo : u[2] = t[2] => u = t
  BY DEF ChatInv, SentOnce
<1>3. \A x \in After(ch, t) : x.msg = ch.msg /\ x.todo = ch.todo \ {t}
  <2>1. ch = [todo |-> ch.todo, msg |-> ch.msg]
    BY DEF ChatInv, TypeOK
  <2> QED BY <2>1 DEF After
<1>4. After(ch, t) = {} => ch.todo = {t}
  BY DEF After
<1>5. \A p : p \in Pending' <=> \E x \in children' : \E u \in x.todo : p = <<x.msg, u[2]>>
  BY DEF Pending
<1>6. ASSUME NEW p \in Pending'
      PROVE  p \in Pending /\ p # <<ch.msg, t[2]>>
  <2>1. PICK x \in children' : \E u \in x.todo : p = <<x.msg, u[2]>>
    BY <1>5
  <2>2. PICK u \in x.todo : p = <<x.msg, u[2]>>
    BY <2>1
  <2>3. CASE x \in children \ {ch}
    <3>1. p \in Pending
      BY <2>2, <2>3, PendingIs
    <3>2. x.msg # ch.msg
      BY <1>1, <2>3
    <3> QED BY <2>2, <3>1, <3>2
  <2>4. CASE x \in After(ch, t)
    <3>1. x.msg = ch.msg /\ u \in ch.todo /\ u # t
      BY <1>3, <2>4
    <3>2. p \in Pending
      BY <2>2, <3>1, PendingIs
    <3>3. u[2] # t[2]
      BY <1>2, <3>1
    <3> QED BY <2>2, <3>2, <3>3
  <2> QED BY <2>3, <2>4
<1>7. ASSUME NEW p \in Pending, p # <<ch.msg, t[2]>>
      PROVE  p \in Pending'
  <2>1. PICK x \in children : \E u \in x.todo : p = <<x.msg, u[2]>>
    BY PendingIs
  <2>2. PICK u \in x.todo : p = <<x.msg, u[2]>>
    BY <2>1
  <2>3. CASE x # ch
    BY <1>5, <2>2, <2>3
  <2>4. CASE x = ch
    <3>1. u \in ch.todo \ {t}
      BY <1>7, <2>2, <2>4
    <3>2. PICK y : y \in After(ch, t)
      BY <1>4, <3>1
    <3>3. y \in children' /\ u \in y.todo /\ p = <<y.msg, u[2]>>
      BY <1>3, <2>2, <2>4, <3>1, <3>2
    <3> QED BY <1>5, <3>3
  <2> QED BY <2>3, <2>4
<1> QED BY <1>6, <1>7

LEMMA RoomInit == Init => Room!Init
BY DEF Init, Room!Init, Online, Clients, Pending

LEMMA RoomJoin ==
  ASSUME ChatInv, NEW f \in Fd, NEW c \in Conn, Accept(c, f)
  PROVE  Room!Join(c)
<1>1. /\ c \in backlog /\ cliinfo[f] = NoConn
      /\ Sendexp(cliinfo, f, M("landed", c, 0))
      /\ cliinfo' = [cliinfo EXCEPT ![f] = c]
      /\ inbox' = IF c \in closed THEN inbox ELSE [inbox EXCEPT ![c] = {M("welcome", c, 0)}]
      /\ UNCHANGED closed
  BY DEF Accept
<1>2. TypeOK
  BY DEF ChatInv
<1>3. c \notin Online /\ inbox[c] = {}
  BY <1>1, <1>2 DEF TypeOK, ChatInv, NotYetIn
<1>4. cliinfo \in CliType /\ OneFd(cliinfo) /\ OnlineOf(cliinfo) = Online
  BY <1>2, Descriptors
<1>5. Online' = Online \cup {c} /\ Clients(cliinfo) \ {f} = Clients(cliinfo)
  <2>1. OnlineOf(cliinfo') = Online'
    BY DEF OnlineOf, Online
  <2>2. cliinfo' = Set(cliinfo, f, c) /\ cliinfo[f] = NoConn
    BY <1>1 DEF Set
  <2>3. cliinfo \in CliType /\ OneFd(cliinfo) /\ c \notin OnlineOf(cliinfo)
    BY <1>3, <1>4
  <2> QED BY <1>4, <2>1, <2>2, <2>3, ClientsAdd
<1>6. Pending' = Pending \cup {<<M("landed", c, 0), d>> : d \in Online}
  <2>1. Fork(cliinfo, Clients(cliinfo), M("landed", c, 0))
    BY <1>1, <1>5 DEF Sendexp
  <2>2. {cliinfo[g] : g \in Clients(cliinfo)} = Online
    BY DEF Online
  <2> QED BY <1>4, <2>1, <2>2, PendingAdded
<1>7. inbox' = IF c \in closed THEN inbox ELSE [inbox EXCEPT ![c] = @ \cup {M("welcome", c, 0)}]
  BY <1>1, <1>3
<1> QED BY <1>1, <1>3, <1>5, <1>6, <1>7 DEF Room!Join, Room!Reach, Room!Say

LEMMA RoomLeave ==
  ASSUME ChatInv, NEW f \in events \ {listenfd}, NEW c, c = cliinfo[f], unread[c] = <<>>,
         Disconnect(c, f), UNCHANGED closed
  PROVE  c \in Conn /\ Room!Leave(c)
<1>0. f \in Clients(cliinfo) /\ TypeOK
  BY DEF ChatInv, EventsKnown
<1>1. /\ cliinfo' = [cliinfo EXCEPT ![f] = NoConn] /\ UNCHANGED inbox
      /\ Sendexp(cliinfo', f, M("left", c, 0))
  BY DEF Disconnect
<1>2. c \in closed
  BY DEF ChatInv, EventsReadable, Readable
<1>3. cliinfo \in CliType /\ OneFd(cliinfo) /\ OnlineOf(cliinfo) = Online /\ c \in Online
      /\ c \in Conn
  BY <1>0, Descriptors
<1>4. /\ cliinfo' \in CliType /\ OneFd(cliinfo') /\ Online' = Online \ {c}
      /\ Clients(cliinfo') \ {f} = Clients(cliinfo')
  <2>1. OnlineOf(cliinfo') = Online'
    BY DEF OnlineOf, Online
  <2>2. cliinfo' = Set(cliinfo, f, NoConn)
    BY <1>1 DEF Set
  <2> QED BY <1>0, <1>3, <2>1, <2>2, ClientsDel
<1>5. Pending' = Pending \cup {<<M("left", c, 0), d>> : d \in Online \ {c}}
  <2>1. Fork(cliinfo', Clients(cliinfo'), M("left", c, 0))
    BY <1>1, <1>4 DEF Sendexp
  <2>2. {cliinfo'[g] : g \in Clients(cliinfo')} = Online \ {c}
    BY <1>4 DEF Online
  <2> QED BY <1>4, <2>1, <2>2, PendingAdded
<1> QED BY <1>1, <1>2, <1>3, <1>4, <1>5 DEF Room!Leave, Room!Say

LEMMA RoomLine ==
  ASSUME ChatInv, NEW f \in events \ {listenfd}, NEW c, c = cliinfo[f], unread[c] # <<>>,
         Command(c, f), UNCHANGED closed
  PROVE  c \in Conn /\ Room!Line(c)
<1>0. f \in Clients(cliinfo) /\ TypeOK
  BY DEF ChatInv, EventsKnown
<1>1. cliinfo \in CliType /\ OneFd(cliinfo) /\ OnlineOf(cliinfo) = Online /\ c \in Online
      /\ c \in Conn
  BY <1>0, Descriptors
<1>2. PICK n : n = wrote[c] - Len(unread[c]) + 1
  OBVIOUS
<1>3. n \in 0 .. MaxLines[c]
  <2>1. Len(unread[c]) \in Nat /\ Len(unread[c]) > 0
    <3>1. unread[c] \in Seq(LineKind)
      BY <1>0, <1>1 DEF TypeOK
    <3> QED BY <3>1, LenProperties
  <2>2. 1 \in 1 .. Len(unread[c])
    BY <2>1
  <2> QED BY <1>0, <1>1, <1>2, <2>2, LinesTaken
<1>4. UNCHANGED Online
  BY DEF Command, Online, Clients
<1>5. \A kind \in Kind : M(kind, c, n) \in Msg /\ M(kind, c, n).about = c
  BY <1>1, <1>3, MsgType DEF M
<1>6. \A kind : Sendexp(cliinfo, f, M(kind, c, n)) =>
        Pending' = Pending \cup {<<M(kind, c, n), d>> : d \in Online \ {c}}
  <2> SUFFICES ASSUME NEW kind, Sendexp(cliinfo, f, M(kind, c, n))
               PROVE  Pending' = Pending \cup {<<M(kind, c, n), d>> : d \in Online \ {c}}
    OBVIOUS
  <2>1. {cliinfo[g] : g \in Clients(cliinfo) \ {f}} = Online \ {c}
    BY <1>0, <1>1 DEF Online, OneFd
  <2> QED BY <1>1, <2>1, PendingAdded DEF Sendexp
<1>7. \A m : Sendstr(c, m) => Room!Reach(c, m)
  BY DEF Sendstr, Room!Reach
<1>8. CASE Text(c, f, n)
  <2>1. UNCHANGED inbox /\ Pending' = Pending \cup {<<M("text", c, n), d>> : d \in Online \ {c}}
    BY <1>6, <1>8 DEF Text
  <2>2. M("text", c, n) \in Msg /\ M("text", c, n).about = c
    BY <1>5 DEF Kind
  <2> QED BY <1>1, <1>4, <2>1, <2>2 DEF Room!Line, Room!Say
<1>9. CASE Name(c, f, n)
  <2>1. /\ Pending' = Pending \cup {<<M("renamed", c, n), d>> : d \in Online \ {c}}
        /\ Room!Reach(c, M("reply", c, n))
    BY <1>6, <1>7, <1>9 DEF Name
  <2>2. /\ M("renamed", c, n) \in Msg /\ M("renamed", c, n).about = c
        /\ M("reply", c, n) \in Msg /\ M("reply", c, n).about = c
    BY <1>5 DEF Kind
  <2> QED BY <1>1, <1>4, <2>1, <2>2 DEF Room!Line, Room!Say
<1>10. CASE Who(c, f, n)
  <2>1. UNCHANGED inbox /\ Fork(cliinfo, {f}, M("who", c, n))
    BY <1>10 DEF Who
  <2>2. Pending' = Pending \cup {<<M("who", c, n), d>> : d \in {c}}
    <3> DEFINE G == {f}
    <3>1. {cliinfo[g] : g \in G} = {c} /\ G \in SUBSET Clients(cliinfo)
      BY <1>0
    <3>2. Fork(cliinfo, G, M("who", c, n))
      BY <2>1
    <3> HIDE DEF G
    <3>3. Pending' = Pending \cup {<<M("who", c, n), d>> : d \in {cliinfo[g] : g \in G}}
      BY <1>1, <3>1, <3>2, PendingAdded
    <3> QED BY <3>1, <3>3
  <2>3. M("who", c, n) \in Msg /\ M("who", c, n).about = c
    BY <1>5 DEF Kind
  <2> QED BY <1>1, <1>4, <2>1, <2>2, <2>3 DEF Room!Line, Room!Say
<1>11. CASE Unknown(c, n)
  <2>1. /\ UNCHANGED Pending
        /\ Room!Reach(c, M("reply", c, n))
    BY <1>7, <1>11, PendingSame DEF Unknown
  <2>2. M("reply", c, n) \in Msg /\ M("reply", c, n).about = c
    BY <1>5 DEF Kind
  <2> QED BY <1>1, <1>4, <2>1, <2>2 DEF Room!Line
<1>12. CASE Exit
  BY <1>1, <1>4, <1>12, PendingSame DEF Exit, Room!Line
<1> QED BY <1>2, <1>8, <1>9, <1>10, <1>11, <1>12 DEF Command

LEMMA RoomDeliver ==
  ASSUME ChatInv, NEW ch \in children, NEW t \in ch.todo, ChildSend(ch, t)
  PROVE  ch.msg \in Msg /\ t[2] \in Conn /\ Room!Deliver(ch.msg, t[2])
<1>1. ch.msg \in Msg /\ t[2] \in Conn
  BY DEF ChatInv, TypeOK
<1>2. <<ch.msg, t[2]>> \in Pending
  BY PendingIs
<1>3. Pending' = Pending \ {<<ch.msg, t[2]>>}
  BY PendingSent DEF ChildSend
<1>4. Room!Reach(t[2], ch.msg)
  BY DEF ChildSend, Sendstr, Room!Reach
<1>5. UNCHANGED <<Online, closed>>
  BY DEF ChildSend, peers, Online, Clients
<1> QED BY <1>1, <1>2, <1>3, <1>4, <1>5 DEF Room!Deliver

LEMMA RoomStep == ChatInv /\ [Next]_vars => [Room!Next]_Room!vars
<1> SUFFICES ASSUME ChatInv, [Next]_vars PROVE [Room!Next]_Room!vars
  OBVIOUS
<1>1. ASSUME UNCHANGED <<cliinfo, children, inbox, closed>>
      PROVE  UNCHANGED Room!vars
  BY <1>1, PendingSame DEF Room!vars, Online, Clients
<1>2. ASSUME NEW c \in Conn, Close(c)
      PROVE  Room!HangUp(c)
  <2>1. UNCHANGED <<Online, Pending>>
    BY <1>2, PendingSame DEF Close, Online, Clients
  <2> QED BY <1>2, <2>1 DEF Close, Room!HangUp
<1>3. CASE Peer
  <2>1. ASSUME NEW c \in Conn, Connect(c) PROVE UNCHANGED Room!vars
    BY <1>1, <2>1 DEF Connect
  <2>2. ASSUME NEW c \in Conn, NEW l \in Lines[c], Write(c, l) PROVE UNCHANGED Room!vars
    BY <1>1, <2>2 DEF Write
  <2> QED BY <1>2, <1>3, <2>1, <2>2 DEF Peer, Room!Next
<1>4. CASE EpollWait \/ UNCHANGED vars
  BY <1>1, <1>4 DEF EpollWait, vars, peers
<1>5. ASSUME NEW f \in Fd, NEW c \in Conn, Accept(c, f)
      PROVE  Room!Next
  BY <1>5, RoomJoin DEF Room!Next
<1>6. ASSUME NEW f \in Fd, Input(f)
      PROVE  Room!Next
  <2>1. /\ f \in events \ {listenfd} /\ UNCHANGED closed
        /\ IF unread[cliinfo[f]] = <<>> THEN Disconnect(cliinfo[f], f) ELSE Command(cliinfo[f], f)
    BY <1>6 DEF Input
  <2>2. \/ cliinfo[f] \in Conn /\ Room!Leave(cliinfo[f])
        \/ cliinfo[f] \in Conn /\ Room!Line(cliinfo[f])
    BY <2>1, RoomLeave, RoomLine
  <2> QED BY <2>2 DEF Room!Next
<1>7. ASSUME NEW ch \in children, ChildExit(ch)
      PROVE  UNCHANGED Room!vars
  <2>1. UNCHANGED <<cliinfo, inbox, closed>> /\ ch.todo = {} /\ children' = children \ {ch}
    BY <1>7 DEF ChildExit, peers
  <2>2. UNCHANGED Pending
    <3>1. \A p : p \in Pending' <=> \E x \in children' : \E t \in x.todo : p = <<x.msg, t[2]>>
      BY DEF Pending
    <3>2. \A p : p \in Pending' <=> p \in Pending
      BY <2>1, <3>1, PendingIs
    <3> QED BY <3>2 DEF Pending
  <2> QED BY <2>1, <2>2 DEF Room!vars, Online, Clients
<1>8. ASSUME NEW ch \in children, NEW t \in ch.todo, ChildSend(ch, t)
      PROVE  Room!Next
  <2> DEFINE p == <<ch.msg, t[2]>>
  <2>1. Room!Deliver(ch.msg, t[2])
    BY <1>8, RoomDeliver
  <2>2. p \in Pending
    BY <2>1 DEF Room!Deliver
  <2>3. Room!Deliver(p[1], p[2])
    BY <2>1
  <2> QED BY <2>2, <2>3 DEF Room!Next
<1> QED BY <1>3, <1>4, <1>5, <1>6, <1>7, <1>8 DEF Next, Server, Children

(* Every behaviour of the server, its children and its clients is one of the *)
(* chat room: what is sent by children that run late, over a table and       *)
(* descriptors that have changed since (sendexp, server.cpp:73-87), reaches  *)
(* those who were online when its line was handled, once, and no one else.   *)
THEOREM Refinement == Spec => ImplementsBroadcast
<1>1. Spec => Room!Spec
  BY Invariance, RoomInit, RoomStep, PTL DEF Spec, Room!Spec
<1> QED BY <1>1 DEF ImplementsBroadcast

-----------------------------------------------------------------------------
(* Who hears what. Of what a client receives, the welcome, the reply to a    *)
(* command of its own and the table it has asked for are about itself, and   *)
(* all the rest is about somebody else.                                      *)
Addressed(m, d) == m.about = d <=> m.kind \in {"welcome", "reply", "who"}

ToSend   == \A ch \in children : \A t \in ch.todo : Addressed(ch.msg, t[2])
Received == \A d \in Conn : \A m \in inbox[d] : Addressed(m, d)

LEMMA AddressedKinds ==
  ASSUME NEW c, NEW n, NEW kind, NEW d
  PROVE  /\ kind \in {"landed", "left", "text", "renamed"} /\ d # c => Addressed(M(kind, c, n), d)
         /\ kind \in {"welcome", "reply", "who"} /\ d = c => Addressed(M(kind, c, n), d)
BY DEF Addressed, M

(* A new child has only such pairs, for any set of the descriptors that a    *)
(* table holds.                                                              *)
LEMMA ForkAddressed ==
  ASSUME ToSend, NEW cli, NEW G, NEW m, Fork(cli, G, m),
         \A g \in G : Addressed(m, cli[g])
  PROVE  ToSend'
<1> DEFINE todo == {<<g, cli[g]>> : g \in G}
           new  == [todo |-> todo, msg |-> m]
<1>1. children' = children \cup {new}
  BY DEF Fork
<1>2. \A t \in todo : Addressed(m, t[2])
  OBVIOUS
<1>3. new.todo = todo /\ new.msg = m
  OBVIOUS
<1> HIDE DEF todo, new
<1>4. \A ch \in {new} : \A t \in ch.todo : Addressed(ch.msg, t[2])
  BY <1>2, <1>3
<1> QED BY <1>1, <1>4 DEF ToSend

LEMMA SendAddressed ==
  ASSUME TypeOK, Received, NEW c \in Conn, NEW m, Sendstr(c, m), Addressed(m, c)
  PROVE  Received'
<1>1. inbox \in [Conn -> SUBSET Msg]
  BY DEF TypeOK
<1>2. CASE UNCHANGED inbox
  BY <1>2 DEF Received
<1>3. CASE inbox' = [inbox EXCEPT ![c] = @ \cup {m}]
  <2>1. inbox' = [inbox EXCEPT ![c] = @ \cup {m}]
    BY <1>3
  <2>2. \A d \in Conn : inbox'[d] = IF d = c THEN inbox[c] \cup {m} ELSE inbox[d]
    BY <1>1, <2>1
  <2> QED BY <2>2 DEF Received
<1> QED BY <1>2, <1>3 DEF Sendstr

(* A client of the table is not known by another descriptor.                 *)
LEMMA OtherClients ==
  ASSUME TypeOK, NEW f \in Clients(cliinfo)
  PROVE  \A g \in Clients(cliinfo) \ {f} : cliinfo[g] # cliinfo[f]
BY DEF TypeOK

LEMMA InputAddressed ==
  ASSUME ChatInv, ToSend, Received, NEW f \in Fd, Input(f)
  PROVE  ToSend' /\ Received'
<1> DEFINE c == cliinfo[f]
           n == wrote[c] - Len(unread[c]) + 1
<1>1. f \in Clients(cliinfo) /\ c \in Conn /\ TypeOK
  BY Descriptors DEF Input, ChatInv, EventsKnown
<1>2. \A g \in Clients(cliinfo) \ {f} : cliinfo[g] # c
  BY <1>1, OtherClients
<1>3. CASE unread[c] = <<>>
  <2>1. /\ cliinfo' = [cliinfo EXCEPT ![f] = NoConn] /\ UNCHANGED inbox
        /\ Fork(cliinfo', Clients(cliinfo') \ {f}, M("left", c, 0))
    BY <1>3 DEF Input, Disconnect, Sendexp
  <2>2. \A g \in Clients(cliinfo') \ {f} : g \in Clients(cliinfo) \ {f} /\ cliinfo'[g] = cliinfo[g]
    BY <1>1, <2>1 DEF Clients, TypeOK
  <2>3. \A g \in Clients(cliinfo') \ {f} : Addressed(M("left", c, 0), cliinfo'[g])
    BY <1>2, <2>2, AddressedKinds
  <2> QED BY <2>1, <2>3, ForkAddressed DEF Received
<1>4. CASE unread[c] # <<>>
  <2>1. \/ Text(c, f, n) \/ Name(c, f, n) \/ Who(c, f, n) \/ Unknown(c, n) \/ Exit
    BY <1>4 DEF Input, Command
  <2> HIDE DEF n
  <2>2. ASSUME NEW kind \in {"text", "renamed"}, Sendexp(cliinfo, f, M(kind, c, n))
        PROVE  ToSend'
    <3>1. \A g \in Clients(cliinfo) \ {f} : Addressed(M(kind, c, n), cliinfo[g])
      BY <1>2, AddressedKinds
    <3> QED BY <2>2, <3>1, ForkAddressed DEF Sendexp
  <2>3. Addressed(M("reply", c, n), c) /\ Addressed(M("who", c, n), c)
    BY AddressedKinds
  <2>4. CASE Text(c, f, n)
    BY <2>2, <2>4 DEF Text, Received
  <2>5. CASE Name(c, f, n)
    BY <1>1, <2>2, <2>3, <2>5, SendAddressed DEF Name
  <2>6. CASE Who(c, f, n)
    <3>1. Fork(cliinfo, {f}, M("who", c, n)) /\ UNCHANGED inbox
      BY <2>6 DEF Who
    <3>2. \A g \in {f} : Addressed(M("who", c, n), cliinfo[g])
      BY <2>3
    <3> QED BY <3>1, <3>2, ForkAddressed DEF Received
  <2>7. CASE Unknown(c, n)
    BY <1>1, <2>3, <2>7, SendAddressed DEF Unknown, ToSend
  <2>8. CASE Exit
    BY <2>8 DEF Exit, ToSend, Received
  <2> QED BY <2>1, <2>4, <2>5, <2>6, <2>7, <2>8
<1> QED BY <1>3, <1>4

LEMMA AcceptAddressed ==
  ASSUME ChatInv, ToSend, Received, NEW f \in Fd, NEW c \in Conn, Accept(c, f)
  PROVE  ToSend' /\ Received'
<1>1. \A g \in Clients(cliinfo) : cliinfo[g] # c
  BY Descriptors DEF Accept, ChatInv, TypeOK
<1>2. \A g \in Clients(cliinfo) \ {f} : Addressed(M("landed", c, 0), cliinfo[g])
  BY <1>1, AddressedKinds
<1>3. ToSend'
  BY <1>2, ForkAddressed DEF Accept, Sendexp
<1>4. Addressed(M("welcome", c, 0), c)
  BY AddressedKinds
<1>5. \A d \in Conn : \A m \in inbox'[d] : m \in inbox[d] \/ (d = c /\ m = M("welcome", c, 0))
  <2>1. inbox' = IF c \in closed THEN inbox ELSE [inbox EXCEPT ![c] = {M("welcome", c, 0)}]
    BY DEF Accept
  <2>2. inbox \in [Conn -> SUBSET Msg]
    BY DEF ChatInv, TypeOK
  <2> HIDE DEF M
  <2>3. CASE c \in closed
    BY <2>1, <2>3
  <2>4. CASE c \notin closed
    <3>1. \A d \in Conn : inbox'[d] = IF d = c THEN {M("welcome", c, 0)} ELSE inbox[d]
      BY ONLY <2>1, <2>2, <2>4
    <3> QED BY ONLY <3>1
  <2> QED BY <2>3, <2>4
<1>6. Received'
  BY <1>4, <1>5 DEF Received
<1> QED BY <1>3, <1>6

LEMMA ChildrenAddressed ==
  ASSUME ChatInv, ToSend, Received, Children
  PROVE  ToSend' /\ Received'
<1>1. PICK ch \in children : ChildExit(ch) \/ \E t \in ch.todo : ChildSend(ch, t)
  BY DEF Children
<1>2. CASE ChildExit(ch)
  BY <1>2 DEF ChildExit, ToSend, Received
<1>3. ASSUME NEW t \in ch.todo, ChildSend(ch, t)
      PROVE  ToSend' /\ Received'
  <2>1. children' = (children \ {ch}) \cup After(ch, t) /\ Sendstr(t[2], ch.msg)
    BY <1>3 DEF ChildSend
  <2>2. ch = [todo |-> ch.todo, msg |-> ch.msg] /\ t[2] \in Conn /\ TypeOK
    BY DEF ChatInv, TypeOK
  <2>3. \A x \in After(ch, t) : x = [todo |-> ch.todo \ {t}, msg |-> ch.msg]
    BY <2>2 DEF After
  <2>4. \A x \in After(ch, t) : x.todo = ch.todo \ {t} /\ x.msg = ch.msg
    BY ONLY <2>3
  <2>5. ToSend'
    BY <2>1, <2>4 DEF ToSend
  <2>6. Addressed(ch.msg, t[2])
    BY DEF ToSend
  <2> QED BY <2>1, <2>2, <2>5, <2>6, SendAddressed
<1> QED BY <1>1, <1>2, <1>3

LEMMA AddressedStep == ChatInv /\ ToSend /\ Received /\ [Next]_vars => (ToSend /\ Received)'
<1> SUFFICES ASSUME ChatInv, ToSend, Received, [Next]_vars
             PROVE  ToSend' /\ Received'
  OBVIOUS
<1>1. ASSUME NEW c \in Conn, Close(c)
      PROVE  ToSend' /\ Received'
  <2>1. inbox' = [inbox EXCEPT ![c] = {}] /\ UNCHANGED children
    BY <1>1 DEF Close
  <2>2. \A d \in Conn : inbox'[d] \subseteq inbox[d]
    BY <2>1 DEF ChatInv, TypeOK
  <2> QED BY <2>1, <2>2 DEF ToSend, Received
<1>2. ASSUME NEW c \in Conn, Connect(c) \/ \E l \in Lines[c] : Write(c, l)
      PROVE  ToSend' /\ Received'
  BY <1>2 DEF Connect, Write, ToSend, Received
<1>3. CASE EpollWait \/ UNCHANGED vars
  BY <1>3 DEF EpollWait, vars, ToSend, Received
<1> QED BY <1>1, <1>2, <1>3, InputAddressed, AcceptAddressed, ChildrenAddressed
        DEF Next, Peer, Server

(* No broadcast comes back to its author, and no answer reaches anyone but   *)
(* the client that asked (sendexp with the author's descriptor and who,      *)
(* server.cpp:73-87, 147-158), however late the children run and whoever has *)
(* the author's descriptor by then.                                          *)
THEOREM AddressedHolds == Spec => []Received
<1>1. Init => ToSend /\ Received
  BY DEF Init, ToSend, Received
<1> QED BY <1>1, Invariance, AddressedStep, PTL DEF Spec
=============================================================================
