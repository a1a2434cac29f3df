-------------------------------- MODULE Dnsd --------------------------------
(* The name server of Homework/2: one thread that takes a query, looks for   *)
(* the closest of its zones and answers from it, or forwards the query to    *)
(* another server and sends back whatever datagram comes next on that socket.*)
(*                                                                           *)
(* A domain name (DN) is the sequence of its labels, top-level domain first, *)
(* as in dn.hpp. Of the texts of labels the model keeps what niplike asks:   *)
(* whether one has up to three digits, is a number that an address can hold, *)
(* or is too long. TTLs and record data are left out, except the names in    *)
(* the data, whose addresses are added to the reply.                         *)
EXTENDS Naturals, Sequences, FiniteSets

CONSTANTS Label,      \* the labels of names
          Digits3,    \* labels of one to three digits
          Octet,      \* those that inet_pton takes for a part of an address
          Long,       \* labels of 62 or 63 characters
          zones,      \* config.zones: the DNs of the zones ...
          rrs,        \* ... and the records of each
          Query,      \* the queries that clients make
          NoQuery,
          MaxSend,    \* queries that are sent in all (bound)
          MaxWaiting, \* queries that the socket's buffer holds (bound)
          MaxDup,     \* datagrams that the network duplicates (bound)
          Unreliable  \* whether upstream's answers may be lost or refused

TYPE == {"A", "AAAA", "NS", "CNAME", "SOA", "MX", "TXT"}
Root == << >>

ASSUME DnsdAssumption ==
  /\ Octet \subseteq Digits3 /\ Digits3 \cup Long \subseteq Label
  /\ zones \subseteq Seq(Label) \ {Root}
  /\ \A x \in Query : x.name \in Seq(Label) /\ x.count \in Nat
  /\ \A z \in zones : \E rr \in rrs[z] : rr.name = z /\ rr.type = "SOA" /\ rr.clas = "IN"
  /\ NoQuery \notin Query
  /\ MaxSend \in Nat /\ MaxWaiting \in Nat /\ MaxDup \in Nat /\ Unreliable \in BOOLEAN

VARIABLES sent,    \* the queries that clients have sent ...
          sends,   \* ... and how many in all, each again included
          listen,  \* queries waiting at listenfd, in order
          pc,      \* "recv", "lookup", "send", "await" or "down"
          q,       \* the query in hand
          dn,      \* the suffix of its name that is looked for
          n,       \* queries forwarded so far
          asked,   \* the forwarded, <<query, n>>, on their way to upstream
          net,     \* upstream's answers on their way back
          dups,    \* duplicated so far
          conn,    \* answers waiting at connfd, in order
          connerr, \* connfd has a pending error (port unreachable)
          replies  \* replies that clients have got, each <<to, reply>>

clients == <<sent, sends, listen>>
wires   == <<asked, net, dups, conn, connerr>>
hand    == <<pc, q, dn>>
vars    == <<clients, wires, hand, n, replies>>

-----------------------------------------------------------------------------
(* Names and zones.                                                          *)

IsIn(name, z) == Len(z) <= Len(name) /\ SubSeq(name, 1, Len(z)) = z     \* operator%
Minus(name, z) == SubSeq(name, Len(z) + 1, Len(name))                   \* operator-

NipLike(name, z) ==
  LET sub == Minus(name, z)
  IN Len(sub) = 5 /\ sub[1] \notin Long /\ \A i \in 2 .. 5 : sub[i] \in Digits3

IsAddress(name, z) == \A i \in 2 .. 5 : Minus(name, z)[i] \in Octet

RR(name, type, clas, datadn) ==
  [name |-> name, type |-> type, clas |-> clas, datadn |-> datadn]

NipRecord(name) == RR(name, "A", "IN", Root)

Find(z, name, type, clas) ==
  {rr \in rrs[z] : rr.name = name /\ rr.type = type /\ rr.clas = clas}

Apex(z, type) == Find(z, z, type, "IN")

GetIP(z, name) == Find(z, name, "A", "IN") \cup Find(z, name, "AAAA", "IN")

Reply(about, z, rcode, answer, authority, additional) ==
  [about |-> about, zone |-> z, rcode |-> rcode, answer |-> answer,
   authority |-> authority, additional |-> additional]

Error(x, z, rcode) == Reply(x, z, rcode, {}, {}, {})

(* Zone::get and the sections filled from it. A zone without NS records      *)
(* throws the name error after the answers have been added.                  *)
MutantZoneReply(x, z) ==   \* finding nothing is not an error
  IF x.type \notin TYPE THEN Error(x, z, 4)
  ELSE Reply(x, z, 0, Find(z, x.name, x.type, x.clas), Apex(z, "NS"), {})

ZoneReply(x, z) ==
  LET nip   == NipLike(x.name, z)
      found == IF nip THEN {NipRecord(x.name)} ELSE Find(z, x.name, x.type, x.clas)
      ns    == IF x.type = "NS" THEN {} ELSE Apex(z, "NS")
      glue  == UNION {GetIP(z, rr.datadn) : rr \in found}
  IN CASE nip /\ ~IsAddress(x.name, z)     -> Error(x, z, 1)
       [] ~nip /\ x.type \notin TYPE       -> Error(x, z, 4)
       [] ~nip /\ x.type \in TYPE /\ found = {} ->
            Reply(x, z, 3, {}, Apex(z, "SOA"), {})
       [] OTHER ->
            IF x.type = "NS" \/ ns # {} THEN Reply(x, z, 0, found, ns, glue)
                                        ELSE Reply(x, z, 3, found, Apex(z, "SOA"), glue)

-----------------------------------------------------------------------------
(* The clients.                                                              *)

SendQuery(x) ==
  /\ sends < MaxSend /\ Len(listen) < MaxWaiting
  /\ sent' = sent \cup {x} /\ sends' = sends + 1
  /\ listen' = Append(listen, x)
  /\ UNCHANGED <<wires, hand, n, replies>>

-----------------------------------------------------------------------------
(* Server::interactive and Server::query.                                    *)

Send(x, reply) == replies' = replies \cup {<<x, reply>>}
Idle == pc' = "recv" /\ q' = NoQuery /\ dn' = Root

Recv ==
  /\ pc = "recv" /\ listen # <<>> /\ Head(listen).count = 1
  /\ q' = Head(listen) /\ listen' = Tail(listen)
  /\ dn' = q'.name
  /\ pc' = "lookup"
  /\ UNCHANGED <<sent, sends, wires, n, replies>>

NotOneQuestion ==
  /\ pc = "recv" /\ listen # <<>> /\ Head(listen).count # 1
  /\ listen' = Tail(listen)
  /\ Send(Head(listen), Error(Head(listen), Root, 4))
  /\ UNCHANGED <<sent, sends, wires, hand, n>>

PopBack ==
  /\ pc = "lookup" /\ dn # Root /\ dn \notin zones
  /\ dn' = SubSeq(dn, 1, Len(dn) - 1)
  /\ UNCHANGED <<clients, wires, pc, q, n, replies>>

MutantAnswer ==   \* looks at the shortest suffixes first
  /\ pc = "lookup"
  /\ \E i \in 1 .. Len(q.name) :
       /\ SubSeq(q.name, 1, i) \in zones
       /\ \A j \in 1 .. i - 1 : SubSeq(q.name, 1, j) \notin zones
       /\ Send(q, ZoneReply(q, SubSeq(q.name, 1, i)))
  /\ Idle
  /\ UNCHANGED <<clients, wires, n>>

Answer ==
  /\ pc = "lookup" /\ dn \in zones
  /\ Send(q, ZoneReply(q, dn))
  /\ Idle
  /\ UNCHANGED <<clients, wires, n>>

Forward ==
  /\ pc = "lookup" /\ dn = Root
  /\ pc' = "send"
  /\ UNCHANGED <<clients, wires, q, dn, n, replies>>

-----------------------------------------------------------------------------
(* Server::forward. A pending error makes send fail, which is only printed,  *)
(* and makes recv return -1, which is then the length of a string: an        *)
(* exception that nobody catches.                                            *)

SendUpstream ==
  /\ pc = "send"
  /\ pc' = "await"
  /\ n' = n + 1
  /\ connerr' = FALSE
  /\ asked' = IF connerr THEN asked ELSE asked \cup {<<q, n>>}
  /\ UNCHANGED <<clients, q, dn, net, dups, conn, replies>>

MutantRecvUpstream ==   \* gives up when the answer is not there yet
  /\ pc = "await" /\ ~connerr
  /\ conn' = IF conn = <<>> THEN conn ELSE Tail(conn)
  /\ IF conn = <<>> THEN Send(q, Error(q, Root, 3))
                    ELSE Send(q, Reply(Head(conn)[1], Root, 0, {}, {}, {}))
  /\ Idle
  /\ UNCHANGED <<clients, n, asked, net, dups, connerr>>

MutantDropStale ==   \* drops an answer to another query, and with it this one
  /\ pc = "await" /\ ~connerr /\ conn # <<>>
  /\ conn' = Tail(conn)
  /\ IF Head(conn)[1] = q THEN Send(q, Reply(q, Root, 0, {}, {}, {})) ELSE UNCHANGED replies
  /\ Idle
  /\ UNCHANGED <<clients, n, asked, net, dups, connerr>>

RecvUpstream ==
  /\ pc = "await" /\ ~connerr /\ conn # <<>>
  /\ conn' = Tail(conn)
  /\ Send(q, Reply(Head(conn)[1], Root, 0, {}, {}, {}))
  /\ Idle
  /\ UNCHANGED <<clients, n, asked, net, dups, connerr>>

RecvError ==
  /\ pc = "await" /\ connerr
  /\ connerr' = FALSE
  /\ pc' = "down"
  /\ UNCHANGED <<clients, q, dn, n, asked, net, dups, conn, replies>>

-----------------------------------------------------------------------------
(* Upstream and the network.                                                 *)

Upstream(a) ==
  /\ a \in asked
  /\ asked' = asked \ {a} /\ net' = net \cup {a}
  /\ UNCHANGED <<clients, hand, n, dups, conn, connerr, replies>>

Lose(a) ==
  /\ Unreliable /\ a \in asked
  /\ asked' = asked \ {a}
  /\ UNCHANGED <<clients, hand, n, net, dups, conn, connerr, replies>>

Refuse(a) ==
  /\ Unreliable /\ a \in asked
  /\ asked' = asked \ {a} /\ connerr' = TRUE
  /\ UNCHANGED <<clients, hand, n, net, dups, conn, replies>>

Arrive(a) ==
  /\ a \in net
  /\ conn' = Append(conn, a)
  /\ \/ net' = net \ {a} /\ UNCHANGED dups
     \/ dups < MaxDup /\ dups' = dups + 1 /\ UNCHANGED net
  /\ UNCHANGED <<clients, hand, n, asked, connerr, replies>>

-----------------------------------------------------------------------------
Init ==
  /\ sent = {} /\ sends = 0 /\ listen = <<>>
  /\ pc = "recv" /\ q = NoQuery /\ dn = Root
  /\ n = 0 /\ asked = {} /\ net = {} /\ dups = 0
  /\ conn = <<>> /\ connerr = FALSE
  /\ replies = {}

Server == \/ Recv \/ NotOneQuestion \/ PopBack \/ Answer \/ Forward
          \/ SendUpstream \/ RecvUpstream \/ RecvError

Network == \/ \E a \in asked : Upstream(a) \/ Lose(a) \/ Refuse(a)
           \/ \E a \in net : Arrive(a)

Next == (\E x \in Query : SendQuery(x)) \/ Server \/ Network

Spec == Init /\ [][Next]_vars

(* The server runs, upstream answers what reaches it, and what the network   *)
(* does not lose arrives.                                                    *)
FairSpec == Spec /\ WF_vars(Server) /\ WF_vars(Network)

-----------------------------------------------------------------------------
(* Properties.                                                               *)

Outstanding == asked \cup net \cup {conn[i] : i \in 1 .. Len(conn)}

RecordOf(rr) == \E z \in zones : rr \in rrs[z] \/ \E x \in Query : rr = NipRecord(x.name)

IsReply(reply) ==
  /\ reply.about \in Query
  /\ reply.zone \in zones \cup {Root}
  /\ reply.rcode \in {0, 1, 3, 4}
  /\ \A rr \in reply.answer \cup reply.authority \cup reply.additional : RecordOf(rr)

(* Every variable has its type; while a query is looked up, dn is a suffix of*)
(* its name, and only a query whose name is in no zone is forwarded          *)
(* (server.cpp:97-118).                                                      *)
TypeOK ==
  /\ sent \subseteq Query /\ sends \in 0 .. MaxSend /\ listen \in Seq(Query)
  /\ pc \in {"recv", "lookup", "send", "await", "down"}
  /\ IF pc = "recv" THEN q = NoQuery /\ dn = Root
     ELSE /\ q \in Query /\ IsIn(q.name, dn)
          /\ \A z \in zones : IsIn(q.name, z) => Len(z) <= Len(dn)
  /\ n \in Nat /\ Outstanding \subseteq Query \X (0 .. n - 1)
  /\ dups \in 0 .. MaxDup /\ connerr \in BOOLEAN
  /\ \A r \in replies : r[1] \in Query /\ IsReply(r[2])

(* Until the network duplicates a datagram, the reply that a client gets is  *)
(* about its own query. Whatever arrives at connfd is taken for the answer   *)
(* (server.cpp:126), so this needs a thread that never has two questions     *)
(* outstanding, whatever is lost or refused.                                 *)
ReplyIsOwn == dups = 0 => \A r \in replies : r[2].about = r[1]

(* A query is answered from the zone whose domain is the longest suffix of   *)
(* its name, and forwarded only if no zone's is (server.cpp:97-118).         *)
ClosestZone ==
  \A r \in replies :
    LET name == r[1].name
        mine == {z \in zones : IsIn(name, z)}
    IN r[1].count = 1 =>
         IF mine = {} THEN r[2].zone = Root
         ELSE r[2].zone \in mine /\ \A z \in mine : Len(z) <= Len(r[2].zone)

(* The code of a reply from a zone agrees with its sections: without an error*)
(* there are answers; with a name error there are none and the authority is  *)
(* the zone's SOA (server.cpp:101-113). It takes a zone with an NS record.   *)
RcodeAgrees ==
  \A r \in replies :
    LET reply == r[2] IN
      reply.zone # Root =>
        /\ reply.rcode = 0 => reply.answer # {}
        /\ reply.rcode = 3 => /\ reply.answer = {}
                              /\ \A rr \in reply.authority : rr.type = "SOA"
        /\ reply.rcode \in {1, 4} => reply.answer \cup reply.authority = {}

(* Homework/2/README.md:193: a name in a domain of the server gets its       *)
(* records. In a zone without NS records, which the format of zone files     *)
(* allows, the name error of the authority section (server.cpp:109) turns the*)
(* reply into "no such name".                                                *)
CorrectAddress ==
  \A r \in replies :
    LET x == r[1] IN
      x.count = 1 => \A z \in zones :
        LET found == Find(z, x.name, x.type, x.clas) IN
          found # {} /\ r[2].zone = z /\ ~NipLike(x.name, z) =>
            r[2].answer = found /\ r[2].rcode = 0

(* Homework/2/README.md:56: a name that is an address, any number of labels  *)
(* of up to 61 characters, and a domain of the server is answered with the   *)
(* address. niplike (record.cpp:71) takes exactly one such label.            *)
NipAnswered ==
  \A r \in replies :
    LET x == r[1]
        AddressIn(z) == LET sub == Minus(x.name, z) IN
          /\ IsIn(x.name, z) /\ Len(sub) >= 4
          /\ \A i \in 1 .. Len(sub) - 4 : sub[i] \notin Long
          /\ \A i \in Len(sub) - 3 .. Len(sub) : sub[i] \in Octet
    IN (x.count = 1 /\ \E z \in zones : AddressIn(z)) => NipRecord(x.name) \in r[2].answer

Answered(x) == \E r \in replies : r[1] = x

(* recv waits, without a timeout, for a datagram that will not come.         *)
Blocked == pc = "await" /\ Outstanding = {} /\ ~connerr

(* Every query is answered (interactive, server.cpp:38-60), unless the server*)
(* is down or blocked for ever by an answer that was lost (server.cpp:126).  *)
EventuallyAnswered ==
  \A x \in Query : x \in sent ~> (Answered(x) \/ pc = "down" \/ []Blocked)

(* Homework/2/README.md:20: a query in a domain of the server is responded   *)
(* to. An answer of upstream that is lost leaves the only thread in recv     *)
(* (server.cpp:126), and every later query, local ones too, in the buffer.   *)
LocalAnswered ==
  \A x \in Query :
    (x \in sent /\ \E z \in zones : IsIn(x.name, z)) ~> (Answered(x) \/ pc = "down")
=============================================================================
