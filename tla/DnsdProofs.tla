----------------------------- MODULE DnsdProofs -----------------------------
(* Proofs about the name server for every configuration and every set of    *)
(* queries: it answers from the closest zone, until the network duplicates a *)
(* datagram every client gets the answer to its own query, and the code of a *)
(* reply agrees with its sections in every zone that has a name server.      *)
EXTENDS Dnsd, SequenceTheorems, TLAPS

(* The suffix of the name that is looked for: no configured domain longer    *)
(* than it holds the name.                                                   *)
Suffix(name, d) ==
  /\ d \in Seq(Label) /\ IsIn(name, d)
  /\ \A z \in zones : IsIn(name, z) => Len(z) <= Len(d)

LEMMA WholeName ==
  ASSUME NEW name \in Seq(Label)
  PROVE  Suffix(name, name)
<1>1. SubSeq(name, 1, Len(name)) = name
  BY SubSeqProperties
<1> QED BY <1>1 DEF Suffix, IsIn

(* dn.pop_back() when no zone has this domain.                               *)
LEMMA ShorterSuffix ==
  ASSUME NEW name \in Seq(Label), NEW d \in Seq(Label), Suffix(name, d),
         d # Root, d \notin zones
  PROVE  Suffix(name, SubSeq(d, 1, Len(d) - 1))
<1> DEFINE k == Len(d)
           e == SubSeq(d, 1, k - 1)
<1>1. k \in Nat \ {0} /\ k <= Len(name) /\ d = SubSeq(name, 1, k)
  BY EmptySeq DEF Suffix, IsIn, Root
<1>2. e \in Seq(Label) /\ Len(e) = k - 1
  BY <1>1
<1>3. e = SubSeq(name, 1, k - 1)
  <2>1. Len(SubSeq(name, 1, k - 1)) = k - 1 /\ SubSeq(name, 1, k - 1) \in Seq(Label)
    BY <1>1
  <2>2. \A i \in 1 .. k - 1 : e[i] = SubSeq(name, 1, k - 1)[i]
    BY <1>1
  <2> QED BY <1>2, <2>1, <2>2, SeqEqual
<1>4. ASSUME NEW z \in zones, IsIn(name, z)
      PROVE  Len(z) <= k - 1
  <2>1. Len(z) <= k /\ Len(z) \in Nat /\ z = SubSeq(name, 1, Len(z))
    BY <1>4, DnsdAssumption DEF Suffix, IsIn
  <2>2. Len(z) # k
    BY <1>1, <2>1
  <2>3. \A i, j \in Nat : i <= j /\ i # j => i <= j - 1
    OBVIOUS
  <2> HIDE DEF k
  <2> QED BY <1>1, <2>1, <2>2, <2>3
<1>5. IsIn(name, e)
  BY <1>1, <1>2, <1>3 DEF IsIn
<1> QED BY <1>2, <1>4, <1>5 DEF Suffix

(* At the empty name the loop has seen that no zone holds the name.          *)
LEMMA NoZone ==
  ASSUME NEW name, Suffix(name, Root)
  PROVE  \A z \in zones : ~IsIn(name, z)
<1> SUFFICES ASSUME NEW z \in zones, IsIn(name, z)
             PROVE  FALSE
  OBVIOUS
<1>1. Len(z) <= 0 /\ z \in Seq(Label) /\ z # << >>
  BY DnsdAssumption DEF Suffix, Root
<1> QED BY <1>1, EmptySeq

LEMMA ZoneOfReply ==
  ASSUME NEW x, NEW z
  PROVE  (ZoneReply(x, z)).zone = z /\ (ZoneReply(x, z)).about = x
BY DEF ZoneReply, Reply, Error

-----------------------------------------------------------------------------
LoopInv ==
  /\ listen \in Seq(Query)
  /\ pc \in {"recv", "lookup", "send", "await", "down"}
  /\ pc # "recv" => q \in Query /\ Suffix(q.name, dn)
  /\ pc \in {"send", "await"} => dn = Root

RightZone(r) ==
  r[1].count = 1 =>
    LET mine == {z \in zones : IsIn(r[1].name, z)}
    IN IF mine = {} THEN r[2].zone = Root
       ELSE r[2].zone \in mine /\ \A z \in mine : Len(z) <= Len(r[2].zone)

LEMMA ClosestZoneIs == ClosestZone <=> \A r \in replies : RightZone(r)
BY DEF ClosestZone, RightZone

LEMMA ZoneInit == Init => LoopInv /\ ClosestZone
BY DEF Init, LoopInv, ClosestZone

LEMMA LoopStep == LoopInv /\ [Next]_vars => LoopInv'
<1> SUFFICES ASSUME LoopInv, [Next]_vars
             PROVE  LoopInv'
  OBVIOUS
<1> USE DEF LoopInv
<1>1. ASSUME NEW x \in Query, SendQuery(x)
      PROVE  LoopInv'
  BY <1>1 DEF SendQuery, wires, hand
<1>2. CASE Recv
  <2>1. q' \in Query /\ listen' \in Seq(Query)
    BY <1>2 DEF Recv
  <2>2. Suffix(q'.name, q'.name)
    BY <2>1, WholeName, DnsdAssumption
  <2> QED BY <1>2, <2>1, <2>2 DEF Recv, Suffix
<1>3. CASE NotOneQuestion
  BY <1>3 DEF NotOneQuestion, hand
<1>4. CASE PopBack
  <2>1. Suffix(q.name, dn')
    <3>1. q.name \in Seq(Label) /\ dn \in Seq(Label) /\ Suffix(q.name, dn)
      BY <1>4, DnsdAssumption DEF PopBack, Suffix
    <3> QED BY <1>4, <3>1, ShorterSuffix DEF PopBack
  <2> QED BY <1>4, <2>1 DEF PopBack, Suffix, clients
<1>5. CASE Answer
  BY <1>5 DEF Answer, Idle, clients
<1>6. CASE Forward
  BY <1>6 DEF Forward, clients, Suffix
<1>7. CASE SendUpstream
  BY <1>7 DEF SendUpstream, clients, Suffix
<1>8. CASE RecvUpstream
  BY <1>8 DEF RecvUpstream, Idle, clients
<1>9. CASE RecvError
  BY <1>9 DEF RecvError, clients, Suffix
<1>10. CASE Network
  BY <1>10 DEF Network, Upstream, Lose, Refuse, Arrive, clients, hand, Suffix
<1>11. CASE UNCHANGED vars
  BY <1>11 DEF vars, clients, hand, Suffix
<1> QED BY <1>1, <1>2, <1>3, <1>4, <1>5, <1>6, <1>7, <1>8, <1>9, <1>10, <1>11
        DEF Next, Server

LEMMA ZoneStep == LoopInv /\ ClosestZone /\ [Next]_vars => ClosestZone'
<1> SUFFICES ASSUME LoopInv, ClosestZone, [Next]_vars
             PROVE  ClosestZone'
  OBVIOUS
<1>0. \A r \in replies : RightZone(r)
  BY ClosestZoneIs
<1>1. ASSUME NEW r, replies' = replies \cup {r}, RightZone(r)
      PROVE  ClosestZone'
  BY <1>0, <1>1 DEF ClosestZone, RightZone
<1>2. ASSUME UNCHANGED replies
      PROVE  ClosestZone'
  BY <1>2 DEF ClosestZone
<1>3. CASE NotOneQuestion
  <2> DEFINE r == <<Head(listen), Error(Head(listen), Root, 4)>>
  <2>1. replies' = replies \cup {r} /\ RightZone(r)
    BY <1>3 DEF NotOneQuestion, Send, RightZone
  <2> QED BY <1>1, <2>1
<1>4. CASE Answer
  <2> DEFINE r == <<q, ZoneReply(q, dn)>>
  <2>1. replies' = replies \cup {r}
    BY <1>4 DEF Answer, Send
  <2>2. r[1] = q /\ r[2].zone = dn
    BY ZoneOfReply
  <2>3. Suffix(q.name, dn) /\ dn \in zones
    BY <1>4 DEF Answer, LoopInv
  <2>4. RightZone(r)
    BY <2>2, <2>3 DEF RightZone, Suffix
  <2> QED BY <1>1, <2>1, <2>4
<1>5. CASE RecvUpstream
  <2> DEFINE r == <<q, Reply(Head(conn)[1], Root, 0, {}, {}, {})>>
  <2>1. replies' = replies \cup {r}
    BY <1>5 DEF RecvUpstream, Send
  <2>2. r[1] = q /\ r[2].zone = Root
    BY DEF Reply
  <2>3. \A z \in zones : ~IsIn(q.name, z)
    BY <1>5, NoZone DEF RecvUpstream, LoopInv
  <2>4. RightZone(r)
    BY <2>2, <2>3 DEF RightZone
  <2> QED BY <1>1, <2>1, <2>4
<1>6. CASE Recv \/ PopBack \/ Forward \/ SendUpstream \/ RecvError \/ Network
           \/ (\E x \in Query : SendQuery(x)) \/ UNCHANGED vars
  BY <1>2, <1>6 DEF Recv, PopBack, Forward, SendUpstream, RecvError, Network, Upstream,
     Lose, Refuse, Arrive, SendQuery, vars
<1> QED BY <1>3, <1>4, <1>5, <1>6 DEF Next, Server

(* Every query is answered from the zone whose domain is the longest suffix  *)
(* of its name, and forwarded only when there is none (server.cpp:97-118),   *)
(* whatever zones are configured and whatever the network does.              *)
THEOREM AnswersFromClosestZone == Spec => []ClosestZone
<1>1. LoopInv /\ ClosestZone /\ [Next]_vars => (LoopInv /\ ClosestZone)'
  BY LoopStep, ZoneStep
<1> QED BY <1>1, ZoneInit, PTL DEF Spec

-----------------------------------------------------------------------------
(* While the server waits for upstream at most one datagram is on its way,   *)
(* and none when it does not: nothing is left to be mistaken for the answer  *)
(* to a later query (forward, server.cpp:121-129).                           *)
OneOutstanding ==
  LET it == <<q, n - 1>>
      Quiet == asked = {} /\ net = {} /\ conn = <<>>
  IN IF pc # "await" THEN Quiet /\ ~connerr
     ELSE \/ Quiet   \* lost, or refused
          \/ asked = {it} /\ net = {} /\ conn = <<>> /\ ~connerr
          \/ asked = {} /\ net = {it} /\ conn = <<>> /\ ~connerr
          \/ asked = {} /\ net = {} /\ conn = <<it>> /\ ~connerr

AllOwn == \A r \in replies : r[2].about = r[1]
Own    == n \in Nat /\ OneOutstanding /\ AllOwn

(* The network has duplicated nothing so far, or the rest is not promised.   *)
OwnInv == dups \in Nat /\ (dups = 0 => Own)

LEMMA OwnInit == Init => OwnInv
BY DEF Init, OwnInv, Own, OneOutstanding, AllOwn

(* Without duplicates an answer that arrives leaves the network.             *)
LEMMA OwnNetwork ==
  ASSUME Own, dups = 0, dups' = 0, Network
  PROVE  Own'
<1> USE DEF Own
<1>1. UNCHANGED <<pc, q, n, replies>>
  BY DEF Network, Upstream, Lose, Refuse, Arrive, hand
<1>2. AllOwn'
  BY <1>1 DEF AllOwn
<1> DEFINE it == <<q, n - 1>>
<1>3. pc = "await"
  BY DEF Network, OneOutstanding
<1>4. ASSUME NEW a \in asked, Upstream(a) \/ Lose(a) \/ Refuse(a)
      PROVE  OneOutstanding'
  <2>1. asked = {it} /\ a = it /\ net = {} /\ conn = <<>> /\ ~connerr
    BY <1>3, <1>4 DEF OneOutstanding
  <2>2. asked' = {} /\ conn' = <<>>
    BY <1>4, <2>1 DEF Upstream, Lose, Refuse
  <2>3. (net' = {it} /\ ~connerr') \/ net' = {}
    BY <1>4, <2>1 DEF Upstream, Lose, Refuse
  <2> QED BY <1>1, <1>3, <2>2, <2>3 DEF OneOutstanding
<1>5. ASSUME NEW a \in net, Arrive(a)
      PROVE  OneOutstanding'
  <2>1. asked = {} /\ net = {it} /\ a = it /\ conn = <<>> /\ ~connerr
    BY <1>3, <1>5 DEF OneOutstanding
  <2>2. net' = {}
    BY <1>5, <2>1 DEF Arrive
  <2>3. conn' = <<it>> /\ asked' = {} /\ ~connerr'
    BY <1>5, <2>1 DEF Arrive
  <2> QED BY <1>1, <1>3, <2>2, <2>3 DEF OneOutstanding
<1> QED BY <1>1, <1>2, <1>4, <1>5 DEF Network

LEMMA OwnStep ==
  ASSUME Own, dups = 0, dups' = 0, [Next]_vars
  PROVE  Own'
<1> USE DEF Own
<1>1. ASSUME NEW x \in Query, SendQuery(x)
      PROVE  Own'
  BY <1>1 DEF SendQuery, wires, hand, OneOutstanding, AllOwn
<1>2. CASE Recv
  BY <1>2 DEF Recv, wires, OneOutstanding, AllOwn
<1>3. CASE NotOneQuestion
  <2>1. (Error(Head(listen), Root, 4)).about = Head(listen)
    BY DEF Error, Reply
  <2>2. AllOwn'
    BY <1>3, <2>1 DEF NotOneQuestion, Send, AllOwn
  <2> QED BY <1>3, <2>2 DEF NotOneQuestion, wires, hand, OneOutstanding
<1>4. CASE PopBack \/ Forward
  BY <1>4 DEF PopBack, Forward, clients, wires, OneOutstanding, AllOwn
<1>5. CASE Answer
  <2>1. AllOwn'
    BY <1>5, ZoneOfReply DEF Answer, Send, AllOwn
  <2> QED BY <1>5, <2>1 DEF Answer, Idle, wires, OneOutstanding
<1>6. CASE SendUpstream
  <2>1. asked = {} /\ net = {} /\ conn = <<>> /\ ~connerr
    BY <1>6 DEF SendUpstream, OneOutstanding
  <2>2. n' = n + 1 /\ n' - 1 = n /\ n' \in Nat
    BY <1>6 DEF SendUpstream
  <2>3. asked' = {<<q', n' - 1>>} /\ net' = {} /\ conn' = <<>> /\ ~connerr'
    BY <1>6, <2>1, <2>2 DEF SendUpstream
  <2>4. AllOwn'
    BY <1>6 DEF SendUpstream, AllOwn
  <2> QED BY <1>6, <2>2, <2>3, <2>4 DEF SendUpstream, OneOutstanding
<1>7. CASE RecvUpstream
  <2>1. asked = {} /\ net = {} /\ conn = <<<<q, n - 1>>>> /\ ~connerr
    BY <1>7 DEF RecvUpstream, OneOutstanding
  <2>2. Head(conn)[1] = q /\ Tail(conn) = <<>>
    BY <2>1
  <2>3. asked' = {} /\ net' = {} /\ conn' = <<>> /\ ~connerr' /\ pc' = "recv"
    BY <1>7, <2>1, <2>2 DEF RecvUpstream, Idle
  <2>4. (Reply(Head(conn)[1], Root, 0, {}, {}, {})).about = q
    BY <2>2 DEF Reply
  <2>5. AllOwn'
    BY <1>7, <2>4 DEF RecvUpstream, Send, AllOwn
  <2> QED BY <1>7, <2>3, <2>5 DEF RecvUpstream, OneOutstanding
<1>8. CASE RecvError
  BY <1>8 DEF RecvError, OneOutstanding, AllOwn
<1>9. CASE Network
  BY <1>9, OwnNetwork
<1>10. CASE UNCHANGED vars
  BY <1>10 DEF vars, clients, wires, hand, OneOutstanding, AllOwn
<1> QED BY <1>1, <1>2, <1>3, <1>4, <1>5, <1>6, <1>7, <1>8, <1>9, <1>10
        DEF Next, Server

LEMMA OwnPreserved == OwnInv /\ [Next]_vars => OwnInv'
<1> SUFFICES ASSUME OwnInv, [Next]_vars
             PROVE  OwnInv'
  OBVIOUS
<1>1. dups' = dups \/ dups' = dups + 1
  BY DEF Next, SendQuery, Server, Recv, NotOneQuestion, PopBack, Answer, Forward, SendUpstream,
     RecvUpstream, RecvError, Network, Upstream, Lose, Refuse, Arrive, vars, wires
<1>2. dups' \in Nat /\ (dups' = 0 => dups = 0)
  BY <1>1 DEF OwnInv
<1> QED BY <1>2, OwnStep DEF OwnInv

(* Whatever the network loses, refuses or delays, until it duplicates a      *)
(* datagram every client gets the answer to its own query, although forward()*)
(* takes any datagram (server.cpp:121-129): there is never another one on its*)
(* way.                                                                      *)
THEOREM RepliesAreOwn == Spec => []ReplyIsOwn
<1>1. OwnInv => ReplyIsOwn
  BY DEF OwnInv, Own, AllOwn, ReplyIsOwn
<1> QED BY <1>1, OwnInit, OwnPreserved, PTL DEF Spec

-----------------------------------------------------------------------------
(* dig and the tests ask zones that name their servers; for a zone that does *)
(* not, the name error of the authority section takes back a reply that has  *)
(* answers already (server.cpp:101-113).                                     *)
EveryZoneHasNs == \A z \in zones : Apex(z, "NS") # {}

Agrees(reply) ==
  reply.zone # Root =>
    /\ reply.rcode = 0 => reply.answer # {}
    /\ reply.rcode = 3 => /\ reply.answer = {}
                          /\ \A rr \in reply.authority : rr.type = "SOA"
    /\ reply.rcode \in {1, 4} => reply.answer \cup reply.authority = {}

LEMMA RcodeAgreesIs == RcodeAgrees <=> \A r \in replies : Agrees(r[2])
BY DEF RcodeAgrees, Agrees

(* Nothing of a zone is found, or the code is 0: only a zone without NS      *)
(* records has a name error to add to an answer.                             *)
LEMMA ZoneReplyAgrees ==
  ASSUME NEW x, NEW z \in zones, Apex(z, "NS") # {}
  PROVE  Agrees(ZoneReply(x, z))
<1> DEFINE nip   == NipLike(x.name, z)
           found == IF nip THEN {NipRecord(x.name)} ELSE Find(z, x.name, x.type, x.clas)
           ns    == IF x.type = "NS" THEN {} ELSE Apex(z, "NS")
           glue  == UNION {GetIP(z, rr.datadn) : rr \in found}
<1>1. CASE nip /\ ~IsAddress(x.name, z)
  <2>1. ZoneReply(x, z) = Error(x, z, 1)
    BY <1>1 DEF ZoneReply
  <2> QED BY <2>1 DEF Agrees, Error, Reply
<1>2. CASE ~nip /\ x.type \notin TYPE
  <2>1. ZoneReply(x, z) = Error(x, z, 4)
    BY <1>2 DEF ZoneReply
  <2> QED BY <2>1 DEF Agrees, Error, Reply
<1>3. CASE ~nip /\ x.type \in TYPE /\ found = {}
  <2>1. ZoneReply(x, z) = Reply(x, z, 3, {}, Apex(z, "SOA"), {})
    BY <1>3 DEF ZoneReply
  <2>2. \A rr \in Apex(z, "SOA") : rr.type = "SOA"
    BY DEF Apex, Find
  <2> QED BY <2>1, <2>2 DEF Agrees, Reply
<1>4. CASE (nip /\ IsAddress(x.name, z)) \/ (~nip /\ x.type \in TYPE /\ found # {})
  <2>1. found # {} /\ (x.type = "NS" \/ ns # {})
    BY <1>4
  <2>2. ZoneReply(x, z) = Reply(x, z, 0, found, ns, glue)
    BY <1>4, <2>1 DEF ZoneReply
  <2> HIDE DEF found, ns, glue
  <2> QED BY <2>1, <2>2 DEF Agrees, Reply
<1> QED BY <1>1, <1>2, <1>3, <1>4

LEMMA RcodeStep == EveryZoneHasNs /\ RcodeAgrees /\ [Next]_vars => RcodeAgrees'
<1> SUFFICES ASSUME EveryZoneHasNs, RcodeAgrees, [Next]_vars
             PROVE  RcodeAgrees'
  OBVIOUS
<1>0. \A r \in replies : Agrees(r[2])
  BY RcodeAgreesIs
<1>1. ASSUME NEW x, NEW reply, Send(x, reply), Agrees(reply)
      PROVE  RcodeAgrees'
  BY <1>0, <1>1 DEF RcodeAgrees, Agrees, Send
<1>2. ASSUME UNCHANGED replies
      PROVE  RcodeAgrees'
  BY <1>2 DEF RcodeAgrees
<1>3. CASE NotOneQuestion
  <2>1. Agrees(Error(Head(listen), Root, 4))
    BY DEF Agrees, Error, Reply
  <2> QED BY <1>1, <1>3, <2>1 DEF NotOneQuestion
<1>4. CASE Answer
  <2>1. Agrees(ZoneReply(q, dn))
    BY <1>4, ZoneReplyAgrees DEF Answer, EveryZoneHasNs
  <2> QED BY <1>1, <1>4, <2>1 DEF Answer
<1>5. CASE RecvUpstream
  <2>1. Agrees(Reply(Head(conn)[1], Root, 0, {}, {}, {}))
    BY DEF Agrees, Reply
  <2> QED BY <1>1, <1>5, <2>1 DEF RecvUpstream
<1>6. CASE Recv \/ PopBack \/ Forward \/ SendUpstream \/ RecvError \/ Network
           \/ (\E x \in Query : SendQuery(x)) \/ UNCHANGED vars
  BY <1>2, <1>6 DEF Recv, PopBack, Forward, SendUpstream, RecvError, Network, Upstream,
     Lose, Refuse, Arrive, SendQuery, vars
<1> QED BY <1>3, <1>4, <1>5, <1>6 DEF Next, Server

(* In a configuration whose zones all have a name server, the code of every  *)
(* reply agrees with its sections (server.cpp:101-113): no error without an  *)
(* answer, no name error with one, and then the authority is the SOA alone.  *)
THEOREM CodeAgreesWithSections == EveryZoneHasNs => (Spec => []RcodeAgrees)
<1>1. Init => RcodeAgrees
  BY DEF Init, RcodeAgrees
<1> SUFFICES ASSUME EveryZoneHasNs
             PROVE  Spec => []RcodeAgrees
  OBVIOUS
<1>2. RcodeAgrees /\ [Next]_vars => RcodeAgrees'
  BY RcodeStep
<1> QED BY <1>1, <1>2, PTL DEF Spec

-----------------------------------------------------------------------------
(* A name in a domain of the server gets its records.                        *)

GetsRecords(x, reply) ==
  x.count = 1 => \A z \in zones :
    LET found == Find(z, x.name, x.type, x.clas) IN
      found # {} /\ reply.zone = z /\ ~NipLike(x.name, z) =>
        reply.answer = found /\ reply.rcode = 0

(* The configuration's records are of the types that the server knows.       *)
KnownTypes == \A z \in zones : \A rr \in rrs[z] : rr.type \in TYPE

LEMMA CorrectAddressIs == CorrectAddress <=> \A r \in replies : GetsRecords(r[1], r[2])
BY DEF CorrectAddress, GetsRecords

LEMMA ZoneReplyGetsRecords ==
  ASSUME NEW x, NEW d \in zones, KnownTypes, EveryZoneHasNs
  PROVE  GetsRecords(x, ZoneReply(x, d))
<1> DEFINE found == Find(d, x.name, x.type, x.clas)
           ns    == IF x.type = "NS" THEN {} ELSE Apex(d, "NS")
           glue  == UNION {GetIP(d, rr.datadn) : rr \in found}
<1> SUFFICES ASSUME found # {}, ~NipLike(x.name, d)
             PROVE  (ZoneReply(x, d)).answer = found /\ (ZoneReply(x, d)).rcode = 0
  BY ZoneOfReply DEF GetsRecords
<1>1. x.type \in TYPE
  BY DEF Find, KnownTypes
<1>2. x.type = "NS" \/ ns # {}
  BY DEF EveryZoneHasNs
<1>3. ZoneReply(x, d) = Reply(x, d, 0, found, ns, glue)
  BY <1>1, <1>2 DEF ZoneReply
<1> HIDE DEF found, ns, glue
<1> QED BY <1>3 DEF Reply

LEMMA CorrectAddressStep ==
  ASSUME KnownTypes, EveryZoneHasNs, CorrectAddress, [Next]_vars
  PROVE  CorrectAddress'
<1>0. \A r \in replies : GetsRecords(r[1], r[2])
  BY CorrectAddressIs
<1>1. ASSUME NEW x, NEW reply, Send(x, reply), GetsRecords(x, reply)
      PROVE  CorrectAddress'
  <2>1. \A r \in replies' : GetsRecords(r[1], r[2])
    BY <1>0, <1>1 DEF Send
  <2> QED BY <2>1 DEF CorrectAddress, GetsRecords
<1>2. ASSUME UNCHANGED replies
      PROVE  CorrectAddress'
  BY <1>2 DEF CorrectAddress
<1>3. Root \notin zones
  BY DnsdAssumption
<1>4. CASE NotOneQuestion
  <2>1. GetsRecords(Head(listen), Error(Head(listen), Root, 4))
    BY <1>4 DEF NotOneQuestion, GetsRecords
  <2> QED BY <1>1, <1>4, <2>1 DEF NotOneQuestion
<1>5. CASE Answer
  <2>1. GetsRecords(q, ZoneReply(q, dn))
    BY <1>5, ZoneReplyGetsRecords DEF Answer
  <2> QED BY <1>1, <1>5, <2>1 DEF Answer
<1>6. CASE RecvUpstream
  <2>1. (Reply(Head(conn)[1], Root, 0, {}, {}, {})).zone = Root
    BY DEF Reply
  <2>2. GetsRecords(q, Reply(Head(conn)[1], Root, 0, {}, {}, {}))
    BY <1>3, <2>1 DEF GetsRecords
  <2> QED BY <1>1, <1>6, <2>2 DEF RecvUpstream
<1>7. CASE Recv \/ PopBack \/ Forward \/ SendUpstream \/ RecvError \/ Network
           \/ (\E x \in Query : SendQuery(x)) \/ UNCHANGED vars
  BY <1>2, <1>7 DEF Recv, PopBack, Forward, SendUpstream, RecvError, Network, Upstream,
     Lose, Refuse, Arrive, SendQuery, vars
<1> QED BY <1>4, <1>5, <1>6, <1>7 DEF Next, Server

(* The finding about zones without NS records is about nothing else: where   *)
(* every zone has one (and only records of types that enum.hpp:13-21 names), *)
(* a name that has records is answered with all of them and without an error *)
(* (server.cpp:97-118), whatever the network does.                           *)
THEOREM RecordsAreFound == KnownTypes /\ EveryZoneHasNs => (Spec => []CorrectAddress)
<1>1. Init => CorrectAddress
  BY DEF Init, CorrectAddress
<1> SUFFICES ASSUME KnownTypes, EveryZoneHasNs
             PROVE  Spec => []CorrectAddress
  OBVIOUS
<1>2. CorrectAddress /\ [Next]_vars => CorrectAddress'
  BY CorrectAddressStep
<1> QED BY <1>1, <1>2, PTL DEF Spec
=============================================================================
