-------------------------------- MODULE Xdp --------------------------------
(* The file transfer of Lab/10: client.cpp broadcasts an initiation packet  *)
(* (0) and the chunks of one archive (1 .. Chunks), server.cpp broadcasts a  *)
(* bitmap of what it has got and, once the files are saved, endless FINs.    *)
(* Both use the same raw protocol, and a packet carries neither a direction  *)
(* nor a kind: an acknowledgement has the number of the initiation packet,   *)
(* and on one host a process may hear what it has sent itself. The network   *)
(* loses, duplicates and reorders; a wrong checksum is a loss.               *)
EXTENDS Archive, FiniteSets

CONSTANTS Chunks,    \* packets that the client's loop cuts the archive into
          UINT_MAX,  \* orig_size of the server before it is told
          FIN,       \* UINT32_MAX, the number of a FIN
          Bits,      \* the payload of each packet of the client, as a bitmap
          Number,    \* the first 32 bits of a bitmap, as a number
          Room,      \* packets that the buffer of the client's socket holds
          HearsSelf  \* whether a process hears its own packets, as on one host

OrigSize == Len(Archive)
Packet   == 0 .. Chunks

(* The bitmap has room for every packet, and recv_size does not wrap; only a *)
(* bitmap that begins with 32 ones is UINT_MAX.                             *)
ASSUME XdpAssumption ==
  /\ Chunks \in Nat \ {0} /\ Chunks < 8 * DataSize
  /\ (Chunks - 1) * DataSize < OrigSize /\ OrigSize <= Chunks * DataSize
  /\ UINT_MAX \in Nat /\ OrigSize < UINT_MAX /\ Chunks * DataSize <= UINT_MAX
  /\ FIN \in Nat \ (0 .. Chunks) /\ Room \in Nat /\ HearsSelf \in BOOLEAN
  /\ Bits \in [Packet -> SUBSET Packet] /\ Number \in [SUBSET Packet -> 0 .. UINT_MAX]
  /\ \A bits \in SUBSET Packet : Number[bits] = UINT_MAX => 0 \in bits

VARIABLES c_pc,      \* client: "sending" a round, "reading" responses, "exited"
          c_map,     \* client's data_map: the packets not yet known to be received
          todo,      \* what is left to send in this round
          s_res,     \* the last packet heard, its payload being donebit
          c_q,       \* packets on the way to the client's socket
          s_pc,      \* server: "receiving", "joining", "saving", "finishing",
                     \* or "crashed"
          orig_size, \* server's orig_size
          recv_size, recvbit,
          s_map,     \* keys of the server's data_map
          s_q        \* packets on the way to the server's socket

client == <<c_pc, c_map, todo, s_res>>
server == <<s_pc, orig_size, recv_size, recvbit, s_map>>
vars   == <<client, c_q, server, s_q, store>>

(* bits is the payload as a bitmap, whatever the sender meant by it.         *)
Data(k)   == [seq |-> k, from |-> "client", bits |-> Bits[k]]
Ack(bits) == [seq |-> 0, from |-> "server", bits |-> bits]
Fin(bits) == [seq |-> FIN, from |-> "server", bits |-> bits]

(* The payload of packet 0 read as a data_t: of an acknowledgement that is   *)
(* the beginning of its bitmap.                                             *)
AsSize(p) == IF p.from = "client" THEN OrigSize ELSE Number[p.bits]

(* A packet is lost or reaches the other and its sender itself, unless that  *)
(* one has stopped listening; when one copy is read there may be another.    *)
(* The client listens only between its rounds, and what finds the buffer of  *)
(* its socket full is lost.                                                 *)
Put(q, p)   == {q, q \cup {p}}
Take(q, p)  == {q, q \ {p}}
ToServer(p) == IF s_pc = "receiving" THEN Put(s_q, p) ELSE {s_q}
ToClient(p) ==
  IF c_pc # "exited" /\ Cardinality(c_q) < Room THEN Put(c_q, p) ELSE {c_q}

(* What comes back: with the bit of packet 0 an acknowledgement of its own   *)
(* tells the server nothing, heard or not.                                  *)
EchoData(p)      == IF HearsSelf THEN ToClient(p) ELSE {c_q}
EchoAck(q, bits) == IF HearsSelf /\ 0 \notin bits THEN Put(q, Ack(bits)) ELSE {q}

-----------------------------------------------------------------------------
(* client.cpp *)

SendNext ==
  /\ c_pc = "sending"
  /\ \E k \in todo :
       /\ \A j \in todo : k <= j
       /\ s_q' \in ToServer(Data(k)) /\ c_q' \in EchoData(Data(k))
       /\ todo' = todo \ {k}
  /\ UNCHANGED <<c_pc, c_map, s_res, server, store>>

RoundSent ==
  /\ c_pc = "sending" /\ todo = {}
  /\ c_pc' = "reading"
  /\ UNCHANGED <<c_map, todo, s_res, c_q, server, s_q, store>>

MutantReadResp(p) ==   \* exits on an acknowledgement of the last chunk
  /\ c_pc = "reading" /\ p \in c_q
  /\ c_q' \in Take(c_q, p)
  /\ s_res' = p
  /\ c_pc' = IF p.seq = FIN \/ Chunks \in p.bits THEN "exited" ELSE c_pc
  /\ UNCHANGED <<c_map, todo, server, s_q, store>>

(* Whatever is heard is taken for a bitmap and replaces the last one.        *)
ReadResp(p) ==
  /\ c_pc = "reading" /\ p \in c_q
  /\ c_q' \in Take(c_q, p)
  /\ s_res' = p
  /\ c_pc' = IF p.seq = FIN THEN "exited" ELSE c_pc
  /\ UNCHANGED <<c_map, todo, server, s_q, store>>

MutantNoResend ==   \* starts the next round without the packets of the last
  /\ c_pc = "reading"
  /\ c_map' = c_map \ s_res.bits
  /\ c_pc' = IF c_map' = {} THEN "exited" ELSE "sending"
  /\ UNCHANGED <<todo, s_res, c_q, server, s_q, store>>

(* A second without packets: what the bitmap marks is erased.                *)
ReadTimeout ==
  /\ c_pc = "reading"
  /\ c_map' = c_map \ s_res.bits
  /\ c_pc' = IF c_map' = {} THEN "exited" ELSE "sending"
  /\ todo' = c_map'
  /\ UNCHANGED <<s_res, c_q, server, s_q, store>>

-----------------------------------------------------------------------------
(* server.cpp *)

Incomplete(orig, size) == orig = UINT_MAX \/ size < orig

MutantReceived(p) ==   \* counts a chunk that it already has
  /\ orig_size' = IF p.seq = 0 /\ orig_size = UINT_MAX THEN AsSize(p) ELSE orig_size
  /\ recv_size' = IF p.seq # 0 THEN recv_size + DataSize ELSE recv_size
  /\ s_map' = s_map \cup ({p.seq} \ {0})

Received(p) ==
  /\ orig_size' = IF p.seq = 0 /\ orig_size = UINT_MAX THEN AsSize(p) ELSE orig_size
  /\ recv_size' = IF p.seq \in s_map \cup {0} THEN recv_size ELSE recv_size + DataSize
  /\ s_map' = s_map \cup ({p.seq} \ {0})

(* An iteration of the loop; at most every half a second it ends with an     *)
(* acknowledgement.                                                          *)
Recv(p) ==
  /\ s_pc = "receiving" /\ p \in s_q
  /\ recvbit' = recvbit \cup {p.seq}
  /\ Received(p)
  /\ s_q' \in UNION {EchoAck(q, recvbit') : q \in Take(s_q, p)}
  /\ c_q' \in ToClient(Ack(recvbit'))
  /\ s_pc' = IF Incomplete(orig_size', recv_size') THEN "receiving" ELSE "joining"
  /\ UNCHANGED <<client, store>>

(* When recvfrom times out it returns -1, which is not 0, and the last       *)
(* packet is handled once more: that changes nothing, but acknowledges.      *)
RecvTimeout ==
  /\ s_pc = "receiving" /\ recvbit # {}
  /\ s_q' \in EchoAck(s_q, recvbit)
  /\ c_q' \in ToClient(Ack(recvbit))
  /\ UNCHANGED <<client, server, store>>

(* Whole fragments are copied to the orig_size bytes allocated: one that    *)
(* reaches past them may bring the server down, or damage nothing in use.   *)
Join ==
  /\ s_pc = "joining"
  /\ s_pc' \in {"saving"} \cup
       IF \E k \in s_map : orig_size < k * DataSize THEN {"crashed"} ELSE {}
  /\ s_q' = {}
  /\ UNCHANGED <<orig_size, recv_size, recvbit, s_map, client, c_q, store>>

(* What is then in memory, behind the allocated bytes too.                  *)
OrigData ==
  Joined(Chunks * DataSize, [k \in s_map |-> Fragment(Archive, k)])

SaveFile ==
  /\ s_pc = "saving"
  /\ StoreFile(OrigData, orig_size)
  /\ UNCHANGED <<client, c_q, server, s_q>>

Saved ==
  /\ s_pc = "saving" /\ ptr >= orig_size
  /\ s_pc' = "finishing"
  /\ UNCHANGED <<orig_size, recv_size, recvbit, s_map, client, c_q, s_q, store>>

(* For ever, without listening any more.                                     *)
SendFin ==
  /\ s_pc = "finishing"
  /\ c_q' \in ToClient(Fin(recvbit))
  /\ UNCHANGED <<client, server, s_q, store>>

-----------------------------------------------------------------------------

Init ==
  /\ c_pc = "sending" /\ c_map = Packet /\ todo = Packet /\ s_res = Ack({})
  /\ s_pc = "receiving" /\ orig_size = UINT_MAX /\ recv_size = 0
  /\ recvbit = {} /\ s_map = {}
  /\ c_q = {} /\ s_q = {} /\ StoreInit

Client == SendNext \/ RoundSent \/ ReadTimeout \/ \E p \in c_q : ReadResp(p)
Server == RecvTimeout \/ Join \/ SaveFile \/ Saved \/ SendFin \/ \E p \in s_q : Recv(p)
Next   == Client \/ Server

Spec == Init /\ [][Next]_vars

(* Both processes run and read what has come, no packet being repeated for   *)
(* ever; the two timeouts of one second are not exactly in step for ever, so *)
(* that at some time the client hears nothing for one; and a packet that is  *)
(* sent over and over is not lost every time.                               *)
Fairness ==
  /\ WF_vars(SendNext \/ RoundSent \/ ReadTimeout) /\ WF_vars(Join \/ SaveFile \/ Saved)
  /\ SF_vars(\E p \in c_q : ReadResp(p) /\ p \notin c_q')
  /\ \A k \in Packet :
       /\ SF_vars(SendNext /\ k \in todo \ todo' /\ Data(k) \in s_q')
       /\ WF_vars(Recv(Data(k)))
  /\ SF_vars(SendFin /\ Fin(recvbit) \in c_q')
  /\ SF_vars(ReadResp(Fin(Packet)))

FairSpec == Spec /\ Fairness

-----------------------------------------------------------------------------
(* Properties.                                                              *)

(* Every variable has its type.                                             *)
TypeOK ==
  /\ c_pc \in {"sending", "reading", "exited"}
  /\ c_map \subseteq Packet /\ todo \subseteq c_map
  /\ s_pc \in {"receiving", "joining", "saving", "finishing", "crashed"}
  /\ orig_size \in 0 .. UINT_MAX /\ recv_size \in 0 .. UINT_MAX
  /\ recvbit \subseteq Packet /\ s_map = recvbit \ {0}
  /\ s_q \subseteq {Data(k) : k \in Packet} \cup {Ack(b) : b \in SUBSET Packet}
  /\ c_q \cup {s_res} \subseteq UNION {{Data(k) : k \in Packet},
       {Ack(b) : b \in SUBSET Packet}, {Fin(b) : b \in SUBSET Packet}}

(* The server has not been told the size, or has been by the client; on one *)
(* host its own acknowledgement may have come first.                        *)
SizeKnown == orig_size \in {UINT_MAX, OrigSize}

(* The client has not given a packet up that the server lacks: on one host  *)
(* it may do so, taking its own data for a bitmap.                          *)
NoFalseErase == Packet \ c_map \subseteq recvbit

(* With the right size the server leaves its loop with every chunk and no   *)
(* later, although it counts bytes, the last chunk counts as a full one, and *)
(* chunks may come before the packet that says how many bytes to wait for.  *)
SaveComplete == SizeKnown => (s_pc = "receiving" <=> recvbit # Packet)

(* When the server begins to send FINs, and when the client exits because of *)
(* one, the files on disk are those of the client: unless it was itself from *)
(* whom the server took the size.                                            *)
FilesStored ==
  s_pc = "finishing" \/ (c_pc = "exited" /\ c_map # {}) =>
    disk = Sent \/ ~SizeKnown

(* The transfer does what the abstract one promises, at every step but two   *)
(* in which a process believes a packet of its own: the client erases what   *)
(* its own data marks, and the server stores with a wrong size. Old bitmaps, *)
(* lost and repeated packets and late FINs make no other exception.          *)
Abstract == INSTANCE Transfer WITH
  got <- recvbit, known <- Packet \ c_map,
  stored <- s_pc = "finishing", finished <- c_pc = "exited"

BelievesItself ==
  \/ ReadTimeout /\ s_res.from = "client"
  \/ Saved /\ ~SizeKnown

ImplementsTransfer ==
  Abstract!Init /\ [][Abstract!Next \/ BelievesItself]_Abstract!vars

(* In the end the files are saved and the client has exited, whatever the   *)
(* order of the losses: unless the server has believed its own packet, the  *)
(* client has given up what is still missing because of one of its own, or  *)
(* the copy past the end of orig_data brings the server down.               *)
Termination ==
  [](SizeKnown /\ NoFalseErase /\ s_pc # "crashed") =>
    <>(c_pc = "exited" /\ s_pc = "finishing")

(* Lab/10/README.md: the files are checked "right after your client program *)
(* terminates", so they must be saved by then.                              *)
FilesStoredWhenClientExits == c_pc = "exited" => s_pc = "finishing"

(* Lab/10/README.md: the client should "send the files to your server": it  *)
(* does not exit before the server has got every packet. On one host its    *)
(* own packets come back to it and are taken for bitmaps.                   *)
ClientSendsAll == c_pc = "exited" => recvbit = Packet

(* Lab/10/README.md: the server "should store received files": it saves     *)
(* when it has every chunk. On one host its own acknowledgements come back, *)
(* with the number of the initiation packet.                                *)
ServerSavesAll == s_pc # "receiving" => s_map = Packet \ {0}
=============================================================================
