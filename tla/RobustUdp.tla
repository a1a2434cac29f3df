----------------------------- MODULE RobustUdp -----------------------------
(* The file transfer of Lab/8: client.cpp sends an initiation packet (0)    *)
(* and the chunks of one compressed archive (1 .. Chunks) until a bitmap    *)
(* from server.cpp has marked every one or the server says FIN; the network *)
(* loses, duplicates and reorders in both directions. A packet with a wrong *)
(* UDP checksum is dropped by the kernel, which is a loss.                  *)
EXTENDS Archive, FiniteSets

CONSTANTS CompSize,   \* comp_size of the client, bytes of the archive
          Chunks,     \* packets that the client's loop cuts it into
          Near,       \* 100: missing packets under which acks get frequent
          UINT_MAX,   \* comp_size of the server before the initiation packet
          SizeMod     \* 2^64, modulus of size_t

ASSUME RobustUdpAssumption ==
  /\ CompSize \in Nat \ {0} /\ Chunks \in Nat \ {0}
  /\ (Chunks - 1) * DataSize < CompSize /\ CompSize <= Chunks * DataSize
  /\ CompSize < UINT_MAX /\ UINT_MAX \in Nat /\ Near \in Nat
  /\ SizeMod \in Nat /\ UINT_MAX < SizeMod
  /\ Chunks + 1 + Near <= UINT_MAX \div DataSize

Packet == 0 .. Chunks

VARIABLES c_pc,      \* client: "sending" a round, "reading" responses, "exited"
          c_map,     \* client's data_map: the packets not yet known to be received
          todo,      \* what is left to send in this round
          donebit,   \* the bitmap of the last response
          s_pc,      \* server: "receiving", "saving", "finishing"
          comp_size, \* server's comp_size
          recv_size, recvbit,
          s_map,     \* keys of the server's data_map
          keep,      \* whether acks are frequent
          data,      \* packets in flight
          resps      \* responses in flight

client == <<c_pc, c_map, todo, donebit>>
server == <<s_pc, comp_size, recv_size, recvbit, s_map, keep>>
vars   == <<client, server, store, data, resps>>

Ack(bits) == [fin |-> FALSE, bits |-> bits]
Fin(bits) == [fin |-> TRUE, bits |-> bits]
Response  == [fin : BOOLEAN, bits : SUBSET Packet]

(* The archive is compressed. zstd is the library's: all that matters is     *)
(* that a frame of which every byte is in its place gives it back.           *)
Frame == [i \in 1 .. CompSize |-> <<0, i>>]

(* A datagram is lost, or it reaches the receiver's socket in some order;   *)
(* when one copy is read there may be another.                              *)
Put(net, p)  == {net, net \cup {p}}
Take(net, p) == {net, net \ {p}}

-----------------------------------------------------------------------------
(* client.cpp *)

SendNext ==
  /\ c_pc = "sending"
  /\ \E k \in todo :
       /\ \A j \in todo : k <= j
       /\ data' \in Put(data, k)
       /\ todo' = todo \ {k}
  /\ UNCHANGED <<c_pc, c_map, donebit, server, store, resps>>

RoundSent ==
  /\ c_pc = "sending" /\ todo = {}
  /\ c_pc' = "reading"
  /\ UNCHANGED <<c_map, todo, donebit, server, store, data, resps>>

MutantReadResp(m) ==   \* exits on an acknowledgement of the last chunk
  /\ c_pc = "reading" /\ m \in resps
  /\ resps' \in Take(resps, m)
  /\ donebit' = m.bits
  /\ c_pc' = IF m.fin \/ Chunks \in m.bits THEN "exited" ELSE c_pc
  /\ UNCHANGED <<c_map, todo, server, store, data>>

(* Each response replaces the one before it, also when it is older.         *)
ReadResp(m) ==
  /\ c_pc = "reading" /\ m \in resps
  /\ resps' \in Take(resps, m)
  /\ donebit' = m.bits
  /\ c_pc' = IF m.fin THEN "exited" ELSE c_pc
  /\ UNCHANGED <<c_map, todo, server, store, data>>

MutantReadTimeout ==   \* takes the bitmap for a cumulative acknowledgement
  /\ c_pc = "reading"
  /\ c_map' = {k \in c_map : \A d \in donebit : d < k}
  /\ c_pc' = IF c_map' = {} THEN "exited" ELSE "sending"
  /\ todo' = c_map' \ donebit
  /\ UNCHANGED <<donebit, server, store, data, resps>>

MutantNoResend ==   \* starts the next round without the packets of the last
  /\ c_pc = "reading"
  /\ c_map' = c_map \ donebit
  /\ c_pc' = IF c_map' = {} THEN "exited" ELSE "sending"
  /\ UNCHANGED <<todo, donebit, server, store, data, resps>>

(* recv times out; what the last bitmap marks is erased and a round begins. *)
ReadTimeout ==
  /\ c_pc = "reading"
  /\ c_map' = c_map \ donebit
  /\ c_pc' = IF c_map' = {} THEN "exited" ELSE "sending"
  /\ todo' = c_map' \ donebit
  /\ UNCHANGED <<donebit, server, store, data, resps>>

-----------------------------------------------------------------------------
(* server.cpp *)

MutantNearEnd(comp, bits) ==   \* does not wait for the size
  comp = UINT_MAX \/ (comp \div DataSize - Cardinality(bits)) % SizeMod < Near

(* (comp_size / DATA_SIZE) - recvbit.count() < 100, in size_t arithmetic.   *)
NearEnd(comp, bits) ==
  (comp \div DataSize - Cardinality(bits)) % SizeMod < Near

Incomplete(comp, size) == comp = UINT_MAX \/ size < comp

MutantReceived(k) ==   \* counts the size of a chunk received again
  /\ comp_size' = IF k = 0 THEN CompSize ELSE comp_size
  /\ recv_size' = IF k # 0 THEN recv_size + DataSize ELSE recv_size
  /\ s_map' = s_map \cup ({k} \ {0})

Received(k) ==
  /\ comp_size' = IF k = 0 THEN CompSize ELSE comp_size
  /\ recv_size' = IF k \in s_map \cup {0} THEN recv_size ELSE recv_size + DataSize
  /\ s_map' = s_map \cup ({k} \ {0})

(* An iteration of the loop. Whether enough time has passed for an ack is   *)
(* up to the clock: no ack and a lost one are the same.                     *)
Recv(k) ==
  /\ s_pc = "receiving" /\ k \in data
  /\ data' \in Take(data, k)
  /\ recvbit' = recvbit \cup {k}
  /\ Received(k)
  /\ keep' = (keep \/ NearEnd(comp_size', recvbit'))
  /\ resps' \in Put(resps, Ack(recvbit'))
  /\ s_pc' = IF Incomplete(comp_size', recv_size') THEN "receiving" ELSE "saving"
  /\ UNCHANGED <<client, store>>

(* Joined, the fragments must be the frame, or the server ends here.        *)
Decompressed ==
  Joined(comp_size, [k \in s_map |-> Fragment(Frame, k)]) = Frame

SaveFile ==
  /\ s_pc = "saving" /\ Decompressed
  /\ StoreFile(Archive, Len(Archive))
  /\ UNCHANGED <<client, server, data, resps>>

Saved ==
  /\ s_pc = "saving" /\ Decompressed /\ ptr >= Len(Archive)
  /\ s_pc' = "finishing"
  /\ s_map' = {}
  /\ UNCHANGED <<comp_size, recv_size, recvbit, keep, client, store, data, resps>>

(* Whatever arrives after that is answered with a FIN.                      *)
SendFin(k) ==
  /\ s_pc = "finishing" /\ k \in data
  /\ data' \in Take(data, k)
  /\ resps' \in Put(resps, Fin(recvbit))
  /\ UNCHANGED <<client, server, store>>

-----------------------------------------------------------------------------

Init ==
  /\ c_pc = "sending" /\ c_map = Packet /\ todo = Packet /\ donebit = {}
  /\ s_pc = "receiving" /\ comp_size = UINT_MAX /\ recv_size = 0
  /\ recvbit = {} /\ s_map = {} /\ keep = FALSE
  /\ data = {} /\ resps = {} /\ StoreInit

Client == SendNext \/ RoundSent \/ ReadTimeout \/ \E m \in resps : ReadResp(m)
Server == SaveFile \/ Saved \/ \E k \in data : Recv(k) \/ SendFin(k)
Next   == Client \/ Server

Spec == Init /\ [][Next]_vars

(* Both processes run, a socket's datagrams are read in the end, and a      *)
(* datagram that is sent over and over is not lost every time.              *)
Fairness ==
  /\ WF_vars(SendNext \/ RoundSent \/ ReadTimeout) /\ WF_vars(SaveFile \/ Saved)
  /\ \A k \in Packet :
       /\ SF_vars(SendNext /\ k \in (todo \ todo') \cap data')
       /\ SF_vars(Recv(k))
  /\ SF_vars(\E k \in data : SendFin(k) /\ Fin(recvbit) \in resps')
  /\ SF_vars(ReadResp(Fin(Packet)))

FairSpec == Spec /\ Fairness

-----------------------------------------------------------------------------
(* Properties.                                                              *)

(* Every variable has its type.                                             *)
TypeOK ==
  /\ c_pc \in {"sending", "reading", "exited"}
  /\ c_map \subseteq Packet /\ todo \subseteq c_map /\ donebit \subseteq Packet
  /\ s_pc \in {"receiving", "saving", "finishing"}
  /\ comp_size \in {UINT_MAX, CompSize}
  /\ recv_size \in Nat
  /\ recvbit \subseteq Packet /\ s_map \subseteq recvbit \ {0} /\ keep \in BOOLEAN
  /\ data \subseteq Packet /\ resps \subseteq Response

(* The client never gives a packet up that the server lacks, although any   *)
(* response, however old, replaces the bitmap it works with: neither the    *)
(* erased packets nor any bitmap on its way runs ahead of recvbit.          *)
NoFalseErase ==
  /\ Packet \ c_map \subseteq recvbit
  /\ donebit \subseteq recvbit
  /\ \A m \in resps : m.bits \subseteq recvbit

(* The server leaves its loop with every chunk, although it counts bytes    *)
(* only, the last chunk counts as a full one, and chunks may come before    *)
(* the packet that says how many bytes to wait for. It does leave it then.  *)
SaveComplete ==
  s_pc = "receiving" <=> recvbit # Packet

(* The unsigned subtraction makes acks frequent near the end only: not      *)
(* while the size is unknown, nor when the count passes the quotient, nor   *)
(* with more than Near + 1 packets to come.                                 *)
FastAcksOnlyNearTheEnd ==
  keep => comp_size = CompSize /\ Cardinality(Packet \ recvbit) <= Near + 1

(* When the server says FIN, and when the client exits because of one, the  *)
(* files on disk are those of the client, whatever came twice, late or out  *)
(* of order, wherever a fragment ends, and whatever was there before.       *)
FilesStored ==
  s_pc = "finishing" \/ (c_pc = "exited" /\ c_map # {}) => disk = Sent

(* The transfer does what the abstract one promises.                        *)
Abstract == INSTANCE Transfer WITH
  got <- recvbit, known <- Packet \ c_map,
  stored <- s_pc = "finishing", finished <- c_pc = "exited"
ImplementsTransfer == Abstract!Spec

(* In the end the files are stored and the client has exited, whatever the  *)
(* order of the losses.                                                     *)
Termination == <>(c_pc = "exited" /\ s_pc = "finishing")

(* Lab/8/README.md: the files are checked "right after your client program  *)
(* terminates", so they must be stored by then.                             *)
FilesStoredWhenClientExits == c_pc = "exited" => s_pc = "finishing"
=============================================================================
