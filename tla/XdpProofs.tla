----------------------------- MODULE XdpProofs -----------------------------
(* Proofs about Xdp, for every archive, chunk size and content, whether or   *)
(* not a process hears its own packets: what is stored, when the server      *)
(* leaves its loop, and that the transfer implements Transfer but for the    *)
(* steps in which a process believes itself.                                *)
EXTENDS Xdp, ArchiveProofs, TLAPS

(* Inductive: what the bytes counted stand for, when the loop ends, that a   *)
(* FIN is sent only by the loop that follows the save, that no bitmap of the *)
(* server's runs ahead of recvbit, and that with packet 0 there is a size:   *)
(* a bitmap without the bit of packet 0 is not UINT_MAX.                    *)
LoopInv ==
  /\ todo \subseteq Packet /\ c_map \subseteq Packet
  /\ recvbit \subseteq Packet /\ s_map = recvbit \ {0}
  /\ recv_size = DataSize * Cardinality(s_map)
  /\ s_pc = "receiving" <=> Incomplete(orig_size, recv_size)
  /\ orig_size = UINT_MAX <=> 0 \notin recvbit
  /\ \A p \in s_q : p.seq \in Packet /\ (p.from = "client" \/ p.bits \subseteq recvbit)
  /\ \A p \in c_q : /\ p.seq = FIN => s_pc = "finishing"
                    /\ p.from = "client" \/ p.bits \subseteq recvbit
  /\ s_res.from = "client" \/ s_res.bits \subseteq recvbit

(* Inductive with it: the disk follows the unpacking loop, if the size is    *)
(* right, and only a FIN lets the client go with packets in its map.         *)
FilesInv ==
  /\ s_pc = "receiving" => StoreInit
  /\ orig_size = OrigSize => StoreInv
  /\ s_pc = "finishing" /\ orig_size = OrigSize => disk = Sent
  /\ c_pc = "exited" /\ c_map # {} => s_pc = "finishing"

LEMMA Sizes ==
  /\ Chunks \in Nat \ {0} /\ OrigSize \in Nat
  /\ (Chunks - 1) * DataSize < OrigSize /\ OrigSize <= Chunks * DataSize
  /\ OrigSize # UINT_MAX
  /\ FIN \notin Packet /\ 0 \in Packet /\ Packet \ {0} = 1 .. Chunks
  /\ \A S \in SUBSET Packet : S \ {0} \in SUBSET (1 .. Chunks) /\ IsFiniteSet(S \ {0})
<1>1. OrigSize \in Nat
  BY ArchiveLength DEF OrigSize
<1>2. \A S \in SUBSET Packet : S \ {0} \in SUBSET (1 .. Chunks)
  BY XdpAssumption DEF Packet
<1>3. ASSUME NEW S \in SUBSET Packet PROVE IsFiniteSet(S \ {0})
  <2> DEFINE C == S \ {0}
  <2>1. C \in SUBSET (1 .. Chunks) /\ Chunks \in Nat \ {0}
    BY <1>2, XdpAssumption
  <2> HIDE DEF C
  <2>2. IsFiniteSet(C)
    BY <2>1, ChunkCount
  <2> QED BY <2>2 DEF C
<1>4. 0 \in Packet /\ Packet \ {0} = 1 .. Chunks /\ FIN \notin Packet
  BY XdpAssumption DEF Packet
<1>5. /\ Chunks \in Nat \ {0} /\ (Chunks - 1) * DataSize < OrigSize
      /\ OrigSize <= Chunks * DataSize /\ OrigSize # UINT_MAX
  BY <1>1, XdpAssumption
<1> QED BY <1>1, <1>2, <1>3, <1>4, <1>5

(* Once as many bytes are counted as the archive has, no chunk is missing.   *)
LEMMA Counted ==
  ASSUME LoopInv
  PROVE  recv_size \in Nat /\ (recv_size < OrigSize <=> s_map # Packet \ {0})
<1>1. s_map \in SUBSET (1 .. Chunks) /\ recv_size = DataSize * Cardinality(s_map)
  BY Sizes DEF LoopInv
<1>2. DataSize * Cardinality(s_map) \in Nat
      /\ (DataSize * Cardinality(s_map) < OrigSize <=> s_map # 1 .. Chunks)
  <2> DEFINE S == s_map
  <2>1. S \in SUBSET (1 .. Chunks)
    BY <1>1
  <2> HIDE DEF S
  <2>2. DataSize * Cardinality(S) \in Nat
        /\ (DataSize * Cardinality(S) < OrigSize <=> S # 1 .. Chunks)
    BY <2>1, Sizes, EnoughBytes
  <2> QED BY <2>2 DEF S
<1> QED BY <1>1, <1>2, Sizes

-----------------------------------------------------------------------------
(* LoopInv is inductive.                                                     *)

LEMMA InitLoopInv == Init => LoopInv
<1> SUFFICES ASSUME Init PROVE LoopInv
  OBVIOUS
<1>1. Cardinality(s_map) = 0 /\ recv_size = DataSize * Cardinality(s_map)
  BY FS_EmptySet, DataSizeAssumption DEF Init
<1> QED BY <1>1 DEF Init, LoopInv, Incomplete, Ack

LEMMA LoopInvClient ==
  ASSUME LoopInv, Client
  PROVE  LoopInv'
<1>1. ASSUME UNCHANGED server, todo' \subseteq Packet, c_map' \subseteq Packet,
             \A p \in s_q' : p \in s_q \/ (p.seq \in Packet /\ p.from = "client"),
             \A p \in c_q' : p \in c_q \/ (p.seq \in Packet /\ p.from = "client"),
             s_res' \in c_q \cup {s_res}
      PROVE  LoopInv'
  BY <1>1, Sizes DEF server, LoopInv
<1>2. CASE SendNext
  <2>1. PICK k \in todo : s_q' \in ToServer(Data(k)) /\ c_q' \in EchoData(Data(k))
    BY <1>2 DEF SendNext
  <2>2. k \in Packet /\ Data(k).seq = k /\ Data(k).from = "client"
    BY DEF LoopInv, Data
  <2>3. s_q' \subseteq s_q \cup {Data(k)} /\ c_q' \subseteq c_q \cup {Data(k)}
    BY <2>1 DEF Put, ToServer, ToClient, EchoData
  <2>4. todo' \subseteq Packet /\ UNCHANGED <<server, c_map, s_res>>
    BY <1>2 DEF SendNext, LoopInv
  <2> QED BY <1>1, <2>2, <2>3, <2>4 DEF LoopInv
<1>3. CASE RoundSent \/ ReadTimeout
  BY <1>1, <1>3 DEF RoundSent, ReadTimeout, LoopInv
<1>4. ASSUME NEW p \in c_q, ReadResp(p)
      PROVE  LoopInv'
  BY <1>1, <1>4 DEF ReadResp, Take, LoopInv
<1> QED BY <1>2, <1>3, <1>4 DEF Client

(* What an iteration of the server's loop does to its size.                  *)
LEMMA SizeTold ==
  ASSUME LoopInv, NEW p \in s_q, Recv(p)
  PROVE  orig_size' = UINT_MAX <=> 0 \notin recvbit'
<1>1. /\ recvbit' = recvbit \cup {p.seq}
      /\ orig_size' = IF p.seq = 0 /\ orig_size = UINT_MAX THEN AsSize(p) ELSE orig_size
  BY DEF Recv, Received
<1>2. CASE p.seq = 0 /\ orig_size = UINT_MAX
  <2>1. 0 \notin recvbit
    BY <1>2 DEF LoopInv
  <2>2. AsSize(p) # UINT_MAX
    <3>1. CASE p.from = "client"
      BY <3>1, Sizes DEF AsSize
    <3>2. CASE p.from # "client"
      <4>1. p.bits \in SUBSET Packet /\ 0 \notin p.bits
        BY <2>1, <3>2 DEF LoopInv
      <4> QED BY <3>2, <4>1, XdpAssumption DEF AsSize
    <3> QED BY <3>1, <3>2
  <2> QED BY <1>1, <1>2, <2>2
<1>3. CASE ~(p.seq = 0 /\ orig_size = UINT_MAX)
  BY <1>1, <1>3 DEF LoopInv
<1> QED BY <1>2, <1>3

(* One iteration of the server's loop.                                       *)
LEMMA LoopInvRecv ==
  ASSUME LoopInv, NEW p \in s_q, Recv(p)
  PROVE  LoopInv'
<1>0. p.seq \in Packet
  BY DEF LoopInv
<1>1. /\ recvbit' = recvbit \cup {p.seq}
      /\ recv_size' = IF p.seq \in s_map \cup {0} THEN recv_size ELSE recv_size + DataSize
      /\ s_map' = s_map \cup ({p.seq} \ {0})
      /\ s_pc = "receiving"
      /\ s_pc' = IF Incomplete(orig_size', recv_size') THEN "receiving" ELSE "joining"
      /\ UNCHANGED client
  BY DEF Recv, Received
<1>2. s_q' \subseteq s_q \cup {Ack(recvbit')} /\ c_q' \subseteq c_q \cup {Ack(recvbit')}
  BY DEF Recv, EchoAck, ToClient, Put, Take
<1>3. Ack(recvbit').seq = 0 /\ Ack(recvbit').bits = recvbit' /\ 0 \in Packet /\ FIN # 0
  BY Sizes DEF Ack
<1>4. recv_size' = DataSize * Cardinality(s_map')
  <2>1. IsFiniteSet(s_map)
    BY Sizes DEF LoopInv
  <2>2. Cardinality(s_map) \in Nat /\ recv_size = DataSize * Cardinality(s_map)
    BY <2>1, FS_CardinalityType DEF LoopInv
  <2>3. CASE p.seq \in s_map \cup {0}
    <3>1. s_map' = s_map /\ recv_size' = recv_size
      BY <1>1, <2>3
    <3> QED BY <2>2, <3>1
  <2>4. CASE p.seq \notin s_map \cup {0}
    <3>1. s_map' = s_map \cup {p.seq} /\ recv_size' = recv_size + DataSize
      BY <1>1, <2>4
    <3>2. Cardinality(s_map \cup {p.seq}) = Cardinality(s_map) + 1
      BY <2>1, <2>4, FS_AddElement
    <3>3. DataSize * (Cardinality(s_map) + 1) = DataSize * Cardinality(s_map) + DataSize
      BY <2>2, DataSizeAssumption
    <3> QED BY <2>2, <3>1, <3>2, <3>3
  <2> QED BY <2>3, <2>4
<1>5. recvbit' \subseteq Packet /\ s_map' = recvbit' \ {0} /\ recvbit \subseteq recvbit'
  BY <1>0, <1>1 DEF LoopInv
<1>6. \A q \in s_q' : q.seq \in Packet /\ (q.from = "client" \/ q.bits \subseteq recvbit')
  BY <1>2, <1>3, <1>5 DEF LoopInv
<1>7. s_pc' = "receiving" <=> Incomplete(orig_size', recv_size')
  BY <1>1
<1>8. \A q \in c_q' : q.seq # FIN /\ (q.from = "client" \/ q.bits \subseteq recvbit')
  BY <1>1, <1>2, <1>3, <1>5 DEF LoopInv
<1>9. /\ s_res'.from = "client" \/ s_res'.bits \subseteq recvbit'
      /\ todo' \subseteq Packet /\ c_map' \subseteq Packet
  BY <1>1, <1>5 DEF LoopInv, client
<1>10. orig_size' = UINT_MAX <=> 0 \notin recvbit'
  BY SizeTold
<1> QED BY <1>4, <1>5, <1>6, <1>7, <1>8, <1>9, <1>10 DEF LoopInv

LEMMA LoopInvServer ==
  ASSUME LoopInv, Server
  PROVE  LoopInv'
<1>1. CASE RecvTimeout
  <2>1. s_q' \subseteq s_q \cup {Ack(recvbit)} /\ c_q' \subseteq c_q \cup {Ack(recvbit)}
        /\ UNCHANGED <<client, server>>
    BY <1>1 DEF RecvTimeout, EchoAck, ToClient, Put
  <2>2. Ack(recvbit).seq = 0 /\ Ack(recvbit).bits = recvbit
    BY DEF Ack
  <2> QED BY <2>1, <2>2, Sizes DEF LoopInv, client, server
<1>2. CASE SaveFile
  BY <1>2 DEF SaveFile, LoopInv, client, server
<1>3. CASE Saved
  BY <1>3 DEF Saved, LoopInv, client
<1>4. CASE SendFin
  <2>1. c_q' \subseteq c_q \cup {Fin(recvbit)} /\ s_pc' = "finishing"
        /\ UNCHANGED <<client, server, s_q>>
    BY <1>4 DEF SendFin, ToClient, Put, server
  <2>2. Fin(recvbit).bits = recvbit
    BY DEF Fin
  <2> QED BY <2>1, <2>2 DEF LoopInv, client, server
<1>5. CASE Join
  BY <1>5 DEF Join, LoopInv, client
<1> QED BY <1>1, <1>2, <1>3, <1>4, <1>5, LoopInvRecv DEF Server

LEMMA NextLoopInv == LoopInv /\ [Next]_vars => LoopInv'
<1> SUFFICES ASSUME LoopInv, [Next]_vars PROVE LoopInv'
  OBVIOUS
<1>1. CASE Next
  BY <1>1, LoopInvClient, LoopInvServer DEF Next
<1>2. CASE UNCHANGED vars
  BY <1>2 DEF vars, client, server, LoopInv
<1> QED BY <1>1, <1>2

LEMMA LoopInvariance == Spec => []LoopInv
BY InitLoopInv, NextLoopInv, PTL DEF Spec

-----------------------------------------------------------------------------
(* FilesInv is inductive with it.                                            *)

(* With all chunks, the server's memory begins with the client's archive.    *)
LEMMA DataHeld ==
  ASSUME LoopInv, s_pc = "saving", orig_size = OrigSize
  PROVE  Holds(OrigData)
<1>1. s_map = 1 .. Chunks
  BY Counted, Sizes DEF LoopInv, Incomplete
<1>2. /\ Chunks * DataSize \in Nat /\ Len(Archive) \in Nat /\ Chunks \in Nat
      /\ Len(Archive) <= Chunks * DataSize
  BY Sizes, DataSizeAssumption DEF OrigSize
<1>3. Len(OrigData) = Chunks * DataSize
  BY <1>2 DEF OrigData, Joined
<1>4. ASSUME NEW p \in 1 .. Len(Archive)
      PROVE  OrigData[p] = Archive[p]
  <2> DEFINE src == Archive
             K == s_map
             size == Chunks * DataSize
  <2>1. /\ Len(src) \in Nat /\ size \in Nat /\ Chunks \in Nat /\ 1 .. Chunks \subseteq K
        /\ size <= Chunks * DataSize /\ p \in 1 .. size /\ p <= Len(src)
    BY <1>1, <1>2
  <2> HIDE DEF src, K, size
  <2>2. Joined(size, [k \in K |-> Fragment(src, k)])[p] = src[p]
    BY <2>1, JoinedByte
  <2> QED BY <2>2 DEF OrigData, src, K, size
<1> QED BY <1>2, <1>3, <1>4 DEF Holds

LEMMA InitFilesInv == Init => FilesInv
BY StoreStart DEF Init, FilesInv

LEMMA FilesInvStep == LoopInv /\ FilesInv /\ [Next]_vars => FilesInv'
<1> SUFFICES ASSUME LoopInv, FilesInv, [Next]_vars PROVE FilesInv'
  OBVIOUS
<1>1. ASSUME UNCHANGED <<store, orig_size, s_pc>>,
             c_pc' = "exited" /\ c_map' # {} => s_pc = "finishing"
      PROVE  FilesInv'
  <2>1. (StoreInit => StoreInit') /\ (StoreInv => StoreInv')
    BY <1>1 DEF StoreInit, StoreInv, store
  <2> QED BY <1>1, <2>1 DEF FilesInv, store
<1>2. CASE Client
  <2>1. UNCHANGED <<store, orig_size, s_pc>>
    BY <1>2 DEF Client, SendNext, RoundSent, ReadTimeout, ReadResp, server
  <2>2. CASE SendNext \/ RoundSent \/ ReadTimeout
    BY <1>1, <2>1, <2>2 DEF SendNext, RoundSent, ReadTimeout, FilesInv
  <2>3. ASSUME NEW p \in c_q, ReadResp(p)
        PROVE  FilesInv'
    BY <1>1, <2>1, <2>3 DEF ReadResp, FilesInv, LoopInv
  <2> QED BY <1>2, <2>2, <2>3 DEF Client
<1>3. CASE RecvTimeout \/ SendFin
  <2>1. UNCHANGED <<store, orig_size, s_pc, c_pc, c_map>>
    BY <1>3 DEF RecvTimeout, SendFin, client, server
  <2> QED BY <1>1, <2>1 DEF FilesInv
<1>4. ASSUME NEW p \in s_q, Recv(p)
      PROVE  FilesInv'
  <2>1. /\ UNCHANGED <<store, c_pc, c_map>>
        /\ s_pc = "receiving" /\ s_pc' \in {"receiving", "joining"}
    BY <1>4 DEF Recv, client
  <2>2. StoreInit' /\ StoreInv'
    <3>1. StoreInit /\ StoreInv
      BY <2>1, StoreStart DEF FilesInv
    <3> QED BY <2>1, <3>1 DEF StoreInit, StoreInv, store
  <2> QED BY <2>1, <2>2 DEF FilesInv
<1>5. CASE SaveFile
  <2>1. s_pc = "saving" /\ UNCHANGED <<orig_size, s_pc, c_pc, c_map>>
    BY <1>5 DEF SaveFile, client, server
  <2>2. ASSUME orig_size = OrigSize PROVE StoreInv'
    BY <1>5, <2>1, <2>2, DataHeld, StoreStep DEF SaveFile, FilesInv, OrigSize
  <2> QED BY <2>1, <2>2 DEF FilesInv
<1>6. CASE Saved
  <2>1. s_pc' = "finishing" /\ UNCHANGED <<store, orig_size>>
    BY <1>6 DEF Saved
  <2>2. ASSUME orig_size = OrigSize PROVE StoreInv' /\ disk' = Sent
    <3>1. StoreInv /\ disk = Sent
      BY <1>6, <2>2, StoreEnd DEF Saved, FilesInv, OrigSize
    <3> QED BY <2>1, <3>1 DEF StoreInv, store
  <2> QED BY <2>1, <2>2 DEF FilesInv
<1>7. CASE Join
  <2>1. /\ UNCHANGED <<store, orig_size, c_pc, c_map>>
        /\ s_pc = "joining" /\ s_pc' \in {"saving", "crashed"}
    BY <1>7 DEF Join, client
  <2>2. (StoreInit => StoreInit') /\ (StoreInv => StoreInv')
    BY <2>1 DEF StoreInit, StoreInv, store
  <2> QED BY <2>1, <2>2 DEF FilesInv
<1>8. CASE UNCHANGED vars
  BY <1>1, <1>8 DEF vars, client, server, FilesInv
<1> QED BY <1>2, <1>3, <1>4, <1>5, <1>6, <1>7, <1>8 DEF Next, Server

(* When the server says FIN, and when the client exits because of one, the  *)
(* files on the server's disk are those of the client, unless the server    *)
(* has taken a bitmap for the size.                                         *)
THEOREM FilesStoredHolds == Spec => []FilesStored
<1>1. ASSUME LoopInv, FilesInv PROVE FilesStored
  <2> SUFFICES ASSUME s_pc = "finishing" \/ (c_pc = "exited" /\ c_map # {}), SizeKnown
               PROVE  disk = Sent
    BY DEF FilesStored
  <2>1. s_pc = "finishing"
    BY <1>1 DEF FilesInv
  <2>2. orig_size # UINT_MAX
    BY <1>1, <2>1 DEF LoopInv, Incomplete
  <2> QED BY <1>1, <2>1, <2>2 DEF SizeKnown, FilesInv
<1> QED BY <1>1, LoopInvariance, InitFilesInv, FilesInvStep, PTL DEF Spec

LEMMA SaveCompleteLemma == LoopInv => SaveComplete
<1> SUFFICES ASSUME LoopInv, SizeKnown
             PROVE  s_pc = "receiving" <=> recvbit # Packet
  BY DEF SaveComplete
<1>1. /\ recvbit \subseteq Packet /\ s_map = recvbit \ {0}
      /\ recv_size < OrigSize <=> s_map # Packet \ {0}
      /\ s_pc = "receiving" <=> Incomplete(orig_size, recv_size)
      /\ orig_size = UINT_MAX <=> 0 \notin recvbit
  BY Counted DEF LoopInv
<1>2. recvbit = Packet <=> (0 \in recvbit /\ s_map = Packet \ {0})
  BY <1>1, Sizes
<1>3. CASE orig_size = UINT_MAX
  BY <1>1, <1>2, <1>3 DEF Incomplete
<1>4. CASE orig_size = OrigSize
  BY <1>1, <1>2, <1>4, Sizes DEF Incomplete
<1> QED BY <1>3, <1>4 DEF SizeKnown

(* With the right size the server leaves its loop exactly when it has every  *)
(* packet, whatever has come before, between or after them.                 *)
THEOREM SaveCompleteHolds == Spec => []SaveComplete
BY SaveCompleteLemma, LoopInvariance, PTL

-----------------------------------------------------------------------------
(* Type correctness. All but recv_size is inductive with LoopInv.            *)

Acks == {Ack(b) : b \in SUBSET Packet}
Fins == {Fin(b) : b \in SUBSET Packet}
Datas == {Data(k) : k \in Packet}

Types ==
  /\ c_pc \in {"sending", "reading", "exited"} /\ todo \subseteq c_map
  /\ s_pc \in {"receiving", "joining", "saving", "finishing", "crashed"}
  /\ orig_size \in 0 .. UINT_MAX
  /\ s_q \subseteq Datas \cup Acks
  /\ c_q \cup {s_res} \subseteq Datas \cup Acks \cup Fins

LEMMA InitTypes == Init => Types
<1> SUFFICES ASSUME Init PROVE Types
  OBVIOUS
<1>1. Ack({}) \in Acks
  BY DEF Acks
<1> QED BY <1>1, XdpAssumption DEF Init, Types

LEMMA TypesClient ==
  ASSUME LoopInv, Types, Client
  PROVE  Types'
<1>1. CASE SendNext
  <2>1. PICK k \in todo : /\ s_q' \in ToServer(Data(k)) /\ c_q' \in EchoData(Data(k))
                          /\ todo' = todo \ {k}
    BY <1>1 DEF SendNext
  <2>2. Data(k) \in Datas
    BY DEF LoopInv, Datas
  <2>3. s_q' \subseteq s_q \cup {Data(k)} /\ c_q' \subseteq c_q \cup {Data(k)}
    BY <2>1 DEF Put, ToServer, ToClient, EchoData
  <2> QED BY <1>1, <2>1, <2>2, <2>3 DEF SendNext, Types, server
<1>2. CASE RoundSent \/ ReadTimeout
  BY <1>2 DEF RoundSent, ReadTimeout, Types, server
<1>3. ASSUME NEW p \in c_q, ReadResp(p)
      PROVE  Types'
  BY <1>3 DEF ReadResp, Take, Types, server
<1> QED BY <1>1, <1>2, <1>3 DEF Client

LEMMA TypesServer ==
  ASSUME LoopInv, LoopInv', Types, Server
  PROVE  Types'
<1>0. /\ Ack(recvbit) \in Acks /\ Fin(recvbit) \in Fins /\ Ack(recvbit') \in Acks
  BY DEF LoopInv, Acks, Fins
<1>1. CASE RecvTimeout
  <2>1. s_q' \subseteq s_q \cup {Ack(recvbit)} /\ c_q' \subseteq c_q \cup {Ack(recvbit)}
    BY <1>1 DEF RecvTimeout, EchoAck, ToClient, Put
  <2> QED BY <1>0, <1>1, <2>1 DEF RecvTimeout, Types, client, server
<1>2. CASE Join \/ SaveFile \/ Saved
  BY <1>2 DEF Join, SaveFile, Saved, Types, client, server
<1>3. CASE SendFin
  <2>1. c_q' \subseteq c_q \cup {Fin(recvbit)}
    BY <1>3 DEF SendFin, ToClient, Put
  <2> QED BY <1>0, <1>3, <2>1 DEF SendFin, Types, client, server
<1>4. ASSUME NEW p \in s_q, Recv(p)
      PROVE  Types'
  <2>1. s_q' \subseteq s_q \cup {Ack(recvbit')} /\ c_q' \subseteq c_q \cup {Ack(recvbit')}
    BY <1>4 DEF Recv, EchoAck, ToClient, Put, Take
  <2>2. AsSize(p) \in 0 .. UINT_MAX
    <3>1. CASE p.from = "client"
      BY <3>1, Sizes, XdpAssumption DEF AsSize
    <3>2. CASE p.from # "client"
      <4>1. p.bits \in SUBSET Packet
        BY <3>2 DEF LoopInv
      <4> QED BY <3>2, <4>1, XdpAssumption DEF AsSize
    <3> QED BY <3>1, <3>2
  <2>3. orig_size' \in 0 .. UINT_MAX /\ s_pc' \in {"receiving", "joining"}
    BY <1>4, <2>2 DEF Recv, Received, Types
  <2> QED BY <1>0, <1>4, <2>1, <2>3 DEF Recv, Types, client
<1> QED BY <1>1, <1>2, <1>3, <1>4 DEF Server

LEMMA TypesInvariance == Spec => [](LoopInv /\ Types)
<1>1. LoopInv /\ Types /\ [Next]_vars => Types'
  <2> SUFFICES ASSUME LoopInv, Types, [Next]_vars PROVE Types'
    OBVIOUS
  <2>1. LoopInv'
    BY NextLoopInv
  <2>2. CASE Next
    BY <2>1, <2>2, TypesClient, TypesServer DEF Next
  <2>3. CASE UNCHANGED vars
    BY <2>3 DEF vars, client, server, Types
  <2> QED BY <2>2, <2>3
<1> QED BY <1>1, InitTypes, LoopInvariance, PTL DEF Spec

(* The chunks counted are bytes that fit the client's archive, filled up.    *)
LEMMA NoWrap == LoopInv => recv_size \in 0 .. UINT_MAX
<1> SUFFICES ASSUME LoopInv PROVE recv_size \in 0 .. UINT_MAX
  OBVIOUS
<1> DEFINE n == Cardinality(s_map)
           x == DataSize * n
           y == Chunks * DataSize
<1>1. n \in 0 .. Chunks
  <2> DEFINE S == s_map
  <2>1. S \in SUBSET (1 .. Chunks) /\ Chunks \in Nat \ {0}
    BY Sizes DEF LoopInv
  <2> HIDE DEF S
  <2>2. Cardinality(S) \in 0 .. Chunks
    BY <2>1, ChunkCount
  <2> QED BY <2>2 DEF S
<1>2. recv_size = x
  BY DEF LoopInv
<1> HIDE DEF n
<1>3. x \in Nat /\ x <= y
  BY <1>1, DataSizeAssumption, XdpAssumption
<1>4. y \in Nat /\ y <= UINT_MAX /\ UINT_MAX \in Nat
  BY DataSizeAssumption, XdpAssumption
<1> HIDE DEF x, y
<1> QED BY <1>2, <1>3, <1>4

(* Every variable has its type, and recv_size does not wrap.                 *)
THEOREM TypeCorrect == Spec => []TypeOK
<1>1. LoopInv /\ Types => TypeOK
  BY NoWrap DEF LoopInv, Types, TypeOK, Acks, Fins, Datas
<1> QED BY <1>1, TypesInvariance, PTL

-----------------------------------------------------------------------------
(* Client, server and network take the steps of the abstract transfer.       *)

LEMMA AbstractInit == Init => Abstract!Init
BY DEF Init, Abstract!Init

LEMMA AbstractClient ==
  ASSUME LoopInv, Client
  PROVE  Abstract!Next \/ BelievesItself \/ UNCHANGED Abstract!vars
<1>1. CASE SendNext \/ RoundSent
  BY <1>1 DEF SendNext, RoundSent, Abstract!vars, server
<1>2. CASE ReadTimeout
  <2>1. CASE s_res.from = "client"
    BY <1>2, <2>1 DEF BelievesItself
  <2>2. CASE s_res.from # "client"
    <3>1. /\ s_res.bits \in SUBSET Packet /\ s_res.bits \subseteq recvbit
          /\ c_map \subseteq Packet
      BY <2>2 DEF LoopInv
    <3>2. c_pc = "reading" /\ c_map' = c_map \ s_res.bits
          /\ c_pc' = (IF c_map' = {} THEN "exited" ELSE "sending")
          /\ UNCHANGED <<recvbit, s_pc>>
      BY <1>2 DEF ReadTimeout, server
    <3>3. /\ Packet \ c_map' = (Packet \ c_map) \cup s_res.bits
          /\ c_map' = {} <=> Packet \ c_map' = Packet
      BY <3>1, <3>2
    <3>4. Abstract!Learn(s_res.bits)
      BY <3>1, <3>2, <3>3 DEF Abstract!Learn
    <3> QED BY <3>1, <3>2, <3>4 DEF Abstract!Next
  <2> QED BY <2>1, <2>2
<1>3. ASSUME NEW p \in c_q, ReadResp(p)
      PROVE  Abstract!Next \/ UNCHANGED Abstract!vars
  <2>1. CASE p.seq = FIN
    <3>1. s_pc = "finishing" /\ s_pc' = "finishing"
      BY <1>3, <2>1 DEF LoopInv, ReadResp, server
    <3>2. Abstract!Told
      BY <1>3, <2>1, <3>1 DEF Abstract!Told, ReadResp, server
    <3> QED BY <3>2 DEF Abstract!Next
  <2>2. CASE p.seq # FIN
    BY <1>3, <2>2 DEF ReadResp, Abstract!vars, server
  <2> QED BY <2>1, <2>2
<1> QED BY <1>1, <1>2, <1>3 DEF Client

LEMMA AbstractServer ==
  ASSUME LoopInv, Server
  PROVE  Abstract!Next \/ BelievesItself \/ UNCHANGED Abstract!vars
<1>1. CASE RecvTimeout \/ SaveFile \/ SendFin
  BY <1>1 DEF RecvTimeout, SaveFile, SendFin, Abstract!vars, client, server
<1>2. CASE Join
  BY <1>2 DEF Join, Abstract!vars, client
<1>3. CASE Saved
  <2>1. CASE ~SizeKnown
    BY <1>3, <2>1 DEF BelievesItself
  <2>2. CASE SizeKnown
    <3>1. recvbit = Packet
      BY <1>3, <2>2, SaveCompleteLemma DEF Saved, SaveComplete
    <3>2. Abstract!Store
      BY <1>3, <3>1 DEF Saved, Abstract!Store, client
    <3> QED BY <3>2 DEF Abstract!Next
  <2> QED BY <2>1, <2>2
<1>4. ASSUME NEW p \in s_q, Recv(p)
      PROVE  Abstract!Next \/ UNCHANGED Abstract!vars
  <2>1. /\ p.seq \in Packet /\ recvbit' = recvbit \cup {p.seq}
        /\ s_pc # "finishing" /\ s_pc' # "finishing" /\ UNCHANGED client
    BY <1>4 DEF Recv, LoopInv
  <2>2. CASE p.seq \in recvbit
    BY <2>1, <2>2 DEF Abstract!vars, client
  <2>3. CASE p.seq \notin recvbit
    <3>1. Abstract!Deliver(p.seq)
      BY <2>1, <2>3 DEF Abstract!Deliver, client
    <3> QED BY <2>1, <3>1 DEF Abstract!Next
  <2> QED BY <2>2, <2>3
<1> QED BY <1>1, <1>2, <1>3, <1>4 DEF Server

(* The transfer implements the abstract one, but for the two steps in which  *)
(* a process believes a packet of its own.                                  *)
THEOREM Refinement == Spec => ImplementsTransfer
<1>1. LoopInv /\ [Next]_vars => [Abstract!Next \/ BelievesItself]_Abstract!vars
  <2> SUFFICES ASSUME LoopInv, [Next]_vars
               PROVE  Abstract!Next \/ BelievesItself \/ UNCHANGED Abstract!vars
    OBVIOUS
  <2>1. CASE Next
    BY <2>1, AbstractClient, AbstractServer DEF Next
  <2>2. CASE UNCHANGED vars
    BY <2>2 DEF vars, client, server, Abstract!vars
  <2> QED BY <2>1, <2>2
<1> QED BY <1>1, AbstractInit, LoopInvariance, PTL DEF Spec, ImplementsTransfer
=============================================================================
