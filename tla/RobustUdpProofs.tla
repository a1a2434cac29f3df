-------------------------- MODULE RobustUdpProofs --------------------------
(* Proofs that RobustUdp keeps its invariants and implements Transfer for   *)
(* every archive, chunk size and threshold.                                 *)
EXTENDS RobustUdp, ArchiveProofs, TLAPS

(* The loop's variables: what the bytes counted stand for, and when it ends. *)
LoopInv ==
  /\ comp_size = CompSize <=> 0 \in recvbit
  /\ recv_size = DataSize * Cardinality(recvbit \ {0})
  /\ s_pc # "finishing" => s_map = recvbit \ {0}
  /\ s_pc = "receiving" <=> Incomplete(comp_size, recv_size)

(* A FIN is sent only by the loop that follows save_to_file.                *)
FinAfterSave == \A m \in resps : m.fin => s_pc = "finishing"

(* The inductive invariant from which the others are proved.                *)
IInv == TypeOK /\ NoFalseErase /\ LoopInv /\ FinAfterSave

(* For FilesStored: the disk follows the unpacking loop, and only a FIN,     *)
(* which comes after it, lets the client go with packets in its map.        *)
FilesInv ==
  /\ StoreInv
  /\ s_pc = "finishing" => disk = Sent
  /\ c_pc = "exited" /\ c_map # {} => s_pc = "finishing"

(* The fragments that the server saves always decompress.                   *)
FrameRecovered == s_pc = "saving" => Decompressed

LEMMA PacketFinite ==
  /\ IsFiniteSet(Packet) /\ Cardinality(Packet) = Chunks + 1
  /\ 0 \in Packet
  /\ \A S \in SUBSET Packet : IsFiniteSet(S)
<1>1. IsFiniteSet(Packet) /\ Cardinality(Packet) = Chunks + 1
  <2>1. Chunks \in Nat \ {0} /\ 0 \in Int /\ Chunks \in Int /\ ~ (0 > Chunks)
    BY RobustUdpAssumption
  <2> QED BY <2>1, FS_Interval DEF Packet
<1>2. \A S \in SUBSET Packet : IsFiniteSet(S)
  BY <1>1, FS_Subset
<1> QED BY <1>1, <1>2, RobustUdpAssumption DEF Packet

(* The server's loop runs exactly until it has every packet.                *)
LEMMA LoopEnds ==
  ASSUME TypeOK, comp_size = CompSize <=> 0 \in recvbit,
         recv_size = DataSize * Cardinality(recvbit \ {0})
  PROVE  Incomplete(comp_size, recv_size) <=> recvbit # Packet
<1> DEFINE S == recvbit \ {0}
<1>1. /\ Chunks \in Nat \ {0} /\ CompSize \in Nat
      /\ (Chunks - 1) * DataSize < CompSize /\ CompSize <= Chunks * DataSize
      /\ S \in SUBSET (1 .. Chunks) /\ Packet \ {0} = 1 .. Chunks
  BY RobustUdpAssumption DEF TypeOK, Packet
<1>2. recv_size = DataSize * Cardinality(S)
  OBVIOUS
<1> HIDE DEF S
<1>3. recv_size < CompSize <=> S # Packet \ {0}
  BY <1>1, <1>2, EnoughBytes
<1>4. CompSize # UINT_MAX
  BY RobustUdpAssumption
<1> QED BY <1>3, <1>4, PacketFinite DEF Incomplete, TypeOK, S

LEMMA SaveCompleteLemma == IInv => SaveComplete
BY LoopEnds DEF IInv, LoopInv, SaveComplete

LEMMA InitIInv == Init => IInv
<1> SUFFICES ASSUME Init PROVE IInv
  OBVIOUS
<1> USE RobustUdpAssumption DEF Init
<1>1. TypeOK /\ NoFalseErase /\ FinAfterSave
  BY PacketFinite DEF TypeOK, NoFalseErase, FinAfterSave
<1>2. LoopInv
  <2>1. recvbit \ {0} = {} /\ Cardinality({}) = 0
    BY FS_EmptySet
  <2>2. recv_size = DataSize * Cardinality(recvbit \ {0})
    BY <2>1, DataSizeAssumption
  <2> QED BY <2>1, <2>2 DEF LoopInv, Incomplete
<1> QED BY <1>1, <1>2 DEF IInv

(* The client changes nothing of the server's, and what it erases is marked *)
(* in a bitmap that the server sent.                                        *)
LEMMA ClientStep ==
  ASSUME IInv, Client
  PROVE  IInv'
<1> USE DEF IInv
<1>1. ASSUME UNCHANGED server, UNCHANGED resps, TypeOK',
             Packet \ c_map' \subseteq recvbit, donebit' \subseteq recvbit
      PROVE  IInv'
  BY <1>1 DEF server, NoFalseErase, LoopInv, FinAfterSave
<1>2. CASE SendNext
  <2>1. TypeOK'
    BY <1>2 DEF SendNext, Put, TypeOK, server
  <2> QED BY <1>1, <1>2, <2>1 DEF SendNext, NoFalseErase
<1>3. CASE RoundSent
  <2>1. TypeOK'
    BY <1>3 DEF RoundSent, TypeOK, server
  <2> QED BY <1>1, <1>3, <2>1 DEF RoundSent, NoFalseErase
<1>4. CASE ReadTimeout
  <2>1. TypeOK'
    BY <1>4 DEF ReadTimeout, TypeOK, server
  <2> QED BY <1>1, <1>4, <2>1 DEF ReadTimeout, NoFalseErase, TypeOK
<1>5. ASSUME NEW m \in resps, ReadResp(m)
      PROVE  IInv'
  <2>1. m.bits \subseteq Packet /\ m.bits \subseteq recvbit /\ resps' \subseteq resps
    BY <1>5 DEF ReadResp, Take, TypeOK, Response, NoFalseErase
  <2>2. TypeOK'
    BY <1>5, <2>1 DEF ReadResp, TypeOK, server
  <2>3. NoFalseErase' /\ LoopInv' /\ FinAfterSave'
    BY <1>5, <2>1 DEF ReadResp, NoFalseErase, LoopInv, FinAfterSave, server
  <2> QED BY <2>2, <2>3
<1> QED BY <1>2, <1>3, <1>4, <1>5 DEF Client

(* One iteration of the server's loop.                                      *)
LEMMA RecvStep ==
  ASSUME IInv, NEW k \in data, Recv(k)
  PROVE  IInv'
<1> USE DEF IInv
<1>0. k \in Packet
  BY DEF TypeOK
<1>1. /\ recvbit' = recvbit \cup {k}
      /\ comp_size' = IF k = 0 THEN CompSize ELSE comp_size
      /\ recv_size' = IF k \in s_map \cup {0} THEN recv_size ELSE recv_size + DataSize
      /\ s_map' = s_map \cup ({k} \ {0})
      /\ s_pc = "receiving"
      /\ s_pc' = IF Incomplete(comp_size', recv_size') THEN "receiving" ELSE "saving"
      /\ UNCHANGED client
  BY DEF Recv, Received
<1>2. resps' \subseteq resps \cup {Ack(recvbit')} /\ data' \subseteq data
  BY DEF Recv, Put, Take
<1>3. s_map = recvbit \ {0}
  BY <1>1 DEF LoopInv
<1>4. recv_size' = DataSize * Cardinality(recvbit' \ {0})
  <2> DEFINE S == recvbit \ {0}
  <2>1. IsFiniteSet(S)
    BY PacketFinite DEF TypeOK
  <2>2. Cardinality(S) \in Nat /\ recv_size = DataSize * Cardinality(S)
    BY <2>1, FS_CardinalityType DEF LoopInv
  <2>3. CASE k \in S \cup {0}
    <3>1. recvbit' \ {0} = S
      BY <1>1, <2>3
    <3>2. recv_size' = recv_size
      BY <1>1, <1>3, <2>3
    <3> QED BY <2>2, <3>1, <3>2
  <2>4. CASE k \notin S \cup {0}
    <3>1. recvbit' \ {0} = S \cup {k}
      BY <1>1, <2>4
    <3>2. Cardinality(S \cup {k}) = Cardinality(S) + 1
      BY <2>1, <2>4, FS_AddElement
    <3>3. recv_size' = recv_size + DataSize
      BY <1>1, <1>3, <2>4
    <3>4. DataSize * (Cardinality(S) + 1) = DataSize * Cardinality(S) + DataSize
      BY <2>2, DataSizeAssumption
    <3> QED BY <2>2, <3>1, <3>2, <3>3, <3>4
  <2> QED BY <2>3, <2>4
<1>5. recv_size' \in Nat
  BY <1>1, DataSizeAssumption DEF TypeOK
<1>6. keep' \in BOOLEAN
  BY DEF Recv
<1>7. Ack(recvbit') \in Response
  BY <1>0, <1>1 DEF Ack, Response, TypeOK
<1>8. TypeOK'
  BY <1>0, <1>1, <1>2, <1>3, <1>5, <1>6, <1>7 DEF TypeOK, client
<1>9. NoFalseErase'
  BY <1>1, <1>2 DEF NoFalseErase, client, Ack
<1>10. comp_size' = CompSize <=> 0 \in recvbit'
  BY <1>1 DEF LoopInv
<1>11. s_pc' = "receiving" <=> Incomplete(comp_size', recv_size')
  BY <1>1
<1>12. LoopInv'
  BY <1>1, <1>3, <1>4, <1>10, <1>11 DEF LoopInv
<1>13. FinAfterSave'
  BY <1>1, <1>2 DEF FinAfterSave, Ack
<1> QED BY <1>8, <1>9, <1>12, <1>13

LEMMA ServerStep ==
  ASSUME IInv, Server
  PROVE  IInv'
<1> USE DEF IInv
<1>1. CASE SaveFile
  BY <1>1 DEF SaveFile, client, server, TypeOK, NoFalseErase, LoopInv, FinAfterSave
<1>3. CASE Saved
  BY <1>3 DEF Saved, client, TypeOK, NoFalseErase, LoopInv, FinAfterSave
<1>2. ASSUME NEW k \in data, SendFin(k)
      PROVE  IInv'
  <2>1. /\ s_pc = "finishing" /\ UNCHANGED <<client, server>>
        /\ resps' \subseteq resps \cup {Fin(recvbit)} /\ data' \subseteq data
    BY <1>2 DEF SendFin, Put, Take
  <2>2. Fin(recvbit) \in Response
    BY DEF Fin, Response, TypeOK
  <2>3. TypeOK'
    BY <2>1, <2>2 DEF TypeOK, client, server
  <2>4. NoFalseErase' /\ LoopInv' /\ FinAfterSave'
    BY <2>1 DEF NoFalseErase, LoopInv, FinAfterSave, client, server, Fin
  <2> QED BY <2>3, <2>4
<1> QED BY <1>1, <1>2, <1>3, RecvStep DEF Server

(* IInv is an inductive invariant.                                          *)
LEMMA NextIInv == IInv /\ [Next]_vars => IInv'
<1> SUFFICES ASSUME IInv, [Next]_vars PROVE IInv'
  OBVIOUS
<1>1. CASE Next
  BY <1>1, ClientStep, ServerStep DEF Next
<1>2. CASE UNCHANGED vars
  BY <1>2 DEF vars, client, server, IInv, TypeOK, NoFalseErase, LoopInv, FinAfterSave
<1> QED BY <1>1, <1>2

(* The invariant from which the theorems below follow.                      *)
THEOREM Invariance == Spec => []IInv
BY InitIInv, NextIInv, PTL DEF Spec

(* Type correctness.                                                        *)
THEOREM TypeCorrect == Spec => []TypeOK
BY Invariance, PTL DEF IInv

(* The client erases a packet from data_map only when the server has it.    *)
THEOREM NoFalseEraseHolds == Spec => []NoFalseErase
BY Invariance, PTL DEF IInv

(* The server leaves its loop exactly when it has every packet.             *)
THEOREM SaveCompleteHolds == Spec => []SaveComplete
BY Invariance, SaveCompleteLemma, PTL

(* Client, server and network take the steps of the abstract transfer.      *)
LEMMA AbstractInit == Init => Abstract!Init
BY DEF Init, Abstract!Init

LEMMA AbstractClient ==
  ASSUME IInv, Client
  PROVE  Abstract!Next \/ UNCHANGED Abstract!vars
<1> USE DEF IInv
<1>1. CASE SendNext \/ RoundSent
  BY <1>1 DEF SendNext, RoundSent, Abstract!vars, server
<1>2. CASE ReadTimeout
  <2>1. /\ donebit \in SUBSET Packet /\ donebit \subseteq recvbit /\ c_pc # "exited"
        /\ Packet \ c_map' = (Packet \ c_map) \cup donebit
        /\ c_map' = {} <=> Packet \ c_map' = Packet
        /\ c_pc' = "exited" <=> c_map' = {}
        /\ UNCHANGED <<recvbit, s_pc>>
    BY <1>2 DEF ReadTimeout, TypeOK, NoFalseErase, server
  <2>2. Abstract!Learn(donebit)
    BY <2>1 DEF Abstract!Learn
  <2> QED BY <2>1, <2>2 DEF Abstract!Next
<1>3. ASSUME NEW m \in resps, ReadResp(m)
      PROVE  Abstract!Next \/ UNCHANGED Abstract!vars
  <2>1. CASE m.fin
    <3>1. s_pc = "finishing" /\ s_pc' = "finishing"
      BY <1>3, <2>1 DEF FinAfterSave, ReadResp, server
    <3>2. Abstract!Told
      BY <1>3, <2>1, <3>1 DEF Abstract!Told, ReadResp, server
    <3> QED BY <3>2 DEF Abstract!Next
  <2>2. CASE ~ m.fin
    BY <1>3, <2>2 DEF ReadResp, Abstract!vars, server
  <2> QED BY <2>1, <2>2
<1> QED BY <1>1, <1>2, <1>3 DEF Client

LEMMA AbstractServer ==
  ASSUME IInv, Server
  PROVE  Abstract!Next \/ UNCHANGED Abstract!vars
<1> USE DEF IInv
<1>4. CASE SaveFile
  BY <1>4 DEF SaveFile, Abstract!vars, client, server
<1>1. CASE Saved
  <2>1. recvbit = Packet
    BY <1>1, SaveCompleteLemma DEF Saved, SaveComplete
  <2>2. Abstract!Store
    BY <1>1, <2>1 DEF Saved, Abstract!Store, client
  <2> QED BY <2>2 DEF Abstract!Next
<1>2. ASSUME NEW k \in data, Recv(k)
      PROVE  Abstract!Next \/ UNCHANGED Abstract!vars
  <2>1. /\ k \in Packet /\ recvbit' = recvbit \cup {k}
        /\ s_pc # "finishing" /\ s_pc' # "finishing" /\ UNCHANGED client
    BY <1>2 DEF Recv, TypeOK
  <2>2. CASE k \in recvbit
    BY <2>1, <2>2 DEF Abstract!vars, client
  <2>3. CASE k \notin recvbit
    <3>1. Abstract!Deliver(k)
      BY <2>1, <2>3 DEF Abstract!Deliver, client
    <3> QED BY <2>1, <3>1 DEF Abstract!Next
  <2> QED BY <2>2, <2>3
<1>3. ASSUME NEW k \in data, SendFin(k)
      PROVE  UNCHANGED Abstract!vars
  BY <1>3 DEF SendFin, Abstract!vars, client, server
<1> QED BY <1>1, <1>2, <1>3, <1>4 DEF Server

(* The transfer implements the abstract one.                                *)
THEOREM Refinement == Spec => ImplementsTransfer
<1>1. IInv /\ [Next]_vars => [Abstract!Next]_Abstract!vars
  <2> SUFFICES ASSUME IInv, [Next]_vars
               PROVE  Abstract!Next \/ UNCHANGED Abstract!vars
    OBVIOUS
  <2>1. CASE Next
    BY <2>1, AbstractClient, AbstractServer DEF Next
  <2>2. CASE UNCHANGED vars
    BY <2>2 DEF vars, client, server, Abstract!vars
  <2> QED BY <2>1, <2>2
<1> QED
  BY <1>1, AbstractInit, Invariance, PTL DEF Spec, ImplementsTransfer, Abstract!Spec

(* The quotient comp_size / DATA_SIZE is at most one less than Chunks.      *)
LEMMA Quotient ==
  /\ CompSize \div DataSize \in Nat /\ Chunks - 1 <= CompSize \div DataSize
  /\ CompSize \div DataSize < SizeMod
<1> DEFINE q == CompSize \div DataSize
<1>1. DataSize \in Nat /\ DataSize > 0 /\ CompSize \in Nat /\ SizeMod \in Nat
      /\ CompSize < SizeMod
      /\ (Chunks - 1) * DataSize < CompSize /\ Chunks - 1 \in Nat
  BY RobustUdpAssumption, DataSizeAssumption
<1>2. q \in Nat /\ q * DataSize <= CompSize /\ CompSize < (q + 1) * DataSize
  BY <1>1
<1>3. q <= CompSize
  BY <1>1, <1>2
<1>4. Chunks - 1 <= q
  <2> HIDE DEF q
  <2>1. ASSUME q + 1 <= Chunks - 1 PROVE FALSE
    <3>1. PICK d \in Nat : Chunks - 1 = (q + 1) + d
      <4>1. Chunks - 1 - (q + 1) \in Nat
        BY <2>1, <1>1, <1>2
      <4> QED BY <4>1, <1>1, <1>2
    <3>2. (Chunks - 1) * DataSize = (q + 1) * DataSize + d * DataSize
      BY <3>1, <1>1, <1>2
    <3>3. d * DataSize \in Nat /\ (q + 1) * DataSize \in Nat
      BY <3>1, <1>1, <1>2
    <3> QED BY <3>2, <3>3, <1>1, <1>2
  <2> QED BY <2>1, <1>1, <1>2
<1>5. q < SizeMod
  BY <1>1, <1>2, <1>3
<1> QED BY <1>2, <1>4, <1>5

LEMMA LargeQuotient ==
  /\ UINT_MAX \div DataSize \in Nat /\ UINT_MAX \div DataSize < SizeMod
  /\ Chunks + 1 + Near <= UINT_MAX \div DataSize
<1>1. /\ DataSize \in Nat /\ DataSize > 0 /\ UINT_MAX \in Nat /\ SizeMod \in Nat
      /\ UINT_MAX < SizeMod /\ Chunks + 1 + Near <= UINT_MAX \div DataSize
  BY RobustUdpAssumption, DataSizeAssumption
<1> DEFINE q == UINT_MAX \div DataSize
<1>2. q \in Nat /\ q * DataSize <= UINT_MAX
  BY <1>1
<1>3. q <= UINT_MAX
  BY <1>1, <1>2
<1>4. q < SizeMod
  BY <1>1, <1>2, <1>3
<1> QED BY <1>1, <1>2, <1>4

LEMMA SmallMod ==
  ASSUME NEW n \in Nat, NEW m \in Nat, n < m
  PROVE  n % m = n
OBVIOUS

(* When the condition for frequent acks holds, they are due.                *)
LEMMA NearEndMeans ==
  ASSUME NEW comp \in {UINT_MAX, CompSize}, NEW bits \in SUBSET Packet,
         NearEnd(comp, bits)
  PROVE  comp = CompSize /\ Cardinality(Packet \ bits) <= Near + 1
<1> DEFINE c == Cardinality(bits)
           missing == Cardinality(Packet \ bits)
<1>1. c \in Nat /\ missing \in Nat /\ missing = Chunks + 1 - c
  <2>1. IsFiniteSet(bits) /\ IsFiniteSet(Packet \ bits) /\ Packet \cap bits = bits
    BY PacketFinite
  <2>2. c \in Nat /\ missing \in Nat
    BY <2>1, FS_CardinalityType
  <2>3. missing = Cardinality(Packet) - Cardinality(Packet \cap bits)
    BY PacketFinite, FS_Difference
  <2>4. Cardinality(Packet \cap bits) = c /\ Cardinality(Packet) = Chunks + 1
        /\ Chunks \in Nat
    BY <2>1, PacketFinite, RobustUdpAssumption
  <2> HIDE DEF c, missing
  <2> QED BY <2>2, <2>3, <2>4
<1>2. Chunks \in Nat /\ Near \in Nat /\ SizeMod \in Nat
  BY RobustUdpAssumption
<1>3. comp # UINT_MAX
  <2> SUFFICES ASSUME comp = UINT_MAX PROVE FALSE
    OBVIOUS
  <2> DEFINE q == UINT_MAX \div DataSize
  <2>1. q \in Nat /\ q < SizeMod /\ Chunks + 1 + Near <= q
    BY LargeQuotient
  <2>2. (q - c) % SizeMod < Near
    BY DEF NearEnd
  <2> HIDE DEF q, c, missing
  <2>3. q - c \in Nat /\ q - c < SizeMod /\ ~ (q - c < Near)
    BY <1>1, <1>2, <2>1
  <2>4. (q - c) % SizeMod = q - c
    BY <1>2, <2>3, SmallMod
  <2> QED BY <2>2, <2>3, <2>4
<1>4. missing <= Near + 1
  <2> DEFINE q == CompSize \div DataSize
  <2>1. q \in Nat /\ q < SizeMod /\ Chunks - 1 <= q
    BY Quotient
  <2>2. (q - c) % SizeMod < Near
    BY <1>3 DEF NearEnd
  <2> HIDE DEF q, c, missing
  <2>3. CASE c <= q
    <3>1. q - c \in Nat /\ q - c < SizeMod
      BY <1>1, <1>2, <2>1, <2>3
    <3>2. (q - c) % SizeMod = q - c
      BY <1>2, <3>1, SmallMod
    <3> QED BY <1>1, <1>2, <2>1, <2>2, <3>1, <3>2
  <2>4. CASE c > q
    BY <1>1, <1>2, <2>1, <2>4
  <2> QED BY <1>1, <2>1, <2>3, <2>4
<1> QED BY <1>3, <1>4

LEMMA FastAcksStep ==
  ASSUME IInv, FastAcksOnlyNearTheEnd, [Next]_vars
  PROVE  FastAcksOnlyNearTheEnd'
<1>1. ASSUME NEW k \in data, Recv(k)
      PROVE  FastAcksOnlyNearTheEnd'
  <2>1. /\ k \in Packet /\ recvbit' = recvbit \cup {k} /\ recvbit' \in SUBSET Packet
        /\ comp_size' \in {UINT_MAX, CompSize}
        /\ comp_size = CompSize => comp_size' = CompSize
        /\ keep' = (keep \/ NearEnd(comp_size', recvbit'))
    BY <1>1 DEF Recv, Received, IInv, TypeOK
  <2>2. CASE NearEnd(comp_size', recvbit')
    BY <2>1, <2>2, NearEndMeans DEF FastAcksOnlyNearTheEnd
  <2>3. CASE keep
    <3>1. Packet \ recvbit' \in SUBSET (Packet \ recvbit)
      BY <2>1
    <3>2. IsFiniteSet(Packet \ recvbit) /\ IsFiniteSet(Packet \ recvbit')
      BY PacketFinite
    <3>3. Cardinality(Packet \ recvbit') <= Cardinality(Packet \ recvbit)
      BY <3>1, <3>2, FS_Subset
    <3>4. /\ Cardinality(Packet \ recvbit') \in Nat
          /\ Cardinality(Packet \ recvbit) \in Nat /\ Near \in Nat
      BY <3>2, FS_CardinalityType, RobustUdpAssumption
    <3>5. comp_size = CompSize /\ Cardinality(Packet \ recvbit) <= Near + 1
      BY <2>3 DEF FastAcksOnlyNearTheEnd
    <3> QED BY <2>1, <3>3, <3>4, <3>5 DEF FastAcksOnlyNearTheEnd
  <2>4. CASE ~ keep /\ ~ NearEnd(comp_size', recvbit')
    BY <2>1, <2>4 DEF FastAcksOnlyNearTheEnd
  <2> QED BY <2>2, <2>3, <2>4
<1>2. CASE UNCHANGED <<keep, comp_size, recvbit>>
  BY <1>2 DEF FastAcksOnlyNearTheEnd
<1>3. CASE Client
  BY <1>2, <1>3 DEF Client, SendNext, RoundSent, ReadTimeout, ReadResp, server
<1>4. CASE SaveFile \/ Saved \/ \E k \in data : SendFin(k)
  BY <1>2, <1>4 DEF SaveFile, Saved, SendFin, server
<1>5. CASE UNCHANGED vars
  BY <1>2, <1>5 DEF vars, server
<1> QED BY <1>1, <1>3, <1>4, <1>5 DEF Next, Server

(* The wrap-around of the subtraction never makes acks frequent too early.  *)
THEOREM FastAcksHold == Spec => []FastAcksOnlyNearTheEnd
<1>1. Init => FastAcksOnlyNearTheEnd
  BY DEF Init, FastAcksOnlyNearTheEnd
<1> QED BY <1>1, FastAcksStep, Invariance, PTL DEF Spec

-----------------------------------------------------------------------------
(* What the server unpacks is the client's archive.                         *)

LEMMA FrameLemma == IInv => FrameRecovered
<1> SUFFICES ASSUME IInv, s_pc = "saving" PROVE Decompressed
  BY DEF FrameRecovered
<1>1. recvbit = Packet
  BY SaveCompleteLemma DEF SaveComplete
<1>2. comp_size = CompSize /\ s_map = Packet \ {0}
  BY <1>1, PacketFinite DEF IInv, LoopInv
<1>3. /\ CompSize \in Nat /\ Chunks \in Nat /\ CompSize <= Chunks * DataSize
      /\ 1 .. Chunks \subseteq s_map
  BY <1>2, RobustUdpAssumption DEF Packet
<1>4. Len(Frame) = CompSize
  BY <1>3 DEF Frame
<1>5. ASSUME NEW p \in 1 .. CompSize
      PROVE  Joined(comp_size, [k \in s_map |-> Fragment(Frame, k)])[p] = Frame[p]
  <2> DEFINE src == Frame
             K == s_map
             size == comp_size
  <2>1. /\ Len(src) \in Nat /\ size \in Nat /\ Chunks \in Nat /\ 1 .. Chunks \subseteq K
        /\ size <= Chunks * DataSize /\ p \in 1 .. size /\ p <= Len(src)
    BY <1>2, <1>3, <1>4
  <2> HIDE DEF src, K, size
  <2>2. Joined(size, [k \in K |-> Fragment(src, k)])[p] = src[p]
    BY <2>1, JoinedByte
  <2> QED BY <2>2 DEF src, K, size
<1>6. Joined(comp_size, [k \in s_map |-> Fragment(Frame, k)]) = Frame
  <2> DEFINE frags == [k \in s_map |-> Fragment(Frame, k)]
  <2>1. Joined(comp_size, frags) = [p \in 1 .. CompSize |-> Joined(comp_size, frags)[p]]
    BY <1>2 DEF Joined
  <2> QED BY <1>5, <2>1 DEF Frame
<1> QED BY <1>6 DEF Decompressed

(* Whenever the server leaves its loop the fragments decompress: it never   *)
(* ends there.                                                              *)
THEOREM FrameRecoveredHolds == Spec => []FrameRecovered
BY Invariance, FrameLemma, PTL

LEMMA InitFilesInv == Init => FilesInv
BY StoreStart DEF Init, FilesInv

LEMMA FilesInvStep == IInv /\ FilesInv /\ [Next]_vars => FilesInv'
<1> SUFFICES ASSUME IInv, FilesInv, [Next]_vars PROVE FilesInv'
  OBVIOUS
<1>1. ASSUME UNCHANGED store, s_pc' = "finishing" <=> s_pc = "finishing",
             c_pc' = "exited" /\ c_map' # {} => s_pc = "finishing"
      PROVE  FilesInv'
  <2>1. StoreInv'
    BY <1>1 DEF FilesInv, StoreInv, store
  <2> QED BY <1>1, <2>1 DEF FilesInv, store
<1>2. CASE Client
  <2>1. UNCHANGED <<store, s_pc>>
    BY <1>2 DEF Client, SendNext, RoundSent, ReadTimeout, ReadResp, server
  <2>2. CASE SendNext \/ RoundSent \/ ReadTimeout
    BY <1>1, <2>1, <2>2 DEF SendNext, RoundSent, ReadTimeout, FilesInv
  <2>3. ASSUME NEW m \in resps, ReadResp(m)
        PROVE  FilesInv'
    BY <1>1, <2>1, <2>3 DEF ReadResp, FilesInv, IInv, FinAfterSave
  <2> QED BY <1>2, <2>2, <2>3 DEF Client
<1>3. ASSUME NEW k \in data, Recv(k) \/ SendFin(k)
      PROVE  FilesInv'
  <2>1. /\ UNCHANGED <<store, c_pc, c_map>>
        /\ s_pc' = "finishing" <=> s_pc = "finishing"
    BY <1>3 DEF Recv, SendFin, client, server
  <2> QED BY <1>1, <2>1 DEF FilesInv
<1>4. CASE SaveFile
  <2>1. Holds(Archive)
    BY ArchiveLength DEF Holds
  <2>2. StoreInv'
    BY <1>4, <2>1, StoreStep DEF SaveFile, FilesInv
  <2>3. s_pc' = "saving" /\ s_pc = "saving" /\ UNCHANGED <<c_pc, c_map>>
    BY <1>4 DEF SaveFile, client, server
  <2> QED BY <2>2, <2>3 DEF FilesInv
<1>5. CASE Saved
  <2>1. disk = Sent
    BY <1>5, StoreEnd DEF Saved, FilesInv
  <2>2. s_pc' = "finishing" /\ UNCHANGED store
    BY <1>5 DEF Saved
  <2>3. StoreInv'
    BY <2>2 DEF FilesInv, StoreInv, store
  <2> QED BY <2>1, <2>2, <2>3 DEF FilesInv, store
<1>6. CASE UNCHANGED vars
  BY <1>1, <1>6 DEF vars, client, server, FilesInv
<1> QED BY <1>2, <1>3, <1>4, <1>5, <1>6 DEF Next, Server

(* The server says FIN, and the client believes it, only when the files on  *)
(* its disk are those that the client had.                                  *)
THEOREM FilesStoredHolds == Spec => []FilesStored
<1>1. FilesInv => FilesStored
  BY DEF FilesInv, FilesStored
<1> QED BY <1>1, Invariance, InitFilesInv, FilesInvStep, PTL DEF Spec

(* The client does not exit before the server has received every packet,     *)
(* whether its bitmap has run empty or a FIN has told it (Lab/8/client.cpp). *)
AllReceived == c_pc = "exited" => recvbit = Packet

THEOREM AllReceivedHolds == Spec => []AllReceived
<1>1. ASSUME IInv, FilesInv PROVE AllReceived
  <2> SUFFICES ASSUME c_pc = "exited" PROVE recvbit = Packet
    BY DEF AllReceived
  <2>1. CASE c_map = {}
    BY <1>1, <2>1 DEF IInv, TypeOK, NoFalseErase
  <2>2. CASE c_map # {}
    <3>1. s_pc = "finishing"
      BY <1>1, <2>2 DEF FilesInv
    <3> QED BY <1>1, <3>1, SaveCompleteLemma DEF SaveComplete
  <2> QED BY <2>1, <2>2
<1> QED BY <1>1, Invariance, InitFilesInv, FilesInvStep, PTL DEF Spec
=============================================================================
