--------------------------- MODULE ArchiveProofs ---------------------------
(* What the receiver of an archive makes of it, for any files and any size  *)
(* of fragments: joined in whatever order, the fragments are the archive,   *)
(* and a turn of the unpacking loop at a record stores its file.            *)
EXTENDS Archive, FiniteSetTheorems, SequenceTheorems, WellFoundedInduction, TLAPS

(* Between two turns: ptr is at a record, the files before it are stored,    *)
(* and the others are as they were.                                          *)
StoreInv ==
  \E n \in 1 .. Total + 1 :
    /\ ptr = Offset[n]
    /\ disk = [f \in File |-> IF f < n THEN Sent[f] ELSE Old[f]]

(* The least-number principle, for a set; the induction that follows from it *)
(* is what the offsets need.                                                 *)
LEMMA LeastElement ==
  ASSUME NEW S \in SUBSET Nat, S # {}
  PROVE  \E n \in S : \A m \in S : n <= m
<1> DEFINE R == OpToRel(<, Nat)
<1>1. IsWellFoundedOn(R, Nat)
  BY NatLessThanWellFounded
<1>2. \A x, y \in Nat : y < x => <<y, x>> \in R
  BY DEF OpToRel
<1> HIDE DEF R
<1>3. PICK x \in S : \A y \in S : ~ (<<y, x>> \in R)
  BY <1>1, WFMin
<1>4. ASSUME NEW y \in S PROVE x <= y
  <2>1. ~ (y < x)
    BY <1>2, <1>3
  <2> QED BY <2>1
<1> QED BY <1>4

LEMMA FromBelow ==
  ASSUME NEW S, 0 \in S, \A n \in Nat : n \in S => n + 1 \in S
  PROVE  Nat \subseteq S
<1> SUFFICES ASSUME Nat \ S # {} PROVE FALSE
  OBVIOUS
<1>1. PICK n \in Nat \ S : \A m \in Nat \ S : n <= m
  BY LeastElement
<1>2. n - 1 \in Nat /\ n - 1 \in S
  BY <1>1
<1> QED BY <1>1, <1>2

-----------------------------------------------------------------------------
USE ArchiveAssumption, DataSizeAssumption DEF ArchiveAssumption, DataSizeAssumption

LEMMA FileRange ==
  /\ Total \in Nat \ {0}
  /\ File = DOMAIN FileSize
  /\ \A f \in File : /\ FileSize[f] \in Nat /\ f \in 1 .. Total + 1 /\ f + 1 \in 1 .. Total + 1
                     /\ Offset[f] \in Nat /\ Offset[f + 1] \in Nat
                     /\ Offset[f + 1] = Offset[f] + InitSize + FileSize[f]
<1>1. Len(FileSize) \in Nat /\ DOMAIN FileSize = 1 .. Len(FileSize)
      /\ \A f \in 1 .. Len(FileSize) : FileSize[f] \in Nat
  BY LenProperties, ElementOfSeq
<1>2. Len(FileSize) # 0
  BY EmptySeq
<1>3. Total \in Nat \ {0} /\ File = DOMAIN FileSize /\ \A f \in File : FileSize[f] \in Nat
  BY <1>1, <1>2 DEF File, Total
<1>4. \A f \in File : f \in 1 .. Total + 1 /\ f + 1 \in 1 .. Total + 1
  BY <1>3 DEF File
<1> QED BY <1>3, <1>4

(* Records lie one after another.                                            *)
LEMMA OffsetMonotone ==
  ASSUME NEW f \in 1 .. Total + 1, NEW g \in f .. Total + 1
  PROVE  Offset[f] <= Offset[g]
<1> DEFINE S == {n \in Nat : f + n \in 1 .. Total + 1 => Offset[f] <= Offset[f + n]}
<1>1. 0 \in S
  BY FileRange
<1>2. ASSUME NEW n \in Nat, n \in S PROVE n + 1 \in S
  <2> SUFFICES ASSUME f + (n + 1) \in 1 .. Total + 1
               PROVE  Offset[f] <= Offset[f + (n + 1)]
    OBVIOUS
  <2>1. f + n \in File /\ (f + n) + 1 = f + (n + 1) /\ f + n \in 1 .. Total + 1
    BY FileRange DEF File
  <2>2. Offset[f] <= Offset[f + n]
    BY <1>2, <2>1
  <2>3. /\ Offset[f + n] \in Nat /\ Offset[f] \in Nat
        /\ Offset[f + (n + 1)] = Offset[f + n] + InitSize + FileSize[f + n]
        /\ FileSize[f + n] \in Nat
    BY <2>1, FileRange
  <2>4. InitSize \in Nat
    OBVIOUS
  <2> QED BY ONLY <2>2, <2>3, <2>4
<1>3. Nat \subseteq S
  <2> HIDE DEF S
  <2> QED BY <1>1, <1>2, FromBelow
<1>4. g - f \in Nat /\ f + (g - f) = g /\ g \in 1 .. Total + 1
  BY FileRange
<1>5. g - f \in S
  BY <1>3, <1>4
<1> QED BY <1>4, <1>5

LEMMA ArchiveLength == Len(Archive) = Offset[Total + 1] /\ Len(Archive) \in Nat
<1>1. Offset[Total + 1] \in Nat
  BY FileRange
<1> QED BY <1>1 DEF Archive

(* A byte of the archive lies in one record only.                            *)
LEMMA RecordByte ==
  ASSUME NEW f \in File, NEW j \in 1 .. InitSize + FileSize[f]
  PROVE  /\ Offset[f] + j \in 1 .. Len(Archive)
         /\ Archive[Offset[f] + j] = <<f, j>>
<1> DEFINE p == Offset[f] + j
<1>0. /\ Offset[f] \in Nat /\ Offset[f + 1] \in Nat /\ FileSize[f] \in Nat
      /\ Offset[f + 1] = Offset[f] + InitSize + FileSize[f]
      /\ f \in 1 .. Total + 1 /\ f + 1 \in 1 .. Total + 1
  BY FileRange DEF File
<1>1. /\ Offset[f] \in Nat /\ Offset[f + 1] \in Nat /\ j \in Nat \ {0}
      /\ Offset[f] < p /\ p <= Offset[f + 1]
      /\ f \in 1 .. Total + 1 /\ f + 1 \in 1 .. Total + 1
  <2>1. InitSize \in Nat /\ j \in 1 .. InitSize + FileSize[f]
    OBVIOUS
  <2> QED BY ONLY <1>0, <2>1
<1>2. p \in 1 .. Offset[Total + 1]
  <2>1. Offset[f + 1] <= Offset[Total + 1] /\ Offset[Total + 1] \in Nat
    <3>1. Total + 1 \in f + 1 .. Total + 1 /\ Total + 1 \in 1 .. Total + 1
      BY ONLY <1>1, FileRange
    <3> QED BY <1>1, <3>1, OffsetMonotone
  <2> QED BY ONLY <1>1, <2>1
<1>3. ASSUME NEW g \in File, Offset[g] < p, p <= Offset[g + 1]
      PROVE  g = f
  <2>1. g \in 1 .. Total + 1 /\ g + 1 \in 1 .. Total + 1 /\ Offset[g] \in Nat /\ Offset[g + 1] \in Nat
    BY FileRange
  <2>2. CASE g < f
    <3>1. Offset[g + 1] <= Offset[f]
      BY <1>1, <2>1, <2>2, OffsetMonotone
    <3> QED BY <1>1, <1>3, <2>1, <3>1
  <2>3. CASE f < g
    <3>1. Offset[f + 1] <= Offset[g]
      BY <1>1, <2>1, <2>3, OffsetMonotone
    <3> QED BY <1>1, <1>3, <2>1, <3>1
  <2> QED BY <2>1, <2>2, <2>3, <1>1
<1>4. (CHOOSE g \in File : Offset[g] < p /\ p <= Offset[g + 1]) = f
  BY <1>1, <1>3
<1>5. Archive[p] = <<f, p - Offset[f]>>
  <2> HIDE DEF p
  <2> QED BY <1>2, <1>4 DEF Archive
<1> QED BY <1>1, <1>2, <1>5, ArchiveLength

-----------------------------------------------------------------------------
(* Data that holds the archive, with what may follow it.                     *)
Holds(data) ==
  Len(data) \in Nat /\ Len(data) >= Len(Archive)
  /\ \A p \in 1 .. Len(Archive) : data[p] = Archive[p]

LEMMA RecordHeld ==
  ASSUME NEW data, Holds(data), NEW f \in File, NEW j \in 1 .. InitSize + FileSize[f]
  PROVE  Offset[f] + j <= Len(data) /\ data[Offset[f] + j] = <<f, j>>
<1>1. Offset[f] + j \in 1 .. Len(Archive) /\ Len(Archive) \in Nat
  BY RecordByte, ArchiveLength
<1>2. Archive[Offset[f] + j] = <<f, j>>
  BY RecordByte
<1> QED BY ONLY <1>1, <1>2, Holds(data) DEF Holds

(* At a record the unpacking loop reads that record's init_t and no other.   *)
LEMMA InitAtRecord ==
  ASSUME NEW data, Holds(data), NEW f \in File, ptr = Offset[f]
  PROVE  InitAt(data) = {[filename |-> f, filesize |-> FileSize[f]]}
<1> DEFINE here == {g \in File : \A j \in 1 .. InitSize :
                      ptr + j <= Len(data) /\ data[ptr + j] = <<g, j>>}
<1>1. \A j \in 1 .. InitSize : j \in 1 .. InitSize + FileSize[f]
  <2>1. InitSize \in Nat /\ FileSize[f] \in Nat
    BY FileRange
  <2> QED BY ONLY <2>1
<1>2. f \in here
  BY <1>1, RecordHeld
<1>3. ASSUME NEW g \in here PROVE g = f
  <2>1. 1 \in 1 .. InitSize
    OBVIOUS
  <2>2. data[ptr + 1] = <<g, 1>> /\ data[ptr + 1] = <<f, 1>>
    BY <1>1, <2>1, RecordHeld
  <2> QED BY <2>2
<1>4. here = {f}
  BY <1>2, <1>3
<1> HIDE DEF here
<1> QED BY <1>4 DEF InitAt, here

(* A turn at a record stores its file and goes on to the next record.        *)
LEMMA StoreRecord ==
  ASSUME NEW data, Holds(data), NEW size, NEW f \in File, ptr = Offset[f],
         StoreFile(data, size)
  PROVE  ptr' = Offset[f + 1] /\ disk' = [disk EXCEPT ![f] = Sent[f]]
<1> DEFINE from == ptr + InitSize
           content == [j \in 1 .. FileSize[f] |->
                         IF from + j <= Len(data) THEN data[from + j] ELSE Junk]
<1>1. ptr' = from + FileSize[f] /\ disk' = [disk EXCEPT ![f] = content]
  <2>1. PICK init \in InitAt(data) :
          LET stored == [j \in 1 .. init.filesize |->
                           IF from + j <= Len(data) THEN data[from + j] ELSE Junk]
          IN  /\ disk' = [disk EXCEPT ![init.filename] = stored]
              /\ ptr' = from + init.filesize
    BY DEF StoreFile, Truncated
  <2>2. init.filename = f /\ init.filesize = FileSize[f]
    BY InitAtRecord
  <2> QED BY <2>1, <2>2
<1>2. ASSUME NEW j \in 1 .. FileSize[f]
      PROVE  content[j] = <<f, InitSize + j>>
  <2>1. InitSize + j \in 1 .. InitSize + FileSize[f] /\ from + j = Offset[f] + (InitSize + j)
    <3>1. InitSize \in Nat /\ FileSize[f] \in Nat /\ Offset[f] \in Nat /\ ptr = Offset[f]
          /\ j \in 1 .. FileSize[f]
      BY <1>2, FileRange
    <3> QED BY ONLY <3>1
  <2> QED BY <2>1, RecordHeld
<1>3. content = Sent[f]
  BY <1>2 DEF Sent
<1>4. from + FileSize[f] = Offset[f + 1]
  BY FileRange
<1> QED BY <1>1, <1>3, <1>4

LEMMA StoreStart == StoreInit => StoreInv
<1> SUFFICES ASSUME StoreInit PROVE StoreInv
  OBVIOUS
<1>1. 1 \in 1 .. Total + 1 /\ ptr = Offset[1]
  BY FileRange DEF StoreInit
<1>2. Old = [f \in File |-> IF f < 1 THEN Sent[f] ELSE Old[f]]
  BY DEF Old, File
<1> QED BY <1>1, <1>2 DEF StoreInv, StoreInit

LEMMA StoreStep ==
  ASSUME StoreInv, NEW data, Holds(data), StoreFile(data, Len(Archive))
  PROVE  StoreInv'
<1>1. PICK n \in 1 .. Total + 1 :
        /\ ptr = Offset[n]
        /\ disk = [f \in File |-> IF f < n THEN Sent[f] ELSE Old[f]]
  BY DEF StoreInv
<1>2. n \in File
  <2>1. ptr < Offset[Total + 1] /\ Offset[Total + 1] \in Nat
    BY ArchiveLength DEF StoreFile
  <2>2. n # Total + 1
    BY <1>1, <2>1
  <2> QED BY <2>2, FileRange DEF File
<1>3. ptr' = Offset[n + 1] /\ disk' = [disk EXCEPT ![n] = Sent[n]]
  BY <1>1, <1>2, StoreRecord
<1>4. disk' = [f \in File |-> IF f < n + 1 THEN Sent[f] ELSE Old[f]]
  <2>1. \A f \in File : f < n + 1 <=> f < n \/ f = n
    BY FileRange DEF File
  <2> QED BY <1>1, <1>2, <1>3, <2>1
<1>5. n + 1 \in 1 .. Total + 1
  BY <1>2, FileRange
<1> QED BY <1>3, <1>4, <1>5 DEF StoreInv

(* When the loop ends every file is stored.                                  *)
LEMMA StoreEnd ==
  ASSUME StoreInv, ptr >= Len(Archive)
  PROVE  disk = Sent
<1>1. PICK n \in 1 .. Total + 1 :
        /\ ptr = Offset[n]
        /\ disk = [f \in File |-> IF f < n THEN Sent[f] ELSE Old[f]]
  BY DEF StoreInv
<1>2. n = Total + 1
  <2> SUFFICES ASSUME n # Total + 1 PROVE FALSE
    OBVIOUS
  <2>1. n \in File /\ n + 1 \in 1 .. Total + 1
    BY FileRange DEF File
  <2>2. /\ Offset[n] \in Nat /\ Offset[n + 1] \in Nat /\ FileSize[n] \in Nat
        /\ Offset[n + 1] = Offset[n] + InitSize + FileSize[n]
    BY <2>1, FileRange
  <2>3. Total + 1 \in n + 1 .. Total + 1 /\ Total + 1 \in Nat
    BY <2>1, FileRange
  <2>4. Offset[n + 1] <= Offset[Total + 1]
    BY ONLY <2>1, <2>3, OffsetMonotone
  <2>5. Offset[Total + 1] \in Nat
    BY ArchiveLength
  <2>6. InitSize \in Nat \ {0}
    BY ArchiveAssumption DEF ArchiveAssumption
  <2>7. Offset[n] >= Offset[Total + 1]
    BY ONLY <1>1, ArchiveLength, ptr >= Len(Archive)
  <2> QED BY ONLY <2>2, <2>4, <2>5, <2>6, <2>7
<1>3. \A f \in File : f < n
  BY <1>2, FileRange DEF File
<1>4. disk = [f \in File |-> Sent[f]]
  BY <1>1, <1>3
<1> QED BY <1>4 DEF Sent

-----------------------------------------------------------------------------
(* Every byte that is joined from fragments is in the place it had.          *)
LEMMA JoinedByte ==
  ASSUME NEW src, Len(src) \in Nat, NEW size \in Nat, NEW n \in Nat, NEW K,
         1 .. n \subseteq K, size <= n * DataSize,
         NEW p \in 1 .. size, p <= Len(src)
  PROVE  Joined(size, [k \in K |-> Fragment(src, k)])[p] = src[p]
<1> DEFINE q == (p - 1) \div DataSize
           r == (p - 1) % DataSize
           frags == [k \in K |-> Fragment(src, k)]
<1>1. q \in Nat /\ r \in 0 .. DataSize - 1 /\ p - 1 = DataSize * q + r
  <2>1. DataSize \in Nat \ {0} /\ p \in 1 .. size /\ size \in Nat
    OBVIOUS
  <2> QED BY ONLY <2>1
<1> HIDE DEF q, r
<1>2. q + 1 \in 1 .. n
  <2> SUFFICES ASSUME q >= n PROVE FALSE
    BY <1>1
  <2>1. PICK d \in Nat : q = n + d
    <3>1. q - n \in Nat /\ q = n + (q - n)
      BY <1>1
    <3> QED BY <3>1
  <2>2. DataSize * q = n * DataSize + DataSize * d
    BY <2>1
  <2>3. DataSize * d \in Nat /\ n * DataSize \in Nat
    BY <2>1
  <2>4. size <= n * DataSize /\ p \in 1 .. size /\ size \in Nat /\ DataSize \in Nat
    OBVIOUS
  <2> DEFINE u == n * DataSize
             v == DataSize * d
             x == DataSize * q
  <2>5. /\ u \in Nat /\ v \in Nat /\ x = u + v /\ p - 1 = x + r /\ r \in Nat
        /\ size <= u /\ p <= size /\ p \in Nat /\ size \in Nat
    BY <1>1, <2>2, <2>3, <2>4
  <2> HIDE DEF u, v, x
  <2> QED BY ONLY <2>5
<1>3. Joined(size, frags)[p] = frags[q + 1][r + 1]
  BY <1>2 DEF Joined, q, r
<1>4. frags[q + 1] = Fragment(src, q + 1)
  BY <1>2
<1>5. r + 1 \in 1 .. DataSize /\ ((q + 1) - 1) * DataSize + (r + 1) = p
  BY <1>1
<1>6. Fragment(src, q + 1)[r + 1] = src[p]
  BY <1>5 DEF Fragment
<1> QED BY <1>3, <1>4, <1>6

(* The receivers count bytes, and every chunk as a full one: the count       *)
(* reaches the size exactly when no chunk is missing.                        *)
LEMMA ChunkCount ==
  ASSUME NEW chunks \in Nat \ {0}, NEW S \in SUBSET (1 .. chunks)
  PROVE  /\ IsFiniteSet(S) /\ Cardinality(S) \in 0 .. chunks
         /\ Cardinality(S) = chunks <=> S = 1 .. chunks
<1>1. IsFiniteSet(1 .. chunks) /\ Cardinality(1 .. chunks) = chunks
  <2>1. 1 \in Int /\ chunks \in Int /\ ~ (1 > chunks) /\ chunks - 1 + 1 = chunks
    OBVIOUS
  <2> QED BY <2>1, FS_Interval
<1>2. IsFiniteSet(S) /\ Cardinality(S) <= chunks
      /\ (Cardinality(S) = chunks => S = 1 .. chunks)
  BY <1>1, FS_Subset
<1>3. Cardinality(S) \in Nat
  BY <1>2, FS_CardinalityType
<1> QED BY <1>1, <1>2, <1>3

LEMMA EnoughBytes ==
  ASSUME NEW chunks \in Nat \ {0}, NEW size \in Nat,
         (chunks - 1) * DataSize < size, size <= chunks * DataSize,
         NEW S \in SUBSET (1 .. chunks)
  PROVE  /\ DataSize * Cardinality(S) \in Nat
         /\ DataSize * Cardinality(S) < size <=> S # 1 .. chunks
<1> DEFINE n == Cardinality(S)
<1>0. n \in 0 .. chunks /\ (n = chunks <=> S = 1 .. chunks)
  BY ChunkCount
<1> HIDE DEF n
<1>1. DataSize * n \in Nat
  BY <1>0
<1>2. CASE n = chunks
  <2>1. DataSize * n = chunks * DataSize
    BY <1>2
  <2> QED BY <1>0, <1>1, <1>2, <2>1 DEF n
<1>3. CASE n # chunks
  <2>1. PICK d \in Nat : chunks - 1 = n + d
    <3>1. chunks - 1 - n \in Nat /\ chunks - 1 = n + (chunks - 1 - n)
      BY <1>0, <1>3
    <3> QED BY <3>1
  <2>2. (n + d) * DataSize = DataSize * n + DataSize * d
    BY <1>0, <2>1
  <2>3. DataSize * d \in Nat
    BY <2>1
  <2>4. DataSize * n < size
    BY <1>1, <2>1, <2>2, <2>3
  <2> QED BY <1>0, <1>1, <1>3, <2>4 DEF n
<1> QED BY <1>2, <1>3
=============================================================================
