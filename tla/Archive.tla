------------------------------ MODULE Archive ------------------------------
(* What the transfers of Lab/8 and Lab/10 send and store. The sender packs   *)
(* its files one after another, each behind an init_t, and cuts the result   *)
(* into fragments; the receiver joins the fragments and walks through them   *)
(* from one init_t to the next. A byte of the archive is <<f, j>>, the j-th  *)
(* of the record of file f; a byte that the receiver never got is Junk.      *)
EXTENDS Integers, Sequences

CONSTANTS DataSize,  \* DATA_SIZE, bytes of a fragment
          InitSize,  \* sizeof(init_t)
          FileSize,  \* sizes of the files, in the order of their names
          Offset,    \* where the sender puts the record of each, and the end
          OldSize    \* size of files that an earlier transfer has left

Total == Len(FileSize)
File  == 1 .. Total

ASSUME DataSizeAssumption == DataSize \in Nat \ {0}

ASSUME ArchiveAssumption ==
  /\ InitSize \in Nat \ {0} /\ OldSize \in Nat
  /\ FileSize \in Seq(Nat) /\ FileSize # <<>>
  /\ Offset \in [1 .. Total + 1 -> Nat] /\ Offset[1] = 0
  /\ \A f \in File : Offset[f + 1] = Offset[f] + InitSize + FileSize[f]

VARIABLES ptr,   \* receiver: how far the archive is unpacked
          disk   \* receiver: content of each file in its directory

store == <<ptr, disk>>

Archive ==
  [p \in 1 .. Offset[Total + 1] |->
     LET f == CHOOSE g \in File : Offset[g] < p /\ p <= Offset[g + 1]
     IN  <<f, p - Offset[f]>>]

(* The files as they are sent, and as they are before the transfer.          *)
Sent == [f \in File |-> [j \in 1 .. FileSize[f] |-> <<f, InitSize + j>>]]
Old  == [f \in File |-> [j \in 1 .. OldSize |-> <<f, -j>>]]

Padding == <<0, 0>>
Junk    == <<0, -1>>

(* The payload of packet k: the last one is filled up with zeros.            *)
Fragment(src, k) ==
  [j \in 1 .. DataSize |->
     LET p == (k - 1) * DataSize + j IN IF p <= Len(src) THEN src[p] ELSE Padding]

(* Each fragment is copied to its place, in whatever order it has come.      *)
Joined(size, frags) ==
  [p \in 1 .. size |->
     LET k == (p - 1) \div DataSize + 1 IN
     IF k \in DOMAIN frags THEN frags[k][((p - 1) % DataSize) + 1] ELSE Junk]

(* What the bytes at ptr are as an init_t: if they were never received, any.  *)
InitAt(data) ==
  LET here == {f \in File : \A j \in 1 .. InitSize :
                 ptr + j <= Len(data) /\ data[ptr + j] = <<f, j>>}
  IN  IF here # {} THEN {[filename |-> f, filesize |-> FileSize[f]] : f \in here}
      ELSE [filename : File, filesize : 0 .. DataSize]

MutantTruncated(old, new) == new \o SubSeq(old, Len(new) + 1, Len(old))   \* without O_TRUNC

(* O_TRUNC: nothing of an older and longer file is left.                     *)
Truncated(old, new) == new

(* One turn of the loop over an archive of size bytes.                       *)
StoreFile(data, size) ==
  /\ ptr < size
  /\ \E init \in InitAt(data) :
       LET from == ptr + InitSize
           content == [j \in 1 .. init.filesize |->
                         IF from + j <= Len(data) THEN data[from + j] ELSE Junk]
       IN  /\ disk' = [disk EXCEPT ![init.filename] = Truncated(@, content)]
           /\ ptr' = from + init.filesize

StoreInit == ptr = 0 /\ disk = Old
=============================================================================
