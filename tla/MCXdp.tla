------------------------------- MODULE MCXdp -------------------------------
EXTENDS Xdp, FiniteSetsExt

(* An empty file and one behind it, whose init_t ends the first chunk; the   *)
(* second chunk is short. Longer files of both names are there before.       *)
MCFileSize == <<0, 1>>
MCOffset   == <<0, 1, 3>>

(* The bits that are set in the size, in zeros, and in a byte of a file.     *)
MCBits == [k \in 0 .. 2 |-> CASE k = 0 -> {0, 1} [] k = 1 -> {} [] k = 2 -> {1}]

(* Three packets and words of three bits: 7 is UINT_MAX.                     *)
MCNumber ==
  [bits \in SUBSET (0 .. 2) |-> MapThenSumSet(LAMBDA k : 2 ^ k, bits)]
=============================================================================
