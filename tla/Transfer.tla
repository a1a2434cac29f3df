------------------------------ MODULE Transfer ------------------------------
(* What the file transfers of Lab/8 and Lab/10 promise over a lossy link:   *)
(* the sender gives a packet up only when the receiver has it, the receiver *)
(* stores the files only when it has every packet, and the sender finishes  *)
(* only when it knows that all have arrived or been stored.                 *)

CONSTANT Packet

VARIABLES got,      \* packets the receiver has
          known,    \* packets the sender knows the receiver to have
          stored, finished

Init ==
  /\ got = {} /\ known = {}
  /\ stored = FALSE /\ finished = FALSE

Deliver(p) ==
  /\ p \notin got
  /\ got' = got \cup {p}
  /\ UNCHANGED <<known, stored, finished>>

Learn(S) ==
  /\ S \subseteq got
  /\ known' = known \cup S
  /\ finished' = (known' = Packet)
  /\ UNCHANGED <<got, stored>>

Store ==
  /\ got = Packet /\ ~stored
  /\ stored' = TRUE
  /\ UNCHANGED <<got, known, finished>>

Told ==
  /\ stored /\ ~finished
  /\ finished' = TRUE
  /\ UNCHANGED <<got, known, stored>>

Next ==
  \/ \E p \in Packet : Deliver(p)
  \/ ~finished /\ \E S \in SUBSET Packet : Learn(S)
  \/ Store
  \/ Told

vars == <<got, known, stored, finished>>

Spec == Init /\ [][Next]_vars
=============================================================================
