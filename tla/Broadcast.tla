------------------------------ MODULE Broadcast ------------------------------
(* What a chat room promises, whoever carries the messages: what is said is  *)
(* for those who are in the room at that moment, except the one it is about, *)
(* and reaches each of them unless he has hung up or does not listen; who    *)
(* comes later never hears it.                                               *)
EXTENDS Naturals

CONSTANTS Conn, Slow, Msg, Welcome(_), Landed(_), Left(_), By(_)

VARIABLES online,   \* who is in the room
          pending,  \* <<message, recipient>> pairs on their way
          heard,    \* what has reached each one who has not
          gone      \* who has hung up

vars == <<online, pending, heard, gone>>

Init == online = {} /\ pending = {} /\ heard = [c \in Conn |-> {}] /\ gone = {}

Reach(c, m) ==
  \/ c \in gone \cup Slow /\ UNCHANGED heard
  \/ c \notin gone /\ heard' = [heard EXCEPT ![c] = @ \cup {m}]
Say(m, to)  == pending' = pending \cup {<<m, d>> : d \in to}

Join(c) ==
  /\ c \notin online
  /\ online' = online \cup {c}
  /\ Reach(c, Welcome(c)) /\ Say(Landed(c), online)
  /\ UNCHANGED gone

Leave(c) ==
  /\ c \in online \cap gone
  /\ online' = online \ {c}
  /\ Say(Left(c), online \ {c})
  /\ UNCHANGED <<heard, gone>>

(* A line of c: for the others, for c alone, or answered with something for  *)
(* both.                                                                     *)
Line(c) ==
  /\ c \in online
  /\ \/ UNCHANGED pending
     \/ \E m \in Msg : By(m) = c /\ (Say(m, online \ {c}) \/ Say(m, {c}))
  /\ \/ UNCHANGED heard
     \/ \E r \in Msg : By(r) = c /\ Reach(c, r)
  /\ UNCHANGED <<online, gone>>

Deliver(m, c) ==
  /\ <<m, c>> \in pending
  /\ pending' = pending \ {<<m, c>>}
  /\ Reach(c, m)
  /\ UNCHANGED <<online, gone>>

HangUp(c) ==
  /\ gone' = gone \cup {c}
  /\ heard' = [heard EXCEPT ![c] = {}]
  /\ UNCHANGED <<online, pending>>

Next == \/ \E p \in pending : Deliver(p[1], p[2])
        \/ \E c \in Conn : Join(c) \/ Leave(c) \/ HangUp(c) \/ Line(c)

Spec == Init /\ [][Next]_vars
==============================================================================
