------------------------------- MODULE MCChat -------------------------------
(* Small rooms for TLC.                                                      *)
EXTENDS Chat, TLC

CONSTANTS a, b, c3

Two   == {a, b}
Three == {a, b, c3}
MCFd  == {4, 5}

(* One client talks, one gives commands and may not read what it is sent,    *)
(* one stays and only listens.                                               *)
MCLines    == (a :> {"text"}) @@ (b :> {"/name", "/who", "/what", "/exit"}) @@ (c3 :> {})
MCMaxLines == (a :> 2) @@ (b :> 1) @@ (c3 :> 0)
MCSlow     == {b}

TwoMaxLines == [c \in Two |-> 2]

ExitLines    == [c \in Two |-> {"text", "/exit"}]
ExitMaxLines == [c \in Two |-> 1]
TextLines    == [c \in Two |-> {"text"}]
=============================================================================
