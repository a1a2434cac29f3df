---------------------------- MODULE MCThroughput ----------------------------
EXTENDS Throughput

(* The second sink connection has another mss than the first.               *)
MCMss == [c \in Conn |-> IF c = CHOOSE s \in Sink : TRUE THEN 3 ELSE 2]
=============================================================================
