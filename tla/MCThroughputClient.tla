------------------------- MODULE MCThroughputClient -------------------------
EXTENDS ThroughputClient

CONSTANTS k1, k2, s1, s2

(* The second run finds another mss than the first.                         *)
MCMss  == [c \in {k1, k2, s1, s2} |-> IF c = s1 THEN 3 ELSE 2]
MCRuns == <<[control |-> k1, sinks |-> <<s1>>], [control |-> k2, sinks |-> <<s2>>]>>
=============================================================================
