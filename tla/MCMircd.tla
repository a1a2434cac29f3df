------------------------------ MODULE MCMircd ------------------------------
(* Model values and small sets for Mircd.                                   *)
EXTENDS Mircd, TLC

CONSTANTS c1, c2, c3

MCConn == {c1, c2, c3}
MCFd   == {5, 6}

Symmetry == Permutations(MCConn)
=============================================================================
