---------------------------- MODULE MCRobustUdp ----------------------------
EXTENDS RobustUdp

(* A file shorter than the one it replaces, and an empty one.                *)
MCFileSize == <<1, 0>>
MCOffset   == <<0, 3, 5>>
=============================================================================
