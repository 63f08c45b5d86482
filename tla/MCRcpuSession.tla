--------------------------- MODULE MCRcpuSession ---------------------------
(* Instances of RcpuSession for TLC. *)
EXTENDS RcpuSession

CONSTANTS s1, s2, p1, p2
=============================================================================
