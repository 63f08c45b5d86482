----------------------------- MODULE MCL9Agent -----------------------------
(* Instances of L9Agent for TLC. *)
EXTENDS L9Agent

CONSTANTS f1, r1, r2, p1, c1

\* Both requests read the same fid.
Assigned == [r \in Reqs |-> f1]
=============================================================================
