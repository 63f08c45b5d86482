----------------------------- MODULE MCGortnOut -----------------------------
(* Instances of GortnOut for TLC. *)
EXTENDS GortnOut

CONSTANTS f1, f2, r1, r2, p1

\* r1 reads f1; r2 reads f2.
Assigned == [r \in Reqs |-> IF r = r1 THEN f1 ELSE f2]
=============================================================================
