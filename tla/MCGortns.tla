------------------------------ MODULE MCGortns ------------------------------
(* Instances of Gortns for TLC. *)
EXTENDS Gortns

CONSTANTS g1, g2, i1, i2, c1

AnyVerb == [g \in Agents |-> Verbs]

\* The first agent may be stopped and spawns, the second prints; both execute.
Divided == [g \in Agents |-> IF g = g1 THEN {"stop", "exec", "spawn"} ELSE {"exec", "echo"}]
=============================================================================
