----------------------------- MODULE AgentTable -----------------------------
(***************************************************************************)
(* What the agent manager promises: a table from ids to agents.  An agent  *)
(* enters it once, under a free id, and runs from then on.  An entry is    *)
(* taken out by whoever asks for it.  Only an agent that is in the table   *)
(* can be stopped, and one that ends leaves no entry under its id.         *)
(*                                                                         *)
(* An agent whose entry was taken out may run on: the table does not       *)
(* promise that removing stops.                                            *)
(***************************************************************************)
CONSTANTS
  Agents, Ids, None,
  Minted            \* the ids that are given once

VARIABLES
  table,            \* id -> agent, or None
  idOf,             \* the id an agent was entered under, or None
  stage             \* stage[g]: new, running, stopped or gone

vars == <<table, idOf, stage>>

Init ==
  /\ table = [i \in Ids |-> None]
  /\ idOf = [g \in Agents |-> None]
  /\ stage = [g \in Agents |-> "new"]

Enter(i, g) ==
  /\ stage[g] = "new"
  /\ table[i] = None
  /\ i \in Minted => \A h \in Agents : idOf[h] # i
  /\ table' = [table EXCEPT ![i] = g]
  /\ idOf' = [idOf EXCEPT ![g] = i]
  /\ stage' = [stage EXCEPT ![g] = "running"]

TakeOut(i) ==
  /\ table' = [table EXCEPT ![i] = None]
  /\ UNCHANGED <<idOf, stage>>

Stop(i) ==
  /\ table[i] # None
  /\ stage[table[i]] = "running"
  /\ stage' = [stage EXCEPT ![table[i]] = "stopped"]
  /\ UNCHANGED <<table, idOf>>

End(g) ==
  /\ stage[g] = "stopped"
  /\ stage' = [stage EXCEPT ![g] = "gone"]
  /\ table' = [table EXCEPT ![idOf[g]] = None]
  /\ UNCHANGED idOf

Next ==
  \/ \E i \in Ids : TakeOut(i) \/ Stop(i) \/ \E g \in Agents : Enter(i, g)
  \/ \E g \in Agents : End(g)

Spec == Init /\ [][Next]_vars
=============================================================================
