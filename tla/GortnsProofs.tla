---------------------------- MODULE GortnsProofs ----------------------------
(***************************************************************************)
(* Proofs about Gortns: the registry under gm.mu and the lives of agents,  *)
(* for any number of agents, ids, callers and helpers.                     *)
(***************************************************************************)
EXTENDS Gortns, TLAPS

Ops == {NoOp} \union SpawnOps \union RemoveOps \union SendOps

(* The types of the variables the rest speaks of. *)
Types ==
  /\ agents \in [Ids -> Agents \union {None}]
  /\ dirs \in SUBSET Ids
  /\ mu \in Threads \union {None}
  /\ op \in [Threads -> Ops]
  /\ idOf \in [Agents -> Ids \union {None}]
  /\ life \in [Agents -> LifeStates]

Critical == {"spawn.check", "spawn.publish", "remove.stop", "remove.delete"}
Spawning == {"spawn.lock", "spawn.check", "spawn.publish"}
Removing == {"remove.lock", "remove.stop", "remove.delete"}

(* Who is between Lock and Unlock holds the mutex, and nobody else does. *)
Exclusive == \A t \in Threads : op[t].at \in Critical <=> mu = t

Registered == {i \in Ids : agents[i] # None}

(* The directory lacks at most the entry Spawn is about to add. *)
DirFollows ==
  /\ \A t \in Threads : op[t].at = "spawn.publish" =>
        /\ agents[op[t].id] = op[t].agent
        /\ dirs \union {op[t].id} = Registered
  /\ (\A t \in Threads : op[t].at # "spawn.publish") => dirs = Registered

(* What the manager knows of an agent agrees with where the agent stands. *)
LivesAgree ==
  /\ \A i \in Ids : agents[i] # None => idOf[agents[i]] = i /\ life[agents[i]] # "dead"
  /\ \A g \in Agents : life[g] # "unborn" => idOf[g] # None
  /\ \A g \in Agents : op[g].at \in Spawning <=> life[g] = "spawning"
  /\ \A g \in Agents : op[g].at \in Removing <=> life[g] = "leaving"
  /\ \A g \in Agents : op[g].at # "send"
  /\ \A g \in Agents : life[g] = "leaving" => op[g].id = idOf[g]
  /\ \A t \in Threads : op[t].at = "spawn.publish" =>
        life[op[t].agent] = "unborn" /\ idOf[op[t].agent] = op[t].id

Asked == {"spawn.lock", "spawn.check"}

(* Ids made of the time are given once. *)
IdsUnique ==
  /\ \A g, h \in Agents : idOf[g] = idOf[h] /\ idOf[g] \in Minted => g = h
  /\ \A t \in Threads, g \in Agents :
        op[t].at \in Asked /\ op[t].id \in Minted => idOf[g] # op[t].id
  /\ \A t, u \in Threads :
        /\ op[t].at \in Asked /\ op[t].id \in Minted
        /\ op[u].at \in Asked /\ op[t].id = op[u].id
        => t = u

(* Remove found what it is about to delete. *)
Found == \A t \in Threads : op[t].at = "remove.delete" => agents[op[t].id] # None

IInv == Types /\ Exclusive /\ DirFollows /\ LivesAgree /\ Found /\ IdsUnique

-----------------------------------------------------------------------------
(* What an operation's record holds. *)
LEMMA OpFields ==
  ASSUME NEW o \in Ops
  PROVE  /\ o.at \in Spawning \union Removing => o.id \in Ids
         /\ o.at = "spawn.publish" => o.agent \in Agents
         /\ o.at \in {"idle", "send"} \union Spawning \union Removing
  BY DEF Ops, NoOp, SpawnOps, RemoveOps, SendOps, Spawning, Removing

LEMMA NoOpFields == NoOp \in Ops /\ NoOp.at = "idle"
  BY DEF NoOp, Ops

LEMMA Nobody == None \notin Threads /\ None \notin Agents /\ None \notin Ids
  BY NoneIsNobody DEF Threads

(* One lemma for each step under gm.mu: Lock, then what Spawn and Remove  *)
(* do while they hold it.                                                  *)
LEMMA LockStep ==
  ASSUME IInv, NEW t \in Threads, Lock(t)
  PROVE  IInv'
  <1> USE Nobody, OpFields, NoOpFields DEF IInv
  <1>1. Types'
    BY DEF Types, Lock, Goto, Ops, SpawnOps, RemoveOps, Spawning, Removing
  <1>2. Exclusive'
    BY DEF Types, Lock, Goto, Exclusive, Critical
  <1>3. DirFollows'
    BY DEF Types, Lock, Goto, DirFollows, Registered
  <1>4. LivesAgree'
    BY DEF Types, Lock, Goto, LivesAgree, Spawning, Removing, Threads
  <1>5. Found'
    BY DEF Types, Lock, Goto, Found
  <1>6. IdsUnique'
    BY DEF Types, Lock, Goto, IdsUnique, Asked
  <1> QED
    BY <1>1, <1>2, <1>3, <1>4, <1>5, <1>6

LEMMA RegisterStep ==
  ASSUME IInv, NEW t \in Threads, NEW g \in Agents, Register(t, g)
  PROVE  IInv'
  <1> USE Nobody, OpFields, NoOpFields DEF IInv
  <1>0. op[t].id \in Ids
    BY DEF Types, Register, Spawning, Removing
  <1>1. Types'
    BY <1>0 DEF Types, Register, Ops, SpawnOps
  <1>2. Exclusive'
    BY <1>0 DEF Types, Register, Exclusive, Critical
  <1>3. DirFollows'
    BY <1>0 DEF Types, Register, DirFollows, Registered, Exclusive, Critical
  <1>4. LivesAgree'
    BY <1>0 DEF Types, Register, LivesAgree, Spawning, Removing, Threads, Exclusive,
       Critical
  <1>5. Found'
    BY <1>0 DEF Types, Register, Found
  <1>6. IdsUnique'
    BY <1>0 DEF Types, Register, IdsUnique, Asked
  <1> QED
    BY <1>1, <1>2, <1>3, <1>4, <1>5, <1>6

LEMMA SpawnRefusedStep ==
  ASSUME IInv, NEW t \in Threads, SpawnRefused(t)
  PROVE  IInv'
  <1> USE Nobody, OpFields, NoOpFields DEF IInv
  <1>0. op[t].id \in Ids
    BY DEF Types, SpawnRefused, Unlock, AfterReturn, Spawning, Removing
  <1>1. Types'
    BY <1>0 DEF Types, SpawnRefused, Unlock, AfterReturn, Ops, Threads, LifeStates
  <1>2. Exclusive'
    BY <1>0 DEF Types, SpawnRefused, Unlock, AfterReturn, Exclusive, Critical
  <1>3. DirFollows'
    BY <1>0 DEF Types, SpawnRefused, Unlock, AfterReturn, DirFollows, Registered,
       Exclusive, Critical
  <1>4. LivesAgree'
    BY <1>0 DEF Types, SpawnRefused, Unlock, AfterReturn, LivesAgree, Spawning,
       Removing, Threads, Exclusive, Critical
  <1>5. Found'
    BY <1>0 DEF Types, SpawnRefused, Unlock, AfterReturn, Found, Exclusive, Critical
  <1>6. IdsUnique'
    BY <1>0 DEF Types, SpawnRefused, Unlock, AfterReturn, IdsUnique, Asked
  <1> QED
    BY <1>1, <1>2, <1>3, <1>4, <1>5, <1>6

LEMMA RemoveNotFoundStep ==
  ASSUME IInv, NEW t \in Threads, RemoveNotFound(t)
  PROVE  IInv'
  <1> USE Nobody, OpFields, NoOpFields DEF IInv
  <1>0. op[t].id \in Ids
    BY DEF Types, RemoveNotFound, Unlock, AfterReturn, Spawning, Removing
  <1>1. Types'
    BY <1>0 DEF Types, RemoveNotFound, Unlock, AfterReturn, Ops, Threads, LifeStates
  <1>2. Exclusive'
    BY <1>0 DEF Types, RemoveNotFound, Unlock, AfterReturn, Exclusive, Critical
  <1>3. DirFollows'
    BY <1>0 DEF Types, RemoveNotFound, Unlock, AfterReturn, DirFollows, Registered,
       Exclusive, Critical
  <1>4. LivesAgree'
    BY <1>0 DEF Types, RemoveNotFound, Unlock, AfterReturn, LivesAgree, Spawning,
       Removing, Threads, Exclusive, Critical
  <1>5. Found'
    BY <1>0 DEF Types, RemoveNotFound, Unlock, AfterReturn, Found, Exclusive, Critical
  <1>6. IdsUnique'
    BY <1>0 DEF Types, RemoveNotFound, Unlock, AfterReturn, IdsUnique, Asked
  <1> QED
    BY <1>1, <1>2, <1>3, <1>4, <1>5, <1>6

LEMMA RemoveDeleteStep ==
  ASSUME IInv, NEW t \in Threads, RemoveDelete(t)
  PROVE  IInv'
  <1> USE Nobody, OpFields, NoOpFields DEF IInv
  <1>0. op[t].id \in Ids
    BY DEF Types, RemoveDelete, Unlock, AfterReturn, Spawning, Removing
  <1>1. Types'
    BY <1>0 DEF Types, RemoveDelete, Unlock, AfterReturn, Ops, Threads, LifeStates
  <1>2. Exclusive'
    BY <1>0 DEF Types, RemoveDelete, Unlock, AfterReturn, Exclusive, Critical
  <1>3. DirFollows'
    BY <1>0 DEF Types, RemoveDelete, Unlock, AfterReturn, DirFollows, Registered,
       Exclusive, Critical
  <1>4. LivesAgree'
    BY <1>0 DEF Types, RemoveDelete, Unlock, AfterReturn, LivesAgree, Spawning,
       Removing, Threads, Exclusive, Critical
  <1>5. Found'
    BY <1>0 DEF Types, RemoveDelete, Unlock, AfterReturn, Found, Exclusive, Critical
  <1>6. IdsUnique'
    BY <1>0 DEF Types, RemoveDelete, Unlock, AfterReturn, IdsUnique, Asked
  <1> QED
    BY <1>1, <1>2, <1>3, <1>4, <1>5, <1>6

LEMMA PublishStep ==
  ASSUME IInv, NEW t \in Threads, Publish(t)
  PROVE  IInv'
  <1> USE Nobody, OpFields, NoOpFields DEF IInv
  <1>0. op[t].id \in Ids /\ op[t].agent \in Agents
    BY DEF Types, Publish, Unlock, AfterReturn, Spawning, Removing
  <1>1. Types'
    BY <1>0 DEF Types, Publish, Unlock, AfterReturn, Ops, Threads, LifeStates
  <1>2. Exclusive'
    BY <1>0 DEF Types, Publish, Unlock, AfterReturn, Exclusive, Critical
  <1>3. DirFollows'
    BY <1>0 DEF Types, Publish, Unlock, AfterReturn, DirFollows, Registered,
       Exclusive, Critical
  <1>4. LivesAgree'
    BY <1>0 DEF Types, Publish, Unlock, AfterReturn, LivesAgree, Spawning, Removing,
       Threads, Exclusive, Critical
  <1>5. Found'
    BY <1>0 DEF Types, Publish, Unlock, AfterReturn, Found, Exclusive, Critical
  <1>6. IdsUnique'
    BY <1>0 DEF Types, Publish, Unlock, AfterReturn, IdsUnique, Asked
  <1> QED
    BY <1>1, <1>2, <1>3, <1>4, <1>5, <1>6

(* stopAgent changes the life of its own agent alone.                      *)
LEMMA StopAgentLife ==
  ASSUME life \in [Agents -> LifeStates], NEW g \in Agents, stopAgent(g)
  PROVE  /\ life' \in [Agents -> LifeStates]
         /\ \A h \in Agents : life'[h] = life[h] \/ (life[h] = "select" /\ life'[h] = "stopping")
  <1>1. \/ UNCHANGED life
        \/ life[g] = "select" /\ life' = [life EXCEPT ![g] = "stopping"]
    BY DEF stopAgent
  <1>2. CASE UNCHANGED life
    BY <1>2
  <1>3. CASE life[g] = "select" /\ life' = [life EXCEPT ![g] = "stopping"]
    BY <1>3 DEF LifeStates
  <1> QED
    BY <1>1, <1>2, <1>3

LEMMA RemoveStopStep ==
  ASSUME IInv, NEW t \in Threads, RemoveStop(t)
  PROVE  IInv'
  <1> USE Nobody, OpFields, NoOpFields DEF IInv
  <1>0. /\ op[t].id \in Ids
        /\ agents[op[t].id] \in Agents
        /\ op[t].at = "remove.stop"
        /\ op' = [op EXCEPT ![t] = [at |-> "remove.delete", id |-> op[t].id]]
        /\ stopAgent(agents[op[t].id])
        /\ UNCHANGED <<registry, idOf>>
    BY DEF Types, RemoveStop, Goto, Spawning, Removing
  <1>a. [at |-> "remove.delete", id |-> op[t].id] \in Ops
    BY <1>0 DEF Ops, RemoveOps
  <1>b. /\ life' \in [Agents -> LifeStates]
        /\ \A h \in Agents : life'[h] = life[h] \/ (life[h] = "select" /\ life'[h] = "stopping")
    BY <1>0, StopAgentLife DEF Types
  <1>1. Types'
    BY <1>0, <1>a, <1>b DEF Types, registry
  <1>2. Exclusive'
    BY <1>0 DEF Types, registry, Exclusive, Critical
  <1>3. DirFollows'
    BY <1>0 DEF Types, registry, DirFollows, Registered
  <1>4. LivesAgree'
    BY <1>0, <1>b DEF Types, registry, LivesAgree, Spawning, Removing
  <1>5. Found'
    BY <1>0 DEF Types, registry, Found
  <1>6. IdsUnique'
    BY <1>0 DEF Types, registry, IdsUnique, Asked
  <1> QED
    BY <1>1, <1>2, <1>3, <1>4, <1>5, <1>6

-----------------------------------------------------------------------------
(* The steps outside the manager. *)

(* A thread that was idle enters an operation that does not lock yet. *)
Enters(t, o) ==
  /\ op[t].at = "idle"
  /\ o \in Ops
  /\ op' = [op EXCEPT ![t] = o]
  /\ UNCHANGED <<registry, idOf>>

(* A caller asks for a Spawn or a Remove, or sends to a ctl file. *)
LEMMA CallerEnters ==
  ASSUME IInv, NEW c \in Callers, NEW o \in Ops, Enters(c, o),
         o.at \in {"spawn.lock", "remove.lock", "send"},
         o.at = "spawn.lock" => NewId(o.id),
         UNCHANGED life
  PROVE  IInv'
  <1> USE Nobody, OpFields, NoOpFields DEF IInv, Enters, registry
  <1>0. c \in Threads /\ c \notin Agents
    BY AgentsDontServe DEF Threads
  <1>1. Types'
    BY <1>0 DEF Types
  <1>2. Exclusive'
    BY <1>0 DEF Types, Exclusive, Critical
  <1>3. DirFollows'
    BY <1>0 DEF Types, DirFollows, Registered
  <1>4. LivesAgree'
    BY <1>0 DEF Types, LivesAgree, Spawning, Removing, Threads
  <1>5. Found'
    BY <1>0 DEF Types, Found
  <1>6. IdsUnique'
    BY <1>0 DEF Types, IdsUnique, Asked, NewId, Unused, ManagerSteps
  <1> QED
    BY <1>1, <1>2, <1>3, <1>4, <1>5, <1>6

(* An agent's handler asks for a Spawn, or its deferred call for a Remove. *)
LEMMA AgentEnters ==
  ASSUME IInv, NEW g \in Agents, NEW o \in Ops, Enters(g, o), NEW s,
         life[g] \notin {"unborn", "spawning", "leaving", "dead"},
         life' = [life EXCEPT ![g] = s],
         \/ o.at = "spawn.lock" /\ NewId(o.id) /\ s = "spawning"
         \/ o.at = "remove.lock" /\ o.id = idOf[g] /\ s = "leaving"
  PROVE  IInv'
  <1> USE Nobody, OpFields, NoOpFields DEF IInv, Enters, registry
  <1>0. g \in Threads
    BY DEF Threads
  <1>1. Types'
    BY <1>0 DEF Types, LifeStates
  <1>2. Exclusive'
    BY <1>0 DEF Types, Exclusive, Critical
  <1>3. DirFollows'
    BY <1>0 DEF Types, DirFollows, Registered
  <1>4. LivesAgree'
    BY <1>0 DEF Types, LivesAgree, Spawning, Removing, Threads
  <1>5. Found'
    BY <1>0 DEF Types, Found
  <1>6. IdsUnique'
    BY <1>0 DEF Types, IdsUnique, Asked, NewId, Unused, ManagerSteps
  <1> QED
    BY <1>1, <1>2, <1>3, <1>4, <1>5, <1>6

LiveStates == {"loop", "select", "exec", "stopping"}

Ordinary(g) ==
  life'[g] = life[g] \/ (life[g] \in LiveStates /\ life'[g] \in LiveStates)

(* Everything else moves agents among their ordinary states. *)
LEMMA OrdinaryStep ==
  ASSUME IInv, UNCHANGED <<registry, op, idOf>>,
         life' \in [Agents -> LifeStates],
         \A h \in Agents : Ordinary(h)
  PROVE  IInv'
  <1> USE Nobody, OpFields, NoOpFields DEF IInv, registry
  <1>1. Types'
    BY DEF Types
  <1>2. Exclusive'
    BY DEF Exclusive
  <1>3. DirFollows'
    BY DEF DirFollows, Registered
  <1>4. LivesAgree'
    BY DEF Types, LivesAgree, LiveStates, Ordinary, Spawning, Removing
  <1>5. Found'
    BY DEF Found
  <1>6. IdsUnique'
    BY DEF IdsUnique
  <1> QED
    BY <1>1, <1>2, <1>3, <1>4, <1>5, <1>6

-----------------------------------------------------------------------------
(* Next preserves the invariant. *)
LEMMA InitHolds == Init => IInv
  <1> SUFFICES ASSUME Init PROVE IInv
    OBVIOUS
  <1> USE Nobody, NoOpFields DEF Init
  <1>1. Types
    BY DEF Types, LifeStates
  <1>2. Exclusive
    BY DEF Exclusive, Critical
  <1>3. DirFollows /\ Found
    BY DEF DirFollows, Registered, Found
  <1>4. LivesAgree
    BY DEF LivesAgree, Spawning, Removing, Threads
  <1>5. IdsUnique
    BY MintedAreIds DEF IdsUnique, Asked
  <1> QED
    BY <1>1, <1>2, <1>3, <1>4, <1>5 DEF IInv

(* The records of a call that has just been made.                          *)
LEMMA AskRecords ==
  /\ \A i \in Ids :
        LET o == [at |-> "spawn.lock", id |-> i] IN o \in Ops /\ o.at = "spawn.lock" /\ o.id = i
  /\ \A i \in Ids :
        LET o == [at |-> "remove.lock", id |-> i] IN o \in Ops /\ o.at = "remove.lock" /\ o.id = i
  /\ \A g \in Agents, v \in Verbs :
        LET o == [at |-> "send", agent |-> g, verb |-> v] IN o \in Ops /\ o.at = "send"
  BY DEF Ops, SpawnOps, RemoveOps, SendOps

(* Steps of the callers of Spawn, Remove and the ctl file.                 *)
LEMMA CallerStep ==
  ASSUME IInv, NEW c \in Callers,
         \/ WriteDirCtl(c)
         \/ Remove(c)
         \/ \E g \in Agents, v \in Verbs : WriteCtl(c, g, v)
         \/ Send(c)
  PROVE  IInv'
  <1>1. CASE WriteDirCtl(c)
    <2>1. PICK i \in Ids : NewId(i) /\ CallSpawn(c, i)
      BY <1>1 DEF WriteDirCtl
    <2> DEFINE o == [at |-> "spawn.lock", id |-> i]
    <2>2. o \in Ops /\ o.at = "spawn.lock" /\ o.id = i
      BY AskRecords
    <2>3. Enters(c, o)
      BY <1>1, <2>1, <2>2 DEF WriteDirCtl, CallSpawn, Enters, Idle
    <2>4. UNCHANGED life
      BY <1>1 DEF WriteDirCtl
    <2> HIDE DEF o
    <2> QED
      BY <2>1, <2>2, <2>3, <2>4, CallerEnters
  <1>2. CASE Remove(c)
    <2>1. PICK i \in Ids : CallRemove(c, i)
      BY <1>2 DEF Remove
    <2> DEFINE o == [at |-> "remove.lock", id |-> i]
    <2>2. o \in Ops /\ o.at = "remove.lock"
      BY AskRecords
    <2>3. Enters(c, o)
      BY <1>2, <2>1, <2>2 DEF Remove, CallRemove, Enters, Idle
    <2>4. UNCHANGED life
      BY <1>2 DEF Remove
    <2> HIDE DEF o
    <2> QED
      BY <2>2, <2>3, <2>4, CallerEnters
  <1>3. ASSUME NEW g \in Agents, NEW v \in Verbs, WriteCtl(c, g, v)
        PROVE  IInv'
    <2> DEFINE o == [at |-> "send", agent |-> g, verb |-> v]
    <2>2. o \in Ops /\ o.at = "send"
      BY AskRecords
    <2>3. Enters(c, o)
      BY <1>3, <2>2 DEF WriteCtl, Enters, Idle
    <2>4. UNCHANGED life
      BY <1>3 DEF WriteCtl
    <2> HIDE DEF o
    <2> QED
      BY <2>2, <2>3, <2>4, CallerEnters
  <1>4. CASE Send(c)
    <2> USE <1>4, Nobody, OpFields, NoOpFields DEF IInv, Send, registry
    <2>0. c \in Threads /\ c \notin Agents
      BY AgentsDontServe DEF Threads
    <2>1. Types'
      BY <2>0 DEF Types
    <2>2. Exclusive'
      BY <2>0 DEF Types, Exclusive, Critical
    <2>3. DirFollows'
      BY <2>0 DEF Types, DirFollows, Registered
    <2>4. LivesAgree'
      BY <2>0 DEF Types, LivesAgree, Spawning, Removing, Threads
    <2>5. Found'
      BY <2>0 DEF Types, Found
    <2>6. IdsUnique'
      BY <2>0 DEF Types, IdsUnique, Asked
    <2> QED
      BY <2>1, <2>2, <2>3, <2>4, <2>5, <2>6
  <1> QED
    BY <1>1, <1>2, <1>3, <1>4

(* Steps of the agents' goroutines.                                        *)
LEMMA AgentStepKeeps ==
  ASSUME IInv, NEW g \in Agents, AgentStep(g)
  PROVE  IInv'
  <1>1. CASE HandleSpawn(g)
    <2>1. PICK i \in Ids : NewId(i) /\ CallSpawn(g, i)
      BY <1>1, MintedAreIds DEF HandleSpawn
    <2> DEFINE o == [at |-> "spawn.lock", id |-> i]
    <2>2. o \in Ops /\ o.at = "spawn.lock" /\ o.id = i
      BY AskRecords
    <2>3. life[g] \in {"loop", "select"} /\ life' = [life EXCEPT ![g] = "spawning"]
      BY <1>1 DEF HandleSpawn, Take
    <2>4. op[g].at = "idle"
      BY <2>3, OpFields DEF IInv, Types, LivesAgree, Spawning, Removing, Threads
    <2>5. Enters(g, o)
      BY <1>1, <2>1, <2>2, <2>4 DEF HandleSpawn, CallSpawn, Enters
    <2> HIDE DEF o
    <2> QED
      BY <2>1, <2>2, <2>3, <2>5, AgentEnters
  <1>2. CASE Leave(g)
    <2> DEFINE o == [at |-> "remove.lock", id |-> idOf[g]]
    <2>1. life[g] = "stopping" /\ life' = [life EXCEPT ![g] = "leaving"]
      BY <1>2 DEF Leave
    <2>2. idOf[g] \in Ids
      BY <2>1 DEF IInv, Types, LivesAgree
    <2>3. o \in Ops /\ o.at = "remove.lock" /\ o.id = idOf[g]
      BY <2>2, AskRecords
    <2>4. op[g].at = "idle"
      BY <2>1, OpFields DEF IInv, Types, LivesAgree, Spawning, Removing, Threads
    <2>5. Enters(g, o)
      BY <1>2, <2>3, <2>4 DEF Leave, CallRemove, Enters
    <2> HIDE DEF o
    <2> QED
      BY <2>1, <2>3, <2>5, AgentEnters
  <1>3. CASE Park(g) \/ HandleStop(g) \/ HandleExec(g) \/ HandleEcho(g) \/ ExecReturn(g)
    <2>1. PICK s \in LiveStates : life' = [life EXCEPT ![g] = s]
      BY <1>3 DEF Park, HandleStop, HandleExec, HandleEcho, ExecReturn, LiveStates
    <2>2. life[g] \in LiveStates
      BY <1>3 DEF Park, HandleStop, HandleExec, HandleEcho, ExecReturn, Take, LiveStates
    <2>3. UNCHANGED <<registry, op, idOf>>
      BY <1>3 DEF Park, HandleStop, HandleExec, HandleEcho, ExecReturn, registry
    <2>4. life' \in [Agents -> LifeStates]
      BY <2>1 DEF IInv, Types, LiveStates, LifeStates
    <2>5. \A h \in Agents : Ordinary(h)
      BY <2>1, <2>2 DEF IInv, Types, Ordinary
    <2> QED
      BY <2>3, <2>4, <2>5, OrdinaryStep
  <1> QED
    BY <1>1, <1>2, <1>3 DEF AgentStep, Run, Handle

(* A step that changes nothing the invariant speaks of. *)
LEMMA StillStep ==
  ASSUME IInv, UNCHANGED <<registry, op, idOf, life>>
  PROVE  IInv'
  <1>1. life' \in [Agents -> LifeStates]
    BY DEF IInv, Types
  <1>2. \A h \in Agents : Ordinary(h)
    BY DEF Ordinary
  <1> QED
    BY <1>1, <1>2, OrdinaryStep

(* The arg file and the readers touch nothing of the registry.             *)
LEMMA FileStep ==
  ASSUME IInv, NEW g \in Agents, WriteArg(g) \/ ReaderParks(g) \/ ReaderLeaves(g)
  PROVE  IInv'
  <1>1. UNCHANGED <<registry, op, idOf, life>>
    BY DEF WriteArg, ReaderParks, ReaderLeaves, registry
  <1> QED
    BY <1>1, StillStep

(* IInv is inductive.                                                      *)
LEMMA NextKeeps == IInv /\ [Next]_vars => IInv'
  <1> SUFFICES ASSUME IInv, [Next]_vars PROVE IInv'
    OBVIOUS
  <1>1. ASSUME NEW t \in Threads, Lock(t) \/ Locked(t) PROVE IInv'
    BY <1>1, LockStep, SpawnRefusedStep, RegisterStep, PublishStep,
       RemoveNotFoundStep, RemoveStopStep, RemoveDeleteStep DEF Locked
  <1>2. CASE UNCHANGED vars
    BY <1>2, StillStep DEF vars
  <1> QED
    BY <1>1, <1>2, CallerStep, AgentStepKeeps, FileStep DEF Next, Client

THEOREM Inductive == Spec => []IInv
  BY InitHolds, NextKeeps, PTL DEF Spec

-----------------------------------------------------------------------------
(* The results. *)

(* At most one thread is between the Lock and the Unlock of gm.mu: no two   *)
(* Spawns or Removes interleave their changes of the registry.             *)
THEOREM MutualExclusion ==
  Spec => [](\A t, u \in Threads : op[t].at \in Critical /\ op[u].at \in Critical => t = u)
  <1>1. IInv => \A t, u \in Threads : op[t].at \in Critical /\ op[u].at \in Critical => t = u
    BY DEF IInv, Exclusive
  <1> QED
    BY <1>1, Inductive, PTL

(* Whenever nobody is inside the manager, /gortns lists the agents the     *)
(* manager knows (Spawn, Remove).                                          *)
THEOREM DirectoryIsRegistry == Spec => []DirMatches
  <1>1. IInv => DirMatches
    BY Nobody DEF IInv, Exclusive, Critical, DirFollows, Registered, DirMatches
  <1> QED
    BY <1>1, Inductive, PTL

(* An agent whose goroutine has ended is in no entry of the registry.      *)
THEOREM DeadHaveLeft == Spec => []NoZombie
  <1>1. IInv => NoZombie
    BY DEF IInv, LivesAgree, NoZombie
  <1> QED
    BY <1>1, Inductive, PTL

(* The Remove an agent with an id made of the time defers deletes its own   *)
(* entry.                                                                  *)
THEOREM RemovesItself == Spec => []OwnRemoval
  <1>1. IInv => OwnRemoval
    <2> SUFFICES ASSUME IInv, NEW g \in Agents, op[g].at = "remove.delete",
                        idOf[g] \in Minted
                 PROVE  agents[op[g].id] = g
      BY DEF OwnRemoval
    <2>1. g \in Threads
      BY DEF Threads
    <2>2. op[g].id \in Ids /\ op[g].id = idOf[g]
      BY <2>1, OpFields DEF IInv, Types, LivesAgree, Removing
    <2>3. agents[op[g].id] \in Agents
      BY <2>1, <2>2 DEF IInv, Types, Found
    <2>4. idOf[agents[op[g].id]] = op[g].id
      BY <2>2, <2>3, Nobody DEF IInv, LivesAgree
    <2> QED
      BY <2>2, <2>3, <2>4, Nobody DEF IInv, IdsUnique
  <1> QED
    BY <1>1, Inductive, PTL

(* No Spawn takes the place of an agent in the registry.                   *)
THEOREM EntriesStay == Spec => NeverReplaced
  <1>1. ASSUME IInv, [Next]_vars, NEW i \in Ids, agents[i] # None
        PROVE  agents'[i] \in {agents[i], None}
    <2> USE <1>1 DEF IInv, Types
    <2>1. CASE UNCHANGED agents
      BY <2>1
    <2>2. ASSUME NEW t \in Threads, NEW g \in Agents, Register(t, g)
          PROVE  agents'[i] \in {agents[i], None}
      BY <2>2 DEF Register
    <2>3. ASSUME NEW t \in Threads, RemoveDelete(t)
          PROVE  agents'[i] \in {agents[i], None}
      BY <2>3 DEF RemoveDelete
    <2>4. ASSUME NEW c \in Callers, NEW g \in Agents, NEW v \in Verbs, WriteCtl(c, g, v)
          PROVE  UNCHANGED agents
      BY <2>4 DEF WriteCtl, registry
    <2>5. Client => UNCHANGED agents
      BY <2>4 DEF Client, WriteDirCtl, Remove, WriteArg, ReaderParks,
         ReaderLeaves, registry
    <2>6. ASSUME NEW c \in Callers, Send(c)
          PROVE  UNCHANGED agents
      BY <2>6 DEF Send, registry
    <2>7. ASSUME NEW t \in Threads, Lock(t) \/ Locked(t)
          PROVE  agents'[i] \in {agents[i], None}
      BY <2>7, <2>2, <2>3 DEF Lock, Locked, SpawnRefused, Publish, RemoveNotFound,
         RemoveStop, registry
    <2>8. ASSUME NEW g \in Agents, AgentStep(g)
          PROVE  UNCHANGED agents
      BY <2>8 DEF AgentStep, Run, Handle, Park, HandleStop, HandleExec, HandleSpawn,
         HandleEcho,
         ExecReturn, Leave, registry
    <2> QED
      BY <2>1, <2>5, <2>6, <2>7, <2>8 DEF Next, vars, registry
  <1>2. IInv /\ [Next]_vars
          => [\A i \in Ids : agents[i] # None => agents'[i] \in {agents[i], None}]_vars
    BY <1>1
  <1> QED
    BY <1>2, Inductive, PTL DEF Spec, NeverReplaced

-----------------------------------------------------------------------------
(* Refinement. *)

Stages == [g \in Agents |-> Stage(g)]

RunningStates == {"unborn", "loop", "select", "spawning", "exec"}
StoppedStates == {"stopping", "leaving"}

LEMMA StagesOf ==
  ASSUME IInv, NEW g \in Agents
  PROVE  /\ idOf[g] = None => Stage(g) = "new" /\ life[g] = "unborn"
         /\ idOf[g] # None /\ life[g] \in RunningStates => Stage(g) = "running"
         /\ life[g] \in StoppedStates => Stage(g) = "stopped"
         /\ life[g] = "dead" => Stage(g) = "gone"
  BY DEF IInv, LivesAgree, Stage, RunningStates, StoppedStates

(* A goroutine that goes on, or comes from its stop to its deferred Remove, *)
(* is where it was.                                                        *)
LEMMA StagesStay ==
  ASSUME UNCHANGED idOf,
         \A h \in Agents : \/ life'[h] = life[h]
                           \/ {life[h], life'[h]} \subseteq RunningStates
                           \/ {life[h], life'[h]} \subseteq StoppedStates
  PROVE  Stages' = Stages
  <1>1. ASSUME NEW h \in Agents PROVE Stage(h)' = Stage(h)
    BY DEF Stage, RunningStates, StoppedStates
  <1> QED
    BY <1>1 DEF Stages

LEMMA TableInit == Init => Table!Init
  BY DEF Init, Table!Init, Stage

(* A step that leaves the map and the lives alone. *)
LEMMA TableStutter ==
  ASSUME UNCHANGED <<agents, idOf>>, Stages' = Stages
  PROVE  UNCHANGED Table!vars
  BY DEF Table!vars, Stages

(* Register enters an agent in the table; the directory and the goroutine  *)
(* follow under the same lock.                                             *)
LEMMA RegisterEnters ==
  ASSUME IInv, NEW t \in Threads, NEW g \in Agents, Register(t, g)
  PROVE  Table!Next
  <1> DEFINE i == op[t].id
  <1>1. i \in Ids /\ op[t].at = "spawn.check"
    BY OpFields DEF IInv, Types, Register, Spawning
  <1>2. i \in Minted => \A h \in Agents : idOf[h] # i
    BY <1>1 DEF IInv, IdsUnique, Asked
  <1>3. /\ agents[i] = None
        /\ idOf' = [idOf EXCEPT ![g] = i]
        /\ agents' = [agents EXCEPT ![i] = g]
        /\ life' = life /\ life[g] = "unborn" /\ idOf[g] = None
    BY DEF Register
  <1> HIDE DEF i
  <1>4. Stages[g] = "new"
    BY <1>3 DEF Stages, Stage
  <1>5. ASSUME NEW h \in Agents
        PROVE  Stage(h)' = IF h = g THEN "running" ELSE Stage(h)
    BY <1>1, <1>3, Nobody DEF IInv, Types, Stage
  <1>6. Stages' = [Stages EXCEPT ![g] = "running"]
    BY <1>5 DEF Stages
  <1>7. Table!Enter(i, g)
    BY <1>2, <1>3, <1>4, <1>6 DEF Table!Enter, Stages
  <1> QED
    BY <1>1, <1>7 DEF Table!Next

(* stopAgent, called by Remove, stops the agent that the table has under   *)
(* the id, or nobody.                                                      *)
LEMMA RemoveStopStops ==
  ASSUME IInv, NEW t \in Threads, RemoveStop(t)
  PROVE  [Table!Next]_Table!vars
  <1> DEFINE i == op[t].id
             g == agents[i]
  <1>1. i \in Ids /\ g \in Agents /\ g # None
    BY OpFields DEF IInv, Types, RemoveStop, Removing
  <1>2. stopAgent(g) /\ UNCHANGED <<agents, idOf>>
    BY DEF RemoveStop, registry
  <1>3. CASE life' = life
    BY <1>2, <1>3, StagesStay, TableStutter
  <1>4. CASE life[g] = "select" /\ life' = [life EXCEPT ![g] = "stopping"]
    <2>1. idOf[g] # None
      BY <1>1, <1>4 DEF IInv, LivesAgree
    <2> HIDE DEF g
    <2>2. ASSUME NEW h \in Agents
          PROVE  Stage(h)' = IF h = g THEN "stopped" ELSE Stage(h)
      BY <1>1, <1>2, <1>4, <2>1 DEF IInv, Types, Stage
    <2>3. Stages' = [Stages EXCEPT ![g] = "stopped"] /\ Stages[g] = "running"
      BY <1>1, <1>4, <2>1, <2>2, StagesOf DEF Stages, RunningStates
    <2>4. Table!Stop(i)
      BY <1>1, <1>2, <2>3 DEF Table!Stop, Stages, g
    <2> QED
      BY <1>1, <2>4 DEF Table!Next
  <1> QED
    BY <1>2, <1>3, <1>4 DEF stopAgent

(* A Remove that was called takes out the entry; the one an agent defers   *)
(* is the agent's end, whether or not it finds an entry.                   *)
LEMMA RemoveReturns ==
  ASSUME IInv, NEW t \in Threads, RemoveDelete(t) \/ RemoveNotFound(t)
  PROVE  [Table!Next]_Table!vars
  <1> DEFINE i == op[t].id
  <1>1. i \in Ids /\ op[t].at \in Removing
    BY OpFields DEF IInv, Types, RemoveDelete, RemoveNotFound, Removing
  <1>2. /\ agents' = [agents EXCEPT ![i] = None]
        /\ life' = AfterReturn(t)
        /\ UNCHANGED idOf
    BY DEF RemoveDelete, RemoveNotFound, IInv, Types
  <1> HIDE DEF i
  <1>3. CASE t \in Agents
    <2>1. life[t] = "leaving" /\ i = idOf[t]
      BY <1>1, <1>3 DEF IInv, LivesAgree, i
    <2>2. life' = [life EXCEPT ![t] = "dead"]
      BY <1>2, <1>3, <2>1 DEF AfterReturn
    <2>3. idOf[t] # None
      BY <1>1, <2>1, Nobody
    <2>4. ASSUME NEW h \in Agents
          PROVE  Stage(h)' = IF h = t THEN "gone" ELSE Stage(h)
      BY <1>2, <2>2, <2>3 DEF IInv, Types, Stage
    <2>5. Stages' = [Stages EXCEPT ![t] = "gone"] /\ Stages[t] = "stopped"
      BY <1>3, <2>1, <2>4, StagesOf DEF Stages, StoppedStates
    <2>6. Table!End(t)
      BY <1>2, <2>1, <2>5 DEF Table!End, Stages
    <2> QED
      BY <1>3, <2>6 DEF Table!Next
  <1>4. CASE t \notin Agents
    <2>1. Stages' = Stages
      BY <1>2, <1>4, StagesStay DEF AfterReturn
    <2>2. Table!TakeOut(i)
      BY <1>2, <2>1 DEF Table!TakeOut, Stages
    <2> QED
      BY <1>1, <2>2 DEF Table!Next
  <1> QED
    BY <1>3, <1>4

(* A Spawn that returns leaves its caller, and the new agent, running.     *)
LEMMA SpawnReturns ==
  ASSUME IInv, NEW t \in Threads, SpawnRefused(t) \/ Publish(t)
  PROVE  UNCHANGED Table!vars
  <1>1. op[t].at \in Spawning /\ UNCHANGED <<agents, idOf>>
    BY DEF SpawnRefused, Publish, Spawning
  <1>2. t \in Agents => life[t] = "spawning"
    BY <1>1 DEF IInv, LivesAgree
  <1>3. ASSUME NEW h \in Agents
        PROVE  life'[h] = life[h] \/ {life[h], life'[h]} \subseteq RunningStates
    <2>1. CASE SpawnRefused(t)
      BY <1>2, <2>1 DEF SpawnRefused, AfterReturn, IInv, Types, RunningStates
    <2>2. CASE Publish(t)
      <3>1. op[t].agent \in Agents /\ life[op[t].agent] = "unborn"
        BY <2>2, OpFields DEF Publish, IInv, Types, LivesAgree
      <3> QED
        BY <1>2, <2>2, <3>1 DEF Publish, AfterReturn, IInv, Types, RunningStates
    <2> QED
      BY <2>1, <2>2
  <1> QED
    BY <1>1, <1>3, StagesStay, TableStutter

(* An agent's goroutine, between its calls of the manager, is running until *)
(* it is stopped.                                                          *)
LEMMA AgentGoesOn ==
  ASSUME IInv, NEW g \in Agents, AgentStep(g)
  PROVE  UNCHANGED Table!vars
  <1>1. UNCHANGED <<agents, idOf>>
    BY DEF AgentStep, Run, Handle, Park, HandleStop, HandleExec, HandleSpawn, HandleEcho,
       ExecReturn, Leave, registry
  <1>2. PICK s \in LifeStates :
          /\ life' = [life EXCEPT ![g] = s]
          /\ {life[g], s} \subseteq RunningStates \/ {life[g], s} \subseteq StoppedStates
    BY DEF AgentStep, Run, Handle, Park, HandleStop, HandleExec, HandleSpawn, HandleEcho,
       ExecReturn, Leave, Take, LifeStates, RunningStates, StoppedStates
  <1>3. \A h \in Agents : \/ life'[h] = life[h]
                          \/ {life[h], life'[h]} \subseteq RunningStates
                          \/ {life[h], life'[h]} \subseteq StoppedStates
    BY <1>2 DEF IInv, Types
  <1> QED
    BY <1>1, <1>3, StagesStay, TableStutter

LEMMA ClientGoesOn ==
  ASSUME Client \/ (\E c \in Callers : Send(c)) \/ UNCHANGED vars
  PROVE  UNCHANGED <<agents, idOf, life>>
  <1>1. ASSUME NEW c \in Callers, NEW g \in Agents, NEW v \in Verbs, WriteCtl(c, g, v)
        PROVE  UNCHANGED <<agents, idOf, life>>
    BY <1>1 DEF WriteCtl, registry
  <1> QED
    BY <1>1 DEF Client, Send, WriteDirCtl, Remove, WriteArg, ReaderParks, ReaderLeaves,
       registry, vars

(* Every step of the manager, its agents and its callers is one of the      *)
(* table or leaves it alone.                                               *)
LEMMA TableStep == IInv /\ [Next]_vars => [Table!Next]_Table!vars
  <1> SUFFICES ASSUME IInv, [Next]_vars PROVE [Table!Next]_Table!vars
    OBVIOUS
  <1>1. ASSUME NEW t \in Threads, Lock(t) PROVE UNCHANGED Table!vars
    <2>1. UNCHANGED <<agents, idOf, life>>
      BY <1>1 DEF Lock
    <2> QED
      BY <2>1, StagesStay, TableStutter
  <1>2. ASSUME NEW t \in Threads, Locked(t) PROVE [Table!Next]_Table!vars
    BY <1>2, RegisterEnters, RemoveStopStops, RemoveReturns, SpawnReturns DEF Locked
  <1>3. CASE Client \/ (\E c \in Callers : Send(c)) \/ UNCHANGED vars
    BY <1>3, ClientGoesOn, StagesStay, TableStutter
  <1> QED
    BY <1>1, <1>2, <1>3, AgentGoesOn DEF Next

(* Spawn, Remove, stopAgent and the ends of agents, interleaved by all who  *)
(* call them, amount to a table that is changed one whole call at a time.  *)
THEOREM ManagerIsATable == Spec => ImplementsAgentTable
  BY TableInit, TableStep, Inductive, PTL DEF Spec, ImplementsAgentTable, Table!Spec

-----------------------------------------------------------------------------
(* The safety half of OpsReturn: whoever holds gm.mu has at most two steps  *)
(* to its Unlock, all of them its own.                                     *)
StepsLeft(t) ==
  IF op[t].at \in {"spawn.check", "remove.stop"} THEN 2
  ELSE IF op[t].at \in {"spawn.publish", "remove.delete"} THEN 1 ELSE 0

HolderAdvances(t) ==
  /\ Locked(t) => StepsLeft(t)' < StepsLeft(t)
  /\ mu = t /\ ~Locked(t) => mu' = t /\ op'[t] = op[t]

LEMMA LockedAdvances ==
  ASSUME IInv, NEW t \in Threads, Locked(t)
  PROVE  StepsLeft(t)' < StepsLeft(t)
  <1> USE NoOpFields DEF IInv, Types, StepsLeft
  <1>1. CASE SpawnRefused(t) \/ RemoveNotFound(t) \/ Publish(t) \/ RemoveDelete(t)
    <2>1. op'[t].at = "idle"
      BY <1>1 DEF SpawnRefused, RemoveNotFound, Publish, RemoveDelete, Unlock
    <2>2. StepsLeft(t) > 0
      BY <1>1 DEF SpawnRefused, RemoveNotFound, Publish, RemoveDelete
    <2> QED
      BY <2>1, <2>2
  <1>2. ASSUME NEW g \in Agents, Register(t, g) PROVE StepsLeft(t)' < StepsLeft(t)
    <2>1. op[t].at = "spawn.check" /\ op'[t].at = "spawn.publish"
      BY <1>2 DEF Register
    <2> QED
      BY <2>1
  <1>3. CASE RemoveStop(t)
    <2>1. op[t].at = "remove.stop" /\ op'[t].at = "remove.delete"
      BY <1>3 DEF RemoveStop, Goto
    <2> QED
      BY <2>1
  <1> QED
    BY <1>1, <1>2, <1>3 DEF Locked

(* The thread that holds the mutex is in none of the steps outside. *)
LEMMA HolderStays ==
  ASSUME IInv, [Next]_vars, NEW t \in Threads, mu = t, ~Locked(t)
  PROVE  mu' = t /\ op'[t] = op[t]
  <1>1. op[t].at \in Critical /\ mu # None
    BY Nobody DEF IInv, Exclusive
  <1>2. ASSUME NEW u \in Threads, Lock(u) \/ Locked(u) PROVE mu' = t /\ op'[t] = op[t]
    <2>1. Locked(u) /\ u # t
      BY <1>1, <1>2 DEF Lock
    <2>2. op[u].at \in Critical
      BY <2>1 DEF Locked, SpawnRefused, Register, Publish, RemoveNotFound, RemoveStop,
         RemoveDelete, Critical
    <2> QED
      BY <2>1, <2>2 DEF IInv, Exclusive
  <1>3. ASSUME NEW u \in Threads, op[u].at \notin Critical, NEW o,
               op' = [op EXCEPT ![u] = o], UNCHANGED mu
        PROVE  mu' = t /\ op'[t] = op[t]
    BY <1>1, <1>3 DEF IInv, Types
  <1>4. ASSUME NEW c \in Callers,
               \/ WriteDirCtl(c) \/ Remove(c) \/ Send(c)
               \/ \E g \in Agents, v \in Verbs : WriteCtl(c, g, v)
        PROVE  mu' = t /\ op'[t] = op[t]
    <2>1. c \in Threads
      BY DEF Threads
    <2>2. op[c].at \notin Critical /\ UNCHANGED mu /\ \E o : op' = [op EXCEPT ![c] = o]
      BY <1>4 DEF WriteDirCtl, Remove, Send, WriteCtl, CallSpawn, CallRemove, Idle, Critical,
         registry
    <2> QED
      BY <1>3, <2>1, <2>2
  <1>5. ASSUME NEW g \in Agents, AgentStep(g) PROVE mu' = t /\ op'[t] = op[t]
    <2>1. g \in Threads
      BY DEF Threads
    <2>2. CASE HandleSpawn(g) \/ Leave(g)
      <3>1. life[g] \notin {"spawning", "leaving"}
        BY <2>2 DEF HandleSpawn, Leave, Take
      <3>2. op[g].at \notin Critical
        BY <3>1 DEF IInv, LivesAgree, Critical, Spawning, Removing
      <3>3. UNCHANGED mu /\ \E o : op' = [op EXCEPT ![g] = o]
        BY <2>2 DEF HandleSpawn, Leave, CallSpawn, CallRemove, registry
      <3> QED
        BY <1>3, <2>1, <3>2, <3>3
    <2>3. CASE Park(g) \/ HandleStop(g) \/ HandleExec(g) \/ HandleEcho(g) \/ ExecReturn(g)
      BY <2>3 DEF Park, HandleStop, HandleExec, HandleEcho, ExecReturn, registry
    <2> QED
      BY <1>5, <2>2, <2>3 DEF AgentStep, Run, Handle
  <1>6. ASSUME NEW g \in Agents, WriteArg(g) \/ ReaderParks(g) \/ ReaderLeaves(g)
        PROVE  mu' = t /\ op'[t] = op[t]
    BY <1>6 DEF WriteArg, ReaderParks, ReaderLeaves, registry
  <1>7. CASE UNCHANGED vars
    BY <1>7 DEF vars, registry
  <1> QED
    BY <1>2, <1>4, <1>5, <1>6, <1>7 DEF Next, Client

(* Nobody waits, in Spawn or Remove, for anything but the mutex itself.    *)
(* Each step under it is one nearer to the Unlock, and nobody but its      *)
(* holder changes what the holder is doing (the defers of Spawn and Remove *)
(* in gortns.go; stopAgent's send does not block).                         *)
THEOREM HoldersLetGo == Spec => [][\A t \in Threads : HolderAdvances(t)]_vars
  <1>1. IInv /\ [Next]_vars => [\A t \in Threads : HolderAdvances(t)]_vars
    BY LockedAdvances, HolderStays DEF HolderAdvances
  <1> QED
    BY <1>1, Inductive, PTL DEF Spec

-----------------------------------------------------------------------------
(* The safety half of StoppedDies: what a stop that was received leads to. *)
Ending == {"stopping", "leaving", "dead"}

NoEntry(g) == \A i \in Ids : agents[i] # g

StopIsKept(g) ==
  life[g] \in Ending =>
    \/ life'[g] = life[g]
    \/ life[g] = "stopping" /\ life'[g] = "leaving" /\ CallRemove(g, idOf[g])
    \/ life[g] = "leaving" /\ life'[g] = "dead" /\ NoEntry(g)'

(* The agent of a call that returns is leaving if it has received its stop. *)
LEMMA CallOfTheStopped ==
  ASSUME IInv, NEW t \in Threads, NEW g \in Agents, life[g] \in Ending,
         op[t].at \in Spawning \union Removing
  PROVE  \/ AfterReturn(t)[g] = life[g]
         \/ life[g] = "leaving" /\ AfterReturn(t)[g] = "dead"
  <1>1. CASE t = g
    <2>1. life[g] = "leaving"
      BY <1>1 DEF IInv, LivesAgree, Ending
    <2> QED
      BY <1>1, <2>1 DEF IInv, Types, AfterReturn
  <1>2. CASE t # g
    BY <1>2 DEF IInv, Types, AfterReturn
  <1> QED
    BY <1>1, <1>2

LEMMA LockedKeepsStop ==
  ASSUME IInv, NEW t \in Threads, Locked(t), NEW g \in Agents, life[g] \in Ending
  PROVE  \/ life'[g] = life[g]
         \/ life[g] = "leaving" /\ life'[g] = "dead"
  <1>1. CASE SpawnRefused(t) \/ RemoveNotFound(t) \/ RemoveDelete(t)
    <2>1. op[t].at \in Spawning \union Removing /\ life' = AfterReturn(t)
      BY <1>1 DEF SpawnRefused, RemoveNotFound, RemoveDelete, Spawning, Removing
    <2> QED
      BY <2>1, CallOfTheStopped
  <1>2. CASE Publish(t)
    <2>1. /\ op[t].at = "spawn.publish" /\ op[t].agent # g
          /\ life' = [AfterReturn(t) EXCEPT ![op[t].agent] = "loop"]
      BY <1>2 DEF Publish, IInv, LivesAgree, Ending
    <2>2. life'[g] = AfterReturn(t)[g]
      BY <2>1 DEF AfterReturn, IInv, Types
    <2> QED
      BY <2>1, <2>2, CallOfTheStopped DEF Spawning
  <1>3. CASE RemoveStop(t)
    <2>1. op[t].id \in Ids /\ agents[op[t].id] \in Agents /\ stopAgent(agents[op[t].id])
      BY <1>3, OpFields DEF RemoveStop, IInv, Types, Removing
    <2> QED
      BY <2>1, StopAgentLife DEF IInv, Types, Ending
  <1>4. ASSUME NEW h \in Agents, Register(t, h) PROVE life' = life
    BY <1>4 DEF Register
  <1> QED
    BY <1>1, <1>2, <1>3, <1>4 DEF Locked

LEMMA AgentKeepsStop ==
  ASSUME IInv, NEW h \in Agents, AgentStep(h), NEW g \in Agents, life[g] \in Ending
  PROVE  \/ life'[g] = life[g]
         \/ life[g] = "stopping" /\ life'[g] = "leaving" /\ CallRemove(g, idOf[g])
  <1>1. CASE Leave(h)
    BY <1>1 DEF Leave, IInv, Types
  <1>2. CASE Park(h) \/ Handle(h) \/ ExecReturn(h)
    <2>1. h # g /\ \E l : life' = [life EXCEPT ![h] = l]
      BY <1>2 DEF Park, Handle, HandleStop, HandleExec, HandleSpawn, HandleEcho, Take,
         ExecReturn, Ending
    <2> QED
      BY <2>1 DEF IInv, Types
  <1> QED
    BY <1>1, <1>2 DEF AgentStep, Run

(* A stop that an agent received is never undone: the goroutine's next     *)
(* step is the Remove of its own id, that Remove ends it, and then no id   *)
(* leads to it any more (run's defer in gortns.go).                        *)
THEOREM StopsAreKept ==
  Spec => /\ [][\A g \in Agents : StopIsKept(g)]_vars
          /\ [](\A g \in Agents : life[g] = "dead" => NoEntry(g))
  <1>1. IInv => \A g \in Agents : life[g] = "dead" => NoEntry(g)
    BY Nobody DEF IInv, LivesAgree, NoEntry
  <1>2. ASSUME IInv, IInv', [Next]_vars, NEW g \in Agents PROVE StopIsKept(g)
    <2>1. ASSUME life[g] \in Ending, NEW t \in Threads, Locked(t) PROVE StopIsKept(g)
      <3>1. life'[g] = "dead" => NoEntry(g)'
        BY <1>2, Nobody DEF IInv, LivesAgree, NoEntry
      <3> QED
        BY <1>2, <2>1, <3>1, LockedKeepsStop DEF StopIsKept
    <2>2. ASSUME life[g] \in Ending, NEW h \in Agents, AgentStep(h) PROVE StopIsKept(g)
      BY <1>2, <2>2, AgentKeepsStop DEF StopIsKept
    <2>3. CASE UNCHANGED life
      BY <2>3 DEF StopIsKept
    <2> QED
      BY <1>2, <2>1, <2>2, <2>3
      DEF Next, vars, Client, WriteDirCtl, Remove, WriteCtl, WriteArg, ReaderParks,
          ReaderLeaves, Send, Lock, StopIsKept
  <1>3. IInv /\ IInv' /\ [Next]_vars => [\A g \in Agents : StopIsKept(g)]_vars
    BY <1>2
  <1> QED
    BY <1>1, <1>3, Inductive, PTL DEF Spec
=============================================================================
