------------------------------- MODULE Gortns -------------------------------
(***************************************************************************)
(* The agent manager and the life of its agents (cmd/rcpud/gortns.go):     *)
(* GortnManager's Spawn and Remove under gm.mu, the select loop of every   *)
(* agent's goroutine, its ctl channel, the unbuffered stop channel with    *)
(* everybody who receives on it, and the 9P writes that drive them.        *)
(* What an agent writes to its output is in GortnOut.                      *)
(***************************************************************************)
EXTENDS Naturals, Sequences, FiniteSets, Functions

CONSTANTS
  Agents,           \* the Gortn objects newGortn will ever make
  Ids,              \* names of agents
  Callers,          \* goroutines serving 9P requests (or tests) on the manager
  Verbs,            \* bound: the commands clients send
  SentTo,           \* bound: SentTo[g]: which of them they send to g
  CtlCap,           \* capacity of a ctl channel (8 in the code)
  MaxHelpers,       \* bound: stdin goroutines of one agent, and execs that make them
  Minted,           \* the ids the files make of the time; Spawn takes any other
  Read,             \* bound: the agents whose out file somebody reads
  None              \* no agent, no id, no goroutine

ASSUME NoneIsNobody == None \notin Agents \union Ids \union Callers
ASSUME VerbsAreCommands == Verbs \subseteq {"stop", "exec", "spawn", "echo"}
ASSUME AgentsDontServe == Agents \intersect Callers = {}
ASSUME BoundsPositive == CtlCap \in Nat \ {0} /\ MaxHelpers \in Nat
ASSUME MintedAreIds == Minted \subseteq Ids

VARIABLES
  agents,           \* gm.agents: id -> agent, or None
  dirs,             \* the ids with a directory under /gortns
  mu,               \* the goroutine that holds gm.mu, or None
  op,               \* op[t]: the Spawn, Remove or ctl write t is in
  idOf,             \* idOf[g]: g.id, None before newGortn
  life,             \* life[g]: where g's goroutine stands
  ctl,              \* ctl[g]: g.ctl, a queue of verbs
  helpers,          \* helpers[g]: stdin goroutines receiving on g.in and g.stop
  parked            \* agents with a reader parked in readOut's select

registry == <<agents, dirs, mu>>
vars == <<registry, op, idOf, life, ctl, helpers, parked>>

Threads == Callers \union Agents

LifeStates == {"unborn", "loop", "select", "spawning", "exec", "stopping",
               "leaving", "dead"}

(* A goroutine is in Spawn, in Remove, in a ctl write, or in none. *)
NoOp == [at |-> "idle"]

SpawnOps  == [at : {"spawn.lock", "spawn.check"}, id : Ids]
              \union [at : {"spawn.publish"}, id : Ids, agent : Agents]
RemoveOps == [at : {"remove.lock", "remove.stop", "remove.delete"}, id : Ids]
SendOps   == [at : {"send"}, agent : Agents, verb : Verbs]

Init ==
  /\ agents = [i \in Ids |-> None]
  /\ dirs = {}
  /\ mu = None
  /\ op = [t \in Threads |-> NoOp]
  /\ idOf = [g \in Agents |-> None]
  /\ life = [g \in Agents |-> "unborn"]
  /\ ctl = [g \in Agents |-> <<>>]
  /\ helpers = [g \in Agents |-> 0]
  /\ parked = {}

-----------------------------------------------------------------------------
(* gm.mu and the ends of its critical sections. *)

Idle(t) == op[t].at = "idle"

ManagerSteps == {"spawn.lock", "spawn.check", "spawn.publish",
                 "remove.lock", "remove.stop", "remove.delete"}

Goto(t, step) == op' = [op EXCEPT ![t] = [at |-> step, id |-> @.id]]

Lock(t) ==
  /\ mu = None
  /\ mu' = t
  /\ \/ op[t].at = "spawn.lock"  /\ Goto(t, "spawn.check")
     \/ op[t].at = "remove.lock" /\ Goto(t, "remove.stop")
  /\ UNCHANGED <<agents, dirs, idOf, life, ctl, helpers, parked>>

(* t's call returns: to a handler that goes back to its loop, or to the    *)
(* deferred Remove that ends the agent's goroutine.                        *)
AfterReturn(t) ==
  IF t \in Agents
    THEN [life EXCEPT ![t] = IF @ = "leaving" THEN "dead" ELSE "loop"]
    ELSE life

(* The deferred unlock, whatever the way out. *)
Unlock(t) ==
  /\ mu' = None
  /\ op' = [op EXCEPT ![t] = NoOp]

-----------------------------------------------------------------------------
(* Bounds on what may be asked of the model. *)

HasFiles(g) == life[g] # "unborn"

Sending(g, v) == {c \in Callers : op[c].at = "send" /\ op[c].agent = g /\ op[c].verb = v}

(* The commands v that g has queued or that somebody is sending it. *)
Coming(g, v) ==
  Len(SelectSeq(ctl[g], LAMBDA w : w = v)) + Cardinality(Sending(g, v))

(* The files make an id of the time in nanoseconds: nobody else has it.    *)
Unused(i) ==
  /\ \A g \in Agents : idOf[g] # i
  /\ \A t \in Threads : op[t].at \in ManagerSteps => op[t].id # i

(* Mutant: the clock the ids are made of stands still. *)
NewIdRepeats(i) == TRUE

(* A caller of Spawn may also pass an id that was given before.            *)
NewId(i) == i \in Minted => Unused(i)

ComingSpawns == SumFunction([g \in Agents |-> Coming(g, "spawn")])

(* Bound: an agent is left for every spawn under way or on its way, and an  *)
(* id of the time for every agent that will need one.                      *)
Room ==
  LET asking == {t \in Threads : op[t].at \in {"spawn.lock", "spawn.check"}}
  IN  Cardinality({g \in Agents : idOf[g] = None}) > Cardinality(asking) + ComingSpawns

MintLeft == Cardinality({i \in Minted : NewId(i)}) > ComingSpawns

-----------------------------------------------------------------------------
(* Spawn. *)

CallSpawn(t, i) == op' = [op EXCEPT ![t] = [at |-> "spawn.lock", id |-> i]]

(* "spawn ..." written to /gortns/ctl, whose id is minted, or a call of Spawn. *)
WriteDirCtl(c) ==
  /\ Idle(c)
  /\ Room
  /\ \E i \in Ids : (i \in Minted => MintLeft) /\ NewId(i) /\ CallSpawn(c, i)
  /\ UNCHANGED <<registry, idOf, life, ctl, helpers, parked>>

SpawnRefused(t) ==
  /\ op[t].at = "spawn.check"
  /\ agents[op[t].id] # None
  /\ Unlock(t)
  /\ life' = AfterReturn(t)
  /\ UNCHANGED <<agents, dirs, idOf, ctl, helpers, parked>>

(* Mutant: Spawn does not look whether the id is taken. *)
RegisterUnchecked(t, g) ==
  /\ op[t].at = "spawn.check"
  /\ life[g] = "unborn"
  /\ idOf[g] = None
  /\ idOf' = [idOf EXCEPT ![g] = op[t].id]
  /\ agents' = [agents EXCEPT ![op[t].id] = g]
  /\ op' = [op EXCEPT ![t] = [at |-> "spawn.publish", id |-> op[t].id, agent |-> g]]
  /\ UNCHANGED <<dirs, mu, life, ctl, helpers, parked>>

(* newGortn and the entry in the map. *)
Register(t, g) ==
  /\ op[t].at = "spawn.check"
  /\ agents[op[t].id] = None
  /\ life[g] = "unborn"
  /\ idOf[g] = None
  /\ idOf' = [idOf EXCEPT ![g] = op[t].id]
  /\ agents' = [agents EXCEPT ![op[t].id] = g]
  /\ op' = [op EXCEPT ![t] = [at |-> "spawn.publish", id |-> op[t].id, agent |-> g]]
  /\ UNCHANGED <<dirs, mu, life, ctl, helpers, parked>>

(* The directory with its files, the goroutine, the unlock. *)
Publish(t) ==
  /\ op[t].at = "spawn.publish"
  /\ dirs' = dirs \union {op[t].id}
  /\ life' = [AfterReturn(t) EXCEPT ![op[t].agent] = "loop"]
  /\ Unlock(t)
  /\ UNCHANGED <<agents, idOf, ctl, helpers, parked>>

-----------------------------------------------------------------------------
(* stopAgent: a non-blocking send on the unbuffered stop channel.          *)

(* Who receives on g.stop: its goroutine, a reader, and a stdin goroutine   *)
(* unless it is busy with a line (GortnExec).                              *)
Receiving(g) == life[g] = "select" \/ g \in parked

(* Mutant: the send waits for a receiver. *)
stopAgentBlocking(g) ==
  \/ /\ life[g] = "select"
     /\ life' = [life EXCEPT ![g] = "stopping"]
     /\ UNCHANGED <<helpers, parked>>
  \/ /\ helpers[g] > 0
     /\ helpers' = [helpers EXCEPT ![g] = @ - 1]
     /\ UNCHANGED <<life, parked>>
  \/ /\ g \in parked
     /\ parked' = parked \ {g}
     /\ UNCHANGED <<life, helpers>>

stopAgent(g) ==
  \/ /\ life[g] = "select"
     /\ life' = [life EXCEPT ![g] = "stopping"]
     /\ UNCHANGED <<helpers, parked>>
  \/ /\ helpers[g] > 0
     /\ helpers' = [helpers EXCEPT ![g] = @ - 1]
     /\ UNCHANGED <<life, parked>>
  \/ /\ g \in parked
     /\ parked' = parked \ {g}
     /\ UNCHANGED <<life, helpers>>
  \/ /\ ~Receiving(g)
     /\ UNCHANGED <<life, helpers, parked>>

-----------------------------------------------------------------------------
(* Remove. *)

CallRemove(t, i) == op' = [op EXCEPT ![t] = [at |-> "remove.lock", id |-> i]]

Remove(c) ==
  /\ Idle(c)
  /\ \E i \in Ids : CallRemove(c, i)
  /\ UNCHANGED <<registry, idOf, life, ctl, helpers, parked>>

(* Mutant: the early return forgets the lock. *)
RemoveNotFoundLocked(t) ==
  /\ op[t].at = "remove.stop"
  /\ agents[op[t].id] = None
  /\ op' = [op EXCEPT ![t] = NoOp]
  /\ life' = AfterReturn(t)
  /\ UNCHANGED <<registry, idOf, ctl, helpers, parked>>

RemoveNotFound(t) ==
  /\ op[t].at = "remove.stop"
  /\ agents[op[t].id] = None
  /\ Unlock(t)
  /\ life' = AfterReturn(t)
  /\ UNCHANGED <<agents, dirs, idOf, ctl, helpers, parked>>

RemoveStop(t) ==
  /\ op[t].at = "remove.stop"
  /\ agents[op[t].id] # None
  /\ stopAgent(agents[op[t].id])
  /\ Goto(t, "remove.delete")
  /\ UNCHANGED <<registry, idOf, ctl>>

(* Mutant: the directory stays. *)
RemoveDeleteMapOnly(t) ==
  /\ op[t].at = "remove.delete"
  /\ agents' = [agents EXCEPT ![op[t].id] = None]
  /\ Unlock(t)
  /\ life' = AfterReturn(t)
  /\ UNCHANGED <<dirs, idOf, ctl, helpers, parked>>

RemoveDelete(t) ==
  LET i == op[t].id IN
  /\ op[t].at = "remove.delete"
  /\ agents' = [agents EXCEPT ![i] = None]
  /\ dirs' = dirs \ {i}
  /\ Unlock(t)
  /\ life' = AfterReturn(t)
  /\ UNCHANGED <<idOf, ctl, helpers, parked>>

-----------------------------------------------------------------------------
(* Writes to an agent's ctl and arg files.  A client may keep a fid of an   *)
(* agent that is gone.                                                     *)

(* Bound: the stdin goroutines there are and those that commands on their  *)
(* way will make.                                                          *)
MayExec(g) == helpers[g] + Coming(g, "exec") < MaxHelpers

WriteCtl(c, g, v) ==
  /\ Idle(c)
  /\ HasFiles(g)
  /\ v \in SentTo[g]
  /\ v = "exec" => MayExec(g)
  /\ v = "spawn" => Room /\ MintLeft
  /\ op' = [op EXCEPT ![c] = [at |-> "send", agent |-> g, verb |-> v]]
  /\ UNCHANGED <<registry, idOf, life, ctl, helpers, parked>>

(* The blocking send on g.ctl. *)
Send(c) ==
  /\ op[c].at = "send"
  /\ Len(ctl[op[c].agent]) < CtlCap
  /\ ctl' = [ctl EXCEPT ![op[c].agent] = Append(@, op[c].verb)]
  /\ op' = [op EXCEPT ![c] = NoOp]
  /\ UNCHANGED <<registry, idOf, life, helpers, parked>>

(* An arg write queues an exec if there is room, and drops it if not.       *)
WriteArg(g) ==
  /\ HasFiles(g)
  /\ MayExec(g)
  /\ ctl' = IF Len(ctl[g]) < CtlCap THEN [ctl EXCEPT ![g] = Append(@, "exec")] ELSE ctl
  /\ UNCHANGED <<registry, op, idOf, life, helpers, parked>>

(* A reader of the out file parks in its select, or leaves it. *)
ReaderParks(g) ==
  /\ g \in Read
  /\ life[g] \notin {"unborn", "leaving", "dead"}
  /\ parked' = parked \union {g}
  /\ UNCHANGED <<registry, op, idOf, life, ctl, helpers>>

ReaderLeaves(g) ==
  /\ g \in parked
  /\ parked' = parked \ {g}
  /\ UNCHANGED <<registry, op, idOf, life, ctl, helpers>>

-----------------------------------------------------------------------------
(* The agent's goroutine. *)

(* Nothing is ready: the goroutine parks in its select. *)
Park(g) ==
  /\ life[g] = "loop"
  /\ ctl[g] = <<>>
  /\ life' = [life EXCEPT ![g] = "select"]
  /\ UNCHANGED <<registry, op, idOf, ctl, helpers, parked>>

Take(g, v) ==
  /\ life[g] \in {"loop", "select"}
  /\ ctl[g] # <<>>
  /\ Head(ctl[g]) = v
  /\ ctl' = [ctl EXCEPT ![g] = Tail(@)]

(* Mutant: handleStop's send waits for a receiver. *)
HandleStopBlocking(g) ==
  /\ Take(g, "stop")
  /\ \/ /\ helpers[g] > 0
        /\ helpers' = [helpers EXCEPT ![g] = @ - 1]
        /\ UNCHANGED parked
     \/ /\ g \in parked
        /\ parked' = parked \ {g}
        /\ UNCHANGED helpers
  /\ life' = [life EXCEPT ![g] = "loop"]
  /\ UNCHANGED <<registry, op, idOf>>

(* handleStop runs on the goroutine that should receive the stop: it is    *)
(* not parked while it sends.                                              *)
HandleStop(g) ==
  /\ Take(g, "stop")
  /\ \/ /\ helpers[g] > 0
        /\ helpers' = [helpers EXCEPT ![g] = @ - 1]
        /\ UNCHANGED parked
     \/ /\ parked' = parked \ {g}
        /\ UNCHANGED helpers
  /\ life' = [life EXCEPT ![g] = "loop"]
  /\ UNCHANGED <<registry, op, idOf>>

(* execCommand starts a goroutine for the command's stdin, which outlives  *)
(* the command: only a stop ends it.                                       *)
HandleExec(g) ==
  /\ Take(g, "exec")
  /\ helpers' = [helpers EXCEPT ![g] = @ + 1]
  /\ life' = [life EXCEPT ![g] = "exec"]
  /\ UNCHANGED <<registry, op, idOf, parked>>

ExecReturn(g) ==
  /\ life[g] = "exec"
  /\ life' = [life EXCEPT ![g] = "loop"]
  /\ UNCHANGED <<registry, op, idOf, ctl, helpers, parked>>

HandleSpawn(g) ==
  /\ Take(g, "spawn")
  /\ \E i \in Minted : NewId(i) /\ CallSpawn(g, i)
  /\ life' = [life EXCEPT ![g] = "spawning"]
  /\ UNCHANGED <<registry, idOf, helpers, parked>>

(* echo, and an unknown verb: output alone. *)
HandleEcho(g) ==
  /\ Take(g, "echo")
  /\ life' = [life EXCEPT ![g] = "loop"]
  /\ UNCHANGED <<registry, op, idOf, helpers, parked>>

(* Mutant: run does not defer the Remove. *)
LeaveRegistered(g) ==
  /\ life[g] = "stopping"
  /\ life' = [life EXCEPT ![g] = "dead"]
  /\ UNCHANGED <<registry, op, idOf, ctl, helpers, parked>>

(* The stop case returns into the deferred Remove(g.id). *)
Leave(g) ==
  /\ life[g] = "stopping"
  /\ life' = [life EXCEPT ![g] = "leaving"]
  /\ CallRemove(g, idOf[g])
  /\ UNCHANGED <<registry, idOf, ctl, helpers, parked>>

-----------------------------------------------------------------------------
(* The steps of Spawn and Remove once gm.mu is held. *)
Locked(t) ==
  \/ SpawnRefused(t)
  \/ \E g \in Agents : Register(t, g)
  \/ Publish(t)
  \/ RemoveNotFound(t)
  \/ RemoveStop(t)
  \/ RemoveDelete(t)

Handle(g) == HandleStop(g) \/ HandleExec(g) \/ HandleSpawn(g) \/ HandleEcho(g)

Run(g) == Park(g) \/ Handle(g) \/ Leave(g)

AgentStep(g) == Run(g) \/ ExecReturn(g)

Client ==
  \/ \E c \in Callers :
        \/ WriteDirCtl(c)
        \/ Remove(c)
        \/ \E g \in Agents, v \in Verbs : WriteCtl(c, g, v)
  \/ \E g \in Agents : WriteArg(g) \/ ReaderParks(g) \/ ReaderLeaves(g)

Next ==
  \/ Client
  \/ \E c \in Callers : Send(c)
  \/ \E t \in Threads : Lock(t) \/ Locked(t)
  \/ \E g \in Agents : AgentStep(g)

Spec == Init /\ [][Next]_vars

(* Goroutines run, and a mutex and a channel serve those who wait for them  *)
(* in turn.  Clients owe nothing, and a command need not end.              *)
FairSpec ==
  /\ Spec
  /\ \A t \in Threads : SF_vars(Lock(t)) /\ WF_vars(Locked(t))
  /\ \A c \in Callers : SF_vars(Send(c))
  /\ \A g \in Agents : WF_vars(Run(g))

-----------------------------------------------------------------------------
(* Properties. *)

(* An entry of the registry only ever goes away: no second Spawn of an id   *)
(* takes the place of a live agent, which nobody could then reach.         *)
NeverReplaced ==
  [][\A i \in Ids : agents[i] # None => agents'[i] \in {agents[i], None}]_vars

(* What becomes of an agent: it is running from newGortn on, for its entry *)
(* is in the map, and is stopped when its goroutine has received the stop. *)
Stage(g) ==
  CASE idOf[g] = None -> "new"
    [] life[g] \in {"stopping", "leaving"} -> "stopped"
    [] life[g] = "dead" -> "gone"
    [] OTHER -> "running"

(* Whatever is under way at once, the manager is a table that is changed a *)
(* whole Spawn, Remove or end of an agent at a time: an entry is made once, *)
(* where there is none, and under an id of the time for the first agent of *)
(* that id; only an agent in the table is stopped; one that ends leaves it. *)
Table == INSTANCE AgentTable WITH
           table <- agents,
           stage <- [g \in Agents |-> Stage(g)]

ImplementsAgentTable == Table!Spec

(* A goroutine that has ended has left the registry, whoever was spawned,  *)
(* removed or stopped in the meantime.                                     *)
NoZombie == \A i \in Ids : agents[i] # None => life[agents[i]] # "dead"

(* Whenever nobody is inside the manager, the directory a client sees      *)
(* under /gortns is the set of agents the manager knows.                   *)
DirMatches == mu = None => dirs = {i \in Ids : agents[i] # None}

(* The Remove that an agent with an id made of the time defers takes out    *)
(* that agent or nobody, whatever ids others give and use again.           *)
OwnRemoval ==
  \A g \in Agents :
    op[g].at = "remove.delete" /\ idOf[g] \in Minted => agents[op[g].id] = g

(* Every Spawn and Remove returns, whatever the agents they meet are doing *)
(* and even when they are called from an agent's own goroutine.            *)
OpsReturn ==
  \A t \in Threads : op[t].at \in ManagerSteps ~> Idle(t)

(* An agent that received its stop ends and leaves the registry. *)
StoppedDies ==
  \A g \in Agents :
    life[g] = "stopping" ~> life[g] = "dead" /\ \A i \in Ids : agents[i] # g

(* A write to the ctl file returns, or the agent is stopped first, as long *)
(* as no command of the agent's runs for ever.                             *)
CtlWriteReturns ==
  \A c \in Callers, g \in Agents :
    []<>(life[g] # "exec") =>
      (op[c].at = "send" /\ op[c].agent = g
         ~> Idle(c) \/ life[g] \in {"stopping", "leaving", "dead"})

(* Remove's comment: it stops an agent and deletes its directory entry. *)
RemoveStops ==
  \A t \in Threads, g \in Agents :
    op[t].at = "remove.delete" /\ agents[op[t].id] = g ~> life[g] = "dead"

(* The test of the agent loop: an agent given a "stop" command finishes.    *)
StopVerbStops ==
  \A g \in Agents :
    life[g] = "select" /\ ctl[g] = <<"stop">> ~> life[g] = "dead"
=============================================================================
