--------------------------- MODULE GortnExecProofs ---------------------------
(***************************************************************************)
(* Proofs about GortnExec, for any number of streams, commands and input   *)
(* lines and any capacities of queues and pipes.                           *)
(***************************************************************************)
EXTENDS GortnExec, FiniteSetTheorems, SequenceTheorems, TLAPS

(* The pumps that live are the last command's, until execCommand has joined *)
(* them.                                                                   *)
PumpsInv ==
  \A c \in Cmds, s \in Streams :
    pump[c][s] # "gone" => c = execs /\ phase \in {"start", "wait", "join"}

(* Our ends of the pipes are open until Wait or a failing Start has closed *)
(* them; what they held then is counted as cut, once.  Before Start there   *)
(* is no process.                                                          *)
PipesInv ==
  /\ phase \in {"start", "wait", "join"} => execs > 0
  /\ phase = "start" => child = "none"
  /\ open <=> phase \in {"start", "wait"}
  /\ open => \A s \in Streams : cut[s] = 0
  /\ ~open => \A s \in Streams : piped[s] = 0

(* Nothing in the log is from a command yet to come. *)
LogInv == \A i \in DOMAIN log : log[i].cmd <= execs

(* What the last command wrote is in the log, in a pump's hands, in the    *)
(* pipe, or was cut off.                                                   *)
InHand(s) == IF pump[execs][s] = "holding" THEN 1 ELSE 0

CountInv ==
  execs > 0 => \A s \in Streams :
    wrote[s] = Cardinality(Logged(execs, s)) + InHand(s) + piped[s] + cut[s]

(* A feeder has a line exactly while it writes; commands yet to come have  *)
(* no feeder and no input.                                                 *)
FeedersInv ==
  /\ \A c \in Cmds : feeder[c] = "writing" <=> held[c] # 0
  /\ \A c \in Cmds : c > execs => feeder[c] = "none" /\ stdin[c] = <<>>

(* The lines are in order: what a command was given, what its feeder has,   *)
(* what is in the queue, what is yet to be written.                        *)
OrderInv ==
  /\ Ascending(in)
  /\ \A j \in DOMAIN in : in[j] <= written
  /\ \A c \in Cmds : held[c] <= written /\ \A j \in DOMAIN in : held[c] < in[j]
  /\ \A c \in Cmds : Ascending(stdin[c])
  /\ \A c \in Cmds : \A i \in DOMAIN stdin[c] :
        /\ stdin[c][i] <= written
        /\ held[c] # 0 => stdin[c][i] < held[c]
        /\ \A j \in DOMAIN in : stdin[c][i] < in[j]

(* No line is with two commands or their feeders. *)
ApartInv ==
  \A c, d \in Cmds : c # d =>
    /\ \A i \in DOMAIN stdin[c], j \in DOMAIN stdin[d] : stdin[c][i] # stdin[d][j]
    /\ \A i \in DOMAIN stdin[c] : stdin[c][i] # held[d]
    /\ held[c] # 0 => held[c] # held[d]

(* The queue keeps what it accepts until a first command is there, *)
QueueInv == execs = 0 => in = accepted

IInv ==
  /\ TypeOK
  /\ PumpsInv /\ PipesInv /\ LogInv /\ CommandsInOrder /\ CountInv
  /\ FeedersInv /\ OrderInv /\ ApartInv
  /\ QueueInv /\ FirstCommandOwnsInput

-----------------------------------------------------------------------------
(* Type correctness. *)

LEMMA Zeroes == ASSUME NEW n \in Nat PROVE [s \in Streams |-> 0] \in [Streams -> 0 .. n]
  OBVIOUS

LEMMA TypeInit == Init => TypeOK
  <1> SUFFICES ASSUME Init PROVE TypeOK
    OBVIOUS
  <1> USE Capacities, Bounds DEF Init
  <1>1. pump \in [Cmds -> [Streams -> PumpStates]]
    BY DEF PumpStates
  <1>2. wrote \in [Streams -> 0 .. MaxOut] /\ piped \in [Streams -> 0 .. PipeCap]
          /\ cut \in [Streams -> 0 .. PipeCap]
    BY Zeroes
  <1>3. log \in Seq(Pieces) /\ in \in Seq(1 .. MaxLines) /\ Len(in) <= InCap
          /\ accepted \in Seq(1 .. MaxLines)
    OBVIOUS
  <1>4. feeder \in [Cmds -> FeederStates] /\ held \in [Cmds -> 0 .. MaxLines]
          /\ stdin \in [Cmds -> Seq(1 .. MaxLines)]
    BY DEF FeederStates
  <1>5. execs \in 0 .. MaxCmds /\ written \in 0 .. MaxLines /\ unread \in 0 .. StdinCap
    OBVIOUS
  <1> QED
    BY <1>1, <1>2, <1>3, <1>4, <1>5 DEF TypeOK, PhaseStates, ChildStates

LEMMA TypeNext == TypeOK /\ FeedersInv /\ [Next]_vars => TypeOK'
  <1> SUFFICES ASSUME TypeOK, FeedersInv, [Next]_vars PROVE TypeOK'
    OBVIOUS
  <1> USE Capacities, Bounds
          DEF TypeOK, PhaseStates, ChildStates, PumpStates, FeederStates, outputVars, inputVars
  <1>1. CASE WriteIn
    <2>1. written' \in 0 .. MaxLines /\ written' \in 1 .. MaxLines
      BY <1>1 DEF WriteIn
    <2>2. /\ in' \in Seq(1 .. MaxLines) /\ Len(in') <= InCap
          /\ accepted' \in Seq(1 .. MaxLines)
      <3>1. CASE Len(in) < InCap /\ in' = Append(in, written') /\ accepted' = Append(accepted, written')
        BY <2>1, <3>1
      <3>2. CASE UNCHANGED <<in, accepted>>
        BY <3>2
      <3> QED
        BY <1>1, <3>1, <3>2 DEF WriteIn
    <2> QED
      BY <1>1, <2>1, <2>2 DEF WriteIn
  <1>2. CASE ExecCommand
    <2>1. execs' \in Cmds /\ execs' \in 0 .. MaxCmds
      BY <1>2 DEF ExecCommand, Cmds
    <2>2. log' \in Seq(Pieces)
      BY <1>2, <2>1 DEF ExecCommand, Prompt, Pieces
    <2>3. pump' \in [Cmds -> [Streams -> PumpStates]]
      <3>1. PICK made \in SUBSET Streams :
              pump' = [pump EXCEPT ![execs'] =
                         [s \in Streams |-> IF s \in made THEN "reading" ELSE "gone"]]
        BY <1>2 DEF ExecCommand
      <3>2. [s \in Streams |-> IF s \in made THEN "reading" ELSE "gone"]
              \in [Streams -> PumpStates]
        BY DEF PumpStates
      <3> QED
        BY <2>1, <3>1, <3>2
    <2>4. feeder' \in [Cmds -> FeederStates]
      BY <1>2 DEF ExecCommand
    <2>5. wrote' \in [Streams -> 0 .. MaxOut] /\ piped' \in [Streams -> 0 .. PipeCap]
            /\ cut' \in [Streams -> 0 .. PipeCap]
      BY <1>2, Zeroes DEF ExecCommand
    <2>6. unread' \in 0 .. StdinCap
      BY <1>2 DEF ExecCommand
    <2> QED
      BY <1>2, <2>1, <2>2, <2>3, <2>4, <2>5, <2>6 DEF ExecCommand
  <1>3. CASE Start
    BY <1>3 DEF Start
  <1>4. CASE StartFails
    <2>1. /\ piped' \in [Streams -> 0 .. PipeCap]
          /\ cut' \in [Streams -> 0 .. PipeCap]
          /\ unread' \in 0 .. StdinCap
      BY <1>4, Zeroes DEF StartFails, ClosePipes
    <2> QED
      BY <1>4, <2>1 DEF StartFails, ClosePipes
  <1>5. CASE Wait
    <2>1. /\ piped' \in [Streams -> 0 .. PipeCap]
          /\ cut' \in [Streams -> 0 .. PipeCap]
          /\ unread' \in 0 .. StdinCap
      BY <1>5, Zeroes DEF Wait, ClosePipes
    <2> QED
      BY <1>5, <2>1 DEF Wait, ClosePipes
  <1>6. CASE Join
    BY <1>6 DEF Join
  <1>7. CASE ChildReads
    BY <1>7 DEF ChildReads
  <1>8. CASE ChildExits
    BY <1>8 DEF ChildExits
  <1>9. CASE ChildKilled
    BY <1>9 DEF ChildKilled
  <1>10. CASE BackgroundExits
    BY <1>10 DEF BackgroundExits
  <1>11. ASSUME NEW s \in Streams, ChildWrites(s) PROVE TypeOK'
    <2>0. wrote[s] < MaxOut /\ piped[s] < PipeCap
      BY <1>11, Zenon DEF ChildWrites
    <2>1. wrote[s] + 1 \in 0 .. MaxOut /\ piped[s] + 1 \in 0 .. PipeCap
      BY <2>0, Bounds, Capacities
    <2>2. /\ wrote' = [wrote EXCEPT ![s] = wrote[s] + 1]
          /\ piped' = [piped EXCEPT ![s] = piped[s] + 1]
      BY <1>11 DEF ChildWrites
    <2>3. wrote' \in [Streams -> 0 .. MaxOut] /\ piped' \in [Streams -> 0 .. PipeCap]
      BY <2>1, <2>2
    <2> QED
      BY <1>11, <2>3 DEF ChildWrites
  <1>12. ASSUME NEW c \in Cmds, FeederReceives(c) PROVE TypeOK'
    <2>1. Head(in) \in 1 .. MaxLines /\ in' \in Seq(1 .. MaxLines) /\ Len(in') <= InCap
      BY <1>12 DEF FeederReceives
    <2> QED
      BY <1>12, <2>1, SMTT(20) DEF FeederReceives
  <1>13. ASSUME NEW c \in Cmds, FeederWrites(c) PROVE TypeOK'
    <2>1. held[c] # 0
      BY <1>13 DEF FeederWrites, FeedersInv
    <2>2. Append(stdin[c], held[c]) \in Seq(1 .. MaxLines)
      BY <2>1
    <2>3. stdin' \in [Cmds -> Seq(1 .. MaxLines)]
      BY <1>13, <2>2 DEF FeederWrites
    <2>4. held' \in [Cmds -> 0 .. MaxLines] /\ feeder' \in [Cmds -> FeederStates]
      BY <1>13 DEF FeederWrites, WriteReturns
    <2> QED
      BY <1>13, <2>3, <2>4, SMTT(20) DEF FeederWrites
  <1>14. ASSUME NEW c \in Cmds, FeederFails(c) PROVE TypeOK'
    BY <1>14 DEF FeederFails, WriteReturns
  <1>15. ASSUME NEW c \in Cmds, FeederStops(c) PROVE TypeOK'
    BY <1>15 DEF FeederStops
  <1>16. ASSUME NEW c \in Cmds, NEW s \in Streams, PumpReads(c, s) PROVE TypeOK'
    <2>1. piped[s] - 1 \in 0 .. PipeCap
      BY <1>16 DEF PumpReads
    <2>2. pump' \in [Cmds -> [Streams -> PumpStates]]
      BY <1>16 DEF PumpReads, At
    <2> QED
      BY <1>16, <2>1, <2>2 DEF PumpReads
  <1>17. ASSUME NEW c \in Cmds, NEW s \in Streams, PumpWrites(c, s) PROVE TypeOK'
    <2>1. Output(c, s) \in Pieces
      BY DEF Output, Pieces
    <2>2. log' \in Seq(Pieces)
      BY <1>17, <2>1 DEF PumpWrites
    <2>3. pump' \in [Cmds -> [Streams -> PumpStates]]
      BY <1>17 DEF PumpWrites, At
    <2> QED
      BY <1>17, <2>2, <2>3 DEF PumpWrites
  <1>18. ASSUME NEW c \in Cmds, NEW s \in Streams, PumpEnds(c, s) PROVE TypeOK'
    <2>1. pump' \in [Cmds -> [Streams -> PumpStates]]
      BY <1>18 DEF PumpEnds, At
    <2> QED
      BY <1>18, <2>1 DEF PumpEnds
  <1>19. CASE AgentStops
    BY <1>19 DEF AgentStops
  <1>20. CASE UNCHANGED vars
    BY <1>20 DEF vars
  <1> QED
    BY <1>1, <1>2, <1>3, <1>4, <1>5, <1>6, <1>7, <1>8, <1>9, <1>10, <1>11, <1>12,
       <1>13, <1>14, <1>15, <1>16, <1>17, <1>18, <1>19, <1>20
    DEF Next, Agent, Feeder, Pump

-----------------------------------------------------------------------------
(* Output. *)

LEMMA PumpsNext == TypeOK /\ PumpsInv /\ [Next]_vars => PumpsInv'
  <1> SUFFICES ASSUME TypeOK, PumpsInv, [Next]_vars PROVE PumpsInv'
    OBVIOUS
  <1> USE DEF TypeOK, PumpsInv, PhaseStates, inputVars, outputVars
  <1>1. CASE ExecCommand
    BY <1>1 DEF ExecCommand
  <1>2. CASE Start \/ StartFails \/ Wait
    BY <1>2 DEF Start, StartFails, Wait
  <1>3. CASE Join
    BY <1>3 DEF Join
  <1>4. ASSUME NEW c \in Cmds, NEW s \in Streams, Pump(c, s) PROVE PumpsInv'
    BY <1>4 DEF Pump, PumpReads, PumpWrites, PumpEnds, At, PumpStates
  <1>5. CASE UNCHANGED <<phase, execs, pump>>
    BY <1>5
  <1>6. CASE AgentStops
    BY <1>6 DEF AgentStops
  <1> QED
    BY <1>1, <1>2, <1>3, <1>4, <1>5, <1>6
    DEF Next, vars, Agent, WriteIn, ChildReads, ChildExits, ChildKilled, BackgroundExits,
        ChildWrites, Feeder, FeederReceives, FeederWrites, FeederFails, FeederStops

LEMMA PipesNext == TypeOK /\ PipesInv /\ [Next]_vars => PipesInv'
  <1> SUFFICES ASSUME TypeOK, PipesInv, [Next]_vars PROVE PipesInv'
    OBVIOUS
  <1> USE DEF TypeOK, PipesInv, PhaseStates, inputVars, outputVars
  <1>1. CASE ExecCommand
    BY <1>1 DEF ExecCommand, Cmds
  <1>2. CASE Start \/ StartFails \/ Wait
    BY <1>2 DEF Start, StartFails, Wait, ClosePipes
  <1>3. CASE Join \/ AgentStops
    BY <1>3 DEF Join, AgentStops
  <1>4. ASSUME NEW s \in Streams, ChildWrites(s) PROVE PipesInv'
    BY <1>4 DEF ChildWrites, PipesInUse
  <1>5. ASSUME NEW c \in Cmds, NEW s \in Streams, Pump(c, s) PROVE PipesInv'
    <2>1. CASE PumpReads(c, s)
      BY <2>1 DEF PumpReads
    <2>2. CASE PumpWrites(c, s) \/ PumpEnds(c, s)
      <3>1. UNCHANGED <<phase, execs, child, open, piped, cut>>
        BY <2>2 DEF PumpWrites, PumpEnds
      <3> QED
        BY <3>1
    <2> QED
      BY <1>5, <2>1, <2>2 DEF Pump
  <1>6. CASE ChildExits \/ ChildKilled
    BY <1>6 DEF ChildExits, ChildKilled, ChildAlive
  <1>7. CASE UNCHANGED <<phase, execs, child, open, piped, cut>>
    BY <1>7
  <1> QED
    BY <1>1, <1>2, <1>3, <1>4, <1>5, <1>6, <1>7
    DEF Next, vars, Agent, WriteIn, ChildReads, BackgroundExits,
        Feeder, FeederReceives, FeederWrites, FeederFails, FeederStops

LEMMA LogTyped == ASSUME TypeOK, NEW i \in DOMAIN log PROVE log[i].cmd \in Nat
  <1>1. log[i] \in Pieces
    BY DEF TypeOK
  <1> QED
    BY <1>1, Bounds DEF Pieces, Cmds

LEMMA LogNext == TypeOK /\ PumpsInv /\ LogInv /\ [Next]_vars => LogInv'
  <1> SUFFICES ASSUME TypeOK, PumpsInv, LogInv, [Next]_vars PROVE LogInv'
    OBVIOUS
  <1> USE DEF TypeOK, LogInv, inputVars, outputVars
  <1>1. CASE ExecCommand
    <2>1. execs \in Nat /\ execs' = execs + 1 /\ execs' \in Cmds
      BY <1>1, Bounds DEF ExecCommand, Cmds
    <2>2. Prompt(execs') \in Pieces /\ Prompt(execs').cmd = execs'
      BY <2>1 DEF Prompt, Pieces
    <2>3. \A i \in DOMAIN log : log[i].cmd \in Nat
      BY LogTyped
    <2>4. log' = Append(log, Prompt(execs'))
      BY <1>1 DEF ExecCommand
    <2>5. \A i \in DOMAIN log : log[i].cmd <= execs'
      BY <2>1, <2>3
    <2> HIDE DEF TypeOK
    <2>6. log \in Seq(Pieces)
      BY DEF TypeOK
    <2> QED
      BY <2>1, <2>2, <2>4, <2>5, <2>6
  <1>2. ASSUME NEW c \in Cmds, NEW s \in Streams, PumpWrites(c, s) PROVE LogInv'
    <2>1. c = execs
      BY <1>2 DEF PumpWrites, PumpsInv
    <2>2. Output(c, s) \in Pieces /\ Output(c, s).cmd = execs
      BY <2>1 DEF Output, Pieces
    <2>3. execs \in Nat
      BY DEF Cmds
    <2> QED
      BY <1>2, <2>2, <2>3 DEF PumpWrites
  <1>3. CASE UNCHANGED <<execs, log>>
    BY <1>3
  <1> QED
    BY <1>1, <1>2, <1>3
    DEF Next, vars, Agent, WriteIn, Start, StartFails, Wait, Join, AgentStops,
        ChildReads, ChildExits, ChildKilled, BackgroundExits, ChildWrites,
        Feeder, FeederReceives, FeederWrites, FeederFails, FeederStops,
        Pump, PumpReads, PumpEnds

(* A piece at the end of the log keeps the order if it is of the last      *)
(* command there, and opens a new one's part if it is a "$" line.          *)
LEMMA OrderOfAppend ==
  ASSUME log \in Seq(Pieces), CommandsInOrder, NEW p \in Pieces,
         \A i \in DOMAIN log :
           log[i].cmd <= p.cmd /\ (p.from = "prompt" => log[i].cmd < p.cmd),
         log' = Append(log, p)
  PROVE  CommandsInOrder'
  BY DEF CommandsInOrder, Pieces, Cmds

LEMMA CommandsNext ==
  TypeOK /\ PumpsInv /\ LogInv /\ CommandsInOrder /\ [Next]_vars => CommandsInOrder'
  <1> SUFFICES ASSUME TypeOK, PumpsInv, LogInv, CommandsInOrder, [Next]_vars
               PROVE CommandsInOrder'
    OBVIOUS
  <1> USE DEF TypeOK, LogInv, inputVars, outputVars
  <1>1. CASE ExecCommand
    <2>1. execs \in Nat /\ execs' = execs + 1 /\ execs' \in Cmds
      BY <1>1, Bounds DEF ExecCommand, Cmds
    <2>2. Prompt(execs') \in Pieces /\ Prompt(execs').cmd = execs'
      BY <2>1 DEF Prompt, Pieces
    <2>3. \A i \in DOMAIN log : log[i].cmd \in Nat
      BY LogTyped
    <2>4. log' = Append(log, Prompt(execs'))
      BY <1>1 DEF ExecCommand
    <2>5. \A i \in DOMAIN log : log[i].cmd <= execs' /\ log[i].cmd < execs'
      BY <2>1, <2>3
    <2> QED
      BY <2>2, <2>4, <2>5, OrderOfAppend
  <1>2. ASSUME NEW c \in Cmds, NEW s \in Streams, PumpWrites(c, s) PROVE CommandsInOrder'
    <2>1. c = execs
      BY <1>2 DEF PumpWrites, PumpsInv
    <2>2. /\ Output(c, s) \in Pieces
          /\ Output(c, s).cmd = execs
          /\ Output(c, s).from # "prompt"
      BY <2>1, NoStreamIsThePrompt DEF Output, Pieces
    <2> QED
      BY <1>2, <2>2, OrderOfAppend DEF PumpWrites
  <1>3. CASE UNCHANGED log
    BY <1>3 DEF CommandsInOrder
  <1> QED
    BY <1>1, <1>2, <1>3
    DEF Next, vars, Agent, WriteIn, Start, StartFails, Wait, Join, AgentStops,
        ChildReads, ChildExits, ChildKilled, BackgroundExits, ChildWrites,
        Feeder, FeederReceives, FeederWrites, FeederFails, FeederStops,
        Pump, PumpReads, PumpEnds

(* Counting the pieces of one stream of one command. *)
LEMMA LoggedFinite ==
  ASSUME log \in Seq(Pieces), NEW c, NEW s
  PROVE  IsFiniteSet(Logged(c, s)) /\ Cardinality(Logged(c, s)) \in Nat
  <1>1. IsFiniteSet(1 .. Len(log))
    BY FS_Interval
  <1>2. Logged(c, s) \subseteq 1 .. Len(log)
    BY DEF Logged
  <1> QED
    BY <1>1, <1>2, FS_Subset, FS_CardinalityType

LEMMA LoggedAppend ==
  ASSUME log \in Seq(Pieces), NEW p \in Pieces, NEW c, NEW s, log' = Append(log, p)
  PROVE  Cardinality(Logged(c, s)') =
           Cardinality(Logged(c, s)) + (IF p = Output(c, s) THEN 1 ELSE 0)
  <1> DEFINE n == Len(log) + 1
  <1>1. n \notin Logged(c, s) /\ Logged(c, s) \subseteq 1 .. Len(log)
    BY DEF Logged
  <1>2. CASE p = Output(c, s)
    <2>1. Logged(c, s)' = Logged(c, s) \union {n}
      BY <1>2 DEF Logged
    <2> QED
      BY <1>1, <1>2, <2>1, LoggedFinite, FS_AddElement
  <1>3. CASE p # Output(c, s)
    <2>1. Logged(c, s)' = Logged(c, s)
      BY <1>3 DEF Logged
    <2> QED
      BY <1>3, <2>1, LoggedFinite
  <1> QED
    BY <1>2, <1>3

LEMMA CountNext ==
  TypeOK /\ PumpsInv /\ PipesInv /\ LogInv /\ CountInv /\ [Next]_vars => CountInv'
  <1> SUFFICES ASSUME TypeOK, PumpsInv, PipesInv, LogInv, CountInv, [Next]_vars,
                      execs' > 0, NEW s \in Streams
               PROVE (wrote[s] = Cardinality(Logged(execs, s)) + InHand(s) + piped[s] + cut[s])'
    BY DEF CountInv
  <1> DEFINE Sum == Cardinality(Logged(execs, s)) + InHand(s) + piped[s] + cut[s]
  <1>1. log \in Seq(Pieces)
    BY DEF TypeOK
  <1>2. /\ execs \in Nat /\ wrote[s] \in Nat /\ piped[s] \in Nat /\ cut[s] \in Nat
        /\ Cardinality(Logged(execs, s)) \in Nat /\ InHand(s) \in Nat
    BY <1>1, LoggedFinite, Bounds, Capacities DEF TypeOK, InHand
  <1>3. CASE ExecCommand
    <2>1. execs' = execs + 1 /\ execs' \in Cmds
      BY <1>3, Bounds DEF ExecCommand, TypeOK, Cmds
    <2>2. Prompt(execs') \in Pieces
      BY <2>1 DEF Prompt, Pieces
    <2>3. \A i \in DOMAIN log' : log'[i] # Output(execs', s)
      <3> SUFFICES ASSUME NEW i \in DOMAIN log' PROVE log'[i] # Output(execs', s)
        OBVIOUS
      <3>1. log' = Append(log, Prompt(execs'))
        BY <1>3 DEF ExecCommand
      <3>2. CASE i = Len(log) + 1
        BY <1>1, <2>2, <3>1, <3>2, NoStreamIsThePrompt DEF Prompt, Output
      <3>3. CASE i \in DOMAIN log
        <4>1. log'[i] = log[i]
          BY <1>1, <2>2, <3>1, <3>3
        <4>2. log[i].cmd <= execs /\ log[i].cmd \in Nat
          BY <3>3, LogTyped DEF LogInv
        <4> QED
          BY <1>2, <2>1, <4>1, <4>2 DEF Output
      <3> QED
        BY <1>1, <2>2, <3>1, <3>2, <3>3
    <2>4. Logged(execs, s)' = {}
      BY <2>3 DEF Logged
    <2>5. InHand(s)' = 0
      BY <1>3, <2>1 DEF ExecCommand, InHand, TypeOK
    <2>6. Cardinality(Logged(execs, s)') = 0
      BY <2>4, FS_EmptySet
    <2>7. wrote'[s] = 0 /\ piped'[s] = 0 /\ cut'[s] = 0
      BY <1>3 DEF ExecCommand
    <2> QED
      BY <2>5, <2>6, <2>7
  <1>4. CASE ~ExecCommand
    <2>1. execs' = execs
      BY <1>4 DEF Next, vars, Agent, WriteIn, Start, StartFails, Wait, Join, AgentStops,
           ChildReads, ChildExits, ChildKilled, BackgroundExits, ChildWrites, inputVars,
           Feeder, FeederReceives, FeederWrites, FeederFails, FeederStops, outputVars,
           Pump, PumpReads, PumpEnds, PumpWrites
    <2>2. execs > 0 /\ wrote[s] = Sum
      BY <2>1 DEF CountInv
    <2> USE <2>1, <2>2
    <2>3. execs \in Cmds
      BY Bounds DEF TypeOK, Cmds
    <2>4. CASE StartFails \/ Wait
      <3>1. cut[s] = 0 /\ cut'[s] = piped[s] /\ piped'[s] = 0
        BY <2>4 DEF StartFails, Wait, ClosePipes, PipesInv
      <3>2. UNCHANGED <<wrote, log, pump>>
        BY <2>4 DEF StartFails, Wait
      <3> QED
        BY <1>2, <3>1, <3>2 DEF Logged, InHand
    <2>5. ASSUME NEW t \in Streams, ChildWrites(t) PROVE (wrote[s] = Sum)'
      <3>1. UNCHANGED <<log, pump, cut>>
        BY <2>5 DEF ChildWrites
      <3>2. /\ wrote'[s] = wrote[s] + (IF s = t THEN 1 ELSE 0)
            /\ piped'[s] = piped[s] + (IF s = t THEN 1 ELSE 0)
        BY <2>5 DEF ChildWrites, TypeOK
      <3> QED
        BY <1>2, <3>1, <3>2 DEF Logged, InHand
    <2>6. ASSUME NEW c \in Cmds, NEW t \in Streams, PumpReads(c, t) PROVE (wrote[s] = Sum)'
      <3>1. UNCHANGED <<log, wrote, cut>> /\ c = execs
        BY <2>6 DEF PumpReads
      <3>2. /\ InHand(s)' = InHand(s) + (IF s = t THEN 1 ELSE 0)
            /\ piped'[s] = piped[s] - (IF s = t THEN 1 ELSE 0)
        BY <2>3, <2>6, <3>1 DEF PumpReads, At, TypeOK, InHand
      <3> QED
        BY <1>2, <3>1, <3>2 DEF Logged
    <2>7. ASSUME NEW c \in Cmds, NEW t \in Streams, PumpWrites(c, t) PROVE (wrote[s] = Sum)'
      <3>1. UNCHANGED <<wrote, piped, cut>> /\ c = execs
        BY <2>7 DEF PumpWrites, PumpsInv
      <3>2. InHand(s)' = InHand(s) - (IF s = t THEN 1 ELSE 0)
        BY <2>3, <2>7, <3>1 DEF PumpWrites, At, TypeOK, InHand
      <3>3. Output(c, t) \in Pieces
        BY DEF Output, Pieces
      <3>4. Cardinality(Logged(execs, s)') =
              Cardinality(Logged(execs, s)) + (IF s = t THEN 1 ELSE 0)
        BY <1>1, <2>7, <3>1, <3>3, LoggedAppend DEF PumpWrites, Output
      <3> QED
        BY <1>2, <3>1, <3>2, <3>4
    <2>8. ASSUME NEW c \in Cmds, NEW t \in Streams, PumpEnds(c, t) PROVE (wrote[s] = Sum)'
      <3>1. UNCHANGED <<log, wrote, piped, cut>>
        BY <2>8 DEF PumpEnds
      <3>2. InHand(s)' = InHand(s)
        BY <2>3, <2>8 DEF PumpEnds, At, TypeOK, InHand
      <3> QED
        BY <3>1, <3>2 DEF Logged
    <2>9. CASE UNCHANGED <<log, pump, wrote, piped, cut>>
      BY <2>9 DEF Logged, InHand
    <2> QED
      BY <1>4, <2>4, <2>5, <2>6, <2>7, <2>8, <2>9
      DEF Next, vars, Agent, WriteIn, Start, Join, AgentStops, outputVars,
          ChildReads, ChildExits, ChildKilled, BackgroundExits,
          Feeder, FeederReceives, FeederWrites, FeederFails, FeederStops, Pump
  <1> QED
    BY <1>3, <1>4

-----------------------------------------------------------------------------
(* Input. *)

(* The queue's head and what is behind it. *)
LEMMA HeadTyped ==
  ASSUME TypeOK, in # <<>>
  PROVE  /\ Len(in) \in Nat \ {0}
         /\ Head(in) = in[1] /\ Head(in) \in 1 .. MaxLines /\ Head(in) # 0
         /\ Tail(in) \in Seq(1 .. MaxLines) /\ Len(Tail(in)) = Len(in) - 1
         /\ \A j \in DOMAIN Tail(in) : j + 1 \in DOMAIN in /\ Tail(in)[j] = in[j + 1]
  <1>1. in \in Seq(1 .. MaxLines)
    BY DEF TypeOK
  <1>2. Len(in) \in Nat \ {0}
    BY <1>1, EmptySeq
  <1>3. /\ Head(in) \in 1 .. MaxLines
        /\ Tail(in) \in Seq(1 .. MaxLines)
        /\ Len(Tail(in)) = Len(in) - 1
        /\ \A i \in 1 .. Len(Tail(in)) : Tail(in)[i] = in[i + 1]
    BY <1>1, HeadTailProperties
  <1>4. Head(in) = in[1]
    BY <1>1
  <1> QED
    BY <1>1, <1>2, <1>3, <1>4, Bounds

LEMMA FeedersNext == TypeOK /\ FeedersInv /\ [Next]_vars => FeedersInv'
  <1> SUFFICES ASSUME TypeOK, FeedersInv, [Next]_vars PROVE FeedersInv'
    OBVIOUS
  <1> USE DEF TypeOK, FeedersInv, outputVars
  <1>0. \A c \in Cmds : c \in Nat /\ execs \in Nat
    BY Bounds DEF Cmds
  <1>1. CASE ExecCommand
    BY <1>0, <1>1, SMTT(20) DEF ExecCommand
  <1>2. ASSUME NEW c \in Cmds, FeederReceives(c) PROVE FeedersInv'
    <2>1. Head(in) # 0
      BY <1>2, HeadTyped DEF FeederReceives
    <2> QED
      BY <1>2, <2>1 DEF FeederReceives
  <1>3. ASSUME NEW c \in Cmds, FeederWrites(c) PROVE FeedersInv'
    BY <1>0, <1>3 DEF FeederWrites, WriteReturns
  <1>4. ASSUME NEW c \in Cmds, FeederFails(c) PROVE FeedersInv'
    BY <1>4 DEF FeederFails, WriteReturns
  <1>5. ASSUME NEW c \in Cmds, FeederStops(c) PROVE FeedersInv'
    BY <1>5 DEF FeederStops
  <1>6. CASE UNCHANGED <<execs, feeder, held, stdin>>
    BY <1>6
  <1> QED
    BY <1>1, <1>2, <1>3, <1>4, <1>5, <1>6
    DEF Next, vars, Agent, WriteIn, Start, StartFails, Wait, Join, AgentStops, inputVars,
        ChildReads, ChildExits, ChildKilled, BackgroundExits, ChildWrites,
        Feeder, Pump, PumpReads, PumpEnds, PumpWrites

LEMMA AscendingAppend ==
  ASSUME NEW s \in Seq(Nat), NEW x \in Nat, Ascending(s), \A i \in DOMAIN s : s[i] < x
  PROVE  Ascending(Append(s, x))
  BY DEF Ascending

(* The numbers that OrderInv and ApartInv speak of are natural numbers. *)
LEMMA LinesAreNumbers ==
  ASSUME TypeOK
  PROVE  /\ in \in Seq(Nat) /\ written \in Nat
         /\ \A j \in DOMAIN in : in[j] \in Nat \ {0}
         /\ \A c \in Cmds : held[c] \in Nat /\ stdin[c] \in Seq(Nat)
         /\ \A c \in Cmds : \A i \in DOMAIN stdin[c] : stdin[c][i] \in Nat \ {0}
  <1>1. ASSUME NEW s \in Seq(1 .. MaxLines)
        PROVE  s \in Seq(Nat) /\ \A i \in DOMAIN s : s[i] \in Nat \ {0}
    <2>1. DOMAIN s = 1 .. Len(s)
      BY <1>1
    <2>2. \A i \in DOMAIN s : s[i] \in Nat \ {0}
      BY <1>1, <2>1, ElementOfSeq, Bounds
    <2>3. s \in Seq(Nat)
      BY <1>1, <2>2, SeqMonotonic
    <2> QED
      BY <2>2, <2>3
  <1>2. in \in Seq(Nat) /\ written \in Nat /\ \A j \in DOMAIN in : in[j] \in Nat \ {0}
    BY <1>1, Bounds DEF TypeOK
  <1>3. ASSUME NEW c \in Cmds
        PROVE  /\ held[c] \in Nat /\ stdin[c] \in Seq(Nat)
               /\ \A i \in DOMAIN stdin[c] : stdin[c][i] \in Nat \ {0}
    <2>1. held[c] \in 0 .. MaxLines /\ stdin[c] \in Seq(1 .. MaxLines)
      BY <1>3 DEF TypeOK
    <2> QED
      BY <1>1, <2>1, Bounds
  <1> QED
    BY <1>2, <1>3

LEMMA OrderNext == TypeOK /\ FeedersInv /\ OrderInv /\ [Next]_vars => OrderInv'
  <1> SUFFICES ASSUME TypeOK, FeedersInv, OrderInv, [Next]_vars PROVE OrderInv'
    OBVIOUS
  <1> USE LinesAreNumbers
  <1>1. CASE WriteIn
    <2>1. written' = written + 1 /\ UNCHANGED <<held, stdin>>
      BY <1>1 DEF WriteIn
    <2>2. CASE in' = Append(in, written')
      <3>1. Ascending(in')
        BY <2>1, <2>2, AscendingAppend DEF OrderInv
      <3>2. \A j \in DOMAIN in' : in'[j] = written' \/ (j \in DOMAIN in /\ in'[j] = in[j])
        BY <2>1, <2>2
      <3>3. \A j \in DOMAIN in' : in'[j] <= written'
        BY <2>1, <3>2 DEF OrderInv
      <3>4. \A c \in Cmds : held[c] <= written' /\ \A j \in DOMAIN in' : held[c] < in'[j]
        BY <2>1, <3>2 DEF OrderInv
      <3>5. \A c \in Cmds : \A i \in DOMAIN stdin[c] :
              stdin[c][i] <= written' /\ \A j \in DOMAIN in' : stdin[c][i] < in'[j]
        <4> SUFFICES ASSUME NEW c \in Cmds, NEW i \in DOMAIN stdin[c]
                     PROVE stdin[c][i] <= written' /\ \A j \in DOMAIN in' : stdin[c][i] < in'[j]
          OBVIOUS
        <4>1. stdin[c][i] \in Nat /\ stdin[c][i] <= written
                /\ \A j \in DOMAIN in : stdin[c][i] < in[j]
          BY DEF OrderInv
        <4>2. written \in Nat /\ written' = written + 1
          BY <2>1
        <4> QED
          BY <3>2, <4>1, <4>2, SMTT(20)
      <3> QED
        BY <2>1, <3>1, <3>3, <3>4, <3>5 DEF OrderInv
    <2>3. CASE UNCHANGED in
      BY <2>1, <2>3 DEF OrderInv
    <2> QED
      BY <1>1, <2>2, <2>3 DEF WriteIn
  <1>2. ASSUME NEW c \in Cmds, FeederReceives(c) PROVE OrderInv'
    <2>1. /\ in # <<>> /\ in' = Tail(in) /\ UNCHANGED <<written, stdin>>
          /\ held' = [held EXCEPT ![c] = Head(in)]
      BY <1>2 DEF FeederReceives
    <2>2. /\ Head(in) = in[1] /\ 1 \in DOMAIN in /\ in[1] # 0
          /\ Len(in') = Len(in) - 1
          /\ \A j \in DOMAIN in' : j + 1 \in DOMAIN in /\ in'[j] = in[j + 1] /\ j \in Nat \ {0}
      BY <2>1, HeadTyped
    <2>3. Ascending(in') /\ \A j \in DOMAIN in' : in'[j] <= written' /\ in[1] < in'[j]
      <3>1. ASSUME NEW i \in DOMAIN in', NEW j \in DOMAIN in', i < j PROVE in'[i] < in'[j]
        <4>1. i + 1 \in DOMAIN in /\ j + 1 \in DOMAIN in /\ i + 1 < j + 1
          BY <2>2, <3>1
        <4>2. in[i + 1] < in[j + 1]
          BY <4>1 DEF OrderInv, Ascending
        <4> QED
          BY <2>2, <4>2
      <3>2. ASSUME NEW j \in DOMAIN in' PROVE in'[j] <= written' /\ in[1] < in'[j]
        <4>1. j + 1 \in DOMAIN in /\ 1 < j + 1
          BY <2>2, <3>2
        <4> QED
          BY <2>1, <2>2, <4>1 DEF OrderInv, Ascending
      <3> QED
        BY <3>1, <3>2 DEF Ascending
    <2>4. \A d \in Cmds : held'[d] = held[d] \/ (d = c /\ held'[d] = in[1])
      BY <2>1, <2>2 DEF TypeOK
    <2>5. \A d \in Cmds : held'[d] <= written' /\ \A j \in DOMAIN in' : held'[d] < in'[j]
      BY <2>1, <2>2, <2>3, <2>4 DEF OrderInv
    <2>6. \A d \in Cmds : \A i \in DOMAIN stdin[d] :
            /\ held'[d] # 0 => stdin[d][i] < held'[d]
            /\ \A j \in DOMAIN in' : stdin[d][i] < in'[j]
      BY <2>2, <2>4, SMTT(20) DEF OrderInv
    <2> QED
      BY <2>1, <2>3, <2>5, <2>6 DEF OrderInv
  <1>3. ASSUME NEW c \in Cmds, FeederWrites(c) PROVE OrderInv'
    <2>1. /\ UNCHANGED <<in, written>> /\ feeder[c] = "writing"
          /\ stdin' = [stdin EXCEPT ![c] = Append(stdin[c], held[c])]
          /\ held' = [held EXCEPT ![c] = 0]
      BY <1>3 DEF FeederWrites, WriteReturns
    <2>2. held[c] # 0
      BY <2>1 DEF FeedersInv
    <2>3. stdin'[c] = Append(stdin[c], held[c]) /\ held'[c] = 0
      BY <2>1 DEF TypeOK
    <2>4. Ascending(stdin'[c])
      BY <2>2, <2>3, AscendingAppend DEF OrderInv
    <2>5. \A i \in DOMAIN stdin'[c] :
            stdin'[c][i] = held[c] \/ (i \in DOMAIN stdin[c] /\ stdin'[c][i] = stdin[c][i])
      BY <2>3
    <2>6. \A i \in DOMAIN stdin'[c] :
            stdin'[c][i] <= written' /\ \A j \in DOMAIN in' : stdin'[c][i] < in'[j]
      BY <2>1, <2>5 DEF OrderInv
    <2>7. \A d \in Cmds : d # c => stdin'[d] = stdin[d] /\ held'[d] = held[d]
      BY <2>1 DEF TypeOK
    <2>8. \A j \in DOMAIN in' : 0 < in'[j]
      BY <2>1
    <2> QED
      BY <2>1, <2>3, <2>4, <2>6, <2>7, <2>8 DEF OrderInv
  <1>4. ASSUME NEW c \in Cmds, FeederFails(c) PROVE OrderInv'
    <2>1. /\ UNCHANGED <<in, written, stdin>>
          /\ held' = [held EXCEPT ![c] = 0]
      BY <1>4 DEF FeederFails, WriteReturns
    <2>2. \A d \in Cmds : held'[d] = held[d] \/ held'[d] = 0
      BY <2>1 DEF TypeOK
    <2> QED
      BY <2>1, <2>2 DEF OrderInv
  <1>5. CASE UNCHANGED <<in, written, held, stdin>>
    BY <1>5 DEF OrderInv
  <1> QED
    BY <1>1, <1>2, <1>3, <1>4, <1>5
    DEF Next, vars, Agent, ExecCommand, Start, StartFails, Wait, Join, AgentStops,
        inputVars, ChildReads, ChildExits, ChildKilled, BackgroundExits, ChildWrites,
        Feeder, FeederStops, Pump, PumpReads, PumpEnds, PumpWrites

LEMMA ApartNext ==
  TypeOK /\ FeedersInv /\ OrderInv /\ ApartInv /\ [Next]_vars => ApartInv'
  <1> SUFFICES ASSUME TypeOK, FeedersInv, OrderInv, ApartInv, [Next]_vars PROVE ApartInv'
    OBVIOUS
  <1> USE LinesAreNumbers
  <1>1. ASSUME NEW c \in Cmds, FeederReceives(c) PROVE ApartInv'
    <2>1. /\ in # <<>> /\ UNCHANGED stdin
          /\ held' = [held EXCEPT ![c] = Head(in)]
      BY <1>1 DEF FeederReceives
    <2>2. Head(in) = in[1] /\ 1 \in DOMAIN in
      BY <2>1, HeadTyped
    <2>3. held'[c] = in[1] /\ \A d \in Cmds : d # c => held'[d] = held[d]
      BY <2>1, <2>2 DEF TypeOK
    <2>4. \A d \in Cmds : held[d] # in[1] /\ \A i \in DOMAIN stdin[d] : stdin[d][i] # in[1]
      BY <2>2 DEF OrderInv
    <2> QED
      BY <2>1, <2>3, <2>4 DEF ApartInv
  <1>2. ASSUME NEW c \in Cmds, FeederWrites(c) PROVE ApartInv'
    <2>1. /\ feeder[c] = "writing"
          /\ stdin' = [stdin EXCEPT ![c] = Append(stdin[c], held[c])]
          /\ held' = [held EXCEPT ![c] = 0]
      BY <1>2 DEF FeederWrites, WriteReturns
    <2>2. held[c] # 0
      BY <2>1 DEF FeedersInv
    <2>3. /\ stdin'[c] = Append(stdin[c], held[c]) /\ held'[c] = 0
          /\ \A d \in Cmds : d # c => stdin'[d] = stdin[d] /\ held'[d] = held[d]
      BY <2>1 DEF TypeOK
    <2>4. \A i \in DOMAIN stdin'[c] :
            stdin'[c][i] = held[c] \/ (i \in DOMAIN stdin[c] /\ stdin'[c][i] = stdin[c][i])
      BY <2>3
    <2>5. \A i \in DOMAIN stdin'[c] : stdin'[c][i] # 0
      BY <2>2, <2>4
    <2>6. ASSUME NEW d \in Cmds, d # c
          PROVE  /\ \A i \in DOMAIN stdin'[c], j \in DOMAIN stdin'[d] :
                       stdin'[c][i] # stdin'[d][j]
                 /\ \A i \in DOMAIN stdin'[c] : stdin'[c][i] # held'[d]
                 /\ \A i \in DOMAIN stdin'[d] : stdin'[d][i] # held'[c]
      <3>1. stdin'[d] = stdin[d] /\ held'[d] = held[d] /\ held'[c] = 0
        BY <2>3, <2>6
      <3> QED
        BY <2>2, <2>4, <2>6, <3>1, SMTT(20) DEF ApartInv
    <2>7. ASSUME NEW d \in Cmds, NEW e \in Cmds, d # e, d # c, e # c
          PROVE  /\ \A i \in DOMAIN stdin'[d], j \in DOMAIN stdin'[e] :
                       stdin'[d][i] # stdin'[e][j]
                 /\ \A i \in DOMAIN stdin'[d] : stdin'[d][i] # held'[e]
                 /\ held'[d] # 0 => held'[d] # held'[e]
      BY <2>3, <2>7, SMTT(20) DEF ApartInv
    <2>8. \A d \in Cmds : held'[d] # 0 => held'[d] # held'[c]
      BY <2>3
    <2>9. ASSUME NEW d \in Cmds, NEW e \in Cmds, d # e
          PROVE  /\ \A i \in DOMAIN stdin'[d], j \in DOMAIN stdin'[e] :
                       stdin'[d][i] # stdin'[e][j]
                 /\ \A i \in DOMAIN stdin'[d] : stdin'[d][i] # held'[e]
                 /\ held'[d] # 0 => held'[d] # held'[e]
      <3>1. CASE d = c
        <4>1. e # c /\ held'[c] = 0
          BY <2>3, <2>9, <3>1
        <4> QED
          BY <2>6, <3>1, <4>1, Zenon
      <3>2. CASE e = c
        BY <2>6, <2>8, <2>9, <3>2
      <3> QED
        BY <2>7, <2>9, <3>1, <3>2
    <2> QED
      BY <2>9 DEF ApartInv
  <1>3. ASSUME NEW c \in Cmds, FeederFails(c) PROVE ApartInv'
    <2>1. UNCHANGED stdin /\ held' = [held EXCEPT ![c] = 0]
      BY <1>3 DEF FeederFails, WriteReturns
    <2>2. \A d \in Cmds : held'[d] = IF d = c THEN 0 ELSE held[d]
      BY <2>1 DEF TypeOK
    <2> QED
      BY <2>1, <2>2 DEF ApartInv
  <1>4. CASE UNCHANGED <<held, stdin>>
    BY <1>4 DEF ApartInv
  <1> QED
    BY <1>1, <1>2, <1>3, <1>4
    DEF Next, vars, Agent, WriteIn, ExecCommand, Start, StartFails, Wait, Join, AgentStops,
        inputVars, ChildReads, ChildExits, ChildKilled, BackgroundExits, ChildWrites,
        Feeder, FeederStops, Pump, PumpReads, PumpEnds, PumpWrites

LEMMA ConcatAppend ==
  ASSUME NEW S, NEW s \in Seq(S), NEW t \in Seq(S), NEW x \in S
  PROVE  s \o Append(t, x) = Append(s \o t, x)
  <1>1. s \o t \in Seq(S) /\ <<x>> \in Seq(S)
    BY ConcatProperties
  <1>2. Append(t, x) = t \o <<x>> /\ Append(s \o t, x) = (s \o t) \o <<x>>
    BY <1>1, AppendIsConcat
  <1> QED
    BY <1>1, <1>2, ConcatAssociative

LEMMA HeadBeforeTail ==
  ASSUME NEW S, NEW s \in Seq(S), s # <<>>
  PROVE  <<Head(s)>> \o Tail(s) = s
  <1>1. /\ Head(s) \in S /\ Tail(s) \in Seq(S) /\ Len(Tail(s)) = Len(s) - 1
        /\ \A i \in 1 .. Len(Tail(s)) : Tail(s)[i] = s[i + 1]
    BY HeadTailProperties
  <1>2. <<Head(s)>> \in Seq(S) /\ Len(<<Head(s)>>) = 1 /\ <<Head(s)>>[1] = s[1]
    BY <1>1
  <1>3. /\ <<Head(s)>> \o Tail(s) \in Seq(S)
        /\ Len(<<Head(s)>> \o Tail(s)) = Len(s)
        /\ \A i \in 1 .. Len(s) : (<<Head(s)>> \o Tail(s))[i] = s[i]
    BY <1>1, <1>2, ConcatProperties
  <1> QED
    BY <1>3, SeqEqual

(* The first command's pipe does not come back into use. *)
LEMMA OwnerKeepsPipe ==
  ASSUME TypeOK, PipesInv, [Next]_vars, execs' = 1, execs = 1, stdinOpen', PipesInUse'
  PROVE  stdinOpen /\ PipesInUse
  <1>1. ~ExecCommand
    BY DEF ExecCommand
  <1>2. CASE Start \/ StartFails \/ Wait \/ Join \/ AgentStops
    BY <1>2 DEF Start, StartFails, Wait, Join, AgentStops, ClosePipes, PipesInUse, PipesInv,
       outputVars, inputVars
  <1>3. CASE ChildExits \/ ChildKilled \/ BackgroundExits
    BY <1>3 DEF ChildExits, ChildKilled, BackgroundExits, PipesInUse, ChildAlive,
       outputVars, inputVars
  <1>4. ASSUME NEW c \in Cmds, FeederStops(c) PROVE stdinOpen /\ PipesInUse
    BY <1>4 DEF FeederStops, PipesInUse, ChildAlive, outputVars
  <1>5. CASE UNCHANGED <<open, child, background, stdinOpen>>
    BY <1>5 DEF PipesInUse, ChildAlive
  <1> QED
    BY <1>1, <1>2, <1>3, <1>4, <1>5
    DEF Next, vars, Agent, WriteIn, ChildReads, ChildWrites, outputVars, inputVars,
        Feeder, FeederReceives, FeederWrites, FeederFails, Pump, PumpReads, PumpEnds, PumpWrites

LEMMA OwnerNext ==
  ASSUME TypeOK, FeedersInv, PipesInv, QueueInv, FirstCommandOwnsInput, [Next]_vars
  PROVE  QueueInv' /\ FirstCommandOwnsInput'
  <1>1. /\ in \in Seq(1 .. MaxLines)
        /\ \A c \in Cmds : c \in Nat \ {0} /\ stdin[c] \in Seq(1 .. MaxLines)
        /\ execs \in Nat
    BY Bounds DEF TypeOK, Cmds
  <1>2. CASE ExecCommand
    <2>1. execs' = execs + 1 /\ execs' \in Cmds /\ UNCHANGED <<in, accepted, held, stdin>>
      BY <1>2, Bounds DEF ExecCommand, TypeOK, Cmds
    <2>2. QueueInv'
      BY <1>1, <2>1 DEF QueueInv
    <2>3. ASSUME execs' = 1 PROVE stdin[1] \o Held(1) \o in = accepted
      <3>1. execs = 0 /\ in = accepted /\ 1 \in Cmds
        BY <1>1, <2>1, <2>3 DEF QueueInv
      <3>2. stdin[1] = <<>> /\ held[1] = 0
        BY <3>1 DEF FeedersInv
      <3> QED
        BY <1>1, <3>1, <3>2, ConcatEmptySeq DEF Held
    <2> QED
      BY <2>1, <2>2, <2>3 DEF FirstCommandOwnsInput, Held
  <1>3. CASE ~ExecCommand
    <2>1. execs' = execs
      BY <1>3 DEF Next, vars, Agent, WriteIn, Start, StartFails, Wait, Join, AgentStops,
         ChildReads, ChildExits, ChildKilled, BackgroundExits, ChildWrites, inputVars,
         Feeder, FeederReceives, FeederWrites, FeederFails, FeederStops, outputVars,
         Pump, PumpReads, PumpEnds, PumpWrites
    <2>2. QueueInv'
      <3>1. CASE WriteIn
        BY <2>1, <3>1 DEF QueueInv, WriteIn
      <3>2. ASSUME NEW c \in Cmds, FeederReceives(c) PROVE QueueInv'
        BY <1>1, <2>1, <3>2 DEF QueueInv, FeederReceives, FeedersInv
      <3>3. CASE UNCHANGED <<in, accepted>>
        BY <2>1, <3>3 DEF QueueInv
      <3> QED
        BY <1>3, <3>1, <3>2, <3>3
        DEF Next, vars, Agent, Start, StartFails, Wait, Join, AgentStops,
            ChildReads, ChildExits, ChildKilled, BackgroundExits, ChildWrites, inputVars,
            Feeder, FeederWrites, FeederFails, FeederStops,
            Pump, PumpReads, PumpEnds, PumpWrites
    <2>3. FirstCommandOwnsInput'
      <3> SUFFICES ASSUME execs' = 1, stdinOpen', PipesInUse'
                   PROVE (stdin[1] \o Held(1) \o in = accepted)'
        BY DEF FirstCommandOwnsInput
      <3>1. stdinOpen /\ PipesInUse
        BY <2>1, OwnerKeepsPipe
      <3>2. stdin[1] \o Held(1) \o in = accepted
        BY <2>1, <3>1 DEF FirstCommandOwnsInput
      <3>3. 1 \in Cmds /\ execs = 1
        BY <2>1, Bounds DEF TypeOK, Cmds
      <3>4. held[1] \in 0 .. MaxLines /\ Held(1) \in Seq(1 .. MaxLines)
        <4>1. held[1] \in 0 .. MaxLines
          BY <3>3 DEF TypeOK
        <4>2. CASE held[1] = 0
          BY <4>1, <4>2 DEF Held
        <4>3. CASE held[1] # 0
          <5>1. held[1] \in 1 .. MaxLines
            BY <4>1, <4>3, Bounds
          <5>2. <<held[1]>> \in Seq(1 .. MaxLines)
            BY <5>1
          <5> QED
            BY <4>1, <4>3, <5>2 DEF Held
        <4> QED
          BY <4>2, <4>3
      <3>5. stdin[1] \o Held(1) \in Seq(1 .. MaxLines)
        BY <1>1, <3>3, <3>4, ConcatProperties
      <3>6. CASE WriteIn
        <4>1. UNCHANGED <<held, stdin>>
          BY <3>6 DEF WriteIn
        <4>2. CASE in' = Append(in, written') /\ accepted' = Append(accepted, written')
          <5>1. written' \in 1 .. MaxLines
            BY <3>6, Bounds DEF WriteIn, TypeOK
          <5>2. stdin[1] \o Held(1) \o Append(in, written')
                  = Append(stdin[1] \o Held(1) \o in, written')
            <6>1. \A s \in Seq(1 .. MaxLines), t \in Seq(1 .. MaxLines), x \in 1 .. MaxLines :
                    s \o Append(t, x) = Append(s \o t, x)
              BY ConcatAppend
            <6> QED
              BY <1>1, <3>5, <5>1, <6>1
          <5> QED
            BY <3>2, <4>1, <4>2, <5>2 DEF Held
        <4>3. CASE UNCHANGED <<in, accepted>>
          BY <3>2, <4>1, <4>3 DEF Held
        <4> QED
          BY <3>6, <4>2, <4>3 DEF WriteIn
      <3>7. ASSUME NEW c \in Cmds, Feeder(c) \/ FeederStops(c)
            PROVE (stdin[1] \o Held(1) \o in = accepted)'
        <4>0. c # 1 => c > execs
          BY <1>1, <3>3
        <4>1. c = 1
          BY <3>7, <4>0 DEF Feeder, FeederReceives, FeederWrites, FeederFails,
             FeederStops, FeedersInv
        <4>2. CASE FeederReceives(1)
          <5>1. held[1] = 0
            BY <3>3, <4>2 DEF FeederReceives, FeedersInv
          <5>2. Head(in) # 0 /\ Head(in) \in 1 .. MaxLines /\ Tail(in) \in Seq(1 .. MaxLines)
            BY <4>2, HeadTyped DEF FeederReceives
          <5>3. /\ Held(1)' = <<Head(in)>> /\ in' = Tail(in)
                /\ UNCHANGED <<stdin, accepted>>
            BY <3>3, <4>2, <5>2 DEF FeederReceives, Held, TypeOK
          <5>4. stdin[1] \o <<Head(in)>> \o Tail(in) = stdin[1] \o in
            <6>1. <<Head(in)>> \in Seq(1 .. MaxLines)
              BY <5>2
            <6>2. <<Head(in)>> \o Tail(in) = in
              BY <1>1, <4>2, HeadBeforeTail DEF FeederReceives
            <6>3. stdin[1] \in Seq(1 .. MaxLines)
              BY <1>1, <3>3
            <6>4. \A r, s, t \in Seq(1 .. MaxLines) : (r \o s) \o t = r \o (s \o t)
              BY ConcatAssociative
            <6>5. (stdin[1] \o <<Head(in)>>) \o Tail(in) = stdin[1] \o (<<Head(in)>> \o Tail(in))
              BY <5>2, <6>1, <6>3, <6>4
            <6> QED
              BY <6>2, <6>5
          <5>5. stdin[1] \o Held(1) = stdin[1]
            BY <1>1, <3>3, <5>1, ConcatEmptySeq DEF Held
          <5> QED
            BY <3>2, <5>3, <5>4, <5>5
        <4>3. CASE FeederWrites(1)
          <5>1. held[1] # 0 /\ held[1] \in 1 .. MaxLines
            BY <3>3, <3>4, <4>3 DEF FeederWrites, FeedersInv
          <5>2. /\ stdin'[1] = Append(stdin[1], held[1]) /\ Held(1)' = <<>>
                /\ UNCHANGED <<in, accepted>>
            BY <3>3, <4>3 DEF FeederWrites, WriteReturns, Held, TypeOK
          <5>3. stdin'[1] = stdin[1] \o Held(1)
            <6>1. \A s \in Seq(1 .. MaxLines), x \in 1 .. MaxLines : Append(s, x) = s \o <<x>>
              BY AppendIsConcat
            <6> QED
              BY <1>1, <3>3, <5>1, <5>2, <6>1 DEF Held
          <5>4. stdin'[1] \o <<>> = stdin'[1]
            BY <3>5, <5>3, ConcatEmptySeq
          <5> QED
            BY <3>2, <5>2, <5>3, <5>4
        <4>4. CASE FeederFails(1)
          BY <3>1, <3>3, <4>4 DEF FeederFails, BrokenPipe
        <4>5. CASE FeederStops(1)
          BY <3>3, <4>5 DEF FeederStops
        <4> QED
          BY <3>7, <4>1, <4>2, <4>3, <4>4, <4>5 DEF Feeder
      <3>8. CASE UNCHANGED <<in, accepted, held, stdin>>
        BY <3>2, <3>8 DEF Held
      <3> QED
        BY <1>3, <3>6, <3>7, <3>8
        DEF Next, vars, Agent, Start, StartFails, Wait, Join, AgentStops,
            ChildReads, ChildExits, ChildKilled, BackgroundExits, ChildWrites, inputVars,
            Pump, PumpReads, PumpEnds, PumpWrites
    <2> QED
      BY <2>2, <2>3
  <1> QED
    BY <1>2, <1>3

-----------------------------------------------------------------------------
(* The inductive invariant holds, and what follows from it. *)

LEMMA InvInit == Init => IInv
  <1> SUFFICES ASSUME Init PROVE IInv
    OBVIOUS
  <1>1. TypeOK
    BY TypeInit
  <1>2. PumpsInv /\ PipesInv
    BY DEF Init, PumpsInv, PipesInv
  <1>3. LogInv /\ CommandsInOrder /\ CountInv
    BY DEF Init, LogInv, CommandsInOrder, CountInv
  <1>4. FeedersInv /\ ApartInv
    BY DEF Init, FeedersInv, ApartInv
  <1>5. OrderInv
    BY DEF Init, OrderInv, Ascending
  <1>6. QueueInv /\ FirstCommandOwnsInput
    BY DEF Init, QueueInv, FirstCommandOwnsInput
  <1> QED
    BY <1>1, <1>2, <1>3, <1>4, <1>5, <1>6 DEF IInv

LEMMA InvNext == IInv /\ [Next]_vars => IInv'
  BY TypeNext, PumpsNext, PipesNext, LogNext, CommandsNext, CountNext, FeedersNext,
     OrderNext, ApartNext, OwnerNext DEF IInv

LEMMA InvHolds == Spec => []IInv
  BY InvInit, InvNext, PTL DEF Spec

(* The log tells one command's output after the other's, each behind its   *)
(* "$" line, whatever the pumps of one command and the loop that starts    *)
(* the next do in between (gortns.go's execCommand).                       *)
THEOREM CommandsStayInOrder == Spec => []CommandsInOrder
  <1>1. IInv => CommandsInOrder
    BY DEF IInv
  <1> QED
    BY <1>1, InvHolds, PTL

-----------------------------------------------------------------------------
(* Refinement. *)

LEMMA CommandsInit == Init => Commands!Init
  BY DEF Init, Commands!Init, Stage

(* A step that starts nothing, ends nothing and writes nothing is no step   *)
(* of the log.                                                             *)
LEMMA CommandsStutter ==
  ASSUME phase' = phase \/ {phase, phase'} \subseteq {"start", "wait", "join"},
         UNCHANGED <<execs, log>>
  PROVE  UNCHANGED Commands!vars
  BY DEF Commands!vars, Stage

(* ExecCommand, Join, PumpWrites and AgentStops are the four steps of the   *)
(* abstract log.  That a pump writes for the last command, and only before *)
(* Join, is PumpsInv.                                                      *)
LEMMA CommandsStep ==
  TypeOK /\ PumpsInv /\ [Next]_vars => [Commands!Next]_Commands!vars
  <1> SUFFICES ASSUME TypeOK, PumpsInv, [Next]_vars
               PROVE  [Commands!Next]_Commands!vars
    OBVIOUS
  <1>1. CASE ExecCommand
    <2>1. Stage = "idle" /\ Stage' = "running"
      BY <1>1 DEF ExecCommand, Stage
    <2>2. execs < MaxCmds /\ execs' = execs + 1 /\ log' = Append(log, Prompt(execs'))
      BY <1>1 DEF ExecCommand
    <2>3. Commands!Begin
      BY <2>1, <2>2 DEF Commands!Begin, Commands!Add, Prompt
    <2> QED
      BY <2>3 DEF Commands!Next
  <1>2. CASE Join
    <2>1. Stage = "running" /\ Stage' = "idle" /\ UNCHANGED <<log, execs>>
      BY <1>2 DEF Join, Stage, outputVars
    <2> QED
      BY <2>1 DEF Commands!Next, Commands!End
  <1>3. CASE AgentStops
    <2>1. Stage = "idle" /\ Stage' = "stopped" /\ UNCHANGED <<log, execs>>
      BY <1>3 DEF AgentStops, Stage, outputVars
    <2> QED
      BY <2>1 DEF Commands!Next, Commands!Stop
  <1>4. ASSUME NEW c \in Cmds, NEW s \in Streams, PumpWrites(c, s)
        PROVE  Commands!Next
    <2>1. c = execs /\ Stage = "running"
      BY <1>4 DEF PumpWrites, PumpsInv, Stage
    <2>2. Stage' = Stage /\ execs' = execs /\ log' = Append(log, Output(c, s))
      BY <1>4 DEF PumpWrites, Stage
    <2>3. Commands!Piece(s)
      BY <2>1, <2>2 DEF Commands!Piece, Commands!Add, Output
    <2> QED
      BY <2>3 DEF Commands!Next
  <1>5. CASE Start \/ StartFails \/ Wait
    <2>1. {phase, phase'} \subseteq {"start", "wait", "join"} /\ UNCHANGED <<execs, log>>
      BY <1>5 DEF Start, StartFails, Wait, outputVars
    <2> QED
      BY <2>1, CommandsStutter
  <1>6. CASE UNCHANGED <<phase, execs, log>>
    BY <1>6, CommandsStutter
  <1> QED
    BY <1>1, <1>2, <1>3, <1>4, <1>5, <1>6
    DEF Next, vars, inputVars, outputVars, Agent, WriteIn, ChildReads, ChildExits,
        ChildKilled, BackgroundExits, ChildWrites, Feeder, FeederReceives, FeederWrites,
        FeederFails, FeederStops, Pump, PumpReads, PumpEnds

(* The commands of an agent follow one another in its log: what execCommand *)
(* and its goroutines do is one command at a time beginning, adding pieces  *)
(* of output and ending, and none after the agent's stop.                  *)
THEOREM CommandsFollow == Spec => ImplementsCommandLog
  <1>1. IInv /\ [Next]_vars => [Commands!Next]_Commands!vars
    BY CommandsStep DEF IInv
  <1> QED
    BY <1>1, InvHolds, CommandsInit, PTL DEF Spec, ImplementsCommandLog, Commands!Spec

(* When execCommand has returned, everything the command wrote is in the   *)
(* log, but for what Wait cut off in the pipe.                             *)
THEOREM OutputIsComplete == Spec => []OutputComplete
  <1>1. IInv => OutputComplete
    <2> SUFFICES ASSUME IInv, phase = "select", execs > 0, NEW s \in Streams
                 PROVE Cardinality(Logged(execs, s)) = wrote[s] - cut[s]
      BY DEF OutputComplete
    <2>1. execs \in Cmds
      BY Bounds DEF IInv, TypeOK, Cmds
    <2>2. InHand(s) = 0
      BY <2>1 DEF IInv, PumpsInv, InHand
    <2>3. piped[s] = 0
      BY DEF IInv, PipesInv
    <2>4. wrote[s] = Cardinality(Logged(execs, s)) + InHand(s) + piped[s] + cut[s]
      BY DEF IInv, CountInv
    <2>5. cut[s] \in Nat
      BY Capacities DEF IInv, TypeOK
    <2>6. Cardinality(Logged(execs, s)) \in Nat
      BY LoggedFinite DEF IInv, TypeOK
    <2> QED
      BY <2>2, <2>3, <2>4, <2>5, <2>6
  <1> QED
    BY <1>1, InvHolds, PTL

LEMMA InputFollows == TypeOK /\ FeedersInv /\ OrderInv /\ ApartInv => InputInOrder
  <1> SUFFICES ASSUME TypeOK, FeedersInv, OrderInv, ApartInv PROVE InputInOrder
    OBVIOUS
  <1>1. ASSUME NEW c \in Cmds PROVE Ascending(stdin[c] \o Held(c))
    <2>1. /\ stdin[c] \in Seq(Nat) /\ held[c] \in Nat
          /\ \A i \in DOMAIN stdin[c] : held[c] # 0 => stdin[c][i] < held[c]
          /\ Ascending(stdin[c])
      BY <1>1, LinesAreNumbers DEF OrderInv
    <2>2. CASE held[c] = 0
      BY <2>1, <2>2, ConcatEmptySeq DEF Held
    <2>3. CASE held[c] # 0
      <3>1. stdin[c] \o Held(c) = Append(stdin[c], held[c])
        BY <2>1, <2>3, AppendIsConcat DEF Held
      <3>2. Ascending(Append(stdin[c], held[c]))
        BY <2>1, <2>3, AscendingAppend
      <3> QED
        BY <3>1, <3>2
    <2> QED
      BY <2>2, <2>3
  <1>2. ASSUME NEW c \in Cmds, NEW d \in Cmds, c # d
        PROVE  LinesOf(c) \intersect LinesOf(d) = {}
    BY <1>2 DEF ApartInv, LinesOf
  <1> QED
    BY <1>1, <1>2 DEF InputInOrder

(* A command gets its lines in the order they were written, no line reaches *)
(* two commands, and until there is a second one the first gets every line *)
(* that was accepted, for any number of feeders that earlier commands have *)
(* left behind (gortns.go's stdin goroutine).                              *)
THEOREM InputIsSafe == Spec => []InputSafe
  <1>1. IInv => InputSafe
    BY InputFollows DEF IInv, InputSafe
  <1> QED
    BY <1>1, InvHolds, PTL


(* The steps a pump has left when it can read no more. *)
PumpRank == [gone |-> 0, reading |-> 1, holding |-> 2]

LEMMA PumpRanks ==
  /\ PumpRank["gone"] < PumpRank["reading"] /\ PumpRank["reading"] < PumpRank["holding"]
  /\ \A p \in PumpStates : ~(PumpRank[p] < PumpRank[p])
  BY DEF PumpRank, PumpStates

LEMMA PumpMoves ==
  ASSUME TypeOK, NEW c \in Cmds, NEW s \in Streams, NEW p, At(c, s, p)
  PROVE  /\ pump'[c][s] = p
         /\ \A d \in Cmds, r \in Streams : d # c \/ r # s => pump'[d][r] = pump[d][r]
  BY DEF TypeOK, At

(* A pump that finds nothing to read comes nearer to its end by each step. *)
LEMMA PumpNearsItsEnd ==
  ASSUME TypeOK, NEW c \in Cmds, NEW s \in Streams, PumpWrites(c, s) \/ PumpEnds(c, s)
  PROVE  /\ PumpRank[pump'[c][s]] < PumpRank[pump[c][s]]
         /\ \A d \in Cmds, r \in Streams : d # c \/ r # s => pump'[d][r] = pump[d][r]
  <1>1. CASE PumpWrites(c, s)
    <2>1. pump[c][s] = "holding" /\ At(c, s, "reading")
      BY <1>1 DEF PumpWrites
    <2> QED
      BY <2>1, PumpMoves, PumpRanks
  <1>2. CASE PumpEnds(c, s)
    <2>1. pump[c][s] = "reading" /\ At(c, s, "gone")
      BY <1>2 DEF PumpEnds
    <2> QED
      BY <2>1, PumpMoves, PumpRanks
  <1> QED
    BY <1>1, <1>2

(* The safety half of ExecReturns: while execCommand waits for its pumps    *)
(* (wg.Wait), a pump that reads finds its pipe closed, and none is as far  *)
(* from its end after a step as before, whatever processes keep the pipes. *)
THEOREM JoinIsNear ==
  Spec => /\ [](phase = "join" => \A c \in Cmds, s \in Streams :
                  pump[c][s] = "reading" => PipeEnded(c, s))
          /\ [][phase = "join" => \A c \in Cmds, s \in Streams :
                  \/ pump'[c][s] = pump[c][s] /\ ~Pump(c, s)
                  \/ PumpRank[pump'[c][s]] < PumpRank[pump[c][s]]]_vars
  <1>1. IInv => (phase = "join" => \A c \in Cmds, s \in Streams :
                  pump[c][s] = "reading" => PipeEnded(c, s))
    BY DEF IInv, PipesInv, PipeEnded
  <1>2. ASSUME IInv, [Next]_vars, phase = "join", NEW c \in Cmds, NEW s \in Streams
        PROVE  \/ pump'[c][s] = pump[c][s] /\ (~Pump(c, s) \/ UNCHANGED vars)
               \/ PumpRank[pump'[c][s]] < PumpRank[pump[c][s]]
    <2> TypeOK
      BY <1>2 DEF IInv
    <2>1. ASSUME NEW d \in Cmds, NEW r \in Streams, Pump(d, r)
          PROVE  PumpWrites(d, r) \/ PumpEnds(d, r)
      BY <1>2, <2>1 DEF IInv, PipesInv, TypeOK, PumpReads, Pump
    <2>2. ASSUME NEW d \in Cmds, NEW r \in Streams, Pump(d, r)
          PROVE  /\ PumpRank[pump'[d][r]] < PumpRank[pump[d][r]]
                 /\ d # c \/ r # s => pump'[c][s] = pump[c][s]
      <3>1. PumpWrites(d, r) \/ PumpEnds(d, r)
        BY <2>1, <2>2
      <3> QED
        BY <3>1, PumpNearsItsEnd
    <2>3. CASE Pump(c, s)
      BY <2>2, <2>3
    <2>4. ASSUME ~Pump(c, s), NEW d \in Cmds, NEW r \in Streams, Pump(d, r)
          PROVE  pump'[c][s] = pump[c][s]
      <3>1. d # c \/ r # s
        BY <2>4
      <3> QED
        BY <2>2, <2>4, <3>1
    <2>5. ASSUME ~Pump(c, s), \A d \in Cmds, r \in Streams : ~Pump(d, r)
          PROVE  pump' = pump
      <3>1. ~ExecCommand
        BY <1>2 DEF ExecCommand
      <3> QED
        BY <1>2, <2>5, <3>1
        DEF Next, vars, outputVars, inputVars, Agent, WriteIn, Start, StartFails, Wait, Join,
            AgentStops, ChildReads, ChildExits, ChildKilled, BackgroundExits, ChildWrites,
            Feeder, FeederReceives, FeederWrites, FeederFails, FeederStops
    <2> QED
      BY <2>3, <2>4, <2>5
  <1>3. IInv /\ [Next]_vars =>
          [phase = "join" => \A c \in Cmds, s \in Streams :
             \/ pump'[c][s] = pump[c][s] /\ ~Pump(c, s)
             \/ PumpRank[pump'[c][s]] < PumpRank[pump[c][s]]]_vars
    BY <1>2
  <1> QED
    BY <1>1, <1>3, InvHolds, PTL DEF Spec
=============================================================================
