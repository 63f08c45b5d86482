----------------------------- MODULE GortnExec ------------------------------
(***************************************************************************)
(* Commands of one agent (cmd/rcpud/gortns.go): execCommand with the child *)
(* process, the pumps on its output pipes and the goroutine that feeds its *)
(* stdin, the in file's queue, and stops that these goroutines receive.    *)
(* Which commands are asked for is in Gortns, who reads the log in GortnOut. *)
(*                                                                         *)
(* Output is counted.  Input lines are numbered in the order of the writes *)
(* to the in file, commands in the order of their starts.                  *)
(***************************************************************************)
EXTENDS Naturals, Sequences, FiniteSets

CONSTANTS
  Streams,          \* the output pipes of a command: stdout and stderr
  InCap,            \* capacity of g.in (256 in the code)
  StdinCap,         \* lines the kernel keeps in a stdin pipe
  PipeCap,          \* what the kernel keeps in an output pipe
  MaxCmds,          \* bound: commands the agent is given
  MaxLines,         \* bound: writes to the in file
  MaxOut            \* bound: what one command writes to one stream

ASSUME NoStreamIsThePrompt == "prompt" \notin Streams
ASSUME Capacities == InCap \in Nat /\ StdinCap \in Nat \ {0} /\ PipeCap \in Nat \ {0}
ASSUME Bounds == MaxCmds \in Nat /\ MaxLines \in Nat /\ MaxOut \in Nat

VARIABLES
  phase,            \* where the agent's goroutine stands
  execs,            \* commands started: the last one's number
  child,            \* the last command's process
  background,       \* whether something it left behind holds its pipes
  open,             \* whether our ends of the last command's output pipes are open
  pump,             \* pump[c][s]: where the goroutine copying c's stream s stands
  wrote,            \* wrote[s]: what the last command wrote to s
  piped,            \* piped[s]: what of it is in the pipe
  cut,              \* cut[s]: what of it was in the pipe when Wait closed it
  log,              \* g.outBuf: the command and the stream each piece is from
  in,               \* g.in
  written,          \* writes to the in file
  accepted,         \* history: the lines that went into g.in
  feeder,           \* feeder[c]: the goroutine that feeds command c's stdin
  held,             \* held[c]: the line it has received, 0 for none
  stdin,            \* history: stdin[c]: the lines written to c's stdin
  unread,           \* how many of them are in the last command's pipe
  stdinOpen         \* whether our end of the last command's stdin is open

outputVars == <<open, pump, wrote, piped, cut, log>>
inputVars  == <<in, written, accepted, feeder, held, stdin, unread, stdinOpen>>
vars == <<phase, execs, child, background, outputVars, inputVars>>

Cmds == 1 .. MaxCmds

PhaseStates  == {"select", "start", "wait", "join", "stopped"}
ChildStates  == {"none", "running", "reading", "exited"}
PumpStates   == {"gone", "reading", "holding"}
FeederStates == {"none", "waiting", "writing", "gone"}

(* A command's "$" line, or what it wrote to one of its streams. *)
Pieces == [cmd : Cmds, from : Streams \union {"prompt"}]

Prompt(c) == [cmd |-> c, from |-> "prompt"]

Output(c, s) == [cmd |-> c, from |-> s]

Held(c) == IF held[c] = 0 THEN <<>> ELSE <<held[c]>>

Init ==
  /\ phase = "select"
  /\ execs = 0
  /\ child = "none"
  /\ background = FALSE
  /\ open = FALSE
  /\ pump = [c \in Cmds |-> [s \in Streams |-> "gone"]]
  /\ wrote = [s \in Streams |-> 0]
  /\ piped = [s \in Streams |-> 0]
  /\ cut = [s \in Streams |-> 0]
  /\ log = <<>>
  /\ in = <<>>
  /\ written = 0
  /\ accepted = <<>>
  /\ feeder = [c \in Cmds |-> "none"]
  /\ held = [c \in Cmds |-> 0]
  /\ stdin = [c \in Cmds |-> <<>>]
  /\ unread = 0
  /\ stdinOpen = FALSE

-----------------------------------------------------------------------------
(* The in file. *)

(* A write that finds the queue full is dropped, and reported as written. *)
WriteIn ==
  /\ written < MaxLines
  /\ written' = written + 1
  /\ \/ /\ Len(in) < InCap
        /\ in' = Append(in, written')
        /\ accepted' = Append(accepted, written')
     \/ /\ Len(in) = InCap
        /\ UNCHANGED <<in, accepted>>
  /\ UNCHANGED <<phase, execs, child, background, outputVars, feeder, held, stdin,
                 unread, stdinOpen>>

-----------------------------------------------------------------------------
(* execCommand. *)

(* The "$" line, the pipes, the feeder, and a pump for each of the output  *)
(* pipes that could be made.                                               *)
ExecCommand ==
  /\ phase = "select"
  /\ execs < MaxCmds
  /\ phase' = "start"
  /\ execs' = execs + 1
  /\ log' = Append(log, Prompt(execs'))
  /\ open' = TRUE
  /\ \E made \in SUBSET Streams :
        pump' = [pump EXCEPT ![execs'] =
                   [s \in Streams |-> IF s \in made THEN "reading" ELSE "gone"]]
  /\ wrote' = [s \in Streams |-> 0]
  /\ piped' = [s \in Streams |-> 0]
  /\ cut' = [s \in Streams |-> 0]
  /\ feeder' = [feeder EXCEPT ![execs'] = "waiting"]
  /\ unread' = 0
  /\ stdinOpen' = TRUE
  /\ child' = "none"
  /\ background' = FALSE
  /\ UNCHANGED <<in, written, accepted, held, stdin>>

(* cmd.Start: the command runs, and may read its input to the end. *)
Start ==
  /\ phase = "start"
  /\ phase' = "wait"
  /\ child' \in {"running", "reading"}
  /\ UNCHANGED <<execs, background, outputVars, inputVars>>

(* Both ends of every pipe are closed by a Start that fails, ours by Wait. *)
ClosePipes ==
  /\ open' = FALSE
  /\ cut' = piped
  /\ piped' = [s \in Streams |-> 0]
  /\ stdinOpen' = FALSE
  /\ unread' = 0

(* No such directory, or no process to be had. *)
StartFails ==
  /\ phase = "start"
  /\ phase' = "join"
  /\ child' = "exited"
  /\ ClosePipes
  /\ UNCHANGED <<execs, background, pump, wrote, log, in, written, accepted, feeder,
                 held, stdin>>

(* Mutant: the pumps are left to read to the end of their pipes. *)
WaitLeavesPipes ==
  /\ phase = "wait"
  /\ child = "exited"
  /\ phase' = "join"
  /\ UNCHANGED <<execs, child, background, outputVars, inputVars>>

(* cmd.Wait has seen the process end, and closes our ends of its pipes. *)
Wait ==
  /\ phase = "wait"
  /\ child = "exited"
  /\ phase' = "join"
  /\ ClosePipes
  /\ UNCHANGED <<execs, child, background, pump, wrote, log, in, written, accepted,
                 feeder, held, stdin>>

(* Mutant: nobody waits for the pumps. *)
JoinAtOnce ==
  /\ phase = "join"
  /\ phase' = "select"
  /\ UNCHANGED <<execs, child, background, outputVars, inputVars>>

(* wg.Wait, and execCommand returns. *)
Join ==
  /\ phase = "join"
  /\ \A s \in Streams : pump[execs][s] = "gone"
  /\ phase' = "select"
  /\ UNCHANGED <<execs, child, background, outputVars, inputVars>>

-----------------------------------------------------------------------------
(* The child process. *)

ChildAlive == child \in {"running", "reading"}

(* Something has the child's ends of the pipes: before Start, execCommand. *)
PipesInUse == open /\ (child = "none" \/ ChildAlive \/ background)

ChildWrites(s) ==
  /\ phase # "start" /\ PipesInUse
  /\ pump[execs][s] # "gone"
  /\ wrote[s] < MaxOut
  /\ piped[s] < PipeCap
  /\ wrote' = [wrote EXCEPT ![s] = @ + 1]
  /\ piped' = [piped EXCEPT ![s] = @ + 1]
  /\ UNCHANGED <<phase, execs, child, background, open, pump, cut, log, inputVars>>

ChildReads ==
  /\ phase # "start" /\ PipesInUse
  /\ unread > 0
  /\ unread' = unread - 1
  /\ UNCHANGED <<phase, execs, child, background, outputVars, in, written, accepted,
                 feeder, held, stdin, stdinOpen>>

(* It may leave a process behind that has its stdin, stdout and stderr. *)
ChildExits ==
  /\ ChildAlive
  /\ child = "reading" => unread = 0 /\ ~stdinOpen
  /\ child' = "exited"
  /\ background' \in BOOLEAN
  /\ UNCHANGED <<phase, execs, outputVars, inputVars>>

(* A reading child that is killed. *)
ChildKilled ==
  /\ child = "reading"
  /\ child' = "exited"
  /\ UNCHANGED <<phase, execs, background, outputVars, inputVars>>

BackgroundExits ==
  /\ background
  /\ background' = FALSE
  /\ UNCHANGED <<phase, execs, child, outputVars, inputVars>>

-----------------------------------------------------------------------------
(* The pumps. *)

(* r.Read returns an error: our end was closed, or all the others and      *)
(* nothing is left.                                                        *)
PipeEnded(c, s) == c # execs \/ ~open \/ (~PipesInUse /\ piped[s] = 0)

At(c, s, state) == pump' = [pump EXCEPT ![c][s] = state]

PumpReads(c, s) ==
  /\ pump[c][s] = "reading"
  /\ c = execs
  /\ piped[s] > 0
  /\ piped' = [piped EXCEPT ![s] = @ - 1]
  /\ At(c, s, "holding")
  /\ UNCHANGED <<phase, execs, child, background, open, wrote, cut, log, inputVars>>

(* Mutant: a pump that finds its pipe closed returns with the chunk. *)
PumpWritesWhileOpen(c, s) ==
  /\ pump[c][s] = "holding"
  /\ log' = IF open THEN Append(log, Output(c, s)) ELSE log
  /\ At(c, s, "reading")
  /\ UNCHANGED <<phase, execs, child, background, open, wrote, piped, cut, inputVars>>

(* g.writeOut(chunk). *)
PumpWrites(c, s) ==
  /\ pump[c][s] = "holding"
  /\ log' = Append(log, Output(c, s))
  /\ At(c, s, "reading")
  /\ UNCHANGED <<phase, execs, child, background, open, wrote, piped, cut, inputVars>>

PumpEnds(c, s) ==
  /\ pump[c][s] = "reading"
  /\ PipeEnded(c, s)
  /\ At(c, s, "gone")
  /\ UNCHANGED <<phase, execs, child, background, open, wrote, piped, cut, log,
                 inputVars>>

-----------------------------------------------------------------------------
(* The feeders, one for each command there has been. *)

FeederReceives(c) ==
  /\ feeder[c] = "waiting"
  /\ in # <<>>
  /\ in' = Tail(in)
  /\ held' = [held EXCEPT ![c] = Head(in)]
  /\ feeder' = [feeder EXCEPT ![c] = "writing"]
  /\ UNCHANGED <<phase, execs, child, background, outputVars, written, accepted, stdin,
                 unread, stdinOpen>>

(* stdin.Write, whose error nobody looks at, is over. *)
WriteReturns(c) ==
  /\ held' = [held EXCEPT ![c] = 0]
  /\ feeder' = [feeder EXCEPT ![c] = "waiting"]

FeederWrites(c) ==
  /\ feeder[c] = "writing"
  /\ c = execs /\ stdinOpen /\ PipesInUse
  /\ unread < StdinCap
  /\ stdin' = [stdin EXCEPT ![c] = Append(@, held[c])]
  /\ unread' = unread + 1
  /\ WriteReturns(c)
  /\ UNCHANGED <<phase, execs, child, background, outputVars, in, written, accepted,
                 stdinOpen>>

(* Our end of the pipe is closed, or nobody has the other. *)
BrokenPipe(c) == c # execs \/ ~stdinOpen \/ ~PipesInUse

(* Mutant: a line that a command did not take goes back to the queue. *)
FeederPutsBack(c) ==
  /\ feeder[c] = "writing"
  /\ BrokenPipe(c)
  /\ Len(in) < InCap
  /\ in' = Append(in, held[c])
  /\ WriteReturns(c)
  /\ UNCHANGED <<phase, execs, child, background, outputVars, written, accepted, stdin,
                 unread, stdinOpen>>

(* The line is lost, whichever command it was meant for. *)
FeederFails(c) ==
  /\ feeder[c] = "writing"
  /\ BrokenPipe(c)
  /\ WriteReturns(c)
  /\ UNCHANGED <<phase, execs, child, background, outputVars, in, written, accepted,
                 stdin, unread, stdinOpen>>

(* A stop reaches a feeder, which closes its pipe, *)
FeederStops(c) ==
  /\ feeder[c] = "waiting"
  /\ feeder' = [feeder EXCEPT ![c] = "gone"]
  /\ stdinOpen' = (stdinOpen /\ c # execs)
  /\ UNCHANGED <<phase, execs, child, background, outputVars, in, written, accepted,
                 held, stdin, unread>>

(* or the agent's goroutine. *)
AgentStops ==
  /\ phase = "select"
  /\ phase' = "stopped"
  /\ UNCHANGED <<execs, child, background, outputVars, inputVars>>

-----------------------------------------------------------------------------
Agent == Wait \/ Join

Pump(c, s) == PumpReads(c, s) \/ PumpWrites(c, s) \/ PumpEnds(c, s)

Feeder(c) == FeederReceives(c) \/ FeederWrites(c) \/ FeederFails(c)

Next ==
  \/ WriteIn
  \/ ExecCommand \/ Start \/ StartFails \/ Agent
  \/ ChildReads \/ ChildExits \/ ChildKilled \/ BackgroundExits
  \/ \E s \in Streams : ChildWrites(s)
  \/ \E c \in Cmds : Feeder(c) \/ FeederStops(c) \/ \E s \in Streams : Pump(c, s)
  \/ AgentStops

Spec == Init /\ [][Next]_vars

(* Goroutines run; a child that reads its input reads on, and ends at its  *)
(* end.  Any other may run for ever, and so may what it leaves behind.     *)
FairSpec ==
  /\ Spec
  /\ WF_vars(Start \/ StartFails) /\ WF_vars(Agent)
  /\ \A c \in Cmds, s \in Streams : WF_vars(Pump(c, s))
  /\ \A c \in Cmds : WF_vars(Feeder(c))
  /\ WF_vars(child = "reading" /\ (ChildReads \/ ChildExits))

-----------------------------------------------------------------------------
(* Properties. *)

(* Every variable keeps to its type; queues and pipes to their capacities. *)
TypeOK ==
  /\ phase \in PhaseStates
  /\ execs \in 0 .. MaxCmds
  /\ child \in ChildStates
  /\ background \in BOOLEAN
  /\ open \in BOOLEAN
  /\ pump \in [Cmds -> [Streams -> PumpStates]]
  /\ wrote \in [Streams -> 0 .. MaxOut]
  /\ piped \in [Streams -> 0 .. PipeCap]
  /\ cut \in [Streams -> 0 .. PipeCap]
  /\ log \in Seq(Pieces)
  /\ in \in Seq(1 .. MaxLines) /\ Len(in) <= InCap
  /\ written \in 0 .. MaxLines
  /\ accepted \in Seq(1 .. MaxLines)
  /\ feeder \in [Cmds -> FeederStates]
  /\ held \in [Cmds -> 0 .. MaxLines]
  /\ stdin \in [Cmds -> Seq(1 .. MaxLines)]
  /\ unread \in 0 .. StdinCap
  /\ stdinOpen \in BOOLEAN

(* The log tells one command's output after the other's, each behind its   *)
(* "$" line: a reader can take everything between two of these lines for   *)
(* the first one's command.                                                *)
CommandsInOrder ==
  \A i, j \in DOMAIN log : i < j =>
    log[i].cmd <= log[j].cmd /\ (log[j].from = "prompt" => log[i].cmd < log[j].cmd)

(* The agent's goroutine is between commands, in one, or has left its loop. *)
Stage ==
  CASE phase = "select" -> "idle"
    [] phase = "stopped" -> "stopped"
    [] OTHER -> "running"

(* Commands follow one another in the log, with no piece of one before its *)
(* prompt line, behind the return of its execCommand, or after the stop.   *)
Commands == INSTANCE CommandLog WITH cmd <- execs, stage <- Stage

ImplementsCommandLog == Commands!Spec

Logged(c, s) == {i \in DOMAIN log : log[i] = Output(c, s)}

(* When execCommand has returned, the log has all that the command wrote to *)
(* a stream, but for what lay in the pipe at the moment Wait closed it:    *)
(* nothing a pump had taken is lost, however late it comes to the log.     *)
OutputComplete ==
  phase = "select" /\ execs > 0 =>
    \A s \in Streams : Cardinality(Logged(execs, s)) = wrote[s] - cut[s]

Ascending(s) == \A i, j \in DOMAIN s : i < j => s[i] < s[j]

LinesOf(c) == {stdin[c][i] : i \in DOMAIN stdin[c]}

(* Whatever feeders of earlier commands are about, a command gets its lines *)
(* in the order they were written, and no line reaches two commands.       *)
InputInOrder ==
  /\ \A c \in Cmds : Ascending(stdin[c] \o Held(c))
  /\ \A c, d \in Cmds : c # d => LinesOf(c) \intersect LinesOf(d) = {}

(* Until a second command is started, the first one's stdin is the in file: *)
(* every line that was not dropped has reached it or is on its way to it,  *)
(* also the lines written before it was started.                           *)
FirstCommandOwnsInput ==
  execs = 1 /\ stdinOpen /\ PipesInUse
    => stdin[1] \o Held(1) \o in = accepted

(* Types, capacities, and both of the above. *)
InputSafe == TypeOK /\ InputInOrder /\ FirstCommandOwnsInput

(* A command that has ended is done with, even if it left a process behind *)
(* that keeps its output open.                                             *)
ExecReturns == phase = "wait" /\ child = "exited" ~> phase \in {"select", "stopped"}
=============================================================================
