------------------------------ MODULE L9Agent ------------------------------
(***************************************************************************)
(* One tab of l9term (cmd/l9term/main.go): agentBuf, the agent's loop, the *)
(* execution of a command, and the ctl and out files in front of them.     *)
(* The code descends from the daemon's agents (GortnOut), with three       *)
(* differences: one lock covers the buffer and the cursors, a fid starts   *)
(* at the end of the output instead of its beginning, and nothing ever     *)
(* sends on the stop channel, so an agent ends by its own "stop" command   *)
(* alone and the stop cases of the selects are left out.                   *)
(*                                                                         *)
(* The out file's bytes are positions, as in OutLog.  The in file, whose   *)
(* data never meets the rest of this state, is left out.                   *)
(***************************************************************************)
EXTENDS Naturals, Sequences

CONSTANTS
  Fids,             \* fids on the tab's out file
  Reqs,             \* 9P read requests that can be outstanding
  FidOf,            \* FidOf[r]: the fid request r reads from
  Pumps,            \* the goroutines copying a command's stdout and stderr
  Clients,          \* writers of the ctl file
  PipeCap,          \* what a pipe holds
  CtlCap,           \* capacity of ctl (8 in the code)
  MaxOut,           \* bound: bytes written before the "stopped" line
  MaxPieces,        \* bound: pieces a command writes to one stream
  MaxCount          \* bound: the count of one read request

ASSUME RequestsHaveFids == FidOf \in [Reqs -> Fids]
ASSUME BoundsAreNaturals ==
  /\ PipeCap \in Nat /\ CtlCap \in Nat \ {0}
  /\ MaxOut \in Nat /\ MaxPieces \in Nat /\ MaxCount \in Nat
ASSUME RunIsNoPump == "run" \notin Pumps

VARIABLES
  total,            \* ab.buf.Len()
  closed,           \* ab.closed
  wake,             \* the one token of ab.wake (capacity 1)
  readers,          \* ab.readers; an absent fid reads as 0, as in a Go map
  open,             \* fids the 9P server holds open on the file
  req,              \* req[r]: where request r stands
  eof,              \* eof[r]: r's last answer was io.EOF
  slice,            \* slice[f]: positions of the last chunk read on f
  run,              \* where the agent's goroutine stands
  pumps,            \* the stream copying goroutines that are alive
  wrote,            \* wrote[p]: what the last command wrote to p's stream
  piped,            \* piped[p]: what of it is in the pipe
  held,             \* the copiers that have read a piece and not appended it
  put,              \* put[p]: what of it was appended to the buffer
  cut,              \* cut[p]: what of it was in the pipe when Run closed it
  writing,          \* goroutines between Write's unlock and its wake-up
  ctl,              \* the commands in ctl
  client,           \* client[c]: idle, or the command its write waits to send
  state             \* the state shown by the status file

bufVars    == <<total, closed, wake>>
readerVars == <<readers, open, req, eof, slice>>
cmdVars    == <<pumps, wrote, piped, held, put, cut>>
runVars    == <<run, cmdVars, writing, state>>
ctlVars    == <<ctl, client>>
vars == <<bufVars, readerVars, runVars, ctlVars>>

(* Any command but the first two writes a line. *)
Verbs == {"stop", "exec", "echo"}

Writers == Pumps \union {"run"}

NoSlice == [from |-> 0, to |-> 0]

Nothing == [p \in Pumps |-> 0]

Lesser(a, b) == IF a < b THEN a ELSE b

Init ==
  /\ total = 0
  /\ closed = FALSE
  /\ wake = FALSE
  /\ readers = [f \in Fids |-> 0]
  /\ open = {}
  /\ req = [r \in Reqs |-> "idle"]
  /\ eof = [r \in Reqs |-> FALSE]
  /\ slice = [f \in Fids |-> NoSlice]
  /\ run = "banner"
  /\ pumps = {}
  /\ wrote = Nothing /\ piped = Nothing /\ put = Nothing /\ cut = Nothing
  /\ held = {}
  /\ writing = {}
  /\ ctl = <<>>
  /\ client = [c \in Clients |-> "idle"]
  /\ state = "running"

-----------------------------------------------------------------------------
(* The out file. *)

(* Mutant: a cursor that was not dropped is moved on. *)
OpenReadBeyond(f) ==
  /\ f \notin open
  /\ open' = open \union {f}
  /\ readers' = [readers EXCEPT ![f] = @ + total]
  /\ slice' = [slice EXCEPT ![f] = [from |-> readers'[f], to |-> readers'[f]]]
  /\ UNCHANGED <<req, eof, bufVars, runVars, ctlVars>>

(* A 9P client opens a fid once.                                           *)
OpenRead(f) ==
  /\ f \notin open
  /\ open' = open \union {f}
  /\ readers' = [readers EXCEPT ![f] = total]
  /\ slice' = [slice EXCEPT ![f] = [from |-> total, to |-> total]]
  /\ UNCHANGED <<req, eof, bufVars, runVars, ctlVars>>

(* The 9P library may or may not call the file's Clunk method when it       *)
(* forgets a fid.                                                          *)
CloseRead(f) ==
  /\ f \in open
  /\ open' = open \ {f}
  /\ \E at \in {0, readers[f]} : readers' = [readers EXCEPT ![f] = at]
  /\ UNCHANGED <<req, eof, slice, bufVars, runVars, ctlVars>>

ReadCall(r) ==
  /\ req[r] = "idle"
  /\ FidOf[r] \in open
  /\ req' = [req EXCEPT ![r] = "read"]
  /\ eof' = [eof EXCEPT ![r] = FALSE]
  /\ UNCHANGED <<readers, open, slice, bufVars, runVars, ctlVars>>

Answer(r, end) ==
  /\ req' = [req EXCEPT ![r] = "idle"]
  /\ eof' = [eof EXCEPT ![r] = end]

Deliver(r, count) ==
  LET f  == FidOf[r]
      to == readers[f] + Lesser(count, total - readers[f])
  IN  /\ total > readers[f]
      /\ slice' = [slice EXCEPT ![f] = [from |-> readers[f], to |-> to]]
      /\ readers' = [readers EXCEPT ![f] = to]
      /\ Answer(r, FALSE)

AnswerEnd(r) ==
  /\ total = readers[FidOf[r]]
  /\ closed
  /\ Answer(r, TRUE)
  /\ UNCHANGED <<readers, slice>>

AwaitData(r) ==
  /\ total = readers[FidOf[r]]
  /\ ~closed
  /\ req' = [req EXCEPT ![r] = "select"]
  /\ UNCHANGED <<readers, eof, slice>>

(* Read's critical section: the cursor is read, used and moved under one   *)
(* lock.                                                                   *)
Read(r) ==
  /\ req[r] = "read"
  /\ \/ \E count \in 1 .. MaxCount : Deliver(r, count)
     \/ AnswerEnd(r)
     \/ AwaitData(r)
  /\ UNCHANGED <<open, bufVars, runVars, ctlVars>>

WaitWake(r) ==
  /\ req[r] = "select"
  /\ wake
  /\ wake' = FALSE
  /\ req' = [req EXCEPT ![r] = "read"]
  /\ UNCHANGED <<total, closed, readers, open, eof, slice, runVars, ctlVars>>

(* Mutant: Read waits for a token alone. *)
WaitForever(r) == FALSE

WaitTimeout(r) ==
  /\ req[r] = "select"
  /\ req' = [req EXCEPT ![r] = "read"]
  /\ UNCHANGED <<readers, open, eof, slice, bufVars, runVars, ctlVars>>

-----------------------------------------------------------------------------
(* The agent. *)

(* What run does next when a line of its own is written. *)
After == [banner |-> "select", echo |-> "select", prompt |-> "exec", farewell |-> "closing"]

(* The "stopped" line is beyond the bound. *)
MayWrite(w) ==
  /\ w \notin writing
  /\ \/ w = "run" /\ run = "farewell"
     \/ w = "run" /\ run \in DOMAIN After /\ total < MaxOut
     \/ w \in held /\ total < MaxOut

(* Write up to its unlock; then its non-blocking send.                     *)
Append1(w) ==
  /\ MayWrite(w)
  /\ total' = total + 1
  /\ writing' = writing \union {w}
  /\ held' = held \ {w}
  /\ put' = [p \in Pumps |-> IF p = w THEN put[p] + 1 ELSE put[p]]
  /\ UNCHANGED <<closed, wake, run, pumps, wrote, piped, cut, state, readerVars, ctlVars>>

(* Behind the prompt: the pipes and the copiers, and cmd.Run is called.    *)
Launch ==
  /\ pumps' = Pumps
  /\ held' = {}
  /\ wrote' = Nothing /\ piped' = Nothing /\ put' = Nothing /\ cut' = Nothing

Wake(w) ==
  /\ w \in writing
  /\ wake' = TRUE
  /\ writing' = writing \ {w}
  /\ run' = IF w = "run" THEN After[run] ELSE run
  /\ IF w = "run" /\ run = "prompt" THEN Launch ELSE UNCHANGED cmdVars
  /\ UNCHANGED <<total, closed, state, readerVars, ctlVars>>

(* One command off ctl. *)
Take ==
  /\ run = "select"
  /\ ctl # <<>>
  /\ ctl' = Tail(ctl)
  /\ CASE Head(ctl) = "stop" -> run' = "farewell" /\ state' = "stopped"
       [] Head(ctl) = "exec" -> run' = "prompt" /\ state' = "running"
       [] Head(ctl) = "echo" -> run' = "echo" /\ UNCHANGED state
  /\ UNCHANGED <<cmdVars, writing, client, bufVars, readerVars>>

CommandWrites(p) ==
  /\ run = "exec"
  /\ p \in pumps
  /\ wrote[p] < MaxPieces /\ total < MaxOut
  /\ piped[p] < PipeCap
  /\ wrote' = [wrote EXCEPT ![p] = @ + 1]
  /\ piped' = [piped EXCEPT ![p] = @ + 1]
  /\ UNCHANGED <<run, pumps, held, put, cut, writing, state, bufVars, readerVars, ctlVars>>

PumpReads(p) ==
  /\ p \in pumps \ (held \union writing)
  /\ piped[p] > 0
  /\ piped' = [piped EXCEPT ![p] = @ - 1]
  /\ held' = held \union {p}
  /\ UNCHANGED <<run, pumps, wrote, put, cut, writing, state, bufVars, readerVars, ctlVars>>

(* The command closed its end, or Run ours. *)
PumpEnd(p) ==
  /\ p \in pumps \ (held \union writing)
  /\ piped[p] = 0
  /\ pumps' = pumps \ {p}
  /\ UNCHANGED <<run, wrote, piped, held, put, cut, writing, state, bufVars, readerVars,
                 ctlVars>>

(* The command ended and cmd.Run returns, having closed our ends of its    *)
(* pipes: what is in them is lost.                                         *)
RunReturns ==
  /\ run = "exec"
  /\ run' = "join"
  /\ cut' = piped
  /\ piped' = Nothing
  /\ UNCHANGED <<pumps, wrote, held, put, writing, state, bufVars, readerVars, ctlVars>>

(* Mutant: the copiers are not waited for. *)
ExecReturnEarly ==
  /\ run = "join"
  /\ run' = "select"
  /\ state' = "idle"
  /\ UNCHANGED <<cmdVars, writing, bufVars, readerVars, ctlVars>>

(* wg.Wait, and the status of the command. *)
ExecReturn ==
  /\ run = "join"
  /\ pumps = {}
  /\ run' = "select"
  /\ state' = "idle"
  /\ UNCHANGED <<cmdVars, writing, bufVars, readerVars, ctlVars>>

(* agentBuf.Close, in two steps as Write. *)
Close ==
  /\ run = "closing"
  /\ run' = "waking"
  /\ closed' = TRUE
  /\ UNCHANGED <<total, wake, cmdVars, writing, state, readerVars, ctlVars>>

FinalWake ==
  /\ run = "waking"
  /\ run' = "done"
  /\ wake' = TRUE
  /\ UNCHANGED <<total, closed, cmdVars, writing, state, readerVars, ctlVars>>

-----------------------------------------------------------------------------
(* The ctl file. *)

WriteCtl(c) ==
  /\ client[c] = "idle"
  /\ \E v \in Verbs : client' = [client EXCEPT ![c] = v]
  /\ UNCHANGED <<ctl, bufVars, readerVars, runVars>>

(* Mutant: a command is sent only to an idle tab. *)
SendWhenIdle(c) ==
  /\ client[c] # "idle"
  /\ state = "idle"
  /\ Len(ctl) < CtlCap
  /\ ctl' = Append(ctl, client[c])
  /\ client' = [client EXCEPT ![c] = "idle"]
  /\ UNCHANGED <<bufVars, readerVars, runVars>>

Send(c) ==
  /\ client[c] # "idle"
  /\ Len(ctl) < CtlCap
  /\ ctl' = Append(ctl, client[c])
  /\ client' = [client EXCEPT ![c] = "idle"]
  /\ UNCHANGED <<bufVars, readerVars, runVars>>

-----------------------------------------------------------------------------
Reader(r) == Read(r) \/ WaitWake(r) \/ WaitTimeout(r)

(* The agent's goroutine, as far as it depends on no command's end. *)
Run == Append1("run") \/ Wake("run") \/ Take \/ ExecReturn \/ Close \/ FinalWake

Pump(p) == PumpReads(p) \/ Append1(p) \/ Wake(p) \/ PumpEnd(p)

Next ==
  \/ \E f \in Fids : OpenRead(f) \/ CloseRead(f)
  \/ \E r \in Reqs : ReadCall(r) \/ Reader(r)
  \/ Run \/ RunReturns
  \/ \E p \in Pumps : CommandWrites(p) \/ Pump(p)
  \/ \E c \in Clients : WriteCtl(c) \/ Send(c)

Spec == Init /\ [][Next]_vars

(* Goroutines are scheduled, timers fire, and a channel serves its senders *)
(* in order.  Nothing says that a client reads or that a command ends.     *)
FairSpec ==
  /\ Spec
  /\ \A r \in Reqs : WF_vars(Read(r)) /\ WF_vars(WaitTimeout(r))
  /\ WF_vars(Run)
  /\ \A c \in Clients : SF_vars(Send(c))

-----------------------------------------------------------------------------
(* Properties. *)

RunStates == DOMAIN After \union {"select", "exec", "join", "closing", "waking", "done"}

(* Every variable keeps to its type, ctl to its capacity. *)
TypeOK ==
  /\ total \in Nat
  /\ closed \in BOOLEAN
  /\ wake \in BOOLEAN
  /\ readers \in [Fids -> Nat]
  /\ open \in SUBSET Fids
  /\ req \in [Reqs -> {"idle", "read", "select"}]
  /\ eof \in [Reqs -> BOOLEAN]
  /\ slice \in [Fids -> [from : Nat, to : Nat]]
  /\ run \in RunStates
  /\ pumps \in SUBSET Pumps /\ held \in SUBSET Pumps
  /\ wrote \in [Pumps -> Nat] /\ piped \in [Pumps -> 0 .. PipeCap]
  /\ put \in [Pumps -> Nat] /\ cut \in [Pumps -> Nat]
  /\ writing \in SUBSET Writers
  /\ ctl \in Seq(Verbs)
  /\ Len(ctl) <= CtlCap
  /\ client \in [Clients -> Verbs \union {"idle"}]
  /\ state \in {"running", "idle", "stopped"}

(* The stream is an append-only log that each fid reads in order, without  *)
(* gaps or repetition, however many requests a client keeps on a fid.      *)
Log == INSTANCE OutLog WITH
         len <- total, ended <- closed, next <- readers

ImplementsOutLog == Log!Spec

(* A reader that was told of the end has everything, the "stopped" line    *)
(* included: nothing was written since and nothing can be.                 *)
EndIsLast ==
  \A r \in Reqs : eof[r] /\ FidOf[r] \in open => closed /\ readers[FidOf[r]] = total

(* The status file says idle only when the copiers have ended and their    *)
(* readers are being woken, and every piece the command wrote is in the    *)
(* buffer, but for those that lay in a pipe when Run closed it: who waits  *)
(* for idle and then reads misses nothing that will come later.            *)
IdleMeansComplete ==
  state = "idle" =>
    /\ pumps = {} /\ writing \subseteq {"run"}
    /\ \A p \in Pumps : put[p] + cut[p] = wrote[p]

(* Types, and both of the above. *)
TabSafe == TypeOK /\ EndIsLast /\ IdleMeansComplete

(* No read sleeps for ever on data or on the end, though there is one      *)
(* token for all readers.                                                  *)
Answerable(r) == req[r] # "idle" /\ (closed \/ total > readers[FidOf[r]])
ReadReturns == \A r \in Reqs : Answerable(r) ~> ~Answerable(r)

(* As long as the agent keeps coming back to its select, every ctl write   *)
(* returns.                                                                *)
CtlWriteReturns ==
  []<>(run = "select") => \A c \in Clients : client[c] # "idle" ~> client[c] = "idle"
=============================================================================
