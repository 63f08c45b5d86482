------------------------------ MODULE GortnOut ------------------------------
(***************************************************************************)
(* The output stream of one agent (cmd/rcpud/gortns.go): writeOut,         *)
(* openReader, closeReader, readOut, and the parts of run and execCommand  *)
(* that decide who writes to the stream, when it is closed and who receives *)
(* on the stop channel.                                                    *)
(*                                                                         *)
(* A step is a critical section (g.mu or g.readersMu) or one channel        *)
(* operation.  The bytes themselves are abstracted to their positions: the *)
(* buffer only ever grows at its end, so outLen stands for outBuf and a    *)
(* delivered chunk is the interval of positions it was copied from.        *)
(***************************************************************************)
EXTENDS Naturals, FiniteSets

CONSTANTS
  Fids,             \* fids on the agent's out file
  Reqs,             \* 9P read requests that can be outstanding
  FidOf,            \* FidOf[r]: the fid request r reads from
  Pumps,            \* the goroutines copying a command's stdout and stderr
  Pipelined,        \* fids a client uses again before a request is answered
  MaxOut,           \* bound: bytes written before the "stopped" line
  MaxChunk,         \* bound: bytes of one write
  MaxCount          \* bound: the count of one read request

ASSUME RequestsHaveFids == FidOf \in [Reqs -> Fids]
ASSUME BoundsAreNaturals ==
  MaxOut \in Nat /\ MaxChunk \in Nat /\ MaxCount \in Nat
ASSUME PipelinedAreFids == Pipelined \subseteq Fids
ASSUME RunIsNoPump == "run" \notin Pumps

VARIABLES
  outLen,           \* g.outBuf.Len()
  closed,           \* g.closed
  outWake,          \* the one token of g.outWake (capacity 1)
  readers,          \* g.readers; an absent fid reads as 0, as in a Go map
  open,             \* fids the 9P server holds open on the file
  req,              \* req[r]: where request r's readOut stands
  off,              \* off[r]: readOut's local offset (0 when out of scope,
                    \*         but kept by an answer that ends the stream)
  eof,              \* eof[r]: whether and why r's last answer was io.EOF
  slice,            \* slice[f]: positions of the last chunk read on f
  run,              \* where the agent's goroutine stands
  pumps,            \* the stream copying goroutines that are alive
  writing           \* goroutines between writeOut's unlock and its wake-up

vars == <<outLen, closed, outWake, readers, open, req, off, eof, slice,
          run, pumps, writing>>

clientVars == <<readers, open, req, off, eof, slice>>
agentVars  == <<run, pumps, writing>>

Writers == Pumps \union {"run"}

ReqStates == {"idle", "offset", "buffer", "select"}
EofCauses == {"none", "closed", "stop"}
RunStates == {"banner", "select", "command", "exec", "stopping", "waking", "done"}

NoSlice == [from |-> 0, to |-> 0]

Lesser(a, b) == IF a < b THEN a ELSE b

(* No request on f is unanswered. *)
Quiet(f) == \A r \in Reqs : FidOf[r] = f => req[r] = "idle"

Solo == Fids \ Pipelined

(* What clients keep to. *)
MayUse(f) == f \in Pipelined \/ Quiet(f)

Init ==
  /\ outLen = 0
  /\ closed = FALSE
  /\ outWake = FALSE
  /\ readers = [f \in Fids |-> 0]
  /\ open = {}
  /\ req = [r \in Reqs |-> "idle"]
  /\ off = [r \in Reqs |-> 0]
  /\ eof = [r \in Reqs |-> "none"]
  /\ slice = [f \in Fids |-> NoSlice]
  /\ run = "banner"
  /\ pumps = {}
  /\ writing = {}

-----------------------------------------------------------------------------
(* The 9P side. *)

(* Mutant: a reused fid keeps the cursor of its last opening. *)
openReaderKeepsCursor(f) == readers' = readers

openReader(f) == readers' = [readers EXCEPT ![f] = 0]

Open(f) ==
  /\ MayUse(f)
  /\ openReader(f)
  /\ open' = open \union {f}
  /\ slice' = [slice EXCEPT ![f] = NoSlice]
  /\ UNCHANGED <<outLen, closed, outWake, req, off, eof, agentVars>>

closeReader(f) == readers' = [readers EXCEPT ![f] = 0]

(* The 9P library may or may not call the file's Clunk method when it       *)
(* forgets a fid.                                                          *)
Clunk(f) ==
  /\ f \in open
  /\ MayUse(f)
  /\ open' = open \ {f}
  /\ closeReader(f) \/ readers' = readers
  /\ UNCHANGED <<outLen, closed, outWake, req, off, eof, slice, agentVars>>

(* The local offset goes out of scope. *)
Forget(r) == off' = [off EXCEPT ![r] = 0]

ReadCall(r) ==
  /\ req[r] = "idle"
  /\ FidOf[r] \in open
  /\ MayUse(FidOf[r])
  /\ req' = [req EXCEPT ![r] = "offset"]
  /\ eof' = [eof EXCEPT ![r] = "none"]
  /\ Forget(r)
  /\ UNCHANGED <<outLen, closed, outWake, readers, open, slice, agentVars>>

(* readOut's first critical section, under readersMu. *)
FetchOffset(r) ==
  /\ req[r] = "offset"
  /\ off' = [off EXCEPT ![r] = readers[FidOf[r]]]
  /\ req' = [req EXCEPT ![r] = "buffer"]
  /\ UNCHANGED <<outLen, closed, outWake, readers, open, eof, slice, agentVars>>

Reply(r, cause) ==
  /\ req' = [req EXCEPT ![r] = "idle"]
  /\ eof' = [eof EXCEPT ![r] = cause]

(* Mutant: the count is not cut down to what is available. *)
TakenUncut(r, count) == count

(* bufLen - offset is unsigned: it is positive unless the two are equal,   *)
(* and larger than any count if the offset were past the buffer.           *)
Taken(r, count) ==
  IF off[r] <= outLen THEN Lesser(count, outLen - off[r]) ELSE count

Deliver(r, count) ==
  LET f  == FidOf[r]
      to == off[r] + Taken(r, count)
  IN  /\ outLen # off[r]
      /\ slice' = [slice EXCEPT ![f] = [from |-> off[r], to |-> to]]
      /\ readers' = [readers EXCEPT ![f] = to]
      /\ Reply(r, "none")
      /\ Forget(r)

(* Mutant: closed is tested before what is left is delivered. *)
AnswerEndFirst(r) ==
  /\ closed
  /\ Reply(r, "closed")
  /\ UNCHANGED <<readers, slice, off>>

AnswerEnd(r) ==
  /\ outLen = off[r]
  /\ closed
  /\ Reply(r, "closed")
  /\ UNCHANGED <<readers, slice, off>>

AwaitData(r) ==
  /\ outLen = off[r]
  /\ ~closed
  /\ req' = [req EXCEPT ![r] = "select"]
  /\ UNCHANGED <<readers, slice, off, eof>>

(* readOut's second critical section, under mu. *)
ReadBuffer(r) ==
  /\ req[r] = "buffer"
  /\ \/ \E count \in 0 .. MaxCount : Deliver(r, count)
     \/ AnswerEnd(r)
     \/ AwaitData(r)
  /\ UNCHANGED <<outLen, closed, outWake, open, agentVars>>

(* readOut's select: a token, or thirty seconds.  (The third alternative,  *)
(* the stop channel, is in StopAgent.)                                     *)
WaitWake(r) ==
  /\ req[r] = "select"
  /\ outWake
  /\ outWake' = FALSE
  /\ req' = [req EXCEPT ![r] = "offset"]
  /\ Forget(r)
  /\ UNCHANGED <<outLen, closed, readers, open, eof, slice, agentVars>>

(* Mutant: readOut waits for a token alone. *)
NoTimeout(r) == FALSE

WaitTimeout(r) ==
  /\ req[r] = "select"
  /\ req' = [req EXCEPT ![r] = "offset"]
  /\ Forget(r)
  /\ UNCHANGED <<outLen, closed, outWake, readers, open, eof, slice, agentVars>>

-----------------------------------------------------------------------------
(* The agent side. *)

(* writeOut is called by the agent's goroutine for its banner and by its   *)
(* command handlers, and by the pumps of a running command.                *)
MayWrite(w) ==
  /\ w \notin writing
  /\ \/ w = "run" /\ run = "banner" /\ outLen = 0
     \/ w = "run" /\ run = "command"
     \/ w \in pumps

(* writeOut up to its unlock. *)
Append(w) ==
  /\ MayWrite(w)
  /\ \E n \in 1 .. MaxChunk :
        /\ outLen + n <= MaxOut
        /\ outLen' = outLen + n
  /\ writing' = writing \union {w}
  /\ UNCHANGED <<closed, outWake, run, pumps, clientVars>>

(* writeOut's non-blocking send on outWake. *)
Wake(w) ==
  /\ w \in writing
  /\ outWake' = TRUE
  /\ writing' = writing \ {w}
  /\ UNCHANGED <<outLen, closed, run, pumps, clientVars>>

(* The banner is out, or a handler returned. *)
EnterSelect ==
  /\ run \in {"banner", "command"}
  /\ outLen > 0
  /\ "run" \notin writing
  /\ run' = "select"
  /\ UNCHANGED <<outLen, closed, outWake, pumps, writing, clientVars>>

TakeCommand ==
  /\ run = "select"
  /\ run' = "command"
  /\ UNCHANGED <<outLen, closed, outWake, pumps, writing, clientVars>>

StartPumps ==
  /\ run = "command"
  /\ "run" \notin writing
  /\ run' = "exec"
  /\ pumps' = Pumps
  /\ UNCHANGED <<outLen, closed, outWake, writing, clientVars>>

PumpEnd(p) ==
  /\ p \in pumps
  /\ p \notin writing
  /\ pumps' = pumps \ {p}
  /\ UNCHANGED <<outLen, closed, outWake, run, writing, clientVars>>

(* Mutant: execCommand does not wait for its pumps. *)
ExecReturnEarly ==
  /\ run = "exec"
  /\ run' = "select"
  /\ UNCHANGED <<outLen, closed, outWake, pumps, writing, clientVars>>

(* wg.Wait: execCommand returns when every pump has. *)
ExecReturn ==
  /\ run = "exec"
  /\ pumps = {}
  /\ run' = "select"
  /\ UNCHANGED <<outLen, closed, outWake, pumps, writing, clientVars>>

(* stopAgent hands its stop to one goroutine that is receiving on the stop *)
(* channel: the agent's, or a reader parked in readOut.  If nobody is      *)
(* parked the send is dropped, which changes nothing here.                 *)
StopAgent ==
  /\ \/ /\ run = "select"
        /\ run' = "stopping"
        /\ UNCHANGED <<req, off, eof>>
     \/ /\ \E r \in Reqs : req[r] = "select" /\ Reply(r, "stop") /\ Forget(r)
        /\ UNCHANGED run
  /\ UNCHANGED <<outLen, closed, outWake, readers, open, slice, pumps, writing>>

(* The critical section of run's stop case: closed, and one last line. *)
CloseOut ==
  /\ run = "stopping"
  /\ run' = "waking"
  /\ IF closed
       THEN UNCHANGED <<closed, outLen>>
       ELSE /\ closed' = TRUE
            /\ outLen' = outLen + 1
  /\ UNCHANGED <<outWake, pumps, writing, clientVars>>

FinalWake ==
  /\ run = "waking"
  /\ outWake' = TRUE
  /\ run' = "done"
  /\ UNCHANGED <<outLen, closed, pumps, writing, clientVars>>

-----------------------------------------------------------------------------
Client == \E f \in Fids : Open(f) \/ Clunk(f)

Reader(r) == FetchOffset(r) \/ ReadBuffer(r) \/ WaitWake(r) \/ WaitTimeout(r)

Agent ==
  \/ EnterSelect
  \/ TakeCommand
  \/ StartPumps
  \/ ExecReturn
  \/ CloseOut
  \/ FinalWake
  \/ \E p \in Pumps : PumpEnd(p)
  \/ \E w \in Writers : Append(w) \/ Wake(w)

Next ==
  \/ Client
  \/ StopAgent
  \/ Agent
  \/ \E r \in Reqs : ReadCall(r) \/ Reader(r)

Spec == Init /\ [][Next]_vars

(* Goroutines are scheduled and the timer fires.  Nothing says that a      *)
(* client reads, that a command arrives or ends, or that anyone stops the  *)
(* agent.                                                                  *)
FairSpec ==
  /\ Spec
  /\ \A r \in Reqs :
        /\ WF_vars(FetchOffset(r))
        /\ WF_vars(ReadBuffer(r))
        /\ WF_vars(WaitTimeout(r))

-----------------------------------------------------------------------------
(* Properties. *)

(* Every variable keeps to its type. *)
TypeOK ==
  /\ outLen \in Nat
  /\ closed \in BOOLEAN
  /\ outWake \in BOOLEAN
  /\ readers \in [Fids -> Nat]
  /\ open \in SUBSET Fids
  /\ req \in [Reqs -> ReqStates]
  /\ off \in [Reqs -> Nat]
  /\ eof \in [Reqs -> EofCauses]
  /\ slice \in [Fids -> [from : Nat, to : Nat]]
  /\ run \in RunStates
  /\ pumps \in SUBSET Pumps
  /\ writing \in SUBSET Writers

(* No cursor is ever past the buffer, so bufLen - offset never wraps and   *)
(* the slice readOut copies is inside outBuf, whatever the requests in     *)
(* flight on a fid do to its cursor between readOut's two critical         *)
(* sections.                                                               *)
NoOverrun ==
  /\ \A f \in Fids : readers[f] <= outLen /\ slice[f].to <= outLen
  /\ \A r \in Reqs : req[r] \in {"buffer", "select"} => off[r] <= outLen

(* A request answered with the end of the stream because the stream is     *)
(* closed had been given every byte before its offset and nothing comes    *)
(* after it, the "stopped" line included.                                  *)
EofMeansDrained ==
  \A r \in Reqs : eof[r] = "closed" => closed /\ off[r] = outLen

(* Once closed, the stream never grows and never reopens: no pump of a     *)
(* command and no handler outlives the agent's goroutine.                  *)
NoOutputAfterClose == [][closed => closed' /\ outLen' = outLen]_vars

(* No wake-up is lost: if what a parked reader waits for has happened, the *)
(* token is in outWake or somebody is about to put it there.               *)
PromptWake ==
  \A r \in Reqs :
    req[r] = "select" /\ (outLen # off[r] \/ closed)
      => outWake \/ writing # {} \/ run = "waking"

(* A read is answered once there is something to answer it with, even when *)
(* other readers took the wake-up.                                         *)
ReadReturns ==
  \A r \in Reqs :
    FidOf[r] \in Solo /\ req[r] # "idle" /\ (closed \/ outLen > readers[FidOf[r]])
      ~> req[r] = "idle"

(* The stream is an append-only log that each fid reads in order, without  *)
(* gaps or repetition, when a client keeps one request on it at a time.    *)
Log == INSTANCE OutLog WITH
         Fids  <- Solo,
         len   <- outLen,
         ended <- closed,
         open  <- open \intersect Solo,
         next  <- [f \in Solo |-> readers[f]],
         slice <- [f \in Solo |-> slice[f]]

ImplementsOutLog == Log!Spec
=============================================================================
