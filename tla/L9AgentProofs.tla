---------------------------- MODULE L9AgentProofs ----------------------------
(***************************************************************************)
(* Proofs about L9Agent, for any number of fids, outstanding requests, ctl *)
(* writers and stream copiers, and any capacity of ctl.                    *)
(***************************************************************************)
EXTENDS L9Agent, SequenceTheorems, TLAPS

(* Only a command being executed has stream copiers; a write under way is  *)
(* one of theirs or the loop's, which does nothing else meanwhile; and the *)
(* buffer is closed when the loop has left for good.                       *)
AgentInv ==
  /\ pumps # {} => run \in {"exec", "join"}
  /\ writing \subseteq pumps \union {"run"}
  /\ "run" \in writing => run \in DOMAIN After
  /\ closed <=> run \in {"waking", "done"}
  /\ state = "idle" => run \in {"select", "echo"}

(* Every piece of the last command's output is in one place: appended, in  *)
(* its pipe, lost with that, or in the hands of a copier that is alive.    *)
InHand(p) == IF p \in held THEN 1 ELSE 0

PieceInv ==
  /\ held \subseteq pumps
  /\ \A p \in Pumps : wrote[p] = put[p] + piped[p] + cut[p] + InHand(p)
  /\ \A p \in Pumps \ pumps : piped[p] = 0
  /\ run = "exec" => \A p \in Pumps : cut[p] = 0

(* Cursors stay within the buffer, and the end is told of after the close. *)
CursorInv ==
  /\ \A f \in Fids : readers[f] <= total
  /\ \A r \in Reqs : eof[r] => closed

IInv == TypeOK /\ AgentInv /\ PieceInv /\ CursorInv /\ EndIsLast

-----------------------------------------------------------------------------
LEMMA AfterTable ==
  /\ DOMAIN After = {"banner", "echo", "prompt", "farewell"}
  /\ After["banner"] = "select" /\ After["echo"] = "select"
  /\ After["prompt"] = "exec" /\ After["farewell"] = "closing"
  BY DEF After

LEMMA RunStatesAre ==
  RunStates = {"banner", "echo", "prompt", "farewell",
               "select", "exec", "join", "closing", "waking", "done"}
  BY AfterTable DEF RunStates

(* What the agent's goroutines do to the state the readers look at. *)
LEMMA AgentStep ==
  ASSUME TypeOK, AgentInv, PieceInv, Run \/ RunReturns \/ \E p \in Pumps : CommandWrites(p) \/ Pump(p)
  PROVE  /\ UNCHANGED readerVars
         /\ total' \in Nat /\ total' >= total
         /\ closed => closed' /\ total' = total
         /\ closed' # closed => total' = total
  <1> USE AfterTable DEF TypeOK, AgentInv
  <1>1. ASSUME NEW w \in Writers, Append1(w)
        PROVE  /\ UNCHANGED <<readerVars, closed>>
               /\ total' = total + 1 /\ ~closed
    BY <1>1, RunIsNoPump DEF Append1, MayWrite, PieceInv
  <1>2. ASSUME NEW w \in Writers, Wake(w) PROVE UNCHANGED <<readerVars, closed, total>>
    BY <1>2 DEF Wake
  <1>3. CASE Take \/ RunReturns \/ ExecReturn
    <2>1. UNCHANGED <<bufVars, readerVars>>
      BY <1>3 DEF Take, RunReturns, ExecReturn
    <2> QED
      BY <2>1 DEF bufVars
  <1>4. CASE Close \/ FinalWake
    BY <1>4 DEF Close, FinalWake
  <1>5. ASSUME NEW p \in Pumps, CommandWrites(p) \/ PumpReads(p) \/ PumpEnd(p)
        PROVE  UNCHANGED <<readerVars, closed, total>>
    BY <1>5 DEF CommandWrites, PumpReads, PumpEnd, bufVars
  <1> QED
    BY <1>1, <1>2, <1>3, <1>4, <1>5 DEF Run, Pump, Writers

(* Opening and closing a fid. *)
LEMMA OutFile ==
  ASSUME TypeOK, NEW f \in Fids, OpenRead(f) \/ CloseRead(f)
  PROVE  /\ readers' \in [Fids -> Nat] /\ open' \in SUBSET Fids
         /\ slice' \in [Fids -> [from : Nat, to : Nat]]
         /\ \A g \in Fids : g # f => readers'[g] = readers[g]
         /\ \A g \in Fids : g # f => (g \in open' <=> g \in open)
         /\ f \in open' => readers'[f] = total
         /\ readers'[f] = 0 \/ readers'[f] = total \/ readers'[f] = readers[f]
         /\ UNCHANGED <<total, closed, eof>>
  <1> USE DEF TypeOK
  <1>1. CASE OpenRead(f)
    BY <1>1 DEF OpenRead, bufVars
  <1>2. CASE CloseRead(f)
    <2>1. PICK at \in {0, readers[f]} : readers' = [readers EXCEPT ![f] = at]
      BY <1>2 DEF CloseRead
    <2>2. open' = open \ {f} /\ UNCHANGED <<slice, total, closed, eof>>
      BY <1>2 DEF CloseRead, bufVars
    <2> QED
      BY <2>1, <2>2
  <1> QED
    BY <1>1, <1>2

(* What a read that holds the lock does to the cursors. *)
LEMMA ReadStep ==
  ASSUME TypeOK, CursorInv, NEW r \in Reqs, Read(r)
  PROVE  /\ UNCHANGED <<total, closed, open>>
         /\ \A f \in Fids : readers'[f] = readers[f] \/
               (f = FidOf[r] /\ readers[f] < total /\ readers'[f] <= total)
         /\ \A s \in Reqs : s # r => eof'[s] = eof[s]
         /\ eof'[r] => closed /\ (readers'[FidOf[r]] = total \/ eof[r])
  <1> USE RequestsHaveFids DEF TypeOK
  <1>1. UNCHANGED <<total, closed, open>>
    BY DEF Read, bufVars
  <1>2. ASSUME NEW count \in 1 .. MaxCount, Deliver(r, count)
        PROVE  /\ \A f \in Fids : readers'[f] = readers[f] \/
                     (f = FidOf[r] /\ readers[f] < total /\ readers'[f] <= total)
               /\ eof' = [eof EXCEPT ![r] = FALSE]
    <2> DEFINE f  == FidOf[r]
               to == readers[f] + Lesser(count, total - readers[f])
    <2>1. /\ readers' = [readers EXCEPT ![f] = to] /\ readers[f] < total
          /\ eof' = [eof EXCEPT ![r] = FALSE]
      BY <1>2 DEF Deliver, Answer
    <2>2. f \in Fids /\ to <= total
      BY BoundsAreNaturals DEF Lesser, CursorInv
    <2> HIDE DEF to
    <2> QED
      BY <2>1, <2>2
  <1>3. CASE AnswerEnd(r)
    BY <1>1, <1>3 DEF AnswerEnd, Answer
  <1>4. CASE AwaitData(r)
    BY <1>1, <1>4 DEF AwaitData, CursorInv
  <1> QED
    BY <1>1, <1>2, <1>3, <1>4 DEF Read

LEMMA NothingIs ==
  Nothing \in [Pumps -> Nat] /\ Nothing \in [Pumps -> 0 .. PipeCap]
  BY BoundsAreNaturals DEF Nothing

LEMMA TypeInit == Init => TypeOK
  <1> SUFFICES ASSUME Init PROVE TypeOK
    OBVIOUS
  <1>1. /\ total \in Nat /\ closed \in BOOLEAN /\ wake \in BOOLEAN
        /\ run \in RunStates /\ pumps \in SUBSET Pumps /\ writing \in SUBSET Writers
        /\ held \in SUBSET Pumps /\ state \in {"running", "idle", "stopped"}
    BY RunStatesAre DEF Init
  <1>5. /\ wrote \in [Pumps -> Nat] /\ piped \in [Pumps -> 0 .. PipeCap]
        /\ put \in [Pumps -> Nat] /\ cut \in [Pumps -> Nat]
    BY BoundsAreNaturals, NothingIs DEF Init
  <1>4. ctl \in Seq(Verbs) /\ Len(ctl) <= CtlCap
    BY BoundsAreNaturals DEF Init
  <1>2. /\ readers \in [Fids -> Nat] /\ open \in SUBSET Fids
        /\ slice \in [Fids -> [from : Nat, to : Nat]]
    BY DEF Init, NoSlice
  <1>3. /\ req \in [Reqs -> {"idle", "read", "select"}] /\ eof \in [Reqs -> BOOLEAN]
        /\ client \in [Clients -> Verbs \union {"idle"}]
    BY DEF Init
  <1> QED
    BY <1>1, <1>4, <1>5, <1>2, <1>3 DEF TypeOK

LEMMA TypeNext == TypeOK /\ AgentInv /\ PieceInv /\ CursorInv /\ [Next]_vars => TypeOK'
  <1> SUFFICES ASSUME TypeOK, AgentInv, PieceInv, CursorInv, [Next]_vars PROVE TypeOK'
    OBVIOUS
  <1> USE RequestsHaveFids, AfterTable, RunStatesAre DEF TypeOK
  <1>1. ASSUME NEW f \in Fids, OpenRead(f) \/ CloseRead(f) PROVE TypeOK'
    <2>1. UNCHANGED <<req, eof, bufVars, runVars, ctlVars>>
      BY <1>1 DEF OpenRead, CloseRead
    <2>2. /\ readers' \in [Fids -> Nat] /\ open' \in SUBSET Fids
          /\ slice' \in [Fids -> [from : Nat, to : Nat]]
      BY <1>1, OutFile
    <2> QED
      BY <2>1, <2>2 DEF bufVars, runVars, cmdVars, ctlVars
  <1>2. ASSUME NEW r \in Reqs, ReadCall(r) \/ WaitWake(r) \/ WaitTimeout(r) PROVE TypeOK'
    BY <1>2 DEF ReadCall, WaitWake, WaitTimeout, bufVars, runVars, cmdVars, ctlVars
  <1>3. ASSUME NEW r \in Reqs, Read(r) PROVE TypeOK'
    <2>1. ASSUME NEW count \in 1 .. MaxCount, Deliver(r, count) PROVE TypeOK'
      <3> DEFINE f  == FidOf[r]
                 to == readers[f] + Lesser(count, total - readers[f])
      <3>1. f \in Fids /\ to \in Nat
        BY <2>1, BoundsAreNaturals DEF Deliver, Lesser
      <3>2. /\ slice' = [slice EXCEPT ![f] = [from |-> readers[f], to |-> to]]
            /\ readers' = [readers EXCEPT ![f] = to]
            /\ Answer(r, FALSE)
        BY <2>1 DEF Deliver
      <3> HIDE DEF to, f
      <3>3. slice' \in [Fids -> [from : Nat, to : Nat]] /\ readers' \in [Fids -> Nat]
        BY <3>1, <3>2
      <3> QED
        BY <1>3, <3>2, <3>3 DEF Read, Answer, bufVars, runVars, cmdVars, ctlVars
    <2>2. CASE AnswerEnd(r) \/ AwaitData(r)
      BY <1>3, <2>2 DEF Read, AnswerEnd, AwaitData, Answer, bufVars, runVars, cmdVars, ctlVars
    <2> QED
      BY <1>3, <2>1, <2>2 DEF Read
  <1>4. ASSUME NEW w \in Writers, Append1(w) PROVE TypeOK'
    BY <1>4 DEF Append1, MayWrite, PieceInv, readerVars, ctlVars
  <1>11. ASSUME NEW w \in Writers, Wake(w) PROVE TypeOK'
    <2>1. run' \in RunStates /\ writing' \in SUBSET Writers /\ wake' \in BOOLEAN
      BY <1>11 DEF Wake, AgentInv
    <2>2. /\ pumps' \in SUBSET Pumps /\ held' \in SUBSET Pumps
          /\ wrote' \in [Pumps -> Nat] /\ piped' \in [Pumps -> 0 .. PipeCap]
          /\ put' \in [Pumps -> Nat] /\ cut' \in [Pumps -> Nat]
      BY <1>11, NothingIs DEF Wake, Launch, cmdVars
    <2> QED
      BY <1>11, <2>1, <2>2 DEF Wake, readerVars, ctlVars
  <1>5. CASE Take
    <2>1. /\ Head(ctl) \in Verbs /\ Tail(ctl) \in Seq(Verbs)
          /\ Len(Tail(ctl)) <= CtlCap
      BY <1>5, BoundsAreNaturals, HeadTailProperties DEF Take
    <2>2. run' \in RunStates /\ state' \in {"running", "idle", "stopped"}
      BY <1>5, <2>1 DEF Take, Verbs
    <2> QED
      BY <1>5, <2>1, <2>2 DEF Take, cmdVars, bufVars, readerVars
  <1>6. CASE ExecReturn \/ Close \/ FinalWake
    BY <1>6 DEF ExecReturn, Close, FinalWake, cmdVars, bufVars, readerVars, ctlVars
  <1>12. CASE RunReturns
    <2>1. cut' \in [Pumps -> Nat] /\ piped' \in [Pumps -> 0 .. PipeCap]
      BY <1>12, NothingIs, BoundsAreNaturals DEF RunReturns
    <2> QED
      BY <1>12, <2>1 DEF RunReturns, bufVars, readerVars, ctlVars
  <1>7. ASSUME NEW p \in Pumps, CommandWrites(p) \/ PumpReads(p) \/ PumpEnd(p) PROVE TypeOK'
    <2>1. piped' \in [Pumps -> 0 .. PipeCap] /\ wrote' \in [Pumps -> Nat]
      <3>1. ASSUME CommandWrites(p) PROVE piped[p] + 1 \in 0 .. PipeCap
        BY <3>1, BoundsAreNaturals DEF CommandWrites
      <3>2. ASSUME PumpReads(p) PROVE piped[p] - 1 \in 0 .. PipeCap
        BY <3>2, BoundsAreNaturals DEF PumpReads
      <3>3. \/ piped' = piped
            \/ \E x \in 0 .. PipeCap : piped' = [piped EXCEPT ![p] = x]
        BY <1>7, <3>1, <3>2 DEF CommandWrites, PumpReads, PumpEnd
      <3>4. wrote' = wrote \/ wrote' = [wrote EXCEPT ![p] = wrote[p] + 1]
        BY <1>7 DEF CommandWrites, PumpReads, PumpEnd
      <3>5. piped' \in [Pumps -> 0 .. PipeCap]
        <4>1. CASE piped' = piped
          BY <4>1
        <4>2. ASSUME NEW x \in 0 .. PipeCap, piped' = [piped EXCEPT ![p] = x]
              PROVE  piped' \in [Pumps -> 0 .. PipeCap]
          BY <4>2
        <4> QED
          BY <3>3, <4>1, <4>2
      <3>6. wrote' \in [Pumps -> Nat]
        <4>1. wrote[p] + 1 \in Nat
          OBVIOUS
        <4>2. \A x \in Nat : [wrote EXCEPT ![p] = x] \in [Pumps -> Nat]
          OBVIOUS
        <4> QED
          BY <3>4, <4>1, <4>2
      <3> QED
        BY <3>5, <3>6
    <2> QED
      BY <1>7, <2>1 DEF CommandWrites, PumpReads, PumpEnd, bufVars, readerVars, ctlVars
  <1>8. ASSUME NEW c \in Clients, WriteCtl(c) PROVE TypeOK'
    BY <1>8 DEF WriteCtl, bufVars, readerVars, runVars, cmdVars
  <1>9. ASSUME NEW c \in Clients, Send(c) PROVE TypeOK'
    <2>1. client[c] \in Verbs
      BY <1>9 DEF Send
    <2>2. ctl' \in Seq(Verbs) /\ Len(ctl') <= CtlCap
      BY <1>9, <2>1, BoundsAreNaturals DEF Send
    <2> QED
      BY <1>9, <2>2 DEF Send, bufVars, readerVars, runVars, cmdVars
  <1>10. CASE UNCHANGED vars
    BY <1>10 DEF vars, bufVars, readerVars, runVars, cmdVars, ctlVars
  <1> QED
    BY <1>1, <1>2, <1>3, <1>4, <1>11, <1>5, <1>6, <1>12, <1>7, <1>8, <1>9, <1>10
    DEF Next, Reader, Run, Pump, Writers

LEMMA AgentNext == TypeOK /\ AgentInv /\ PieceInv /\ [Next]_vars => AgentInv'
  <1> SUFFICES ASSUME TypeOK, AgentInv, PieceInv, [Next]_vars PROVE AgentInv'
    OBVIOUS
  <1> USE AfterTable, RunStatesAre, RunIsNoPump DEF TypeOK, AgentInv
  <1>1. ASSUME NEW w \in Writers, Append1(w) PROVE AgentInv'
    BY <1>1 DEF Append1, MayWrite, PieceInv
  <1>2. ASSUME NEW w \in Writers, Wake(w) PROVE AgentInv'
    <2>1. CASE w = "run"
      <3>1. run \in DOMAIN After /\ run' = After[run] /\ pumps = {}
              /\ (run # "prompt" => pumps' = pumps) /\ pumps' \subseteq Pumps
              /\ UNCHANGED <<closed, state>> /\ writing' = {}
        BY <1>2, <2>1 DEF Wake, Launch, cmdVars
      <3> QED
        BY <3>1
    <2>2. CASE w # "run"
      BY <1>2, <2>2 DEF Wake, cmdVars
    <2> QED
      BY <2>1, <2>2
  <1>3. CASE Take
    <2>1. Head(ctl) \in Verbs
      BY <1>3 DEF Take
    <2> QED
      BY <1>3, <2>1 DEF Take, Verbs, cmdVars, bufVars
  <1>4. CASE RunReturns \/ ExecReturn \/ Close \/ FinalWake
    BY <1>4 DEF RunReturns, ExecReturn, Close, FinalWake, cmdVars, bufVars
  <1>5. ASSUME NEW p \in Pumps, CommandWrites(p) \/ PumpReads(p) \/ PumpEnd(p)
        PROVE  AgentInv'
    BY <1>5 DEF CommandWrites, PumpReads, PumpEnd, bufVars
  <1>6. CASE UNCHANGED <<runVars, closed>>
    BY <1>6 DEF runVars, cmdVars
  <1> QED
    BY <1>1, <1>2, <1>3, <1>4, <1>5, <1>6
    DEF Next, Reader, Run, Pump, Writers, vars, bufVars, OpenRead, CloseRead, ReadCall, Read,
        WaitWake, WaitTimeout, WriteCtl, Send

LEMMA PieceNext == TypeOK /\ AgentInv /\ PieceInv /\ [Next]_vars => PieceInv'
  <1> SUFFICES ASSUME TypeOK, AgentInv, PieceInv, [Next]_vars PROVE PieceInv'
    OBVIOUS
  <1> USE AfterTable, RunIsNoPump DEF TypeOK, AgentInv, PieceInv, InHand
  <1>1. ASSUME NEW w \in Writers, Append1(w) PROVE PieceInv'
    <2>1. /\ held' = held \ {w} /\ UNCHANGED <<run, pumps, wrote, piped, cut>>
          /\ put' = [p \in Pumps |-> IF p = w THEN put[p] + 1 ELSE put[p]]
          /\ w = "run" \/ w \in held
      BY <1>1 DEF Append1, MayWrite
    <2>2. ASSUME NEW p \in Pumps
          PROVE  wrote'[p] = put'[p] + piped'[p] + cut'[p] + InHand(p)'
      <3>1. CASE p = w
        <4>1. InHand(p) = 1 /\ InHand(p)' = 0 /\ put'[p] = put[p] + 1
          BY <2>1, <3>1
        <4> QED
          BY <2>1, <4>1
      <3>2. CASE p # w
        <4>1. InHand(p)' = InHand(p) /\ put'[p] = put[p]
          BY <2>1, <3>2
        <4> QED
          BY <2>1, <4>1
      <3> QED
        BY <3>1, <3>2
    <2> QED
      BY <2>1, <2>2
  <1>2. ASSUME NEW w \in Writers, Wake(w) PROVE PieceInv'
    <2>1. CASE w = "run" /\ run = "prompt"
      BY <1>2, <2>1 DEF Wake, Launch, Nothing
    <2>2. CASE ~(w = "run" /\ run = "prompt")
      <3>1. UNCHANGED cmdVars /\ (run' = "exec" => run = "exec")
        BY <1>2, <2>2 DEF Wake
      <3> QED
        BY <3>1 DEF cmdVars
    <2> QED
      BY <2>1, <2>2
  <1>3. CASE Take
    <2>0. Head(ctl) \in Verbs
      BY <1>3 DEF Take
    <2>1. UNCHANGED cmdVars /\ run' # "exec"
      BY <1>3, <2>0 DEF Take, Verbs
    <2> QED
      BY <2>1 DEF cmdVars
  <1>4. CASE ExecReturn \/ Close \/ FinalWake
    BY <1>4 DEF ExecReturn, Close, FinalWake, cmdVars
  <1>5. CASE RunReturns
    BY <1>5 DEF RunReturns, Nothing
  <1>6. ASSUME NEW p \in Pumps, CommandWrites(p) PROVE PieceInv'
    <2>1. /\ wrote' = [wrote EXCEPT ![p] = @ + 1] /\ piped' = [piped EXCEPT ![p] = @ + 1]
          /\ p \in pumps /\ UNCHANGED <<run, pumps, held, put, cut>>
      BY <1>6 DEF CommandWrites
    <2>2. ASSUME NEW q \in Pumps
          PROVE  wrote'[q] = put'[q] + piped'[q] + cut'[q] + InHand(q)'
      <3>0. /\ wrote[q] = put[q] + piped[q] + cut[q] + InHand(q)
            /\ wrote[q] \in Nat /\ put[q] \in Nat /\ piped[q] \in Nat /\ cut[q] \in Nat
            /\ InHand(q) \in Nat
        OBVIOUS
      <3>1. InHand(q)' = InHand(q) /\ put'[q] = put[q] /\ cut'[q] = cut[q]
        BY <2>1
      <3> HIDE DEF TypeOK, AgentInv, PieceInv, InHand
      <3>2. CASE q = p
        <4>1. wrote'[q] = wrote[q] + 1 /\ piped'[q] = piped[q] + 1
          BY <2>1, <3>2 DEF TypeOK
        <4> QED
          BY <3>0, <3>1, <4>1
      <3>3. CASE q # p
        <4>1. wrote'[q] = wrote[q] /\ piped'[q] = piped[q]
          BY <2>1, <3>3 DEF TypeOK
        <4> QED
          BY <3>0, <3>1, <4>1
      <3> QED
        BY <3>2, <3>3
    <2>3. ASSUME NEW q \in Pumps \ pumps' PROVE piped'[q] = 0
      <3>1. q # p /\ q \in Pumps \ pumps
        BY <2>1, <2>3
      <3> QED
        BY <2>1, <3>1
    <2> QED
      BY <2>1, <2>2, <2>3
  <1>7. ASSUME NEW p \in Pumps, PumpReads(p) PROVE PieceInv'
    <2>1. /\ piped' = [piped EXCEPT ![p] = @ - 1] /\ held' = held \union {p}
          /\ p \in pumps /\ p \notin held /\ UNCHANGED <<run, pumps, wrote, put, cut>>
      BY <1>7 DEF PumpReads
    <2>2. ASSUME NEW q \in Pumps
          PROVE  wrote'[q] = put'[q] + piped'[q] + cut'[q] + InHand(q)'
      <3>1. CASE q = p
        <4>1. InHand(q) = 0 /\ InHand(q)' = 1 /\ piped'[q] = piped[q] - 1
          BY <2>1, <3>1
        <4> QED
          BY <2>1, <4>1
      <3>2. CASE q # p
        <4>1. InHand(q)' = InHand(q) /\ piped'[q] = piped[q]
          BY <2>1, <3>2
        <4> QED
          BY <2>1, <4>1
      <3> QED
        BY <3>1, <3>2
    <2> QED
      BY <2>1, <2>2
  <1>8. ASSUME NEW p \in Pumps, PumpEnd(p) PROVE PieceInv'
    BY <1>8 DEF PumpEnd
  <1>9. CASE UNCHANGED runVars
    BY <1>9 DEF runVars, cmdVars
  <1> QED
    BY <1>1, <1>2, <1>3, <1>4, <1>5, <1>6, <1>7, <1>8, <1>9
    DEF Next, Reader, Run, Pump, Writers, vars, OpenRead, CloseRead, ReadCall, Read,
        WaitWake, WaitTimeout, WriteCtl, Send

LEMMA CursorNext == TypeOK /\ AgentInv /\ PieceInv /\ CursorInv /\ [Next]_vars => CursorInv'
  <1> SUFFICES ASSUME TypeOK, AgentInv, PieceInv, CursorInv, [Next]_vars PROVE CursorInv'
    OBVIOUS
  <1> USE RequestsHaveFids DEF TypeOK, CursorInv
  <1>1. ASSUME NEW f \in Fids, OpenRead(f) \/ CloseRead(f) PROVE CursorInv'
    <2>1. /\ \A g \in Fids : g # f => readers'[g] = readers[g] /\ (g \in open' <=> g \in open)
          /\ f \in open' => readers'[f] = total
          /\ readers'[f] = 0 \/ readers'[f] = total \/ readers'[f] = readers[f]
          /\ UNCHANGED <<total, closed, eof>>
      BY <1>1, OutFile
    <2>2. \A g \in Fids : readers[g] \in Nat /\ readers[g] <= total
      OBVIOUS
    <2>3. ASSUME NEW g \in Fids PROVE readers'[g] <= total'
      <3>1. total \in Nat /\ total' = total
        BY <2>1
      <3>2. CASE g = f
        BY <2>1, <2>2, <3>1, <3>2
      <3>3. CASE g # f
        BY <2>1, <2>2, <3>1, <3>3
      <3> QED
        BY <3>2, <3>3
    <2> QED
      BY <2>1, <2>3
  <1>2. ASSUME NEW r \in Reqs, ReadCall(r) \/ WaitWake(r) \/ WaitTimeout(r) PROVE CursorInv'
    BY <1>2 DEF ReadCall, WaitWake, WaitTimeout, bufVars
  <1>3. ASSUME NEW r \in Reqs, Read(r) PROVE CursorInv'
    <2>1. /\ UNCHANGED <<total, closed, open>>
          /\ \A f \in Fids : readers'[f] = readers[f] \/
                (f = FidOf[r] /\ readers[f] < total /\ readers'[f] <= total)
          /\ \A s \in Reqs : s # r => eof'[s] = eof[s]
          /\ eof'[r] => closed /\ (readers'[FidOf[r]] = total \/ eof[r])
      BY <1>3, ReadStep
    <2> QED
      BY <2>1
  <1>4. CASE Run \/ RunReturns \/ \E p \in Pumps : CommandWrites(p) \/ Pump(p)
    BY <1>4, AgentStep DEF readerVars
  <1>5. ASSUME NEW c \in Clients, WriteCtl(c) \/ Send(c) PROVE CursorInv'
    BY <1>5 DEF WriteCtl, Send, bufVars, readerVars
  <1>6. CASE UNCHANGED vars
    BY <1>6 DEF vars, bufVars, readerVars
  <1> QED
    BY <1>1, <1>2, <1>3, <1>4, <1>5, <1>6 DEF Next, Reader

(* A reader that was told of the end has nothing left to read, so another  *)
(* request on its fid does not move the cursor.                            *)
LEMMA EndNext == IInv /\ [Next]_vars => EndIsLast'
  <1> SUFFICES ASSUME IInv, [Next]_vars PROVE EndIsLast'
    OBVIOUS
  <1> USE RequestsHaveFids DEF IInv, TypeOK, CursorInv, EndIsLast
  <1>1. ASSUME NEW f \in Fids, OpenRead(f) \/ CloseRead(f) PROVE EndIsLast'
    <2>1. /\ \A g \in Fids : g # f => readers'[g] = readers[g] /\ (g \in open' <=> g \in open)
          /\ f \in open' => readers'[f] = total
          /\ readers'[f] = 0 \/ readers'[f] = total \/ readers'[f] = readers[f]
          /\ UNCHANGED <<total, closed, eof>>
      BY <1>1, OutFile
    <2> QED
      BY <2>1
  <1>2. ASSUME NEW r \in Reqs, ReadCall(r) \/ WaitWake(r) \/ WaitTimeout(r) PROVE EndIsLast'
    BY <1>2 DEF ReadCall, WaitWake, WaitTimeout, bufVars
  <1>3. ASSUME NEW r \in Reqs, Read(r) PROVE EndIsLast'
    <2>1. /\ UNCHANGED <<total, closed, open>>
          /\ \A f \in Fids : readers'[f] = readers[f] \/
                (f = FidOf[r] /\ readers[f] < total /\ readers'[f] <= total)
          /\ \A s \in Reqs : s # r => eof'[s] = eof[s]
          /\ eof'[r] => closed /\ (readers'[FidOf[r]] = total \/ eof[r])
      BY <1>3, ReadStep
    <2> SUFFICES ASSUME NEW s \in Reqs, eof'[s], FidOf[s] \in open'
                 PROVE  closed' /\ readers'[FidOf[s]] = total'
      BY DEF EndIsLast
    <2>2. FidOf[s] \in Fids /\ FidOf[s] \in open /\ readers[FidOf[s]] \in Nat
      BY <2>1
    <2>3. eof[s] => closed /\ readers[FidOf[s]] = total
      BY <2>2
    <2>4. CASE eof[s]
      <3>1. readers'[FidOf[s]] = readers[FidOf[s]]
        BY <2>1, <2>2, <2>3, <2>4
      <3> QED
        BY <2>1, <2>3, <2>4, <3>1
    <2>5. CASE ~eof[s]
      BY <2>1, <2>5
    <2> QED
      BY <2>4, <2>5
  <1>4. CASE Run \/ RunReturns \/ \E p \in Pumps : CommandWrites(p) \/ Pump(p)
    BY <1>4, AgentStep DEF readerVars
  <1>5. ASSUME NEW c \in Clients, WriteCtl(c) \/ Send(c) PROVE EndIsLast'
    BY <1>5 DEF WriteCtl, Send, bufVars, readerVars
  <1>6. CASE UNCHANGED vars
    BY <1>6 DEF vars, bufVars, readerVars
  <1> QED
    BY <1>1, <1>2, <1>3, <1>4, <1>5, <1>6 DEF Next, Reader

LEMMA InvHolds == Spec => []IInv
  <1>1. Init => IInv
    <2>1. Init => TypeOK
      BY TypeInit
    <2> QED
      BY <2>1, AfterTable DEF Init, IInv, AgentInv, PieceInv, InHand, Nothing, CursorInv,
         EndIsLast
  <1>2. IInv /\ [Next]_vars => IInv'
    BY TypeNext, AgentNext, PieceNext, CursorNext, EndNext DEF IInv
  <1> QED
    BY <1>1, <1>2, PTL DEF Spec

(* A reader that was told of the end has everything, and when the status   *)
(* file says idle the copiers have ended and every piece of the command's  *)
(* output is in the buffer, but for what lay in a pipe when Run closed it  *)
(* (agentBuf.Read and execCommand of cmd/l9term/main.go).                  *)
THEOREM TabIsSafe == Spec => []TabSafe
  <1>1. ASSUME IInv PROVE IdleMeansComplete
    <2> SUFFICES ASSUME state = "idle"
                 PROVE  /\ pumps = {} /\ writing \subseteq {"run"}
                        /\ \A p \in Pumps : put[p] + cut[p] = wrote[p]
      BY DEF IdleMeansComplete
    <2>1. pumps = {} /\ writing \subseteq {"run"} /\ held = {}
      BY <1>1 DEF IInv, AgentInv, PieceInv
    <2>2. ASSUME NEW p \in Pumps PROVE put[p] + cut[p] = wrote[p]
      <3>1. /\ piped[p] = 0 /\ InHand(p) = 0
            /\ wrote[p] = put[p] + piped[p] + cut[p] + InHand(p)
        BY <1>1, <2>1 DEF IInv, PieceInv, InHand
      <3>2. put[p] \in Nat /\ cut[p] \in Nat
        BY <1>1 DEF IInv, TypeOK
      <3> QED
        BY <3>1, <3>2
    <2> QED
      BY <2>1, <2>2
  <1>2. IInv => TabSafe
    BY <1>1 DEF IInv, TabSafe
  <1> QED
    BY <1>2, InvHolds, PTL

-----------------------------------------------------------------------------
(* The stream implements the abstract log. *)

LEMMA LogInit == Init => Log!Init
  BY DEF Init, Log!Init, NoSlice, Log!NoSlice

LEMMA LogNext == IInv /\ [Next]_vars => [Log!Next]_Log!vars
  <1> SUFFICES ASSUME IInv, [Next]_vars PROVE [Log!Next]_Log!vars
    OBVIOUS
  <1> USE RequestsHaveFids DEF TypeOK, IInv
  <1>1. ASSUME NEW f \in Fids, OpenRead(f) PROVE Log!Next
    <2>1. total \in 0 .. total
      OBVIOUS
    <2>2. Log!Open(f)
      BY <1>1, <2>1 DEF OpenRead, Log!Open, bufVars
    <2> QED
      BY <2>2 DEF Log!Next
  <1>2. ASSUME NEW f \in Fids, CloseRead(f) PROVE Log!Next
    <2>1. {0, readers[f]} \subseteq 0 .. total
      BY DEF CursorInv
    <2>2. Log!Clunk(f)
      BY <1>2, <2>1 DEF CloseRead, Log!Clunk, bufVars
    <2> QED
      BY <2>2 DEF Log!Next
  <1>3. ASSUME NEW r \in Reqs, NEW count \in 1 .. MaxCount, Read(r), Deliver(r, count)
        PROVE  Log!Next
    <2> DEFINE f  == FidOf[r]
               to == readers[f] + Lesser(count, total - readers[f])
    <2>1. to \in readers[f] .. total
      BY <1>3, BoundsAreNaturals DEF Deliver, Lesser
    <2>2. /\ slice' = [slice EXCEPT ![f] = [from |-> readers[f], to |-> to]]
          /\ readers' = [readers EXCEPT ![f] = to]
          /\ UNCHANGED <<total, closed, open>>
      BY <1>3 DEF Read, Deliver, bufVars
    <2> HIDE DEF to
    <2>3. Log!Deliver(f)
      BY <2>1, <2>2 DEF Log!Deliver
    <2> QED
      BY <2>3 DEF Log!Next
  <1>4. ASSUME NEW r \in Reqs, Reader(r) \/ ReadCall(r),
               ~ \E count \in 1 .. MaxCount : Read(r) /\ Deliver(r, count)
        PROVE  UNCHANGED Log!vars
    BY <1>4 DEF Reader, ReadCall, Read, AnswerEnd, AwaitData, WaitWake, WaitTimeout,
       bufVars, Log!vars
  <1>5. CASE Run \/ RunReturns \/ \E p \in Pumps : CommandWrites(p) \/ Pump(p)
    <2>1. /\ UNCHANGED <<open, readers, slice>>
          /\ total' \in Nat /\ total' >= total
          /\ closed => closed' /\ total' = total
          /\ closed' # closed => total' = total
      BY <1>5, AgentStep DEF readerVars
    <2>2. closed' \in BOOLEAN
      BY TypeNext
    <2>3. CASE closed' = closed /\ total' = total
      BY <2>1, <2>3 DEF Log!vars
    <2>4. CASE ~closed /\ closed'
      BY <2>1, <2>2, <2>4 DEF Log!Next, Log!End
    <2>5. CASE ~closed /\ ~closed' /\ total' > total
      BY <2>1, <2>2, <2>5 DEF Log!Next, Log!Grow
    <2> QED
      BY <2>1, <2>2, <2>3, <2>4, <2>5
  <1>6. ASSUME NEW c \in Clients, WriteCtl(c) \/ Send(c) PROVE UNCHANGED Log!vars
    BY <1>6 DEF WriteCtl, Send, bufVars, readerVars, Log!vars
  <1>7. CASE UNCHANGED vars
    BY <1>7 DEF vars, bufVars, readerVars, Log!vars
  <1> QED
    BY <1>1, <1>2, <1>3, <1>4, <1>5, <1>6, <1>7 DEF Next, Reader

(* However many requests a client keeps on a fid, and whether or not the   *)
(* library clunks it, the fid is given the output in order, without gaps   *)
(* or repetition, from where the output ended when it was opened.          *)
THEOREM TabIsALog == Spec => ImplementsOutLog
  BY LogInit, LogNext, InvHolds, PTL DEF Spec, ImplementsOutLog, Log!Spec
=============================================================================
