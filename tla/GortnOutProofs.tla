--------------------------- MODULE GortnOutProofs ---------------------------
(***************************************************************************)
(* Proofs about GortnOut, for any number of fids, requests and pumps and   *)
(* any bounds.                                                             *)
(***************************************************************************)
EXTENDS GortnOut, TLAPS

(* Who can write: only pumps of a running command, or the agent's own      *)
(* goroutine outside its select; and closed is set by the last two states  *)
(* of that goroutine alone.                                                *)
WritersInv ==
  /\ pumps # {} => run = "exec"
  /\ \A w \in writing : w \in pumps \/ (w = "run" /\ run \in {"banner", "command"})
  /\ closed <=> run \in {"waking", "done"}

(* A request that is still unanswered has not been told of an end. *)
AnswerInv == \A r \in Reqs : req[r] # "idle" => eof[r] = "none"

IInv ==
  /\ TypeOK
  /\ NoOverrun
  /\ WritersInv
  /\ AnswerInv
  /\ EofMeansDrained

(* With one request at a time on a fid, a request's local copy of the      *)
(* offset is the fid's cursor while it is in the buffer's critical section.*)
OneRequest ==
  \A r \in Reqs : FidOf[r] \in Solo =>
    /\ \A s \in Reqs :
          FidOf[s] = FidOf[r] /\ s # r => req[r] = "idle" \/ req[s] = "idle"
    /\ req[r] = "buffer" => off[r] = readers[FidOf[r]]

-----------------------------------------------------------------------------
(* Type correctness. *)

LEMMA TypeInit == Init => TypeOK
  <1>1. NoSlice \in [from : Nat, to : Nat]
    BY DEF NoSlice
  <1>2. ASSUME Init PROVE slice \in [Fids -> [from : Nat, to : Nat]]
    BY <1>1, <1>2 DEF Init
  <1>3. ASSUME Init PROVE outLen \in Nat /\ readers \in [Fids -> Nat] /\ off \in [Reqs -> Nat]
    BY <1>3 DEF Init
  <1> QED
    BY <1>2, <1>3 DEF Init, TypeOK, ReqStates, EofCauses, RunStates, Writers

LEMMA TypeNext == TypeOK /\ [Next]_vars => TypeOK'
  <1> SUFFICES ASSUME TypeOK, [Next]_vars PROVE TypeOK'
    OBVIOUS
  <1> USE RequestsHaveFids, BoundsAreNaturals
          DEF TypeOK, ReqStates, EofCauses, RunStates, Writers, clientVars, agentVars, Forget
  <1>1. ASSUME NEW f \in Fids, Open(f) PROVE TypeOK'
    <2>1. NoSlice \in [from : Nat, to : Nat]
      BY DEF NoSlice
    <2>2. slice' \in [Fids -> [from : Nat, to : Nat]]
      BY <1>1, <2>1 DEF Open
    <2>3. readers' \in [Fids -> Nat] /\ open' \in SUBSET Fids
      BY <1>1 DEF Open, openReader
    <2> QED
      BY <1>1, <2>2, <2>3 DEF Open
  <1>2. ASSUME NEW f \in Fids, Clunk(f) PROVE TypeOK'
    BY <1>2 DEF Clunk, closeReader
  <1>3. CASE StopAgent
    BY <1>3, SMTT(30) DEF StopAgent, Reply
  <1>4. CASE EnterSelect
    BY <1>4 DEF EnterSelect
  <1>5. CASE TakeCommand
    BY <1>5 DEF TakeCommand
  <1>6. CASE StartPumps
    BY <1>6 DEF StartPumps
  <1>7. CASE ExecReturn
    BY <1>7 DEF ExecReturn
  <1>8. CASE CloseOut
    <2>1. CASE closed
      BY <1>8, <2>1 DEF CloseOut
    <2>2. CASE ~closed
      BY <1>8, <2>2 DEF CloseOut
    <2> QED
      BY <2>1, <2>2
  <1>9. CASE FinalWake
    BY <1>9 DEF FinalWake
  <1>10. ASSUME NEW p \in Pumps, PumpEnd(p) PROVE TypeOK'
    BY <1>10 DEF PumpEnd
  <1>11. ASSUME NEW w \in Writers, Append(w) PROVE TypeOK'
    BY <1>11 DEF Append, MayWrite
  <1>12. ASSUME NEW w \in Writers, Wake(w) PROVE TypeOK'
    BY <1>12 DEF Wake
  <1>13. ASSUME NEW r \in Reqs, ReadCall(r) PROVE TypeOK'
    BY <1>13 DEF ReadCall
  <1>14. ASSUME NEW r \in Reqs, FetchOffset(r) PROVE TypeOK'
    BY <1>14 DEF FetchOffset
  <1>15. ASSUME NEW r \in Reqs, ReadBuffer(r) PROVE TypeOK'
    <2>1. ASSUME NEW count \in 0 .. MaxCount, Deliver(r, count) PROVE TypeOK'
      <3> DEFINE to == off[r] + Taken(r, count)
      <3>1. to \in Nat
        BY DEF Taken, Lesser
      <3>2. [from |-> off[r], to |-> to] \in [from : Nat, to : Nat]
        BY <3>1
      <3> QED
        BY <1>15, <2>1, <3>1, <3>2 DEF ReadBuffer, Deliver, Reply
    <2>2. CASE AnswerEnd(r)
      BY <1>15, <2>2 DEF ReadBuffer, AnswerEnd, Reply
    <2>3. CASE AwaitData(r)
      BY <1>15, <2>3 DEF ReadBuffer, AwaitData
    <2> QED
      BY <1>15, <2>1, <2>2, <2>3 DEF ReadBuffer
  <1>16. ASSUME NEW r \in Reqs, WaitWake(r) PROVE TypeOK'
    BY <1>16 DEF WaitWake
  <1>17. ASSUME NEW r \in Reqs, WaitTimeout(r) PROVE TypeOK'
    BY <1>17 DEF WaitTimeout
  <1>18. CASE UNCHANGED vars
    BY <1>18 DEF vars
  <1> QED
    BY <1>1, <1>2, <1>3, <1>4, <1>5, <1>6, <1>7, <1>8, <1>9, <1>10, <1>11,
       <1>12, <1>13, <1>14, <1>15, <1>16, <1>17, <1>18 DEF Next, Client, Reader, Agent

(* Every variable keeps to its type. *)
THEOREM TypeCorrect == Spec => []TypeOK
  BY TypeInit, TypeNext, PTL DEF Spec

-----------------------------------------------------------------------------
(* The inductive invariant, one conjunct at a time. *)

LEMMA WritersNext == TypeOK /\ WritersInv /\ [Next]_vars => WritersInv'
  <1> SUFFICES ASSUME TypeOK, WritersInv, [Next]_vars PROVE WritersInv'
    OBVIOUS
  <1> USE DEF WritersInv
  <1>1. CASE Client
    BY <1>1 DEF Client, Open, Clunk, agentVars
  <1>2. CASE StopAgent
    BY <1>2 DEF StopAgent
  <1>3. CASE EnterSelect
    BY <1>3 DEF EnterSelect
  <1>4. CASE TakeCommand
    BY <1>4 DEF TakeCommand
  <1>5. CASE StartPumps
    BY <1>5 DEF StartPumps
  <1>6. CASE ExecReturn
    BY <1>6 DEF ExecReturn
  <1>7. CASE CloseOut
    BY <1>7 DEF CloseOut
  <1>8. CASE FinalWake
    BY <1>8 DEF FinalWake
  <1>9. ASSUME NEW p \in Pumps, PumpEnd(p) PROVE WritersInv'
    BY <1>9 DEF PumpEnd
  <1>10. ASSUME NEW w \in Writers, Append(w) PROVE WritersInv'
    BY <1>10 DEF Append, MayWrite
  <1>11. ASSUME NEW w \in Writers, Wake(w) PROVE WritersInv'
    BY <1>11 DEF Wake
  <1>12. ASSUME NEW r \in Reqs, ReadCall(r) \/ Reader(r) PROVE WritersInv'
    BY <1>12 DEF ReadCall, Reader, FetchOffset, ReadBuffer, WaitWake, WaitTimeout, agentVars
  <1>13. CASE UNCHANGED vars
    BY <1>13 DEF vars
  <1> QED
    BY <1>1, <1>2, <1>3, <1>4, <1>5, <1>6, <1>7, <1>8, <1>9, <1>10, <1>11, <1>12, <1>13
       DEF Next, Agent

(* What the agent's side does to the stream: it never touches a reader's   *)
(* variables, only ever adds to the buffer, and adds nothing once closed.  *)
LEMMA AgentStep ==
  ASSUME TypeOK, WritersInv, Agent
  PROVE  /\ UNCHANGED clientVars
         /\ outLen' \in Nat
         /\ outLen' >= outLen
         /\ closed => closed' /\ outLen' = outLen
  <1> USE DEF TypeOK
  <1>1. CASE EnterSelect \/ TakeCommand \/ StartPumps \/ ExecReturn \/ FinalWake
    BY <1>1 DEF EnterSelect, TakeCommand, StartPumps, ExecReturn, FinalWake
  <1>2. CASE CloseOut
    BY <1>2 DEF CloseOut
  <1>3. ASSUME NEW p \in Pumps, PumpEnd(p)
        PROVE  UNCHANGED <<clientVars, outLen, closed>>
    BY <1>3 DEF PumpEnd
  <1>4. ASSUME NEW w \in Writers, Append(w)
        PROVE  /\ UNCHANGED <<clientVars, closed>>
               /\ outLen' \in Nat /\ outLen' > outLen
               /\ ~closed
    <2>1. ~closed
      BY <1>4 DEF Append, MayWrite, WritersInv
    <2> QED
      BY <1>4, <2>1, BoundsAreNaturals DEF Append
  <1>5. ASSUME NEW w \in Writers, Wake(w)
        PROVE  UNCHANGED <<clientVars, outLen, closed>>
    BY <1>5 DEF Wake
  <1> QED
    BY <1>1, <1>2, <1>3, <1>4, <1>5 DEF Agent

LEMMA OverrunNext ==
  TypeOK /\ WritersInv /\ NoOverrun /\ [Next]_vars => NoOverrun'
  <1> SUFFICES ASSUME TypeOK, WritersInv, NoOverrun, [Next]_vars PROVE NoOverrun'
    OBVIOUS
  <1> USE RequestsHaveFids DEF TypeOK, NoOverrun, Forget
  <1>1. ASSUME NEW f \in Fids, Open(f) \/ Clunk(f) PROVE NoOverrun'
    BY <1>1 DEF Open, Clunk, openReader, closeReader, NoSlice
  <1>2. CASE StopAgent
    BY <1>2 DEF StopAgent, Reply
  <1>3. CASE Agent
    BY <1>3, AgentStep DEF clientVars
  <1>4. ASSUME NEW r \in Reqs, ReadCall(r) \/ FetchOffset(r) \/ WaitWake(r) \/ WaitTimeout(r)
        PROVE  NoOverrun'
    BY <1>4 DEF ReadCall, FetchOffset, WaitWake, WaitTimeout
  <1>5. ASSUME NEW r \in Reqs, ReadBuffer(r) PROVE NoOverrun'
    <2>1. ASSUME NEW count \in 0 .. MaxCount, Deliver(r, count) PROVE NoOverrun'
      <3> DEFINE to == off[r] + Taken(r, count)
      <3>1. to \in Nat /\ to <= outLen
        BY <1>5, BoundsAreNaturals DEF ReadBuffer, Taken, Lesser
      <3> HIDE DEF to
      <3>2. /\ readers' = [readers EXCEPT ![FidOf[r]] = to]
            /\ slice' = [slice EXCEPT ![FidOf[r]] = [from |-> off[r], to |-> to]]
            /\ req' = [req EXCEPT ![r] = "idle"]
        BY <2>1 DEF Deliver, Reply, to
      <3>3. off' = [off EXCEPT ![r] = 0] /\ outLen' = outLen
        BY <1>5, <2>1 DEF ReadBuffer, Deliver
      <3> QED
        BY <3>1, <3>2, <3>3
    <2>2. CASE AnswerEnd(r)
      BY <1>5, <2>2 DEF ReadBuffer, AnswerEnd, Reply
    <2>3. CASE AwaitData(r)
      BY <1>5, <2>3 DEF ReadBuffer, AwaitData
    <2> QED
      BY <1>5, <2>1, <2>2, <2>3 DEF ReadBuffer
  <1>6. CASE UNCHANGED vars
    BY <1>6 DEF vars
  <1> QED
    BY <1>1, <1>2, <1>3, <1>4, <1>5, <1>6 DEF Next, Client, Reader

LEMMA AnswerNext ==
  TypeOK /\ WritersInv /\ AnswerInv /\ [Next]_vars => AnswerInv'
  <1> SUFFICES ASSUME TypeOK, WritersInv, AnswerInv, [Next]_vars PROVE AnswerInv'
    OBVIOUS
  <1> USE DEF TypeOK, AnswerInv
  <1>1. CASE Client
    BY <1>1 DEF Client, Open, Clunk
  <1>2. CASE StopAgent
    BY <1>2 DEF StopAgent, Reply
  <1>3. CASE Agent
    BY <1>3, AgentStep DEF clientVars
  <1>4. ASSUME NEW r \in Reqs, ReadCall(r) \/ FetchOffset(r) \/ WaitWake(r) \/ WaitTimeout(r)
        PROVE  AnswerInv'
    BY <1>4 DEF ReadCall, FetchOffset, WaitWake, WaitTimeout
  <1>5. ASSUME NEW r \in Reqs, ReadBuffer(r) PROVE AnswerInv'
    BY <1>5 DEF ReadBuffer, Deliver, AnswerEnd, AwaitData, Reply
  <1>6. CASE UNCHANGED vars
    BY <1>6 DEF vars
  <1> QED
    BY <1>1, <1>2, <1>3, <1>4, <1>5, <1>6 DEF Next, Reader

(* FetchOffset is the step that could spoil an answer already given: it    *)
(* cannot, because the request it works for has none.                      *)
LEMMA DrainedNext == IInv /\ [Next]_vars => EofMeansDrained'
  <1> SUFFICES ASSUME IInv, [Next]_vars PROVE EofMeansDrained'
    OBVIOUS
  <1> USE DEF IInv, TypeOK, EofMeansDrained, AnswerInv, Forget
  <1>1. CASE Client
    BY <1>1 DEF Client, Open, Clunk
  <1>2. CASE StopAgent
    BY <1>2 DEF StopAgent, Reply
  <1>3. CASE Agent
    BY <1>3, AgentStep DEF clientVars
  <1>4. ASSUME NEW r \in Reqs, ReadCall(r) \/ WaitWake(r) \/ WaitTimeout(r)
        PROVE  EofMeansDrained'
    BY <1>4 DEF ReadCall, WaitWake, WaitTimeout
  <1>5. ASSUME NEW r \in Reqs, FetchOffset(r) PROVE EofMeansDrained'
    BY <1>5 DEF FetchOffset
  <1>6. ASSUME NEW r \in Reqs, ReadBuffer(r) PROVE EofMeansDrained'
    BY <1>6 DEF ReadBuffer, Deliver, AnswerEnd, AwaitData, Reply
  <1>7. CASE UNCHANGED vars
    BY <1>7 DEF vars
  <1> QED
    BY <1>1, <1>2, <1>3, <1>4, <1>5, <1>6, <1>7 DEF Next, Reader

LEMMA IInvInit == Init => IInv
  <1> SUFFICES ASSUME Init PROVE IInv
    OBVIOUS
  <1>1. TypeOK
    BY TypeInit
  <1> QED
    BY <1>1 DEF Init, IInv, NoOverrun, NoSlice, WritersInv, AnswerInv, EofMeansDrained

LEMMA IInvNext == IInv /\ [Next]_vars => IInv'
  BY TypeNext, WritersNext, OverrunNext, AnswerNext, DrainedNext DEF IInv

LEMMA IInvAlways == Spec => []IInv
  BY IInvInit, IInvNext, PTL DEF Spec

(* No read, however requests on a fid interleave, copies from outside the  *)
(* buffer.                                                                 *)
THEOREM NeverOverruns == Spec => []NoOverrun
  <1>1. IInv => NoOverrun
    BY DEF IInv
  <1> QED
    BY <1>1, IInvAlways, PTL

(* A reader told that the closed stream has ended has been given all of    *)
(* it.                                                                     *)
THEOREM EndIsDrained == Spec => []EofMeansDrained
  <1>1. IInv => EofMeansDrained
    BY DEF IInv
  <1> QED
    BY <1>1, IInvAlways, PTL

(* Nothing is written to a stream that has been closed. *)
THEOREM ClosedIsFinal == Spec => NoOutputAfterClose
  <1>1. IInv /\ [Next]_vars => [closed => closed' /\ outLen' = outLen]_vars
    <2> SUFFICES ASSUME IInv, [Next]_vars PROVE closed => closed' /\ outLen' = outLen
      OBVIOUS
    <2>1. CASE Agent
      BY <2>1, AgentStep DEF IInv
    <2>2. CASE Client \/ StopAgent
      BY <2>2 DEF Client, Open, Clunk, StopAgent
    <2>3. ASSUME NEW r \in Reqs, ReadCall(r) \/ Reader(r)
          PROVE  closed' = closed /\ outLen' = outLen
      BY <2>3 DEF ReadCall, Reader, FetchOffset, ReadBuffer, WaitWake, WaitTimeout
    <2>4. CASE UNCHANGED vars
      BY <2>4 DEF vars
    <2> QED
      BY <2>1, <2>2, <2>3, <2>4 DEF Next
  <1> QED
    BY <1>1, IInvAlways, PTL DEF Spec, NoOutputAfterClose

-----------------------------------------------------------------------------
(* The stream implements the abstract log. *)

LEMMA OneRequestNext ==
  TypeOK /\ WritersInv /\ OneRequest /\ [Next]_vars => OneRequest'
  <1> SUFFICES ASSUME TypeOK, WritersInv, OneRequest, [Next]_vars PROVE OneRequest'
    OBVIOUS
  <1> USE RequestsHaveFids DEF TypeOK, OneRequest, Forget
  <1>1. ASSUME NEW f \in Fids, Open(f) \/ Clunk(f) PROVE OneRequest'
    <2>1. f \in Solo => \A r \in Reqs : FidOf[r] = f => req[r] = "idle"
      BY <1>1 DEF Open, Clunk, MayUse, Quiet, Solo
    <2>2. \A g \in Fids : g # f => readers'[g] = readers[g]
      BY <1>1 DEF Open, Clunk, openReader, closeReader
    <2> QED
      BY <1>1, <2>1, <2>2 DEF Open, Clunk
  <1>2. CASE StopAgent
    BY <1>2 DEF StopAgent, Reply
  <1>3. CASE Agent
    BY <1>3, AgentStep DEF clientVars
  <1>4. ASSUME NEW r \in Reqs, ReadCall(r) PROVE OneRequest'
    BY <1>4 DEF ReadCall, MayUse, Quiet, Solo
  <1>5. ASSUME NEW r \in Reqs, FetchOffset(r) \/ WaitWake(r) \/ WaitTimeout(r)
        PROVE  OneRequest'
    BY <1>5 DEF FetchOffset, WaitWake, WaitTimeout
  <1>6. ASSUME NEW r \in Reqs, ReadBuffer(r) PROVE OneRequest'
    <2>1. FidOf[r] \in Solo =>
            \A s \in Reqs : s # r /\ FidOf[s] = FidOf[r] => req[s] = "idle"
      BY <1>6 DEF ReadBuffer
    <2>2. \A s \in Reqs : FidOf[s] # FidOf[r] => readers'[FidOf[s]] = readers[FidOf[s]]
      BY <1>6 DEF ReadBuffer, Deliver, AnswerEnd, AwaitData
    <2>3. /\ \A s \in Reqs : s # r => off'[s] = off[s] /\ req'[s] = req[s]
          /\ req'[r] \in {"idle", "select"}
      BY <1>6 DEF ReadBuffer, Deliver, AnswerEnd, AwaitData, Reply
    <2> QED
      BY <2>1, <2>2, <2>3
  <1>7. CASE UNCHANGED vars
    BY <1>7 DEF vars
  <1> QED
    BY <1>1, <1>2, <1>3, <1>4, <1>5, <1>6, <1>7 DEF Next, Client, Reader

(* The abstract log's cursors and last slices. *)
soloNext  == [f \in Solo |-> readers[f]]
soloSlice == [f \in Solo |-> slice[f]]

LEMMA LogInit == Init => Log!Init
  BY DEF Init, Solo, Log!Init, NoSlice, Log!NoSlice

LEMMA LogNext == IInv /\ OneRequest /\ [Next]_vars => [Log!Next]_Log!vars
  <1> SUFFICES ASSUME IInv, OneRequest, [Next]_vars PROVE [Log!Next]_Log!vars
    OBVIOUS
  <1> USE RequestsHaveFids DEF TypeOK, IInv
  <1>1. ASSUME NEW f \in Fids, Open(f) PROVE [Log!Next]_Log!vars
    <2>1. /\ readers' = [readers EXCEPT ![f] = 0]
          /\ slice' = [slice EXCEPT ![f] = [from |-> 0, to |-> 0]]
          /\ open' = open \union {f}
          /\ outLen' = outLen /\ closed' = closed
      BY <1>1 DEF Open, openReader, NoSlice
    <2>2. CASE f \in Solo
      <3>1. /\ soloNext' = [soloNext EXCEPT ![f] = 0]
            /\ soloSlice' = [soloSlice EXCEPT ![f] = [from |-> 0, to |-> 0]]
        BY <2>1, <2>2 DEF soloNext, soloSlice, Solo
      <3>2. 0 \in 0 .. outLen
        OBVIOUS
      <3>3. (open \intersect Solo)' = (open \intersect Solo) \union {f}
        BY <2>1, <2>2 DEF Solo
      <3>4. Log!Open(f)
        BY <2>1, <3>1, <3>2, <3>3 DEF Log!Open, soloNext, soloSlice
      <3> QED
        BY <2>2, <3>4 DEF Log!Next
    <2>3. CASE f \notin Solo
      <3>1. soloNext' = soloNext /\ soloSlice' = soloSlice
        BY <2>1, <2>3 DEF soloNext, soloSlice, Solo
      <3>2. (open \intersect Solo)' = open \intersect Solo
        BY <2>1, <2>3 DEF Solo
      <3> QED
        BY <2>1, <3>1, <3>2 DEF Log!vars, soloNext, soloSlice
    <2> QED
      BY <2>2, <2>3
  <1>2. ASSUME NEW f \in Fids, Clunk(f) PROVE [Log!Next]_Log!vars
    <2>1. /\ slice' = slice
          /\ open' = open \ {f}
          /\ outLen' = outLen /\ closed' = closed
      BY <1>2 DEF Clunk
    <2>2. PICK p \in 0 .. outLen : readers' = [readers EXCEPT ![f] = p]
      <3>1. 0 \in 0 .. outLen /\ readers[f] \in 0 .. outLen
        BY DEF NoOverrun
      <3>2. readers' = [readers EXCEPT ![f] = 0] \/ readers' = [readers EXCEPT ![f] = readers[f]]
        BY <1>2 DEF Clunk, closeReader
      <3> QED
        BY <3>1, <3>2
    <2>3. CASE f \in Solo
      <3>1. soloNext' = [soloNext EXCEPT ![f] = p] /\ soloSlice' = soloSlice
        BY <2>1, <2>2, <2>3 DEF soloNext, soloSlice, Solo
      <3>2. (open \intersect Solo)' = (open \intersect Solo) \ {f}
        BY <2>1 DEF Solo
      <3>3. Log!Clunk(f)
        BY <2>1, <3>1, <3>2 DEF Log!Clunk, soloNext, soloSlice
      <3> QED
        BY <2>3, <3>3 DEF Log!Next
    <2>4. CASE f \notin Solo
      <3>1. soloNext' = soloNext /\ soloSlice' = soloSlice
        BY <2>1, <2>2, <2>4 DEF soloNext, soloSlice, Solo
      <3>2. (open \intersect Solo)' = open \intersect Solo
        BY <2>1, <2>4 DEF Solo
      <3> QED
        BY <2>1, <3>1, <3>2 DEF Log!vars, soloNext, soloSlice
    <2> QED
      BY <2>3, <2>4
  <1>3. ASSUME UNCHANGED <<outLen, closed, open, readers, slice>> PROVE UNCHANGED Log!vars
    BY <1>3 DEF Log!vars, Solo
  <1>4. CASE StopAgent
    BY <1>3, <1>4 DEF StopAgent
  <1>5. CASE Agent
    <2>1. /\ UNCHANGED <<open, readers, slice>>
          /\ outLen' \in Nat /\ outLen' >= outLen
          /\ closed => closed' /\ outLen' = outLen
      BY <1>5, AgentStep DEF clientVars
    <2>2. UNCHANGED <<open \intersect Solo, soloNext, soloSlice>>
      BY <2>1 DEF soloNext, soloSlice, Solo
    <2>3. closed' \in BOOLEAN
      BY TypeNext
    <2>4. CASE closed' = closed /\ outLen' = outLen
      BY <1>3, <2>1, <2>4
    <2>5. CASE ~closed /\ closed'
      BY <2>1, <2>2, <2>3, <2>5 DEF Log!Next, Log!End, soloNext, soloSlice
    <2>6. CASE ~closed /\ ~closed' /\ outLen' > outLen
      BY <2>1, <2>2, <2>3, <2>6 DEF Log!Next, Log!Grow, soloNext, soloSlice
    <2> QED
      BY <2>1, <2>3, <2>4, <2>5, <2>6
  <1>6. ASSUME NEW r \in Reqs, ReadCall(r) \/ FetchOffset(r) \/ WaitWake(r) \/ WaitTimeout(r)
        PROVE  UNCHANGED Log!vars
    BY <1>3, <1>6 DEF ReadCall, FetchOffset, WaitWake, WaitTimeout
  <1>7. ASSUME NEW r \in Reqs, ReadBuffer(r) PROVE [Log!Next]_Log!vars
    <2>1. ASSUME NEW count \in 0 .. MaxCount, Deliver(r, count) PROVE [Log!Next]_Log!vars
      <3> DEFINE f  == FidOf[r]
                 to == off[r] + Taken(r, count)
      <3>1. /\ readers' = [readers EXCEPT ![f] = to]
            /\ slice' = [slice EXCEPT ![f] = [from |-> off[r], to |-> to]]
            /\ UNCHANGED <<outLen, closed, open>>
        BY <1>7, <2>1 DEF ReadBuffer, Deliver
      <3>2. CASE f \in Solo
        <4>1. off[r] = readers[f]
          BY <1>7, <3>2 DEF ReadBuffer, OneRequest
        <4>2. to \in readers[f] .. outLen
          BY <4>1, <1>7, BoundsAreNaturals DEF ReadBuffer, Taken, Lesser, NoOverrun
        <4> HIDE DEF to
        <4>3. /\ soloNext' = [soloNext EXCEPT ![f] = to]
              /\ soloSlice' = [soloSlice EXCEPT ![f] = [from |-> soloNext[f], to |-> to]]
              /\ soloNext[f] = readers[f]
          BY <3>1, <3>2, <4>1 DEF soloNext, soloSlice, Solo
        <4>4. Log!Deliver(f)
          BY <3>1, <4>2, <4>3 DEF Log!Deliver, soloNext, soloSlice
        <4> QED
          BY <3>2, <4>4 DEF Log!Next
      <3>3. CASE f \notin Solo
        <4> HIDE DEF to
        <4>1. soloNext' = soloNext /\ soloSlice' = soloSlice
          BY <3>1, <3>3 DEF soloNext, soloSlice, Solo
        <4> QED
          BY <3>1, <4>1 DEF Log!vars, soloNext, soloSlice
      <3> QED
        BY <3>2, <3>3
    <2>2. CASE AnswerEnd(r) \/ AwaitData(r)
      BY <1>3, <1>7, <2>2 DEF ReadBuffer, AnswerEnd, AwaitData
    <2> QED
      BY <1>7, <2>1, <2>2 DEF ReadBuffer
  <1>8. CASE UNCHANGED vars
    BY <1>3, <1>8 DEF vars
  <1> QED
    BY <1>1, <1>2, <1>4, <1>5, <1>6, <1>7, <1>8 DEF Next, Client, Reader

(* What a fid with one request at a time is given is the output in order,  *)
(* without gaps or repetition: the stream implements OutLog.               *)
THEOREM StreamIsALog == Spec => ImplementsOutLog
  <1>1. Init => OneRequest
    BY DEF Init, OneRequest
  <1>2. IInv /\ OneRequest /\ [Next]_vars => OneRequest'
    BY OneRequestNext DEF IInv
  <1> QED
    BY <1>1, <1>2, LogInit, LogNext, IInvAlways, PTL DEF Spec, ImplementsOutLog, Log!Spec

-----------------------------------------------------------------------------
(* A single reader never sleeps through a wake-up. *)

LEMMA PromptNext ==
  ASSUME \A r, s \in Reqs : r = s
  PROVE  IInv /\ PromptWake /\ [Next]_vars => PromptWake'
  <1> SUFFICES ASSUME IInv, PromptWake, [Next]_vars PROVE PromptWake'
    OBVIOUS
  <1> USE DEF IInv, TypeOK, PromptWake, Forget
  <1>1. CASE Client
    BY <1>1 DEF Client, Open, Clunk, agentVars
  <1>2. CASE StopAgent
    BY <1>2 DEF StopAgent, Reply
  <1>3. CASE EnterSelect \/ TakeCommand \/ StartPumps \/ ExecReturn
    BY <1>3 DEF EnterSelect, TakeCommand, StartPumps, ExecReturn, clientVars
  <1>4. CASE CloseOut \/ FinalWake
    BY <1>4 DEF CloseOut, FinalWake, clientVars
  <1>5. ASSUME NEW p \in Pumps, PumpEnd(p) PROVE PromptWake'
    BY <1>5 DEF PumpEnd, clientVars
  <1>6. ASSUME NEW w \in Writers, Append(w) \/ Wake(w) PROVE PromptWake'
    BY <1>6 DEF Append, Wake, clientVars
  <1>7. ASSUME NEW r \in Reqs, ReadCall(r) \/ FetchOffset(r) \/ WaitWake(r) \/ WaitTimeout(r)
        PROVE  PromptWake'
    BY <1>7 DEF ReadCall, FetchOffset, WaitWake, WaitTimeout
  <1>8. ASSUME NEW r \in Reqs, ReadBuffer(r) PROVE PromptWake'
    BY <1>8 DEF ReadBuffer, Deliver, AnswerEnd, AwaitData, Reply
  <1>9. CASE UNCHANGED vars
    BY <1>9 DEF vars
  <1> QED
    BY <1>1, <1>2, <1>3, <1>4, <1>5, <1>6, <1>7, <1>8, <1>9 DEF Next, Agent, Reader

(* When at most one request is ever outstanding, a parked request whose    *)
(* data has come, or whose stream has closed, has a wake-up waiting or     *)
(* under way.                                                              *)
THEOREM NoLostWakeup == ASSUME \A r, s \in Reqs : r = s PROVE Spec => []PromptWake
  <1>1. Init => PromptWake
    BY DEF Init, PromptWake
  <1> QED
    BY <1>1, PromptNext, IInvAlways, PTL DEF Spec
=============================================================================
