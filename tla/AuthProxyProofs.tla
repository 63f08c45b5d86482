-------------------------- MODULE AuthProxyProofs --------------------------
(***************************************************************************)
(* Proofs about AuthProxy for any size of buffer, overhead and amount of   *)
(* data.                                                                   *)
(***************************************************************************)
EXTENDS AuthProxy, TLAPS

(* In a phase buf holds exactly what the last demand asked for; while it   *)
(* is filled there is something to fill.                                   *)
PhaseInv ==
  /\ consumed <= arrived
  /\ pc = "phase" => n = need
  /\ pc = "fill"  => n < need
  /\ pc \in {"open", "start", "read"} => n = 0
  /\ pc \in {"authinfo", "done"} => fact = "done" /\ n = 0
  /\ pc = "done" => answer # NoAnswer /\ \A f \in Fields : (f < answer) <=> (info[f] = "sent")
  /\ pc # "done" => info = NoInfo

IInv == WithinBuf /\ ExactWire /\ PhaseInv

LEMMA IInvInit == Init => IInv
  <1> SUFFICES ASSUME Init PROVE IInv
    OBVIOUS
  <1>1. WithinBuf
    <2>1. 0 \in 0 .. RpcMax /\ 0 \in 0 .. MaxWire
      BY SizesAreNaturals
    <2> QED
      BY <2>1 DEF Init, WithinBuf, Steps, NoInfo
  <1>2. ExactWire /\ PhaseInv
    BY DEF Init, ExactWire, PhaseInv
  <1> QED
    BY <1>1, <1>2 DEF IInv

LEMMA IInvNext == IInv /\ [Next]_vars => IInv'
  <1> SUFFICES ASSUME IInv, [Next]_vars PROVE IInv'
    OBVIOUS
  <1> USE SizesAreNaturals
          DEF IInv, WithinBuf, Steps, ExactWire, PhaseInv, wire, given, factotum, Return, Fail
  <1>1. CASE Arrive
    BY <1>1 DEF Arrive
  <1>2. CASE Hangup
    BY <1>2 DEF Hangup
  <1>3. CASE OpenFactotum \/ Start
    BY <1>3 DEF OpenFactotum, Start
  <1>4. CASE Read \/ ReadFails
    BY <1>4 DEF Read, ReadFails
  <1>5. CASE WriteAccepted
    BY <1>5 DEF WriteAccepted
  <1>6. CASE WriteTooSmall
    BY <1>6 DEF WriteTooSmall, Acceptable
  <1>7. CASE WriteFails \/ FillFails
    BY <1>7 DEF WriteFails, FillFails
  <1>8. CASE Fill
    BY <1>8 DEF Fill
  <1>9. CASE AuthInfo
    <2>1. CASE Fail
      BY <1>9, <2>1 DEF AuthInfo
    <2>2. ASSUME NEW c \in Fields \union {Whole}, answer' = c, info' \in Parses(c),
                 Return("done"), UNCHANGED <<n, need, consumed, wire, factotum>>
          PROVE  IInv'
      <3>1. /\ answer' # NoAnswer /\ answer' \in {NoAnswer, Whole} \union Fields
            /\ info' \in [Fields -> {"none", "sent", "empty", "garbled"}]
            /\ \A f \in Fields : (f < answer') <=> (info'[f] = "sent")
        BY <2>2 DEF Parses, NoAnswer, Whole, Fields
      <3> QED
        BY <1>9, <2>2, <3>1 DEF AuthInfo
    <2> QED
      BY <1>9, <2>1, <2>2 DEF AuthInfo
  <1>10. CASE UNCHANGED vars
    BY <1>10 DEF vars
  <1> QED
    BY <1>1, <1>2, <1>3, <1>4, <1>5, <1>6, <1>7, <1>8, <1>9, <1>10 DEF Next, Proxy

LEMMA IInvAlways == Spec => []IInv
  BY IInvInit, IInvNext, PTL DEF Spec

(* The buffer is never filled past its end, whatever the factotum demands. *)
THEOREM BufferFits == Spec => []WithinBuf
  <1>1. IInv => WithinBuf
    BY DEF IInv
  <1> QED
    BY <1>1, IInvAlways, PTL

(* The proxy takes from the connection what the factotum accepts, and no   *)
(* byte of what follows.                                                   *)
THEOREM TakesExactly == Spec => []ExactWire
  <1>1. IInv => ExactWire
    BY DEF IInv
  <1> QED
    BY <1>1, IInvAlways, PTL

(* At the end of a successful conversation nothing is left in buf, so all  *)
(* that was taken from the connection is what the factotum accepted.       *)
THEOREM NothingLeftOver == Spec => [](pc = "done" => consumed = taken)
  <1>1. IInv => (pc = "done" => consumed = taken)
    BY DEF IInv, WithinBuf, ExactWire, PhaseInv
  <1> QED
    BY <1>1, IInvAlways, PTL

(* No success without the factotum's word, no byte of the client's taken   *)
(* that it did not accept, and of its authinfo the caller has exactly the  *)
(* fields before a cut: identity and secret, that is, if it was whole.     *)
THEOREM OnlyAuthenticated == Spec => []DoneIsAuthenticated
  <1>1. IInv => DoneIsAuthenticated
    BY DEF IInv, WithinBuf, Steps, ExactWire, PhaseInv, DoneIsAuthenticated
  <1> QED
    BY <1>1, IInvAlways, PTL

(* What a phase still has before it: demands, each above the last one, and  *)
(* none above the size of buf.                                             *)
InPhase == pc \in {"phase", "fill"}

PhaseRank == 2 * (RpcMax - need) + (IF pc = "fill" THEN 1 ELSE 0)

(* The safety half of PhaseEnds: whatever the factotum answers, a step of  *)
(* fauthProxy ends the phase or brings its end nearer (toosmall's demands, *)
(* authproxy.go).                                                          *)
THEOREM PhasesAreBounded ==
  Spec => /\ [](PhaseRank \in Nat)
          /\ [][Proxy /\ InPhase /\ InPhase' => PhaseRank' < PhaseRank]_vars
  <1>1. IInv => PhaseRank \in Nat
    BY SizesAreNaturals DEF IInv, WithinBuf, PhaseRank
  <1>2. ASSUME IInv, IInv', Proxy, InPhase, InPhase'
        PROVE  PhaseRank' < PhaseRank
    <2> USE SizesAreNaturals DEF IInv, WithinBuf, PhaseRank, InPhase
    <2>1. CASE WriteTooSmall
      BY <1>2, <2>1 DEF WriteTooSmall, Acceptable, PhaseInv
    <2>2. CASE Fill
      BY <1>2, <2>2 DEF Fill
    <2>3. CASE OpenFactotum \/ Start \/ Read \/ ReadFails \/ WriteAccepted
               \/ WriteFails \/ FillFails \/ AuthInfo
      BY <1>2, <2>3 DEF OpenFactotum, Start, Read, ReadFails, WriteAccepted, WriteFails,
         FillFails, AuthInfo, Fail, Return
    <2> QED
      BY <1>2, <2>1, <2>2, <2>3 DEF Proxy
  <1>3. IInv /\ IInv' /\ [Next]_vars
          => [Proxy /\ InPhase /\ InPhase' => PhaseRank' < PhaseRank]_vars
    BY <1>2
  <1> QED
    BY <1>1, <1>3, IInvAlways, PTL DEF Spec
=============================================================================
