----------------------------- MODULE AuthProxy -----------------------------
(***************************************************************************)
(* proxyAuth and fauthProxy (cmd/rcpud/authproxy.go): the daemon carries   *)
(* an authentication conversation between the client's connection and the  *)
(* factotum process, by remote procedure calls to the latter.  After it    *)
(* the same connection carries TLS, so the proxy must take from it exactly *)
(* the bytes the conversation is made of.                                  *)
(*                                                                         *)
(* Bytes are counted, not represented.  The factotum and the client are    *)
(* external: the factotum may give any answer to any call, the client may  *)
(* send at any pace, run ahead with what follows the conversation, and     *)
(* hang up.                                                                *)
(***************************************************************************)
EXTENDS Integers

CONSTANTS
  RpcMax,           \* authRpcMax
  Overhead,         \* len("write") + 1
  MaxWire           \* bound: bytes the client sends

ASSUME SizesAreNaturals == RpcMax \in Nat /\ Overhead \in Nat /\ MaxWire \in Nat

VARIABLES
  pc,               \* where fauthProxy stands
  n,                \* the bytes of buf filled in the current phase
  need,             \* how many bytes of buf the factotum asked for last
  consumed,         \* bytes taken from the connection
  arrived,          \* bytes the client has sent
  hungup,           \* the client has closed
  answer,           \* the factotum's authinfo message: none, the field it is cut in, whole
  info,             \* r.ai: what convM2AI made of each field
  rpcOpen,          \* the factotum's rpc file is open
  fact,             \* the factotum: in conversation, wanting data, done
  taken             \* bytes of the client's that the factotum has accepted

wire == <<arrived, hungup>>
given == <<answer, info>>
factotum == <<fact, taken>>
vars == <<pc, n, need, consumed, wire, given, rpcOpen, factotum>>

Steps == {"open", "start", "read", "phase", "fill", "authinfo", "done", "failed"}

(* An authinfo message's fields: Cuid, Suid, Cap and Secret. *)
Fields == 1 .. 4
Whole == 5
NoAnswer == 0
NoInfo == [f \in Fields |-> "none"]

Init ==
  /\ pc = "open"
  /\ n = 0
  /\ need = 0
  /\ consumed = 0
  /\ arrived = 0
  /\ hungup = FALSE
  /\ answer = NoAnswer
  /\ info = NoInfo
  /\ rpcOpen = FALSE
  /\ fact = "talk"
  /\ taken = 0

-----------------------------------------------------------------------------
(* The client. *)

Arrive ==
  /\ ~hungup
  /\ arrived' \in arrived + 1 .. MaxWire
  /\ UNCHANGED <<pc, n, need, consumed, hungup, given, rpcOpen, factotum>>

Hangup ==
  /\ ~hungup
  /\ hungup' = TRUE
  /\ UNCHANGED <<pc, n, need, consumed, arrived, given, rpcOpen, factotum>>

-----------------------------------------------------------------------------
(* The proxy. *)

(* Every way out closes the rpc file (the deferred Close of proxyAuth).  A  *)
(* call fails when it cannot be made and when the answer is error, needkey, *)
(* badkey or no answer the protocol knows.                                 *)
Return(how) ==
  /\ pc' = how
  /\ rpcOpen' = FALSE

Fail == Return("failed") /\ UNCHANGED <<n, need, consumed, wire, given, factotum>>

OpenFactotum ==
  /\ pc = "open"
  /\ \/ Fail
     \/ /\ pc' = "start"
        /\ rpcOpen' = TRUE
        /\ UNCHANGED <<n, need, consumed, wire, given, factotum>>

Start ==
  /\ pc = "start"
  /\ \/ Fail
     \/ /\ pc' = "read"
        /\ UNCHANGED <<n, need, consumed, wire, given, rpcOpen, factotum>>

(* The factotum's answers to "read". *)
Read ==
  /\ pc = "read"
  /\ \/ /\ fact' = "done"
        /\ pc' = "authinfo"
        /\ UNCHANGED <<n, need, taken>>
     \/ /\ pc' = "read"                        \* ok: its data goes to the client
        /\ UNCHANGED <<n, need, factotum>>
     \/ /\ fact' = "want"                      \* phase: it needs the client's
        /\ pc' = "phase"
        /\ n' = 0
        /\ need' = 0
        /\ UNCHANGED taken
  /\ UNCHANGED <<consumed, wire, given, rpcOpen>>

(* Any other answer, or the client's connection refusing the data.         *)
ReadFails ==
  /\ pc = "read"
  /\ Fail

TooBig(len) == Overhead + len > RpcMax

(* "write" with what there is: accepted, and the phase is over. *)
WriteAccepted ==
  /\ pc = "phase"
  /\ ~TooBig(n)
  /\ n >= need
  /\ pc' = "read"
  /\ n' = 0
  /\ need' = 0
  /\ fact' = "talk"
  /\ taken' = taken + need
  /\ UNCHANGED <<consumed, wire, given, rpcOpen>>

(* Mutant: a demand that is not above what there is is not an error. *)
AcceptableUnordered(d) == d <= RpcMax

(* Mutant: a demand is not held against the size of the buffer. *)
AcceptableUnbounded(d) == d - n > 0

(* A demand the proxy will try to meet. *)
Acceptable(d) == d <= RpcMax /\ d - n > 0

(* "write" answered by toosmall and a demand, which may be any integer. *)
WriteTooSmall ==
  /\ pc = "phase"
  /\ ~TooBig(n)
  /\ \E d \in -1 .. RpcMax + 1 :
        /\ Acceptable(d)
        /\ pc' = "fill"
        /\ need' = d
  /\ UNCHANGED <<n, consumed, wire, given, rpcOpen, factotum>>

(* A demand that is no number or out of range, a failure answer, or data   *)
(* that does not fit a call.                                               *)
WriteFails ==
  /\ pc = "phase"
  /\ Fail

(* Mutant: the library's proxy, which took what the connection had.        *)
FillAvailable ==
  /\ pc = "fill"
  /\ arrived - consumed >= need - n
  /\ n' = n + (arrived - consumed)
  /\ consumed' = arrived
  /\ pc' = "phase"
  /\ UNCHANGED <<need, wire, given, rpcOpen, factotum>>

(* io.ReadFull(rw, buf[n:need]). *)
Fill ==
  /\ pc = "fill"
  /\ arrived - consumed >= need - n
  /\ n' = need
  /\ consumed' = consumed + (need - n)
  /\ pc' = "phase"
  /\ UNCHANGED <<need, wire, given, rpcOpen, factotum>>

(* What a ReadFull cut short had taken is lost with the connection.        *)
FillFails ==
  /\ pc = "fill"
  /\ hungup
  /\ arrived - consumed < need - n
  /\ Fail

(* Mutant: an authinfo that failed is not looked at again. *)
AuthInfoUnchecked ==
  /\ pc = "authinfo"
  /\ Return("done")
  /\ UNCHANGED <<n, need, consumed, wire, given, factotum>>

(* convM2AI of a message cut in field c: the fields before it are as they  *)
(* were sent, it is empty, and what is left of it is taken for the fields  *)
(* after it.                                                               *)
Parses(c) ==
  {p \in [Fields -> {"sent", "empty", "garbled"}] :
     \A f \in Fields : (f < c <=> p[f] = "sent") /\ (f = c => p[f] = "empty")}

(* getInfo.  convM2AI never returns nil, so a message cut short is taken.  *)
AuthInfo ==
  /\ pc = "authinfo"
  /\ \/ /\ \E c \in Fields \union {Whole} : answer' = c /\ info' \in Parses(c)
        /\ Return("done")
        /\ UNCHANGED <<n, need, consumed, wire, factotum>>
     \/ Fail

Proxy ==
  \/ OpenFactotum \/ Start \/ Read \/ ReadFails
  \/ WriteAccepted \/ WriteTooSmall \/ WriteFails
  \/ Fill \/ FillFails
  \/ AuthInfo

Next == Arrive \/ Hangup \/ Proxy

Spec == Init /\ [][Next]_vars

(* The factotum answers every call.  The client owes nothing.              *)
FairSpec == Spec /\ WF_vars(Proxy)

-----------------------------------------------------------------------------
(* Properties. *)

(* Every variable keeps to its type; the part of buf that is filled is in  *)
(* buf.                                                                    *)
WithinBuf ==
  /\ pc \in Steps
  /\ n \in 0 .. RpcMax
  /\ need \in 0 .. RpcMax
  /\ consumed \in 0 .. MaxWire
  /\ arrived \in 0 .. MaxWire
  /\ hungup \in BOOLEAN
  /\ answer \in {NoAnswer, Whole} \union Fields
  /\ info \in [Fields -> {"none", "sent", "empty", "garbled"}]
  /\ rpcOpen \in BOOLEAN
  /\ fact \in {"talk", "want", "done"}
  /\ taken \in 0 .. MaxWire

(* The connection has lost exactly the bytes the factotum accepted and     *)
(* those in buf for it: when the conversation is over, the next byte the   *)
(* connection yields is the first byte of TLS, however the client's writes *)
(* were coalesced.                                                         *)
ExactWire == consumed = taken + n

(* Success is the factotum's word: it said done and answered authinfo, and *)
(* it accepted every byte that was taken from the connection.  The caller  *)
(* then has an identity and a secret if that answer was whole.  Of one cut *)
(* short it has the fields before the cut, perhaps no identity and no      *)
(* secret, and that is a success too: getInfo's test for a bad message can *)
(* never hold.  Nothing is handed out on any other way out.                *)
DoneIsAuthenticated ==
  IF pc = "done"
    THEN /\ fact = "done" /\ consumed = taken
         /\ answer # NoAnswer
         /\ \A f \in Fields : (f < answer) <=> (info[f] = "sent")
    ELSE info = NoInfo

(* The proxy waits for bytes of the client's (there is no deadline). *)
Waiting == pc = "fill" /\ ~hungup /\ arrived - consumed < need - n

(* A phase ends, or waits for the client: the factotum cannot keep the     *)
(* proxy busy, because every demand is larger than the one before and buf  *)
(* is finite.                                                              *)
PhaseEnds == pc \in {"phase", "fill"} ~> pc \in {"read", "failed"} \/ Waiting
=============================================================================
