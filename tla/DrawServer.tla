----------------------------- MODULE DrawServer -----------------------------
(***************************************************************************)
(* The draw server as a process (drawsrv.go, main): its draw connections   *)
(* and its keyboard connections side by side, each kind with its device.   *)
(***************************************************************************)
EXTENDS DrawWire, DrawKbd, FiniteSets

CONSTANT MaxUsed    \* bound: connections used in one behaviour

ASSUME UsedBound == MaxUsed \in Nat

Used == {c \in Conns : sent[c] # <<>> \/ pc[c] = "closed"}
          \union {k \in Keyboards : codes[k] # <<>> \/ kbd[k] = "closed"}

ServerInit == Init /\ KbdInit

ServerNext ==
  /\ \/ Next /\ UNCHANGED kbdVars
     \/ KbdNext /\ UNCHANGED vars
  /\ Cardinality(Used') <= MaxUsed

ServerSpec == ServerInit /\ [][ServerNext]_<<vars, kbdVars>>

(* What was sent arrives, goroutines run, and the client takes its replies. *)
FairServer ==
  /\ ServerSpec
  /\ \A c \in Conns : WF_vars(handleDraw(c) /\ UNCHANGED kbdVars)
=============================================================================
