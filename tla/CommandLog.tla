----------------------------- MODULE CommandLog -----------------------------
(***************************************************************************)
(* What an agent's log promises of the commands it is given: one at a time *)
(* they are begun, add pieces of output, and end.  A command begins with   *)
(* its prompt line.  Nothing is added by a command that has ended, nor in  *)
(* its name after it, and nothing is taken back.                           *)
(***************************************************************************)
EXTENDS Naturals, Sequences

CONSTANTS
  Streams,          \* where a command's output may come from
  MaxCmds           \* the commands there may be

VARIABLES
  log,              \* the pieces, with the command and the stream they are from
  cmd,              \* the last command begun
  stage             \* idle, running a command, or stopped for good

vars == <<log, cmd, stage>>

Add(stream) == log' = Append(log, [cmd |-> cmd', from |-> stream])

Init ==
  /\ log = <<>>
  /\ cmd = 0
  /\ stage = "idle"

Begin ==
  /\ stage = "idle"
  /\ cmd < MaxCmds
  /\ cmd' = cmd + 1
  /\ stage' = "running"
  /\ Add("prompt")

Piece(s) ==
  /\ stage = "running"
  /\ Add(s)
  /\ UNCHANGED <<cmd, stage>>

End ==
  /\ stage = "running"
  /\ stage' = "idle"
  /\ UNCHANGED <<log, cmd>>

Stop ==
  /\ stage = "idle"
  /\ stage' = "stopped"
  /\ UNCHANGED <<log, cmd>>

Next == Begin \/ End \/ Stop \/ \E s \in Streams : Piece(s)

Spec == Init /\ [][Next]_vars
=============================================================================
