------------------------------- MODULE OutLog -------------------------------
(***************************************************************************)
(* What an agent's output file promises its readers: the output is one     *)
(* append-only log; every open fid has a cursor into it; a read hands out  *)
(* the bytes that follow the cursor, never past the end of the log and     *)
(* never twice; once the log is ended it does not grow again.              *)
(*                                                                         *)
(* Only byte positions are kept: the log is append-only, so a delivery is  *)
(* determined by the interval of positions it covers.                      *)
(***************************************************************************)
EXTENDS Naturals

CONSTANT Fids       \* the 9P fids a client may open on the file

VARIABLES
  len,              \* number of bytes written so far
  ended,            \* no byte will be written any more
  open,             \* the fids that are open
  next,             \* next[f]: position of the first byte f has not had
  slice             \* slice[f]: interval handed out by f's latest read

vars == <<len, ended, open, next, slice>>

NoSlice == [from |-> 0, to |-> 0]

Init ==
  /\ len = 0
  /\ ended = FALSE
  /\ open = {}
  /\ next = [f \in Fids |-> 0]
  /\ slice = [f \in Fids |-> NoSlice]

(* A fid starts anywhere in what has been written.  Opening an open fid    *)
(* again starts it over.                                                   *)
Open(f) ==
  /\ open' = open \union {f}
  /\ \E p \in 0 .. len : /\ next' = [next EXCEPT ![f] = p]
                         /\ slice' = [slice EXCEPT ![f] = [from |-> p, to |-> p]]
  /\ UNCHANGED <<len, ended>>

Clunk(f) ==
  /\ open' = open \ {f}
  /\ \E p \in 0 .. len : next' = [next EXCEPT ![f] = p]
  /\ UNCHANGED <<len, ended, slice>>

Grow ==
  /\ ~ended
  /\ len' \in Nat
  /\ len' > len
  /\ UNCHANGED <<ended, open, next, slice>>

(* The last bytes and the end of the log are one step: no reader sees the  *)
(* end without them.                                                       *)
End ==
  /\ ~ended
  /\ ended' = TRUE
  /\ len' \in Nat
  /\ len' >= len
  /\ UNCHANGED <<open, next, slice>>

Deliver(f) ==
  /\ \E p \in next[f] .. len :
        /\ slice' = [slice EXCEPT ![f] = [from |-> next[f], to |-> p]]
        /\ next' = [next EXCEPT ![f] = p]
  /\ UNCHANGED <<len, ended, open>>

Next ==
  \/ Grow
  \/ End
  \/ \E f \in Fids : Open(f) \/ Clunk(f) \/ Deliver(f)

Spec == Init /\ [][Next]_vars
=============================================================================
