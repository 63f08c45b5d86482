----------------------------- MODULE MCConsole ------------------------------
(* Instances of Console for TLC. *)
EXTENDS Console

(* All that the filter tells apart, longer than the run's own output.      *)
Texts == UNION {[1 .. n -> Characters] : n \in 0 .. 4}

(* ReplaceAll's search from the left leaves out every escape sequence and   *)
(* nothing else: no match hides another.                                   *)
ASSUME StripIsText == \A s \in Texts : Strip(s) = Text(s)
=============================================================================
