---------------------------- MODULE MCDrawServer ----------------------------
(* Instances of DrawServer for TLC. *)
EXTENDS DrawServer

CONSTANTS c1, c2, k1, k2, p0, p1, t1, t2

F(kind, tag, at, len) == [kind |-> kind, tag |-> tag, at |-> at, len |-> len]

\* c1 moves the pointer, also with a position cut short, and asks for too much;
\* c2 releases the buttons, asks for something unknown, and sends what is no frame.
Sends == [c \in Conns |->
  IF c = c1
    THEN {F("Tmoveto", t1, p1, 4), F("Tmoveto", t2, p1, 3), F("Tinit", t1, p0, 6)}
    ELSE {F("Tbouncemouse", t1, p0, 2), F("unknown", t2, p0, 2), F("unknown", t1, p0, 1)}]

\* What bytes read from a wrong place are taken for, on either connection.
Misread == {F("Tmoveto", t2, p1, 4)}

\* Key 30's press and release, and a number no key has with 30 for a byte.
ScanCodes == {<<30, 0>>, <<158, 0>>, <<0, 30>>}
=============================================================================
