CONSTANTS
  s1 = s1
  s2 = s2
  p1 = p1
  p2 = p2
  None = None
  Sessions = {s1, s2}
  NoteServers = {s1}
  Unsteady = {s2}
  Pids = {p1, p2}
  NoteCap = 2

SPECIFICATION Spec

INVARIANT SignalsOwnShell

\* The sessions there are come to an end.

CHECK_DEADLOCK FALSE
