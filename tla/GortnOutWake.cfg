CONSTANTS
  f1 = f1
  f2 = f2
  r1 = r1
  r2 = r2
  p1 = p1
  Fids = {f1, f2}
  Reqs = {r1, r2}
  FidOf <- Assigned
  Pumps = {p1}
  Pipelined = {f2}
  MaxOut = 3
  MaxChunk = 2
  MaxCount = 2

SPECIFICATION Spec

INVARIANT PromptWake
