CONSTANTS
  f1 = f1
  r1 = r1
  r2 = r2
  p1 = p1
  c1 = c1
  Fids = {f1}
  Reqs = {r1, r2}
  FidOf <- Assigned
  Pumps = {p1}
  Clients = {c1}
  PipeCap = 1
  CtlCap = 1
  MaxOut = 3
  MaxPieces = 2
  MaxCount = 2

SPECIFICATION FairSpec

INVARIANTS
  TabSafe

PROPERTIES
  ImplementsOutLog
  ReadReturns
  CtlWriteReturns

\* A stopped tab takes no commands.
CHECK_DEADLOCK FALSE
