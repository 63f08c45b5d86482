CONSTANTS
  RpcMax = 4
  Overhead = 1
  MaxWire = 7

SPECIFICATION FairSpec

INVARIANTS
  WithinBuf
  ExactWire
  DoneIsAuthenticated

PROPERTY PhaseEnds

\* The proxy returns.
CHECK_DEADLOCK FALSE
