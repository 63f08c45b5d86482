CONSTANTS
  out = out
  err = err
  Streams = {out, err}
  InCap = 2
  StdinCap = 1
  PipeCap = 1
  MaxCmds = 2
  MaxLines = 3
  MaxOut = 1

SPECIFICATION FairSpec

\* An agent that has stopped does nothing more.
CHECK_DEADLOCK FALSE

INVARIANTS
  OutputComplete
  InputSafe

PROPERTIES
  ImplementsCommandLog
  ExecReturns
