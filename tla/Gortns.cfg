CONSTANTS
  g1 = g1
  g2 = g2
  i1 = i1
  i2 = i2
  c1 = c1
  None = None
  Agents = {g1, g2}
  Ids = {i1, i2}
  Callers = {c1}
  Verbs = {"stop", "exec", "spawn", "echo"}
  SentTo <- Divided
  CtlCap = 1
  MaxHelpers = 1
  Minted = {i1}
  Read = {g1}

SPECIFICATION FairSpec

\* All callers may be blocked on the full ctl channel of a dead agent.
CHECK_DEADLOCK FALSE

INVARIANTS
  NoZombie
  DirMatches
  OwnRemoval

PROPERTIES
  ImplementsAgentTable
  OpsReturn
  StoppedDies
  CtlWriteReturns
