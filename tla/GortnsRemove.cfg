CONSTANTS
  g1 = g1
  g2 = g2
  i1 = i1
  i2 = i2
  c1 = c1
  None = None
  Agents = {g1}
  Ids = {i1}
  Callers = {c1}
  Verbs = {"exec"}
  SentTo <- AnyVerb
  CtlCap = 1
  MaxHelpers = 1
  Minted = {i1}
  Read = {g1}

SPECIFICATION FairSpec

\* All callers may be blocked on the full ctl channel of a dead agent.
CHECK_DEADLOCK FALSE

PROPERTY RemoveStops
