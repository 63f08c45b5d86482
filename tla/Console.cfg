CONSTANTS
  Alphabet = {"esc", "[", "P"}
  MaxOut = 3
  MaxIn = 2
  PtyCap = 3

SPECIFICATION FairSpec

\* A session ends.
CHECK_DEADLOCK FALSE

INVARIANTS
  CleanUnlessCut
  PumpsSafe

PROPERTIES
  OutputArrives
  OutputPumpEnds
