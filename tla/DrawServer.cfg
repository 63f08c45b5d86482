CONSTANTS
  c1 = c1
  c2 = c2
  k1 = k1
  k2 = k2
  p0 = p0
  p1 = p1
  t1 = t1
  t2 = t2
  Conns = {c1, c2}
  Requests <- Sends
  Places = {p0, p1}
  Origin = p0
  Tags = {t1, t2}
  HdrLen = 2
  PointLen = 2
  BufLen = 4
  FrameLen = 3
  LabelLen = 1
  MaxSent = 2
  Strays <- Misread
  MaxStrays = 1
  Keyboards = {k1, k2}
  Codes <- ScanCodes
  CodeLen = 2
  MaxCodes = 2
  MaxUsed = 2

SPECIFICATION FairServer

\* Connections end.
CHECK_DEADLOCK FALSE

INVARIANTS
  StreamSafe
  RepliesMatch
  PointerSafe
  KeysFollow
  KeysSafe

PROPERTY Answered
