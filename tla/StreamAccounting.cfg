SPECIFICATION Spec
CONSTANTS
  Servers = {s1, s2}
  NoServer = NoServer
  Rates = {2}
  PacketTimeout = 1
  RedialTimeout <- NotParsed
  IsDN = TRUE
  IsService = FALSE
  LabelsTaken = TRUE
  MaxSeq = 3
  MaxDials = 2
  MaxSendTime = 3
  MaxTime = 4
SYMMETRY Symmetry
INVARIANTS TypeOK PacketsBalanced CursorBehindPending SentAreAccountedFor LockedMetricsExact SentMetricWithinOne QuietAfterTearDown
PROPERTY ImplementsLedger
