SPECIFICATION FairSpec
CONSTANTS
  Servers = {}
  NoServer = NoServer
  Rates = {2}
  PacketTimeout = 1
  RedialTimeout = 0
  IsDN = TRUE
  IsService = TRUE
  LabelsTaken = FALSE
  MaxSeq = 1
  MaxDials = 2
  MaxSendTime = 1
  MaxTime = 2
PROPERTY TearDownReturns
