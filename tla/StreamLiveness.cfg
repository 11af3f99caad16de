SPECIFICATION FairSpec
CONSTANTS
  Servers = {s1}
  NoServer = NoServer
  Rates = {2}
  PacketTimeout = 1
  RedialTimeout = 1
  IsDN = FALSE
  IsService = FALSE
  LabelsTaken = FALSE
  MaxSeq = 2
  MaxDials = 1
  MaxSendTime = 2
  MaxTime = 4
PROPERTIES OldPacketsSettle TearDownReturns
