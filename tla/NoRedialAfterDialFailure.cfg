SPECIFICATION FairSpec
CONSTANTS
  Servers = {}
  NoServer = NoServer
  Rates = {2}
  PacketTimeout = 1
  RedialTimeout = 0
  IsDN = TRUE
  IsService = FALSE
  LabelsTaken = FALSE
  MaxSeq = 3
  MaxDials = 1
  MaxSendTime = 3
  MaxTime = 5
PROPERTY RedialAfterDialFailure
