SPECIFICATION Spec
CONSTANTS
  Servers = {}
  NoServer = NoServer
  Rates <- ChangingRates
  PacketTimeout = 1
  RedialTimeout = 0
  IsDN = TRUE
  IsService = TRUE
  LabelsTaken = TRUE
  MaxSeq = 3
  MaxDials = 1
  MaxSendTime = 3
  MaxTime = 4
INVARIANTS SingleRedialer NoCatchUpBurst
