SPECIFICATION Spec
CONSTANTS
  Pairs = {p1}
  NoClientPairs = {}
  Redialling = {}
  Interfaces = {eth0}
  Rates = {1}
  DefaultRate = 1
  Servers = {s1}
  EventKinds <- AllKinds
  Patient = FALSE
  MaxEvents = 4
INVARIANTS TypeOK ServersFollowProfile
CHECK_DEADLOCK FALSE
