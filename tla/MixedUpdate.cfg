SPECIFICATION Spec
CONSTANTS
  Pairs = {p1}
  NoClientPairs = {}
  Redialling = {}
  Interfaces = {}
  Rates = {1, 2}
  DefaultRate = 1
  Servers = {s1}
  EventKinds <- MixedUpdates
  Patient = TRUE
  MaxEvents = 4
INVARIANT RateLabelsTrue
