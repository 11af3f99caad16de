SPECIFICATION FairSpec
CONSTANTS
  Pairs = {p1, p2, p3}
  NoClientPairs = {p2}
  Redialling = {p3}
  Interfaces = {}
  Rates = {1, 2}
  DefaultRate = 1
  Servers = {s1}
  EventKinds <- ProfileStays
  Patient = TRUE
  MaxEvents = 3
INVARIANTS SendersArePaired SendersAreExported NothingStaleExported RateLabelsTrue OnlyNilPanics
PROPERTY TearDownsReturn
