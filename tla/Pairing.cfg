SPECIFICATION Spec
CONSTANTS
  Annotations <- PodAnnotations
  Environments <- PodEnvironments
  LinkSets <- PodLinks
  Fold <- FoldOf
  Namespace = "default"
  PodName = "web-1"
  PodNamePrefixes = {"web", "web-1"}
  SourceOf <- Texts
  Lines <- SomeLines
  MaxLines = 3
INVARIANTS AddressesPlacedOnce DefaultGivesWay EveryLineCounts AddressOfInterface
CHECK_DEADLOCK FALSE
