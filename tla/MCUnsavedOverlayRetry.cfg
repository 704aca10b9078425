SPECIFICATION FairSpec
CONSTANTS
  s1 = s1
  s2 = s2
  Sources <- MCSources
  Size <- MCSizeGrowing
  MaxEvents <- MCMaxEventsFew
  MaxDisturbances = 1
  MaxWriters = 1
  Budget = 2
CHECK_DEADLOCK FALSE
PROPERTY DeletionsSettle
PROPERTY HeldFactsSaved
INVARIANT NoOlderSelection
