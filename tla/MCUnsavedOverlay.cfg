SPECIFICATION Spec
VIEW UpToAge
CONSTANTS
  s1 = s1
  s2 = s2
  Sources <- MCSources
  Size <- MCSize
  MaxEvents <- MCMaxEvents
  MaxDisturbances = 2
  MaxWriters = 1
  Budget = 2
CHECK_DEADLOCK FALSE
INVARIANT TypeOK
INVARIANT BytesExact
INVARIANT NoOlderFacts
INVARIANT DeletedStaysMasked
PROPERTY DeletionsKept
