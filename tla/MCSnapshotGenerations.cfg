SPECIFICATION FairSpec
CONSTANTS
  g1 = g1
  g2 = g2
  g3 = g3
  Generations <- MCGenerations
  Pages = 4
  EvidenceChunks = 1
  Batch = 3
  Chunk = 2
  DeletePage = 2
  MaxDisturbances = 2
CHECK_DEADLOCK FALSE
INVARIANT TypeOK
INVARIANT RootsWhole
PROPERTY LeftoversSwept
