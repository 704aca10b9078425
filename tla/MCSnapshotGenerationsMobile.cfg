SPECIFICATION FairSpec
CONSTANTS
  g1 = g1
  g2 = g2
  g3 = g3
  Generations <- MCGenerations
  Pages = 4
  EvidenceChunks = 1
  Batch = 2
  Chunk = 3
  DeletePage = 2
  MaxDisturbances = 1
CHECK_DEADLOCK FALSE
PROPERTY LeftoversSwept
