SPECIFICATION Spec
CONSTANTS
  a = a
  b = b
  a1 = a1
  a2 = a2
  b1 = b1
  Connections <- MCConnections
  Ops <- MCOps
  Home <- MCHome
  Sources = {s1}
  Revisions = {r1, r2, r3}
  ChunkCount = 2
  MaxWriters = 2
SYMMETRY MCSymmetry
INVARIANT TypeOK
INVARIANT HeadReadable
INVARIANT ViewReadable
INVARIANT LeasesOwned
INVARIANT FencesCounted
PROPERTY ObsoleteNeverSelects
PROPERTY StoreImplemented
