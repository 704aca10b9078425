SPECIFICATION Spec
CONSTANTS
  a = a
  b = b
  a1 = a1
  b1 = b1
  k1 = k1
  k2 = k2
  Connections = {a, b}
  Ops = {a1, b1}
  Home <- MCHome
  Sources = {s1, s2}
  Revisions = {r1, r2}
  Keys = {k1, k2}
  Asked = {k1}
  Contents <- MCContents
  PageSize = 1
  MaxSequence = 2
SYMMETRY MCSymmetry
INVARIANT LookupsAgree
PROPERTY LookupsExact
