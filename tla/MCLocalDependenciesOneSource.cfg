SPECIFICATION Spec
CONSTANTS
  a = a
  b = b
  a1 = a1
  b1 = b1
  k1 = k1
  k2 = k2
  Connections = {a, b}
  Ops = {a1, b1}
  Home <- MCHome
  Sources = {s1}
  Revisions = {r1, r2, r3}
  Keys = {k1, k2}
  Asked = {}
  Contents <- MCContents
  PageSize = 2
  MaxSequence = 3
SYMMETRY MCSymmetry
INVARIANT TypeOK
INVARIANT CountsExact
INVARIANT SelectedRowsStored
INVARIANT RecordsResumable
INVARIANT NoStrayRows
