SPECIFICATION Spec
CONSTANTS
  Ids = {a, b, c}
  Start = 4
  End = 20
  Page = 4
  TrimThreshold = 8
  MaxSmall = 4
  LargeWidth = 4
  BlockWidth = 2
  Requests = {3, 9}
  MaxFirst = 4
SYMMETRY Symmetry
INVARIANTS
  HeapSound PayloadIntact RefusedOnlyWhenFull
