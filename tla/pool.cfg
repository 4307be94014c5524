SPECIFICATION Spec
CONSTANTS
  BlockSize = 6
  Alignment = 2
  PoolHead = 3
  DataHead = 1
  LargeHead = 1
  PageMax = 4
  MaxFailed = 0
  Scan = 1
  Sizes <- MCSizes
  Addr = {a1, a2}
  Null = Null
  MaxBlocks = 4
  MaxLarge = 3
SYMMETRY Interchangeable
INVARIANTS
  TypeOK
  Disjoint
  InsideBlock
  AlignedAsAsked
  ListIsHeap
  GivenUpTired
