SPECIFICATION FairSpec
CONSTANTS
  t1 = t1
  t2 = t2
  t3 = t3
  i1 = i1
  i2 = i2
  i3 = i3
  i4 = i4
  Null = Null
  Thread <- ThreeThreads
  Item <- FourItems
  Bucket <- Buckets
  BucketOf <- Collide
  Work <- Overlap
  Locked = TRUE
INVARIANTS
  IInv
  NewOnce
  RingsIntact
PROPERTIES
  ImplementsSet
  Terminates
