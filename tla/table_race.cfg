SPECIFICATION Spec
CONSTANTS
  t1 = t1
  t2 = t2
  t3 = t3
  i1 = i1
  i2 = i2
  i3 = i3
  i4 = i4
  Null = Null
  Thread <- TwoThreads
  Item <- FourItems
  Bucket <- Buckets
  BucketOf <- Collide
  Work <- Two
  Locked = FALSE
INVARIANTS
  NewOnce
