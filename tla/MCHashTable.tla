---------------------------- MODULE MCHashTable -----------------------------
(***************************************************************************)
(* Instances of HashTable: four items, three of them in one bucket, asked  *)
(* for by two or three threads.                                            *)
(***************************************************************************)
EXTENDS HashTableInv, TLC

CONSTANTS t1, t2, t3, i1, i2, i3, i4

TwoThreads   == {t1, t2}
ThreeThreads == {t1, t2, t3}
FourItems    == {i1, i2, i3, i4}
Buckets      == {0, 1}
Collide      == [i \in FourItems |-> IF i = i4 THEN 1 ELSE 0]

Overlap ==
  t1 :> <<i1, i2, i3, i4>> @@ t2 :> <<i2, i1, i3, i3>> @@ t3 :> <<i3, i4, i1>>
Two == t1 :> <<i1, i2, i3>> @@ t2 :> <<i2, i1, i2>>

============================================================================
