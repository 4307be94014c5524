--------------------------- MODULE NgxPoolProofs ----------------------------
(***************************************************************************)
(* Safety of the memory pool, for every block size, alignment, header and  *)
(* request that PoolAssumption allows.                                     *)
(***************************************************************************)
EXTENDS NgxPool, TLAPS

\* The first byte of a block that is not its header.
HeaderOf(i) == IF i = 1 THEN PoolHead ELSE DataHead

BlockTypes ==
  /\ last \in Seq(Nat) /\ failed \in Seq(Nat) /\ Len(failed) = Len(last)
  /\ current \in 1 .. Len(last)
  /\ given \subseteq Extents

\* The free part of every block.
FreePart == \A i \in Blocks : HeaderOf(i) <= last[i] /\ last[i] <= BlockSize

\* What was given out is before the free part of its block.
GivenPart ==
  \A a \in given :
    /\ a.block \in Blocks
    /\ HeaderOf(a.block) <= a.from /\ a.from < a.to /\ a.to <= last[a.block]

\* Blocks that may still be tried failed no more often than those before them.
FailedDown ==
  \A i, j \in current .. Len(last) : i <= j => failed[j] <= failed[i]

BlocksInv ==
  BlockTypes /\ FreePart /\ GivenPart /\ AlignedAsAsked /\ Disjoint /\ FailedDown /\ GivenUpTired

LargeInv ==
  large \in Seq(Addr \cup {Null}) /\ heap \subseteq Addr /\ ListIsHeap

\* A pool that was destroyed holds nothing.
DestroyedEmpty == ~alive => large = <<>>

IInv == alive \in BOOLEAN /\ BlocksInv /\ LargeInv /\ DestroyedEmpty

----------------------------------------------------------------------------
(* Rounding up.                                                            *)

\* The quotient and the remainder of a division make up the dividend.
LEMMA DivMod ==
  ASSUME NEW a \in Nat \ {0}, NEW y \in Nat
  PROVE  /\ y % a \in 0 .. a - 1
         /\ y \div a \in Nat
         /\ y = a * (y \div a) + (y % a)
  OBVIOUS

\* A multiple leaves no remainder.
LEMMA MultipleMod ==
  ASSUME NEW a \in Nat \ {0}, NEW q \in Nat
  PROVE  (a * q) % a = 0
  OBVIOUS

\* Between two multiples there is a whole step.
LEMMA MultipleStep ==
  ASSUME NEW a \in Nat \ {0}, NEW p \in Nat, NEW q \in Nat, a * p < a * q + a
  PROVE  a * p <= a * q
<1>1. p <= q
  <2>1. SUFFICES ASSUME p >= q + 1 PROVE FALSE
    OBVIOUS
  <2>2. PICK d \in Nat : p = q + 1 + d
    <3>1. p - q - 1 \in Nat /\ p = q + 1 + (p - q - 1)
      BY <2>1
    <3> QED BY <3>1
  <2>3. a * p = a * q + a + a * d
    BY <2>2
  <2>4. a * d \in Nat
    OBVIOUS
  <2> QED BY <2>3, <2>4
<1>2. PICK d \in Nat : q = p + d
  <2>1. q - p \in Nat /\ q = p + (q - p)
    BY <1>1
  <2> QED BY <2>1
<1>3. a * q = a * p + a * d
  BY <1>2
<1>4. a * d \in Nat
  OBVIOUS
<1> QED BY <1>3, <1>4

\* ngx_align_ptr goes to a multiple of the alignment, never back, and never
\* past the end of a block, whose size is a multiple itself.
LEMMA AlignUpFacts ==
  ASSUME NEW x \in Nat
  PROVE  /\ AlignUp(x) \in Nat
         /\ x <= AlignUp(x)
         /\ AlignUp(x) % Alignment = 0
         /\ x <= BlockSize => AlignUp(x) <= BlockSize
<1> DEFINE y == x + Alignment - 1
<1>0. Alignment \in Nat \ {0} /\ BlockSize \in Nat /\ BlockSize % Alignment = 0
  BY PoolAssumption
<1>1. y \in Nat
  BY <1>0
<1>2. /\ y % Alignment \in 0 .. Alignment - 1
      /\ y \div Alignment \in Nat
      /\ y = Alignment * (y \div Alignment) + (y % Alignment)
  BY <1>0, <1>1, DivMod
<1>3. AlignUp(x) = y - (y % Alignment)
  BY DEF AlignUp
<1> HIDE DEF y
<1>4. AlignUp(x) = Alignment * (y \div Alignment)
  <2>1. Alignment * (y \div Alignment) \in Nat
    BY <1>0, <1>2
  <2> QED BY <1>1, <1>2, <1>3, <2>1
<1>5. AlignUp(x) \in Nat /\ x <= AlignUp(x) /\ AlignUp(x) <= x + Alignment - 1
  BY <1>0, <1>1, <1>2, <1>3 DEF y
<1>6. AlignUp(x) % Alignment = 0
  BY <1>0, <1>2, <1>4, MultipleMod
<1>7. ASSUME x <= BlockSize PROVE AlignUp(x) <= BlockSize
  <2>1. /\ BlockSize \div Alignment \in Nat
        /\ BlockSize = Alignment * (BlockSize \div Alignment)
    <3>1. /\ BlockSize \div Alignment \in Nat
          /\ BlockSize = Alignment * (BlockSize \div Alignment) + (BlockSize % Alignment)
      BY <1>0, DivMod
    <3>2. Alignment * (BlockSize \div Alignment) \in Nat
      BY <1>0, <3>1
    <3> QED BY <1>0, <3>1, <3>2
  <2>2. AlignUp(x) < BlockSize + Alignment
    BY <1>0, <1>5, <1>7
  <2>3. Alignment * (y \div Alignment) < Alignment * (BlockSize \div Alignment) + Alignment
    BY <1>4, <2>1, <2>2
  <2>4. Alignment * (y \div Alignment) <= Alignment * (BlockSize \div Alignment)
    BY <1>0, <1>2, <2>1, <2>3, MultipleStep
  <2> QED BY <1>4, <2>1, <2>4
<1> QED BY <1>5, <1>6, <1>7

----------------------------------------------------------------------------
(* Small allocations.                                                      *)

\* What ngx_create_pool makes of its size: a small request fits an empty block,
\* the first one or a later one (ngx_palloc.c:29, 198-200).
LEMMA FirstFits ==
  /\ FirstOfBlock \in Nat /\ DataHead <= FirstOfBlock /\ FirstOfBlock <= PoolHead
  /\ FirstOfBlock % Alignment = 0
  /\ MaxSmall \in Nat /\ PoolHead + MaxSmall <= BlockSize
<1>1. /\ AlignUp(DataHead) \in Nat /\ DataHead <= AlignUp(DataHead)
      /\ AlignUp(DataHead) % Alignment = 0
  BY PoolAssumption, AlignUpFacts
<1>2. AlignUp(DataHead) <= PoolHead
  BY PoolAssumption
<1>3. MaxSmall \in Nat /\ PoolHead + MaxSmall <= BlockSize
  BY PoolAssumption DEF MaxSmall
<1> QED BY <1>1, <1>2, <1>3 DEF FirstOfBlock

\* The start of an allocation is in the free part of its block, so the
\* difference that ngx_palloc casts to size_t is never negative.
LEMMA FromFacts ==
  ASSUME BlockTypes, FreePart, NEW i \in Blocks, NEW aligned \in BOOLEAN
  PROVE  /\ From(i, aligned) \in Nat
         /\ last[i] <= From(i, aligned) /\ From(i, aligned) <= BlockSize
         /\ aligned => From(i, aligned) % Alignment = 0
<1>1. last[i] \in Nat /\ last[i] <= BlockSize
  BY DEF BlockTypes, FreePart, Blocks
<1>2. /\ AlignUp(last[i]) \in Nat /\ last[i] <= AlignUp(last[i])
      /\ AlignUp(last[i]) % Alignment = 0 /\ AlignUp(last[i]) <= BlockSize
  BY <1>1, AlignUpFacts
<1> QED BY <1>1, <1>2 DEF From

\* An allocation from a block that has room.
LEMMA TakeFromKeeps ==
  ASSUME BlocksInv, NEW size \in Nat \ {0}, NEW aligned \in BOOLEAN,
         NEW i \in Blocks, TakeFrom(i, size, aligned)
  PROVE  BlocksInv'
<1> DEFINE f == From(i, aligned)
           a == [block |-> i, from |-> f, to |-> f + size, aligned |-> aligned]
<1>1. /\ f \in Nat /\ last[i] <= f /\ f <= BlockSize
      /\ aligned => f % Alignment = 0
  BY FromFacts DEF BlocksInv
<1>2. f + size <= BlockSize
  <2>1. f > BlockSize \/ BlockSize - f >= size
    BY DEF TakeFrom, Fits
  <2>2. BlockSize \in Nat
    BY PoolAssumption
  <2> QED BY <1>1, <2>1, <2>2
<1>3. /\ last' = [last EXCEPT ![i] = f + size]
      /\ given' = given \cup {a}
      /\ failed' = failed /\ current' = current
  BY DEF TakeFrom, Give
<1> HIDE DEF f
<1>4. /\ last' \in Seq(Nat) /\ Len(last') = Len(last)
      /\ last'[i] = f + size
      /\ \A j \in Blocks : j # i => last'[j] = last[j]
      /\ Blocks' = Blocks
  BY <1>1, <1>3 DEF BlocksInv, BlockTypes, Blocks
<1>5. a \in Extents
  BY <1>1 DEF Extents, Blocks
<1>6. BlockTypes'
  BY <1>3, <1>4, <1>5 DEF BlocksInv, BlockTypes
<1>7. HeaderOf(i) <= last[i] /\ last[i] \in Nat
  BY DEF BlocksInv, FreePart, BlockTypes, Blocks
<1>8. HeaderOf(i) \in Nat
  BY PoolAssumption DEF HeaderOf
<1>9. FreePart'
  <2> SUFFICES ASSUME NEW j \in Blocks PROVE HeaderOf(j) <= last'[j] /\ last'[j] <= BlockSize
    BY <1>4 DEF FreePart
  <2>1. CASE j = i
    BY <1>1, <1>2, <1>4, <1>7, <1>8, <2>1
  <2>2. CASE j # i
    BY <1>4, <2>2 DEF BlocksInv, FreePart
  <2> QED BY <2>1, <2>2
<1>10. GivenPart'
  <2> SUFFICES ASSUME NEW b \in given'
               PROVE  /\ b.block \in Blocks
                      /\ HeaderOf(b.block) <= b.from /\ b.from < b.to /\ b.to <= last'[b.block]
    BY <1>4 DEF GivenPart
  <2>1. CASE b = a
    BY <1>1, <1>4, <1>7, <1>8, <2>1
  <2>2. CASE b \in given
    <3>1. /\ b.block \in Blocks /\ b.to \in Nat
          /\ HeaderOf(b.block) <= b.from /\ b.from < b.to /\ b.to <= last[b.block]
      BY <2>2 DEF BlocksInv, GivenPart, BlockTypes, Extents
    <3>2. CASE b.block = i
      BY <1>1, <1>4, <1>7, <3>1, <3>2
    <3>3. CASE b.block # i
      BY <1>4, <3>1, <3>3
    <3> QED BY <3>1, <3>2, <3>3
  <2> QED BY <1>3, <2>1, <2>2
<1>11. AlignedAsAsked'
  BY <1>1, <1>3 DEF BlocksInv, AlignedAsAsked
<1>12. Disjoint'
  <2>1. \A b \in given : b.block = i => b.to <= f
    <3> SUFFICES ASSUME NEW b \in given, b.block = i PROVE b.to <= f
      OBVIOUS
    <3>1. b.to <= last[i] /\ b.to \in Nat
      BY DEF BlocksInv, GivenPart, BlockTypes, Extents
    <3> QED BY <1>1, <1>7, <3>1
  <2>2. a.block = i /\ a.from = f
    OBVIOUS
  <2> QED BY <1>3, <2>1, <2>2 DEF BlocksInv, Disjoint
<1>13. FailedDown' /\ GivenUpTired'
  BY <1>3, <1>4 DEF BlocksInv, FailedDown, GivenUpTired
<1> QED BY <1>6, <1>9, <1>10, <1>11, <1>12, <1>13 DEF BlocksInv

\* An allocation from a new block (ngx_palloc_block).
LEMMA AddBlockKeeps ==
  ASSUME BlocksInv, NEW size \in Nat \ {0}, size <= MaxSmall, NEW aligned \in BOOLEAN,
         AddBlock(size, aligned)
  PROVE  BlocksInv'
<1> DEFINE n == Len(last)
           f == FirstOfBlock
           a == [block |-> n + 1, from |-> f, to |-> f + size, aligned |-> aligned]
<1>1. /\ f \in Nat /\ DataHead <= f /\ f % Alignment = 0
      /\ f + size \in Nat /\ f + size <= BlockSize
  BY FirstFits, PoolAssumption
<1>2. /\ last' = Append(last, f + size)
      /\ failed' = [i \in 1 .. n + 1 |->
                     IF i = n + 1 THEN 0
                     ELSE IF i \in current .. n - 1 THEN failed[i] + 1 ELSE failed[i]]
      /\ given' = given \cup {a}
  BY DEF AddBlock, Give
<1> HIDE DEF f
<1>3. n \in Nat \ {0} /\ current \in 1 .. n
  BY DEF BlocksInv, BlockTypes
<1>4. /\ last' \in Seq(Nat) /\ Len(last') = n + 1
      /\ last'[n + 1] = f + size
      /\ \A j \in Blocks : last'[j] = last[j]
      /\ Blocks = 1 .. n /\ Blocks' = 1 .. n + 1
  BY <1>1, <1>2, <1>3 DEF BlocksInv, BlockTypes, Blocks
<1>5. /\ failed' \in Seq(Nat) /\ Len(failed') = n + 1
  <2>1. \A i \in 1 .. n : failed[i] \in Nat
    BY DEF BlocksInv, BlockTypes
  <2>2. \A i \in 1 .. n + 1 :
          (IF i = n + 1 THEN 0
           ELSE IF i \in current .. n - 1 THEN failed[i] + 1 ELSE failed[i]) \in Nat
    <3> TAKE i \in 1 .. n + 1
    <3>1. CASE i = n + 1
      BY <3>1
    <3>2. CASE i # n + 1
      <4>1. failed[i] \in Nat
        BY <1>3, <2>1, <3>2
      <4> QED BY <3>2, <4>1
    <3> QED BY <3>1, <3>2
  <2>3. failed' \in [1 .. n + 1 -> Nat]
    BY <1>2, <2>2
  <2> QED BY <1>3, <2>3
<1>6. a \in Extents
  BY <1>1, <1>3 DEF Extents
<1>7. /\ current' \in 1 .. n
      /\ \A i \in 1 .. current' - 1 : failed'[i] >= MaxFailed + 2
      /\ current <= current'
  <2>1. \A i \in 1 .. n : failed[i] \in Nat
    BY DEF BlocksInv, BlockTypes
  <2>2. MaxFailed \in Nat
    BY PoolAssumption
  <2>3. \A i \in 1 .. current - 1 : failed'[i] >= MaxFailed + 2
    BY <1>2, <1>3 DEF BlocksInv, GivenUpTired
  <2>4. CASE current' = current
    BY <1>3, <2>3, <2>4
  <2>5. CASE \E i \in Tired : current' = i + 1
    <3>1. PICK k \in current .. n - 1 : failed[k] > MaxFailed /\ current' = k + 1
      BY <2>5 DEF Tired
    <3>2. \A i \in current .. k : failed[i] >= failed[k]
      BY <1>3 DEF BlocksInv, FailedDown
    <3>3. \A i \in current .. k : failed'[i] = failed[i] + 1
      BY <1>2, <1>3
    <3>4. ASSUME NEW i \in current .. k PROVE failed'[i] >= MaxFailed + 2
      <4>1. i \in 1 .. n /\ k \in 1 .. n
        BY <1>3, <3>1
      <4>2. failed[i] \in Nat /\ failed[k] \in Nat
        BY <2>1, <4>1
      <4>3. failed[i] >= failed[k] /\ failed'[i] = failed[i] + 1
        BY <3>2, <3>3
      <4> QED BY <2>2, <3>1, <4>2, <4>3
    <3> QED BY <1>3, <2>3, <3>1, <3>4
  <2> QED BY <2>4, <2>5 DEF AddBlock
<1>8. BlockTypes'
  BY <1>2, <1>3, <1>4, <1>5, <1>6, <1>7 DEF BlocksInv, BlockTypes
<1>9. FreePart'
  <2> SUFFICES ASSUME NEW j \in 1 .. n + 1 PROVE HeaderOf(j) <= last'[j] /\ last'[j] <= BlockSize
    BY <1>4 DEF FreePart
  <2>1. CASE j = n + 1
    <3>1. HeaderOf(j) = DataHead
      BY <1>3, <2>1 DEF HeaderOf
    <3> QED BY <1>1, <1>4, <2>1, <3>1, PoolAssumption
  <2>2. CASE j # n + 1
    BY <1>3, <1>4, <2>2 DEF BlocksInv, FreePart
  <2> QED BY <2>1, <2>2
<1>10. GivenPart'
  <2> SUFFICES ASSUME NEW b \in given'
               PROVE  /\ b.block \in 1 .. n + 1
                      /\ HeaderOf(b.block) <= b.from /\ b.from < b.to /\ b.to <= last'[b.block]
    BY <1>4 DEF GivenPart
  <2>1. CASE b = a
    <3>1. HeaderOf(n + 1) = DataHead
      BY <1>3 DEF HeaderOf
    <3> QED BY <1>1, <1>3, <1>4, <2>1, <3>1
  <2>2. CASE b \in given
    BY <1>3, <1>4, <2>2 DEF BlocksInv, GivenPart
  <2> QED BY <1>2, <2>1, <2>2
<1>11. AlignedAsAsked'
  BY <1>1, <1>2 DEF BlocksInv, AlignedAsAsked
<1>12. Disjoint'
  <2>1. \A b \in given : b.block # n + 1
    BY <1>3, <1>4 DEF BlocksInv, GivenPart
  <2>2. a.block = n + 1
    OBVIOUS
  <2> QED BY <1>2, <2>1, <2>2 DEF BlocksInv, Disjoint
<1>13. FailedDown'
  <2> SUFFICES ASSUME NEW i \in current' .. n + 1, NEW j \in current' .. n + 1, i <= j
               PROVE  failed'[j] <= failed'[i]
    BY <1>4 DEF FailedDown
  <2>1. \A k \in 1 .. n : failed[k] \in Nat
    <3>1. failed \in Seq(Nat) /\ Len(failed) = n
      BY <1>3 DEF BlocksInv, BlockTypes
    <3> QED BY <3>1
  <2>2. CASE j = n + 1
    <3>1. failed'[j] = 0
      BY <1>2, <1>3, <2>2
    <3>2. i \in 1 .. n + 1
      BY <1>3, <1>7
    <3>3. failed'[i] \in Nat
      BY <1>5, <3>2
    <3> QED BY <3>1, <3>3
  <2>3. CASE j # n + 1
    <3>1. i \in current .. n /\ j \in current .. n
      BY <1>3, <1>7, <2>3
    <3>2. failed[j] <= failed[i]
      BY <3>1 DEF BlocksInv, FailedDown
    <3>3. failed'[i] = IF i \in current .. n - 1 THEN failed[i] + 1 ELSE failed[i]
      BY <1>2, <1>3, <3>1
    <3>4. failed'[j] = IF j \in current .. n - 1 THEN failed[j] + 1 ELSE failed[j]
      BY <1>2, <1>3, <3>1
    <3> QED BY <1>3, <2>1, <3>1, <3>2, <3>3, <3>4
  <2> QED BY <2>2, <2>3
<1>14. GivenUpTired'
  BY <1>7 DEF GivenUpTired
<1> QED BY <1>8, <1>9, <1>10, <1>11, <1>12, <1>13, <1>14 DEF BlocksInv

\* Any small allocation.
LEMMA SmallKeeps ==
  ASSUME BlocksInv, NEW size \in Nat \ {0}, size <= MaxSmall, NEW aligned \in BOOLEAN,
         Small(size, aligned)
  PROVE  BlocksInv'
<1>1. CASE \E i \in Blocks : TakeFrom(i, size, aligned)
  BY <1>1, TakeFromKeeps
<1>2. CASE AddBlock(size, aligned)
  BY <1>2, AddBlockKeeps
<1> QED BY <1>1, <1>2 DEF Small

----------------------------------------------------------------------------
(* The list of large allocations.                                          *)

\* The entries hold Null or an address of the heap.
LEMMA EntriesInHeap ==
  ASSUME LargeInv, NEW i \in 1 .. Len(large)
  PROVE  large[i] = Null \/ large[i] \in heap
BY DEF LargeInv, ListIsHeap, Listed

\* A free entry that takes a fresh address.
LEMMA ReuseKeepsList ==
  ASSUME LargeInv, NEW p \in Addr \ heap, PallocReuse(p)
  PROVE  LargeInv'
<1>1. PICK i \in 1 .. Len(large) : large[i] = Null /\ large' = [large EXCEPT ![i] = p]
  BY DEF PallocReuse, FreeEntry
<1>2. heap' = heap \cup {p} /\ p # Null
  BY PoolAssumption DEF PallocReuse
<1>3. /\ large' \in Seq(Addr \cup {Null}) /\ Len(large') = Len(large)
      /\ large'[i] = p
      /\ \A j \in 1 .. Len(large) : j # i => large'[j] = large[j]
  BY <1>1 DEF LargeInv
<1>4. \A j \in 1 .. Len(large) : large[j] # p
  BY <1>2, EntriesInHeap
<1>5. Listed' \ {Null} = heap'
  <2>1. Listed' = {large'[j] : j \in 1 .. Len(large)}
    BY <1>3 DEF Listed
  <2>2. \A x : x \in heap => \E j \in 1 .. Len(large) : j # i /\ large'[j] = x
    BY <1>1, <1>3 DEF LargeInv, ListIsHeap, Listed
  <2>3. \A j \in 1 .. Len(large) : large'[j] = p \/ large'[j] = Null \/ large'[j] \in heap
    BY <1>3, EntriesInHeap
  <2>4. Null \notin heap
    BY PoolAssumption DEF LargeInv
  <2> QED BY <1>2, <1>3, <2>1, <2>2, <2>3, <2>4
<1>6. \A j, k \in 1 .. Len(large') : large'[j] = large'[k] /\ large'[j] # Null => j = k
  BY <1>3, <1>4 DEF LargeInv, ListIsHeap
<1> QED BY <1>2, <1>3, <1>5, <1>6 DEF LargeInv, ListIsHeap

\* A new entry at the head of the list.
LEMMA NewEntryKeepsList ==
  ASSUME LargeInv, NEW p \in Addr \ heap, NewEntry(p)
  PROVE  LargeInv'
<1> DEFINE n == Len(large)
<1>1. large' = <<p>> \o large /\ heap' = heap \cup {p} /\ p # Null
  BY PoolAssumption DEF NewEntry
<1>2. /\ large' \in Seq(Addr \cup {Null}) /\ Len(large') = n + 1 /\ n \in Nat
      /\ large'[1] = p
      /\ \A j \in 2 .. n + 1 : large'[j] = large[j - 1]
  BY <1>1 DEF LargeInv
<1>3. \A j \in 1 .. n : large[j] # p
  BY <1>1, EntriesInHeap
<1>4. Listed' \ {Null} = heap'
  <2>1. Listed' = {large'[j] : j \in 1 .. n + 1}
    BY <1>2 DEF Listed
  <2>2. \A x \in heap : \E j \in 1 .. n + 1 : large'[j] = x
    <3> TAKE x \in heap
    <3>1. PICK k \in 1 .. n : large[k] = x
      BY DEF LargeInv, ListIsHeap, Listed
    <3>2. k + 1 \in 2 .. n + 1 /\ large'[k + 1] = large[k]
      BY <1>2
    <3> QED BY <1>2, <3>1, <3>2
  <2>3. \A j \in 1 .. n + 1 : large'[j] = p \/ large'[j] = Null \/ large'[j] \in heap
    <3> TAKE j \in 1 .. n + 1
    <3>1. CASE j = 1
      BY <1>2, <3>1
    <3>2. CASE j # 1
      <4>1. j - 1 \in 1 .. n /\ large'[j] = large[j - 1]
        BY <1>2, <3>2
      <4> QED BY <4>1, EntriesInHeap
    <3> QED BY <3>1, <3>2
  <2>4. Null \notin heap
    BY PoolAssumption DEF LargeInv
  <2>5. large'[1] = p /\ 1 \in 1 .. n + 1
    BY <1>2
  <2> QED BY <1>1, <2>1, <2>2, <2>3, <2>4, <2>5
<1>5. ASSUME NEW j \in 1 .. n + 1, NEW k \in 1 .. n + 1, large'[j] = large'[k], large'[j] # Null
      PROVE  j = k
  <2>1. CASE j = 1 /\ k = 1
    BY <2>1
  <2>2. CASE j = 1 /\ k # 1
    <3>1. k - 1 \in 1 .. n /\ large'[k] = large[k - 1]
      BY <1>2, <2>2
    <3> QED BY <1>2, <1>3, <1>5, <2>2, <3>1
  <2>3. CASE j # 1 /\ k = 1
    <3>1. j - 1 \in 1 .. n /\ large'[j] = large[j - 1]
      BY <1>2, <2>3
    <3> QED BY <1>2, <1>3, <1>5, <2>3, <3>1
  <2>4. CASE j # 1 /\ k # 1
    <3>1. /\ j - 1 \in 1 .. n /\ large'[j] = large[j - 1]
          /\ k - 1 \in 1 .. n /\ large'[k] = large[k - 1]
      BY <1>2, <2>4
    <3>2. j - 1 = k - 1
      BY <1>5, <3>1 DEF LargeInv, ListIsHeap
    <3> QED BY <1>2, <3>2
  <2> QED BY <2>1, <2>2, <2>3, <2>4
<1> QED BY <1>1, <1>2, <1>4, <1>5 DEF LargeInv, ListIsHeap

\* An address that is freed loses its entry.
LEMMA PfreeKeepsList ==
  ASSUME LargeInv, NEW p \in heap, Pfree(p)
  PROVE  LargeInv'
<1>1. PICK i \in 1 .. Len(large) : large[i] = p /\ large' = [large EXCEPT ![i] = Null]
  BY DEF Pfree
<1>2. heap' = heap \ {p}
  BY DEF Pfree
<1>3. /\ large' \in Seq(Addr \cup {Null}) /\ Len(large') = Len(large)
      /\ large'[i] = Null
      /\ \A j \in 1 .. Len(large) : j # i => large'[j] = large[j]
  BY <1>1 DEF LargeInv
<1>4. p # Null /\ Null \notin heap
  BY PoolAssumption DEF LargeInv
<1>5. \A j \in 1 .. Len(large) : j # i => large[j] # p
  BY <1>1, <1>4 DEF LargeInv, ListIsHeap
<1>6. Listed' \ {Null} = heap'
  <2>1. Listed' = {large'[j] : j \in 1 .. Len(large)}
    BY <1>3 DEF Listed
  <2>2. \A x \in heap : x # p => \E j \in 1 .. Len(large) : large'[j] = x
    BY <1>1, <1>3 DEF LargeInv, ListIsHeap, Listed
  <2>3. \A j \in 1 .. Len(large) : large'[j] = Null \/ (large'[j] \in heap /\ large'[j] # p)
    BY <1>3, <1>5, EntriesInHeap
  <2> QED BY <1>2, <1>4, <2>1, <2>2, <2>3
<1>7. \A j, k \in 1 .. Len(large') : large'[j] = large'[k] /\ large'[j] # Null => j = k
  BY <1>3 DEF LargeInv, ListIsHeap
<1> QED BY <1>2, <1>3, <1>6, <1>7 DEF LargeInv, ListIsHeap

\* ngx_reset_pool and ngx_destroy_pool leave nothing behind on the heap.
LEMMA EmptyList ==
  ASSUME LargeInv, large' = <<>>, heap' = heap \ Listed
  PROVE  LargeInv' /\ heap' = {}
<1>1. heap' = {}
  BY DEF LargeInv, ListIsHeap
<1>2. Listed' = {}
  BY DEF Listed
<1>3. large' \in Seq(Addr \cup {Null}) /\ Len(large') = 0
  OBVIOUS
<1> QED BY <1>1, <1>2, <1>3 DEF LargeInv, ListIsHeap

----------------------------------------------------------------------------
(* The invariant.                                                          *)

NewPool == last = <<PoolHead>> /\ failed = <<0>> /\ current = 1 /\ given = {}

\* A pool just created.
LEMMA FirstBlock == NewPool => BlocksInv
<1> SUFFICES ASSUME NewPool PROVE BlocksInv
  OBVIOUS
<1>0. last = <<PoolHead>> /\ failed = <<0>> /\ current = 1 /\ given = {}
  BY DEF NewPool
<1>1. PoolHead \in Nat /\ BlockSize \in Nat /\ PoolHead <= BlockSize
  BY PoolAssumption
<1>2. /\ last \in Seq(Nat) /\ failed \in Seq(Nat) /\ Len(failed) = Len(last) /\ Len(last) = 1
      /\ last[1] = PoolHead /\ failed[1] = 0
  BY <1>0, <1>1
<1>3. BlockTypes
  BY <1>0, <1>2 DEF BlockTypes
<1>4. FreePart
  BY <1>0, <1>1, <1>2 DEF FreePart, Blocks, HeaderOf
<1>5. GivenPart /\ AlignedAsAsked /\ Disjoint
  BY <1>0 DEF GivenPart, AlignedAsAsked, Disjoint
<1>6. FailedDown /\ GivenUpTired
  BY <1>0, <1>2 DEF FailedDown, GivenUpTired
<1> QED BY <1>3, <1>4, <1>5, <1>6 DEF BlocksInv

\* After a reset every block is empty behind a header of the first one's size.
LEMMA ResetKeeps ==
  ASSUME BlocksInv, ResetPool
  PROVE  BlocksInv'
<1>1. /\ last' = [i \in Blocks |-> PoolHead] /\ given' = {}
      /\ failed' = failed /\ current' = current
  BY DEF ResetPool
<1>2. /\ PoolHead \in Nat /\ BlockSize \in Nat /\ PoolHead <= BlockSize
      /\ DataHead \in Nat /\ DataHead <= PoolHead
  BY PoolAssumption, FirstFits
<1>3. last' \in Seq(Nat) /\ Len(last') = Len(last) /\ Blocks' = Blocks
  BY <1>1, <1>2 DEF BlocksInv, BlockTypes, Blocks
<1>4. BlockTypes'
  BY <1>1, <1>3 DEF BlocksInv, BlockTypes
<1>5. FreePart'
  <2>1. \A i \in Blocks : last'[i] = PoolHead
    BY <1>1
  <2>2. \A i \in Blocks : HeaderOf(i) <= PoolHead
    BY <1>2 DEF HeaderOf
  <2> QED BY <1>2, <1>3, <2>1, <2>2 DEF FreePart
<1>6. GivenPart' /\ AlignedAsAsked' /\ Disjoint'
  BY <1>1 DEF GivenPart, AlignedAsAsked, Disjoint
<1>7. FailedDown' /\ GivenUpTired'
  BY <1>1, <1>3 DEF BlocksInv, FailedDown, GivenUpTired
<1> QED BY <1>4, <1>5, <1>6, <1>7 DEF BlocksInv

\* The invariant holds of a pool just created.
LEMMA InitInv == Init => IInv
<1> SUFFICES ASSUME Init PROVE IInv
  OBVIOUS
<1>1. BlocksInv
  BY FirstBlock DEF Init, NewPool
<1>2. LargeInv
  BY DEF Init, LargeInv, ListIsHeap, Listed
<1> QED BY <1>1, <1>2 DEF Init, IInv, DestroyedEmpty

\* Every operation of the pool keeps the invariant.
LEMMA StepInv == IInv /\ [Next]_vars => IInv'
<1> SUFFICES ASSUME IInv, [Next]_vars PROVE IInv'
  OBVIOUS
<1>0. alive \in BOOLEAN /\ BlocksInv /\ LargeInv /\ DestroyedEmpty
  BY DEF IInv
<1>1. ASSUME NEW size \in Sizes, Palloc(size) \/ Pnalloc(size) PROVE IInv'
  <2>1. size \in Nat \ {0} /\ size <= MaxSmall
    BY <1>1, PoolAssumption DEF Palloc, Pnalloc
  <2>2. PICK aligned \in BOOLEAN : Small(size, aligned)
    BY <1>1 DEF Palloc, Pnalloc
  <2>3. BlocksInv'
    BY <1>0, <2>1, <2>2, SmallKeeps
  <2>4. UNCHANGED <<alive, large, heap>>
    BY <1>1 DEF Palloc, Pnalloc
  <2>5. LargeInv'
    BY <1>0, <2>4 DEF LargeInv, ListIsHeap, Listed
  <2> QED BY <1>0, <2>3, <2>4, <2>5 DEF IInv, DestroyedEmpty
<1>2. ASSUME NEW p \in Addr \ heap, PallocReuse(p) PROVE IInv'
  <2>1. alive /\ UNCHANGED <<alive, last, failed, current, given>>
    BY <1>2 DEF PallocReuse, blocks
  <2>2. BlocksInv'
    BY <1>0, <2>1 DEF BlocksInv, BlockTypes, FreePart, GivenPart, AlignedAsAsked,
                      Disjoint, FailedDown, GivenUpTired, Blocks
  <2> QED BY <1>0, <1>2, <2>1, <2>2, ReuseKeepsList DEF IInv, DestroyedEmpty
<1>3. ASSUME NEW p \in Addr \ heap, NewEntry(p) PROVE IInv'
  <2>1. LargeHead \in Nat \ {0} /\ LargeHead <= MaxSmall
    BY PoolAssumption
  <2>2. Small(LargeHead, TRUE) /\ alive /\ alive' = alive
    BY <1>3 DEF NewEntry
  <2>3. BlocksInv'
    BY <1>0, <2>1, <2>2, SmallKeeps
  <2> QED BY <1>0, <1>3, <2>2, <2>3, NewEntryKeepsList DEF IInv, DestroyedEmpty
<1>4. ASSUME NEW p \in heap, Pfree(p) PROVE IInv'
  <2>1. alive /\ UNCHANGED <<alive, last, failed, current, given>>
    BY <1>4 DEF Pfree, blocks
  <2>2. BlocksInv'
    BY <1>0, <2>1 DEF BlocksInv, BlockTypes, FreePart, GivenPart, AlignedAsAsked,
                      Disjoint, FailedDown, GivenUpTired, Blocks
  <2> QED BY <1>0, <1>4, <2>1, <2>2, PfreeKeepsList DEF IInv, DestroyedEmpty
<1>5. CASE ResetPool
  <2>1. large' = <<>> /\ heap' = heap \ Listed /\ alive' = alive
    BY <1>5 DEF ResetPool
  <2> QED BY <1>0, <1>5, <2>1, EmptyList, ResetKeeps DEF IInv, DestroyedEmpty
<1>6. CASE DestroyPool
  <2>1. /\ large' = <<>> /\ heap' = heap \ Listed /\ alive' = FALSE /\ given' = {}
        /\ UNCHANGED <<last, failed, current>>
    BY <1>6 DEF DestroyPool, blocks
  <2>2. BlocksInv'
    BY <1>0, <2>1 DEF BlocksInv, BlockTypes, FreePart, GivenPart, AlignedAsAsked,
                      Disjoint, FailedDown, GivenUpTired, Blocks
  <2> QED BY <1>0, <2>1, <2>2, EmptyList DEF IInv, DestroyedEmpty
<1>7. CASE CreatePool
  <2>1. /\ last' = <<PoolHead>> /\ failed' = <<0>> /\ current' = 1 /\ given' = {}
        /\ large' = <<>> /\ heap' = heap /\ alive' = TRUE
    BY <1>7 DEF CreatePool
  <2>2. BlocksInv'
    <3>1. NewPool' => BlocksInv'
      BY FirstBlock, PTL
    <3> QED BY <2>1, <3>1 DEF NewPool
  <2>3. heap = {}
    BY <1>0, <1>7 DEF CreatePool, DestroyedEmpty, LargeInv, ListIsHeap, Listed
  <2>4. LargeInv'
    BY <2>1, <2>3 DEF LargeInv, ListIsHeap, Listed
  <2> QED BY <2>1, <2>2, <2>4 DEF IInv, DestroyedEmpty
<1>8. CASE UNCHANGED vars
  BY <1>8 DEF vars, blocks, IInv, BlocksInv, BlockTypes, FreePart, GivenPart,
              AlignedAsAsked, Disjoint, FailedDown, GivenUpTired, Blocks,
              LargeInv, ListIsHeap, Listed, DestroyedEmpty
<1> QED
  BY <1>1, <1>2, <1>3, <1>4, <1>5, <1>6, <1>7, <1>8 DEF Next, PallocLarge, Pmemalign

----------------------------------------------------------------------------
(* The theorems.                                                           *)

\* Every reachable state of the pool satisfies the invariant.
THEOREM Invariance == Spec => []IInv
BY InitInv, StepInv, PTL DEF Spec

\* The pointers of the pool have their types; current is one of its blocks.
THEOREM TypeCorrect == Spec => []TypeOK
<1>1. IInv => TypeOK
  BY DEF IInv, BlocksInv, BlockTypes, LargeInv, TypeOK
<1> QED BY <1>1, Invariance, PTL

\* No two allocations of ngx_palloc and ngx_pnalloc overlap.
THEOREM NoOverlap == Spec => []Disjoint
<1>1. IInv => Disjoint
  BY DEF IInv, BlocksInv
<1> QED BY <1>1, Invariance, PTL

\* No allocation reaches into a header or past the end of its block.
THEOREM NoOverrun == Spec => []InsideBlock
<1>1. IInv => InsideBlock
  <2> SUFFICES ASSUME BlocksInv, NEW a \in given
               PROVE  /\ a.block \in Blocks
                      /\ HeaderOf(a.block) <= a.from /\ a.from < a.to /\ a.to <= BlockSize
    BY DEF IInv, InsideBlock, HeaderOf
  <2>1. /\ a.block \in Blocks /\ a.to \in Nat
        /\ HeaderOf(a.block) <= a.from /\ a.from < a.to /\ a.to <= last[a.block]
    BY DEF BlocksInv, BlockTypes, GivenPart, Extents
  <2>2. last[a.block] \in Nat /\ last[a.block] <= BlockSize
    <3>1. \A i \in Blocks : last[i] \in Nat /\ last[i] <= BlockSize
      BY DEF BlocksInv, BlockTypes, FreePart, Blocks
    <3> QED BY <2>1, <3>1
  <2>3. BlockSize \in Nat
    BY PoolAssumption
  <2> QED BY <2>1, <2>2, <2>3
<1> QED BY <1>1, Invariance, PTL

\* ngx_palloc returns what it was asked for: aligned memory.
THEOREM Aligned == Spec => []AlignedAsAsked
<1>1. IInv => AlignedAsAsked
  BY DEF IInv, BlocksInv
<1> QED BY <1>1, Invariance, PTL

\* ngx_pfree, ngx_reset_pool and ngx_destroy_pool free every large allocation
\* once, and none is lost.
THEOREM EveryLargeListed == Spec => []ListIsHeap
<1>1. IInv => ListIsHeap
  BY DEF IInv, LargeInv
<1> QED BY <1>1, Invariance, PTL

\* A block is given up only after it failed MaxFailed + 2 times.
THEOREM NoBlockGivenUpEarly == Spec => []GivenUpTired
<1>1. IInv => GivenUpTired
  BY DEF IInv, BlocksInv
<1> QED BY <1>1, Invariance, PTL
============================================================================
