------------------------------ MODULE NgxPool -------------------------------
(***************************************************************************)
(* The memory pool of ngx_palloc.c: small allocations are cut off blocks   *)
(* of one size, large ones are malloc'ed and entered in a list of the      *)
(* pool.  A position is an offset in a block, which memalign aligns; the   *)
(* address of a large allocation is a member of Addr that malloc may give  *)
(* out again after free.                                                   *)
(*                                                                         *)
(* malloc and memalign may fail, and ngx_pfree may be given an address     *)
(* that is in no entry: all that changes then is the statistics, which are *)
(* left out.  Cleanup handlers are left out: nobody registers one, and the *)
(* program never resets a pool, but ngx_reset_pool is modelled.            *)
(***************************************************************************)
EXTENDS Integers, Sequences

CONSTANTS
  BlockSize,     \* size given to ngx_create_pool: 4 KB, 1 MB or 16 MB
  Alignment,     \* NGX_ALIGNMENT: 16
  PoolHead,      \* sizeof(ngx_pool_t), the header of the first block: 88
  DataHead,      \* sizeof(ngx_pool_data_t), the header of the others: 32
  LargeHead,     \* sizeof(ngx_pool_large_t), an entry of the list: 16
  PageMax,       \* NGX_MAX_ALLOC_FROM_POOL: 4095
  MaxFailed,     \* 4: a block that failed more often is not tried again
  Scan,          \* 5: entries looked at for a free one
  Sizes,         \* sizes of small allocations asked for
  Addr,          \* addresses malloc gives out
  Null,
  MaxBlocks,     \* bound on the blocks of the pool
  MaxLarge       \* bound on the entries of the list

\* ngx_align_ptr: the low bits of x + Alignment - 1 are masked off.
AlignUp(x) == (x + Alignment - 1) - ((x + Alignment - 1) % Alignment)

\* pool->max.
MaxSmall == IF BlockSize - PoolHead < PageMax THEN BlockSize - PoolHead ELSE PageMax

ASSUME PoolAssumption ==
  /\ BlockSize \in Nat /\ Alignment \in Nat \ {0} /\ PoolHead \in Nat /\ DataHead \in Nat
  /\ BlockSize % Alignment = 0
  /\ AlignUp(DataHead) <= PoolHead /\ PoolHead <= BlockSize
  /\ LargeHead \in Nat \ {0} /\ PageMax \in Nat /\ LargeHead <= MaxSmall
  /\ MaxFailed \in Nat /\ Scan \in Nat
  /\ Sizes \subseteq Nat \ {0}
  /\ Null \notin Addr
  /\ MaxBlocks \in Nat /\ MaxLarge \in Nat

VARIABLES
  alive,     \* the pool is created and not destroyed
  last,      \* last[i]: d.last of the i-th block
  failed,    \* failed[i]: d.failed of the i-th block
  current,   \* index of the block allocations start to try at
  large,     \* alloc of the entries of the list, newest first
  heap,      \* addresses malloc'ed for the pool and not freed
  given      \* small allocations given out (history)

blocks == <<last, failed, current>>
vars   == <<alive, blocks, large, heap, given>>

Blocks == 1 .. Len(last)

Init ==
  /\ alive = TRUE
  /\ last = <<PoolHead>>
  /\ failed = <<0>>
  /\ current = 1
  /\ large = <<>>
  /\ heap = {}
  /\ given = {}

----------------------------------------------------------------------------
(* Small allocations: ngx_palloc aligns them, ngx_pnalloc does not.        *)

\* Faulty: the address is not rounded up.
FromUnaligned(i, aligned) == last[i]

From(i, aligned) == IF aligned THEN AlignUp(last[i]) ELSE last[i]

\* (size_t) (p->d.end - m) >= size: a negative difference is a huge size_t.
Fits(i, size, aligned) ==
  From(i, aligned) > BlockSize \/ BlockSize - From(i, aligned) >= size

Give(block, from, size, aligned) ==
  given' = given \cup {[block |-> block, from |-> from, to |-> from + size, aligned |-> aligned]}

\* Faulty: the bytes skipped for the alignment are not counted.
TakeFromShort(i, size, aligned) ==
  /\ i \in current .. Len(last)
  /\ Fits(i, size, aligned)
  /\ \A j \in current .. i - 1 : ~Fits(j, size, aligned)
  /\ last' = [last EXCEPT ![i] = @ + size]
  /\ Give(i, From(i, aligned), size, aligned)
  /\ UNCHANGED <<failed, current>>

\* The first block from current on that has room.
TakeFrom(i, size, aligned) ==
  /\ i \in current .. Len(last)
  /\ Fits(i, size, aligned)
  /\ \A j \in current .. i - 1 : ~Fits(j, size, aligned)
  /\ last' = [last EXCEPT ![i] = From(i, aligned) + size]
  /\ Give(i, From(i, aligned), size, aligned)
  /\ UNCHANGED <<failed, current>>

\* Faulty: one failure too early.
TiredEarly == {i \in current .. Len(last) - 1 : failed[i] >= MaxFailed}

\* ngx_palloc_block.  All blocks from current on but the last one have failed
\* once more.
Tired == {i \in current .. Len(last) - 1 : failed[i] > MaxFailed}

\* Faulty: the header of the block is not skipped.
FirstOfBlockNoHead == 0

\* Where a new block's first allocation is.
FirstOfBlock == AlignUp(DataHead)

AddBlock(size, aligned) ==
  /\ \A i \in current .. Len(last) : ~Fits(i, size, aligned)
  /\ Len(last) < MaxBlocks
  /\ last' = Append(last, FirstOfBlock + size)
  /\ failed' = [i \in 1 .. Len(last) + 1 |->
                  IF i = Len(last) + 1 THEN 0
                  ELSE IF i \in current .. Len(last) - 1 THEN failed[i] + 1 ELSE failed[i]]
  /\ \/ Tired = {} /\ current' = current
     \/ \E i \in Tired : (\A j \in Tired : j <= i) /\ current' = i + 1
  /\ Give(Len(last) + 1, FirstOfBlock, size, aligned)

Small(size, aligned) ==
  \/ \E i \in Blocks : TakeFrom(i, size, aligned)
  \/ AddBlock(size, aligned)

Palloc(size) ==
  /\ alive /\ size <= MaxSmall
  /\ Small(size, TRUE)
  /\ UNCHANGED <<alive, large, heap>>

Pnalloc(size) ==
  /\ alive /\ size <= MaxSmall
  /\ Small(size, FALSE)
  /\ UNCHANGED <<alive, large, heap>>

----------------------------------------------------------------------------
(* Large allocations.                                                      *)

\* An entry among the first ones whose allocation was freed takes the new one.
FreeEntry(i) ==
  /\ i \in 1 .. Len(large) /\ i <= Scan
  /\ large[i] = Null
  /\ \A j \in 1 .. i - 1 : large[j] # Null

PallocReuse(p) ==
  /\ alive
  /\ heap' = heap \cup {p}
  /\ \E i \in 1 .. Len(large) : FreeEntry(i) /\ large' = [large EXCEPT ![i] = p]
  /\ UNCHANGED <<alive, blocks, given>>

\* The entry itself is a small allocation.
NewEntry(p) ==
  /\ alive
  /\ Len(large) < MaxLarge
  /\ heap' = heap \cup {p}
  /\ Small(LargeHead, TRUE)
  /\ large' = <<p>> \o large
  /\ UNCHANGED alive

PallocLarge(p) ==
  /\ \A i \in 1 .. Len(large) : ~FreeEntry(i)
  /\ NewEntry(p)

\* ngx_pmemalign does not look for a free entry.
Pmemalign(p) == NewEntry(p)

\* Faulty: the entry is not cleared.
PfreeKeepsEntry(p) ==
  /\ alive
  /\ p \in {large[i] : i \in 1 .. Len(large)}
  /\ heap' = heap \ {p}
  /\ UNCHANGED <<alive, blocks, large, given>>

Pfree(p) ==
  /\ alive
  /\ \E i \in 1 .. Len(large) :
       /\ large[i] = p
       /\ \A j \in 1 .. i - 1 : large[j] # p
       /\ large' = [large EXCEPT ![i] = Null]
  /\ heap' = heap \ {p}
  /\ UNCHANGED <<alive, blocks, given>>

----------------------------------------------------------------------------
(* The pool as a whole.                                                    *)

Listed == {large[i] : i \in 1 .. Len(large)}

\* Every block starts over behind a header of the first block's size; current
\* stays where it is.
ResetPool ==
  /\ alive
  /\ heap' = heap \ Listed
  /\ large' = <<>>
  /\ last' = [i \in Blocks |-> PoolHead]
  /\ given' = {}
  /\ UNCHANGED <<alive, failed, current>>

DestroyPool ==
  /\ alive
  /\ alive' = FALSE
  /\ heap' = heap \ Listed
  /\ large' = <<>>
  /\ given' = {}
  /\ UNCHANGED blocks

\* Faulty: current is left as it was.
CreatePoolKeepsCurrent ==
  /\ ~alive
  /\ alive' = TRUE
  /\ last' = <<PoolHead>>
  /\ failed' = <<0>>
  /\ large' = <<>>
  /\ given' = {}
  /\ UNCHANGED <<current, heap>>

CreatePool ==
  /\ ~alive
  /\ alive' = TRUE
  /\ last' = <<PoolHead>>
  /\ failed' = <<0>>
  /\ current' = 1
  /\ large' = <<>>
  /\ given' = {}
  /\ UNCHANGED heap

Next ==
  \/ \E size \in Sizes : Palloc(size) \/ Pnalloc(size)
  \/ \E p \in Addr \ heap : PallocReuse(p) \/ PallocLarge(p) \/ Pmemalign(p)
  \/ \E p \in heap : Pfree(p)
  \/ ResetPool \/ DestroyPool \/ CreatePool

Spec == Init /\ [][Next]_vars

----------------------------------------------------------------------------
(* Properties.                                                             *)

Extents == [block : Nat, from : Nat, to : Nat, aligned : BOOLEAN]

\* The variables have their types, current is the index of a block.
TypeOK ==
  /\ alive \in BOOLEAN
  /\ last \in Seq(Nat) /\ failed \in Seq(Nat) /\ Len(failed) = Len(last)
  /\ current \in 1 .. Len(last)
  /\ large \in Seq(Addr \cup {Null})
  /\ heap \subseteq Addr
  /\ given \subseteq Extents

\* No two small allocations overlap, whatever their sizes and alignments.
Disjoint ==
  \A a, b \in given : a # b /\ a.block = b.block => a.to <= b.from \/ b.to <= a.from

\* Every small allocation is inside its block and outside the block's header.
InsideBlock ==
  \A a \in given :
    /\ a.block \in Blocks
    /\ (IF a.block = 1 THEN PoolHead ELSE DataHead) <= a.from
    /\ a.from < a.to /\ a.to <= BlockSize

\* ngx_palloc returns aligned memory.
AlignedAsAsked == \A a \in given : a.aligned => a.from % Alignment = 0

\* Every large allocation has one entry and every entry a large allocation:
\* ngx_pfree and ngx_destroy_pool free each of them once.
ListIsHeap ==
  /\ heap = Listed \ {Null}
  /\ \A i, j \in 1 .. Len(large) : large[i] = large[j] /\ large[i] # Null => i = j

\* A block is given up only after MaxFailed + 2 requests found no room in it
\* (failed++ > 4: the sixth).
GivenUpTired == \A i \in 1 .. current - 1 : failed[i] >= MaxFailed + 2

============================================================================
