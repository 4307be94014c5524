----------------------------- MODULE MCNgxPool ------------------------------
(***************************************************************************)
(* A small pool for model-checking NgxPool: blocks of 6 bytes, of which    *)
(* the first has 3 for allocations and the others 4.                       *)
(***************************************************************************)
EXTENDS NgxPool, TLC

MCSizes == {1, 3}

Interchangeable == Permutations(Addr)
============================================================================
