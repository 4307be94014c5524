----------------------------- MODULE DualLink -------------------------------
(***************************************************************************)
(* What the circular doubly linked lists of sf_linkmodule.c stand for.  A  *)
(* list is its root, a pointer to the first node or NULL, over a heap of   *)
(* nodes with the fields next and prev; it represents the sequence of its  *)
(* nodes from the root.                                                    *)
(***************************************************************************)
EXTENDS Integers, Sequences

CONSTANTS
  Node,     \* the nodes that can be allocated
  Null      \* NULL

Pointer == Node \cup {Null}
Fields  == [Node -> Pointer]

Succ(s, i) == s[IF i = Len(s) THEN 1 ELSE i + 1]

Distinct(s) == \A i, j \in 1 .. Len(s) : s[i] = s[j] => i = j

\* From the root, next visits the nodes of s in order and returns to the root,
\* and prev undoes next.
IsRing(next, prev, root, s) ==
  /\ Distinct(s)
  /\ root = IF s = <<>> THEN Null ELSE s[1]
  /\ \A i \in 1 .. Len(s) : next[s[i]] = Succ(s, i) /\ prev[Succ(s, i)] = s[i]

============================================================================
