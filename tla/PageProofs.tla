----------------------------- MODULE PageProofs ------------------------------
(***************************************************************************)
(* What the functions of sf_var.c do to a table of variables, and the      *)
(* properties of the pages of a thread, proved for every configuration.    *)
(***************************************************************************)
EXTENDS PageInv, Folding, FiniteSetTheorems

-----------------------------------------------------------------------------
(* The operators of VarTable.                                              *)

\* A walk along pointers is a function of the number of steps.
LEMMA WalkDefined ==
  ASSUME NEW D, NEW a, NEW n \in Nat, NEW f,
         f = CHOOSE g : g = [i \in 0 .. n |-> IF i = 0 THEN a ELSE D[g[i - 1]]]
  PROVE  f = [i \in 0 .. n |-> IF i = 0 THEN a ELSE D[f[i - 1]]]
<1> DEFINE Is(g, k) == g = [i \in 0 .. k |-> IF i = 0 THEN a ELSE D[g[i - 1]]]
           Lacking  == {k \in Nat : ~ \E g : Is(g, k)}
<1>1. ASSUME Lacking # {} PROVE FALSE
  <2>1. PICK k \in Lacking : \A l \in Lacking : k <= l
    BY <1>1, LeastNatural
  <2>2. CASE k = 0
    <3>1. Is([i \in 0 .. 0 |-> a], 0)
      OBVIOUS
    <3> QED BY <2>1, <2>2, <3>1
  <2>3. CASE k > 0
    <3>1. k - 1 \in Nat /\ k - 1 \notin Lacking
      <4> HIDE DEF Lacking
      <4>1. k \in Nat
        BY <2>1 DEF Lacking
      <4> QED BY <2>1, <2>3, <4>1
    <3>2. PICK g : Is(g, k - 1)
      BY <3>1
    <3> DEFINE h == [i \in 0 .. k |-> IF i = k THEN D[g[k - 1]] ELSE g[i]]
    <3>3. \A i \in 0 .. k : h[i] = IF i = 0 THEN a ELSE D[h[i - 1]]
      <4>1. \A i \in 0 .. k - 1 : g[i] = IF i = 0 THEN a ELSE D[g[i - 1]]
        BY <3>2
      <4>2. k \in Nat
        BY <3>1
      <4>3. \A i \in 0 .. k : i < k => h[i] = g[i] /\ (i > 0 => h[i - 1] = g[i - 1])
        BY <4>2
      <4>4. h[k] = D[g[k - 1]] /\ h[k - 1] = g[k - 1]
        BY <4>2, <2>3
      <4> HIDE DEF h
      <4>5. ASSUME NEW i \in 0 .. k PROVE h[i] = IF i = 0 THEN a ELSE D[h[i - 1]]
        <5>1. CASE i = k
          BY <5>1, <4>4, <2>3
        <5>2. CASE i # k
          <6>1. i \in 0 .. k - 1 /\ i < k
            BY <5>2, <4>2
          <6> QED BY <6>1, <4>1, <4>3
        <5> QED BY <5>1, <5>2
      <4> QED BY <4>5
    <3>4. h = [i \in 0 .. k |-> IF i = 0 THEN a ELSE D[h[i - 1]]]
      BY <3>3
    <3>5. Is(h, k)
      BY <3>4
    <3> QED BY <2>1, <3>5
  <2> QED BY <2>1, <2>2, <2>3
<1>2. \E g : Is(g, n)
  BY <1>1
<1> QED
  BY <1>2

----------------------------------------------------------------------------
(* Searching.                                                              *)

\* A walk from the handle visits the variables in order and stops.
LEMMA WalkIs ==
  ASSUME NEW t, NEW root, NEW w, IsTable(t), Holds(t, root, w)
  PROVE  Walk(t, root) = w
<1> DEFINE n    == Len(t.name)
           k    == Len(w)
           at   == CHOOSE g : g = [i \in 0 .. n |-> IF i = 0 THEN root ELSE t.next[g[i - 1]]]
           back == {i \in 1 .. n : at[i] = root}
           size == IF back = {} THEN n ELSE CHOOSE i \in back : \A j \in back : i <= j
<1>1. /\ n \in Nat /\ k \in Nat /\ k <= n
      /\ w = [i \in 1 .. k |-> w[i]]
      /\ \A i \in 1 .. k : w[i] \in Nat \ {0}
  <2>1. t.name \in Seq(String)
    BY DEF IsTable
  <2>2. n \in Nat
    BY <2>1
  <2>3. w \in Seq(1 .. n) /\ k <= n
    BY DEF Holds, Nodes
  <2> QED BY <2>2, <2>3
<1>2. Walk(t, root) = IF root = NULL THEN <<>> ELSE [i \in 1 .. size |-> at[i - 1]]
  BY DEF Walk
<1>3. CASE w = <<>>
  BY <1>2, <1>3 DEF Holds, Ring!IsRing
<1>4. CASE w # <<>>
  <2>1. k >= 1 /\ root = w[1] /\ root # NULL
    BY <1>1, <1>4 DEF Holds, Ring!IsRing, NULL
  <2>2. at = [i \in 0 .. n |-> IF i = 0 THEN root ELSE t.next[at[i - 1]]]
    <3>1. at = CHOOSE g : g = [i \in 0 .. n |-> IF i = 0 THEN root ELSE t.next[g[i - 1]]]
      OBVIOUS
    <3> DEFINE m == n  next == t.next
    <3>2. m \in Nat
      BY <1>1
    <3>3. at = CHOOSE g : g = [i \in 0 .. m |-> IF i = 0 THEN root ELSE next[g[i - 1]]]
      BY <3>1
    <3> HIDE DEF at, m, next
    <3>4. at = [i \in 0 .. m |-> IF i = 0 THEN root ELSE next[at[i - 1]]]
      BY <3>2, <3>3, WalkDefined, SMTT(30)
    <3> QED BY <3>4 DEF m, next
  <2> HIDE DEF at
  <2>3. /\ at[0] = root
        /\ \A i \in 1 .. n : at[i] = t.next[at[i - 1]]
    <3>1. \A i \in 0 .. n : at[i] = IF i = 0 THEN root ELSE t.next[at[i - 1]]
      BY <2>2, Zenon
    <3> QED BY <3>1, <1>1
  <2>4. \A i \in 1 .. k : t.next[w[i]] = IF i = k THEN w[1] ELSE w[i + 1]
    BY DEF Holds, Ring!IsRing, Ring!Succ
  <2> DEFINE Off == {i \in Nat : i < k /\ at[i] # w[i + 1]}
  <2>5. Off = {}
    <3> SUFFICES ASSUME Off # {} PROVE FALSE
      OBVIOUS
    <3>1. PICK i \in Off : \A j \in Off : i <= j
      BY LeastNatural
    <3>2. i # 0
      BY <3>1, <2>3, <2>1
    <3>3. i - 1 \in Nat /\ at[i - 1] = w[i] /\ i \in 1 .. n
      BY <3>1, <3>2, <1>1
    <3>4. at[i] = t.next[w[i]]
      BY <3>3, <2>3
    <3>5. t.next[w[i]] = w[i + 1]
      BY <3>1, <3>2, <2>4, <1>1
    <3> QED BY <3>1, <3>4, <3>5
  <2>6. \A i \in 1 .. k : at[i - 1] = w[i]
    <3> TAKE i \in 1 .. k
    <3>1. i - 1 \in Nat /\ i - 1 < k /\ i - 1 + 1 = i
      BY <1>1
    <3> QED BY <3>1, <2>5
  <2>7. k \in back
    <3>1. at[k] = t.next[at[k - 1]]
      BY <2>3, <1>1, <2>1
    <3> QED BY <3>1, <2>6, <2>4, <2>1, <1>1
  <2>8. \A i \in back : k <= i
    <3> SUFFICES ASSUME NEW i \in back, i < k PROVE FALSE
      BY <1>1
    <3>1. i + 1 \in 1 .. k /\ at[i] = w[i + 1] /\ at[i] = w[1]
      BY <2>6, <2>1, <1>1
    <3>2. \A j, l \in 1 .. k : w[j] = w[l] => j = l
      BY DEF Holds, Ring!IsRing, Ring!Distinct
    <3>3. 1 \in 1 .. k /\ i >= 1
      BY <2>1, <1>1
    <3>4. i + 1 = 1
      BY <3>1, <3>2, <3>3
    <3> QED BY <3>3, <3>4
  <2>9. size = k
    BY <2>7, <2>8, <1>1
  <2> HIDE DEF size
  <2>10. [i \in 1 .. size |-> at[i - 1]] = [i \in 1 .. k |-> w[i]]
    BY <2>9, <2>6
  <2>11. Walk(t, root) = [i \in 1 .. size |-> at[i - 1]]
    BY <1>2, <2>1
  <2> QED BY <2>10, <2>11, <1>1
<1> QED
  BY <1>3, <1>4

\* A search finds the variable of that name if there is one, and comes back.
LEMMA SearchIs ==
  ASSUME NEW t, NEW root, NEW w, IsTable(t), Holds(t, root, w), NEW name
  PROVE  /\ (\A i \in 1 .. Len(w) : t.name[w[i]] # name) => VarSearch(t, root, name) = NULL
         /\ \A i \in 1 .. Len(w) : t.name[w[i]] = name => VarSearch(t, root, name) = w[i]
         /\ VarSearch(t, root, name) # NULL =>
              \E i \in 1 .. Len(w) : t.name[w[i]] = name /\ VarSearch(t, root, name) = w[i]
         /\ SearchEnds(t, root)
<1> DEFINE hits == {i \in 1 .. Len(w) : t.name[w[i]] = name}
<1>1. Walk(t, root) = w
  BY WalkIs
<1>2. VarSearch(t, root, name)
        = IF hits = {} THEN NULL ELSE w[CHOOSE i \in hits : \A j \in hits : i <= j]
  BY <1>1 DEF VarSearch
<1>3. \A i, j \in hits : i = j
  BY DEF Holds
<1>4. ASSUME NEW i \in hits PROVE (CHOOSE h \in hits : \A j \in hits : h <= j) = i
  <2>1. i <= i
    BY DEF Holds
  <2> QED BY <1>3, <2>1
<1>5. root # NULL => \E i \in 1 .. Len(w) : t.next[w[i]] = root
  <2> SUFFICES ASSUME root # NULL PROVE \E i \in 1 .. Len(w) : t.next[w[i]] = root
    OBVIOUS
  <2>1. Len(w) \in 1 .. Len(w) /\ root = w[1]
    BY DEF Holds, Ring!IsRing
  <2> QED BY <2>1 DEF Holds, Ring!IsRing, Ring!Succ
<1> QED
  BY <1>1, <1>2, <1>4, <1>5, ZenonT(40) DEF SearchEnds

----------------------------------------------------------------------------
(* Linking and unlinking.                                                  *)

\* The variables w without the one at k.
Without(w, k) == [i \in 1 .. Len(w) - 1 |-> w[IF i < k THEN i ELSE i + 1]]

\* Nodes that the variables w do not use are left as they are.
Leaves(t, w, r) ==
  /\ r.name = t.name /\ r.text = t.text /\ r.born = t.born
  /\ \A v \in Nodes(t) :
       (\A i \in 1 .. Len(w) : w[i] # v) => r.next[v] = t.next[v] /\ r.prev[v] = t.prev[v]

\* t with next[a] = x and prev[b] = y.
Linked(t, a, x, b, y) == [t EXCEPT !.next[a] = x, !.prev[b] = y]

\* r has these two links, and else those of t.
Relinked(r, t, a, x, b, y) ==
  \A v \in Nodes(t) : /\ r.next[v] = IF v = a THEN x ELSE t.next[v]
                      /\ r.prev[v] = IF v = b THEN y ELSE t.prev[v]

LEMMA SetLinks ==
  ASSUME NEW t, IsTable(t), NEW a \in Nodes(t), NEW b \in Nodes(t),
         NEW x \in Nodes(t), NEW y \in Nodes(t),
         NEW r, r = Linked(t, a, x, b, y)
  PROVE  /\ IsTable(r)
         /\ r.name = t.name /\ r.text = t.text /\ r.born = t.born
         /\ Relinked(r, t, a, x, b, y)
<1>1. /\ t \in [next : Seq(Nat), prev : Seq(Nat), name : Seq(String), text : Seq(String), born : Seq(Nat)]
      /\ Len(t.next) = Len(t.name) /\ Len(t.prev) = Len(t.name)
      /\ Len(t.text) = Len(t.name) /\ Len(t.born) = Len(t.name)
  BY DEF IsTable
<1>2. /\ r.name = t.name /\ r.text = t.text /\ r.born = t.born
      /\ r.next = [t.next EXCEPT ![a] = x] /\ r.prev = [t.prev EXCEPT ![b] = y]
      /\ r = [next |-> r.next, prev |-> r.prev, name |-> r.name, text |-> r.text, born |-> r.born]
  BY <1>1 DEF Linked
<1>6. a \in 1 .. Len(t.next) /\ b \in 1 .. Len(t.prev) /\ x \in Nat /\ y \in Nat
  BY <1>1 DEF Nodes
<1>3. /\ r.next \in Seq(Nat) /\ Len(r.next) = Len(t.next)
      /\ r.prev \in Seq(Nat) /\ Len(r.prev) = Len(t.prev)
  BY <1>1, <1>2, <1>6, ExceptSeq
<1>4. IsTable(r)
  BY <1>1, <1>2, <1>3 DEF IsTable
<1>5. \A v \in Nodes(t) : /\ r.next[v] = IF v = a THEN x ELSE t.next[v]
                          /\ r.prev[v] = IF v = b THEN y ELSE t.prev[v]
  <2>1. DOMAIN t.next = 1 .. Len(t.next) /\ DOMAIN t.prev = 1 .. Len(t.prev)
    BY <1>1
  <2> QED BY <1>1, <1>2, <2>1 DEF Nodes
<1> QED
  BY <1>2, <1>4, <1>5 DEF Relinked

\* Of the variables of a table: where they are and how they are linked.
LEMMA HoldsFacts ==
  ASSUME NEW t, NEW root, NEW w, IsTable(t), Holds(t, root, w)
  PROVE  /\ Len(w) \in Nat /\ Len(t.name) \in Nat /\ Len(w) <= Len(t.name)
         /\ w = [i \in 1 .. Len(w) |-> w[i]]
         /\ \A i \in 1 .. Len(w) : w[i] \in Nodes(t) /\ w[i] \in Nat \ {NULL}
         /\ root = IF Len(w) = 0 THEN NULL ELSE w[1]
         /\ \A i, j \in 1 .. Len(w) : w[i] = w[j] => i = j
         /\ \A i \in 1 .. Len(w) : t.next[w[i]] = w[IF i = Len(w) THEN 1 ELSE i + 1]
         /\ \A i \in 1 .. Len(w) : t.prev[w[i]] = w[IF i = 1 THEN Len(w) ELSE i - 1]
<1>1. t.name \in Seq(String) /\ Len(t.name) \in Nat
  BY DEF IsTable
<1>2. /\ w \in Seq(1 .. Len(t.name)) /\ Len(w) <= Len(t.name)
      /\ Len(w) \in Nat
      /\ \A i \in 1 .. Len(w) : w[i] \in 1 .. Len(t.name)
      /\ w = [i \in 1 .. Len(w) |-> w[i]]
  BY DEF Holds, Nodes
<1>3. /\ \A i, j \in 1 .. Len(w) : w[i] = w[j] => i = j
      /\ root = IF w = <<>> THEN NULL ELSE w[1]
  BY DEF Holds, Ring!IsRing, Ring!Distinct
<1>4. \A i \in 1 .. Len(w) : /\ t.next[w[i]] = w[IF i = Len(w) THEN 1 ELSE i + 1]
                             /\ t.prev[w[IF i = Len(w) THEN 1 ELSE i + 1]] = w[i]
  BY DEF Holds, Ring!IsRing, Ring!Succ
<1>5. ASSUME NEW i \in 1 .. Len(w) PROVE t.prev[w[i]] = w[IF i = 1 THEN Len(w) ELSE i - 1]
  <2>1. CASE i = 1
    <3>1. Len(w) \in 1 .. Len(w)
      BY <1>2
    <3> QED BY <1>4, <3>1, <2>1
  <2>2. CASE i # 1
    <3>1. i - 1 \in 1 .. Len(w) /\ i - 1 # Len(w) /\ i - 1 + 1 = i
      BY <1>2, <2>2
    <3> QED BY <1>4, <3>1, <2>2
  <2> QED BY <2>1, <2>2
<1>6. root = IF Len(w) = 0 THEN NULL ELSE w[1]
  BY <1>2, <1>3
<1> QED
  BY <1>1, <1>2, <1>3, <1>4, <1>5, <1>6 DEF Nodes, NULL

LEMMA HoldsIf ==
  ASSUME NEW t, NEW root, NEW w, IsTable(t), w \in Seq(Nodes(t)), Len(w) <= Len(t.name),
         root = IF Len(w) = 0 THEN NULL ELSE w[1],
         \A i, j \in 1 .. Len(w) : w[i] = w[j] => i = j,
         \A i, j \in 1 .. Len(w) : t.name[w[i]] = t.name[w[j]] => i = j,
         \A i \in 1 .. Len(w) : t.next[w[i]] = w[IF i = Len(w) THEN 1 ELSE i + 1],
         \A i \in 1 .. Len(w) : t.prev[w[i]] = w[IF i = 1 THEN Len(w) ELSE i - 1]
  PROVE  Holds(t, root, w)
<1>1. Len(w) \in Nat
  OBVIOUS
<1>2. ASSUME NEW i \in 1 .. Len(w)
      PROVE  /\ t.next[w[i]] = w[IF i = Len(w) THEN 1 ELSE i + 1]
             /\ t.prev[w[IF i = Len(w) THEN 1 ELSE i + 1]] = w[i]
  <2>1. CASE i = Len(w)
    <3>1. 1 \in 1 .. Len(w)
      BY <1>1
    <3>2. t.prev[w[1]] = w[Len(w)]
      BY <3>1
    <3> QED BY <3>2, <2>1
  <2>2. CASE i # Len(w)
    <3>1. i + 1 \in 1 .. Len(w) /\ i + 1 # 1 /\ i + 1 - 1 = i
      BY <1>1, <2>2
    <3>2. t.prev[w[i + 1]] = w[i]
      BY <3>1
    <3> QED BY <3>2, <2>2
  <2> QED BY <2>1, <2>2
<1>3. root = IF w = <<>> THEN NULL ELSE w[1]
  BY <1>1
<1> QED
  BY <1>1, <1>2, <1>3 DEF Holds, Ring!IsRing, Ring!Distinct, Ring!Succ

\* DualLinkRemove takes one variable out of the list; if it is the one of the
\* handle, the handle goes to the next.
LEMMA RemoveIs ==
  ASSUME NEW t, NEW root, NEW w, IsTable(t), Holds(t, root, w), NEW k \in 1 .. Len(w),
         NEW r, r = LinkRemove(t, root, w[k])
  PROVE  /\ IsTable(r.table) /\ Holds(r.table, r.root, Without(w, k))
         /\ Leaves(t, w, r.table)
         /\ k # 1 => r.root = root
<1> DEFINE n      == Len(w)
           item   == w[k]
           before == t.prev[item]
           after  == t.next[item]
           cut    == [t EXCEPT !.next[before] = after, !.prev[after] = before]
           u      == Without(w, k)
<1>1. /\ n \in Nat /\ Len(t.name) \in Nat /\ n <= Len(t.name)
      /\ \A i \in 1 .. n : w[i] \in Nodes(t) /\ w[i] \in Nat \ {NULL}
      /\ root = IF n = 0 THEN NULL ELSE w[1]
      /\ \A i, j \in 1 .. n : w[i] = w[j] => i = j
      /\ \A i \in 1 .. n : t.next[w[i]] = w[IF i = n THEN 1 ELSE i + 1]
      /\ \A i \in 1 .. n : t.prev[w[i]] = w[IF i = 1 THEN n ELSE i - 1]
  BY HoldsFacts
<1>2. \A i, j \in 1 .. n : t.name[w[i]] = t.name[w[j]] => i = j
  BY DEF Holds
<1> DEFINE b == IF k = 1 THEN n ELSE k - 1
           a == IF k = n THEN 1 ELSE k + 1
<1>3. /\ b \in 1 .. n /\ a \in 1 .. n /\ before = w[b] /\ after = w[a]
      /\ before \in Nodes(t) /\ after \in Nodes(t)
  <2> HIDE DEF u, cut
  <2>1. b \in 1 .. n /\ a \in 1 .. n
    BY <1>1
  <2>2. before = w[b]
    <3>1. t.prev[w[k]] = w[IF k = 1 THEN n ELSE k - 1]
      BY <1>1
    <3> QED BY <3>1
  <2>3. after = w[a]
    <3>1. t.next[w[k]] = w[IF k = n THEN 1 ELSE k + 1]
      BY <1>1
    <3> QED BY <3>1
  <2> HIDE DEF n, before, after, a, b
  <2> QED BY <2>1, <2>2, <2>3, <1>1
<1>4. /\ IsTable(cut)
      /\ cut.name = t.name /\ cut.text = t.text /\ cut.born = t.born
      /\ \A v \in Nodes(t) : /\ cut.next[v] = IF v = before THEN after ELSE t.next[v]
                             /\ cut.prev[v] = IF v = after THEN before ELSE t.prev[v]
  <2> HIDE DEF before, after
  <2>1. cut = Linked(t, before, after, after, before)
    BY DEF Linked
  <2> HIDE DEF cut, n, item
  <2>2. before \in Nodes(t) /\ after \in Nodes(t)
    BY <1>3
  <2> QED BY <2>1, <2>2, SetLinks DEF Relinked
<1>5. /\ r.table = cut
      /\ r.root = IF root # item THEN root ELSE IF cut.next[item] = item THEN NULL ELSE cut.next[item]
  BY DEF LinkRemove
<1> HIDE DEF before, after, cut
<1>6. /\ Len(u) = n - 1 /\ u \in Seq(Nodes(t)) /\ Nodes(cut) = Nodes(t)
      /\ \A i \in 1 .. n - 1 : /\ u[i] = w[IF i < k THEN i ELSE i + 1]
                               /\ (IF i < k THEN i ELSE i + 1) \in (1 .. n) \ {k}
  BY <1>1, <1>4 DEF Without, Nodes
<1>7. \A i, j \in 1 .. n - 1 : (u[i] = u[j] => i = j) /\ (t.name[u[i]] = t.name[u[j]] => i = j)
  <2> SUFFICES ASSUME NEW i \in 1 .. n - 1, NEW j \in 1 .. n - 1
               PROVE  (u[i] = u[j] => i = j) /\ (t.name[u[i]] = t.name[u[j]] => i = j)
    OBVIOUS
  <2> HIDE DEF u
  <2> DEFINE p == IF i < k THEN i ELSE i + 1
             q == IF j < k THEN j ELSE j + 1
  <2>1. u[i] = w[p] /\ p \in 1 .. n
    BY <1>6
  <2>2. u[j] = w[q] /\ q \in 1 .. n
    BY <1>6
  <2>3. p = q => i = j
    BY <1>1
  <2> HIDE DEF p, q
  <2> QED BY <2>1, <2>2, <2>3, <1>1, <1>2
<1>8. ASSUME NEW i \in 1 .. n - 1
      PROVE  /\ cut.next[u[i]] = u[IF i = n - 1 THEN 1 ELSE i + 1]
             /\ cut.prev[u[i]] = u[IF i = 1 THEN n - 1 ELSE i - 1]
  <2> DEFINE j == IF i < k THEN i ELSE i + 1
             l == IF i = n - 1 THEN 1 ELSE i + 1
             h == IF i = 1 THEN n - 1 ELSE i - 1
  <2> HIDE DEF u
  <2>1. /\ j \in 1 .. n /\ j # k /\ u[i] = w[j] /\ l \in 1 .. n - 1 /\ h \in 1 .. n - 1
        /\ u[l] = w[IF l < k THEN l ELSE l + 1] /\ u[h] = w[IF h < k THEN h ELSE h + 1]
    <3>1. l \in 1 .. n - 1 /\ h \in 1 .. n - 1
      BY <1>1
    <3>2. j \in 1 .. n /\ j # k /\ u[i] = w[j]
      BY <1>6
    <3> HIDE DEF l, h
    <3> QED BY <3>1, <3>2, <1>6
  <2>2. cut.next[w[j]] = IF j = b THEN w[a] ELSE t.next[w[j]]
    BY <2>1, <1>1, <1>3, <1>4, ZenonT(40)
  <2>3. cut.prev[w[j]] = IF j = a THEN w[b] ELSE t.prev[w[j]]
    BY <2>1, <1>1, <1>3, <1>4, ZenonT(40)
  <2>4. t.next[w[j]] = w[IF j = n THEN 1 ELSE j + 1] /\ t.prev[w[j]] = w[IF j = 1 THEN n ELSE j - 1]
    BY <2>1, <1>1
  <2>5. (IF l < k THEN l ELSE l + 1) = IF j = b THEN a ELSE IF j = n THEN 1 ELSE j + 1
    BY <1>1
  <2>6. (IF h < k THEN h ELSE h + 1) = IF j = a THEN b ELSE IF j = 1 THEN n ELSE j - 1
    BY <1>1
  <2>7. cut.next[u[i]] = u[l]
    BY <2>1, <2>2, <2>4, <2>5
  <2>8. cut.prev[u[i]] = u[h]
    BY <2>1, <2>3, <2>4, <2>6
  <2> QED BY <2>7, <2>8
<1>9. r.root = IF n - 1 = 0 THEN NULL ELSE u[1]
  <2>1. CASE k # 1
    <3>1. root # item /\ root = w[1] /\ n - 1 # 0
      BY <1>1, <2>1
    <3>2. 1 \in 1 .. n - 1 /\ 1 < k
      BY <1>1, <2>1
    <3> QED BY <3>1, <3>2, <1>5, <1>6
  <2>2. CASE k = 1 /\ n = 1
    <3>1. root = item /\ after = item /\ before = item
      BY <1>1, <1>3, <2>2
    <3>2. cut.next[item] = item
      BY <3>1, <1>3, <1>4
    <3> QED BY <3>1, <3>2, <1>5, <2>2
  <2>3. CASE k = 1 /\ n # 1
    <3>1. root = item /\ after = w[2] /\ before = w[n] /\ item # before /\ item # after
      BY <1>1, <1>3, <2>3
    <3>2. cut.next[item] = after
      <4>1. item \in Nodes(t)
        BY <1>1
      <4> QED BY <3>1, <4>1, <1>4 DEF after
    <3>3. u[1] = w[2]
      BY <1>1, <1>6, <2>3
    <3> QED BY <3>1, <3>2, <3>3, <1>1, <1>5, <2>3
  <2> QED BY <2>1, <2>2, <2>3
<1>10. Holds(cut, r.root, u)
  <2> HIDE DEF u
  <2>1. Len(u) = n - 1 /\ u \in Seq(Nodes(cut)) /\ Len(u) <= Len(cut.name)
    BY <1>1, <1>4, <1>6
  <2>2. \A i, j \in 1 .. Len(u) : cut.name[u[i]] = cut.name[u[j]] => i = j
    BY <2>1, <1>4, <1>7
  <2>3. /\ r.root = IF Len(u) = 0 THEN NULL ELSE u[1]
        /\ \A i, j \in 1 .. Len(u) : u[i] = u[j] => i = j
        /\ \A i \in 1 .. Len(u) : cut.next[u[i]] = u[IF i = Len(u) THEN 1 ELSE i + 1]
        /\ \A i \in 1 .. Len(u) : cut.prev[u[i]] = u[IF i = 1 THEN Len(u) ELSE i - 1]
    BY <2>1, <1>7, <1>8, <1>9
  <2> QED BY <2>1, <2>2, <2>3, <1>4, HoldsIf
<1>11. Leaves(t, w, cut)
  BY <1>3, <1>4 DEF Leaves
<1>12. k # 1 => r.root = root
  BY <1>1, <1>5
<1> QED
  BY <1>4, <1>5, <1>10, <1>11, <1>12

\* DualLinkAppend enters a variable of a new name at the end of the list.
LEMMA AppendIs ==
  ASSUME NEW t, NEW root, NEW w, IsTable(t), Holds(t, root, w), NEW item \in Nodes(t),
         \A i \in 1 .. Len(w) : w[i] # item /\ t.name[w[i]] # t.name[item],
         Len(w) < Len(t.name),
         NEW r, r = LinkAppend(t, root, item)
  PROVE  /\ IsTable(r.table) /\ Holds(r.table, r.root, Append(w, item))
         /\ Leaves(t, Append(w, item), r.table)
         /\ root # NULL => r.root = root
<1> DEFINE n == Len(w)
           u == Append(w, item)
<1>1. /\ n \in Nat /\ Len(t.name) \in Nat
      /\ w \in Seq(Nodes(t))
      /\ \A i \in 1 .. n : w[i] \in Nodes(t) /\ w[i] \in Nat \ {NULL}
      /\ root = IF n = 0 THEN NULL ELSE w[1]
      /\ \A i, j \in 1 .. n : w[i] = w[j] => i = j
      /\ \A i \in 1 .. n : t.next[w[i]] = w[IF i = n THEN 1 ELSE i + 1]
      /\ \A i \in 1 .. n : t.prev[w[i]] = w[IF i = 1 THEN n ELSE i - 1]
  <2>1. w \in Seq(Nodes(t))
    BY DEF Holds
  <2> QED BY <2>1, HoldsFacts
<1>2. \A i, j \in 1 .. n : t.name[w[i]] = t.name[w[j]] => i = j
  BY DEF Holds
<1>3. /\ u \in Seq(Nodes(t)) /\ Len(u) = n + 1 /\ Len(u) <= Len(t.name) /\ u[n + 1] = item
      /\ \A i \in 1 .. n : u[i] = w[i]
  BY <1>1
<1> HIDE DEF u
<1>4. /\ \A i, j \in 1 .. Len(u) : u[i] = u[j] => i = j
      /\ \A i, j \in 1 .. Len(u) : t.name[u[i]] = t.name[u[j]] => i = j
  <2>1. \A i \in 1 .. Len(u) : (i \in 1 .. n /\ u[i] = w[i]) \/ (i = n + 1 /\ u[i] = item)
    BY <1>1, <1>3
  <2>2. \A i, j \in 1 .. Len(u) : u[i] = u[j] => i = j
    BY <2>1, <1>1
  <2>3. \A i, j \in 1 .. Len(u) : t.name[u[i]] = t.name[u[j]] => i = j
    BY <2>1, <1>2
  <2> QED BY <2>2, <2>3
<1>5. CASE n = 0
  <2> DEFINE s == Linked(t, item, item, item, item)
  <2>1. root = NULL /\ r.table = s /\ r.root = item
    BY <1>1, <1>5 DEF LinkAppend, Linked
  <2>2. /\ IsTable(s) /\ s.name = t.name /\ s.text = t.text /\ s.born = t.born
        /\ \A v \in Nodes(t) : /\ s.next[v] = IF v = item THEN item ELSE t.next[v]
                               /\ s.prev[v] = IF v = item THEN item ELSE t.prev[v]
    BY SetLinks DEF Relinked
  <2> HIDE DEF s
  <2>3. Len(u) = 1 /\ u[1] = item
    BY <1>3, <1>5
  <2>4. u \in Seq(Nodes(s)) /\ Len(u) <= Len(s.name)
    BY <1>3, <2>2 DEF Nodes
  <2>5. /\ \A i \in 1 .. Len(u) : s.next[u[i]] = u[IF i = Len(u) THEN 1 ELSE i + 1]
        /\ \A i \in 1 .. Len(u) : s.prev[u[i]] = u[IF i = 1 THEN Len(u) ELSE i - 1]
    BY <2>2, <2>3
  <2>6. \A i, j \in 1 .. Len(u) : s.name[u[i]] = s.name[u[j]] => i = j
    BY <1>4, <2>2
  <2>7. item = IF Len(u) = 0 THEN NULL ELSE u[1]
    BY <2>3
  <2>8. Holds(s, item, u)
    BY <1>4, <2>2, <2>4, <2>5, <2>6, <2>7, HoldsIf
  <2>9. Leaves(t, u, s)
    BY <2>2, <2>3 DEF Leaves
  <2> QED BY <2>1, <2>2, <2>8, <2>9 DEF u
<1>6. CASE n > 0
  <2> DEFINE last == t.prev[root]
             s    == Linked(t, item, root, item, last)
             q    == Linked(s, last, item, root, item)
  <2>1. /\ root = w[1] /\ root # NULL /\ last = w[n] /\ 1 \in 1 .. n /\ n \in 1 .. n
        /\ root \in Nodes(t) /\ last \in Nodes(t)
    BY <1>1, <1>6
  <2> HIDE DEF last
  <2>2. /\ IsTable(s) /\ s.name = t.name /\ s.text = t.text /\ s.born = t.born
        /\ \A v \in Nodes(t) : /\ s.next[v] = IF v = item THEN root ELSE t.next[v]
                               /\ s.prev[v] = IF v = item THEN last ELSE t.prev[v]
    BY <2>1, SetLinks, SMTT(30) DEF Relinked
  <2>3. r.root = root /\ r.table = q
    BY <2>1 DEF LinkAppend, Linked, last, IsTable
  <2> HIDE DEF s
  <2>4. Nodes(s) = Nodes(t)
    BY <2>2 DEF Nodes
  <2>5. /\ IsTable(q) /\ q.name = t.name /\ q.text = t.text /\ q.born = t.born
        /\ \A v \in Nodes(s) : /\ q.next[v] = IF v = last THEN item ELSE s.next[v]
                               /\ q.prev[v] = IF v = root THEN item ELSE s.prev[v]
    <3>1. /\ last \in Nodes(s) /\ item \in Nodes(s) /\ root \in Nodes(s)
      BY <2>1, <2>4
    <3>2. /\ IsTable(q) /\ q.name = s.name /\ q.text = s.text /\ q.born = s.born
          /\ \A v \in Nodes(s) : /\ q.next[v] = IF v = last THEN item ELSE s.next[v]
                                 /\ q.prev[v] = IF v = root THEN item ELSE s.prev[v]
      BY <2>2, <3>1, SetLinks DEF Relinked
    <3> QED BY <3>2, <2>2
  <2> HIDE DEF q
  <2>6. \A v \in Nodes(t) :
          /\ q.next[v] = IF v = last THEN item ELSE IF v = item THEN root ELSE t.next[v]
          /\ q.prev[v] = IF v = root THEN item ELSE IF v = item THEN last ELSE t.prev[v]
    BY <2>2, <2>4, <2>5
  <2>7. item # root /\ item # last
    BY <2>1
  <2>8. ASSUME NEW i \in 1 .. Len(u)
        PROVE  /\ q.next[u[i]] = u[IF i = Len(u) THEN 1 ELSE i + 1]
               /\ q.prev[u[i]] = u[IF i = 1 THEN Len(u) ELSE i - 1]
    <3>1. CASE i = n + 1
      <4>1. u[i] = item /\ u[1] = root /\ u[n] = last /\ i - 1 = n /\ i # 1
        BY <1>1, <1>3, <2>1, <3>1
      <4> QED BY <4>1, <2>6, <2>7, <1>3, <3>1
    <3>2. CASE i \in 1 .. n
      <4>1. u[i] = w[i] /\ w[i] # item /\ w[i] \in Nodes(t) /\ i # Len(u)
        BY <1>1, <1>3, <3>2
      <4>2. q.next[u[i]] = u[i + 1]
        <5>1. CASE i = n
          BY <5>1, <4>1, <2>1, <2>6, <1>3
        <5>2. CASE i # n
          <6>1. i + 1 \in 1 .. n /\ w[i] # last
            <7>1. i + 1 \in 1 .. n
              BY <5>2, <3>2, <1>1
            <7>2. w[i] # w[n]
              BY <5>2, <3>2, <1>1, <2>1
            <7> QED BY <7>1, <7>2, <2>1
          <6>2. t.next[w[i]] = w[i + 1]
            BY <5>2, <3>2, <1>1
          <6> QED BY <6>1, <6>2, <4>1, <2>6, <1>3
        <5> QED BY <5>1, <5>2
      <4>3. q.prev[u[i]] = u[IF i = 1 THEN Len(u) ELSE i - 1]
        <5>1. CASE i = 1
          BY <5>1, <4>1, <2>1, <2>6, <1>3
        <5>2. CASE i # 1
          <6>1. i - 1 \in 1 .. n /\ w[i] # root
            <7>1. i - 1 \in 1 .. n
              BY <5>2, <3>2, <1>1
            <7>2. w[i] # w[1]
              BY <5>2, <3>2, <1>1, <2>1
            <7> QED BY <7>1, <7>2, <2>1
          <6>2. t.prev[w[i]] = w[i - 1]
            BY <5>2, <3>2, <1>1
          <6> QED BY <5>2, <6>1, <6>2, <4>1, <2>6, <1>3
        <5> QED BY <5>1, <5>2
      <4> QED BY <4>1, <4>2, <4>3
    <3> QED BY <3>1, <3>2, <1>1, <1>3
  <2>9. u \in Seq(Nodes(q)) /\ Len(u) <= Len(q.name)
    BY <1>3, <2>5 DEF Nodes
  <2>10. \A i, j \in 1 .. Len(u) : q.name[u[i]] = q.name[u[j]] => i = j
    BY <1>4, <2>5
  <2>11. root = IF Len(u) = 0 THEN NULL ELSE u[1]
    BY <1>1, <1>3, <2>1
  <2>12. Holds(q, root, u)
    BY <1>4, <2>5, <2>8, <2>9, <2>10, <2>11, HoldsIf
  <2>13. Leaves(t, u, q)
    <3>1. last = u[n] /\ root = u[1] /\ item = u[n + 1] /\ {n, 1, n + 1} \subseteq 1 .. Len(u)
      BY <1>1, <1>3, <2>1
    <3> QED BY <3>1, <2>5, <2>6 DEF Leaves
  <2> QED BY <2>3, <2>5, <2>12, <2>13 DEF u
<1> QED
  BY <1>1, <1>5, <1>6

----------------------------------------------------------------------------
(* The operations of sf_var.c.                                             *)

\* In r a search for name finds v, and every other search what it finds in t.
Finds(r, name, v, t, root) ==
  \A x : VarSearch(r.table, r.root, x) = IF x = name THEN v ELSE VarSearch(t, root, x)

\* r has variables of w, none of them called name.
Keeps(t, w, name, r) ==
  \E u : /\ Holds(r.table, r.root, u)
         /\ Len(u) \in Nat /\ Len(u) <= Len(w)
         /\ \A i \in 1 .. Len(u) : /\ \E j \in 1 .. Len(w) : u[i] = w[j]
                                   /\ t.name[u[i]] # name

\* A table stays what it is when others are changed and new nodes are made.
LEMMA HoldsElsewhere ==
  ASSUME NEW t, NEW root, NEW w, IsTable(t), Holds(t, root, w),
         NEW r, IsTable(r), Len(t.name) <= Len(r.name),
         \A i \in 1 .. Len(w) : /\ r.next[w[i]] = t.next[w[i]] /\ r.prev[w[i]] = t.prev[w[i]]
                                /\ r.name[w[i]] = t.name[w[i]]
  PROVE  /\ Holds(r, root, w)
         /\ \A x : VarSearch(r, root, x) = VarSearch(t, root, x)
<1>1. Holds(r, root, w)
  <2>1. /\ Len(w) \in Nat /\ Len(t.name) \in Nat /\ Len(w) <= Len(t.name)
        /\ root = IF Len(w) = 0 THEN NULL ELSE w[1]
        /\ \A i, j \in 1 .. Len(w) : w[i] = w[j] => i = j
        /\ \A i \in 1 .. Len(w) : t.next[w[i]] = w[IF i = Len(w) THEN 1 ELSE i + 1]
        /\ \A i \in 1 .. Len(w) : t.prev[w[i]] = w[IF i = 1 THEN Len(w) ELSE i - 1]
    BY HoldsFacts
  <2>2. Len(r.name) \in Nat
    BY DEF IsTable
  <2>3. Nodes(t) \subseteq Nodes(r) /\ Len(w) <= Len(r.name)
    BY <2>1, <2>2 DEF Nodes
  <2>4. w \in Seq(Nodes(r))
    BY <2>3 DEF Holds
  <2>5. \A i, j \in 1 .. Len(w) : r.name[w[i]] = r.name[w[j]] => i = j
    BY DEF Holds
  <2>6. /\ \A i \in 1 .. Len(w) : r.next[w[i]] = w[IF i = Len(w) THEN 1 ELSE i + 1]
        /\ \A i \in 1 .. Len(w) : r.prev[w[i]] = w[IF i = 1 THEN Len(w) ELSE i - 1]
    BY <2>1
  <2> QED BY <2>1, <2>3, <2>4, <2>5, <2>6, HoldsIf
<1>2. ASSUME NEW x PROVE VarSearch(r, root, x) = VarSearch(t, root, x)
  <2>1. CASE \E i \in 1 .. Len(w) : t.name[w[i]] = x
    <3>1. PICK i \in 1 .. Len(w) : t.name[w[i]] = x
      BY <2>1
    <3>2. VarSearch(t, root, x) = w[i]
      BY <3>1, SearchIs
    <3>3. VarSearch(r, root, x) = w[i]
      BY <3>1, <1>1, SearchIs
    <3> QED BY <3>2, <3>3
  <2>2. CASE \A i \in 1 .. Len(w) : t.name[w[i]] # x
    <3>1. VarSearch(t, root, x) = NULL
      BY <2>2, SearchIs
    <3>2. VarSearch(r, root, x) = NULL
      BY <2>2, <1>1, SearchIs
    <3> QED BY <3>1, <3>2
  <2> QED BY <2>1, <2>2
<1> QED
  BY <1>1, <1>2

\* sf_var_create makes a node that is in no list.
LEMMA CreateIs ==
  ASSUME NEW t, IsTable(t), NEW name \in String, NEW text \in String, NEW born \in Nat,
         NEW r, r = VarCreate(t, name, text, born)
  PROVE  /\ IsTable(r) /\ Len(t.name) \in Nat /\ Len(r.name) = Len(t.name) + 1
         /\ r.name[Len(r.name)] = name /\ r.born[Len(r.name)] = born
         /\ \A v \in Nodes(t) : /\ r.next[v] = t.next[v] /\ r.prev[v] = t.prev[v]
                                /\ r.name[v] = t.name[v] /\ r.born[v] = t.born[v]
<1> DEFINE n == Len(t.name)
<1>1. /\ t.next \in Seq(Nat) /\ t.prev \in Seq(Nat) /\ t.name \in Seq(String)
      /\ t.text \in Seq(String) /\ t.born \in Seq(Nat)
      /\ Len(t.next) = n /\ Len(t.prev) = n /\ Len(t.text) = n /\ Len(t.born) = n /\ n \in Nat
  BY DEF IsTable
<1>2. /\ r.next = Append(t.next, NULL) /\ r.prev = Append(t.prev, NULL)
      /\ r.name = Append(t.name, name) /\ r.text = Append(t.text, text)
      /\ r.born = Append(t.born, born)
      /\ r = [next |-> r.next, prev |-> r.prev, name |-> r.name, text |-> r.text, born |-> r.born]
  BY DEF VarCreate
<1>3. /\ r.next \in Seq(Nat) /\ r.prev \in Seq(Nat) /\ r.name \in Seq(String)
      /\ r.text \in Seq(String) /\ r.born \in Seq(Nat)
      /\ Len(r.next) = n + 1 /\ Len(r.prev) = n + 1 /\ Len(r.name) = n + 1
      /\ Len(r.text) = n + 1 /\ Len(r.born) = n + 1
  <2>1. /\ Append(t.name, name) \in Seq(String) /\ Len(Append(t.name, name)) = n + 1
        /\ Append(t.text, text) \in Seq(String) /\ Len(Append(t.text, text)) = n + 1
    BY <1>1, AppendProperties
  <2>2. /\ Append(t.next, NULL) \in Seq(Nat) /\ Len(Append(t.next, NULL)) = n + 1
        /\ Append(t.prev, NULL) \in Seq(Nat) /\ Len(Append(t.prev, NULL)) = n + 1
        /\ Append(t.born, born) \in Seq(Nat) /\ Len(Append(t.born, born)) = n + 1
    BY <1>1, SMTT(30) DEF NULL
  <2> QED BY <2>1, <2>2, <1>2
<1>4. IsTable(r)
  BY <1>2, <1>3 DEF IsTable
<1>5. /\ r.name[n + 1] = name /\ r.born[n + 1] = born
      /\ \A v \in 1 .. n : /\ r.next[v] = t.next[v] /\ r.prev[v] = t.prev[v]
                           /\ r.name[v] = t.name[v] /\ r.born[v] = t.born[v]
  <2>1. /\ Append(t.name, name)[n + 1] = name
        /\ \A v \in 1 .. n : Append(t.name, name)[v] = t.name[v]
    BY <1>1, AppendProperties
  <2>2. /\ Append(t.born, born)[n + 1] = born
        /\ \A v \in 1 .. n : Append(t.born, born)[v] = t.born[v]
    <3> DEFINE s == t.born
    <3>1. s \in Seq(Nat) /\ Len(s) = n /\ n \in Nat
      BY <1>1
    <3> HIDE DEF s, n
    <3>2. Append(s, born)[n + 1] = born
      BY <3>1
    <3>3. \A v \in 1 .. n : Append(s, born)[v] = s[v]
      BY <3>1
    <3> QED BY <3>2, <3>3 DEF s
  <2>3. /\ \A v \in 1 .. n : Append(t.next, NULL)[v] = t.next[v]
        /\ \A v \in 1 .. n : Append(t.prev, NULL)[v] = t.prev[v]
    BY <1>1 DEF NULL
  <2> QED BY <2>1, <2>2, <2>3, <1>2
<1> QED
  BY <1>1, <1>3, <1>4, <1>5 DEF Nodes

\* sf_var_delete: a search for the name fails afterwards, every other search
\* finds what it found.
LEMMA DeleteIs ==
  ASSUME NEW t, NEW root, NEW w, IsTable(t), Holds(t, root, w), NEW name,
         NEW r, r = VarDelete(t, root, name)
  PROVE  /\ IsTable(r.table) /\ Leaves(t, w, r.table)
         /\ root # NULL /\ t.name[root] # name => r.root = root
         /\ Keeps(t, w, name, r)
         /\ Finds(r, name, NULL, t, root)
<1>1. Len(w) \in Nat /\ root = IF Len(w) = 0 THEN NULL ELSE w[1]
  BY HoldsFacts
<1>2. CASE \A i \in 1 .. Len(w) : t.name[w[i]] # name
  <2>1. VarSearch(t, root, name) = NULL
    BY <1>2, SearchIs
  <2>2. r.table = t /\ r.root = root
    BY <2>1 DEF VarDelete
  <2>3. Leaves(t, w, t)
    BY DEF Leaves
  <2>4. Keeps(t, w, name, r)
    BY <2>2, <1>1, <1>2 DEF Keeps
  <2>5. Finds(r, name, NULL, t, root)
    BY <2>1, <2>2 DEF Finds
  <2> QED BY <2>2, <2>3, <2>4, <2>5
<1>3. CASE \E i \in 1 .. Len(w) : t.name[w[i]] = name
  <2>1. PICK k \in 1 .. Len(w) : t.name[w[k]] = name
    BY <1>3
  <2>2. VarSearch(t, root, name) = w[k] /\ w[k] # NULL
    BY <2>1, SearchIs, HoldsFacts
  <2>3. r = LinkRemove(t, root, w[k])
    BY <2>2 DEF VarDelete
  <2> DEFINE u == Without(w, k)
  <2>4. /\ IsTable(r.table) /\ Holds(r.table, r.root, u)
        /\ Leaves(t, w, r.table)
        /\ k # 1 => r.root = root
    BY <2>3, RemoveIs
  <2>5. /\ Len(u) = Len(w) - 1
        /\ \A i \in 1 .. Len(w) - 1 : \E j \in 1 .. Len(w) : j # k /\ u[i] = w[j]
    BY <1>1 DEF Without
  <2>6. ASSUME NEW j \in 1 .. Len(w), j # k PROVE \E i \in 1 .. Len(w) - 1 : u[i] = w[j]
    <3>1. CASE j < k
      BY <3>1, <1>1 DEF Without
    <3>2. CASE j > k
      <4>1. j - 1 \in 1 .. Len(w) - 1 /\ ~ (j - 1 < k) /\ j - 1 + 1 = j
        BY <3>2, <1>1
      <4>2. u[j - 1] = w[j]
        BY <4>1 DEF Without
      <4> QED BY <4>1, <4>2
    <3> QED BY <3>1, <3>2, <2>6, <1>1
  <2> HIDE DEF u
  <2>7. \A i, j \in 1 .. Len(w) : t.name[w[i]] = t.name[w[j]] => i = j
    BY DEF Holds
  <2>8. r.table.name = t.name
    BY <2>4 DEF Leaves
  <2>9. \A i \in 1 .. Len(u) : /\ \E j \in 1 .. Len(w) : u[i] = w[j]
                               /\ t.name[u[i]] # name
    BY <2>1, <2>5, <2>7
  <2>10. ASSUME NEW x
         PROVE  VarSearch(r.table, r.root, x) = IF x = name THEN NULL ELSE VarSearch(t, root, x)
    <3>1. CASE x # name /\ \E j \in 1 .. Len(w) : t.name[w[j]] = x
      <4>1. PICK j \in 1 .. Len(w) : t.name[w[j]] = x
        BY <3>1
      <4>2. PICK i \in 1 .. Len(u) : u[i] = w[j]
        BY <4>1, <3>1, <2>1, <2>5, <2>6
      <4>3. VarSearch(t, root, x) = w[j]
        BY <4>1, SearchIs
      <4>4. r.table.name[u[i]] = x
        BY <4>1, <4>2, <2>8
      <4>5. VarSearch(r.table, r.root, x) = u[i]
        BY <4>4, <2>4, SearchIs
      <4> QED BY <3>1, <4>2, <4>3, <4>5
    <3>2. CASE x = name \/ \A j \in 1 .. Len(w) : t.name[w[j]] # x
      <4>1. \A i \in 1 .. Len(u) : r.table.name[u[i]] # x
        BY <3>2, <2>8, <2>9
      <4>2. VarSearch(r.table, r.root, x) = NULL
        BY <4>1, <2>4, SearchIs
      <4>3. x # name => VarSearch(t, root, x) = NULL
        BY <3>2, SearchIs
      <4> QED BY <4>2, <4>3
    <3> QED BY <3>1, <3>2
  <2>11. root # NULL /\ t.name[root] # name => r.root = root
    BY <1>1, <2>1, <2>4
  <2>12. Len(u) \in Nat /\ Len(u) <= Len(w)
    BY <1>1, <2>1, <2>5
  <2>13. Keeps(t, w, name, r)
    BY <2>4, <2>9, <2>12 DEF Keeps
  <2>14. Finds(r, name, NULL, t, root)
    BY <2>10 DEF Finds
  <2> QED BY <2>4, <2>11, <2>13, <2>14
<1> QED
  BY <1>2, <1>3

\* sf_var_insert: a search for the name finds the new node, every other search
\* what it found; nodes of other lists are left alone.
LEMMA InsertIs ==
  ASSUME NEW t, NEW root, NEW w, IsTable(t), Holds(t, root, w),
         NEW name \in String, NEW text \in String, NEW born \in Nat,
         NEW r, r = VarInsert(t, root, name, text, born)
  PROVE  /\ IsTable(r.table) /\ Len(t.name) \in Nat /\ Len(r.table.name) = Len(t.name) + 1
         /\ r.root # NULL
         /\ root # NULL /\ t.name[root] # name => r.root = root
         /\ \E u : /\ Holds(r.table, r.root, u)
                   /\ \A i \in 1 .. Len(u) : \/ u[i] = Len(t.name) + 1
                                             \/ \E j \in 1 .. Len(w) : u[i] = w[j]
         /\ \A v \in Nodes(t) :
              /\ r.table.name[v] = t.name[v] /\ r.table.born[v] = t.born[v]
              /\ (\A i \in 1 .. Len(w) : w[i] # v) =>
                   r.table.next[v] = t.next[v] /\ r.table.prev[v] = t.prev[v]
         /\ r.table.born[Len(t.name) + 1] = born
         /\ Finds(r, name, Len(t.name) + 1, t, root)
<1> DEFINE n    == Len(t.name)
           made == VarCreate(t, name, text, born)
           cut  == VarDelete(made, root, name)
<1>1. /\ IsTable(made) /\ n \in Nat /\ Len(made.name) = n + 1
      /\ made.name[n + 1] = name /\ made.born[n + 1] = born
      /\ \A v \in Nodes(t) : /\ made.next[v] = t.next[v] /\ made.prev[v] = t.prev[v]
                             /\ made.name[v] = t.name[v] /\ made.born[v] = t.born[v]
  <2> HIDE DEF made
  <2>1. made = VarCreate(t, name, text, born)
    BY DEF made
  <2>2. Len(made.name) = n + 1
    BY <2>1, CreateIs
  <2> QED BY <2>1, <2>2, CreateIs
<1>2. r = LinkAppend(cut.table, cut.root, n + 1)
  BY <1>1 DEF VarInsert
<1> HIDE DEF made
<1>3. /\ Len(w) \in Nat /\ Len(w) <= n /\ root = IF Len(w) = 0 THEN NULL ELSE w[1]
      /\ \A i \in 1 .. Len(w) : w[i] \in Nodes(t) /\ w[i] # n + 1
  BY HoldsFacts DEF Nodes
<1>4. Holds(made, root, w) /\ \A x : VarSearch(made, root, x) = VarSearch(t, root, x)
  <2>1. Len(t.name) <= Len(made.name)
    BY <1>1
  <2> QED BY <1>1, <1>3, <2>1, HoldsElsewhere
<1>5. /\ IsTable(cut.table) /\ Leaves(made, w, cut.table)
      /\ root # NULL /\ made.name[root] # name => cut.root = root
      /\ Keeps(made, w, name, cut)
      /\ Finds(cut, name, NULL, made, root)
  <2> HIDE DEF cut
  <2>1. cut = VarDelete(made, root, name)
    BY DEF cut
  <2>2. IsTable(made) /\ Holds(made, root, w)
    BY <1>1, <1>4
  <2> QED BY <2>1, <2>2, DeleteIs
<1> HIDE DEF cut
<1>6. PICK u : /\ Holds(cut.table, cut.root, u)
               /\ Len(u) \in Nat /\ Len(u) <= Len(w)
               /\ \A i \in 1 .. Len(u) : /\ \E j \in 1 .. Len(w) : u[i] = w[j]
                                         /\ made.name[u[i]] # name
  BY <1>5 DEF Keeps
<1>7. /\ cut.table.name = made.name /\ cut.table.born = made.born
      /\ Nodes(cut.table) = Nodes(made) /\ n + 1 \in Nodes(made)
      /\ Nodes(t) \subseteq Nodes(made)
      /\ \A v \in Nodes(made) : (\A i \in 1 .. Len(w) : w[i] # v) =>
           cut.table.next[v] = made.next[v] /\ cut.table.prev[v] = made.prev[v]
  BY <1>1, <1>5 DEF Leaves, Nodes
<1>8. \A i \in 1 .. Len(u) : u[i] # n + 1 /\ cut.table.name[u[i]] # cut.table.name[n + 1]
  BY <1>1, <1>3, <1>6, <1>7
<1> DEFINE z == Append(u, n + 1)
<1>9. /\ IsTable(r.table) /\ Holds(r.table, r.root, z)
      /\ Leaves(cut.table, z, r.table)
      /\ cut.root # NULL => r.root = cut.root
  <2>1. Len(u) < Len(cut.table.name) /\ n + 1 \in Nodes(cut.table)
    BY <1>1, <1>3, <1>6, <1>7
  <2>2. IsTable(cut.table) /\ Holds(cut.table, cut.root, u)
    BY <1>5, <1>6
  <2>3. IsTable(r.table) /\ Holds(r.table, r.root, z)
    BY <2>1, <2>2, <1>2, <1>8, AppendIs
  <2>4. Leaves(cut.table, z, r.table)
    BY <2>1, <2>2, <1>2, <1>8, AppendIs
  <2>5. cut.root # NULL => r.root = cut.root
    BY <2>1, <2>2, <1>2, <1>8, AppendIs
  <2> QED BY <2>3, <2>4, <2>5
<1>10. u \in Seq(Nodes(cut.table))
  BY <1>6 DEF Holds
<1>11. /\ Len(z) = Len(u) + 1 /\ z[Len(u) + 1] = n + 1
       /\ \A i \in 1 .. Len(u) : z[i] = u[i]
  BY <1>10
<1> HIDE DEF z
<1>12. /\ r.table.name = made.name /\ r.table.born = made.born
  BY <1>7, <1>9 DEF Leaves
<1>13. \A i \in 1 .. Len(z) : z[i] = n + 1 \/ \E j \in 1 .. Len(w) : z[i] = w[j]
  <2>1. \A i \in 1 .. Len(z) : i \in 1 .. Len(u) \/ i = Len(u) + 1
    BY <1>6, <1>11
  <2> QED BY <2>1, <1>6, <1>11
<1>14. ASSUME NEW v \in Nodes(t), \A i \in 1 .. Len(w) : w[i] # v
       PROVE  r.table.next[v] = t.next[v] /\ r.table.prev[v] = t.prev[v]
  <2>1. v \in Nodes(cut.table) /\ v # n + 1
    BY <1>1, <1>7 DEF Nodes
  <2>2. \A i \in 1 .. Len(z) : z[i] # v
    BY <2>1, <1>13, <1>14
  <2> QED BY <2>1, <2>2, <1>1, <1>7, <1>9, <1>14 DEF Leaves
<1>15. r.root # NULL /\ (root # NULL /\ t.name[root] # name => r.root = root)
  <2>1. r.root = z[1]
    BY <1>6, <1>9, <1>11, HoldsFacts
  <2>2. 1 \in 1 .. Len(z) /\ z[1] # NULL
    BY <1>6, <1>9, <1>11, HoldsFacts
  <2>3. root # NULL => made.name[root] = t.name[root]
    BY <1>1, <1>3
  <2> QED BY <2>1, <2>2, <2>3, <1>5, <1>9
<1>16. ASSUME NEW x
       PROVE  VarSearch(r.table, r.root, x) = IF x = name THEN n + 1 ELSE VarSearch(t, root, x)
  <2>1. CASE x = name
    <3>1. Len(u) + 1 \in 1 .. Len(z) /\ r.table.name[z[Len(u) + 1]] = name
      BY <1>1, <1>6, <1>11, <1>12
    <3>2. VarSearch(r.table, r.root, name) = z[Len(u) + 1]
      BY <3>1, <1>9, SearchIs
    <3> QED BY <3>2, <2>1, <1>11
  <2>2. CASE x # name /\ \E i \in 1 .. Len(u) : made.name[u[i]] = x
    <3>1. PICK i \in 1 .. Len(u) : made.name[u[i]] = x
      BY <2>2
    <3>2. i \in 1 .. Len(z) /\ z[i] = u[i]
      BY <1>6, <1>11
    <3>3. VarSearch(r.table, r.root, x) = u[i]
      BY <3>1, <3>2, <1>9, <1>12, SearchIs
    <3>4. VarSearch(cut.table, cut.root, x) = u[i]
      BY <3>1, <1>5, <1>6, <1>7, SearchIs
    <3> QED BY <3>3, <3>4, <2>2, <1>4, <1>5 DEF Finds
  <2>3. CASE x # name /\ \A i \in 1 .. Len(u) : made.name[u[i]] # x
    <3>1. \A i \in 1 .. Len(z) : i \in 1 .. Len(u) \/ i = Len(u) + 1
      BY <1>6, <1>11
    <3>2. \A i \in 1 .. Len(z) : r.table.name[z[i]] # x
      BY <3>1, <2>3, <1>1, <1>11, <1>12
    <3>3. VarSearch(r.table, r.root, x) = NULL
      BY <3>2, <1>9, SearchIs
    <3>4. VarSearch(cut.table, cut.root, x) = NULL
      BY <2>3, <1>5, <1>6, <1>7, SearchIs
    <3> QED BY <3>3, <3>4, <2>3, <1>4, <1>5 DEF Finds
  <2> QED BY <2>1, <2>2, <2>3
<1> QED
  <2>1. Finds(r, name, n + 1, t, root)
    BY <1>16 DEF Finds
  <2>2. /\ Len(r.table.name) = n + 1
        /\ r.table.born[n + 1] = born
        /\ \A v \in Nodes(t) : r.table.name[v] = t.name[v] /\ r.table.born[v] = t.born[v]
    BY <1>1, <1>12
  <2>3. \E v : /\ Holds(r.table, r.root, v)
               /\ \A i \in 1 .. Len(v) : v[i] = n + 1 \/ \E j \in 1 .. Len(w) : v[i] = w[j]
    BY <1>9, <1>13
  <2> QED BY <2>1, <2>2, <2>3, <1>1, <1>9, <1>14, <1>15

----------------------------------------------------------------------------
(* Wherever a handle is: the links of a table stay within it.              *)

\* A search finds one of the nodes that the handle is among.
LEMMA SearchWithin ==
  ASSUME NEW t, IsTable(t), NEW n \in Nat, Closed(t, n), NEW root \in 1 .. n, NEW name
  PROVE  VarSearch(t, root, name) \in 0 .. n
<1> DEFINE len  == Len(t.name)
           at   == CHOOSE g : g = [i \in 0 .. len |-> IF i = 0 THEN root ELSE t.next[g[i - 1]]]
           back == {i \in 1 .. len : at[i] = root}
           size == IF back = {} THEN len ELSE CHOOSE i \in back : \A j \in back : i <= j
           hits == {i \in 1 .. Len(Walk(t, root)) : t.name[Walk(t, root)[i]] = name}
<1>1. len \in Nat /\ root # NULL
  BY DEF IsTable, NULL
<1>2. Walk(t, root) = [i \in 1 .. size |-> at[i - 1]]
  BY <1>1 DEF Walk
<1>3. /\ at[0] = root
      /\ \A i \in 1 .. len : at[i] = t.next[at[i - 1]]
  <2> DEFINE m == len  next == t.next  a == root
  <2>1. m \in Nat
    BY <1>1
  <2>2. at = CHOOSE g : g = [i \in 0 .. m |-> IF i = 0 THEN a ELSE next[g[i - 1]]]
    OBVIOUS
  <2> HIDE DEF at, m, next, a
  <2>3. at = [i \in 0 .. m |-> IF i = 0 THEN a ELSE next[at[i - 1]]]
    BY <2>1, <2>2, WalkDefined
  <2>4. \A i \in 0 .. m : at[i] = IF i = 0 THEN a ELSE next[at[i - 1]]
    BY <2>3, Zenon
  <2> QED BY <2>1, <2>4 DEF m, next, a
<1> HIDE DEF at
<1> DEFINE Out == {i \in Nat : i <= len /\ at[i] \notin 1 .. n}
<1>4. Out = {}
  <2> SUFFICES ASSUME Out # {} PROVE FALSE
    OBVIOUS
  <2>1. PICK i \in Out : \A j \in Out : i <= j
    BY LeastNatural
  <2>2. i # 0
    BY <2>1, <1>3
  <2>3. i \in 1 .. len /\ at[i - 1] \in 1 .. n
    BY <2>1, <2>2, <1>1
  <2> QED BY <2>1, <2>3, <1>3 DEF Closed
<1>5. \A i \in 0 .. len : at[i] \in 1 .. n
  BY <1>4
<1>6. size \in 0 .. len
  <2>1. CASE back = {}
    BY <2>1, <1>1
  <2>2. CASE back # {}
    <3>1. back \in SUBSET Nat
      BY <1>1
    <3> HIDE DEF back
    <3>2. \E i \in back : \A j \in back : i <= j
      BY <2>2, <3>1, LeastNatural
    <3>3. (CHOOSE i \in back : \A j \in back : i <= j) \in back
      BY <3>2
    <3> QED BY <3>3, <2>2, <1>1, SMTT(30) DEF back
  <2> QED BY <2>1, <2>2
<1> HIDE DEF size, Out, back
<1>7. \A i \in 1 .. Len(Walk(t, root)) : Walk(t, root)[i] \in 1 .. n
  BY <1>1, <1>2, <1>5, <1>6
<1>8. VarSearch(t, root, name)
        = IF hits = {} THEN NULL ELSE Walk(t, root)[CHOOSE i \in hits : \A j \in hits : i <= j]
  BY DEF VarSearch
<1>9. CASE hits = {}
  BY <1>8, <1>9 DEF NULL
<1>10. CASE hits # {}
  <2>1. hits \in SUBSET Nat
    BY <1>1, <1>2, <1>6
  <2>2. \E i \in hits : \A j \in hits : i <= j
    BY <2>1, <1>10, LeastNatural
  <2>3. (CHOOSE i \in hits : \A j \in hits : i <= j) \in 1 .. Len(Walk(t, root))
    BY <2>2
  <2> QED BY <2>3, <1>7, <1>8, <1>10
<1> QED
  BY <1>9, <1>10

LEMMA AppendLinks ==
  ASSUME NEW t, IsTable(t), NEW root, NEW item, NEW r, r = LinkAppend(t, root, item)
  PROVE  IF root = NULL THEN r.table = Linked(t, item, item, item, item) /\ r.root = item
         ELSE /\ r.table = Linked(Linked(t, item, root, item, t.prev[root]),
                                  t.prev[root], item, root, item)
              /\ r.root = root
  BY DEF LinkAppend, Linked, IsTable

LEMMA LinksClosed ==
  ASSUME NEW t, IsTable(t), NEW n \in Nat, n <= Len(t.name), Closed(t, n),
         NEW a \in Nodes(t), NEW b \in Nodes(t), NEW x \in Nodes(t), NEW y \in Nodes(t),
         x <= n, y <= n,
         NEW r, r = Linked(t, a, x, b, y)
  PROVE  IsTable(r) /\ Len(r.name) = Len(t.name) /\ Closed(r, n)
<1>1. Len(t.name) \in Nat
  BY DEF IsTable
<1>2. x \in 1 .. n /\ y \in 1 .. n /\ \A v \in 1 .. n : v \in Nodes(t)
  BY <1>1 DEF Nodes
<1>3. IsTable(r) /\ r.name = t.name /\ Relinked(r, t, a, x, b, y)
  BY SetLinks
<1> QED
  BY <1>2, <1>3 DEF Closed, Relinked

\* Before sf_var_insert links it, the last node is not yet among the others.
LEMMA DeleteWithin ==
  ASSUME NEW t, IsTable(t), NEW n \in Nat, n <= Len(t.name), Closed(t, n),
         NEW root \in 0 .. n, NEW name, NEW r, r = VarDelete(t, root, name)
  PROVE  IsTable(r.table) /\ Len(r.table.name) = Len(t.name) /\ Closed(r.table, n) /\ r.root \in 0 .. n
<1> DEFINE v      == VarSearch(t, root, name)
           before == t.prev[v]
           after  == t.next[v]
           cut    == [t EXCEPT !.next[before] = after, !.prev[after] = before]
<1>1. v \in 0 .. n
  <2>1. CASE root = NULL
    <3>1. Walk(t, root) = <<>>
      BY <2>1 DEF Walk
    <3> QED BY <3>1 DEF VarSearch, NULL
  <2>2. CASE root # NULL
    BY <2>2, SearchWithin DEF NULL
  <2> QED BY <2>1, <2>2
<1>2. CASE v = NULL
  BY <1>2 DEF VarDelete
<1>3. CASE v # NULL
  <2>1. v \in 1 .. n
    BY <1>1, <1>3 DEF NULL
  <2> HIDE DEF v
  <2>2. before \in 1 .. n /\ after \in 1 .. n
    BY <2>1 DEF Closed
  <2>3. before \in Nodes(t) /\ after \in Nodes(t) /\ before <= n /\ after <= n
    <3>1. Len(t.name) \in Nat
      BY DEF IsTable
    <3> HIDE DEF before, after
    <3> QED BY <3>1, <2>2 DEF Nodes
  <2>4. cut = Linked(t, before, after, after, before)
    BY DEF Linked
  <2>5. r.table = cut /\ r.root = IF root # v THEN root
                                   ELSE IF cut.next[v] = v THEN NULL ELSE cut.next[v]
    BY <1>3 DEF VarDelete, LinkRemove, v
  <2> HIDE DEF cut, before, after
  <2>6. IsTable(cut) /\ Len(cut.name) = Len(t.name) /\ Closed(cut, n)
    BY <2>3, <2>4, LinksClosed
  <2>7. cut.next[v] \in 1 .. n
    BY <2>1, <2>6 DEF Closed
  <2> QED BY <2>5, <2>6, <2>7 DEF NULL
<1> QED
  BY <1>2, <1>3

LEMMA InsertWithin ==
  ASSUME NEW t, IsTable(t), Closed(t, Len(t.name)), NEW root \in {NULL} \cup Nodes(t),
         NEW name \in String, NEW text \in String, NEW born \in Nat,
         NEW r, r = VarInsert(t, root, name, text, born)
  PROVE  /\ IsTable(r.table) /\ Closed(r.table, Len(r.table.name))
         /\ Nodes(t) \subseteq Nodes(r.table)
         /\ r.root \in Nodes(r.table)
<1> DEFINE n    == Len(t.name)
           made == VarCreate(t, name, text, born)
           cut  == VarDelete(made, root, name)
           last == cut.table.prev[cut.root]
<1>1. /\ IsTable(made) /\ n \in Nat /\ Len(made.name) = n + 1
      /\ \A v \in Nodes(t) : /\ made.next[v] = t.next[v] /\ made.prev[v] = t.prev[v]
  <2> HIDE DEF made
  <2>1. made = VarCreate(t, name, text, born)
    BY DEF made
  <2> QED BY <2>1, CreateIs
<1>2. r = LinkAppend(cut.table, cut.root, n + 1)
  BY <1>1 DEF VarInsert
<1> HIDE DEF made
<1>3. Closed(made, n)
  BY <1>1 DEF Closed, Nodes
<1>4. IsTable(cut.table) /\ Len(cut.table.name) = n + 1 /\ Closed(cut.table, n) /\ cut.root \in 0 .. n
  <2> HIDE DEF cut
  <2>1. cut = VarDelete(made, root, name) /\ root \in 0 .. n /\ n <= Len(made.name)
    BY <1>1 DEF cut, Nodes, NULL
  <2> QED BY <2>1, <1>1, <1>3, DeleteWithin
<1> HIDE DEF cut
<1> DEFINE c == cut.table
<1>5. CASE cut.root = NULL
  <2>1. r.table = Linked(c, n + 1, n + 1, n + 1, n + 1) /\ r.root = n + 1
    BY <1>2, <1>4, <1>5, AppendLinks
  <2>2. n + 1 \in Nodes(c)
    BY <1>1, <1>4 DEF Nodes
  <2>3. IsTable(r.table) /\ r.table.name = c.name /\ Relinked(r.table, c, n + 1, n + 1, n + 1, n + 1)
    BY <2>1, <2>2, <1>4, SetLinks
  <2>4. ASSUME NEW v \in 1 .. n + 1
        PROVE  r.table.next[v] \in 1 .. n + 1 /\ r.table.prev[v] \in 1 .. n + 1
    <3>1. v \in Nodes(c) /\ n + 1 \in 1 .. n + 1
      BY <1>1, <1>4 DEF Nodes
    <3>2. v # n + 1 => v \in 1 .. n /\ c.next[v] \in 1 .. n + 1 /\ c.prev[v] \in 1 .. n + 1
      BY <1>1, <1>4 DEF Closed
    <3> QED BY <3>1, <3>2, <2>3 DEF Relinked
  <2> QED BY <2>1, <2>3, <2>4, <1>1, <1>4 DEF Closed, Nodes
<1>6. CASE cut.root # NULL
  <2>1. cut.root \in 1 .. n /\ last \in 1 .. n
    BY <1>4, <1>6 DEF Closed, NULL
  <2> DEFINE d == Linked(c, n + 1, cut.root, n + 1, last)
  <2>2. r.table = Linked(d, last, n + 1, cut.root, n + 1) /\ r.root = cut.root
    BY <1>2, <1>4, <1>6, AppendLinks
  <2>3. /\ n + 1 \in Nodes(c) /\ last \in Nodes(c) /\ cut.root \in Nodes(c)
    BY <1>1, <1>4, <2>1 DEF Nodes
  <2> HIDE DEF last
  <2>4. IsTable(d) /\ d.name = c.name /\ Relinked(d, c, n + 1, cut.root, n + 1, last)
    <3> HIDE DEF d
    <3>1. d = Linked(c, n + 1, cut.root, n + 1, last)
      BY DEF d
    <3> QED BY <3>1, <2>3, <1>4, SetLinks
  <2> HIDE DEF d
  <2>5. Nodes(d) = Nodes(c)
    BY <2>4 DEF Nodes
  <2>6. IsTable(r.table) /\ r.table.name = d.name /\ Relinked(r.table, d, last, n + 1, cut.root, n + 1)
    <3>1. last \in Nodes(d) /\ n + 1 \in Nodes(d) /\ cut.root \in Nodes(d)
      BY <2>3, <2>5
    <3> QED BY <2>2, <2>4, <3>1, SetLinks
  <2>7. ASSUME NEW v \in 1 .. n + 1
        PROVE  r.table.next[v] \in 1 .. n + 1 /\ r.table.prev[v] \in 1 .. n + 1
    <3>1. v \in Nodes(c) /\ n + 1 \in 1 .. n + 1
      BY <1>1, <1>4 DEF Nodes
    <3>2. v # n + 1 => v \in 1 .. n /\ c.next[v] \in 1 .. n + 1 /\ c.prev[v] \in 1 .. n + 1
      BY <1>1, <1>4 DEF Closed
    <3>3. cut.root \in 1 .. n + 1 /\ last \in 1 .. n + 1
      BY <1>1, <2>1
    <3> QED BY <3>1, <3>2, <3>3, <2>4, <2>5, <2>6, ZenonT(40) DEF Relinked
  <2> QED BY <2>1, <2>2, <2>4, <2>6, <2>7, <1>1, <1>4 DEF Closed, Nodes
<1> QED
  BY <1>5, <1>6

----------------------------------------------------------------------------
(* The preset variables of a configuration.                                *)

PresetsOf(c) == PresetVars(Document[c], Included)

\* The variables are inserted one after the other, from the first.
LEMMA PresetSteps ==
  ASSUME NEW t, NEW root, NEW c \in Confs
  PROVE  \E put : /\ Preset(t, root, c) = put[Len(PresetsOf(c))]
                  /\ put[0] = [table |-> t, root |-> root]
                  /\ \A i \in 1 .. Len(PresetsOf(c)) :
                       put[i] = VarInsert(put[i - 1].table, put[i - 1].root,
                                          PresetsOf(c)[i].name, PresetsOf(c)[i].value, 0)
<1> DEFINE list    == PresetsOf(c)
           a       == [table |-> t, root |-> root]
           D(v, i) == VarInsert(v.table, v.root, list[i].name, list[i].value, 0)
           Is(g, k) == g = [i \in 0 .. k |-> IF i = 0 THEN a ELSE D(g[i - 1], i)]
           Lacking  == {k \in Nat : ~ \E g : Is(g, k)}
           put      == CHOOSE g : Is(g, Len(list))
<1>1. Preset(t, root, c) = put[Len(list)]
  BY DEF Preset, PresetsOf
<1>2. Len(list) \in Nat
  BY PageAssumption DEF PresetsOf
<1> HIDE DEF list, a, D
<1>3. ASSUME Lacking # {} PROVE FALSE
  <2>1. PICK k \in Lacking : \A l \in Lacking : k <= l
    BY <1>3, LeastNatural
  <2>2. CASE k = 0
    <3>1. Is([i \in 0 .. 0 |-> a], 0)
      OBVIOUS
    <3> QED BY <2>1, <2>2, <3>1
  <2>3. CASE k > 0
    <3>1. k - 1 \in Nat /\ k - 1 \notin Lacking /\ k \in Nat
      <4> HIDE DEF Lacking
      <4>1. k \in Nat
        BY <2>1 DEF Lacking
      <4> QED BY <2>1, <2>3, <4>1
    <3>2. PICK g : Is(g, k - 1)
      BY <3>1
    <3> DEFINE h == [i \in 0 .. k |-> IF i = k THEN D(g[k - 1], k) ELSE g[i]]
    <3>3. \A i \in 0 .. k : h[i] = IF i = 0 THEN a ELSE D(h[i - 1], i)
      <4>1. \A i \in 0 .. k - 1 : g[i] = IF i = 0 THEN a ELSE D(g[i - 1], i)
        BY <3>2
      <4>2. \A i \in 0 .. k : i < k => h[i] = g[i] /\ (i > 0 => h[i - 1] = g[i - 1])
        BY <3>1
      <4>3. h[k] = D(g[k - 1], k) /\ h[k - 1] = g[k - 1]
        BY <3>1, <2>3
      <4> HIDE DEF h
      <4>4. ASSUME NEW i \in 0 .. k PROVE h[i] = IF i = 0 THEN a ELSE D(h[i - 1], i)
        <5>1. CASE i = k
          BY <5>1, <4>3, <2>3
        <5>2. CASE i # k
          <6>1. i \in 0 .. k - 1 /\ i < k
            BY <5>2, <3>1
          <6> QED BY <6>1, <4>1, <4>2
        <5> QED BY <5>1, <5>2
      <4> QED BY <4>4
    <3>4. h = [i \in 0 .. k |-> IF i = 0 THEN a ELSE D(h[i - 1], i)]
      BY <3>3
    <3>5. Is(h, k)
      BY <3>4
    <3> QED BY <2>1, <3>5
  <2> QED BY <2>1, <2>2, <2>3
<1>4. \E g : Is(g, Len(list))
  BY <1>2, <1>3
<1>5. Is(put, Len(list))
  BY <1>4
<1>6. \A i \in 0 .. Len(list) : put[i] = IF i = 0 THEN a ELSE D(put[i - 1], i)
  <2> HIDE DEF put
  <2> QED BY <1>5
<1> HIDE DEF put
<1>7. /\ put[0] = a
      /\ \A i \in 1 .. Len(list) : put[i] = D(put[i - 1], i)
  BY <1>2, <1>6
<1> QED
  BY <1>1, <1>7 DEF list, a, D

\* r was t until variables joined those of root in it.
Grown(r, t, root, w) ==
  /\ IsTable(r.table) /\ Len(r.table.name) \in Nat /\ Len(t.name) <= Len(r.table.name)
  /\ \A v \in Nodes(t) : /\ r.table.name[v] = t.name[v] /\ r.table.born[v] = t.born[v]
                         /\ (\A i \in 1 .. Len(w) : w[i] # v) =>
                              r.table.next[v] = t.next[v] /\ r.table.prev[v] = t.prev[v]

\* Its variables are those of root and new ones.
Within(r, t, w) ==
  \E u : /\ Holds(r.table, r.root, u)
         /\ \A i \in 1 .. Len(u) : u[i] > Len(t.name) \/ \E j \in 1 .. Len(w) : u[i] = w[j]

LEMMA GrownByInsert ==
  ASSUME NEW t, NEW root, NEW w, IsTable(t), Holds(t, root, w),
         NEW q, Grown(q, t, root, w), Within(q, t, w),
         NEW name \in String, NEW text \in String,
         NEW r, r = VarInsert(q.table, q.root, name, text, 0)
  PROVE  /\ Grown(r, t, root, w) /\ Within(r, t, w)
         /\ root # NULL /\ q.root = root /\ t.name[root] # name => r.root = root
<1>1. PICK u : /\ Holds(q.table, q.root, u)
               /\ \A i \in 1 .. Len(u) : u[i] > Len(t.name) \/ \E j \in 1 .. Len(w) : u[i] = w[j]
  BY DEF Within
<1> DEFINE s == q.table
           n == Len(s.name)
<1>2. /\ IsTable(s) /\ n \in Nat /\ Len(t.name) <= n /\ Len(t.name) \in Nat
      /\ Nodes(t) \subseteq Nodes(s)
  BY HoldsFacts DEF Grown, Nodes
<1> HIDE DEF s
<1>3. /\ IsTable(r.table) /\ Len(r.table.name) = n + 1
      /\ q.root # NULL /\ s.name[q.root] # name => r.root = q.root
      /\ \E z : /\ Holds(r.table, r.root, z)
                /\ \A i \in 1 .. Len(z) : z[i] = n + 1 \/ \E j \in 1 .. Len(u) : z[i] = u[j]
      /\ \A v \in Nodes(s) :
           /\ r.table.name[v] = s.name[v] /\ r.table.born[v] = s.born[v]
           /\ (\A i \in 1 .. Len(u) : u[i] # v) =>
                r.table.next[v] = s.next[v] /\ r.table.prev[v] = s.prev[v]
  <2>1. Holds(s, q.root, u) /\ 0 \in Nat /\ r = VarInsert(s, q.root, name, text, 0)
    BY <1>1 DEF s
  <2> QED BY <1>2, <2>1, InsertIs
<1>4. ASSUME NEW v \in Nodes(t)
      PROVE  /\ r.table.name[v] = t.name[v] /\ r.table.born[v] = t.born[v]
             /\ (\A i \in 1 .. Len(w) : w[i] # v) =>
                  r.table.next[v] = t.next[v] /\ r.table.prev[v] = t.prev[v]
  <2>1. /\ s.name[v] = t.name[v] /\ s.born[v] = t.born[v]
        /\ (\A i \in 1 .. Len(w) : w[i] # v) => s.next[v] = t.next[v] /\ s.prev[v] = t.prev[v]
    BY Zenon DEF Grown, s
  <2>2. v \in Nodes(s) /\ v <= Len(t.name)
    BY <1>2 DEF Nodes
  <2>3. (\A i \in 1 .. Len(w) : w[i] # v) => \A i \in 1 .. Len(u) : u[i] # v
    <3> SUFFICES ASSUME NEW i \in 1 .. Len(u), u[i] = v PROVE \E j \in 1 .. Len(w) : w[j] = v
      OBVIOUS
    <3>1. ~ (v > Len(t.name))
      BY <1>2, <2>2 DEF Nodes
    <3> QED BY <1>1, <3>1
  <2> QED BY <1>3, <2>1, <2>2, <2>3
<1>5. Grown(r, t, root, w)
  BY <1>2, <1>3, <1>4 DEF Grown
<1>6. Within(r, t, w)
  <2>1. PICK z : /\ Holds(r.table, r.root, z)
                 /\ \A i \in 1 .. Len(z) : z[i] = n + 1 \/ \E j \in 1 .. Len(u) : z[i] = u[j]
    BY <1>3
  <2>2. \A i \in 1 .. Len(z) : z[i] > Len(t.name) \/ \E j \in 1 .. Len(w) : z[i] = w[j]
    <3>1. n + 1 > Len(t.name)
      BY <1>2
    <3> QED BY <2>1, <1>1, <3>1
  <2> QED BY <2>1, <2>2 DEF Within
<1>7. root # NULL /\ q.root = root /\ t.name[root] # name => r.root = root
  <2> SUFFICES ASSUME root # NULL, q.root = root, t.name[root] # name PROVE r.root = root
    OBVIOUS
  <2>1. root \in Nodes(t)
    <3>1. Len(w) \in Nat /\ root = IF Len(w) = 0 THEN NULL ELSE w[1]
      BY HoldsFacts
    <3>2. \A i \in 1 .. Len(w) : w[i] \in Nodes(t)
      BY HoldsFacts
    <3> QED BY <3>1, <3>2
  <2>2. s.name[root] = t.name[root]
    BY <2>1, Zenon DEF Grown, s
  <2> QED BY <1>3, <2>2
<1> QED
  BY <1>5, <1>6, <1>7

\* The handle of presets stays where it is, unless one of them has its name.
LEMMA PresetIs ==
  ASSUME NEW t, NEW root, NEW w, IsTable(t), Holds(t, root, w), NEW c \in Confs,
         NEW r, r = Preset(t, root, c)
  PROVE  /\ Grown(r, t, root, w) /\ Within(r, t, w)
         /\ (root # NULL /\ \A i \in 1 .. Len(PresetsOf(c)) : PresetsOf(c)[i].name # t.name[root])
              => r.root = root
<1> DEFINE list == PresetsOf(c)
           Apart == root # NULL /\ \A i \in 1 .. Len(list) : list[i].name # t.name[root]
<1>1. PICK put : /\ r = put[Len(list)]
                 /\ put[0] = [table |-> t, root |-> root]
                 /\ \A i \in 1 .. Len(list) :
                      put[i] = VarInsert(put[i - 1].table, put[i - 1].root, list[i].name, list[i].value, 0)
  BY PresetSteps
<1>2. /\ Len(list) \in Nat
      /\ \A i \in 1 .. Len(list) : list[i].name \in String /\ list[i].value \in String
  <2>1. list \in Seq(VarType)
    BY PageAssumption DEF PresetsOf
  <2> HIDE DEF list
  <2>2. Len(list) \in Nat /\ \A i \in 1 .. Len(list) : list[i] \in VarType
    BY <2>1
  <2> QED BY <2>2 DEF VarType
<1> HIDE DEF list
<1> DEFINE Good(q) == Grown(q, t, root, w) /\ Within(q, t, w) /\ (Apart => q.root = root)
           Off == {i \in Nat : i <= Len(list) /\ ~ Good(put[i])}
<1>3. Good(put[0])
  <2>1. put[0].table = t /\ put[0].root = root
    BY <1>1
  <2>2. Grown(put[0], t, root, w)
    BY <2>1, HoldsFacts DEF Grown
  <2>3. Within(put[0], t, w)
    BY <2>1 DEF Within
  <2> QED BY <2>1, <2>2, <2>3
<1>4. ASSUME NEW i \in 1 .. Len(list), Good(put[i - 1]) PROVE Good(put[i])
  <2> DEFINE q == put[i - 1]
             p == put[i]
  <2>1. p = VarInsert(q.table, q.root, list[i].name, list[i].value, 0)
    BY <1>1
  <2>2. Grown(q, t, root, w) /\ Within(q, t, w) /\ (Apart => q.root = root)
    BY <1>4
  <2> HIDE DEF q, p
  <2>3. /\ Grown(p, t, root, w) /\ Within(p, t, w)
        /\ root # NULL /\ q.root = root /\ t.name[root] # list[i].name => p.root = root
    BY <2>1, <2>2, <1>2, GrownByInsert
  <2>4. Apart => p.root = root
    BY <2>2, <2>3
  <2> QED BY <2>3, <2>4 DEF p
<1>5. Off = {}
  <2> SUFFICES ASSUME Off # {} PROVE FALSE
    OBVIOUS
  <2> HIDE DEF Good
  <2>1. PICK i \in Off : \A j \in Off : i <= j
    BY LeastNatural
  <2>2. i # 0
    BY <2>1, <1>3
  <2>3. i \in 1 .. Len(list) /\ i - 1 \in Nat /\ i - 1 <= Len(list) /\ i - 1 \notin Off
    BY <2>1, <2>2, <1>2
  <2> QED BY <2>1, <2>3, <1>4
<1>6. Good(put[Len(list)])
  <2> HIDE DEF Good
  <2> QED BY <1>2, <1>5
<1> QED
  BY <1>1, <1>6 DEF list

\* In any table: presets leave it closed, with the handle in it.
LEMMA PresetWithin ==
  ASSUME NEW t, IsTable(t), Closed(t, Len(t.name)), NEW root \in {NULL} \cup Nodes(t),
         NEW c \in Confs, NEW r, r = Preset(t, root, c)
  PROVE  /\ IsTable(r.table) /\ Closed(r.table, Len(r.table.name))
         /\ Nodes(t) \subseteq Nodes(r.table)
         /\ r.root \in {NULL} \cup Nodes(r.table)
<1> DEFINE list == PresetsOf(c)
<1>1. PICK put : /\ r = put[Len(list)]
                 /\ put[0] = [table |-> t, root |-> root]
                 /\ \A i \in 1 .. Len(list) :
                      put[i] = VarInsert(put[i - 1].table, put[i - 1].root, list[i].name, list[i].value, 0)
  BY PresetSteps
<1>2. /\ Len(list) \in Nat
      /\ \A i \in 1 .. Len(list) : list[i].name \in String /\ list[i].value \in String
  <2>1. list \in Seq(VarType)
    BY PageAssumption DEF PresetsOf
  <2> HIDE DEF list
  <2>2. Len(list) \in Nat /\ \A i \in 1 .. Len(list) : list[i] \in VarType
    BY <2>1
  <2> QED BY <2>2 DEF VarType
<1> HIDE DEF list
<1> DEFINE Good(q) == /\ IsTable(q.table) /\ Closed(q.table, Len(q.table.name))
                      /\ Nodes(t) \subseteq Nodes(q.table)
                      /\ q.root \in {NULL} \cup Nodes(q.table)
           Off == {i \in Nat : i <= Len(list) /\ ~ Good(put[i])}
<1>3. Good(put[0])
  BY <1>1
<1>4. ASSUME NEW i \in 1 .. Len(list), Good(put[i - 1]) PROVE Good(put[i])
  <2> DEFINE q == put[i - 1]
             p == put[i]
             s == q.table
  <2>1. p = VarInsert(s, q.root, list[i].name, list[i].value, 0) /\ 0 \in Nat
    BY <1>1
  <2>2. /\ IsTable(s) /\ Closed(s, Len(s.name)) /\ Nodes(t) \subseteq Nodes(s)
        /\ q.root \in {NULL} \cup Nodes(s)
    BY <1>4
  <2> HIDE DEF q, p, s
  <2>3. /\ IsTable(p.table) /\ Closed(p.table, Len(p.table.name))
        /\ Nodes(s) \subseteq Nodes(p.table)
        /\ p.root \in Nodes(p.table)
    <3> DEFINE h == q.root  name == list[i].name  text == list[i].value
    <3>1. /\ name \in String /\ text \in String /\ h \in {NULL} \cup Nodes(s)
          /\ p = VarInsert(s, h, name, text, 0)
      BY <1>2, <2>1, <2>2
    <3> HIDE DEF h, name, text
    <3> QED BY <2>1, <2>2, <3>1, InsertWithin
  <2> QED BY <2>2, <2>3 DEF p
<1>5. Off = {}
  <2> SUFFICES ASSUME Off # {} PROVE FALSE
    OBVIOUS
  <2> HIDE DEF Good
  <2>1. PICK i \in Off : \A j \in Off : i <= j
    BY LeastNatural
  <2>2. i # 0
    BY <2>1, <1>3
  <2>3. i \in 1 .. Len(list) /\ i - 1 \in Nat /\ i - 1 <= Len(list) /\ i - 1 \notin Off
    BY <2>1, <2>2, <1>2
  <2> QED BY <2>1, <2>3, <1>4
<1>6. Good(put[Len(list)])
  <2> HIDE DEF Good
  <2> QED BY <1>2, <1>5
<1> QED
  BY <1>1, <1>6 DEF list

----------------------------------------------------------------------------
(* The steps of the innermost spider, by what they do to the others.       *)

LEMMA TopFacts ==
  ASSUME PageTypeOK, StackInv, stack # <<>>
  PROVE  /\ Depth \in Nat \ {0} /\ Depth = Len(stack) /\ Top = stack[Len(stack)]
         /\ Top \in FrameType /\ FrameOK(Top)
         /\ Me \in 1 .. Len(spiders) /\ Me \in Nat \ {0} /\ Spider \in SpiderType /\ Conf \in Confs
         /\ Policies[Conf] \in Seq(Seq(RuleType))
<1>1. stack \in Seq(FrameType) /\ spiders \in Seq(SpiderType)
  BY DEF PageTypeOK
<1>2. Depth \in Nat \ {0} /\ Depth \in 1 .. Depth
  BY <1>1 DEF Depth
<1>3. Top \in FrameType /\ FrameOK(Top)
  BY <1>1, <1>2 DEF StackInv, Top, Depth
<1>4. Me \in 1 .. Len(spiders) /\ Me \in Nat \ {0}
  BY <1>1, <1>3 DEF Me, FrameType, FrameOK
<1>5. Spider \in SpiderType
  BY <1>1, <1>4 DEF Spider
<1>6. Conf \in Confs
  BY <1>5 DEF Conf, SpiderType
<1>7. Policies[Conf] \in Seq(Seq(RuleType))
  BY <1>6, PageAssumption
<1> QED
  BY <1>2, <1>3, <1>4, <1>5, <1>6, <1>7 DEF Depth, Top

LEMMA RuleFacts ==
  ASSUME PageTypeOK, StackInv, stack # <<>>, Top.rule > 0
  PROVE  /\ Policy = RulesOf(Top) /\ Policy \in Seq(RuleType)
         /\ Top.rule <= Len(Policy) => Rule \in RuleType /\ Rule \in Rules
<1>1. /\ Top \in FrameType /\ FrameOK(Top) /\ Conf \in Confs
      /\ Policies[Conf] \in Seq(Seq(RuleType))
  BY TopFacts
<1>2. ConfOf(Top) = Conf
  BY DEF ConfOf, Conf, Spider, Me
<1>3. Policy = RulesOf(Top)
  BY <1>2 DEF Policy, RulesOf
<1>4. Top.policy \in 1 .. Len(Policies[Conf])
  BY <1>1, <1>2 DEF FrameOK
<1>5. Policy \in Seq(RuleType)
  BY <1>1, <1>4 DEF Policy
<1>6. ASSUME Top.rule <= Len(Policy) PROVE Rule \in RuleType /\ Rule \in Rules
  <2>1. Top.rule \in 1 .. Len(Policy)
    BY <1>1, <1>6 DEF FrameType
  <2>2. Rule \in RuleType
    BY <1>5, <2>1 DEF Rule
  <2>3. Rule \in {Policies[Conf][Top.policy][j] : j \in 1 .. Len(Policies[Conf][Top.policy])}
    BY <2>1 DEF Rule, Policy
  <2>4. Rule \in UNION {{Policies[Conf][k][j] : j \in 1 .. Len(Policies[Conf][k])} : k \in 1 .. Len(Policies[Conf])}
    BY <2>3, <1>4
  <2>5. Rule \in Rules
    BY <2>4, <1>1 DEF Rules
  <2> QED BY <2>2, <2>5
<1> QED
  BY <1>3, <1>5, <1>6

\* The innermost spider goes on as f.
GoesOn(f) ==
  /\ f \in FrameType /\ Become(f) /\ FrameOK(f)
  /\ f.spider = Top.spider /\ f.page = Top.page
  /\ f.pc \in {"scan", "exit"} \/ Top.pc \notin {"scan", "exit"}

\* It changes nothing that it shares with others.
MovesOn ==
  /\ \E f \in FrameType : /\ GoesOn(f)
                          /\ \A name : Done(f, name) => Done(Top, name)
  /\ UNCHANGED <<table, confset, live, pools, pages, returned>>
  /\ spiders' = spiders \/ spiders' = [spiders EXCEPT ![Me].eof = TRUE]

\* It sets or deletes a variable.
Puts(r, name) ==
  /\ \/ \E text \in String : r = VarInsert(table, Spider.handle, name, text, pages)
     \/ r = VarDelete(table, Spider.handle, name)
  /\ table' = r.table
  /\ spiders' = [spiders EXCEPT ![Me].handle = r.root]

SetsVariable ==
  /\ \E f \in FrameType, name \in DOMAIN Text :
       /\ GoesOn(f)
       /\ \A x : Done(f, x) => Done(Top, x) \/ x = name
       /\ \E r : Puts(r, name)
  /\ UNCHANGED <<confset, live, pools, pages, returned>>

\* It begins a page.
BeginsPage ==
  /\ At("scan")
  /\ \E f \in FrameType : f.spider = Top.spider /\ f.rule = 0 /\ NextPage(f)
  /\ UNCHANGED <<table, confset, returned>>

RunEnds == At("exit") /\ \E o : Return(o)

LEMMA OutsideRules ==
  ASSUME PageTypeOK, StackInv, stack # <<>>, NEW f \in FrameType, f.rule = 0, f.pc \notin AtRule,
         f.spider = Top.spider, f.page = Top.page, f.pc = "policy" => f.policy > 0
  PROVE  FrameOK(f) /\ \A name : ~ Done(f, name)
<1>1. Top \in FrameType /\ FrameOK(Top)
  BY TopFacts
<1>2. FrameOK(f)
  BY <1>1 DEF FrameOK, AtRule, InRule
<1>3. ASSUME NEW name PROVE ~ Done(f, name)
  <2>1. f.pc \notin {"trigger", "spawn", "end", "rule", "clear", "cap"}
    BY DEF AtRule, InRule
  <2> QED BY <2>1 DEF Done
<1> QED
  BY <1>2, <1>3

LEMMA StepsOutside ==
  ASSUME PageTypeOK, StackInv,
         \/ ScanEof \/ FetchOk \/ FetchFails \/ FetchGivesUp
         \/ PolicyOutOfRange \/ PoliciesDone \/ RulesDone
         \/ OverLimit \/ UnderLimit \/ TryAgain
  PROVE  MovesOn
<1> USE DEF At, Goto, memory, history, AtRule, InRule
<1>1. stack # <<>>
  BY DEF ScanEof, FetchOk, FetchFails, FetchGivesUp, PolicyOutOfRange, PoliciesDone,
         RulesDone, OverLimit, UnderLimit, TryAgain
<1>2. /\ Top \in FrameType /\ FrameOK(Top)
      /\ Top.pc \notin AtRule => Top.rule = 0
  BY <1>1, TopFacts DEF FrameOK, FrameType
<1>3. ASSUME NEW f, f \in FrameType, Become(f), f.rule = 0, f.pc \notin AtRule,
             f.spider = Top.spider, f.page = Top.page, f.pc = "policy" => f.policy > 0,
             f.pc \in {"scan", "exit"} \/ Top.pc \notin {"scan", "exit"}
      PROVE  \E g \in FrameType : GoesOn(g) /\ \A name : Done(g, name) => Done(Top, name)
  <2>1. FrameOK(f) /\ \A name : ~ Done(f, name)
    BY <1>1, <1>3, OutsideRules
  <2>2. GoesOn(f)
    BY <1>3, <2>1 DEF GoesOn
  <2> QED BY <1>3, <2>1, <2>2
<1>4. CASE ScanEof
  <2> DEFINE f == [Top EXCEPT !.pc = "exit"]
  <2>1. f \in FrameType /\ Become(f) /\ f.rule = 0 /\ f.pc = "exit" /\ f.spider = Top.spider /\ f.page = Top.page
    BY <1>2, <1>4 DEF ScanEof, FrameType, Labels
  <2> HIDE DEF f
  <2> QED BY <1>3, <1>4, <2>1 DEF ScanEof, MovesOn
<1>5. CASE FetchOk
  <2> DEFINE f == [Top EXCEPT !.pc = "policy", !.policy = 1, !.tries = 0]
  <2>1. f \in FrameType /\ f.rule = 0 /\ f.pc = "policy" /\ f.policy = 1 /\ f.spider = Top.spider /\ f.page = Top.page
    BY <1>2, <1>5 DEF FetchOk, FrameType, Labels
  <2>2. Become(f)
    BY <1>5 DEF FetchOk
  <2> HIDE DEF f
  <2> QED BY <1>3, <1>5, <2>1, <2>2 DEF FetchOk, MovesOn
<1>6. CASE FetchFails
  <2> DEFINE f == [Top EXCEPT !.tries = @ - 1]
  <2>1. f \in FrameType /\ Become(f) /\ f.rule = 0 /\ f.pc = "fetch" /\ f.spider = Top.spider /\ f.page = Top.page
    BY <1>2, <1>6 DEF FetchFails, FrameType, Labels
  <2> HIDE DEF f
  <2> QED BY <1>3, <1>6, <2>1 DEF FetchFails, MovesOn
<1>7. CASE FetchGivesUp
  <2> DEFINE f == [Top EXCEPT !.pc = IF Feedback[Conf] THEN "exit" ELSE "policy", !.policy = 1, !.tries = 0]
  <2>1. /\ f \in FrameType /\ Become(f) /\ f.rule = 0 /\ f.pc \in {"exit", "policy"} /\ f.policy = 1
        /\ f.spider = Top.spider /\ f.page = Top.page
    BY <1>2, <1>7 DEF FetchGivesUp, FrameType, Labels
  <2> HIDE DEF f
  <2> QED BY <1>3, <1>7, <2>1 DEF FetchGivesUp, MovesOn
<1>8. CASE PolicyOutOfRange
  <2> DEFINE f == [Top EXCEPT !.policy = @ + 1]
  <2>1. f \in FrameType /\ Become(f) /\ f.rule = 0 /\ f.pc = "policy" /\ f.policy > 0 /\ f.spider = Top.spider /\ f.page = Top.page
    BY <1>2, <1>8 DEF PolicyOutOfRange, FrameType, Labels
  <2> HIDE DEF f
  <2> QED BY <1>3, <1>8, <2>1 DEF PolicyOutOfRange, MovesOn
<1>9. CASE PoliciesDone
  <2> DEFINE f == [Top EXCEPT !.pc = "limit"]
  <2>1. f \in FrameType /\ Become(f) /\ f.rule = 0 /\ f.pc = "limit" /\ f.spider = Top.spider /\ f.page = Top.page
    BY <1>2, <1>9 DEF PoliciesDone, FrameType, Labels
  <2> HIDE DEF f
  <2> QED BY <1>3, <1>9, <2>1 DEF PoliciesDone, MovesOn
<1>10. CASE RulesDone
  <2> DEFINE f == [Top EXCEPT !.pc = "policy", !.policy = @ + 1, !.rule = 0]
  <2>1. f \in FrameType /\ f.rule = 0 /\ f.pc = "policy" /\ f.policy > 0 /\ f.spider = Top.spider /\ f.page = Top.page
    <3> DEFINE k == Top.policy + 1
    <3>1. k \in Nat /\ k > 0 /\ f = [Top EXCEPT !.pc = "policy", !.policy = k, !.rule = 0]
      BY <1>2 DEF FrameType
    <3> HIDE DEF k, f
    <3> QED BY <1>2, <3>1 DEF FrameType, Labels
  <2>2. Become(f) /\ Top.pc = "rule"
    BY <1>10 DEF RulesDone
  <2> HIDE DEF f
  <2> QED BY <1>3, <1>10, <2>1, <2>2 DEF RulesDone, MovesOn
<1>11. CASE OverLimit
  <2> DEFINE f == [Top EXCEPT !.pc = "exit"]
  <2>1. f \in FrameType /\ Become(f) /\ f.rule = 0 /\ f.pc = "exit" /\ f.spider = Top.spider /\ f.page = Top.page
    BY <1>2, <1>11 DEF OverLimit, FrameType, Labels
  <2> HIDE DEF f
  <2> QED BY <1>3, <1>11, <2>1 DEF OverLimit, MovesOn
<1>12. CASE UnderLimit
  <2> DEFINE f == [Top EXCEPT !.pc = "scan"]
  <2>1. f \in FrameType /\ Become(f) /\ f.rule = 0 /\ f.pc = "scan" /\ f.spider = Top.spider /\ f.page = Top.page
    BY <1>2, <1>12 DEF UnderLimit, FrameType, Labels
  <2> HIDE DEF f
  <2> QED BY <1>3, <1>12, <2>1 DEF UnderLimit, MovesOn
<1>13. CASE TryAgain
  <2> DEFINE f == [Top EXCEPT !.pc = "scan"]
  <2>1. f \in FrameType /\ Become(f) /\ f.rule = 0 /\ f.pc = "scan" /\ f.spider = Top.spider /\ f.page = Top.page
    BY <1>2, <1>13 DEF TryAgain, FrameType, Labels
  <2> HIDE DEF f
  <2> QED BY <1>3, <1>13, <2>1 DEF TryAgain, MovesOn
<1> QED
  BY <1>4, <1>5, <1>6, <1>7, <1>8, <1>9, <1>10, <1>11, <1>12, <1>13

LEMMA InsideRules ==
  ASSUME PageTypeOK, StackInv, stack # <<>>, Top.rule > 0,
         NEW f \in FrameType, f.spider = Top.spider, f.page = Top.page, f.policy = Top.policy,
         f.pc \in AtRule, f.rule > 0, f.pc \in InRule => f.rule <= Len(Policy),
         f.pc = "rule" => f.rule <= Len(Policy) + 1,
         f.pc \in {"clear", "cap"} => f.cap > 0, f.pc \in {"trigger", "spawn"} => f.ns > 0
  PROVE  FrameOK(f) /\ RulesOf(f) = Policy /\ RulesOf(Top) = Policy
<1>1. FrameOK(Top) /\ Policy = RulesOf(Top)
  BY TopFacts, RuleFacts
<1>2. RulesOf(f) = Policy /\ ConfOf(f) = ConfOf(Top)
  BY <1>1 DEF RulesOf, ConfOf
<1> QED
  BY <1>1, <1>2 DEF FrameOK

LEMMA StepsInside ==
  ASSUME PageTypeOK, StackInv,
         \/ RuleRepeated \/ NoMatch \/ Cleared \/ Match
         \/ NotUnique \/ Unique \/ NoUniq
         \/ TriggerUnheard \/ TriggersDone \/ SpawnsDone \/ EndMatch
  PROVE  MovesOn
<1> USE DEF At, Goto, memory, history
<1>1. stack # <<>> /\ Top.pc \in AtRule
  BY DEF RuleRepeated, NoMatch, Cleared, Match, NotUnique, Unique, NoUniq, Triggering,
         TriggerUnheard, TriggersDone, SpawnsDone, EndMatch, AtRule, InRule
<1>2. /\ Top \in FrameType /\ FrameOK(Top) /\ Top.rule > 0
      /\ Top.rule \in Nat /\ Top.rep \in Nat /\ Top.cap \in Nat /\ Top.ns \in Nat
      /\ Policy = RulesOf(Top) /\ Policy \in Seq(RuleType)
      /\ Top.pc \in InRule => Top.rule <= Len(Policy)
      /\ Top.rule <= Len(Policy) => Rule.repeat \in Nat /\ Len(Rule.caps) \in Nat
  <2>1. Top \in FrameType /\ FrameOK(Top)
    BY <1>1, TopFacts
  <2>2. Top.rule > 0 /\ Top.rule \in Nat /\ Top.rep \in Nat /\ Top.cap \in Nat /\ Top.ns \in Nat
    BY <1>1, <2>1 DEF FrameOK, FrameType
  <2>3. Policy = RulesOf(Top) /\ Policy \in Seq(RuleType) /\ (Top.rule <= Len(Policy) => Rule \in RuleType)
    BY <1>1, <2>2, RuleFacts
  <2> QED BY <2>1, <2>2, <2>3 DEF FrameOK, RuleType
<1>3. ASSUME NEW f, f \in FrameType, Become(f), f.spider = Top.spider, f.page = Top.page,
             f.policy = Top.policy, f.pc \in AtRule, f.rule > 0,
             f.pc \in InRule => f.rule <= Len(Policy),
             f.pc = "rule" => f.rule <= Len(Policy) + 1,
             f.pc \in {"clear", "cap"} => f.cap > 0, f.pc \in {"trigger", "spawn"} => f.ns > 0
      PROVE  GoesOn(f) /\ RulesOf(f) = Policy /\ RulesOf(Top) = Policy
  <2>1. FrameOK(f) /\ RulesOf(f) = Policy /\ RulesOf(Top) = Policy
    BY <1>1, <1>2, <1>3, InsideRules
  <2>2. Top.pc \notin {"scan", "exit"}
    BY <1>1 DEF AtRule, InRule
  <2> QED BY <1>3, <2>1, <2>2 DEF GoesOn
<1>4. CASE RuleRepeated
  <2> DEFINE f == [Top EXCEPT !.rule = Top.rule + 1, !.rep = 0]
  <2>1. /\ f \in FrameType /\ f.spider = Top.spider /\ f.page = Top.page /\ f.policy = Top.policy
        /\ f.pc = "rule" /\ f.rule = Top.rule + 1 /\ f.rep = 0
    <3> DEFINE k == Top.rule + 1
    <3>1. k \in Nat /\ f = [Top EXCEPT !.rule = k, !.rep = 0] /\ Top.pc = "rule"
      BY <1>2, <1>4 DEF RuleRepeated
    <3> HIDE DEF k, f
    <3> QED BY <1>2, <3>1 DEF FrameType, Labels, AtRule, k
  <2>2. /\ Become(f) /\ Top.pc = "rule"
        /\ Top.rule <= Len(Policy) /\ Top.rep = Rule.repeat
        /\ UNCHANGED <<table, confset, live, pools, pages, returned, spiders>>
    BY <1>4 DEF RuleRepeated
  <2> HIDE DEF f
  <2>3. GoesOn(f) /\ RulesOf(f) = Policy /\ RulesOf(Top) = Policy
    BY <1>2, <1>3, <2>1, <2>2 DEF AtRule, InRule
  <2>4. ASSUME NEW name, Done(f, name) PROVE Done(Top, name)
    <3>1. PICK r \in 1 .. Top.rule : Policy[r].repeat > 0 /\ name \in Names(Policy[r])
      BY <1>2, <2>1, <2>3, <2>4 DEF Done
    <3>2. CASE r = Top.rule
      BY <3>1, <3>2, <1>2, <2>2, <2>3 DEF Done, Rule
    <3>3. CASE r # Top.rule
      <4>1. r \in 1 .. Top.rule - 1
        BY <3>3, <1>2
      <4> QED BY <3>1, <4>1, <2>3 DEF Done
    <3> QED BY <3>2, <3>3
  <2> QED BY <2>1, <2>2, <2>3, <2>4 DEF MovesOn
<1>5. CASE NoMatch
  <2> DEFINE f == [Top EXCEPT !.pc = "clear", !.cap = 1]
  <2>1. /\ f \in FrameType /\ f.spider = Top.spider /\ f.page = Top.page /\ f.policy = Top.policy
        /\ f.pc = "clear" /\ f.rule = Top.rule /\ f.cap = 1
    BY <1>2 DEF FrameType, Labels, AtRule, InRule
  <2>2. /\ Become(f) /\ Top.pc = "rule"
        /\ Top.rule <= Len(Policy)
        /\ UNCHANGED <<table, confset, live, pools, pages, returned, spiders>>
    BY <1>5 DEF NoMatch
  <2> HIDE DEF f
  <2>3. GoesOn(f) /\ RulesOf(f) = Policy /\ RulesOf(Top) = Policy
    BY <1>2, <1>3, <2>1, <2>2 DEF AtRule, InRule
  <2>4. ASSUME NEW name, Done(f, name) PROVE Done(Top, name)
    BY <2>1, <2>2, <2>3, <2>4 DEF Done
  <2> QED BY <2>1, <2>2, <2>3, <2>4 DEF MovesOn
<1>6. CASE Cleared
  <2> DEFINE f == [Top EXCEPT !.pc = "rule", !.rule = Top.rule + 1, !.rep = 0]
  <2>1. /\ f \in FrameType /\ f.spider = Top.spider /\ f.page = Top.page /\ f.policy = Top.policy
        /\ f.pc = "rule" /\ f.rule = Top.rule + 1 /\ f.rep = 0
    <3> DEFINE k == Top.rule + 1
    <3>1. k \in Nat /\ f = [Top EXCEPT !.pc = "rule", !.rule = k, !.rep = 0] /\ Top.pc = "clear"
      BY <1>2, <1>6 DEF Cleared
    <3> HIDE DEF k, f
    <3> QED BY <1>2, <3>1 DEF FrameType, Labels, AtRule, k
  <2>2. /\ Become(f) /\ Top.pc = "clear"
        /\ Top.cap > Len(Rule.caps)
        /\ UNCHANGED <<table, confset, live, pools, pages, returned, spiders>>
    BY <1>6 DEF Cleared
  <2> HIDE DEF f
  <2>3. GoesOn(f) /\ RulesOf(f) = Policy /\ RulesOf(Top) = Policy
    BY <1>2, <1>3, <2>1, <2>2 DEF AtRule, InRule
  <2>4. ASSUME NEW name, Done(f, name) PROVE Done(Top, name)
    <3>1. PICK r \in 1 .. Top.rule : Policy[r].repeat > 0 /\ name \in Names(Policy[r])
      BY <1>2, <2>1, <2>3, <2>4 DEF Done
    <3>2. CASE r = Top.rule
      <4>1. PICK i \in 1 .. Len(Rule.caps) : name = Rule.caps[i].store
        BY <3>1, <3>2 DEF Names, Rule
      <4>2. i \in 1 .. Top.cap - 1
        BY <1>2, <2>2
      <4> QED BY <4>1, <4>2, <2>2, <2>3 DEF Done, Rule
    <3>3. CASE r # Top.rule
      <4>1. r \in 1 .. Top.rule - 1
        BY <3>3, <1>2
      <4> QED BY <3>1, <4>1, <2>3 DEF Done
    <3> QED BY <3>2, <3>3
  <2> QED BY <2>1, <2>2, <2>3, <2>4 DEF MovesOn
<1>7. CASE Match
  <2> DEFINE f == [Top EXCEPT !.pc = "cap", !.rep = Top.rep + 1, !.cap = 1]
  <2>1. /\ f \in FrameType /\ f.spider = Top.spider /\ f.page = Top.page /\ f.policy = Top.policy
        /\ f.pc = "cap" /\ f.rule = Top.rule /\ f.cap = 1
    <3> DEFINE k == Top.rep + 1
    <3>1. k \in Nat /\ f = [Top EXCEPT !.pc = "cap", !.rep = k, !.cap = 1]
      BY <1>2
    <3> HIDE DEF k, f
    <3> QED BY <1>2, <3>1 DEF FrameType, Labels, AtRule, InRule
  <2>2. /\ Become(f) /\ Top.pc = "rule"
        /\ Top.rule <= Len(Policy)
        /\ UNCHANGED <<table, confset, live, pools, pages, returned, spiders>>
    BY <1>7 DEF Match
  <2> HIDE DEF f
  <2>3. GoesOn(f) /\ RulesOf(f) = Policy /\ RulesOf(Top) = Policy
    BY <1>2, <1>3, <2>1, <2>2 DEF AtRule, InRule
  <2>4. ASSUME NEW name, Done(f, name) PROVE Done(Top, name)
    BY <2>1, <2>2, <2>3, <2>4 DEF Done
  <2> QED BY <2>1, <2>2, <2>3, <2>4 DEF MovesOn
<1>8. CASE NotUnique
  <2> DEFINE f == [Top EXCEPT !.pc = "end"]
  <2>1. /\ f \in FrameType /\ f.spider = Top.spider /\ f.page = Top.page /\ f.policy = Top.policy
        /\ f.pc = "end" /\ f.rule = Top.rule
    BY <1>2 DEF FrameType, Labels, AtRule, InRule
  <2>2. /\ Become(f) /\ Top.pc = "cap"
        /\ Top.cap > Len(Rule.caps)
        /\ UNCHANGED <<table, confset, live, pools, pages, returned, spiders>>
    BY <1>8 DEF NotUnique
  <2> HIDE DEF f
  <2>3. GoesOn(f) /\ RulesOf(f) = Policy /\ RulesOf(Top) = Policy
    BY <1>2, <1>3, <2>1, <2>2 DEF AtRule, InRule
  <2>4. ASSUME NEW name, Done(f, name) PROVE Done(Top, name)
    <3>1. CASE name \in Names(Rule)
      <4>1. PICK i \in 1 .. Len(Rule.caps) : name = Rule.caps[i].store
        BY <3>1 DEF Names
      <4>2. i \in 1 .. Top.cap - 1
        BY <1>2, <2>2 DEF InRule
      <4> QED BY <4>1, <4>2, <2>2, <2>3 DEF Done, Rule
    <3>2. CASE name \notin Names(Rule)
      BY <3>2, <2>1, <2>3, <2>4 DEF Done, Rule
    <3> QED BY <3>1, <3>2
  <2> QED BY <2>1, <2>2, <2>3, <2>4 DEF MovesOn
<1>9. CASE Unique
  <2> DEFINE f == [Top EXCEPT !.pc = "trigger", !.ns = 1]
  <2>1. /\ f \in FrameType /\ f.spider = Top.spider /\ f.page = Top.page /\ f.policy = Top.policy
        /\ f.pc = "trigger" /\ f.rule = Top.rule /\ f.ns = 1
    BY <1>2 DEF FrameType, Labels, AtRule, InRule
  <2>2. /\ Become(f) /\ Top.pc = "cap"
        /\ Top.cap > Len(Rule.caps)
        /\ UNCHANGED <<table, confset, live, pools, pages, returned, spiders>>
    BY <1>9 DEF Unique
  <2> HIDE DEF f
  <2>3. GoesOn(f) /\ RulesOf(f) = Policy /\ RulesOf(Top) = Policy
    BY <1>2, <1>3, <2>1, <2>2 DEF AtRule, InRule
  <2>4. ASSUME NEW name, Done(f, name) PROVE Done(Top, name)
    <3>1. CASE name \in Names(Rule)
      <4>1. PICK i \in 1 .. Len(Rule.caps) : name = Rule.caps[i].store
        BY <3>1 DEF Names
      <4>2. i \in 1 .. Top.cap - 1
        BY <1>2, <2>2 DEF InRule
      <4> QED BY <4>1, <4>2, <2>2, <2>3 DEF Done, Rule
    <3>2. CASE name \notin Names(Rule)
      BY <3>2, <2>1, <2>3, <2>4 DEF Done, Rule
    <3> QED BY <3>1, <3>2
  <2> QED BY <2>1, <2>2, <2>3, <2>4 DEF MovesOn
<1>10. CASE NoUniq
  <2> DEFINE f == [Top EXCEPT !.pc = "trigger", !.ns = 1]
  <2>1. /\ f \in FrameType /\ f.spider = Top.spider /\ f.page = Top.page /\ f.policy = Top.policy
        /\ f.pc = "trigger" /\ f.rule = Top.rule /\ f.ns = 1
    BY <1>2 DEF FrameType, Labels, AtRule, InRule
  <2>2. /\ Become(f) /\ Top.pc = "cap"
        /\ Top.cap > Len(Rule.caps)
        /\ UNCHANGED <<table, confset, live, pools, pages, returned, spiders>>
    BY <1>10 DEF NoUniq
  <2> HIDE DEF f
  <2>3. GoesOn(f) /\ RulesOf(f) = Policy /\ RulesOf(Top) = Policy
    BY <1>2, <1>3, <2>1, <2>2 DEF AtRule, InRule
  <2>4. ASSUME NEW name, Done(f, name) PROVE Done(Top, name)
    <3>1. CASE name \in Names(Rule)
      <4>1. PICK i \in 1 .. Len(Rule.caps) : name = Rule.caps[i].store
        BY <3>1 DEF Names
      <4>2. i \in 1 .. Top.cap - 1
        BY <1>2, <2>2 DEF InRule
      <4> QED BY <4>1, <4>2, <2>2, <2>3 DEF Done, Rule
    <3>2. CASE name \notin Names(Rule)
      BY <3>2, <2>1, <2>3, <2>4 DEF Done, Rule
    <3> QED BY <3>1, <3>2
  <2> QED BY <2>1, <2>2, <2>3, <2>4 DEF MovesOn
<1>11. CASE TriggerUnheard
  <2> DEFINE f == [Top EXCEPT !.ns = Top.ns + 1]
  <2>1. /\ f \in FrameType /\ f.spider = Top.spider /\ f.page = Top.page /\ f.policy = Top.policy
        /\ f.pc = "trigger" /\ f.rule = Top.rule /\ f.ns > 0
    <3> DEFINE k == Top.ns + 1
    <3>1. k \in Nat /\ k > 0 /\ f = [Top EXCEPT !.ns = k] /\ Top.pc = "trigger"
      BY <1>2, <1>11 DEF TriggerUnheard, Triggering
    <3> HIDE DEF k, f
    <3> QED BY <1>2, <3>1 DEF FrameType, Labels, AtRule, InRule
  <2>2. /\ Become(f) /\ Top.pc = "trigger"
        /\ UNCHANGED <<table, confset, live, pools, pages, returned, spiders>>
    BY <1>11 DEF TriggerUnheard, Triggering
  <2> HIDE DEF f
  <2>3. GoesOn(f) /\ RulesOf(f) = Policy /\ RulesOf(Top) = Policy
    BY <1>2, <1>3, <2>1, <2>2 DEF AtRule, InRule
  <2>4. ASSUME NEW name, Done(f, name) PROVE Done(Top, name)
    BY <2>1, <2>2, <2>3, <2>4 DEF Done
  <2> QED BY <2>1, <2>2, <2>3, <2>4 DEF MovesOn
<1>12. CASE TriggersDone
  <2> DEFINE f == [Top EXCEPT !.pc = "spawn", !.ns = 1]
  <2>1. /\ f \in FrameType /\ f.spider = Top.spider /\ f.page = Top.page /\ f.policy = Top.policy
        /\ f.pc = "spawn" /\ f.rule = Top.rule /\ f.ns = 1
    BY <1>2 DEF FrameType, Labels, AtRule, InRule
  <2>2. /\ Become(f) /\ Top.pc = "trigger"
        /\ UNCHANGED <<table, confset, live, pools, pages, returned, spiders>>
    BY <1>12 DEF TriggersDone
  <2> HIDE DEF f
  <2>3. GoesOn(f) /\ RulesOf(f) = Policy /\ RulesOf(Top) = Policy
    BY <1>2, <1>3, <2>1, <2>2 DEF AtRule, InRule
  <2>4. ASSUME NEW name, Done(f, name) PROVE Done(Top, name)
    BY <2>1, <2>2, <2>3, <2>4 DEF Done
  <2> QED BY <2>1, <2>2, <2>3, <2>4 DEF MovesOn
<1>13. CASE SpawnsDone
  <2> DEFINE f == [Top EXCEPT !.pc = "end"]
  <2>1. /\ f \in FrameType /\ f.spider = Top.spider /\ f.page = Top.page /\ f.policy = Top.policy
        /\ f.pc = "end" /\ f.rule = Top.rule
    BY <1>2 DEF FrameType, Labels, AtRule, InRule
  <2>2. /\ Become(f) /\ Top.pc = "spawn"
        /\ UNCHANGED <<table, confset, live, pools, pages, returned, spiders>>
    BY <1>13 DEF SpawnsDone
  <2> HIDE DEF f
  <2>3. GoesOn(f) /\ RulesOf(f) = Policy /\ RulesOf(Top) = Policy
    BY <1>2, <1>3, <2>1, <2>2 DEF AtRule, InRule
  <2>4. ASSUME NEW name, Done(f, name) PROVE Done(Top, name)
    BY <2>1, <2>2, <2>3, <2>4 DEF Done
  <2> QED BY <2>1, <2>2, <2>3, <2>4 DEF MovesOn
<1>14. CASE EndMatch
  <2> DEFINE f == [Top EXCEPT !.pc = "rule"]
  <2>1. /\ f \in FrameType /\ f.spider = Top.spider /\ f.page = Top.page /\ f.policy = Top.policy
        /\ f.pc = "rule" /\ f.rule = Top.rule
    BY <1>2 DEF FrameType, Labels, AtRule, InRule
  <2>2. /\ Become(f) /\ Top.pc = "end"
        /\ UNCHANGED <<table, confset, live, pools, pages, returned, spiders>>
    BY <1>14 DEF EndMatch
  <2> HIDE DEF f
  <2>3. GoesOn(f) /\ RulesOf(f) = Policy /\ RulesOf(Top) = Policy
    BY <1>2, <1>3, <2>1, <2>2 DEF AtRule, InRule
  <2>4. ASSUME NEW name, Done(f, name) PROVE Done(Top, name)
    BY <2>1, <2>2, <2>3, <2>4 DEF Done
  <2> QED BY <2>1, <2>2, <2>3, <2>4 DEF MovesOn
<1> QED
  BY <1>4, <1>5, <1>6, <1>7, <1>8, <1>9, <1>10, <1>11, <1>12, <1>13, <1>14

LEMMA StepPolicyApplies ==
  ASSUME PageTypeOK, StackInv, PolicyApplies
  PROVE  MovesOn
<1> USE DEF At, memory, history
<1> DEFINE f == [Top EXCEPT !.pc = "rule", !.rule = 1, !.rep = 0]
<1>1. stack # <<>> /\ Top.pc = "policy" /\ Top.policy <= Len(Policies[Conf]) /\ Become(f)
  BY DEF PolicyApplies
<1>2. Top \in FrameType /\ FrameOK(Top) /\ Len(Policies[Conf]) \in Nat
  BY <1>1, TopFacts
<1>3. /\ f \in FrameType /\ f.spider = Top.spider /\ f.page = Top.page /\ f.policy = Top.policy
      /\ f.pc = "rule" /\ f.rule = 1 /\ f.rep = 0
  BY <1>2 DEF FrameType, Labels, AtRule, InRule
<1> HIDE DEF f
<1>4. ConfOf(f) = Conf
  BY <1>3 DEF ConfOf, Conf, Spider, Me
<1>5. Top.policy \in 1 .. Len(Policies[Conf])
  <2>1. Top.policy # 0
    BY <1>1, <1>2 DEF FrameOK
  <2> QED BY <1>1, <1>2, <2>1 DEF FrameType
<1>6. FrameOK(f)
  BY <1>2, <1>3, <1>4, <1>5 DEF FrameOK, AtRule, InRule
<1>7. \A name : ~ Done(f, name)
  BY <1>3 DEF Done
<1>8. GoesOn(f)
  BY <1>1, <1>3, <1>6 DEF GoesOn
<1> QED
  BY <1>3, <1>7, <1>8 DEF PolicyApplies, MovesOn

----------------------------------------------------------------------------
(* The steps that set or delete a variable.                                *)

LEMMA StepsCapture ==
  ASSUME PageTypeOK, StackInv, Capture \/ ClearVar
  PROVE  SetsVariable
<1> USE DEF At, history
<1> DEFINE k == Top.cap + 1
           f == [Top EXCEPT !.cap = k]
           name == Cap.store
<1>1. /\ stack # <<>> /\ Top.pc \in {"clear", "cap"} /\ Top.cap <= Len(Rule.caps)
      /\ Become(f)
      /\ UNCHANGED <<confset, live, pools, pages, returned>>
  BY DEF Capture, ClearVar
<1>2. /\ Top \in FrameType /\ FrameOK(Top) /\ Top.rule > 0 /\ Top.cap \in Nat /\ Top.cap > 0
      /\ Top.rule \in Nat /\ Top.rule <= Len(RulesOf(Top))
  <2>1. Top \in FrameType /\ FrameOK(Top)
    BY <1>1, TopFacts
  <2> QED BY <1>1, <2>1 DEF FrameOK, FrameType, AtRule, InRule
<1>3. Rule \in RuleType /\ Rule \in Rules /\ Policy = RulesOf(Top)
  BY <1>1, <1>2, RuleFacts
<1>4. name \in DOMAIN Text
  <2>1. Top.cap \in 1 .. Len(Rule.caps)
    BY <1>1, <1>2, <1>3 DEF RuleType
  <2> QED BY <1>3, <2>1, PageAssumption DEF Cap
<1>5. /\ f \in FrameType /\ f.spider = Top.spider /\ f.page = Top.page /\ f.policy = Top.policy
      /\ f.pc = Top.pc /\ f.rule = Top.rule /\ f.cap = k /\ k > 0 /\ f.rep = Top.rep
  <2>1. k \in Nat /\ k > 0
    BY <1>2
  <2> HIDE DEF k
  <2> QED BY <1>2, <2>1 DEF FrameType
<1>6. \E r : Puts(r, name)
  <2>1. CASE Capture
    <3>1. PICK text \in Text[name] :
            LET v == VarInsert(table, Spider.handle, name, text, pages)
            IN table' = v.table /\ spiders' = [spiders EXCEPT ![Me].handle = v.root]
      BY <2>1 DEF Capture
    <3>2. text \in String
      BY <1>4, PageAssumption
    <3> QED BY <3>1, <3>2 DEF Puts
  <2>2. CASE ClearVar
    BY <2>2 DEF ClearVar, Puts
  <2> QED BY <2>1, <2>2
<1> HIDE DEF f, name
<1>7. FrameOK(f) /\ RulesOf(f) = Policy /\ RulesOf(Top) = Policy
  <2>1. Top.rule <= Len(Policy) /\ f.pc \in AtRule /\ f.cap > 0
    BY <1>1, <1>2, <1>3, <1>5 DEF AtRule, InRule
  <2>2. f.pc # "rule"
    BY <1>1, <1>5
  <2> QED BY <1>1, <1>2, <1>5, <2>1, <2>2, InsideRules
<1>8. GoesOn(f)
  BY <1>1, <1>5, <1>7 DEF GoesOn
<1>9. ASSUME NEW x, Done(f, x) PROVE Done(Top, x) \/ x = name
  <2>1. CASE \E r \in 1 .. Top.rule - 1 : Policy[r].repeat > 0 /\ x \in Names(Policy[r])
    BY <2>1, <1>7 DEF Done
  <2>2. CASE ~ \E r \in 1 .. Top.rule - 1 : Policy[r].repeat > 0 /\ x \in Names(Policy[r])
    <3>1. PICK i \in 1 .. k - 1 : x = Policy[Top.rule].caps[i].store
      BY <1>1, <1>5, <1>7, <1>9, <2>2 DEF Done
    <3>2. CASE i = Top.cap
      BY <3>1, <3>2 DEF name, Cap, Rule
    <3>3. CASE i # Top.cap
      <4>1. i \in 1 .. Top.cap - 1
        BY <3>3, <1>2
      <4> QED BY <3>1, <4>1, <1>1, <1>7 DEF Done
    <3> QED BY <3>2, <3>3
  <2> QED BY <2>1, <2>2
<1> QED
  BY <1>1, <1>4, <1>5, <1>6, <1>8, <1>9 DEF SetsVariable

LEMMA StepTrigger ==
  ASSUME PageTypeOK, StackInv, Trigger
  PROVE  SetsVariable
<1> USE DEF At, history
<1> DEFINE k == Top.ns + 1
           f == [Top EXCEPT !.ns = k]
           name == Rule.triggers[Top.ns]
<1>1. /\ stack # <<>> /\ Top.pc = "trigger" /\ Top.ns <= Len(Rule.triggers) /\ name # None
      /\ Become(f)
      /\ UNCHANGED <<confset, live, pools, pages, returned>>
  BY DEF Trigger, Triggering
<1>2. /\ Top \in FrameType /\ FrameOK(Top) /\ Top.rule > 0 /\ Top.ns \in Nat /\ Top.ns > 0
      /\ Top.rule \in Nat /\ Top.rule <= Len(RulesOf(Top))
  <2>1. Top \in FrameType /\ FrameOK(Top)
    BY <1>1, TopFacts
  <2> QED BY <1>1, <2>1 DEF FrameOK, FrameType, AtRule, InRule
<1>3. Rule \in RuleType /\ Rule \in Rules /\ Policy = RulesOf(Top)
  BY <1>1, <1>2, RuleFacts
<1>4. name \in DOMAIN Text
  <2>1. Top.ns \in 1 .. Len(Rule.triggers)
    BY <1>1, <1>2, <1>3 DEF RuleType
  <2> QED BY <1>1, <1>3, <2>1, PageAssumption
<1>5. /\ f \in FrameType /\ f.spider = Top.spider /\ f.page = Top.page /\ f.policy = Top.policy
      /\ f.pc = Top.pc /\ f.rule = Top.rule /\ f.ns = k /\ k > 0
  <2>1. k \in Nat /\ k > 0
    BY <1>2
  <2> HIDE DEF k
  <2> QED BY <1>2, <2>1 DEF FrameType
<1>6. \E r : Puts(r, name)
  <2>1. PICK text \in Text[name] :
          LET v == VarInsert(table, Spider.handle, name, text, pages)
          IN table' = v.table /\ spiders' = [spiders EXCEPT ![Me].handle = v.root]
    BY DEF Trigger
  <2>2. text \in String
    BY <1>4, PageAssumption
  <2> QED BY <2>1, <2>2 DEF Puts
<1> HIDE DEF f, name
<1>7. FrameOK(f) /\ RulesOf(f) = Policy /\ RulesOf(Top) = Policy
  <2>1. Top.rule <= Len(Policy) /\ f.pc \in AtRule /\ f.ns > 0
    BY <1>1, <1>2, <1>3, <1>5 DEF AtRule, InRule
  <2>2. f.pc # "rule"
    BY <1>1, <1>5
  <2> QED BY <1>1, <1>2, <1>5, <2>1, <2>2, InsideRules
<1>8. GoesOn(f)
  BY <1>1, <1>5, <1>7 DEF GoesOn
<1>9. \A x : Done(f, x) => Done(Top, x)
  BY <1>1, <1>5, <1>7 DEF Done
<1> QED
  BY <1>1, <1>4, <1>5, <1>6, <1>8, <1>9 DEF SetsVariable

----------------------------------------------------------------------------
(* Every step is one of these.                                             *)

LEMMA StepsBegin ==
  ASSUME PageTypeOK, StackInv, ScanUrl \/ CopyStartUrl
  PROVE  BeginsPage
<1>1. stack # <<>> /\ Top.pc = "scan"
  BY DEF ScanUrl, CopyStartUrl, At
<1>2. Top \in FrameType /\ Top.rule = 0
  BY <1>1, TopFacts DEF FrameOK, FrameType, AtRule, InRule
<1>3. \E f \in FrameType : f.spider = Top.spider /\ f.rule = 0 /\ NextPage(f)
  <2>1. CASE CopyStartUrl
    BY <2>1, <1>2 DEF CopyStartUrl
  <2>2. CASE ScanUrl
    <3>1. PICK over \in BOOLEAN : NextPage([Top EXCEPT !.over = over])
      BY <2>2 DEF ScanUrl
    <3> DEFINE f == [Top EXCEPT !.over = over]
    <3>2. f \in FrameType /\ f.spider = Top.spider /\ f.rule = 0
      BY <1>2 DEF FrameType
    <3> QED BY <3>1, <3>2
  <2> QED BY <2>1, <2>2
<1> QED
  BY <1>1, <1>3 DEF ScanUrl, CopyStartUrl, BeginsPage, At

LEMMA Steps ==
  ASSUME PageTypeOK, StackInv, [Next]_vars
  PROVE  \/ MovesOn \/ SetsVariable \/ BeginsPage \/ SpawnKnown \/ SpawnNew \/ RunEnds
         \/ UNCHANGED vars
<1>1. CASE ScanUrl \/ CopyStartUrl
  BY <1>1, StepsBegin
<1>2. CASE \/ ScanEof \/ FetchOk \/ FetchFails \/ FetchGivesUp
           \/ PolicyOutOfRange \/ PoliciesDone \/ RulesDone
           \/ OverLimit \/ UnderLimit \/ TryAgain
  BY <1>2, StepsOutside
<1>3. CASE PolicyApplies
  BY <1>3, StepPolicyApplies
<1>4. CASE \/ RuleRepeated \/ NoMatch \/ Cleared \/ Match
           \/ NotUnique \/ Unique \/ NoUniq
           \/ TriggerUnheard \/ TriggersDone \/ SpawnsDone \/ EndMatch
  BY <1>4, StepsInside
<1>5. CASE Capture \/ ClearVar
  BY <1>5, StepsCapture
<1>6. CASE Trigger
  BY <1>6, StepTrigger
<1>7. CASE ExitOverLimit \/ ExitAtEof
  BY <1>7 DEF ExitOverLimit, ExitAtEof, RunEnds
<1>8. CASE Ended \/ UNCHANGED vars
  BY <1>8 DEF Ended
<1> QED
  BY <1>1, <1>2, <1>3, <1>4, <1>5, <1>6, <1>7, <1>8 DEF Next

LEMMA CountersTyped ==
  ASSUME PageTypeOK, [Next]_vars
  PROVE  line' \in Nat /\ wiped' \in BOOLEAN
<1>1. line \in Nat /\ wiped \in BOOLEAN
  BY DEF PageTypeOK
<1>2. line' \in {line, line + 1} /\ wiped' \in {wiped, TRUE}
  BY DEF Next, vars, memory, history, ScanUrl, CopyStartUrl, ScanEof, FetchOk, FetchFails,
         FetchGivesUp, PolicyApplies, PolicyOutOfRange, PoliciesDone, RulesDone, RuleRepeated,
         NoMatch, ClearVar, Cleared, Match, Capture, NotUnique, Unique, NoUniq, Trigger,
         TriggerUnheard, TriggersDone, SpawnKnown, SpawnNew, SpawnsDone, EndMatch, OverLimit,
         UnderLimit, ExitOverLimit, ExitAtEof, Return, TryAgain, Ended
<1>3. line' \in Nat
  BY <1>1, <1>2
<1>4. wiped' \in BOOLEAN
  BY <1>1, <1>2, Zenon
<1> QED
  BY <1>3, <1>4

----------------------------------------------------------------------------
(* Types, and the stack of running spiders.                                *)

\* The spiders there are keep their configurations.
Spiders ==
  /\ Len(spiders) <= Len(spiders')
  /\ \A s \in 1 .. Len(spiders) : spiders'[s].conf = spiders[s].conf

LEMMA FrameKept ==
  ASSUME PageTypeOK, Spiders, NEW f \in FrameType, FrameOK(f), pages \in Nat, pages' \in Nat,
         pages <= pages', spiders' \in Seq(SpiderType)
  PROVE  FrameOK(f)'
<1>1. f.spider \in 1 .. Len(spiders) /\ f.spider <= Len(spiders') /\ f.page <= pages'
  BY DEF FrameOK, FrameType, Spiders, PageTypeOK
<1>2. spiders'[f.spider].conf = spiders[f.spider].conf
  BY <1>1 DEF Spiders
<1> QED
  BY <1>1, <1>2 DEF FrameOK, ConfOf, RulesOf

\* The innermost spider goes on as f, and the others wait.
LEMMA BecomeKeeps ==
  ASSUME PageTypeOK, StackInv, stack # <<>>, Spiders, pages' \in Nat, pages <= pages',
         spiders' \in Seq(SpiderType),
         NEW f \in FrameType, Become(f), f.spider = Top.spider, FrameOK(f)'
  PROVE  /\ stack' \in Seq(FrameType) /\ Len(stack') = Len(stack) /\ Depth' = Depth
         /\ \A i \in 1 .. Depth : stack'[i] = IF i = Depth THEN f ELSE stack[i]
         /\ StackInv'
<1>1. stack \in Seq(FrameType) /\ Depth = Len(stack) /\ Depth \in Nat \ {0} /\ pages \in Nat
  BY DEF PageTypeOK, Depth
<1>2. stack' = [stack EXCEPT ![Depth] = f]
  BY DEF Become
<1>3. stack' \in Seq(FrameType) /\ Len(stack') = Len(stack)
  BY <1>1, <1>2, ExceptSeq
<1>4. Depth' = Depth
  BY <1>3 DEF Depth
<1>5. \A i \in 1 .. Depth : stack'[i] = IF i = Depth THEN f ELSE stack[i]
  <2>1. DOMAIN stack = 1 .. Depth
    BY <1>1
  <2> QED BY <1>2, <2>1
<1>6. ASSUME NEW i \in 1 .. Depth' PROVE FrameOK(stack[i])'
  <2>1. CASE i = Depth
    BY <2>1, <1>1, <1>4, <1>5 DEF FrameOK, ConfOf, RulesOf
  <2>2. CASE i # Depth
    <3>1. PICK g : g = stack[i]
      OBVIOUS
    <3>2. g \in FrameType /\ FrameOK(g) /\ stack'[i] = g
      BY <2>2, <3>1, <1>1, <1>4, <1>5 DEF StackInv
    <3>3. FrameOK(g)'
      BY <3>2, <1>1, FrameKept
    <3> QED BY <3>2, <3>3 DEF FrameOK, ConfOf, RulesOf
  <2> QED BY <2>1, <2>2
<1>7. \A i \in 1 .. Depth' - 1 : stack'[i].pc = "spawn"
  BY <1>1, <1>4, <1>5 DEF StackInv
<1>8. stack' # <<>> => stack'[1].spider = 1
  BY <1>1, <1>4, <1>5 DEF StackInv, Top
<1> QED
  BY <1>3, <1>4, <1>5, <1>6, <1>7, <1>8 DEF StackInv

\* The type of everything but the stack.
RestTyped ==
  /\ spiders' \in Seq(SpiderType)
  /\ IsTable(table)' /\ Closed(table, Len(table.name))'
  /\ \A s \in 1 .. Len(spiders') : spiders'[s].handle \in {NULL} \cup Nodes(table')
  /\ pages' \in Nat /\ pools' \in Nat /\ returned' \in Nat
  /\ \A e \in confset' : /\ e.conf \in Confs
                         /\ e.spider \in 2 .. Len(spiders')
                         /\ spiders'[e.spider].conf = e.conf

LEMMA TypeMovesOn ==
  ASSUME PageTypeOK, StackInv, stack # <<>>, MovesOn
  PROVE  stack' \in Seq(FrameType) /\ StackInv' /\ RestTyped
<1>1. PICK f \in FrameType : GoesOn(f)
  BY DEF MovesOn
<1>2. /\ spiders \in Seq(SpiderType) /\ Me \in 1 .. Len(spiders) /\ pages \in Nat
      /\ UNCHANGED <<table, confset, pools, pages, returned>>
  BY TopFacts DEF PageTypeOK, MovesOn
<1>3. /\ spiders' \in Seq(SpiderType) /\ Len(spiders') = Len(spiders)
      /\ \A s \in 1 .. Len(spiders) : /\ spiders'[s].conf = spiders[s].conf
                                      /\ spiders'[s].handle = spiders[s].handle
  <2>1. CASE spiders' = spiders
    BY <1>2, <2>1
  <2>2. CASE spiders' = [spiders EXCEPT ![Me].eof = TRUE]
    <3> DEFINE m == [spiders[Me] EXCEPT !.eof = TRUE]
    <3>1. m \in SpiderType /\ m.conf = spiders[Me].conf /\ m.handle = spiders[Me].handle
      <4>1. spiders[Me] \in SpiderType
        BY <1>2
      <4> QED BY <4>1 DEF SpiderType
    <3>2. spiders' = [spiders EXCEPT ![Me] = m]
      BY <2>2
    <3> HIDE DEF m
    <3>3. spiders' \in Seq(SpiderType) /\ Len(spiders') = Len(spiders)
      BY <1>2, <3>1, <3>2, ExceptSeq
    <3>4. DOMAIN spiders = 1 .. Len(spiders)
      BY <1>2
    <3> QED BY <3>1, <3>2, <3>3, <3>4
  <2> QED BY <2>1, <2>2 DEF MovesOn
<1>4. Spiders
  BY <1>2, <1>3 DEF Spiders
<1>5. FrameOK(f)' /\ Become(f) /\ f.spider = Top.spider
  BY <1>1, <1>2, <1>3, <1>4, FrameKept DEF GoesOn
<1>6. stack' \in Seq(FrameType) /\ StackInv'
  BY <1>2, <1>3, <1>4, <1>5, BecomeKeeps
<1>7. /\ IsTable(table)' /\ Closed(table, Len(table.name))'
      /\ \A s \in 1 .. Len(spiders') : spiders'[s].handle \in {NULL} \cup Nodes(table')
  BY <1>2, <1>3 DEF PageTypeOK
<1>8. \A e \in confset' : /\ e.conf \in Confs
                          /\ e.spider \in 2 .. Len(spiders')
                          /\ spiders'[e.spider].conf = e.conf
  <2> SUFFICES ASSUME NEW e \in confset
               PROVE  e.conf \in Confs /\ e.spider \in 2 .. Len(spiders') /\ spiders'[e.spider].conf = e.conf
    BY <1>2
  <2>1. e.conf \in Confs /\ e.spider \in 2 .. Len(spiders) /\ spiders[e.spider].conf = e.conf
    BY DEF PageTypeOK
  <2> QED BY <2>1, <1>3
<1>9. pages' \in Nat /\ pools' \in Nat /\ returned' \in Nat
  BY <1>2 DEF PageTypeOK
<1> QED
  BY <1>3, <1>6, <1>7, <1>8, <1>9 DEF RestTyped

LEMMA SpiderSet ==
  ASSUME spiders \in Seq(SpiderType), NEW k \in 1 .. Len(spiders), NEW m \in SpiderType,
         spiders' = [spiders EXCEPT ![k] = m]
  PROVE  /\ spiders' \in Seq(SpiderType) /\ Len(spiders') = Len(spiders)
         /\ \A s \in 1 .. Len(spiders) : spiders'[s] = IF s = k THEN m ELSE spiders[s]
<1>1. spiders' \in Seq(SpiderType) /\ Len(spiders') = Len(spiders)
  BY ExceptSeq
<1>2. DOMAIN spiders = 1 .. Len(spiders)
  OBVIOUS
<1> QED
  BY <1>1, <1>2

\* What the spiders keep of confset when no spider goes and none is replaced.
LEMMA ConfsetKept ==
  ASSUME PageTypeOK, Spiders, spiders' \in Seq(SpiderType), confset' = confset
  PROVE  \A e \in confset' : /\ e.conf \in Confs
                             /\ e.spider \in 2 .. Len(spiders')
                             /\ spiders'[e.spider].conf = e.conf
<1> SUFFICES ASSUME NEW e \in confset
             PROVE  /\ e.conf \in Confs
                    /\ e.spider \in 2 .. Len(spiders') /\ spiders'[e.spider].conf = e.conf
  OBVIOUS
<1>1. /\ e.conf \in Confs /\ e.spider \in 2 .. Len(spiders) /\ spiders[e.spider].conf = e.conf
      /\ spiders \in Seq(SpiderType)
  BY DEF PageTypeOK
<1>2. e.spider \in 1 .. Len(spiders) /\ e.spider \in 2 .. Len(spiders')
  BY <1>1 DEF Spiders
<1> QED
  BY <1>1, <1>2 DEF Spiders

LEMMA PutsWithin ==
  ASSUME PageTypeOK, StackInv, stack # <<>>, NEW name \in DOMAIN Text, NEW r, Puts(r, name)
  PROVE  /\ IsTable(r.table) /\ Closed(r.table, Len(r.table.name))
         /\ Nodes(table) \subseteq Nodes(r.table)
         /\ r.root \in {NULL} \cup Nodes(r.table)
<1> DEFINE h == Spider.handle
<1>1. /\ IsTable(table) /\ Closed(table, Len(table.name)) /\ h \in {NULL} \cup Nodes(table)
      /\ pages \in Nat /\ name \in String /\ Len(table.name) \in Nat
  <2>1. Me \in 1 .. Len(spiders)
    BY TopFacts
  <2> QED BY <2>1, PageAssumption DEF PageTypeOK, Spider, IsTable
<1>2. ASSUME NEW text \in String, r = VarInsert(table, h, name, text, pages)
      PROVE  /\ IsTable(r.table) /\ Closed(r.table, Len(r.table.name))
             /\ Nodes(table) \subseteq Nodes(r.table)
             /\ r.root \in {NULL} \cup Nodes(r.table)
  <2> DEFINE t == table  born == pages
  <2>1. /\ IsTable(t) /\ Closed(t, Len(t.name)) /\ h \in {NULL} \cup Nodes(t)
        /\ born \in Nat /\ r = VarInsert(t, h, name, text, born)
    BY <1>1, <1>2
  <2> HIDE DEF h, t, born
  <2>2. /\ IsTable(r.table) /\ Closed(r.table, Len(r.table.name))
        /\ Nodes(t) \subseteq Nodes(r.table) /\ r.root \in Nodes(r.table)
    BY <1>1, <2>1, InsertWithin
  <2> QED BY <2>2 DEF t
<1>3. ASSUME r = VarDelete(table, h, name)
      PROVE  /\ IsTable(r.table) /\ Closed(r.table, Len(r.table.name))
             /\ Nodes(table) \subseteq Nodes(r.table)
             /\ r.root \in {NULL} \cup Nodes(r.table)
  <2>1. h \in 0 .. Len(table.name) /\ Len(table.name) <= Len(table.name)
    BY <1>1 DEF Nodes, NULL
  <2> HIDE DEF h
  <2>2. /\ IsTable(r.table) /\ Len(r.table.name) = Len(table.name)
        /\ Closed(r.table, Len(table.name)) /\ r.root \in 0 .. Len(table.name)
    BY <1>1, <1>3, <2>1, DeleteWithin
  <2> QED BY <1>1, <2>2 DEF Nodes, NULL
<1> QED
  BY <1>2, <1>3 DEF Puts

LEMMA TypeSets ==
  ASSUME PageTypeOK, StackInv, stack # <<>>, SetsVariable
  PROVE  stack' \in Seq(FrameType) /\ StackInv' /\ RestTyped
<1>1. PICK f \in FrameType, name \in DOMAIN Text : GoesOn(f) /\ \E r : Puts(r, name)
  BY DEF SetsVariable
<1>2. PICK r : Puts(r, name)
  BY <1>1
<1>3. /\ spiders \in Seq(SpiderType) /\ Me \in 1 .. Len(spiders) /\ pages \in Nat
      /\ UNCHANGED <<confset, pools, pages, returned>>
  BY TopFacts DEF PageTypeOK, SetsVariable
<1>4. /\ IsTable(r.table) /\ Closed(r.table, Len(r.table.name))
      /\ Nodes(table) \subseteq Nodes(r.table)
      /\ r.root \in {NULL} \cup Nodes(r.table) /\ r.root \in Nat
  <2>1. IsTable(r.table) => Len(r.table.name) \in Nat
    BY DEF IsTable
  <2> QED BY <1>2, <2>1, PutsWithin DEF Nodes, NULL
<1> DEFINE m == [spiders[Me] EXCEPT !.handle = r.root]
<1>5. m \in SpiderType /\ m.conf = spiders[Me].conf /\ m.handle = r.root
  <2>1. spiders[Me] \in SpiderType
    BY <1>3
  <2> QED BY <1>4, <2>1 DEF SpiderType
<1>6. spiders' = [spiders EXCEPT ![Me] = m] /\ table' = r.table
  BY <1>2 DEF Puts
<1> HIDE DEF m
<1>7. /\ spiders' \in Seq(SpiderType) /\ Len(spiders') = Len(spiders)
      /\ \A s \in 1 .. Len(spiders) : spiders'[s] = IF s = Me THEN m ELSE spiders[s]
  BY <1>3, <1>5, <1>6, SpiderSet
<1>8. Spiders
  BY <1>3, <1>5, <1>7 DEF Spiders
<1>9. FrameOK(f)' /\ Become(f) /\ f.spider = Top.spider
  BY <1>1, <1>3, <1>7, <1>8, FrameKept DEF GoesOn
<1>10. stack' \in Seq(FrameType) /\ StackInv'
  BY <1>3, <1>7, <1>8, <1>9, BecomeKeeps
<1>11. IsTable(table)' /\ Closed(table, Len(table.name))'
  BY <1>4, <1>6
<1>12. ASSUME NEW s \in 1 .. Len(spiders') PROVE spiders'[s].handle \in {NULL} \cup Nodes(table')
  <2>1. spiders[s].handle \in {NULL} \cup Nodes(table)
    BY <1>7 DEF PageTypeOK
  <2> QED BY <2>1, <1>4, <1>5, <1>6, <1>7
<1>13. pages' \in Nat /\ pools' \in Nat /\ returned' \in Nat
  BY <1>3 DEF PageTypeOK
<1> QED
  BY <1>3, <1>7, <1>8, <1>10, <1>11, <1>12, <1>13, ConfsetKept DEF RestTyped

LEMMA TypeBegins ==
  ASSUME PageTypeOK, StackInv, BeginsPage
  PROVE  stack' \in Seq(FrameType) /\ StackInv' /\ RestTyped
<1>1. PICK f \in FrameType : f.spider = Top.spider /\ f.rule = 0 /\ NextPage(f)
  BY DEF BeginsPage
<1>2. stack # <<>>
  BY DEF BeginsPage, At
<1>3. /\ spiders \in Seq(SpiderType) /\ Me \in 1 .. Len(spiders) /\ Me = Top.spider
      /\ pages \in Nat /\ pools \in Nat /\ UNCHANGED <<table, confset, returned>>
  BY <1>2, TopFacts DEF PageTypeOK, BeginsPage, Me
<1> DEFINE m == [spiders[Me] EXCEPT !.pool = pools + 1, !.eof = FALSE]
<1>4. m \in SpiderType /\ m.conf = spiders[Me].conf /\ m.handle = spiders[Me].handle
  <2> DEFINE q == pools + 1
             l == [spiders[Me] EXCEPT !.pool = q]
  <2>1. spiders[Me] \in SpiderType /\ q \in Nat
    BY <1>3
  <2>2. m = [l EXCEPT !.eof = FALSE]
    OBVIOUS
  <2> HIDE DEF q, m
  <2>3. l \in SpiderType /\ l.conf = spiders[Me].conf /\ l.handle = spiders[Me].handle
    BY <2>1 DEF SpiderType
  <2> HIDE DEF l
  <2> QED BY <2>2, <2>3 DEF SpiderType
<1>5. PICK p : p = pages + 1
  OBVIOUS
<1>6. PICK g : g = [f EXCEPT !.pc = "fetch", !.page = p, !.tries = 3]
  OBVIOUS
<1>7. spiders' = [spiders EXCEPT ![Me] = m] /\ Become(g) /\ pages' = p /\ pools' = pools + 1
  BY <1>1, <1>3, <1>5, <1>6 DEF NextPage
<1>8. p \in Nat /\ pages <= p
  BY <1>3, <1>5
<1>9. g \in FrameType /\ g.spider = Top.spider /\ g.rule = 0 /\ g.pc = "fetch" /\ g.page = p
  BY <1>1, <1>6, <1>8 DEF FrameType, Labels
<1> HIDE DEF m
<1>10. /\ spiders' \in Seq(SpiderType) /\ Len(spiders') = Len(spiders)
       /\ \A s \in 1 .. Len(spiders) : spiders'[s] = IF s = Me THEN m ELSE spiders[s]
  BY <1>3, <1>4, <1>7, SpiderSet
<1>11. Spiders
  BY <1>3, <1>4, <1>10 DEF Spiders
<1>12. FrameOK(g)'
  <2>1. g.spider <= Len(spiders') /\ g.page <= pages'
    BY <1>3, <1>7, <1>8, <1>9, <1>10
  <2> QED BY <1>9, <2>1 DEF FrameOK, AtRule, InRule
<1>13. stack' \in Seq(FrameType) /\ StackInv'
  <2>1. g \in FrameType /\ Become(g) /\ g.spider = Top.spider /\ pages' \in Nat /\ pages <= pages'
    BY <1>7, <1>8, <1>9
  <2> QED BY <1>2, <1>10, <1>11, <1>12, <2>1, BecomeKeeps
<1>14. /\ IsTable(table)' /\ Closed(table, Len(table.name))'
       /\ \A s \in 1 .. Len(spiders') : spiders'[s].handle \in {NULL} \cup Nodes(table')
  BY <1>3, <1>4, <1>10 DEF PageTypeOK
<1>15. pages' \in Nat /\ pools' \in Nat /\ returned' \in Nat
  BY <1>3, <1>7, <1>8 DEF PageTypeOK
<1> QED
  BY <1>3, <1>10, <1>11, <1>13, <1>14, <1>15, ConfsetKept DEF RestTyped

\* A nested spider begins as f, and its caller waits.
LEMMA CallKeeps ==
  ASSUME PageTypeOK, StackInv, stack # <<>>, Spiders, pages' = pages,
         spiders' \in Seq(SpiderType), Top.pc = "spawn",
         NEW k \in 1 .. Len(spiders'), NEW f \in FrameType, \E over \in BOOLEAN : f = [Frame(k) EXCEPT !.over = over],
         stack' = Append(stack, f)
  PROVE  /\ stack' \in Seq(FrameType) /\ Len(stack') = Len(stack) + 1 /\ Depth' = Depth + 1
         /\ \A i \in 1 .. Depth + 1 : stack'[i] = IF i = Depth + 1 THEN f ELSE stack[i]
         /\ StackInv'
<1>1. stack \in Seq(FrameType) /\ Depth = Len(stack) /\ Depth \in Nat \ {0} /\ pages \in Nat
  BY DEF PageTypeOK, Depth
<1>2. stack' \in Seq(FrameType) /\ Len(stack') = Len(stack) + 1
  BY <1>1
<1>3. Depth' = Depth + 1
  BY <1>1, <1>2 DEF Depth
<1>4. \A i \in 1 .. Depth + 1 : stack'[i] = IF i = Depth + 1 THEN f ELSE stack[i]
  BY <1>1
<1>5. f.spider = k /\ f.pc = "scan" /\ f.page = 0 /\ f.rule = 0 /\ f.policy = 0
  BY DEF Frame
<1>6. ASSUME NEW i \in 1 .. Depth' PROVE FrameOK(stack[i])'
  <2>1. CASE i = Depth + 1
    <3>1. stack'[i] = f /\ f.spider <= Len(spiders') /\ f.page <= pages'
      BY <2>1, <1>1, <1>3, <1>4, <1>5
    <3>2. FrameOK(f)'
      BY <3>1, <1>5 DEF FrameOK, AtRule, InRule
    <3> QED BY <3>1, <3>2 DEF FrameOK, ConfOf, RulesOf
  <2>2. CASE i # Depth + 1
    <3>1. PICK g : g = stack[i]
      OBVIOUS
    <3>2. g \in FrameType /\ FrameOK(g) /\ stack'[i] = g
      BY <2>2, <3>1, <1>1, <1>3, <1>4 DEF StackInv
    <3>3. FrameOK(g)'
      BY <3>2, <1>1, FrameKept
    <3> QED BY <3>2, <3>3 DEF FrameOK, ConfOf, RulesOf
  <2> QED BY <2>1, <2>2
<1>7. ASSUME NEW i \in 1 .. Depth' - 1 PROVE stack'[i].pc = "spawn"
  <2>1. i \in 1 .. Depth /\ stack'[i] = stack[i]
    BY <1>1, <1>3, <1>4
  <2>2. i # Depth => i \in 1 .. Depth - 1
    BY <2>1, <1>1
  <2> QED BY <2>1, <2>2, <1>1 DEF StackInv, Top
<1>8. stack'[1].spider = 1
  BY <1>1, <1>4 DEF StackInv
<1> QED
  BY <1>2, <1>3, <1>4, <1>6, <1>7, <1>8 DEF StackInv

\* The configuration of a nested spider is one of a new_spider entry.
LEMMA NestedFacts ==
  ASSUME PageTypeOK, StackInv, Spawning
  PROVE  /\ stack # <<>> /\ Top.pc = "spawn" /\ Rule \in Rules /\ Top.ns \in 1 .. Len(Rule.spiders)
         /\ Nested.conf \in Confs /\ Nested.url \in BOOLEAN
         /\ Spider \in SpiderType /\ Me \in 1 .. Len(spiders)
         /\ Spider.handle \in {NULL} \cup Nodes(table)
<1>1. stack # <<>> /\ Top.pc = "spawn" /\ Top.ns <= Len(Rule.spiders)
  BY DEF Spawning, At
<1>2. Top \in FrameType /\ FrameOK(Top) /\ Spider \in SpiderType /\ Me \in 1 .. Len(spiders)
  BY <1>1, TopFacts
<1>3. Top.rule > 0 /\ Top.ns > 0 /\ Top.ns \in Nat /\ Top.rule <= Len(RulesOf(Top))
  BY <1>1, <1>2 DEF FrameOK, FrameType, AtRule, InRule
<1>4. Rule \in RuleType /\ Rule \in Rules
  BY <1>1, <1>3, RuleFacts
<1>5. Top.ns \in 1 .. Len(Rule.spiders) /\ Rule.spiders \in Seq([conf : Confs, url : BOOLEAN])
  BY <1>1, <1>3, <1>4 DEF RuleType
<1>6. Nested \in [conf : Confs, url : BOOLEAN]
  <2> DEFINE S == [conf : Confs, url : BOOLEAN]
             list == Rule.spiders
  <2>1. list \in Seq(S) /\ Top.ns \in 1 .. Len(list)
    BY <1>5
  <2> HIDE DEF S, list
  <2>2. list[Top.ns] \in S
    BY <2>1
  <2> QED BY <2>2 DEF S, list, Nested
<1>7. Spider.handle \in {NULL} \cup Nodes(table)
  BY <1>2 DEF PageTypeOK, Spider
<1> QED
  BY <1>1, <1>2, <1>4, <1>5, <1>6, <1>7

LEMMA PreparedTyped ==
  ASSUME PageTypeOK, StackInv, Spawning, NEW s \in SpiderType
  PROVE  /\ Prepared(s) \in SpiderType
         /\ Prepared(s).conf = s.conf /\ Prepared(s).handle = Spider.handle /\ Prepared(s).pool = 0
         /\ Prepared(s).starturl = IF Nested.url THEN [pool |-> Spider.pool, freed |-> FALSE] ELSE s.starturl
<1>1. Spider \in SpiderType
  BY NestedFacts
<1> DEFINE h == Spider.handle
           u == IF Nested.url THEN [pool |-> Spider.pool, freed |-> FALSE] ELSE s.starturl
<1>2. h \in Nat /\ u \in [pool : Nat, freed : BOOLEAN]
  BY <1>1 DEF SpiderType
<1>3. Prepared(s) = [s EXCEPT !.starturl = u, !.handle = h, !.pool = 0]
  BY DEF Prepared, SpiderType
<1> HIDE DEF u, h
<1>4. /\ [s EXCEPT !.starturl = u, !.handle = h, !.pool = 0] \in SpiderType
      /\ Prepared(s).conf = s.conf /\ Prepared(s).handle = h /\ Prepared(s).pool = 0
      /\ Prepared(s).starturl = u
  BY <1>2, <1>3 DEF SpiderType
<1> QED
  BY <1>3, <1>4 DEF u, h

\* A spider that ran before runs again.
LEMMA KnownFacts ==
  ASSUME PageTypeOK, StackInv, SpawnKnown
  PROVE  \E k \in 2 .. Len(spiders), f \in FrameType :
           /\ spiders[k].conf = Nested.conf
           /\ spiders' = [spiders EXCEPT ![k] = Prepared(spiders[k])]
           /\ stack' = Append(stack, f) /\ \E over \in BOOLEAN : f = [Frame(k) EXCEPT !.over = over]
<1>1. PICK e \in confset : /\ MayMatch(e)
                           /\ spiders' = [spiders EXCEPT ![e.spider] = Prepared(@)]
                           /\ Call(e.spider)
  BY DEF SpawnKnown
<1>2. PICK over \in BOOLEAN : stack' = Append(stack, [Frame(e.spider) EXCEPT !.over = over])
  BY <1>1 DEF Call
<1>3. e.spider \in 2 .. Len(spiders) /\ spiders[e.spider].conf = e.conf /\ Len(spiders) \in Nat
  BY DEF PageTypeOK
<1> DEFINE k == e.spider
           f == [Frame(k) EXCEPT !.over = over]
<1>4. k \in Nat \ {0}
  BY <1>3
<1>5. f \in FrameType
  <2> HIDE DEF k
  <2> QED BY <1>4 DEF Frame, FrameType, Labels
<1>6. spiders[k].conf = Nested.conf /\ spiders' = [spiders EXCEPT ![k] = Prepared(spiders[k])]
  BY <1>1, <1>3 DEF MayMatch
<1> QED
  BY <1>2, <1>3, <1>5, <1>6

LEMMA TypeSpawnKnown ==
  ASSUME PageTypeOK, StackInv, SpawnKnown
  PROVE  stack' \in Seq(FrameType) /\ StackInv' /\ RestTyped
<1>1. PICK k \in 2 .. Len(spiders), f \in FrameType :
           /\ spiders[k].conf = Nested.conf
           /\ spiders' = [spiders EXCEPT ![k] = Prepared(spiders[k])]
           /\ stack' = Append(stack, f) /\ \E over \in BOOLEAN : f = [Frame(k) EXCEPT !.over = over]
  BY KnownFacts
<1>2. Spawning /\ UNCHANGED <<table, confset, pools, pages, returned>>
  BY DEF SpawnKnown, history
<1>3. /\ stack # <<>> /\ Top.pc = "spawn" /\ Spider.handle \in {NULL} \cup Nodes(table)
      /\ spiders \in Seq(SpiderType) /\ pages \in Nat /\ k \in 1 .. Len(spiders)
  BY <1>2, NestedFacts DEF PageTypeOK
<1> DEFINE m == Prepared(spiders[k])
<1>4. m \in SpiderType /\ m.conf = spiders[k].conf /\ m.handle = Spider.handle
  <2>1. spiders[k] \in SpiderType
    BY <1>3
  <2> QED BY <1>2, <2>1, PreparedTyped
<1>5. spiders' = [spiders EXCEPT ![k] = m]
  BY <1>1
<1> HIDE DEF m
<1>6. /\ spiders' \in Seq(SpiderType) /\ Len(spiders') = Len(spiders)
      /\ \A s \in 1 .. Len(spiders) : spiders'[s] = IF s = k THEN m ELSE spiders[s]
  BY <1>3, <1>4, <1>5, SpiderSet
<1>7. Spiders
  BY <1>3, <1>4, <1>6 DEF Spiders
<1>8. stack' \in Seq(FrameType) /\ StackInv'
  <2>1. pages' = pages /\ k \in 1 .. Len(spiders')
    BY <1>2, <1>3, <1>6
  <2> QED BY <1>1, <1>3, <1>6, <1>7, <2>1, CallKeeps
<1>9. IsTable(table)' /\ Closed(table, Len(table.name))'
  BY <1>2 DEF PageTypeOK
<1>10. ASSUME NEW s \in 1 .. Len(spiders') PROVE spiders'[s].handle \in {NULL} \cup Nodes(table')
  <2>1. spiders[s].handle \in {NULL} \cup Nodes(table) /\ table' = table
    BY <1>2, <1>6 DEF PageTypeOK
  <2> QED BY <2>1, <1>3, <1>4, <1>6
<1>11. pages' \in Nat /\ pools' \in Nat /\ returned' \in Nat
  BY <1>2 DEF PageTypeOK
<1> QED
  BY <1>2, <1>6, <1>7, <1>8, <1>9, <1>10, <1>11, ConfsetKept DEF RestTyped

\* A spider is made.
LEMMA NewFacts ==
  ASSUME PageTypeOK, StackInv, SpawnNew
  PROVE  \E k \in 2 .. Len(spiders) + 1, f \in FrameType, m \in SpiderType :
           /\ k = Len(spiders) + 1
           /\ m.conf = Nested.conf /\ m.handle = Spider.handle /\ m.pool = 0
           /\ m.starturl = IF Nested.url THEN [pool |-> Spider.pool, freed |-> FALSE] ELSE NoUrl
           /\ spiders' = Append(spiders, m)
           /\ table' = Preset(table, NULL, Nested.conf).table
           /\ stack' = Append(stack, f) /\ \E over \in BOOLEAN : f = [Frame(k) EXCEPT !.over = over]
           /\ \A e \in confset' : e \in confset \/ (e.conf = Nested.conf /\ e.spider = k)
<1> DEFINE own == Preset(table, NULL, Nested.conf)
           base == [conf |-> Nested.conf, pool |-> 0, starturl |-> NoUrl, eof |-> FALSE, handle |-> own.root]
           k == Len(spiders) + 1
<1>1. /\ Spawning /\ table' = own.table /\ spiders' = Append(spiders, Prepared(base))
      /\ Call(k)
      /\ \/ confset' = confset \cup {[conf |-> Nested.conf, spider |-> Len(spiders) + 1, pool |-> Spider.pool]}
         \/ confset' = confset
  BY DEF SpawnNew
<1>2. /\ Nested.conf \in Confs /\ Me \in 1 .. Len(spiders) /\ Len(spiders) \in Nat
      /\ IsTable(table) /\ Closed(table, Len(table.name))
  BY <1>1, NestedFacts DEF PageTypeOK
<1>3. own.root \in Nat
  <2> DEFINE t == table  c == Nested.conf
             p == Preset(t, NULL, c)
  <2>1. IsTable(t) /\ Closed(t, Len(t.name)) /\ c \in Confs /\ NULL \in {NULL} \cup Nodes(t)
    BY <1>2
  <2> HIDE DEF t, c
  <2>2. IsTable(p.table) /\ p.root \in {NULL} \cup Nodes(p.table)
    <3> HIDE DEF p
    <3>1. p = Preset(t, NULL, c)
      BY DEF p
    <3> QED BY <2>1, <3>1, PresetWithin
  <2> HIDE DEF p
  <2>3. p.root \in Nat
    BY <2>2 DEF IsTable, Nodes, NULL
  <2> QED BY <2>3 DEF p, t, c
<1> HIDE DEF own
<1>4. base \in SpiderType /\ base.conf = Nested.conf /\ base.starturl = NoUrl
  <2> DEFINE c == Nested.conf  h == own.root
  <2>1. c \in Confs /\ h \in Nat /\ NoUrl \in [pool : Nat, freed : BOOLEAN]
    BY <1>2, <1>3 DEF NoUrl
  <2>2. base = [conf |-> c, pool |-> 0, starturl |-> NoUrl, eof |-> FALSE, handle |-> h]
    OBVIOUS
  <2> HIDE DEF c, h, base
  <2>3. base \in SpiderType /\ base.conf = c /\ base.starturl = NoUrl
    BY <2>1, <2>2 DEF SpiderType
  <2> QED BY <2>3 DEF c
<1> HIDE DEF base
<1> DEFINE m == Prepared(base)
<1>5. /\ m \in SpiderType /\ m.conf = Nested.conf /\ m.handle = Spider.handle /\ m.pool = 0
      /\ m.starturl = IF Nested.url THEN [pool |-> Spider.pool, freed |-> FALSE] ELSE NoUrl
  BY <1>1, <1>4, PreparedTyped
<1>6. PICK over \in BOOLEAN : stack' = Append(stack, [Frame(k) EXCEPT !.over = over])
  BY <1>1 DEF Call
<1> DEFINE f == [Frame(k) EXCEPT !.over = over]
<1>7. k \in 2 .. Len(spiders) + 1 /\ k \in Nat \ {0}
  BY <1>2
<1>8. f \in FrameType
  <2> HIDE DEF k
  <2> QED BY <1>7 DEF Frame, FrameType, Labels
<1>9. \A e \in confset' : e \in confset \/ (e.conf = Nested.conf /\ e.spider = k)
  BY <1>1
<1>10. spiders' = Append(spiders, m) /\ table' = own.table /\ stack' = Append(stack, f)
  BY <1>1, <1>6
<1> HIDE DEF m, f
<1> QED
  BY <1>5, <1>7, <1>8, <1>9, <1>10 DEF own, f

LEMMA TypeSpawnNew ==
  ASSUME PageTypeOK, StackInv, SpawnNew
  PROVE  stack' \in Seq(FrameType) /\ StackInv' /\ RestTyped
<1>1. PICK k \in 2 .. Len(spiders) + 1, f \in FrameType, m \in SpiderType :
           /\ k = Len(spiders) + 1
           /\ m.conf = Nested.conf /\ m.handle = Spider.handle
           /\ spiders' = Append(spiders, m)
           /\ table' = Preset(table, NULL, Nested.conf).table
           /\ stack' = Append(stack, f) /\ \E over \in BOOLEAN : f = [Frame(k) EXCEPT !.over = over]
           /\ \A e \in confset' : e \in confset \/ (e.conf = Nested.conf /\ e.spider = k)
  BY NewFacts
<1>2. Spawning /\ UNCHANGED <<pools, pages, returned>>
  BY DEF SpawnNew, history
<1>3. /\ stack # <<>> /\ Top.pc = "spawn" /\ Spider.handle \in {NULL} \cup Nodes(table)
      /\ spiders \in Seq(SpiderType) /\ pages \in Nat /\ Nested.conf \in Confs
      /\ IsTable(table) /\ Closed(table, Len(table.name))
  BY <1>2, NestedFacts DEF PageTypeOK
<1>4. /\ IsTable(table)' /\ Closed(table, Len(table.name))' /\ Nodes(table) \subseteq Nodes(table')
  <2> DEFINE t == table  c == Nested.conf
             p == Preset(t, NULL, c)
  <2>1. /\ IsTable(t) /\ Closed(t, Len(t.name)) /\ c \in Confs /\ NULL \in {NULL} \cup Nodes(t)
        /\ table' = p.table
    BY <1>1, <1>3
  <2> HIDE DEF t, c
  <2>2. IsTable(p.table) /\ Closed(p.table, Len(p.table.name)) /\ Nodes(t) \subseteq Nodes(p.table)
    <3> HIDE DEF p
    <3>1. p = Preset(t, NULL, c)
      BY DEF p
    <3> QED BY <2>1, <3>1, PresetWithin
  <2> HIDE DEF p
  <2> QED BY <2>1, <2>2 DEF t
<1>5. /\ spiders' \in Seq(SpiderType) /\ Len(spiders') = Len(spiders) + 1 /\ Len(spiders) \in Nat
      /\ \A s \in 1 .. Len(spiders) : spiders'[s] = spiders[s]
      /\ spiders'[k] = m
  BY <1>1, <1>3
<1>6. Spiders
  BY <1>3, <1>5 DEF Spiders
<1>7. stack' \in Seq(FrameType) /\ StackInv'
  <2>1. pages' = pages /\ k \in 1 .. Len(spiders')
    BY <1>1, <1>2, <1>5
  <2> QED BY <1>1, <1>3, <1>5, <1>6, <2>1, CallKeeps
<1>8. ASSUME NEW s \in 1 .. Len(spiders') PROVE spiders'[s].handle \in {NULL} \cup Nodes(table')
  <2>1. CASE s = k
    BY <2>1, <1>1, <1>3, <1>4, <1>5
  <2>2. CASE s # k
    <3>1. s \in 1 .. Len(spiders)
      BY <2>2, <1>1, <1>5
    <3>2. spiders[s].handle \in {NULL} \cup Nodes(table)
      BY <3>1 DEF PageTypeOK
    <3> QED BY <3>1, <3>2, <1>4, <1>5
  <2> QED BY <2>1, <2>2
<1>9. ASSUME NEW e \in confset'
      PROVE  e.conf \in Confs /\ e.spider \in 2 .. Len(spiders') /\ spiders'[e.spider].conf = e.conf
  <2>1. CASE e \in confset
    <3>1. e.conf \in Confs /\ e.spider \in 2 .. Len(spiders) /\ spiders[e.spider].conf = e.conf
      BY <2>1 DEF PageTypeOK
    <3> QED BY <3>1, <1>5
  <2>2. CASE e.conf = Nested.conf /\ e.spider = k
    BY <2>2, <1>1, <1>3, <1>5
  <2> QED BY <2>1, <2>2, <1>1
<1>10. pages' \in Nat /\ pools' \in Nat /\ returned' \in Nat
  BY <1>2 DEF PageTypeOK
<1> QED
  BY <1>4, <1>5, <1>7, <1>8, <1>9, <1>10 DEF RestTyped

\* The run of the innermost spider is over, and its caller goes on as f.
GoesBack(f) == Depth # 1 /\ stack' = [Front(stack) EXCEPT ![Depth - 1] = f]

\* The run of the innermost spider ends.
LEMMA ReturnFacts ==
  ASSUME PageTypeOK, StackInv, RunEnds
  PROVE  /\ stack # <<>> /\ Top.pc = "exit"
         /\ UNCHANGED <<table, confset, live, pools, pages>> /\ returned' = returned + 1
         /\ \E m \in SpiderType :
              /\ spiders' = [spiders EXCEPT ![Me] = m]
              /\ m.conf = Spider.conf /\ m.handle = Spider.handle /\ m.pool = Spider.pool
              /\ m.starturl # NoUrl => Spider.starturl # NoUrl
         /\ Depth = 1 => stack' = <<>>
         /\ Depth # 1 => \E f \in FrameType :
              /\ GoesBack(f)
              /\ f.pc = "spawn" /\ f.ns > 0
              /\ f.spider = stack[Depth - 1].spider /\ f.page = stack[Depth - 1].page
              /\ f.policy = stack[Depth - 1].policy /\ f.rule = stack[Depth - 1].rule
<1>1. PICK o : Return(o)
  BY DEF RunEnds
<1>2. stack # <<>> /\ Top.pc = "exit"
  BY DEF RunEnds, At
<1>3. /\ Depth \in Nat \ {0} /\ Depth = Len(stack) /\ stack \in Seq(FrameType)
      /\ spiders \in Seq(SpiderType) /\ Me \in 1 .. Len(spiders) /\ Spider \in SpiderType
  BY <1>2, TopFacts DEF PageTypeOK
<1>4. UNCHANGED <<table, confset, live, pools, pages>> /\ returned' = returned + 1
  BY <1>1 DEF Return
<1>5. Depth = 1 => stack' = <<>>
  BY <1>1 DEF Return
<1>6. \E m \in SpiderType :
        /\ spiders' = [spiders EXCEPT ![Me] = m]
        /\ m.conf = Spider.conf /\ m.handle = Spider.handle /\ m.pool = Spider.pool
        /\ m.starturl # NoUrl => Spider.starturl # NoUrl
  <2>1. CASE spiders' = spiders
    <3>1. spiders' = [spiders EXCEPT ![Me] = Spider]
      BY <2>1, <1>3 DEF Spider
    <3> QED BY <3>1, <1>3
  <2>2. CASE spiders' = [spiders EXCEPT ![Me].starturl.freed = TRUE] /\ Spider.starturl # NoUrl
    <3> DEFINE u == [Spider.starturl EXCEPT !.freed = TRUE]
               m == [Spider EXCEPT !.starturl = u]
    <3>1. spiders' = [spiders EXCEPT ![Me] = m]
      BY <2>2 DEF Spider
    <3>2. u \in [pool : Nat, freed : BOOLEAN]
      BY <1>3 DEF SpiderType
    <3> HIDE DEF u
    <3>3. m \in SpiderType /\ m.conf = Spider.conf /\ m.handle = Spider.handle /\ m.pool = Spider.pool
      BY <1>3, <3>2 DEF SpiderType
    <3> HIDE DEF m
    <3> QED BY <2>2, <3>1, <3>3
  <2> QED BY <1>1, <2>1, <2>2 DEF Return
<1>7. ASSUME Depth # 1
      PROVE  \E f \in FrameType :
              /\ GoesBack(f)
              /\ f.pc = "spawn" /\ f.ns > 0
              /\ f.spider = stack[Depth - 1].spider /\ f.page = stack[Depth - 1].page
              /\ f.policy = stack[Depth - 1].policy /\ f.rule = stack[Depth - 1].rule
  <2> DEFINE g == stack[Depth - 1]
             k == g.ns + 1
             f == [g EXCEPT !.ns = k]
  <2>1. Depth - 1 \in 1 .. Depth - 1 /\ Depth - 1 \in 1 .. Len(stack)
    BY <1>3, <1>7
  <2>2. g \in FrameType /\ g.pc = "spawn"
    BY <1>3, <2>1 DEF StackInv
  <2>3. k \in Nat /\ k > 0
    BY <2>2 DEF FrameType
  <2>4. stack' = [Front(stack) EXCEPT ![Depth - 1] = f]
    <3>1. stack' = [Front(stack) EXCEPT ![Depth - 1].ns = @ + 1]
      BY <1>1, <1>7 DEF Return
    <3>2. Front(stack)[Depth - 1] = g
      BY <1>3, <2>1 DEF Front
    <3> QED BY <3>1, <3>2
  <2> HIDE DEF g, k
  <2>5. /\ f \in FrameType /\ f.pc = "spawn" /\ f.ns > 0 /\ f.spider = g.spider
        /\ f.page = g.page /\ f.policy = g.policy /\ f.rule = g.rule
    BY <2>2, <2>3 DEF FrameType
  <2> HIDE DEF f
  <2> QED BY <1>7, <2>4, <2>5 DEF g, GoesBack
<1> QED
  BY <1>2, <1>4, <1>5, <1>6, <1>7

\* A sequence without its last element, the one before it replaced.
Shortened(seq, c, e) == [Front(seq) EXCEPT ![c] = e]

LEMMA ShortenedIs ==
  ASSUME NEW S, NEW seq \in Seq(S), NEW c \in Nat \ {0}, Len(seq) = c + 1, NEW e \in S,
         NEW r, r = Shortened(seq, c, e)
  PROVE  r \in Seq(S) /\ Len(r) = c /\ \A i \in 1 .. c : r[i] = IF i = c THEN e ELSE seq[i]
<1>1. Front(seq) = [i \in 1 .. c |-> seq[i]]
  BY DEF Front
<1>2. r = [i \in 1 .. c |-> IF i = c THEN e ELSE seq[i]]
  BY <1>1 DEF Shortened
<1>3. \A i \in 1 .. c : (IF i = c THEN e ELSE seq[i]) \in S
  OBVIOUS
<1>4. r \in Seq(S)
  <2>1. r \in [1 .. c -> S]
    BY <1>2, <1>3
  <2> QED BY <2>1, SeqDef
<1>5. Len(r) = c
  BY <1>2
<1> QED
  BY <1>2, <1>4, <1>5

\* The caller goes on.
LEMMA ReturnKeeps ==
  ASSUME PageTypeOK, StackInv, stack # <<>>, NEW f \in FrameType, GoesBack(f)
  PROVE  /\ stack' \in Seq(FrameType) /\ Len(stack') = Depth - 1 /\ Depth' = Depth - 1
         /\ Depth - 1 \in Nat \ {0}
         /\ \A i \in 1 .. Depth - 1 : stack'[i] = IF i = Depth - 1 THEN f ELSE stack[i]
<1>1. stack \in Seq(FrameType) /\ Depth = Len(stack) /\ Depth \in Nat \ {0} /\ Depth - 1 \in Nat \ {0}
  BY TopFacts DEF PageTypeOK, GoesBack
<1>2. PICK c \in Nat \ {0} : c = Depth - 1 /\ Len(stack) = c + 1
  BY <1>1
<1>3. stack' = Shortened(stack, c, f)
  BY <1>2 DEF GoesBack, Shortened
<1>4. /\ stack' \in Seq(FrameType) /\ Len(stack') = c
      /\ \A i \in 1 .. c : stack'[i] = IF i = c THEN f ELSE stack[i]
  BY <1>1, <1>2, <1>3, ShortenedIs
<1> QED
  BY <1>1, <1>2, <1>4 DEF Depth

LEMMA TypeReturn ==
  ASSUME PageTypeOK, StackInv, RunEnds
  PROVE  stack' \in Seq(FrameType) /\ StackInv' /\ RestTyped
<1>1. /\ stack # <<>> /\ Top.pc = "exit"
      /\ UNCHANGED <<table, confset, live, pools, pages>> /\ returned' = returned + 1
  BY ReturnFacts
<1>2. PICK m \in SpiderType :
        spiders' = [spiders EXCEPT ![Me] = m] /\ m.conf = Spider.conf /\ m.handle = Spider.handle
  BY ReturnFacts
<1>3. /\ spiders \in Seq(SpiderType) /\ Me \in 1 .. Len(spiders) /\ stack \in Seq(FrameType)
      /\ Depth \in Nat \ {0} /\ pages \in Nat
  BY <1>1, TopFacts DEF PageTypeOK
<1>4. /\ spiders' \in Seq(SpiderType) /\ Len(spiders') = Len(spiders)
      /\ \A s \in 1 .. Len(spiders) : spiders'[s] = IF s = Me THEN m ELSE spiders[s]
  BY <1>2, <1>3, SpiderSet
<1>5. Spiders
  BY <1>2, <1>3, <1>4 DEF Spiders, Spider
<1>6. stack' \in Seq(FrameType) /\ StackInv'
  <2>1. CASE Depth = 1
    <3>1. stack' = <<>>
      BY <2>1, ReturnFacts
    <3>2. Depth' = 0
      BY <3>1 DEF Depth
    <3> QED BY <3>1, <3>2 DEF StackInv
  <2>2. CASE Depth # 1
    <3> DEFINE c == Depth - 1
    <3>1. PICK f \in FrameType :
            /\ GoesBack(f)
            /\ f.pc = "spawn" /\ f.ns > 0
            /\ f.spider = stack[Depth - 1].spider /\ f.page = stack[Depth - 1].page
            /\ f.policy = stack[Depth - 1].policy /\ f.rule = stack[Depth - 1].rule
      BY <2>2, ReturnFacts
    <3>2. /\ stack' \in Seq(FrameType) /\ Depth' = c /\ c \in Nat \ {0}
          /\ \A i \in 1 .. c : stack'[i] = IF i = c THEN f ELSE stack[i]
      BY <1>1, <2>2, <3>1, ReturnKeeps
    <3>3. c \in 1 .. c /\ c \in 1 .. Depth - 1 /\ c \in 1 .. Depth /\ c < Depth
      BY <1>3, <3>2
    <3>4. FrameOK(stack[c]) /\ stack[c].pc = "spawn" /\ stack[c] \in FrameType
      BY <1>3, <3>3 DEF StackInv, Depth
    <3>5. FrameOK(f)
      BY <3>1, <3>4 DEF FrameOK, ConfOf, RulesOf, AtRule, InRule
    <3> HIDE DEF c
    <3>6. ASSUME NEW i \in 1 .. Depth' PROVE FrameOK(stack[i])'
      <4>1. PICK g : g = stack'[i]
        OBVIOUS
      <4>2. g \in FrameType /\ FrameOK(g)
        <5>1. i \in 1 .. Depth
          BY <3>2, <3>3, <1>3
        <5> QED BY <4>1, <5>1, <3>2, <3>5, <1>3 DEF StackInv, Depth
      <4>3. FrameOK(g)'
        BY <4>2, <1>1, <1>3, <1>4, <1>5, FrameKept
      <4> QED BY <4>1, <4>3 DEF FrameOK, ConfOf, RulesOf
    <3>7. ASSUME NEW i \in 1 .. Depth' - 1 PROVE stack'[i].pc = "spawn"
      <4>1. i \in 1 .. c /\ i # c /\ i \in 1 .. Depth - 1
        BY <3>2, <3>3, <1>3
      <4> QED BY <4>1, <3>2 DEF StackInv
    <3>8. stack'[1].spider = 1
      <4>1. stack[1].spider = 1
        BY <1>1 DEF StackInv
      <4>2. 1 \in 1 .. c
        BY <3>2
      <4> QED BY <3>1, <3>2, <4>1, <4>2 DEF c
    <3> QED BY <3>2, <3>6, <3>7, <3>8 DEF StackInv
  <2> QED BY <2>1, <2>2
<1>7. IsTable(table)' /\ Closed(table, Len(table.name))'
  BY <1>1 DEF PageTypeOK
<1>8. ASSUME NEW s \in 1 .. Len(spiders') PROVE spiders'[s].handle \in {NULL} \cup Nodes(table')
  <2>1. spiders[s].handle \in {NULL} \cup Nodes(table) /\ table' = table
    BY <1>1, <1>4 DEF PageTypeOK
  <2>2. s = Me => m.handle = spiders[s].handle
    BY <1>2 DEF Spider
  <2> QED BY <2>1, <2>2, <1>4
<1>9. pages' \in Nat /\ pools' \in Nat /\ returned' \in Nat
  BY <1>1 DEF PageTypeOK
<1> QED
  BY <1>1, <1>4, <1>5, <1>6, <1>7, <1>8, <1>9, ConfsetKept DEF RestTyped

\* Once the first spider has returned nothing happens.
LEMMA Stops ==
  ASSUME [Next]_vars, stack = <<>>
  PROVE  UNCHANGED vars
BY DEF Next, At, Triggering, Spawning, ScanUrl, CopyStartUrl, ScanEof, FetchOk, FetchFails,
       FetchGivesUp, PolicyApplies, PolicyOutOfRange, PoliciesDone, RulesDone, RuleRepeated,
       NoMatch, ClearVar, Cleared, Match, Capture, NotUnique, Unique, NoUniq, Trigger,
       TriggerUnheard, TriggersDone, SpawnKnown, SpawnNew, SpawnsDone, EndMatch, OverLimit,
       UnderLimit, ExitOverLimit, ExitAtEof, TryAgain, Ended

LEMMA TypeKept ==
  ASSUME PageTypeOK, StackInv, [Next]_vars
  PROVE  PageTypeOK' /\ StackInv'
<1>1. CASE UNCHANGED vars
  BY <1>1 DEF vars, memory, history, PageTypeOK, StackInv, Depth, FrameOK, ConfOf, RulesOf
<1>2. CASE ~ UNCHANGED vars
  <2>1. stack # <<>>
    BY <1>2, Stops
  <2>2. stack' \in Seq(FrameType) /\ StackInv' /\ RestTyped
    BY <1>2, <2>1, Steps, TypeMovesOn, TypeSets, TypeBegins, TypeSpawnKnown, TypeSpawnNew, TypeReturn
  <2> QED BY <2>2, CountersTyped DEF PageTypeOK, RestTyped
<1> QED
  BY <1>1, <1>2

LEMMA EmptyFacts == IsTable(EmptyTable) /\ Len(EmptyTable.name) = 0 /\ Holds(EmptyTable, NULL, <<>>)
<1> DEFINE t == EmptyTable  w == <<>>
<1>1. IsTable(t)
  BY DEF EmptyTable, IsTable
<1>2. Len(t.name) = 0
  BY DEF EmptyTable
<1>3. w \in Seq(Nodes(t)) /\ Len(w) = 0
  OBVIOUS
<1> HIDE DEF t, w
<1>4. /\ Len(w) <= Len(t.name) /\ NULL = IF Len(w) = 0 THEN NULL ELSE w[1]
      /\ \A i, j \in 1 .. Len(w) : w[i] = w[j] => i = j
      /\ \A i, j \in 1 .. Len(w) : t.name[w[i]] = t.name[w[j]] => i = j
      /\ \A i \in 1 .. Len(w) : t.next[w[i]] = w[IF i = Len(w) THEN 1 ELSE i + 1]
      /\ \A i \in 1 .. Len(w) : t.prev[w[i]] = w[IF i = 1 THEN Len(w) ELSE i - 1]
  BY <1>2, <1>3
<1>5. Holds(t, NULL, w)
  BY <1>1, <1>3, <1>4, HoldsIf
<1> QED
  BY <1>1, <1>2, <1>5 DEF t, w

\* The table of the first thread before its presets: the sentinel alone.
Alone == LinkAppend(VarCreate(EmptyTable, Blank, Blank, 0), NULL, Sentinel).table

LEMMA AloneFacts ==
  /\ IsTable(Alone) /\ Len(Alone.name) = 1 /\ Closed(Alone, 1)
  /\ Alone.name[Sentinel] = Blank
  /\ Holds(Alone, Sentinel, <<Sentinel>>)
<1> DEFINE made == VarCreate(EmptyTable, Blank, Blank, 0)
           r == LinkAppend(made, NULL, 1)
<1>1. Blank \in String
  BY StringAssumption
<1>2. /\ made = [next |-> <<NULL>>, prev |-> <<NULL>>, name |-> <<Blank>>, text |-> <<Blank>>, born |-> <<0>>]
  BY DEF VarCreate, EmptyTable
<1>3. IsTable(made) /\ Len(made.name) = 1 /\ made.name[1] = Blank
  <2>1. <<NULL>> \in Seq(Nat) /\ <<0>> \in Seq(Nat) /\ <<Blank>> \in Seq(String)
    BY <1>1 DEF NULL
  <2> HIDE DEF made
  <2> QED BY <1>2, <2>1 DEF IsTable
<1> HIDE DEF made
<1>4. r.table = Linked(made, 1, 1, 1, 1) /\ r.root = 1
  <2>1. PICK item, q : item = 1 /\ q = r
    OBVIOUS
  <2> HIDE DEF r
  <2>2. NULL = NULL /\ q = LinkAppend(made, NULL, item)
    BY <2>1 DEF r
  <2>3. q.table = Linked(made, item, item, item, item) /\ q.root = item
    BY <1>3, <2>2, AppendLinks
  <2> QED BY <2>1, <2>3
<1> HIDE DEF r
<1>5. /\ IsTable(r.table) /\ r.table.name = made.name
      /\ r.table.next[1] = 1 /\ r.table.prev[1] = 1
  <2>1. 1 \in Nodes(made)
    BY <1>3 DEF Nodes
  <2>2. IsTable(r.table) /\ r.table.name = made.name /\ Relinked(r.table, made, 1, 1, 1, 1)
    BY <1>3, <1>4, <2>1, SetLinks
  <2> QED BY <2>1, <2>2 DEF Relinked
<1>6. Closed(r.table, 1)
  BY <1>5 DEF Closed
<1> DEFINE a == r.table  w == <<1>>
<1>7. Holds(a, 1, w)
  <2>1. IsTable(a) /\ Len(a.name) = 1 /\ a.next[1] = 1 /\ a.prev[1] = 1
    BY <1>3, <1>5
  <2> HIDE DEF a
  <2>2. Len(w) = 1 /\ w[1] = 1 /\ w \in Seq(Nodes(a))
    BY <2>1 DEF Nodes
  <2> HIDE DEF w
  <2>3. /\ Len(w) <= Len(a.name) /\ 1 = IF Len(w) = 0 THEN NULL ELSE w[1]
        /\ \A i, j \in 1 .. Len(w) : w[i] = w[j] => i = j
        /\ \A i, j \in 1 .. Len(w) : a.name[w[i]] = a.name[w[j]] => i = j
        /\ \A i \in 1 .. Len(w) : a.next[w[i]] = w[IF i = Len(w) THEN 1 ELSE i + 1]
        /\ \A i \in 1 .. Len(w) : a.prev[w[i]] = w[IF i = 1 THEN Len(w) ELSE i - 1]
    BY <2>1, <2>2
  <2> QED BY <2>1, <2>2, <2>3, HoldsIf
<1> QED
  BY <1>3, <1>5, <1>6, <1>7 DEF Alone, Sentinel, r, made, a, w

LEMMA FirstTableTyped ==
  /\ IsTable(FirstTable.table) /\ Closed(FirstTable.table, Len(FirstTable.table.name))
  /\ FirstTable.root \in {NULL} \cup Nodes(FirstTable.table)
<1>1. MainConf \in Confs
  BY PageAssumption
<1>2. CASE FirstThread
  <2> DEFINE t == Alone  root == Sentinel
             p == Preset(t, root, MainConf)
  <2>1. FirstTable = p
    BY <1>2 DEF FirstTable, Alone, Sentinel
  <2>2. IsTable(t) /\ Closed(t, Len(t.name)) /\ root \in {NULL} \cup Nodes(t)
    <3> HIDE DEF t
    <3>1. IsTable(t) /\ Len(t.name) = 1 /\ Closed(t, 1)
      BY AloneFacts DEF t
    <3> QED BY <3>1 DEF Nodes, Sentinel
  <2> HIDE DEF t, root, p
  <2>3. p = Preset(t, root, MainConf)
    BY DEF p
  <2>4. IsTable(p.table) /\ Closed(p.table, Len(p.table.name)) /\ p.root \in {NULL} \cup Nodes(p.table)
    BY <1>1, <2>2, <2>3, PresetWithin
  <2> QED BY <2>1, <2>4
<1>3. CASE ~ FirstThread
  <2> DEFINE t == EmptyTable  root == NULL
             p == Preset(t, root, MainConf)
  <2>1. FirstTable = p
    BY <1>3 DEF FirstTable
  <2>2. IsTable(t) /\ Closed(t, Len(t.name)) /\ root \in {NULL} \cup Nodes(t)
    BY EmptyFacts DEF Closed
  <2> HIDE DEF t, root, p
  <2>3. p = Preset(t, root, MainConf)
    BY DEF p
  <2>4. IsTable(p.table) /\ Closed(p.table, Len(p.table.name)) /\ p.root \in {NULL} \cup Nodes(p.table)
    BY <1>1, <2>2, <2>3, PresetWithin
  <2> QED BY <2>1, <2>4
<1> QED
  BY <1>2, <1>3

LEMMA InitFacts ==
  ASSUME Init
  PROVE  /\ Depth = 1 /\ Top = Frame(1) /\ stack[1] = Frame(1) /\ stack # <<>>
         /\ Len(spiders) = 1 /\ Me = 1
         /\ spiders[1].conf = MainConf /\ spiders[1].pool = 0 /\ spiders[1].starturl = NoUrl
         /\ spiders[1].handle = FirstTable.root /\ Spider = spiders[1] /\ Conf = MainConf
BY DEF Init, Depth, Top, Me, Spider, Conf, Frame

LEMMA TypeInit ==
  ASSUME Init
  PROVE  PageTypeOK /\ StackInv
<1>1. Frame(1) \in FrameType /\ Frame(1).spider = 1 /\ Frame(1).pc = "scan"
      /\ Frame(1).page = 0 /\ Frame(1).rule = 0
  BY DEF Frame, FrameType, Labels
<1>2. stack \in Seq(FrameType)
  BY <1>1 DEF Init
<1>3. FirstTable.root \in Nat
  BY FirstTableTyped DEF IsTable, Nodes, NULL
<1>4. spiders \in Seq(SpiderType)
  <2> DEFINE m == [conf |-> MainConf, pool |-> 0, starturl |-> NoUrl, eof |-> FALSE,
                   handle |-> FirstTable.root]
  <2>1. m \in SpiderType
    <3> DEFINE h == FirstTable.root  u == NoUrl  c == MainConf
    <3>1. c \in Confs /\ u \in [pool : Nat, freed : BOOLEAN] /\ h \in Nat
      BY <1>3, PageAssumption DEF NoUrl
    <3> HIDE DEF h, u, c
    <3>2. [conf |-> c, pool |-> 0, starturl |-> u, eof |-> FALSE, handle |-> h] \in SpiderType
      BY <3>1 DEF SpiderType
    <3> QED BY <3>2 DEF h, u, c
  <2>2. spiders = <<m>>
    BY DEF Init
  <2> HIDE DEF m
  <2> QED BY <2>1, <2>2
<1>5. /\ IsTable(table) /\ Closed(table, Len(table.name))
      /\ \A s \in 1 .. Len(spiders) : spiders[s].handle \in {NULL} \cup Nodes(table)
  <2>1. \A s \in 1 .. Len(spiders) : s = 1
    <3>1. Len(spiders) = 1
      BY InitFacts
    <3> QED BY <3>1
  <2> QED BY <2>1, FirstTableTyped, InitFacts DEF Init
<1>6. /\ line \in Nat /\ pages \in Nat /\ pools \in Nat /\ returned \in Nat
      /\ wiped = FALSE /\ confset = {}
  BY DEF Init
<1>7. FrameOK(stack[1])
  <2>1. PICK f : f = stack[1]
    OBVIOUS
  <2>2. f = Frame(1) /\ pages = 0 /\ Len(spiders) = 1
    BY <2>1, InitFacts DEF Init
  <2>3. f.spider <= Len(spiders) /\ f.page <= pages /\ f.rule = 0 /\ f.pc = "scan"
    BY <1>1, <2>2
  <2>4. f.pc # "policy" /\ f.pc \notin AtRule /\ f.pc \notin InRule /\ f.pc # "rule"
    BY <2>3 DEF AtRule, InRule
  <2>5. f.pc \notin {"clear", "cap"} /\ f.pc \notin {"trigger", "spawn"}
    BY <2>3
  <2>6. ~ (f.rule > 0)
    BY <2>3
  <2>7. FrameOK(f)
    BY <2>3, <2>4, <2>5, <2>6 DEF FrameOK
  <2> QED BY <2>1, <2>7
<1>8. StackInv
  BY <1>1, <1>7, InitFacts DEF StackInv
<1> QED
  BY <1>2, <1>4, <1>5, <1>6, <1>8 DEF PageTypeOK

\* The state of a thread at work on its pages (main.c:67-91, sf_pcre.h:50-63) has its
\* type, and the frames of the running spiders are in order: all but the innermost
\* wait in sf_pcre_perform for the spider they started, each at a rule and a policy of
\* its own configuration.
THEOREM PageTypes == Spec => [](PageTypeOK /\ StackInv)
<1>1. Init => PageTypeOK /\ StackInv
  BY TypeInit
<1>2. (PageTypeOK /\ StackInv) /\ [Next]_vars => (PageTypeOK /\ StackInv)'
  BY TypeKept
<1> QED
  BY <1>1, <1>2, PTL DEF Spec

----------------------------------------------------------------------------
(* What a step does to the stack and to the spiders, for the invariants.   *)

\* The innermost spider goes on as f.
StackBecomes(f) ==
  /\ Depth' = Depth /\ stack' # <<>>
  /\ \A i \in 1 .. Depth : stack'[i] = IF i = Depth THEN f ELSE stack[i]

\* It starts a nested one.
StackGrows(f) ==
  /\ Depth' = Depth + 1 /\ stack' # <<>>
  /\ \A i \in 1 .. Depth + 1 : stack'[i] = IF i = Depth + 1 THEN f ELSE stack[i]

\* Its run is over: frames of the others are left.
StackShrinks ==
  /\ Depth' = Depth - 1
  /\ \A i \in 1 .. Depth - 1 :
       /\ stack'[i].spider = stack[i].spider /\ stack'[i].pc = stack[i].pc
       /\ stack'[i].page = stack[i].page /\ stack'[i].policy = stack[i].policy
       /\ stack'[i].rule = stack[i].rule

\* All spiders keep what they have, but for the handle of the innermost.
SpidersAlike ==
  /\ Len(spiders') = Len(spiders)
  /\ \A s \in 1 .. Len(spiders) :
       /\ spiders'[s].conf = spiders[s].conf
       /\ spiders'[s].pool = spiders[s].pool
       /\ spiders'[s].starturl = spiders[s].starturl
       /\ s # Me => spiders'[s].handle = spiders[s].handle

LEMMA BecomeIs ==
  ASSUME PageTypeOK, stack # <<>>, NEW f \in FrameType, Become(f)
  PROVE  StackBecomes(f)
<1>1. stack \in Seq(FrameType) /\ Depth = Len(stack) /\ Depth \in 1 .. Len(stack)
  BY DEF PageTypeOK, Depth
<1>2. stack' = [stack EXCEPT ![Depth] = f]
  BY DEF Become
<1>3. stack' \in Seq(FrameType) /\ Len(stack') = Len(stack)
  BY <1>1, <1>2, ExceptSeq
<1>4. \A i \in 1 .. Depth : stack'[i] = IF i = Depth THEN f ELSE stack[i]
  <2>1. DOMAIN stack = 1 .. Depth
    BY <1>1
  <2> QED BY <1>2, <2>1
<1>5. Depth' = Depth /\ stack' # <<>>
  BY <1>1, <1>3 DEF Depth
<1> QED
  BY <1>4, <1>5 DEF StackBecomes

LEMMA CallIs ==
  ASSUME PageTypeOK, NEW f \in FrameType, stack' = Append(stack, f)
  PROVE  StackGrows(f)
<1>1. stack \in Seq(FrameType) /\ Depth = Len(stack) /\ Depth \in Nat
  BY DEF PageTypeOK, Depth
<1>2. stack' \in Seq(FrameType) /\ Len(stack') = Len(stack) + 1
  BY <1>1
<1>3. \A i \in 1 .. Depth + 1 : stack'[i] = IF i = Depth + 1 THEN f ELSE stack[i]
  BY <1>1
<1>4. Depth' = Depth + 1 /\ stack' # <<>>
  BY <1>1, <1>2 DEF Depth
<1> QED
  BY <1>3, <1>4 DEF StackGrows

LEMMA MoveFacts ==
  ASSUME PageTypeOK, StackInv, stack # <<>>, MovesOn
  PROVE  /\ \E f \in FrameType : /\ GoesOn(f) /\ StackBecomes(f)
                                 /\ \A name : Done(f, name) => Done(Top, name)
         /\ SpidersAlike /\ spiders'[Me].handle = Spider.handle
         /\ UNCHANGED <<table, confset, live, pools, pages, returned>>
<1>1. PICK f \in FrameType : GoesOn(f) /\ \A name : Done(f, name) => Done(Top, name)
  BY DEF MovesOn
<1>2. /\ spiders \in Seq(SpiderType) /\ Me \in 1 .. Len(spiders)
      /\ UNCHANGED <<table, confset, live, pools, pages, returned>>
  BY TopFacts DEF PageTypeOK, MovesOn
<1>3. StackBecomes(f)
  BY <1>1, BecomeIs DEF GoesOn
<1>4. SpidersAlike /\ spiders'[Me].handle = Spider.handle
  <2>1. CASE spiders' = spiders
    BY <2>1 DEF SpidersAlike, Spider
  <2>2. CASE spiders' = [spiders EXCEPT ![Me].eof = TRUE]
    <3> DEFINE m == [spiders[Me] EXCEPT !.eof = TRUE]
    <3>1. /\ m \in SpiderType /\ m.conf = spiders[Me].conf /\ m.handle = spiders[Me].handle
          /\ m.pool = spiders[Me].pool /\ m.starturl = spiders[Me].starturl
      <4>1. spiders[Me] \in SpiderType
        BY <1>2
      <4> QED BY <4>1 DEF SpiderType
    <3>2. spiders' = [spiders EXCEPT ![Me] = m]
      BY <2>2
    <3> HIDE DEF m
    <3>3. /\ Len(spiders') = Len(spiders)
          /\ \A s \in 1 .. Len(spiders) : spiders'[s] = IF s = Me THEN m ELSE spiders[s]
      BY <1>2, <3>1, <3>2, SpiderSet
    <3> QED BY <1>2, <3>1, <3>3 DEF SpidersAlike, Spider
  <2> QED BY <2>1, <2>2 DEF MovesOn
<1> QED
  BY <1>1, <1>2, <1>3, <1>4

LEMMA SetFacts ==
  ASSUME PageTypeOK, StackInv, stack # <<>>, SetsVariable
  PROVE  /\ \E f \in FrameType, name \in DOMAIN Text :
              /\ GoesOn(f) /\ StackBecomes(f)
              /\ \A x : Done(f, x) => Done(Top, x) \/ x = name
              /\ \E r : Puts(r, name) /\ table' = r.table /\ spiders'[Me].handle = r.root
         /\ SpidersAlike
         /\ UNCHANGED <<confset, live, pools, pages, returned>>
<1>1. PICK f \in FrameType, name \in DOMAIN Text :
        GoesOn(f) /\ (\A x : Done(f, x) => Done(Top, x) \/ x = name) /\ \E r : Puts(r, name)
  BY DEF SetsVariable
<1>2. PICK r : Puts(r, name)
  BY <1>1
<1>3. /\ spiders \in Seq(SpiderType) /\ Me \in 1 .. Len(spiders)
      /\ UNCHANGED <<confset, live, pools, pages, returned>>
  BY TopFacts DEF PageTypeOK, SetsVariable
<1>4. StackBecomes(f)
  BY <1>1, BecomeIs DEF GoesOn
<1>5. r.root \in Nat
  <2>1. IsTable(r.table) /\ r.root \in {NULL} \cup Nodes(r.table)
    BY <1>2, PutsWithin
  <2> QED BY <2>1 DEF IsTable, Nodes, NULL
<1> DEFINE m == [spiders[Me] EXCEPT !.handle = r.root]
<1>6. /\ m \in SpiderType /\ m.conf = spiders[Me].conf /\ m.handle = r.root
      /\ m.pool = spiders[Me].pool /\ m.starturl = spiders[Me].starturl
  <2>1. spiders[Me] \in SpiderType
    BY <1>3
  <2> QED BY <1>5, <2>1 DEF SpiderType
<1>7. spiders' = [spiders EXCEPT ![Me] = m] /\ table' = r.table
  BY <1>2 DEF Puts
<1> HIDE DEF m
<1>8. /\ Len(spiders') = Len(spiders)
      /\ \A s \in 1 .. Len(spiders) : spiders'[s] = IF s = Me THEN m ELSE spiders[s]
  BY <1>3, <1>6, <1>7, SpiderSet
<1>9. SpidersAlike /\ spiders'[Me].handle = r.root
  BY <1>3, <1>6, <1>8 DEF SpidersAlike
<1> QED
  BY <1>1, <1>2, <1>3, <1>4, <1>7, <1>9

LEMMA BeginFacts ==
  ASSUME PageTypeOK, StackInv, BeginsPage
  PROVE  /\ stack # <<>> /\ Top.pc = "scan"
         /\ \E f \in FrameType : /\ f.spider = Top.spider /\ f.pc = "fetch" /\ f.rule = 0
                                 /\ f.page = pages' /\ StackBecomes(f)
         /\ Len(spiders') = Len(spiders)
         /\ \E m \in SpiderType :
              /\ m.conf = Spider.conf /\ m.handle = Spider.handle /\ m.starturl = Spider.starturl
              /\ m.pool = pools + 1
              /\ \A s \in 1 .. Len(spiders) : spiders'[s] = IF s = Me THEN m ELSE spiders[s]
         /\ pools' = pools + 1 /\ live' = (live \ {Spider.pool}) \cup {pools + 1}
         /\ pages' = pages + 1 /\ UNCHANGED <<table, confset, returned>>
<1>1. PICK f \in FrameType : f.spider = Top.spider /\ f.rule = 0 /\ NextPage(f)
  BY DEF BeginsPage
<1>2. stack # <<>> /\ Top.pc = "scan"
  BY DEF BeginsPage, At
<1>3. /\ spiders \in Seq(SpiderType) /\ Me \in 1 .. Len(spiders) /\ Spider = spiders[Me]
      /\ pages \in Nat /\ pools \in Nat /\ UNCHANGED <<table, confset, returned>>
  BY <1>2, TopFacts DEF PageTypeOK, BeginsPage, Spider
<1> DEFINE q == pools + 1
           l == [spiders[Me] EXCEPT !.pool = q]
           m == [l EXCEPT !.eof = FALSE]
<1>4. /\ m \in SpiderType /\ m.conf = spiders[Me].conf /\ m.handle = spiders[Me].handle
      /\ m.starturl = spiders[Me].starturl /\ m.pool = q
  <2>1. spiders[Me] \in SpiderType /\ q \in Nat
    BY <1>3
  <2> HIDE DEF q
  <2>2. /\ l \in SpiderType /\ l.conf = spiders[Me].conf /\ l.handle = spiders[Me].handle
        /\ l.starturl = spiders[Me].starturl /\ l.pool = q
    BY <2>1 DEF SpiderType
  <2> HIDE DEF l
  <2> QED BY <2>2 DEF SpiderType
<1>5. PICK p : p = pages + 1
  OBVIOUS
<1>6. PICK g : g = [f EXCEPT !.pc = "fetch", !.page = p, !.tries = 3]
  OBVIOUS
<1>7. /\ spiders' = [spiders EXCEPT ![Me] = m] /\ Become(g) /\ pages' = p /\ pools' = q
      /\ live' = (live \ {Spider.pool}) \cup {q}
  BY <1>1, <1>3, <1>5, <1>6 DEF NextPage
<1>8. p \in Nat
  BY <1>3, <1>5
<1>9. g \in FrameType /\ g.spider = Top.spider /\ g.rule = 0 /\ g.pc = "fetch" /\ g.page = p
  BY <1>1, <1>6, <1>8 DEF FrameType, Labels
<1> HIDE DEF m, l
<1>10. /\ Len(spiders') = Len(spiders)
       /\ \A s \in 1 .. Len(spiders) : spiders'[s] = IF s = Me THEN m ELSE spiders[s]
  BY <1>3, <1>4, <1>7, SpiderSet
<1>11. StackBecomes(g)
  BY <1>2, <1>7, <1>9, BecomeIs
<1> QED
  BY <1>2, <1>3, <1>4, <1>5, <1>7, <1>9, <1>10, <1>11

\* A nested spider starts: the spider k with the start url u.
Starts(k, f) ==
  /\ Top.pc = "spawn" /\ StackGrows(f)
  /\ f.spider = k /\ f.pc = "scan" /\ f.page = 0 /\ f.rule = 0
  /\ spiders'[k].conf = Nested.conf /\ spiders'[k].handle = Spider.handle /\ spiders'[k].pool = 0
  /\ k \in 2 .. Len(spiders')
  /\ \A s \in 1 .. Len(spiders) : s # k => spiders'[s] = spiders[s]

LEMMA KnownStarts ==
  ASSUME PageTypeOK, StackInv, SpawnKnown
  PROVE  /\ stack # <<>> /\ Spawning
         /\ \E k \in 2 .. Len(spiders), f \in FrameType :
              /\ Starts(k, f) /\ Len(spiders') = Len(spiders) /\ spiders[k].conf = Nested.conf
              /\ spiders'[k].starturl = IF Nested.url THEN [pool |-> Spider.pool, freed |-> FALSE]
                                        ELSE spiders[k].starturl
         /\ UNCHANGED <<table, confset, live, pools, pages, returned>>
<1>1. PICK k \in 2 .. Len(spiders), f \in FrameType :
           /\ spiders[k].conf = Nested.conf
           /\ spiders' = [spiders EXCEPT ![k] = Prepared(spiders[k])]
           /\ stack' = Append(stack, f) /\ \E over \in BOOLEAN : f = [Frame(k) EXCEPT !.over = over]
  BY KnownFacts
<1>2. Spawning /\ UNCHANGED <<table, confset, live, pools, pages, returned>>
  BY DEF SpawnKnown, history
<1>3. /\ stack # <<>> /\ Top.pc = "spawn" /\ spiders \in Seq(SpiderType) /\ k \in 1 .. Len(spiders)
  BY <1>2, NestedFacts DEF PageTypeOK
<1> DEFINE m == Prepared(spiders[k])
<1>4. /\ m \in SpiderType /\ m.conf = spiders[k].conf /\ m.handle = Spider.handle /\ m.pool = 0
      /\ m.starturl = IF Nested.url THEN [pool |-> Spider.pool, freed |-> FALSE] ELSE spiders[k].starturl
  <2>1. spiders[k] \in SpiderType
    BY <1>3
  <2> QED BY <1>2, <2>1, PreparedTyped
<1>5. spiders' = [spiders EXCEPT ![k] = m]
  BY <1>1
<1> HIDE DEF m
<1>6. /\ Len(spiders') = Len(spiders)
      /\ \A s \in 1 .. Len(spiders) : spiders'[s] = IF s = k THEN m ELSE spiders[s]
  BY <1>3, <1>4, <1>5, SpiderSet
<1>7. f.spider = k /\ f.pc = "scan" /\ f.page = 0 /\ f.rule = 0
  BY <1>1 DEF Frame
<1>8. Starts(k, f)
  BY <1>1, <1>3, <1>4, <1>6, <1>7, CallIs DEF Starts
<1> QED
  BY <1>1, <1>2, <1>3, <1>4, <1>6, <1>8

LEMMA NewStarts ==
  ASSUME PageTypeOK, StackInv, SpawnNew
  PROVE  /\ stack # <<>> /\ Spawning
         /\ \E k \in Nat, f \in FrameType :
              /\ Starts(k, f) /\ k = Len(spiders) + 1 /\ Len(spiders') = k
              /\ spiders'[k].starturl = IF Nested.url THEN [pool |-> Spider.pool, freed |-> FALSE]
                                        ELSE NoUrl
         /\ table' = Preset(table, NULL, Nested.conf).table
         /\ UNCHANGED <<live, pools, pages, returned>>
<1>1. PICK k \in 2 .. Len(spiders) + 1, f \in FrameType, m \in SpiderType :
           /\ k = Len(spiders) + 1
           /\ m.conf = Nested.conf /\ m.handle = Spider.handle /\ m.pool = 0
           /\ m.starturl = IF Nested.url THEN [pool |-> Spider.pool, freed |-> FALSE] ELSE NoUrl
           /\ spiders' = Append(spiders, m)
           /\ table' = Preset(table, NULL, Nested.conf).table
           /\ stack' = Append(stack, f) /\ \E over \in BOOLEAN : f = [Frame(k) EXCEPT !.over = over]
  BY NewFacts
<1>2. Spawning /\ UNCHANGED <<live, pools, pages, returned>>
  BY DEF SpawnNew, history
<1>3. stack # <<>> /\ Top.pc = "spawn" /\ spiders \in Seq(SpiderType)
  BY <1>2, NestedFacts DEF PageTypeOK
<1>4. /\ Len(spiders') = k /\ k \in Nat /\ k \in 2 .. Len(spiders')
      /\ \A s \in 1 .. Len(spiders) : spiders'[s] = spiders[s]
      /\ spiders'[k] = m
  BY <1>1, <1>3
<1>5. f.spider = k /\ f.pc = "scan" /\ f.page = 0 /\ f.rule = 0
  BY <1>1 DEF Frame
<1>6. Starts(k, f)
  <2>1. StackGrows(f)
    BY <1>1, CallIs
  <2> QED BY <1>1, <1>3, <1>4, <1>5, <2>1 DEF Starts
<1> QED
  BY <1>1, <1>2, <1>3, <1>4, <1>6

LEMMA EndFacts ==
  ASSUME PageTypeOK, StackInv, RunEnds
  PROVE  /\ stack # <<>> /\ Top.pc = "exit" /\ StackShrinks
         /\ Len(spiders') = Len(spiders)
         /\ \E m \in SpiderType :
              /\ m.conf = Spider.conf /\ m.handle = Spider.handle /\ m.pool = Spider.pool
              /\ m.starturl # NoUrl => Spider.starturl # NoUrl
              /\ \A s \in 1 .. Len(spiders) : spiders'[s] = IF s = Me THEN m ELSE spiders[s]
         /\ UNCHANGED <<table, confset, live, pools, pages>> /\ returned' = returned + 1
<1>1. /\ stack # <<>> /\ Top.pc = "exit"
      /\ UNCHANGED <<table, confset, live, pools, pages>> /\ returned' = returned + 1
  BY ReturnFacts
<1>2. PICK m \in SpiderType :
        /\ spiders' = [spiders EXCEPT ![Me] = m]
        /\ m.conf = Spider.conf /\ m.handle = Spider.handle /\ m.pool = Spider.pool
        /\ m.starturl # NoUrl => Spider.starturl # NoUrl
  BY ReturnFacts
<1>3. spiders \in Seq(SpiderType) /\ Me \in 1 .. Len(spiders) /\ Depth \in Nat \ {0}
  BY <1>1, TopFacts DEF PageTypeOK
<1>4. /\ Len(spiders') = Len(spiders)
      /\ \A s \in 1 .. Len(spiders) : spiders'[s] = IF s = Me THEN m ELSE spiders[s]
  BY <1>2, <1>3, SpiderSet
<1>5. StackShrinks
  <2>1. CASE Depth = 1
    <3>1. stack' = <<>>
      BY <2>1, ReturnFacts
    <3>2. Depth' = 0
      BY <3>1 DEF Depth
    <3> QED BY <2>1, <3>2 DEF StackShrinks
  <2>2. CASE Depth # 1
    <3> DEFINE c == Depth - 1
    <3>1. PICK f \in FrameType :
            /\ GoesBack(f) /\ f.pc = "spawn"
            /\ f.spider = stack[Depth - 1].spider /\ f.page = stack[Depth - 1].page
            /\ f.policy = stack[Depth - 1].policy /\ f.rule = stack[Depth - 1].rule
      BY <2>2, ReturnFacts
    <3>2. /\ Depth' = c /\ c \in Nat \ {0}
          /\ \A i \in 1 .. c : stack'[i] = IF i = c THEN f ELSE stack[i]
      BY <1>1, <3>1, ReturnKeeps
    <3>3. stack[c].pc = "spawn"
      <4>1. c \in 1 .. Depth - 1
        BY <1>3, <3>2
      <4> QED BY <4>1 DEF StackInv
    <3> QED BY <3>1, <3>2, <3>3 DEF StackShrinks
  <2> QED BY <2>1, <2>2
<1> QED
  BY <1>1, <1>2, <1>4, <1>5

----------------------------------------------------------------------------
(* Pools.                                                                  *)

LEMMA Finite ==
  ASSUME PageTypeOK, StackInv, PoolInv
  PROVE  /\ Running \subseteq 1 .. Len(spiders) /\ IsFiniteSet(Running) /\ IsFiniteSet(Bare)
         /\ IsFiniteSet(live) /\ Cardinality(live) \in Nat /\ Cardinality(Bare) \in Nat
         /\ Depth \in Nat /\ returned \in Nat /\ pools \in Nat /\ 0 \notin live
<1>1. /\ stack \in Seq(FrameType) /\ spiders \in Seq(SpiderType) /\ Depth \in Nat /\ Len(spiders) \in Nat
      /\ pools \in Nat /\ returned \in Nat /\ live \subseteq 1 .. pools
  BY DEF PageTypeOK, Depth, PoolInv
<1>2. Running \subseteq 1 .. Len(spiders)
  <2> SUFFICES ASSUME NEW i \in 1 .. Depth PROVE stack[i].spider \in 1 .. Len(spiders)
    BY DEF Running
  <2>1. stack[i] \in FrameType /\ FrameOK(stack[i])
    BY <1>1 DEF StackInv, Depth
  <2> QED BY <1>1, <2>1 DEF FrameType, FrameOK
<1>3. IsFiniteSet(1 .. Len(spiders)) /\ IsFiniteSet(1 .. pools)
  BY <1>1, FS_Interval
<1>4. IsFiniteSet(Running) /\ IsFiniteSet(live)
  BY <1>1, <1>2, <1>3, FS_Subset
<1>5. IsFiniteSet(Bare)
  BY <1>4, FS_Subset DEF Bare
<1> QED
  BY <1>1, <1>2, <1>4, <1>5, FS_CardinalityType

\* As long as the stack has the same spiders and these their pools.
LEMMA SameRunning ==
  ASSUME PageTypeOK, stack # <<>>, NEW f, StackBecomes(f), f.spider = Top.spider
  PROVE  /\ Running' = Running
         /\ \A i \in 1 .. Depth : stack'[i].spider = stack[i].spider
<1>1. \A i \in 1 .. Depth : stack'[i].spider = stack[i].spider
  BY DEF StackBecomes, Top
<1>2. Depth' = Depth
  BY DEF StackBecomes
<1> QED
  BY <1>1, <1>2 DEF Running

LEMMA PoolsAlike ==
  ASSUME PageTypeOK, StackInv, stack # <<>>, PoolInv, SpidersAlike,
         NEW f, StackBecomes(f), f.spider = Top.spider,
         UNCHANGED <<live, pools, returned>>
  PROVE  PoolInv'
<1>1. Running' = Running /\ Depth' = Depth /\ Running \subseteq 1 .. Len(spiders)
  BY SameRunning, Finite DEF StackBecomes
<1>2. Bare' = Bare
  BY <1>1 DEF Bare, SpidersAlike
<1>3. live' \subseteq 1 .. pools'
  BY DEF PoolInv
<1>4. \A s \in 1 .. Len(spiders') : spiders'[s].pool \in live' \cup {0}
  BY DEF PoolInv, SpidersAlike
<1>5. \A r, s \in 1 .. Len(spiders') : spiders'[r].pool = spiders'[s].pool /\ spiders'[r].pool # 0 => r = s
  BY DEF PoolInv, SpidersAlike
<1>6. Cardinality(live') + Cardinality(Bare') <= returned' + Depth'
  BY <1>1, <1>2 DEF PoolInv
<1> QED
  BY <1>3, <1>4, <1>5, <1>6 DEF PoolInv

LEMMA PoolsBegin ==
  ASSUME PageTypeOK, StackInv, PoolInv, BeginsPage
  PROVE  PoolInv'
<1> DEFINE n == pools + 1
<1>1. /\ stack # <<>> /\ Len(spiders') = Len(spiders)
      /\ pools' = n /\ live' = (live \ {Spider.pool}) \cup {n} /\ returned' = returned
  BY BeginFacts
<1>2. PICK f \in FrameType : f.spider = Top.spider /\ StackBecomes(f)
  BY BeginFacts
<1>3. PICK m \in SpiderType :
        m.pool = n /\ \A s \in 1 .. Len(spiders) : spiders'[s] = IF s = Me THEN m ELSE spiders[s]
  BY BeginFacts
<1>4. /\ Running' = Running /\ Depth' = Depth /\ Me \in Running
      /\ Running \subseteq 1 .. Len(spiders) /\ IsFiniteSet(Bare) /\ IsFiniteSet(live)
      /\ Cardinality(live) \in Nat /\ Cardinality(Bare) \in Nat /\ Depth \in Nat /\ Depth \in 1 .. Depth
      /\ returned \in Nat /\ pools \in Nat /\ 0 \notin live
  <2>1. Running' = Running /\ Depth' = Depth
    BY <1>1, <1>2, SameRunning DEF StackBecomes
  <2>2. /\ Running \subseteq 1 .. Len(spiders) /\ IsFiniteSet(Bare) /\ IsFiniteSet(live)
        /\ Cardinality(live) \in Nat /\ Cardinality(Bare) \in Nat
    BY <1>1, Finite
  <2>3. Depth \in Nat /\ Depth \in 1 .. Depth
    BY <1>1, TopFacts
  <2>4. Me \in Running
    BY <2>3 DEF Running, Me, Top
  <2>5. returned \in Nat /\ pools \in Nat
    BY DEF PageTypeOK
  <2>6. 0 \notin live
    BY <2>5 DEF PoolInv
  <2> QED BY <2>1, <2>2, <2>3, <2>4, <2>5, <2>6
<1>5. n \in Nat /\ n # 0 /\ n \notin live /\ live \subseteq 1 .. pools
  BY <1>4 DEF PoolInv
<1>6. live' \subseteq 1 .. pools'
  <2>1. 1 .. pools \subseteq 1 .. n /\ n \in 1 .. n
    BY <1>4
  <2> HIDE DEF n
  <2> QED BY <1>1, <1>5, <2>1
<1>7. ASSUME NEW s \in 1 .. Len(spiders') PROVE spiders'[s].pool \in live' \cup {0}
  <2>1. CASE s = Me
    BY <2>1, <1>1, <1>3
  <2>2. CASE s # Me
    <3>1. spiders[s].pool \in live \cup {0} /\ (spiders[s].pool # 0 => spiders[s].pool # spiders[Me].pool)
      BY <2>2, <1>1, <1>4 DEF PoolInv
    <3> QED BY <2>2, <3>1, <1>1, <1>3 DEF Spider
  <2> QED BY <2>1, <2>2
<1>8. ASSUME NEW r \in 1 .. Len(spiders'), NEW s \in 1 .. Len(spiders'),
             spiders'[r].pool = spiders'[s].pool, spiders'[r].pool # 0
      PROVE  r = s
  <2>1. \A x \in 1 .. Len(spiders) : spiders[x].pool # n
    BY <1>5 DEF PoolInv
  <2>2. Len(spiders') = Len(spiders)
    BY <1>1
  <2> HIDE DEF n
  <2> QED BY <1>3, <1>8, <2>1, <2>2 DEF PoolInv
<1>9. Cardinality(live') + Cardinality(Bare') <= returned' + Depth'
  <2>1. Cardinality(live) + Cardinality(Bare) <= returned + Depth
    BY DEF PoolInv
  <2>2. Bare' = Bare \ {Me}
    <3>1. \A s \in Running : spiders'[s].pool = IF s = Me THEN n ELSE spiders[s].pool
      BY <1>3, <1>4
    <3> QED BY <1>4, <1>5, <3>1 DEF Bare
  <2>3. CASE Spider.pool = 0
    <3>1. Me \in Bare
      BY <2>3, <1>4 DEF Bare, Spider
    <3>2. Cardinality(Bare') = Cardinality(Bare) - 1
      BY <2>2, <3>1, <1>4, FS_RemoveElement
    <3>3. live' = live \cup {n}
      BY <2>3, <1>1, <1>4
    <3>4. Cardinality(live') = Cardinality(live) + 1
      BY <3>3, <1>4, <1>5, FS_AddElement
    <3> QED BY <1>1, <1>4, <2>1, <3>2, <3>4
  <2>4. CASE Spider.pool # 0
    <3>1. Spider.pool \in live
      BY <2>4, <1>4 DEF PoolInv, Spider
    <3>2. Bare' = Bare
      BY <2>2, <2>4 DEF Bare, Spider
    <3> DEFINE rest == live \ {Spider.pool}
    <3>3. IsFiniteSet(rest) /\ Cardinality(rest) = Cardinality(live) - 1 /\ n \notin rest
      BY <3>1, <1>4, <1>5, FS_RemoveElement
    <3>4. live' = rest \cup {n}
      BY <1>1
    <3> HIDE DEF rest
    <3>5. Cardinality(live') = Cardinality(rest) + 1
      BY <3>3, <3>4, FS_AddElement
    <3> QED BY <1>1, <1>4, <2>1, <3>2, <3>3, <3>5
  <2> QED BY <2>3, <2>4
<1> QED
  BY <1>6, <1>7, <1>8, <1>9 DEF PoolInv

LEMMA PoolsStart ==
  ASSUME PageTypeOK, StackInv, PoolInv, NEW k, NEW f, Starts(k, f),
         Len(spiders') = Len(spiders) \/ (k = Len(spiders) + 1 /\ Len(spiders') = k),
         UNCHANGED <<live, pools, returned>>
  PROVE  PoolInv'
<1>1. /\ spiders'[k].pool = 0 /\ f.spider = k /\ Depth' = Depth + 1
      /\ \A s \in 1 .. Len(spiders) : s # k => spiders'[s] = spiders[s]
  BY DEF Starts, StackGrows
<1>2. /\ Running \subseteq 1 .. Len(spiders) /\ IsFiniteSet(Bare) /\ IsFiniteSet(live)
      /\ Cardinality(live) \in Nat /\ Cardinality(Bare) \in Nat /\ Depth \in Nat /\ returned \in Nat
      /\ Len(spiders) \in Nat
  BY Finite DEF PageTypeOK
<1>3. ASSUME NEW s \in 1 .. Len(spiders') PROVE s = k \/ (s \in 1 .. Len(spiders) /\ spiders'[s] = spiders[s])
  BY <1>1, <1>2
<1>4. live' \subseteq 1 .. pools'
  BY DEF PoolInv
<1>5. \A s \in 1 .. Len(spiders') : spiders'[s].pool \in live' \cup {0}
  BY <1>1, <1>3 DEF PoolInv
<1>6. \A r, s \in 1 .. Len(spiders') : spiders'[r].pool = spiders'[s].pool /\ spiders'[r].pool # 0 => r = s
  BY <1>1, <1>3 DEF PoolInv
<1>7. Cardinality(live') + Cardinality(Bare') <= returned' + Depth'
  <2>1. Cardinality(live) + Cardinality(Bare) <= returned + Depth
    BY DEF PoolInv
  <2>2. Running' \subseteq Running \cup {k}
    <3>1. \A i \in 1 .. Depth + 1 : stack'[i].spider = k \/ (i \in 1 .. Depth /\ stack'[i] = stack[i])
      BY <1>1, <1>2 DEF Starts, StackGrows
    <3> QED BY <1>1, <3>1 DEF Running
  <2>3. Bare' \subseteq Bare \cup {k}
    <3> SUFFICES ASSUME NEW s \in Running', spiders'[s].pool = 0, s # k PROVE s \in Bare
      BY DEF Bare
    <3>1. s \in Running /\ s \in 1 .. Len(spiders)
      BY <1>2, <2>2
    <3> QED BY <1>1, <3>1 DEF Bare
  <2>4. IsFiniteSet(Bare \cup {k}) /\ Cardinality(Bare \cup {k}) <= Cardinality(Bare) + 1
    <3>1. /\ IsFiniteSet(Bare \cup {k})
          /\ Cardinality(Bare \cup {k}) = IF k \in Bare THEN Cardinality(Bare) ELSE Cardinality(Bare) + 1
      BY <1>2, FS_AddElement
    <3> QED BY <1>2, <3>1
  <2>5. IsFiniteSet(Bare') /\ Cardinality(Bare') <= Cardinality(Bare \cup {k})
    BY <2>3, <2>4, FS_Subset
  <2>6. Cardinality(Bare') \in Nat /\ Cardinality(Bare \cup {k}) \in Nat
    BY <2>4, <2>5, FS_CardinalityType
  <2> QED BY <1>1, <1>2, <2>1, <2>4, <2>5, <2>6
<1> QED
  BY <1>4, <1>5, <1>6, <1>7 DEF PoolInv

LEMMA PoolsEnd ==
  ASSUME PageTypeOK, StackInv, PoolInv, RunEnds
  PROVE  PoolInv'
<1>1. /\ stack # <<>> /\ StackShrinks /\ Len(spiders') = Len(spiders)
      /\ UNCHANGED <<live, pools>> /\ returned' = returned + 1
  BY EndFacts
<1>2. PICK m \in SpiderType :
        m.pool = Spider.pool /\ \A s \in 1 .. Len(spiders) : spiders'[s] = IF s = Me THEN m ELSE spiders[s]
  BY EndFacts
<1>3. \A s \in 1 .. Len(spiders) : spiders'[s].pool = spiders[s].pool
  BY <1>2 DEF Spider
<1>4. /\ Running \subseteq 1 .. Len(spiders) /\ IsFiniteSet(Bare)
      /\ Cardinality(live) \in Nat /\ Cardinality(Bare) \in Nat /\ Depth \in Nat /\ returned \in Nat
  BY Finite
<1>5. live' \subseteq 1 .. pools'
  BY <1>1 DEF PoolInv
<1>6. \A s \in 1 .. Len(spiders') : spiders'[s].pool \in live' \cup {0}
  BY <1>1, <1>3 DEF PoolInv
<1>7. \A r, s \in 1 .. Len(spiders') : spiders'[r].pool = spiders'[s].pool /\ spiders'[r].pool # 0 => r = s
  BY <1>1, <1>3 DEF PoolInv
<1>8. Cardinality(live') + Cardinality(Bare') <= returned' + Depth'
  <2>1. Cardinality(live) + Cardinality(Bare) <= returned + Depth
    BY DEF PoolInv
  <2>2. Running' \subseteq Running
    BY <1>1, <1>4 DEF StackShrinks, Running
  <2>3. Bare' \subseteq Bare
    BY <1>3, <1>4, <2>2 DEF Bare
  <2>4. IsFiniteSet(Bare') /\ Cardinality(Bare') <= Cardinality(Bare)
    BY <1>4, <2>3, FS_Subset
  <2>5. Cardinality(Bare') \in Nat
    BY <2>4, FS_CardinalityType
  <2> QED BY <1>1, <1>4, <2>1, <2>4, <2>5 DEF StackShrinks
<1> QED
  BY <1>5, <1>6, <1>7, <1>8 DEF PoolInv

LEMMA PoolsKept ==
  ASSUME PageTypeOK, StackInv, PoolInv, [Next]_vars
  PROVE  PoolInv'
<1>1. CASE UNCHANGED vars
  BY <1>1 DEF vars, memory, history, PoolInv, Running, Bare, Depth
<1>2. CASE ~ UNCHANGED vars
  <2>1. stack # <<>>
    BY <1>2, Stops
  <2>2. CASE MovesOn
    <3>1. PICK f \in FrameType : GoesOn(f) /\ StackBecomes(f)
      BY <2>1, <2>2, MoveFacts
    <3> QED BY <2>1, <2>2, <3>1, MoveFacts, PoolsAlike DEF GoesOn
  <2>3. CASE SetsVariable
    <3>1. PICK f \in FrameType : GoesOn(f) /\ StackBecomes(f)
      BY <2>1, <2>3, SetFacts
    <3> QED BY <2>1, <2>3, <3>1, SetFacts, PoolsAlike DEF GoesOn
  <2>4. CASE SpawnKnown
    BY <2>4, KnownStarts, PoolsStart
  <2>5. CASE SpawnNew
    BY <2>5, NewStarts, PoolsStart
  <2> QED BY <1>2, <2>2, <2>3, <2>4, <2>5, Steps, PoolsBegin, PoolsEnd
<1> QED
  BY <1>1, <1>2

LEMMA PoolsInit ==
  ASSUME Init
  PROVE  PoolInv
<1>1. live = {} /\ Depth = 1 /\ returned = 0 /\ pools = 0
  BY InitFacts DEF Init
<1>2. \A s \in 1 .. Len(spiders) : s = 1 /\ spiders[s].pool = 0
  <2>1. Len(spiders) = 1
    BY InitFacts
  <2> QED BY <2>1, InitFacts
<1>3. Running = {1}
  BY <1>1, InitFacts DEF Running, Frame
<1>4. Bare = {1}
  <2>1. spiders[1].pool = 0
    BY InitFacts
  <2> QED BY <1>3, <2>1 DEF Bare
<1>5. Cardinality(live) + Cardinality(Bare) <= returned + Depth
  <2>1. Cardinality(live) = 0
    BY <1>1, FS_EmptySet
  <2>2. Cardinality(Bare) = 1
    BY <1>4, FS_Singleton
  <2> QED BY <1>1, <2>1, <2>2
<1> QED
  BY <1>1, <1>2, <1>5 DEF PoolInv

\* What a thread has not given back is bounded by what it does: beside a pool for each
\* running spider, no more than one is lost with each run that ends (main.c:162,
\* 180-183, sf_pcre.c:460-472).
THEOREM PoolsAreAccounted == Spec => []PoolsAccounted
<1>1. Init => PageTypeOK /\ StackInv /\ PoolInv
  BY TypeInit, PoolsInit
<1>2. (PageTypeOK /\ StackInv /\ PoolInv) /\ [Next]_vars => (PageTypeOK /\ StackInv /\ PoolInv)'
  BY TypeKept, PoolsKept
<1>3. PageTypeOK /\ StackInv /\ PoolInv => PoolsAccounted
  <2> SUFFICES ASSUME PageTypeOK, StackInv, PoolInv PROVE PoolsAccounted
    OBVIOUS
  <2>1. Cardinality(live) \in Nat /\ Cardinality(Bare) \in Nat /\ Depth \in Nat /\ returned \in Nat
    BY Finite
  <2>2. Cardinality(live) + Cardinality(Bare) <= returned + Depth /\ live \subseteq 1 .. pools
    BY DEF PoolInv
  <2> QED BY <2>1, <2>2 DEF PoolsAccounted
<1> QED
  BY <1>1, <1>2, <1>3, PTL DEF Spec

----------------------------------------------------------------------------
(* Start urls.                                                             *)

LEMMA FrameAt ==
  ASSUME PageTypeOK, StackInv, NEW i \in 1 .. Depth
  PROVE  /\ stack[i] \in FrameType /\ FrameOK(stack[i])
         /\ stack[i].spider \in 1 .. Len(spiders) /\ ConfOf(stack[i]) \in Confs
<1>1. stack \in Seq(FrameType) /\ spiders \in Seq(SpiderType)
  BY DEF PageTypeOK
<1>2. stack[i] \in FrameType /\ FrameOK(stack[i])
  BY <1>1 DEF StackInv, Depth
<1>3. stack[i].spider \in 1 .. Len(spiders)
  BY <1>2 DEF FrameType, FrameOK
<1>4. spiders[stack[i].spider] \in SpiderType
  BY <1>1, <1>3
<1> QED
  BY <1>2, <1>3, <1>4 DEF ConfOf, SpiderType

\* While the configurations of the stack have falling ranks it has each spider once.
LEMMA Distinct ==
  ASSUME PageTypeOK, StackInv, NEW rank \in [Confs -> Nat], RankInv(rank),
         NEW i \in 1 .. Depth, NEW j \in 1 .. Depth, stack[i].spider = stack[j].spider
  PROVE  i = j
<1>1. ConfOf(stack[i]) = ConfOf(stack[j])
  BY DEF ConfOf
<1>2. ConfOf(stack[i]) \in Confs
  BY FrameAt
<1>3. rank[ConfOf(stack[i])] \in Nat
  BY <1>2
<1>4. ~ (i < j) /\ ~ (j < i)
  BY <1>1, <1>3 DEF RankInv
<1> QED
  BY <1>4 DEF Depth, PageTypeOK

\* The configuration of a spider that is started is below that of its caller.
LEMMA NestedBelow ==
  ASSUME PageTypeOK, StackInv, Spawning, NEW rank \in [Confs -> Nat], NestsDown(rank)
  PROVE  rank[Nested.conf] < rank[Conf] /\ Conf = ConfOf(stack[Depth]) /\ Conf \in Confs
<1>1. /\ stack # <<>> /\ Top.pc = "spawn" /\ Top.ns \in 1 .. Len(Rule.spiders)
  BY NestedFacts
<1>2. Top \in FrameType /\ FrameOK(Top) /\ Conf \in Confs /\ Top = stack[Depth]
  BY <1>1, TopFacts DEF Depth, Top
<1>3. ConfOf(Top) = Conf
  BY DEF ConfOf, Conf, Spider, Me
<1>4. Top.policy \in 1 .. Len(Policies[Conf]) /\ Top.rule \in 1 .. Len(Policies[Conf][Top.policy])
  BY <1>1, <1>2, <1>3 DEF FrameOK, FrameType, AtRule, InRule, RulesOf
<1> DEFINE rule == Policies[Conf][Top.policy][Top.rule]
<1>5. \A n \in 1 .. Len(rule.spiders) : rank[rule.spiders[n].conf] < rank[Conf]
  BY <1>2, <1>4 DEF NestsDown
<1>6. rule = Rule
  BY DEF Rule, Policy
<1> QED
  BY <1>1, <1>2, <1>3, <1>5, <1>6 DEF Nested

\* No step changes the configuration of a spider.
ConfsAlike == \A s \in 1 .. Len(spiders) : spiders'[s].conf = spiders[s].conf

LEMMA RankAlike ==
  ASSUME PageTypeOK, StackInv, stack # <<>>, NEW rank, RankInv(rank), ConfsAlike,
         NEW f, StackBecomes(f), f.spider = Top.spider
  PROVE  RankInv(rank)'
<1>1. Depth' = Depth /\ \A i \in 1 .. Depth : stack'[i].spider = stack[i].spider
  BY SameRunning DEF StackBecomes
<1>2. ASSUME NEW i \in 1 .. Depth PROVE spiders'[stack'[i].spider].conf = spiders[stack[i].spider].conf
  BY <1>1, FrameAt DEF ConfsAlike
<1> QED
  BY <1>1, <1>2 DEF RankInv, ConfOf

LEMMA RankShrinks ==
  ASSUME PageTypeOK, StackInv, stack # <<>>, NEW rank, RankInv(rank), ConfsAlike, StackShrinks
  PROVE  RankInv(rank)'
<1>1. Depth \in Nat \ {0} /\ Depth' = Depth - 1
  BY TopFacts DEF StackShrinks
<1>2. ASSUME NEW i \in 1 .. Depth - 1
      PROVE  i \in 1 .. Depth /\ spiders'[stack'[i].spider].conf = spiders[stack[i].spider].conf
  <2>1. i \in 1 .. Depth
    BY <1>1
  <2> QED BY <2>1, FrameAt DEF ConfsAlike, StackShrinks
<1> QED
  BY <1>1, <1>2 DEF RankInv, ConfOf

LEMMA RankGrows ==
  ASSUME PageTypeOK, StackInv, stack # <<>>, Spawning, NEW rank \in [Confs -> Nat], NestsDown(rank),
         RankInv(rank), ConfsAlike, NEW k, NEW f, Starts(k, f)
  PROVE  RankInv(rank)'
<1>1. /\ Depth \in Nat \ {0} /\ Depth' = Depth + 1 /\ f.spider = k /\ spiders'[k].conf = Nested.conf
      /\ \A i \in 1 .. Depth + 1 : stack'[i] = IF i = Depth + 1 THEN f ELSE stack[i]
  BY TopFacts DEF Starts, StackGrows
<1>2. ASSUME NEW i \in 1 .. Depth
      PROVE  spiders'[stack'[i].spider].conf = spiders[stack[i].spider].conf
  <2>1. stack'[i] = stack[i]
    BY <1>1
  <2> QED BY <2>1, FrameAt DEF ConfsAlike
<1>3. rank[Nested.conf] < rank[Conf] /\ Conf = spiders[stack[Depth].spider].conf /\ Nested.conf \in Confs
  BY NestedBelow, NestedFacts DEF ConfOf
<1>4. spiders'[stack'[Depth + 1].spider].conf = Nested.conf
  BY <1>1
<1>5. ASSUME NEW i \in 1 .. Depth PROVE rank[Nested.conf] < rank[spiders[stack[i].spider].conf]
  <2>1. /\ rank[spiders[stack[i].spider].conf] \in Nat /\ rank[spiders[stack[Depth].spider].conf] \in Nat
        /\ rank[Nested.conf] \in Nat
    BY <1>1, <1>3, FrameAt DEF ConfOf
  <2>2. CASE i = Depth
    BY <2>2, <1>3
  <2>3. CASE i # Depth
    <3>1. rank[spiders[stack[Depth].spider].conf] < rank[spiders[stack[i].spider].conf]
      BY <2>3, <1>1 DEF RankInv, ConfOf
    <3> QED BY <3>1, <2>1, <1>3
  <2> QED BY <2>2, <2>3
<1>6. ASSUME NEW i \in 1 .. Depth', NEW j \in 1 .. Depth', i < j
      PROVE  rank[spiders'[stack'[j].spider].conf] < rank[spiders'[stack'[i].spider].conf]
  <2>1. i \in 1 .. Depth
    BY <1>1, <1>6
  <2>2. CASE j = Depth + 1
    BY <2>1, <2>2, <1>2, <1>4, <1>5
  <2>3. CASE j # Depth + 1
    <3>1. j \in 1 .. Depth
      BY <2>3, <1>1
    <3> QED BY <2>1, <3>1, <1>2, <1>6 DEF RankInv, ConfOf
  <2> QED BY <2>2, <2>3
<1> QED
  BY <1>6 DEF RankInv, ConfOf

LEMMA UrlsAlike ==
  ASSUME PageTypeOK, StackInv, stack # <<>>, UrlInv, SpidersAlike,
         NEW f, StackBecomes(f), f.spider = Top.spider,
         f.pc \in {"scan", "exit"} \/ Top.pc \notin {"scan", "exit"}
  PROVE  UrlInv'
<1>1. Depth' = Depth /\ \A i \in 1 .. Depth : stack'[i].spider = stack[i].spider
  BY SameRunning DEF StackBecomes
<1>2. ASSUME NEW i \in 1 .. Depth
      PROVE  /\ spiders'[stack'[i].spider].pool = spiders[stack[i].spider].pool
             /\ spiders'[stack'[i].spider].starturl = spiders[stack[i].spider].starturl
             /\ stack'[i].pc \notin {"scan", "exit"} => stack[i].pc \notin {"scan", "exit"}
  <2>1. stack'[i].pc \notin {"scan", "exit"} => stack[i].pc \notin {"scan", "exit"}
    BY DEF StackBecomes, Top
  <2> QED BY <1>1, <2>1, FrameAt DEF SpidersAlike
<1>3. \A i \in 1 .. Depth' : stack'[i].pc \notin {"scan", "exit"} => spiders'[stack'[i].spider].pool # 0
  BY <1>1, <1>2 DEF UrlInv
<1>4. ASSUME NEW i \in 1 .. Depth', NEW u, u = spiders'[stack'[i].spider].starturl, u # NoUrl
      PROVE  i > 1 /\ ~ u.freed /\ u.pool = spiders'[stack'[i - 1].spider].pool
  <2>1. i > 1 /\ ~ u.freed /\ u.pool = spiders[stack[i - 1].spider].pool
    BY <1>1, <1>2, <1>4 DEF UrlInv
  <2>2. i - 1 \in 1 .. Depth
    BY <1>1, <2>1 DEF Depth, PageTypeOK
  <2> QED BY <1>2, <2>1, <2>2
<1>5. \A s \in 1 .. Len(spiders') : spiders'[s].starturl # NoUrl => s > 1 /\ GivesUrl(spiders'[s].conf)
  BY DEF UrlInv, SpidersAlike
<1> QED
  BY <1>3, <1>4, <1>5 DEF UrlInv

LEMMA UrlsBegin ==
  ASSUME PageTypeOK, StackInv, UrlInv, NEW rank \in [Confs -> Nat], RankInv(rank), BeginsPage
  PROVE  UrlInv'
<1>1. stack # <<>> /\ Top.pc = "scan" /\ Len(spiders') = Len(spiders)
  BY BeginFacts
<1>2. PICK f \in FrameType : f.spider = Top.spider /\ StackBecomes(f)
  BY BeginFacts
<1>3. PICK m \in SpiderType :
        /\ m.conf = Spider.conf /\ m.starturl = Spider.starturl /\ m.pool = pools + 1
        /\ \A s \in 1 .. Len(spiders) : spiders'[s] = IF s = Me THEN m ELSE spiders[s]
  BY BeginFacts
<1>4. Depth' = Depth /\ Depth \in Nat \ {0} /\ \A i \in 1 .. Depth : stack'[i].spider = stack[i].spider
  BY <1>1, <1>2, SameRunning, TopFacts DEF StackBecomes
<1>5. pools + 1 # 0
  BY DEF PageTypeOK
<1>6. ASSUME NEW i \in 1 .. Depth
      PROVE  /\ stack[i].spider \in 1 .. Len(spiders)
             /\ spiders'[stack[i].spider].starturl = spiders[stack[i].spider].starturl
             /\ i # Depth => /\ spiders'[stack[i].spider] = spiders[stack[i].spider]
                             /\ stack'[i] = stack[i]
             /\ i = Depth => spiders'[stack[i].spider].pool # 0
  <2>1. stack[i].spider \in 1 .. Len(spiders)
    BY FrameAt
  <2>2. i # Depth => stack[i].spider # Me
    <3>1. Depth \in 1 .. Depth /\ Me = stack[Depth].spider
      BY <1>4 DEF Me, Top
    <3> QED BY <3>1, Distinct
  <2>3. i # Depth => stack'[i] = stack[i]
    BY <1>2 DEF StackBecomes
  <2>4. i = Depth => stack[i].spider = Me
    BY DEF Me, Top
  <2> QED BY <1>3, <1>5, <2>1, <2>2, <2>3, <2>4 DEF Spider
<1>7. ASSUME NEW i \in 1 .. Depth', stack'[i].pc \notin {"scan", "exit"}
      PROVE  spiders'[stack'[i].spider].pool # 0
  BY <1>4, <1>6, <1>7 DEF UrlInv
<1>8. ASSUME NEW i \in 1 .. Depth', NEW u, u = spiders'[stack'[i].spider].starturl, u # NoUrl
      PROVE  i > 1 /\ ~ u.freed /\ u.pool = spiders'[stack'[i - 1].spider].pool
  <2>1. i > 1 /\ ~ u.freed /\ u.pool = spiders[stack[i - 1].spider].pool
    BY <1>4, <1>6, <1>8 DEF UrlInv
  <2>2. i - 1 \in 1 .. Depth /\ i - 1 # Depth
    BY <1>4, <2>1
  <2>3. spiders'[stack'[i - 1].spider] = spiders[stack[i - 1].spider]
    BY <1>4, <1>6, <2>2
  <2> QED BY <2>1, <2>3
<1>9. \A s \in 1 .. Len(spiders') : spiders'[s].starturl # NoUrl => s > 1 /\ GivesUrl(spiders'[s].conf)
  BY <1>1, <1>3 DEF UrlInv, Spider
<1> QED
  BY <1>7, <1>8, <1>9 DEF UrlInv

\* Whoever starts a configuration that some rule gives a url gives it one.
LEMMA UrlGiven ==
  ASSUME PageTypeOK, StackInv, Spawning, UrlsAgree
  PROVE  GivesUrl(Nested.conf) <=> Nested.url
<1>1. Rule \in Rules /\ Top.ns \in 1 .. Len(Rule.spiders) /\ Nested = Rule.spiders[Top.ns]
  BY NestedFacts DEF Nested
<1>2. ASSUME Nested.url PROVE GivesUrl(Nested.conf)
  BY <1>1, <1>2, Zenon DEF GivesUrl
<1>3. ASSUME GivesUrl(Nested.conf) PROVE Nested.url
  <2>1. PICK r \in Rules : \E n \in 1 .. Len(r.spiders) : r.spiders[n].conf = Nested.conf /\ r.spiders[n].url
    BY <1>3, Zenon DEF GivesUrl
  <2>2. PICK n \in 1 .. Len(r.spiders) : r.spiders[n].conf = Nested.conf /\ r.spiders[n].url
    BY <2>1, Zenon
  <2>3. r.spiders[n].conf = Rule.spiders[Top.ns].conf
    BY <1>1, <2>2, Zenon
  <2>4. r.spiders[n].url = Rule.spiders[Top.ns].url
    <3>1. \A i \in 1 .. Len(r.spiders) : \A j \in 1 .. Len(Rule.spiders) :
            r.spiders[i].conf = Rule.spiders[j].conf => r.spiders[i].url = Rule.spiders[j].url
      BY <1>1, <2>1 DEF UrlsAgree
    <3> QED BY <1>1, <2>2, <2>3, <3>1
  <2> QED BY <1>1, <2>2, <2>4, Zenon
<1> QED
  BY <1>2, <1>3

LEMMA UrlsStart ==
  ASSUME PageTypeOK, StackInv, stack # <<>>, UrlInv, Spawning, UrlsAgree,
         NEW rank \in [Confs -> Nat], NestsDown(rank), RankInv(rank),
         NEW k, NEW f, Starts(k, f), NEW before,
         spiders'[k].starturl = IF Nested.url THEN [pool |-> Spider.pool, freed |-> FALSE] ELSE before,
         \/ Len(spiders') = Len(spiders) /\ spiders[k].conf = Nested.conf /\ before = spiders[k].starturl
         \/ k = Len(spiders) + 1 /\ Len(spiders') = k /\ before = NoUrl
  PROVE  UrlInv'
<1>1. /\ Depth \in Nat \ {0} /\ Depth' = Depth + 1 /\ Len(spiders) \in Nat
      /\ Me \in 1 .. Len(spiders) /\ Me = stack[Depth].spider
  BY TopFacts DEF Starts, StackGrows, PageTypeOK, Me, Top
<1>2. /\ spiders'[k].conf = Nested.conf /\ k > 1 /\ f.spider = k /\ f.pc = "scan"
      /\ \A s \in 1 .. Len(spiders) : s # k => spiders'[s] = spiders[s]
  BY <1>1 DEF Starts
<1>3. ASSUME NEW i \in 1 .. Depth
      PROVE  stack'[i] = stack[i] /\ spiders'[stack[i].spider] = spiders[stack[i].spider]
  <2>1. stack'[i] = stack[i]
    BY <1>1 DEF Starts, StackGrows
  <2>2. stack[i].spider \in 1 .. Len(spiders) /\ ConfOf(stack[i]) \in Confs
    BY FrameAt
  <2>3. stack[i].spider # k
    <3>1. CASE k = Len(spiders) + 1
      BY <3>1, <1>1, <2>2
    <3>2. CASE spiders[k].conf = Nested.conf
      <4>1. rank[Nested.conf] < rank[Conf] /\ Conf = ConfOf(stack[Depth]) /\ Conf \in Confs /\ Nested.conf \in Confs
        BY NestedBelow, NestedFacts
      <4>2. rank[Nested.conf] \in Nat /\ rank[Conf] \in Nat /\ rank[ConfOf(stack[i])] \in Nat
        BY <4>1, <2>2
      <4>3. i # Depth => rank[Conf] < rank[ConfOf(stack[i])]
        BY <1>1, <4>1 DEF RankInv
      <4>4. ConfOf(stack[i]) # Nested.conf
        BY <4>1, <4>2, <4>3
      <4> QED BY <3>2, <4>4 DEF ConfOf
    <3> QED BY <3>1, <3>2
  <2> QED BY <1>2, <2>1, <2>2, <2>3
<1>4. stack'[Depth + 1] = f
  BY <1>1 DEF Starts, StackGrows
<1>5. GivesUrl(Nested.conf) <=> Nested.url
  BY UrlGiven
<1>6. before # NoUrl => Nested.url
  <2>1. CASE before = spiders[k].starturl /\ Len(spiders') = Len(spiders) /\ spiders[k].conf = Nested.conf
    <3>1. k \in 1 .. Len(spiders)
      BY <2>1, <1>1 DEF Starts
    <3>2. before # NoUrl => GivesUrl(Nested.conf)
      BY <2>1, <3>1 DEF UrlInv
    <3> QED BY <3>2, <1>5
  <2> QED BY <2>1
<1>7. ASSUME NEW i \in 1 .. Depth', stack'[i].pc \notin {"scan", "exit"}
      PROVE  spiders'[stack'[i].spider].pool # 0
  <2>1. i # Depth + 1
    BY <1>2, <1>4, <1>7
  <2>2. i \in 1 .. Depth
    BY <1>1, <2>1
  <2> QED BY <1>3, <1>7, <2>2 DEF UrlInv
<1>8. ASSUME NEW i \in 1 .. Depth', NEW u, u = spiders'[stack'[i].spider].starturl, u # NoUrl
      PROVE  i > 1 /\ ~ u.freed /\ u.pool = spiders'[stack'[i - 1].spider].pool
  <2>1. CASE i = Depth + 1
    <3>1. u = [pool |-> Spider.pool, freed |-> FALSE]
      BY <2>1, <1>2, <1>4, <1>6, <1>8
    <3>2. i > 1 /\ i - 1 = Depth /\ Depth \in 1 .. Depth
      BY <2>1, <1>1
    <3>3. spiders'[stack'[Depth].spider].pool = Spider.pool
      BY <1>1, <1>3, <3>2 DEF Spider
    <3> QED BY <3>1, <3>2, <3>3
  <2>2. CASE i # Depth + 1
    <3>1. i \in 1 .. Depth
      BY <2>2, <1>1
    <3>2. i > 1 /\ ~ u.freed /\ u.pool = spiders[stack[i - 1].spider].pool
      BY <1>3, <1>8, <3>1 DEF UrlInv
    <3>3. i - 1 \in 1 .. Depth
      BY <3>1, <3>2, <1>1
    <3> QED BY <3>2, <3>3, <1>3
  <2> QED BY <2>1, <2>2
<1>9. ASSUME NEW s \in 1 .. Len(spiders'), spiders'[s].starturl # NoUrl
      PROVE  s > 1 /\ GivesUrl(spiders'[s].conf)
  <2>1. CASE s = k
    <3>1. Nested.url
      BY <2>1, <1>6, <1>9
    <3> QED BY <2>1, <3>1, <1>2, <1>5
  <2>2. CASE s # k
    <3>1. s \in 1 .. Len(spiders)
      BY <2>2, <1>1
    <3> QED BY <2>2, <3>1, <1>2, <1>9 DEF UrlInv
  <2> QED BY <2>1, <2>2
<1> QED
  BY <1>7, <1>8, <1>9 DEF UrlInv

LEMMA UrlsEnd ==
  ASSUME PageTypeOK, StackInv, UrlInv, NEW rank \in [Confs -> Nat], RankInv(rank), RunEnds
  PROVE  UrlInv'
<1>1. stack # <<>> /\ StackShrinks /\ Len(spiders') = Len(spiders)
  BY EndFacts
<1>2. PICK m \in SpiderType :
        /\ m.conf = Spider.conf
        /\ m.starturl # NoUrl => Spider.starturl # NoUrl
        /\ \A s \in 1 .. Len(spiders) : spiders'[s] = IF s = Me THEN m ELSE spiders[s]
  BY EndFacts
<1>3. Depth \in Nat \ {0} /\ Depth' = Depth - 1
  BY <1>1, TopFacts DEF StackShrinks
<1>4. ASSUME NEW i \in 1 .. Depth - 1
      PROVE  /\ i \in 1 .. Depth /\ stack'[i].pc = stack[i].pc
             /\ spiders'[stack'[i].spider] = spiders[stack[i].spider]
  <2>1. i \in 1 .. Depth /\ i # Depth /\ Depth \in 1 .. Depth
    BY <1>3
  <2>2. stack[i].spider \in 1 .. Len(spiders) /\ stack[i].spider # Me
    BY <2>1, FrameAt, Distinct DEF Me, Top
  <2> QED BY <1>1, <1>2, <2>1, <2>2 DEF StackShrinks
<1>5. ASSUME NEW i \in 1 .. Depth', stack'[i].pc \notin {"scan", "exit"}
      PROVE  spiders'[stack'[i].spider].pool # 0
  BY <1>3, <1>4, <1>5 DEF UrlInv
<1>6. ASSUME NEW i \in 1 .. Depth', NEW u, u = spiders'[stack'[i].spider].starturl, u # NoUrl
      PROVE  i > 1 /\ ~ u.freed /\ u.pool = spiders'[stack'[i - 1].spider].pool
  <2>1. i > 1 /\ ~ u.freed /\ u.pool = spiders[stack[i - 1].spider].pool
    BY <1>3, <1>4, <1>6 DEF UrlInv
  <2>2. i - 1 \in 1 .. Depth - 1
    BY <1>3, <2>1
  <2> QED BY <1>4, <2>1, <2>2
<1>7. \A s \in 1 .. Len(spiders') : spiders'[s].starturl # NoUrl => s > 1 /\ GivesUrl(spiders'[s].conf)
  BY <1>1, <1>2 DEF UrlInv, Spider
<1> QED
  BY <1>5, <1>6, <1>7 DEF UrlInv

LEMMA UrlsKept ==
  ASSUME PageTypeOK, StackInv, [Next]_vars, UrlsAgree,
         NEW rank \in [Confs -> Nat], NestsDown(rank), RankInv(rank), UrlInv
  PROVE  RankInv(rank)' /\ UrlInv'
<1>1. CASE UNCHANGED vars
  <2>1. UNCHANGED <<stack, spiders, Depth>>
    BY <1>1 DEF vars, memory, Depth
  <2> QED BY <2>1 DEF RankInv, UrlInv, ConfOf
<1>2. CASE ~ UNCHANGED vars
  <2>1. stack # <<>>
    BY <1>2, Stops
  <2>2. CASE MovesOn
    <3>1. PICK f \in FrameType : GoesOn(f) /\ StackBecomes(f)
      BY <2>1, <2>2, MoveFacts
    <3>2. SpidersAlike /\ ConfsAlike
      BY <2>1, <2>2, MoveFacts DEF SpidersAlike, ConfsAlike
    <3> QED BY <2>1, <3>1, <3>2, UrlsAlike, RankAlike DEF GoesOn
  <2>3. CASE SetsVariable
    <3>1. PICK f \in FrameType : GoesOn(f) /\ StackBecomes(f)
      BY <2>1, <2>3, SetFacts
    <3>2. SpidersAlike /\ ConfsAlike
      BY <2>1, <2>3, SetFacts DEF SpidersAlike, ConfsAlike
    <3> QED BY <2>1, <3>1, <3>2, UrlsAlike, RankAlike DEF GoesOn
  <2>4. CASE BeginsPage
    <3>1. PICK f \in FrameType : f.spider = Top.spider /\ StackBecomes(f)
      BY <2>4, BeginFacts
    <3>2. ConfsAlike
      BY <2>4, BeginFacts DEF ConfsAlike, Spider
    <3> QED BY <2>1, <2>4, <3>1, <3>2, UrlsBegin, RankAlike
  <2>5. CASE SpawnKnown
    <3>1. PICK k \in 2 .. Len(spiders), f \in FrameType :
              /\ Starts(k, f) /\ Len(spiders') = Len(spiders) /\ spiders[k].conf = Nested.conf
              /\ spiders'[k].starturl = IF Nested.url THEN [pool |-> Spider.pool, freed |-> FALSE]
                                        ELSE spiders[k].starturl
      BY <2>5, KnownStarts
    <3>2. Spawning
      BY <2>5, KnownStarts
    <3>3. ConfsAlike
      BY <3>1 DEF Starts, ConfsAlike
    <3>4. PICK before : before = spiders[k].starturl
      OBVIOUS
    <3> QED BY <2>1, <3>1, <3>2, <3>3, <3>4, UrlsStart, RankGrows
  <2>6. CASE SpawnNew
    <3>1. PICK k \in Nat, f \in FrameType :
              /\ Starts(k, f) /\ k = Len(spiders) + 1 /\ Len(spiders') = k
              /\ spiders'[k].starturl = IF Nested.url THEN [pool |-> Spider.pool, freed |-> FALSE]
                                        ELSE NoUrl
      BY <2>6, NewStarts
    <3>2. Spawning
      BY <2>6, NewStarts
    <3>3. ConfsAlike
      <4>1. \A s \in 1 .. Len(spiders) : s # k
        BY <3>1
      <4> QED BY <3>1, <4>1 DEF Starts, ConfsAlike
    <3> QED BY <2>1, <3>1, <3>2, <3>3, UrlsStart, RankGrows
  <2>7. CASE RunEnds
    <3>1. StackShrinks /\ ConfsAlike
      BY <2>7, EndFacts DEF ConfsAlike, Spider
    <3> QED BY <2>1, <2>7, <3>1, UrlsEnd, RankShrinks
  <2> QED BY <1>2, <2>2, <2>3, <2>4, <2>5, <2>6, <2>7, Steps
<1> QED
  BY <1>1, <1>2

\* If no configuration starts itself and the rules that start one agree on its url,
\* a nested spider never fetches a start url that was freed with its caller's pool
\* (main.c:170, sf_pcre.c:452, 476).
THEOREM StartUrlsLive ==
  ASSUME NEW rank \in [Confs -> Nat], NestsDown(rank), UrlsAgree
  PROVE  Spec => []StartUrlLive
<1> DEFINE Inv == PageTypeOK /\ StackInv /\ PoolInv /\ RankInv(rank) /\ UrlInv
<1>1. Init => Inv
  <2> SUFFICES ASSUME Init PROVE RankInv(rank) /\ UrlInv
    BY TypeInit, PoolsInit
  <2>1. Depth = 1 /\ stack[1].pc = "scan" /\ stack[1].spider = 1 /\ Len(spiders) = 1
        /\ spiders[1].starturl = NoUrl
    BY InitFacts DEF Frame
  <2> QED BY <2>1 DEF RankInv, UrlInv
<1>2. Inv /\ [Next]_vars => Inv'
  BY TypeKept, PoolsKept, UrlsKept
<1>3. Inv => StartUrlLive
  <2> SUFFICES ASSUME Inv, At("scan"), Spider.starturl # NoUrl
               PROVE  Spider.starturl.pool \in live /\ ~ Spider.starturl.freed
    BY DEF StartUrlLive
  <2>1. Depth \in Nat \ {0} /\ Me = stack[Depth].spider
    BY TopFacts DEF At, Me, Top
  <2>2. /\ Depth > 1 /\ ~ Spider.starturl.freed
        /\ Spider.starturl.pool = spiders[stack[Depth - 1].spider].pool
    BY <2>1 DEF UrlInv, Spider
  <2>3. Depth - 1 \in 1 .. Depth - 1 /\ Depth - 1 \in 1 .. Depth
    BY <2>1, <2>2
  <2>4. stack[Depth - 1].pc = "spawn" /\ stack[Depth - 1].spider \in 1 .. Len(spiders)
    BY <2>3, FrameAt DEF StackInv
  <2>5. spiders[stack[Depth - 1].spider].pool # 0
    BY <2>3, <2>4 DEF UrlInv
  <2> QED BY <2>2, <2>4, <2>5 DEF PoolInv
<1> HIDE DEF Inv
<1> QED
  BY <1>1, <1>2, <1>3, PTL DEF Spec

----------------------------------------------------------------------------
(* The table of the first thread.                                          *)

\* The sentinel begins a table of variables in t.
Rooted(t) == (\E w : Holds(t, Sentinel, w)) /\ t.name[Sentinel] = Blank

\* In t the variable x is unset or was set on page p or later.
Since(t, x, p) ==
  LET v == VarSearch(t, Sentinel, x) IN v # NULL => t.born[v] >= p

LEMMA RootedIs ==
  ASSUME NEW t, IsTable(t), Rooted(t)
  PROVE  /\ Holds(t, Sentinel, Walk(t, Sentinel)) /\ Sentinel \in Nodes(t) /\ Sentinel # NULL
         /\ \A x : VarSearch(t, Sentinel, x) \in {NULL} \cup Nodes(t)
<1>1. PICK w : Holds(t, Sentinel, w)
  BY DEF Rooted
<1>2. Walk(t, Sentinel) = w /\ \A i \in 1 .. Len(w) : w[i] \in Nodes(t)
  BY <1>1, WalkIs, HoldsFacts
<1>3. Sentinel # NULL
  BY DEF Sentinel, NULL
<1>4. Sentinel \in Nodes(t)
  <2>1. Len(w) \in Nat /\ Sentinel = IF Len(w) = 0 THEN NULL ELSE w[1]
    BY <1>1, HoldsFacts
  <2> QED BY <2>1, <1>2, <1>3
<1>5. ASSUME NEW x PROVE VarSearch(t, Sentinel, x) \in {NULL} \cup Nodes(t)
  <2>1. VarSearch(t, Sentinel, x) # NULL =>
          \E i \in 1 .. Len(w) : t.name[w[i]] = x /\ VarSearch(t, Sentinel, x) = w[i]
    BY <1>1, SearchIs
  <2> QED BY <2>1, <1>2
<1> QED
  BY <1>1, <1>2, <1>3, <1>4, <1>5

LEMMA SentinelIff ==
  ASSUME PageTypeOK
  PROVE  SentinelInv <=> /\ \A i \in 1 .. Depth : spiders[stack[i].spider].handle = Sentinel
                         /\ Rooted(table)
<1>1. IsTable(table)
  BY DEF PageTypeOK
<1>2. Rooted(table) => Holds(table, Sentinel, Walk(table, Sentinel)) /\ table.name[Sentinel] = Blank
  BY <1>1, RootedIs DEF Rooted
<1> QED
  BY <1>2 DEF SentinelInv, Rooted

\* A variable that a spider sets or deletes leaves the sentinel where it is, and
\* every other variable as old as it was.
LEMMA PutsRooted ==
  ASSUME PageTypeOK, Named, Rooted(table), Spider.handle = Sentinel,
         NEW name \in DOMAIN Text, NEW r, Puts(r, name)
  PROVE  /\ Rooted(r.table) /\ r.root = Sentinel
         /\ \A x : \A p \in Nat : p <= pages /\ (x = name \/ Since(table, x, p)) => Since(r.table, x, p)
<1> DEFINE t == table  h == Sentinel
<1>1. IsTable(t) /\ pages \in Nat /\ Rooted(t)
  BY DEF PageTypeOK
<1>2. PICK w : Holds(t, h, w)
  BY DEF Rooted
<1>3. h \in Nodes(t) /\ h # NULL /\ \A x : VarSearch(t, h, x) \in {NULL} \cup Nodes(t)
  BY <1>1, RootedIs
<1>4. name \in String /\ name # Blank /\ t.name[h] # name
  BY PageAssumption DEF Named, Rooted
<1>5. CASE \E text \in String : r = VarInsert(table, Spider.handle, name, text, pages)
  <2>1. PICK text \in String : r = VarInsert(t, h, name, text, pages)
    BY <1>5
  <2> HIDE DEF t, h
  <2>2. /\ IsTable(r.table) /\ Len(t.name) \in Nat
        /\ h # NULL /\ t.name[h] # name => r.root = h
        /\ \E u : Holds(r.table, r.root, u)
        /\ \A v \in Nodes(t) : r.table.name[v] = t.name[v] /\ r.table.born[v] = t.born[v]
        /\ r.table.born[Len(t.name) + 1] = pages
        /\ Finds(r, name, Len(t.name) + 1, t, h)
    BY <1>1, <1>2, <1>4, <2>1, InsertIs
  <2>3. r.root = h
    BY <2>2, <1>3, <1>4
  <2>4. Rooted(r.table)
    BY <2>2, <2>3, <1>1, <1>3 DEF Rooted, h
  <2>5. ASSUME NEW x, NEW p \in Nat, p <= pages, x = name \/ Since(t, x, p) PROVE Since(r.table, x, p)
    <3>1. VarSearch(r.table, h, x) = IF x = name THEN Len(t.name) + 1 ELSE VarSearch(t, h, x)
      BY <2>2, <2>3 DEF Finds
    <3>2. CASE x = name
      <4>1. r.table.born[VarSearch(r.table, h, x)] = pages
        BY <3>1, <3>2, <2>2
      <4> QED BY <4>1, <2>5, <1>1 DEF Since, h
    <3>3. CASE x # name
      <4>1. VarSearch(r.table, h, x) = VarSearch(t, h, x)
        BY <3>1, <3>3
      <4> QED BY <4>1, <3>3, <2>2, <2>5, <1>3 DEF Since, h
    <3> QED BY <3>2, <3>3
  <2> QED BY <2>3, <2>4, <2>5 DEF t, h
<1>6. CASE r = VarDelete(table, Spider.handle, name)
  <2>1. r = VarDelete(t, h, name)
    BY <1>6
  <2> HIDE DEF t, h
  <2>2. /\ IsTable(r.table) /\ Leaves(t, w, r.table)
        /\ h # NULL /\ t.name[h] # name => r.root = h
        /\ Keeps(t, w, name, r)
        /\ Finds(r, name, NULL, t, h)
    BY <1>1, <1>2, <2>1, DeleteIs
  <2>3. r.root = h
    BY <2>2, <1>3, <1>4
  <2>4. r.table.name = t.name /\ r.table.born = t.born
    BY <2>2 DEF Leaves
  <2>5. Rooted(r.table)
    BY <2>2, <2>3, <2>4, <1>1 DEF Rooted, Keeps, h
  <2>6. ASSUME NEW x, NEW p \in Nat, p <= pages, x = name \/ Since(t, x, p) PROVE Since(r.table, x, p)
    <3>1. VarSearch(r.table, h, x) = IF x = name THEN NULL ELSE VarSearch(t, h, x)
      BY <2>2, <2>3 DEF Finds
    <3> QED BY <3>1, <2>4, <2>6 DEF Since, h
  <2> QED BY <2>3, <2>5, <2>6 DEF t, h
<1> QED
  BY <1>5, <1>6 DEF Puts

\* The variables preset for a nested spider join the table of no other.
LEMMA PresetRooted ==
  ASSUME NEW t, IsTable(t), Rooted(t), NEW c \in Confs, NEW r, r = Preset(t, NULL, c)
  PROVE  /\ Rooted(r.table)
         /\ \A x, p : Since(t, x, p) => Since(r.table, x, p)
<1> DEFINE none == <<>>  h == Sentinel
<1>1. none \in Seq(Nodes(t)) /\ Len(none) = 0
  OBVIOUS
<1> HIDE DEF none, h
<1>2. Holds(t, NULL, none)
  <2>1. /\ Len(none) <= Len(t.name) /\ NULL = IF Len(none) = 0 THEN NULL ELSE none[1]
        /\ \A i, j \in 1 .. Len(none) : none[i] = none[j] => i = j
        /\ \A i, j \in 1 .. Len(none) : t.name[none[i]] = t.name[none[j]] => i = j
        /\ \A i \in 1 .. Len(none) : t.next[none[i]] = none[IF i = Len(none) THEN 1 ELSE i + 1]
        /\ \A i \in 1 .. Len(none) : t.prev[none[i]] = none[IF i = 1 THEN Len(none) ELSE i - 1]
    BY <1>1 DEF IsTable
  <2> QED BY <1>1, <2>1, HoldsIf
<1>3. Grown(r, t, NULL, none)
  BY <1>2, PresetIs
<1>4. /\ IsTable(r.table) /\ Len(t.name) <= Len(r.table.name)
      /\ \A v \in Nodes(t) : /\ r.table.name[v] = t.name[v] /\ r.table.born[v] = t.born[v]
                             /\ r.table.next[v] = t.next[v] /\ r.table.prev[v] = t.prev[v]
  BY <1>1, <1>3 DEF Grown
<1>5. PICK w : Holds(t, h, w)
  BY DEF Rooted, h
<1>6. \A i \in 1 .. Len(w) : w[i] \in Nodes(t)
  BY <1>5, HoldsFacts
<1>7. Holds(r.table, h, w) /\ \A x : VarSearch(r.table, h, x) = VarSearch(t, h, x)
  BY <1>4, <1>5, <1>6, HoldsElsewhere
<1>8. h \in Nodes(t) /\ \A x : VarSearch(t, h, x) \in {NULL} \cup Nodes(t)
  BY RootedIs DEF h
<1>9. Rooted(r.table)
  BY <1>4, <1>7, <1>8 DEF Rooted, h
<1>10. ASSUME NEW x, NEW p, Since(t, x, p) PROVE Since(r.table, x, p)
  BY <1>4, <1>7, <1>8, <1>10 DEF Since, h
<1> QED
  BY <1>9, <1>10

LEMMA FirstRooted ==
  ASSUME Named, FirstThread
  PROVE  Rooted(FirstTable.table) /\ FirstTable.root = Sentinel
<1> DEFINE t == Alone  h == Sentinel  w == <<Sentinel>>  p == Preset(t, h, MainConf)
<1>1. FirstTable = p
  BY DEF FirstTable, Alone, Sentinel
<1>2. /\ IsTable(t) /\ t.name[h] = Blank /\ Holds(t, h, w) /\ h \in Nodes(t) /\ h # NULL
  BY AloneFacts DEF Nodes, Sentinel, NULL
<1>3. MainConf \in Confs
  BY PageAssumption
<1> HIDE DEF t, h, w, p
<1>4. \A i \in 1 .. Len(PresetsOf(MainConf)) : PresetsOf(MainConf)[i].name # t.name[h]
  BY <1>2, <1>3 DEF Named, PresetsOf
<1>5. p = Preset(t, h, MainConf)
  BY DEF p
<1>6. /\ Grown(p, t, h, w) /\ Within(p, t, w)
      /\ (h # NULL /\ \A i \in 1 .. Len(PresetsOf(MainConf)) : PresetsOf(MainConf)[i].name # t.name[h])
           => p.root = h
  BY <1>2, <1>3, <1>5, PresetIs
<1>7. p.root = h
  BY <1>2, <1>4, <1>6
<1>8. p.table.name[h] = Blank
  BY <1>2, <1>6 DEF Grown
<1>9. \E u : Holds(p.table, h, u)
  BY <1>6, <1>7 DEF Within
<1> QED
  BY <1>1, <1>7, <1>8, <1>9 DEF Rooted, h

LEMMA HandlesAlike ==
  ASSUME PageTypeOK, StackInv, stack # <<>>,
         \A i \in 1 .. Depth : spiders[stack[i].spider].handle = Sentinel,
         SpidersAlike, spiders'[Me].handle = Sentinel,
         NEW f, StackBecomes(f), f.spider = Top.spider
  PROVE  \A i \in 1 .. Depth' : spiders'[stack'[i].spider].handle = Sentinel
<1>1. Depth' = Depth /\ \A i \in 1 .. Depth : stack'[i].spider = stack[i].spider
  BY SameRunning DEF StackBecomes
<1>2. ASSUME NEW i \in 1 .. Depth PROVE spiders'[stack'[i].spider].handle = Sentinel
  <2>1. stack[i].spider \in 1 .. Len(spiders)
    BY FrameAt
  <2> QED BY <1>1, <2>1 DEF SpidersAlike
<1> QED
  BY <1>1, <1>2

LEMMA HandlesStart ==
  ASSUME PageTypeOK, StackInv, stack # <<>>,
         \A i \in 1 .. Depth : spiders[stack[i].spider].handle = Sentinel,
         NEW k, NEW f, Starts(k, f)
  PROVE  \A i \in 1 .. Depth' : spiders'[stack'[i].spider].handle = Sentinel
<1>1. /\ Depth \in Nat \ {0} /\ Depth' = Depth + 1 /\ f.spider = k
      /\ \A i \in 1 .. Depth + 1 : stack'[i] = IF i = Depth + 1 THEN f ELSE stack[i]
  BY TopFacts DEF Starts, StackGrows
<1>2. Spider = spiders[stack[Depth].spider] /\ Spider.handle = Sentinel
  BY <1>1 DEF Spider, Me, Top
<1>3. spiders'[k].handle = Sentinel
  BY <1>2 DEF Starts
<1>4. ASSUME NEW i \in 1 .. Depth PROVE spiders'[stack'[i].spider].handle = Sentinel
  <2>1. stack'[i] = stack[i] /\ stack[i].spider \in 1 .. Len(spiders)
    BY <1>1, FrameAt
  <2>2. CASE stack[i].spider = k
    BY <2>1, <2>2, <1>3
  <2>3. CASE stack[i].spider # k
    BY <2>1, <2>3 DEF Starts
  <2> QED BY <2>2, <2>3
<1> QED
  BY <1>1, <1>3, <1>4

LEMMA HandlesEnd ==
  ASSUME PageTypeOK, StackInv, RunEnds,
         \A i \in 1 .. Depth : spiders[stack[i].spider].handle = Sentinel
  PROVE  \A i \in 1 .. Depth' : spiders'[stack'[i].spider].handle = Sentinel
<1>1. stack # <<>> /\ StackShrinks
  BY EndFacts
<1>2. PICK m \in SpiderType :
        /\ m.handle = Spider.handle
        /\ \A s \in 1 .. Len(spiders) : spiders'[s] = IF s = Me THEN m ELSE spiders[s]
  BY EndFacts
<1>3. Depth \in Nat \ {0} /\ Depth' = Depth - 1 /\ Spider = spiders[Me]
  BY <1>1, TopFacts DEF StackShrinks, Spider
<1>4. ASSUME NEW i \in 1 .. Depth - 1 PROVE spiders'[stack'[i].spider].handle = Sentinel
  <2>1. i \in 1 .. Depth
    BY <1>3
  <2>2. stack'[i].spider = stack[i].spider /\ stack[i].spider \in 1 .. Len(spiders)
    BY <1>1, <2>1, FrameAt DEF StackShrinks
  <2> QED BY <2>1, <2>2, <1>2, <1>3
<1> QED
  BY <1>3, <1>4

LEMMA SentinelInit ==
  ASSUME Init, FirstThread, Named
  PROVE  SentinelInv
<1>1. PageTypeOK
  BY TypeInit
<1>2. table = FirstTable.table /\ spiders[1].handle = FirstTable.root /\ Depth = 1 /\ stack[1].spider = 1
  BY InitFacts DEF Init, Frame
<1>3. Rooted(table) /\ \A i \in 1 .. Depth : spiders[stack[i].spider].handle = Sentinel
  BY <1>2, FirstRooted
<1> QED
  BY <1>1, <1>3, SentinelIff

\* The innermost spider has its handle on the sentinel too.
LEMMA SentinelTop ==
  ASSUME PageTypeOK, StackInv, stack # <<>>, SentinelInv
  PROVE  Spider.handle = Sentinel /\ Rooted(table)
<1>1. Depth \in 1 .. Depth /\ Spider = spiders[stack[Depth].spider]
  BY TopFacts DEF Spider, Me, Top
<1> QED
  BY <1>1, SentinelIff

LEMMA SentinelKept ==
  ASSUME PageTypeOK, StackInv, PageTypeOK', [Next]_vars, Named, SentinelInv
  PROVE  SentinelInv'
<1>1. (\A i \in 1 .. Depth : spiders[stack[i].spider].handle = Sentinel) /\ Rooted(table)
  BY SentinelIff
<1>2. SUFFICES (\A i \in 1 .. Depth' : spiders'[stack'[i].spider].handle = Sentinel) /\ Rooted(table')
  <2>1. IsTable(table')
    BY DEF PageTypeOK
  <2>2. Rooted(table') => Holds(table', Sentinel, Walk(table', Sentinel)) /\ table'.name[Sentinel] = Blank
    BY <2>1, RootedIs DEF Rooted
  <2> QED BY <2>2 DEF SentinelInv
<1>3. CASE UNCHANGED vars
  <2>1. UNCHANGED <<stack, spiders, table, Depth>>
    BY <1>3 DEF vars, memory, Depth
  <2> QED BY <1>1, <2>1
<1>4. CASE ~ UNCHANGED vars
  <2>1. stack # <<>>
    BY <1>4, Stops
  <2>2. Spider.handle = Sentinel
    BY <2>1, SentinelTop
  <2>3. CASE MovesOn
    <3>1. PICK f \in FrameType : GoesOn(f) /\ StackBecomes(f)
      BY <2>1, <2>3, MoveFacts
    <3>2. SpidersAlike /\ spiders'[Me].handle = Spider.handle /\ table' = table
      BY <2>1, <2>3, MoveFacts
    <3> QED BY <2>1, <2>2, <1>1, <3>1, <3>2, HandlesAlike DEF GoesOn
  <2>4. CASE SetsVariable
    <3>1. PICK f \in FrameType, name \in DOMAIN Text :
              /\ GoesOn(f) /\ StackBecomes(f)
              /\ \E r : Puts(r, name) /\ table' = r.table /\ spiders'[Me].handle = r.root
      BY <2>1, <2>4, SetFacts
    <3>2. PICK r : Puts(r, name) /\ table' = r.table /\ spiders'[Me].handle = r.root
      BY <3>1
    <3>3. SpidersAlike
      BY <2>1, <2>4, SetFacts
    <3>4. Rooted(r.table) /\ r.root = Sentinel
      BY <1>1, <2>2, <3>1, <3>2, PutsRooted
    <3> QED BY <2>1, <1>1, <3>1, <3>2, <3>3, <3>4, HandlesAlike DEF GoesOn
  <2>5. CASE BeginsPage
    <3>1. PICK f \in FrameType : f.spider = Top.spider /\ StackBecomes(f)
      BY <2>5, BeginFacts
    <3>2. PICK m \in SpiderType :
            /\ m.handle = Spider.handle
            /\ \A s \in 1 .. Len(spiders) : spiders'[s] = IF s = Me THEN m ELSE spiders[s]
      BY <2>5, BeginFacts
    <3>3. table' = table
      BY <2>5, BeginFacts
    <3>4. Depth' = Depth /\ \A i \in 1 .. Depth : stack'[i].spider = stack[i].spider
      BY <2>1, <3>1, SameRunning DEF StackBecomes
    <3>5. ASSUME NEW i \in 1 .. Depth PROVE spiders'[stack'[i].spider].handle = Sentinel
      <4>1. stack[i].spider \in 1 .. Len(spiders)
        BY FrameAt
      <4> QED BY <4>1, <1>1, <2>2, <3>2, <3>4
    <3> QED BY <1>1, <3>3, <3>4, <3>5
  <2>6. CASE SpawnKnown
    <3>1. PICK k \in 2 .. Len(spiders), f \in FrameType : Starts(k, f)
      BY <2>6, KnownStarts
    <3>2. table' = table
      BY <2>6, KnownStarts
    <3> QED BY <2>1, <1>1, <3>1, <3>2, HandlesStart
  <2>7. CASE SpawnNew
    <3>1. PICK k \in Nat, f \in FrameType : Starts(k, f)
      BY <2>7, NewStarts
    <3>2. table' = Preset(table, NULL, Nested.conf).table /\ Nested.conf \in Confs
      BY <2>7, NewStarts, NestedFacts
    <3>3. PICK r : r = Preset(table, NULL, Nested.conf)
      OBVIOUS
    <3>4. IsTable(table)
      BY DEF PageTypeOK
    <3>5. Rooted(r.table)
      BY <1>1, <3>2, <3>3, <3>4, PresetRooted
    <3> QED BY <2>1, <1>1, <3>1, <3>2, <3>3, <3>5, HandlesStart
  <2>8. CASE RunEnds
    <3>1. table' = table
      BY <2>8, EndFacts
    <3> QED BY <2>8, <1>1, <3>1, HandlesEnd
  <2> QED BY <1>4, <2>3, <2>4, <2>5, <2>6, <2>7, <2>8, Steps
<1> QED
  BY <1>3, <1>4

LEMMA OneHandle ==
  ASSUME PageTypeOK, StackInv, SentinelInv
  PROVE  HandlesHold /\ OneTable
<1>1. \A h \in Handles : h = Sentinel
  BY DEF Handles, SentinelInv
<1>2. /\ IsTable(table) /\ Holds(table, Sentinel, Walk(table, Sentinel))
  BY DEF PageTypeOK, SentinelInv
<1>3. SearchEnds(table, Sentinel)
  BY <1>2, SearchIs
<1>4. IsInjective([i \in 1 .. Len(Walk(table, Sentinel)) |-> table.name[Walk(table, Sentinel)[i]]])
  <2> DEFINE w == Walk(table, Sentinel)
  <2>1. \A i, j \in 1 .. Len(w) : table.name[w[i]] = table.name[w[j]] => i = j
    BY <1>2 DEF Holds
  <2> HIDE DEF w
  <2>2. IsInjective([i \in 1 .. Len(w) |-> table.name[w[i]]])
    BY <2>1 DEF IsInjective
  <2> QED BY <2>2 DEF w
<1>5. HandlesHold
  BY <1>1, <1>3, <1>4 DEF HandlesHold, SearchesEnd
<1>6. OneTable
  BY <1>1 DEF OneTable
<1> QED
  BY <1>5, <1>6

\* In the first thread, if no variable is without a name, every running spider has
\* a table of distinct names that its searches walk to the end (sf_var.c:35-39),
\* however spiders nest and whatever they set or delete.
THEOREM HandlesLive ==
  ASSUME FirstThread, Named
  PROVE  Spec => []HandlesHold
<1> DEFINE Inv == PageTypeOK /\ StackInv /\ SentinelInv
<1>1. Init => Inv
  BY TypeInit, SentinelInit
<1>2. Inv /\ [Next]_vars => Inv'
  BY TypeKept, SentinelKept
<1>3. Inv => HandlesHold
  BY OneHandle
<1> HIDE DEF Inv
<1> QED
  BY <1>1, <1>2, <1>3, PTL DEF Spec

\* The same tables are one: a nested spider sees its caller's variables, since
\* the handle was copied (sf_pcre.c:459).
THEOREM VariablesShared ==
  ASSUME FirstThread, Named
  PROVE  Spec => []OneTable
<1> DEFINE Inv == PageTypeOK /\ StackInv /\ SentinelInv
<1>1. Init => Inv
  BY TypeInit, SentinelInit
<1>2. Inv /\ [Next]_vars => Inv'
  BY TypeKept, SentinelKept
<1>3. Inv => OneTable
  BY OneHandle
<1> HIDE DEF Inv
<1> QED
  BY <1>1, <1>2, <1>3, PTL DEF Spec

----------------------------------------------------------------------------
(* What the rules that are done leave behind.                              *)

\* What a frame is done with depends on where it is.
LEMMA DoneAlike ==
  ASSUME NEW f, NEW g, spiders'[g.spider].conf = spiders[f.spider].conf,
         g.policy = f.policy, g.rule = f.rule, g.pc = f.pc,
         (g.cap = f.cap /\ g.rep = f.rep) \/ f.pc = "spawn", NEW name
  PROVE  Done(g, name)' <=> Done(f, name)
<1>1. RulesOf(g)' = RulesOf(f)
  BY DEF RulesOf, ConfOf
<1>2. CASE f.pc = "spawn"
  BY <1>1, <1>2 DEF Done
<1>3. CASE g.cap = f.cap /\ g.rep = f.rep
  BY <1>1, <1>3 DEF Done
<1> QED
  BY <1>2, <1>3

\* A frame at no rule is done with none.
LEMMA DoneNone ==
  ASSUME NEW f, f.rule = 0, f.pc \in {"scan", "fetch"}, NEW name
  PROVE  ~ Done(f, name)'
BY DEF Done

LEMMA FreshSince ==
  ASSUME NEW f, NEW name
  PROVE  Fresh(f, name) <=> Since(table, name, f.page)
BY DEF Fresh, Since

\* The frames that wait are done with what they were done with.
LEMMA FreshWaiting ==
  ASSUME PageTypeOK, StackInv, FreshInv, ConfsAlike,
         NEW i \in 1 .. Depth, NEW g, g = stack[i], NEW name \in DOMAIN Text, Done(g, name)'
  PROVE  Since(table, name, g.page) /\ g.page \in Nat /\ g.page <= pages
<1>1. g \in FrameType /\ FrameOK(g) /\ g.spider \in 1 .. Len(spiders)
  BY FrameAt
<1>2. Done(g, name)
  BY <1>1, DoneAlike DEF ConfsAlike
<1>3. Fresh(g, name)
  BY <1>2 DEF FreshInv
<1> QED
  BY <1>1, <1>3, FreshSince DEF FrameType, FrameOK

\* So is the innermost as it goes on as f, but for those of set.
LEMMA FreshTop ==
  ASSUME PageTypeOK, StackInv, stack # <<>>, FreshInv, ConfsAlike,
         NEW f \in FrameType, GoesOn(f), NEW set, \A x : Done(f, x) => Done(Top, x) \/ x \in set,
         NEW x \in DOMAIN Text, Done(f, x)'
  PROVE  (x \in set \/ Since(table, x, f.page)) /\ f.page \in Nat /\ f.page <= pages
<1>1. Top \in FrameType /\ FrameOK(Top) /\ Me \in 1 .. Len(spiders) /\ f.spider = Me /\ f.page = Top.page
  BY TopFacts DEF GoesOn, Me
<1>2. Done(f, x)
  BY <1>1, DoneAlike DEF ConfsAlike
<1>3. Done(Top, x) => Fresh(Top, x)
  <2>1. Depth \in 1 .. Depth /\ Top = stack[Depth]
    BY TopFacts DEF Top
  <2> QED BY <2>1 DEF FreshInv
<1> QED
  BY <1>1, <1>2, <1>3, FreshSince DEF FrameType, FrameOK

LEMMA FreshMoves ==
  ASSUME PageTypeOK, StackInv, stack # <<>>, FreshInv, ConfsAlike, Depth \in Nat,
         NEW f \in FrameType, GoesOn(f), StackBecomes(f),
         NEW set, \A x : Done(f, x) => Done(Top, x) \/ x \in set,
         \A x : \A p \in Nat : p <= pages /\ (x \in set \/ Since(table, x, p)) => Since(table', x, p)
  PROVE  FreshInv'
<1>1. SUFFICES ASSUME NEW i \in 1 .. Depth', NEW x \in DOMAIN Text, NEW g, g = stack'[i], Done(g, x)'
               PROVE  Since(table', x, g.page)
  BY DEF FreshInv, Fresh, Since
<1>2. i \in 1 .. Depth /\ g = IF i = Depth THEN f ELSE stack[i]
  BY <1>1 DEF StackBecomes
<1>3. CASE i = Depth
  <2>1. g = f
    BY <1>2, <1>3
  <2>2. (x \in set \/ Since(table, x, g.page)) /\ g.page \in Nat /\ g.page <= pages
    BY <1>1, <2>1, FreshTop
  <2> QED BY <2>2
<1>4. CASE i # Depth
  <2>1. Since(table, x, g.page) /\ g.page \in Nat /\ g.page <= pages
    BY <1>1, <1>2, <1>4, FreshWaiting
  <2> QED BY <2>1
<1> QED
  BY <1>3, <1>4

LEMMA FreshBegins ==
  ASSUME PageTypeOK, StackInv, FreshInv, BeginsPage
  PROVE  FreshInv'
<1>1. stack # <<>> /\ table' = table
  BY BeginFacts
<1>2. PICK f \in FrameType : f.pc = "fetch" /\ f.rule = 0 /\ StackBecomes(f)
  BY BeginFacts
<1>3. ConfsAlike
  BY BeginFacts DEF ConfsAlike, Spider
<1>4. SUFFICES ASSUME NEW i \in 1 .. Depth', NEW x \in DOMAIN Text, NEW g, g = stack'[i], Done(g, x)'
               PROVE  Since(table', x, g.page)
  BY DEF FreshInv, Fresh, Since
<1>5. i \in 1 .. Depth /\ g = IF i = Depth THEN f ELSE stack[i]
  BY <1>2, <1>4 DEF StackBecomes
<1>6. g # f
  <2> SUFFICES ASSUME g = f PROVE FALSE
    OBVIOUS
  <2> QED BY <1>2, <1>4, DoneNone
<1>7. g = stack[i]
  BY <1>5, <1>6
<1> QED
  BY <1>1, <1>3, <1>4, <1>5, <1>7, FreshWaiting

LEMMA FreshStarts ==
  ASSUME PageTypeOK, StackInv, stack # <<>>, FreshInv, ConfsAlike, NEW k, NEW f, Starts(k, f),
         \A x, p : Since(table, x, p) => Since(table', x, p)
  PROVE  FreshInv'
<1>1. Depth \in Nat /\ StackGrows(f) /\ f.rule = 0 /\ f.pc = "scan"
  BY TopFacts DEF Starts
<1>2. SUFFICES ASSUME NEW i \in 1 .. Depth', NEW x \in DOMAIN Text, NEW g, g = stack'[i], Done(g, x)'
               PROVE  Since(table', x, g.page)
  BY DEF FreshInv, Fresh, Since
<1>3. i \in 1 .. Depth + 1 /\ g = IF i = Depth + 1 THEN f ELSE stack[i]
  BY <1>1, <1>2 DEF StackGrows
<1>4. g # f
  <2> SUFFICES ASSUME g = f PROVE FALSE
    OBVIOUS
  <2> QED BY <1>1, <1>2, DoneNone
<1>5. i \in 1 .. Depth /\ g = stack[i]
  BY <1>1, <1>3, <1>4
<1>6. Since(table, x, g.page)
  BY <1>2, <1>5, FreshWaiting
<1> QED
  BY <1>6

LEMMA FreshEnds ==
  ASSUME PageTypeOK, StackInv, FreshInv, RunEnds
  PROVE  FreshInv'
<1>1. stack # <<>> /\ table' = table /\ StackShrinks /\ Depth \in Nat \ {0}
  BY EndFacts, TopFacts
<1>2. ConfsAlike
  BY EndFacts DEF ConfsAlike, Spider
<1>3. SUFFICES ASSUME NEW i \in 1 .. Depth', NEW x \in DOMAIN Text, NEW g, g = stack'[i], Done(g, x)'
               PROVE  Since(table', x, g.page)
  BY DEF FreshInv, Fresh, Since
<1>4. i \in 1 .. Depth - 1 /\ i \in 1 .. Depth
  BY <1>1, <1>3 DEF StackShrinks
<1>5. PICK f : f = stack[i]
  OBVIOUS
<1>6. /\ g.spider = f.spider /\ g.pc = f.pc /\ g.page = f.page /\ g.policy = f.policy
      /\ g.rule = f.rule /\ f.pc = "spawn"
  BY <1>1, <1>3, <1>4, <1>5 DEF StackShrinks, StackInv
<1>7. f.spider \in 1 .. Len(spiders)
  BY <1>4, <1>5, FrameAt
<1>8. Done(f, x)
  BY <1>2, <1>3, <1>6, <1>7, DoneAlike DEF ConfsAlike
<1>9. Fresh(f, x)
  BY <1>4, <1>5, <1>8 DEF FreshInv
<1> QED
  BY <1>1, <1>6, <1>9, FreshSince

LEMMA FreshKept ==
  ASSUME PageTypeOK, StackInv, [Next]_vars, Named, SentinelInv, FreshInv
  PROVE  FreshInv'
<1>1. CASE UNCHANGED vars
  <2>1. UNCHANGED <<stack, spiders, table, Depth>>
    BY <1>1 DEF vars, memory, Depth
  <2> QED BY <2>1, ZenonT(40) DEF FreshInv, Fresh, Done, RulesOf, ConfOf
<1>2. CASE ~ UNCHANGED vars
  <2>1. stack # <<>> /\ Depth \in Nat
    BY <1>2, Stops, TopFacts
  <2>2. Spider.handle = Sentinel /\ Rooted(table) /\ IsTable(table)
    BY <2>1, SentinelTop DEF PageTypeOK
  <2>3. CASE MovesOn
    <3>1. PICK f \in FrameType : /\ GoesOn(f) /\ StackBecomes(f)
                                 /\ \A name : Done(f, name) => Done(Top, name)
      BY <2>1, <2>3, MoveFacts
    <3>2. ConfsAlike /\ table' = table
      BY <2>1, <2>3, MoveFacts DEF SpidersAlike, ConfsAlike
    <3>3. PICK set : set = {}
      OBVIOUS
    <3> QED BY <2>1, <3>1, <3>2, <3>3, FreshMoves
  <2>4. CASE SetsVariable
    <3>1. PICK f \in FrameType, name \in DOMAIN Text :
              /\ GoesOn(f) /\ StackBecomes(f)
              /\ \A x : Done(f, x) => Done(Top, x) \/ x = name
              /\ \E r : Puts(r, name) /\ table' = r.table /\ spiders'[Me].handle = r.root
      BY <2>1, <2>4, SetFacts
    <3>2. PICK r : Puts(r, name) /\ table' = r.table
      BY <3>1
    <3>3. ConfsAlike
      BY <2>1, <2>4, SetFacts DEF SpidersAlike, ConfsAlike
    <3>4. \A x : \A p \in Nat : p <= pages /\ (x = name \/ Since(table, x, p)) => Since(table', x, p)
      BY <2>2, <3>1, <3>2, PutsRooted
    <3>5. PICK set : set = {name}
      OBVIOUS
    <3>6. \A x : x \in set <=> x = name
      BY <3>5
    <3>7. \A x : Done(f, x) => Done(Top, x) \/ x \in set
      BY <3>1, <3>6
    <3>8. \A x : \A p \in Nat : p <= pages /\ (x \in set \/ Since(table, x, p)) => Since(table', x, p)
      BY <3>4, <3>6
    <3> QED BY <2>1, <3>1, <3>3, <3>7, <3>8, FreshMoves
  <2>5. CASE BeginsPage
    BY <2>5, FreshBegins
  <2>6. CASE SpawnKnown
    <3>1. PICK k \in 2 .. Len(spiders), f \in FrameType : Starts(k, f) /\ spiders[k].conf = Nested.conf
      BY <2>6, KnownStarts
    <3>2. table' = table
      BY <2>6, KnownStarts
    <3>3. ConfsAlike
      BY <3>1 DEF Starts, ConfsAlike
    <3> QED BY <2>1, <3>1, <3>2, <3>3, FreshStarts
  <2>7. CASE SpawnNew
    <3>1. PICK k \in Nat, f \in FrameType : Starts(k, f) /\ k = Len(spiders) + 1
      BY <2>7, NewStarts
    <3>2. table' = Preset(table, NULL, Nested.conf).table /\ Nested.conf \in Confs
      BY <2>7, NewStarts, NestedFacts
    <3>3. PICK r : r = Preset(table, NULL, Nested.conf)
      OBVIOUS
    <3>4. \A x, p : Since(table, x, p) => Since(table', x, p)
      BY <2>2, <3>2, <3>3, PresetRooted
    <3>5. ConfsAlike
      <4>1. \A s \in 1 .. Len(spiders) : s # k
        BY <3>1
      <4> QED BY <3>1, <4>1 DEF Starts, ConfsAlike
    <3> QED BY <2>1, <3>1, <3>4, <3>5, FreshStarts
  <2>8. CASE RunEnds
    BY <2>8, FreshEnds
  <2> QED BY <1>2, <2>3, <2>4, <2>5, <2>6, <2>7, <2>8, Steps
<1> QED
  BY <1>1, <1>2

LEMMA AllFresh ==
  ASSUME PageTypeOK, StackInv, SentinelInv, FreshInv
  PROVE  FreshVars
<1>1. SUFFICES ASSUME NEW i \in 1 .. Depth, NEW f, f = stack[i], f.rule > 0,
                      NEW r \in 1 .. f.rule - 1,
                      NEW rule, rule = Policies[spiders[f.spider].conf][f.policy][r],
                      rule.repeat > 0, NEW name \in Names(rule)
               PROVE  LET v == VarSearch(table, spiders[f.spider].handle, name)
                      IN v # NULL => table.born[v] >= f.page
  BY DEF FreshVars
<1>2. f \in FrameType /\ FrameOK(f) /\ ConfOf(f) \in Confs
  BY <1>1, FrameAt
<1>3. rule = RulesOf(f)[r] /\ spiders[f.spider].handle = Sentinel
  BY <1>1 DEF RulesOf, ConfOf, SentinelInv
<1>4. name \in DOMAIN Text
  <2>1. /\ Policies[ConfOf(f)] \in Seq(Seq(RuleType)) /\ f.policy \in 1 .. Len(Policies[ConfOf(f)])
        /\ RulesOf(f) \in Seq(RuleType)
    <3>1. Policies[ConfOf(f)] \in Seq(Seq(RuleType))
      BY <1>2, PageAssumption
    <3>2. f.policy \in 1 .. Len(Policies[ConfOf(f)])
      BY <1>1, <1>2 DEF FrameOK
    <3> QED BY <3>1, <3>2 DEF RulesOf
  <2>2. f.rule <= Len(RulesOf(f)) + 1 /\ f.rule \in Nat
    <3>1. f.pc \in AtRule /\ f.rule \in Nat
      BY <1>1, <1>2 DEF FrameOK, FrameType
    <3>2. f.pc = "rule" \/ f.pc \in InRule
      BY <3>1 DEF AtRule
    <3> QED BY <3>1, <3>2, <1>2, <2>1 DEF FrameOK
  <2>3. r \in 1 .. Len(RulesOf(f))
    BY <2>1, <2>2
  <2>4. rule \in Rules
    <3>1. rule \in {Policies[ConfOf(f)][f.policy][j] : j \in 1 .. Len(Policies[ConfOf(f)][f.policy])}
      BY <1>3, <2>3 DEF RulesOf
    <3>2. rule \in UNION {{Policies[ConfOf(f)][k][j] : j \in 1 .. Len(Policies[ConfOf(f)][k])}
                            : k \in 1 .. Len(Policies[ConfOf(f)])}
      BY <3>1, <2>1
    <3> QED BY <3>2, <1>2 DEF Rules
  <2>5. PICK n \in 1 .. Len(rule.caps) : name = rule.caps[n].store
    BY <1>1 DEF Names
  <2> QED BY <2>4, <2>5, PageAssumption
<1>5. Done(f, name)
  BY <1>1, <1>3 DEF Done
<1>6. Fresh(f, name)
  BY <1>1, <1>4, <1>5 DEF FreshInv
<1> QED
  BY <1>3, <1>6 DEF Fresh

\* In the first thread, if no variable is without a name, a rule that is done with a
\* page leaves nothing of an earlier page in its variables (sf_pcre.c:262-289): they
\* were set on this page or deleted, through whatever handle.
THEOREM NothingStale ==
  ASSUME FirstThread, Named
  PROVE  Spec => []FreshVars
<1> DEFINE Inv == PageTypeOK /\ StackInv /\ SentinelInv /\ FreshInv
<1>1. Init => Inv
  <2> SUFFICES ASSUME Init PROVE FreshInv
    BY TypeInit, SentinelInit
  <2>1. Depth = 1 /\ stack[1].rule = 0 /\ stack[1].pc = "scan"
    BY InitFacts DEF Frame
  <2> QED BY <2>1 DEF FreshInv, Done
<1>2. Inv /\ [Next]_vars => Inv'
  BY TypeKept, SentinelKept, FreshKept
<1>3. Inv => FreshVars
  BY AllFresh
<1> HIDE DEF Inv
<1> QED
  BY <1>1, <1>2, <1>3, PTL DEF Spec

----------------------------------------------------------------------------
(* What a reader makes of the tokens that are printed.                     *)

\* What a reader can expect.
Mark == {"doc", "end", "first", "more", "item", "names", "member", "members", "name"}

\* The buffer was read as far as s, unless it is full.
Holding(b, s) ==
  /\ b.len \in Nat /\ b.read # Bad
  /\ b.len < JsonMax => b.read = s

\* The reader is inside of around and expects x there, and the printer knows
\* whether a comma is due.
Expects(o, around, x) ==
  /\ o.enter <=> x \in {"doc", "first", "names"}
  /\ o.afterkey <=> x = "member"
  /\ Holding(o.buf, Append(around, x))

\* Where a value may begin, and what is expected when it has ended.
BeforeValue == {"doc", "first", "more", "member"}
Past(x) == CASE x = "doc" -> "end" [] x \in {"first", "more"} -> "more" [] x = "member" -> "members"

LEMMA LastFront ==
  ASSUME NEW R \in Seq(Mark), NEW x \in Mark
  PROVE  /\ Last(Append(R, x)) = x /\ Front(Append(R, x)) = R
         /\ Append(R, x) \in Seq(Mark) /\ Append(R, x) # Bad
<1>1. Append(R, x) \in Seq(Mark) /\ Len(Append(R, x)) = Len(R) + 1 /\ Append(R, x)[Len(R) + 1] = x
  OBVIOUS
<1>2. Last(Append(R, x)) = x
  BY <1>1 DEF Last
<1>3. Front(Append(R, x)) = R
  BY DEF Front
<1>4. Append(R, x) # Bad
  <2>1. SUFFICES ASSUME Append(R, x) = Bad PROVE FALSE
    OBVIOUS
  <2>2. Len(Append(R, x)) = 1 /\ Append(R, x)[1] = "bad"
    BY <2>1 DEF Bad
  <2>3. x # "bad"
    BY DEF Mark
  <2>4. Len(R) + 1 = 1
    BY <1>1, <2>2
  <2> QED BY <1>1, <2>2, <2>3, <2>4
<1> QED
  BY <1>1, <1>2, <1>3, <1>4

LEMMA ReadIs ==
  ASSUME NEW R \in Seq(Mark), NEW x \in Mark
  PROVE  /\ x \in {"doc", "first", "item", "member"} =>
              /\ Read(Append(R, x), "[") = Append(Append(R, AfterValue[x]), "first")
              /\ Read(Append(R, x), "{") = Append(Append(R, AfterValue[x]), "names")
              /\ Read(Append(R, x), "value") = Append(R, AfterValue[x])
         /\ x \in {"names", "name"} => Read(Append(R, x), "key") = Append(R, "member")
         /\ x = "more" => Read(Append(R, x), ",") = Append(R, "item")
         /\ x = "members" => Read(Append(R, x), ",") = Append(R, "name")
         /\ x \in {"first", "more"} => Read(Append(R, x), "]") = R
         /\ x \in {"names", "members"} => Read(Append(R, x), "}") = R
<1> DEFINE s == Append(R, x)
<1>1. Last(s) = x /\ Front(s) = R
  BY LastFront DEF Mark
<1>2. DOMAIN AfterValue = {"doc", "first", "item", "member"}
  BY DEF AfterValue
<1> HIDE DEF s
<1>3. x \in {"doc", "first", "item", "member"} =>
              /\ Read(s, "[") = Append(Append(R, AfterValue[x]), "first")
              /\ Read(s, "{") = Append(Append(R, AfterValue[x]), "names")
              /\ Read(s, "value") = Append(R, AfterValue[x])
  <2> DEFINE y == AfterValue[x]  P == Append(R, y)
  <2>1. ASSUME x \in {"doc", "first", "item", "member"}
        PROVE  P \o <<"first">> = Append(P, "first") /\ P \o <<"names">> = Append(P, "names")
    <3>1. y \in Mark
      BY <2>1 DEF AfterValue, Mark
    <3>2. P \in Seq(Mark)
      BY <3>1, LastFront DEF Mark
    <3> HIDE DEF P
    <3> QED BY <3>2
  <2> QED BY <1>1, <1>2, <2>1 DEF Read
<1>4. x \in {"names", "name"} => Read(s, "key") = Append(R, "member")
  BY <1>1, <1>2 DEF Read
<1>5. /\ x = "more" => Read(s, ",") = Append(R, "item")
      /\ x = "members" => Read(s, ",") = Append(R, "name")
  BY <1>1, <1>2 DEF Read
<1>6. /\ x \in {"first", "more"} => Read(s, "]") = R
      /\ x \in {"names", "members"} => Read(s, "}") = R
  BY <1>1, <1>2 DEF Read
<1> QED
  BY <1>3, <1>4, <1>5, <1>6 DEF s

LEMMA PutIs ==
  ASSUME NEW b, NEW s, NEW token, Holding(b, s), Read(s, token) # Bad
  PROVE  Holding(Put(b, token), Read(s, token))
<1>1. JsonMax \in Nat
  BY JsonAssumption
<1>2. CASE b.len + 1 > JsonMax
  BY <1>1, <1>2 DEF Put, Holding
<1>3. CASE ~ (b.len + 1 > JsonMax)
  <2>1. Put(b, token) = [len |-> b.len + 1, read |-> Read(s, token)]
    BY <1>1, <1>3 DEF Put, Holding
  <2> QED BY <2>1 DEF Holding
<1> QED
  BY <1>2, <1>3

\* A token that is expected, with the comma that is due.
LEMMA PrintValue ==
  ASSUME NEW o, NEW R \in Seq(Mark), NEW x \in BeforeValue, Expects(o, R, x)
  PROVE  /\ Expects(PrintField(o, "["), Append(R, Past(x)), "first")
         /\ Expects(PrintField(o, "{"), Append(R, Past(x)), "names")
         /\ Expects(PrintField(o, "value"), R, Past(x))
<1>1. /\ x \in Mark /\ Past(x) \in Mark
      /\ Past(x) \notin {"doc", "first", "names", "member"}
  BY DEF BeforeValue, Past, Mark
<1> DEFINE y == IF x = "more" THEN "item" ELSE x
           b == IF x = "more" THEN Put(o.buf, ",") ELSE o.buf
<1>2. y \in {"doc", "first", "item", "member"} /\ AfterValue[y] = Past(x)
  BY DEF BeforeValue, Past, AfterValue
<1>3. Holding(b, Append(R, y))
  <2>1. Holding(o.buf, Append(R, x))
    BY DEF Expects
  <2>2. CASE x = "more"
    <3>1. Read(Append(R, x), ",") = Append(R, "item") /\ Append(R, "item") # Bad
      BY <2>2, ReadIs, LastFront DEF Mark
    <3> QED BY <2>1, <2>2, <3>1, PutIs
  <2> QED BY <2>1, <2>2
<1>4. \A token \in {"[", "{", "value"} : PrintField(o, token).buf = Put(b, token)
  <2>1. \A token \in {"[", "{", "value"} : token \notin Closing
    BY DEF Closing
  <2>2. (~ o.enter /\ ~ o.afterkey) <=> x = "more"
    BY DEF Expects, BeforeValue
  <2> QED BY <2>1, <2>2 DEF PrintField
<1> DEFINE P == Append(R, Past(x))
<1>5. /\ P \in Seq(Mark) /\ P # Bad
      /\ Append(P, "first") # Bad /\ Append(P, "names") # Bad
  <2>1. P \in Seq(Mark) /\ P # Bad
    BY <1>1, LastFront DEF Mark
  <2> HIDE DEF P
  <2> QED BY <2>1, LastFront DEF Mark
<1>6. /\ Read(Append(R, y), "[") = Append(P, "first")
      /\ Read(Append(R, y), "{") = Append(P, "names")
      /\ Read(Append(R, y), "value") = P
  <2>1. y \in {"doc", "first", "item", "member"} /\ y \in Mark
    BY <1>2 DEF Mark
  <2> HIDE DEF y, b
  <2> QED BY <1>2, <2>1, ReadIs
<1> HIDE DEF b, y
<1>7. /\ Holding(PrintField(o, "[").buf, Append(P, "first"))
      /\ Holding(PrintField(o, "{").buf, Append(P, "names"))
      /\ Holding(PrintField(o, "value").buf, P)
  BY <1>3, <1>4, <1>5, <1>6, PutIs
<1>8. /\ PrintField(o, "[").enter /\ ~ PrintField(o, "[").afterkey
      /\ PrintField(o, "{").enter /\ ~ PrintField(o, "{").afterkey
      /\ ~ PrintField(o, "value").enter /\ ~ PrintField(o, "value").afterkey
  BY DEF PrintField
<1> QED
  BY <1>1, <1>7, <1>8 DEF Expects

LEMMA PrintKey ==
  ASSUME NEW o, NEW R \in Seq(Mark), NEW x \in {"names", "members"}, Expects(o, R, x)
  PROVE  Expects(PrintField(o, "key"), R, "member")
<1> DEFINE y == IF x = "members" THEN "name" ELSE x
           b == IF x = "members" THEN Put(o.buf, ",") ELSE o.buf
<1>1. Holding(b, Append(R, y)) /\ y \in {"names", "name"}
  <2>1. Holding(o.buf, Append(R, x))
    BY DEF Expects
  <2>2. CASE x = "members"
    <3>1. Read(Append(R, x), ",") = Append(R, "name") /\ Append(R, "name") # Bad
      BY <2>2, ReadIs, LastFront DEF Mark
    <3> QED BY <2>1, <2>2, <3>1, PutIs
  <2> QED BY <2>1, <2>2
<1>2. PrintField(o, "key").buf = Put(b, "key")
  <2>1. "key" \notin Closing
    BY DEF Closing
  <2>2. (~ o.enter /\ ~ o.afterkey) <=> x = "members"
    BY DEF Expects
  <2> QED BY <2>1, <2>2 DEF PrintField
<1>3. Read(Append(R, y), "key") = Append(R, "member") /\ Append(R, "member") # Bad
  <2>1. y \in {"names", "name"} /\ y \in Mark /\ "member" \in Mark
    BY <1>1 DEF Mark
  <2> HIDE DEF y, b
  <2> QED BY <2>1, ReadIs, LastFront
<1> HIDE DEF b, y
<1>4. Holding(PrintField(o, "key").buf, Append(R, "member"))
  BY <1>1, <1>2, <1>3, PutIs
<1>5. ~ PrintField(o, "key").enter /\ PrintField(o, "key").afterkey
  BY DEF PrintField
<1> QED
  BY <1>4, <1>5 DEF Expects

\* What closes needs no comma.
LEMMA PrintClosing ==
  ASSUME NEW o, NEW R \in Seq(Mark), NEW y \in {"end", "more", "members"}, NEW x,
         Expects(o, Append(R, y), x)
  PROVE  /\ x \in {"first", "more"} => Expects(PrintField(o, "]"), R, y)
         /\ x \in {"names", "members"} => Expects(PrintField(o, "}"), R, y)
<1> DEFINE P == Append(R, y)
<1>1. P \in Seq(Mark) /\ P # Bad
  BY LastFront DEF Mark
<1>2. PrintField(o, "]").buf = Put(o.buf, "]") /\ PrintField(o, "}").buf = Put(o.buf, "}")
  BY DEF PrintField, Closing
<1>3. /\ ~ PrintField(o, "]").enter /\ ~ PrintField(o, "]").afterkey
      /\ ~ PrintField(o, "}").enter /\ ~ PrintField(o, "}").afterkey
  BY DEF PrintField
<1>4. Holding(o.buf, Append(P, x))
  BY DEF Expects
<1> HIDE DEF P
<1>5. ASSUME x \in {"first", "more"} PROVE Holding(PrintField(o, "]").buf, P)
  <2>1. x \in Mark
    BY <1>5 DEF Mark
  <2>2. Read(Append(P, x), "]") = P
    BY <1>1, <1>5, <2>1, ReadIs
  <2> QED BY <1>1, <1>2, <1>4, <2>2, PutIs
<1>6. ASSUME x \in {"names", "members"} PROVE Holding(PrintField(o, "}").buf, P)
  <2>1. x \in Mark
    BY <1>6 DEF Mark
  <2>2. Read(Append(P, x), "}") = P
    BY <1>1, <1>6, <2>1, ReadIs
  <2> QED BY <1>1, <1>2, <1>4, <2>2, PutIs
<1> QED
  BY <1>3, <1>5, <1>6 DEF Expects, P

\* Tokens are printed one after the other, from the first.
LEMMA PrintSteps ==
  ASSUME NEW o, NEW tokens, Len(tokens) \in Nat
  PROVE  \E put : /\ PrintFields(o, tokens) = put[Len(tokens)] /\ put[0] = o
                  /\ \A i \in 1 .. Len(tokens) : put[i] = PrintField(put[i - 1], tokens[i])
<1> DEFINE n == Len(tokens)
           D(v, i) == PrintField(v, tokens[i])
           Is(g, k) == g = [i \in 0 .. k |-> IF i = 0 THEN o ELSE D(g[i - 1], i)]
           Lacking  == {k \in Nat : ~ \E g : Is(g, k)}
           put      == CHOOSE g : Is(g, n)
<1>1. PrintFields(o, tokens) = put[n]
  BY DEF PrintFields
<1>2. n \in Nat
  OBVIOUS
<1> HIDE DEF D, n
<1>3. ASSUME Lacking # {} PROVE FALSE
  <2>1. PICK k \in Lacking : \A l \in Lacking : k <= l
    BY <1>3, LeastNatural
  <2>2. CASE k = 0
    <3>1. Is([i \in 0 .. 0 |-> o], 0)
      OBVIOUS
    <3> QED BY <2>1, <2>2, <3>1
  <2>3. CASE k > 0
    <3>1. k - 1 \in Nat /\ k - 1 \notin Lacking /\ k \in Nat
      <4> HIDE DEF Lacking
      <4>1. k \in Nat
        BY <2>1 DEF Lacking
      <4> QED BY <2>1, <2>3, <4>1
    <3>2. PICK g : Is(g, k - 1)
      BY <3>1
    <3> DEFINE h == [i \in 0 .. k |-> IF i = k THEN D(g[k - 1], k) ELSE g[i]]
    <3>3. \A i \in 0 .. k : h[i] = IF i = 0 THEN o ELSE D(h[i - 1], i)
      <4>1. \A i \in 0 .. k - 1 : g[i] = IF i = 0 THEN o ELSE D(g[i - 1], i)
        BY <3>2
      <4>2. \A i \in 0 .. k : i < k => h[i] = g[i] /\ (i > 0 => h[i - 1] = g[i - 1])
        BY <3>1
      <4>3. h[k] = D(g[k - 1], k) /\ h[k - 1] = g[k - 1]
        BY <3>1, <2>3
      <4> HIDE DEF h
      <4>4. ASSUME NEW i \in 0 .. k PROVE h[i] = IF i = 0 THEN o ELSE D(h[i - 1], i)
        <5>1. CASE i = k
          BY <5>1, <4>3, <2>3
        <5>2. CASE i # k
          <6>1. i \in 0 .. k - 1 /\ i < k
            BY <5>2, <3>1
          <6> QED BY <6>1, <4>1, <4>2
        <5> QED BY <5>1, <5>2
      <4> QED BY <4>4
    <3>4. h = [i \in 0 .. k |-> IF i = 0 THEN o ELSE D(h[i - 1], i)]
      BY <3>3
    <3>5. Is(h, k)
      BY <3>4
    <3> QED BY <2>1, <3>5
  <2> QED BY <2>1, <2>2, <2>3
<1>4. \E g : Is(g, n)
  BY <1>3, <1>2
<1>5. Is(put, n)
  BY <1>4
<1>6. \A i \in 0 .. n : put[i] = IF i = 0 THEN o ELSE D(put[i - 1], i)
  <2> HIDE DEF put
  <2> QED BY <1>5, <1>2
<1> HIDE DEF put
<1>7. /\ put[0] = o
      /\ \A i \in 1 .. n : put[i] = D(put[i - 1], i)
  BY <1>6, <1>2
<1> QED
  BY <1>1, <1>7 DEF D, n

\* A rule opens an element, {key: [, and closes it.
InArray == {"first", "more"}
InElement(R) == Append(Append(R, "more"), "members")

LEMMA ArrayFacts ==
  ASSUME NEW R \in Seq(Mark)
  PROVE  /\ \A x \in InArray : x \in BeforeValue /\ Past(x) = "more"
         /\ "member" \in BeforeValue /\ Past("member") = "members"
         /\ Append(R, "more") \in Seq(Mark) /\ InElement(R) \in Seq(Mark)
<1>1. "more" \in Mark /\ "members" \in Mark
  BY DEF Mark
<1> DEFINE P == Append(R, "more")
<1>2. P \in Seq(Mark)
  BY <1>1, LastFront
<1>3. Append(P, "members") \in Seq(Mark)
  <2> HIDE DEF P
  <2> QED BY <1>1, <1>2, LastFront
<1> QED
  BY <1>2, <1>3 DEF InArray, BeforeValue, Past, InElement

LEMMA Opens ==
  ASSUME NEW p, NEW R \in Seq(Mark), NEW x \in InArray, Expects(p, R, x),
         NEW q, q = PrintField(p, "{"), NEW r, r = PrintField(q, "key"), NEW s, s = PrintField(r, "[")
  PROVE  Expects(s, InElement(R), "first")
<1> DEFINE P == Append(R, "more")
<1>1. /\ x \in BeforeValue /\ Past(x) = "more" /\ "member" \in BeforeValue /\ Past("member") = "members"
      /\ P \in Seq(Mark)
  BY ArrayFacts
<1>2. Expects(q, P, "names")
  BY <1>1, PrintValue
<1> HIDE DEF P
<1>3. Expects(r, P, "member")
  BY <1>1, <1>2, PrintKey
<1>4. Expects(s, Append(P, "members"), "first")
  BY <1>1, <1>3, PrintValue
<1> QED
  BY <1>4 DEF P, InElement

LEMMA Closes ==
  ASSUME NEW p, NEW R \in Seq(Mark), NEW x \in InArray, Expects(p, InElement(R), x),
         NEW q, q = PrintField(p, "]"), NEW r, r = PrintField(q, "}")
  PROVE  Expects(r, R, "more")
<1> DEFINE P == Append(R, "more")
<1>1. P \in Seq(Mark)
  BY ArrayFacts
<1>2. Expects(p, Append(P, "members"), x)
  BY DEF InElement
<1> HIDE DEF P
<1>3. Expects(q, P, "members")
  BY <1>1, <1>2, PrintClosing DEF InArray
<1> QED
  BY <1>3, PrintClosing DEF P

\* {key: value}
LEMMA PrintsMember ==
  ASSUME NEW p, NEW R \in Seq(Mark), NEW x \in InArray, Expects(p, R, x),
         NEW q, q = PrintField(p, "{"), NEW r, r = PrintField(q, "key"),
         NEW s, s = PrintField(r, "value"), NEW t, t = PrintField(s, "}")
  PROVE  Expects(t, R, "more")
<1> DEFINE P == Append(R, "more")
<1>1. /\ x \in BeforeValue /\ Past(x) = "more" /\ "member" \in BeforeValue /\ Past("member") = "members"
      /\ P \in Seq(Mark)
  BY ArrayFacts
<1>2. Expects(q, P, "names")
  BY <1>1, PrintValue
<1> HIDE DEF P
<1>3. Expects(r, P, "member")
  BY <1>1, <1>2, PrintKey
<1>4. Expects(s, P, "members")
  BY <1>1, <1>3, PrintValue
<1> QED
  BY <1>4, PrintClosing DEF P

LEMMA OpensElement ==
  ASSUME NEW o, NEW R \in Seq(Mark), NEW x \in InArray, Expects(o, R, x)
  PROVE  Expects(PrintFields(o, <<"{", "key", "[">>), InElement(R), "first")
<1> DEFINE tokens == <<"{", "key", "[">>
<1>1. tokens[1] = "{" /\ tokens[2] = "key" /\ tokens[3] = "["
  OBVIOUS
<1>2. Len(tokens) = 3
  OBVIOUS
<1> HIDE DEF tokens
<1>3. Len(tokens) \in Nat
  BY <1>2
<1>4. PICK put : /\ PrintFields(o, tokens) = put[Len(tokens)] /\ put[0] = o
                 /\ \A i \in 1 .. Len(tokens) : put[i] = PrintField(put[i - 1], tokens[i])
  BY <1>3, PrintSteps
<1>5. /\ PrintFields(o, tokens) = put[3] /\ put[1] = PrintField(o, tokens[1])
      /\ put[2] = PrintField(put[1], tokens[2]) /\ put[3] = PrintField(put[2], tokens[3])
  BY <1>2, <1>4
<1>6. put[1] = PrintField(o, "{") /\ put[2] = PrintField(put[1], "key") /\ put[3] = PrintField(put[2], "[")
  BY <1>1, <1>5, Zenon
<1> QED
  BY <1>5, <1>6, Opens DEF tokens

LEMMA ClosesElement ==
  ASSUME NEW o, NEW R \in Seq(Mark), NEW x \in InArray, Expects(o, InElement(R), x)
  PROVE  Expects(PrintFields(o, <<"]", "}">>), R, "more")
<1> DEFINE tokens == <<"]", "}">>
<1>1. tokens[1] = "]" /\ tokens[2] = "}"
  OBVIOUS
<1>2. Len(tokens) = 2
  OBVIOUS
<1> HIDE DEF tokens
<1>3. Len(tokens) \in Nat
  BY <1>2
<1>4. PICK put : /\ PrintFields(o, tokens) = put[Len(tokens)] /\ put[0] = o
                 /\ \A i \in 1 .. Len(tokens) : put[i] = PrintField(put[i - 1], tokens[i])
  BY <1>3, PrintSteps
<1>5. /\ PrintFields(o, tokens) = put[2] /\ put[1] = PrintField(o, tokens[1])
      /\ put[2] = PrintField(put[1], tokens[2])
  BY <1>2, <1>4
<1>6. put[1] = PrintField(o, "]") /\ put[2] = PrintField(put[1], "}")
  BY <1>1, <1>5, Zenon
<1> QED
  BY <1>5, <1>6, Closes DEF tokens

\* What the feedback prints is a value of the array: the report of a fetch, and
\* the list of the lines that are left, of one or none.
Begins(tokens) == tokens[1] = "{" /\ tokens[2] = "key" /\ tokens[3] = "["
Lists(tokens)  == tokens[4] = "{" /\ tokens[5] = "key" /\ tokens[6] = "value" /\ tokens[7] = "}"
Ends(tokens, i) == tokens[i] = "]" /\ tokens[i + 1] = "}"

Full(tokens)  == Len(tokens) = 9 /\ Begins(tokens) /\ Lists(tokens) /\ Ends(tokens, 8)
Short(tokens) == Len(tokens) = 5 /\ Begins(tokens) /\ Ends(tokens, 4)

LEMMA PrintsNine ==
  ASSUME NEW o, NEW R \in Seq(Mark), NEW x \in InArray, Expects(o, R, x),
         NEW tokens, Full(tokens)
  PROVE  Expects(PrintFields(o, tokens), R, "more")
<1> DEFINE n == Len(tokens)
<1>1. n \in Nat
  BY DEF Full
<1>2. n = 9
  BY DEF Full
<1>3. PICK put : /\ PrintFields(o, tokens) = put[n] /\ put[0] = o
                 /\ \A i \in 1 .. n : put[i] = PrintField(put[i - 1], tokens[i])
  BY <1>1, PrintSteps
<1> HIDE DEF n
<1>4. /\ put[1] = PrintField(o, tokens[1]) /\ put[2] = PrintField(put[1], tokens[2])
      /\ put[3] = PrintField(put[2], tokens[3]) /\ put[4] = PrintField(put[3], tokens[4])
      /\ put[5] = PrintField(put[4], tokens[5]) /\ put[6] = PrintField(put[5], tokens[6])
      /\ put[7] = PrintField(put[6], tokens[7]) /\ put[8] = PrintField(put[7], tokens[8])
      /\ put[9] = PrintField(put[8], tokens[8 + 1]) /\ PrintFields(o, tokens) = put[9]
  BY <1>2, <1>3
<1>5. "first" \in InArray /\ "more" \in InArray /\ InElement(R) \in Seq(Mark)
  BY ArrayFacts DEF InArray
<1>6. Expects(put[3], InElement(R), "first")
  <2>1. put[1] = PrintField(o, "{") /\ put[2] = PrintField(put[1], "key") /\ put[3] = PrintField(put[2], "[")
    BY <1>4, Zenon DEF Full, Begins
  <2> QED BY <2>1, Opens
<1>7. Expects(put[7], InElement(R), "more")
  <2>1. /\ put[4] = PrintField(put[3], "{") /\ put[5] = PrintField(put[4], "key")
        /\ put[6] = PrintField(put[5], "value") /\ put[7] = PrintField(put[6], "}")
    BY <1>4, Zenon DEF Full, Lists
  <2> QED BY <1>5, <1>6, <2>1, PrintsMember
<1>8. Expects(put[9], R, "more")
  <2>1. put[8] = PrintField(put[7], "]") /\ put[9] = PrintField(put[8], "}")
    BY <1>4, Zenon DEF Full, Ends
  <2> QED BY <1>5, <1>7, <2>1, Closes
<1> QED
  BY <1>4, <1>8

LEMMA PrintsFive ==
  ASSUME NEW o, NEW R \in Seq(Mark), NEW x \in InArray, Expects(o, R, x),
         NEW tokens, Short(tokens)
  PROVE  Expects(PrintFields(o, tokens), R, "more")
<1> DEFINE n == Len(tokens)
<1>1. n \in Nat
  BY DEF Short
<1>2. n = 5
  BY DEF Short
<1>3. PICK put : /\ PrintFields(o, tokens) = put[n] /\ put[0] = o
                 /\ \A i \in 1 .. n : put[i] = PrintField(put[i - 1], tokens[i])
  BY <1>1, PrintSteps
<1> HIDE DEF n
<1>4. /\ put[1] = PrintField(o, tokens[1]) /\ put[2] = PrintField(put[1], tokens[2])
      /\ put[3] = PrintField(put[2], tokens[3]) /\ put[4] = PrintField(put[3], tokens[4])
      /\ put[5] = PrintField(put[4], tokens[4 + 1]) /\ PrintFields(o, tokens) = put[5]
  BY <1>2, <1>3
<1>5. "first" \in InArray
  BY DEF InArray
<1>6. Expects(put[3], InElement(R), "first")
  <2>1. put[1] = PrintField(o, "{") /\ put[2] = PrintField(put[1], "key") /\ put[3] = PrintField(put[2], "[")
    BY <1>4, Zenon DEF Short, Begins
  <2> QED BY <2>1, Opens
<1>7. Expects(put[5], R, "more")
  <2>1. put[4] = PrintField(put[3], "]") /\ put[5] = PrintField(put[4], "}")
    BY <1>4, Zenon DEF Short, Ends
  <2> QED BY <1>5, <1>6, <2>1, Closes
<1> QED
  BY <1>4, <1>7

LEMMA PrintsReport ==
  ASSUME NEW o, NEW R \in Seq(Mark), NEW x \in InArray, Expects(o, R, x)
  PROVE  Expects(PrintFields(o, Report), R, "more")
<1>1. Len(Report) = 9
  BY DEF Report
<1>2. Begins(Report) /\ Lists(Report) /\ Ends(Report, 8)
  BY DEF Begins, Lists, Ends, Report
<1> QED
  BY <1>1, <1>2, PrintsNine DEF Full

LEMMA Pieces ==
  ASSUME NEW S, NEW u \in Seq(S), NEW v \in Seq(S), NEW w \in Seq(S)
  PROVE  LET t == u \o v \o w
         IN  /\ Len(t) = Len(u) + Len(v) + Len(w)
             /\ \A i \in 1 .. Len(u) : t[i] = u[i]
             /\ \A i \in 1 .. Len(v) : t[Len(u) + i] = v[i]
             /\ \A i \in 1 .. Len(w) : t[Len(u) + Len(v) + i] = w[i]
<1> DEFINE uv == u \o v
<1>1. /\ uv \in Seq(S) /\ Len(uv) = Len(u) + Len(v) /\ Len(v) \in Nat /\ Len(u) \in Nat /\ Len(w) \in Nat
      /\ \A i \in 1 .. Len(uv) : uv[i] = IF i <= Len(u) THEN u[i] ELSE v[i - Len(u)]
  BY ConcatProperties
<1> HIDE DEF uv
<1>2. /\ Len(uv \o w) = Len(uv) + Len(w)
      /\ \A i \in 1 .. Len(uv) + Len(w) : (uv \o w)[i] = IF i <= Len(uv) THEN uv[i] ELSE w[i - Len(uv)]
  BY <1>1, ConcatProperties
<1>3. \A i \in 1 .. Len(u) : i \in 1 .. Len(uv) /\ i \in 1 .. Len(uv) + Len(w)
  BY <1>1
<1>4. \A i \in 1 .. Len(v) : /\ Len(u) + i \in 1 .. Len(uv) /\ Len(u) + i \in 1 .. Len(uv) + Len(w)
                             /\ ~ (Len(u) + i <= Len(u)) /\ Len(u) + i - Len(u) = i
  BY <1>1
<1>5. \A i \in 1 .. Len(w) : /\ Len(uv) + i \in 1 .. Len(uv) + Len(w)
                             /\ ~ (Len(uv) + i <= Len(uv)) /\ Len(uv) + i - Len(uv) = i
  BY <1>1
<1>6. \A i \in 1 .. Len(u) : (uv \o w)[i] = u[i]
  BY <1>1, <1>2, <1>3
<1>7. \A i \in 1 .. Len(v) : (uv \o w)[Len(u) + i] = v[i]
  BY <1>1, <1>2, <1>4
<1>8. \A i \in 1 .. Len(w) : (uv \o w)[Len(u) + Len(v) + i] = w[i]
  BY <1>1, <1>2, <1>5
<1> QED
  BY <1>1, <1>2, <1>6, <1>7, <1>8 DEF uv

LEMMA PrintsLeft ==
  ASSUME NEW o, NEW R \in Seq(Mark), NEW x \in InArray, Expects(o, R, x)
  PROVE  \A left \in {<<>>, <<"{", "key", "value", "}">>} :
           Expects(PrintFields(o, <<"{", "key", "[">> \o left \o <<"]", "}">>), R, "more")
<1> DEFINE u == <<"{", "key", "[">>  w == <<"]", "}">>  none == <<>>
           all == <<"{", "key", "value", "}">>
           S == {"{", "key", "[", "]", "}", "value"}
<1>1. u \in Seq(S) /\ w \in Seq(S) /\ all \in Seq(S) /\ none \in Seq(S)
  OBVIOUS
<1>2. Len(u) = 3 /\ Len(w) = 2 /\ Len(all) = 4 /\ Len(none) = 0
  OBVIOUS
<1>3. u[1] = "{" /\ u[2] = "key" /\ u[3] = "["
  OBVIOUS
<1>4. w[1] = "]" /\ w[2] = "}"
  OBVIOUS
<1>5. all[1] = "{" /\ all[2] = "key" /\ all[3] = "value" /\ all[4] = "}"
  OBVIOUS
<1> HIDE DEF u, w, none, all, S
<1>6. Short(u \o none \o w)
  <2> DEFINE t == u \o none \o w
  <2>1. /\ Len(t) = Len(u) + Len(none) + Len(w)
        /\ \A i \in 1 .. Len(u) : t[i] = u[i]
        /\ \A i \in 1 .. Len(w) : t[Len(u) + Len(none) + i] = w[i]
    BY <1>1, Pieces
  <2> HIDE DEF t
  <2>2. Len(t) = 5 /\ t[1] = u[1] /\ t[2] = u[2] /\ t[3] = u[3] /\ t[4] = w[1] /\ t[4 + 1] = w[2]
    BY <1>2, <2>1
  <2> QED BY <1>3, <1>4, <2>2, Zenon DEF Short, Begins, Ends, t
<1>7. Full(u \o all \o w)
  <2> DEFINE t == u \o all \o w
  <2>1. /\ Len(t) = Len(u) + Len(all) + Len(w)
        /\ \A i \in 1 .. Len(u) : t[i] = u[i]
        /\ \A i \in 1 .. Len(all) : t[Len(u) + i] = all[i]
        /\ \A i \in 1 .. Len(w) : t[Len(u) + Len(all) + i] = w[i]
    BY <1>1, Pieces
  <2> HIDE DEF t
  <2>2. /\ Len(t) = 9 /\ t[1] = u[1] /\ t[2] = u[2] /\ t[3] = u[3]
        /\ t[4] = all[1] /\ t[5] = all[2] /\ t[6] = all[3] /\ t[7] = all[4]
        /\ t[8] = w[1] /\ t[8 + 1] = w[2]
    BY <1>2, <2>1
  <2> QED BY <1>3, <1>4, <1>5, <2>2, Zenon DEF Full, Begins, Lists, Ends, t
<1>8. \A t : Short(t) \/ Full(t) => Expects(PrintFields(o, t), R, "more")
  BY PrintsFive, PrintsNine
<1> QED
  BY <1>6, <1>7, <1>8, Zenon DEF u, w, none, all

\* sf_json_print_buf prints one object, whatever is set.
BeginObject(o) == PrintField(o, "{")
EndObject(o)   == PrintField(o, "}")
PrintPair(o)   == PrintFields(o, <<"key", "value">>)

LEMMA VarSteps ==
  ASSUME NEW t, NEW root, NEW names, Len(names) \in Nat
  PROVE  \E put : /\ PrintVars(t, root, names) = EndObject(put[Len(names)])
                  /\ put[0] = BeginObject(out)
                  /\ \A i \in 1 .. Len(names) :
                       put[i] \in {put[i - 1], PrintPair(put[i - 1])}
<1> DEFINE n == Len(names)
           a == BeginObject(out)
           D(v, i) == IF VarSearch(t, root, names[i]) = NULL THEN v ELSE PrintPair(v)
           Is(g, k) == g = [i \in 0 .. k |-> IF i = 0 THEN a ELSE D(g[i - 1], i)]
           Lacking  == {k \in Nat : ~ \E g : Is(g, k)}
           put      == CHOOSE g : Is(g, n)
<1>1. n \in Nat
  OBVIOUS
<1>2. PrintVars(t, root, names) = EndObject(put[n])
  BY Zenon DEF PrintVars, BeginObject, EndObject, PrintPair
<1>3. \A v, i : D(v, i) \in {v, PrintPair(v)}
  BY Zenon
<1> HIDE DEF D, n, a
<1>4. ASSUME Lacking # {} PROVE FALSE
  <2>1. PICK k \in Lacking : \A l \in Lacking : k <= l
    BY <1>4, LeastNatural
  <2>2. CASE k = 0
    <3>1. Is([i \in 0 .. 0 |-> a], 0)
      OBVIOUS
    <3> QED BY <2>1, <2>2, <3>1
  <2>3. CASE k > 0
    <3>1. k - 1 \in Nat /\ k - 1 \notin Lacking /\ k \in Nat
      <4> HIDE DEF Lacking
      <4>1. k \in Nat
        BY <2>1 DEF Lacking
      <4> QED BY <2>1, <2>3, <4>1
    <3>2. PICK g : Is(g, k - 1)
      BY <3>1
    <3> DEFINE h == [i \in 0 .. k |-> IF i = k THEN D(g[k - 1], k) ELSE g[i]]
    <3>3. \A i \in 0 .. k : h[i] = IF i = 0 THEN a ELSE D(h[i - 1], i)
      <4>1. \A i \in 0 .. k - 1 : g[i] = IF i = 0 THEN a ELSE D(g[i - 1], i)
        BY <3>2
      <4>2. \A i \in 0 .. k : i < k => h[i] = g[i] /\ (i > 0 => h[i - 1] = g[i - 1])
        BY <3>1
      <4>3. h[k] = D(g[k - 1], k) /\ h[k - 1] = g[k - 1]
        BY <3>1, <2>3
      <4> HIDE DEF h
      <4>4. ASSUME NEW i \in 0 .. k PROVE h[i] = IF i = 0 THEN a ELSE D(h[i - 1], i)
        <5>1. CASE i = k
          BY <5>1, <4>3, <2>3
        <5>2. CASE i # k
          <6>1. i \in 0 .. k - 1 /\ i < k
            BY <5>2, <3>1
          <6> QED BY <6>1, <4>1, <4>2
        <5> QED BY <5>1, <5>2
      <4> QED BY <4>4
    <3>4. h = [i \in 0 .. k |-> IF i = 0 THEN a ELSE D(h[i - 1], i)]
      BY <3>3
    <3>5. Is(h, k)
      BY <3>4
    <3> QED BY <2>1, <3>5
  <2> QED BY <2>1, <2>2, <2>3
<1>5. \E g : Is(g, n)
  BY <1>1, <1>4
<1>6. Is(put, n)
  BY <1>5
<1>7. \A i \in 0 .. n : put[i] = IF i = 0 THEN a ELSE D(put[i - 1], i)
  <2> HIDE DEF put
  <2> QED BY <1>6
<1> HIDE DEF put
<1>8. /\ put[0] = a
      /\ \A i \in 1 .. n : put[i] = D(put[i - 1], i)
  BY <1>1, <1>7
<1>9. \A i \in 1 .. n : put[i] \in {put[i - 1], PrintPair(put[i - 1])}
  BY <1>8, <1>3, Zenon
<1> QED
  BY <1>2, <1>8, <1>9, Zenon DEF n, a

LEMMA PrintsPair ==
  ASSUME NEW o, NEW P \in Seq(Mark), NEW x \in {"names", "members"}, Expects(o, P, x)
  PROVE  Expects(PrintFields(o, <<"key", "value">>), P, "members")
<1> DEFINE tokens == <<"key", "value">>
<1>1. tokens[1] = "key" /\ tokens[2] = "value"
  OBVIOUS
<1>2. Len(tokens) = 2
  OBVIOUS
<1> HIDE DEF tokens
<1>3. Len(tokens) \in Nat
  BY <1>2
<1>4. PICK put : /\ PrintFields(o, tokens) = put[Len(tokens)] /\ put[0] = o
                 /\ \A i \in 1 .. Len(tokens) : put[i] = PrintField(put[i - 1], tokens[i])
  BY <1>3, PrintSteps
<1>5. /\ PrintFields(o, tokens) = put[2] /\ put[1] = PrintField(o, tokens[1])
      /\ put[2] = PrintField(put[1], tokens[2])
  BY <1>2, <1>4
<1>6. put[1] = PrintField(o, "key") /\ put[2] = PrintField(put[1], "value")
  BY <1>1, <1>5, Zenon
<1>7. Expects(put[1], P, "member")
  BY <1>6, PrintKey
<1>8. Expects(put[2], P, "members")
  BY <1>6, <1>7, PrintValue DEF BeforeValue, Past
<1> QED
  BY <1>5, <1>8 DEF tokens

LEMMA PrintsVars ==
  ASSUME NEW R \in Seq(Mark), NEW x \in InArray, Expects(out, R, x),
         NEW t, NEW root, NEW names, Len(names) \in Nat
  PROVE  Expects(PrintVars(t, root, names), R, "more")
<1> DEFINE P == Append(R, "more")  n == Len(names)
           Open(o) == Expects(o, P, "names") \/ Expects(o, P, "members")
<1>1. x \in BeforeValue /\ Past(x) = "more" /\ P \in Seq(Mark)
  BY ArrayFacts
<1>2. PICK put : /\ PrintVars(t, root, names) = EndObject(put[n])
                 /\ put[0] = BeginObject(out)
                 /\ \A i \in 1 .. n : put[i] \in {put[i - 1], PrintPair(put[i - 1])}
  BY VarSteps
<1> DEFINE Wrong == {i \in Nat : i <= n /\ ~ Open(put[i])}
<1>3. Open(put[0])
  BY <1>1, <1>2, PrintValue DEF BeginObject
<1>4. \A o : Open(o) => Open(PrintPair(o))
  <2> HIDE DEF P
  <2> QED BY <1>1, PrintsPair DEF PrintPair
<1> HIDE DEF Open
<1>5. \A i \in 1 .. n : Open(put[i - 1]) => Open(put[i])
  BY <1>2, <1>4, Zenon
<1>6. Wrong = {}
  <2> SUFFICES ASSUME Wrong # {} PROVE FALSE
    OBVIOUS
  <2>1. PICK i \in Wrong : \A j \in Wrong : i <= j
    BY LeastNatural
  <2>2. i # 0
    BY <2>1, <1>3
  <2>3. i \in 1 .. n /\ i - 1 \in Nat /\ i - 1 <= n /\ i - 1 \notin Wrong
    BY <2>1, <2>2
  <2> QED BY <2>1, <2>3, <1>5
<1>7. Open(put[n])
  BY <1>6
<1>8. Expects(EndObject(put[n]), R, "more")
  BY <1>7, PrintClosing DEF Open, EndObject
<1> QED
  BY <1>2, <1>8

----------------------------------------------------------------------------
(* The documents that are printed.                                         *)

\* Is a frame inside the element its rule opened?
InsidePc == {"cap", "trigger", "spawn", "end"}

Opened(f) == f.pc \in InsidePc /\ RulesOf(f)[f.rule].json_new

Inside(f, around) == IF Opened(f) THEN InElement(around) ELSE around

\* w[i] is what the reader is inside of around the array of frame i.
Nesting(w) ==
  /\ \A i \in 1 .. Depth : w[i] \in Seq(Mark)
  /\ w[1] = <<"end">>
  /\ \A i \in 1 .. Depth - 1 : w[i + 1] = Append(Inside(stack[i], w[i]), "more")

\* Every running spider has opened an array, and a rule that is being done an element
\* in it; when no spider runs, the document is complete.
OutInv ==
  ~ wiped => /\ stack = <<>> => Expects(out, <<>>, "end")
             /\ stack # <<>> => \E w : /\ Nesting(w)
                                       /\ \E x \in InArray : Expects(out, Inside(Top, w[Depth]), x)

LEMMA InsideTyped ==
  ASSUME NEW f, NEW R \in Seq(Mark)
  PROVE  Inside(f, R) \in Seq(Mark)
BY ArrayFacts DEF Inside

\* What a frame is inside of depends on its place in its configuration.
LEMMA InsideAlike ==
  ASSUME NEW f, NEW g, spiders'[g.spider].conf = spiders[f.spider].conf,
         g.policy = f.policy, g.rule = f.rule, f.pc \in InsidePc <=> g.pc \in InsidePc, NEW R
  PROVE  Inside(g, R)' = Inside(f, R)
<1>1. RulesOf(g)' = RulesOf(f)
  BY DEF RulesOf, ConfOf
<1>2. Opened(g)' <=> Opened(f)
  BY <1>1 DEF Opened
<1> QED
  BY <1>2 DEF Inside

\* The frames that wait are inside of what they were inside of.
LEMMA InsideWaiting ==
  ASSUME PageTypeOK, StackInv, ConfsAlike, NEW i \in 1 .. Depth, NEW R, NEW g, g = stack[i]
  PROVE  Inside(g, R)' = Inside(g, R)
<1>1. g.spider \in 1 .. Len(spiders)
  BY FrameAt
<1>2. spiders'[g.spider].conf = spiders[g.spider].conf
  BY <1>1 DEF ConfsAlike
<1> QED
  BY <1>2, InsideAlike

LEMMA OutMoves ==
  ASSUME PageTypeOK, StackInv, stack # <<>>, OutInv, ConfsAlike, ~ wiped' => ~ wiped,
         NEW f, StackBecomes(f),
         \A R \in Seq(Mark) : \A x \in InArray : Expects(out, Inside(Top, R), x)
           => \E y \in InArray : Expects(out, Inside(f, R), y)'
  PROVE  OutInv'
<1>1. SUFFICES ASSUME ~ wiped
               PROVE  \E w : /\ Nesting(w)'
                             /\ \E x \in InArray : Expects(out, Inside(Top, w[Depth]), x)'
  BY DEF OutInv, StackBecomes
<1>2. PICK w : Nesting(w) /\ \E x \in InArray : Expects(out, Inside(Top, w[Depth]), x)
  BY <1>1 DEF OutInv
<1>3. /\ Depth' = Depth /\ Depth \in Nat \ {0}
      /\ \A i \in 1 .. Depth : stack'[i] = IF i = Depth THEN f ELSE stack[i]
  BY TopFacts DEF StackBecomes
<1>4. Nesting(w)'
  <2>1. ASSUME NEW i \in 1 .. Depth - 1 PROVE w[i + 1] = Append(Inside(stack[i], w[i]), "more")'
    <3>1. i \in 1 .. Depth /\ stack'[i] = stack[i]
      BY <1>3
    <3>2. PICK g : g = stack[i] /\ g = stack'[i]
      BY <3>1
    <3>3. Inside(g, w[i])' = Inside(g, w[i])
      BY <3>1, <3>2, InsideWaiting
    <3>4. w[i + 1] = Append(Inside(g, w[i]), "more")
      BY <1>2, <3>2 DEF Nesting
    <3> QED BY <3>2, <3>3, <3>4
  <2> QED BY <1>2, <1>3, <2>1 DEF Nesting
<1>5. w[Depth] \in Seq(Mark)
  BY <1>2, <1>3 DEF Nesting
<1>6. PICK R \in Seq(Mark) : R = w[Depth] /\ \E y \in InArray : Expects(out, Inside(f, R), y)'
  BY <1>2, <1>5
<1>7. Top' = f
  BY <1>3 DEF Top
<1> QED
  BY <1>3, <1>4, <1>6, <1>7

BeginArray(o) == PrintField(o, "[")
EndArray(o)   == PrintField(o, "]")

LEMMA OutStarts ==
  ASSUME PageTypeOK, StackInv, stack # <<>>, OutInv, ConfsAlike, ~ wiped' => ~ wiped,
         NEW k, NEW f, Starts(k, f), out' = BeginArray(out)
  PROVE  OutInv'
<1>1. SUFFICES ASSUME ~ wiped
               PROVE  \E w : /\ Nesting(w)'
                             /\ \E x \in InArray : Expects(out, Inside(Top, w[Depth]), x)'
  BY DEF OutInv, Starts, StackGrows
<1>2. PICK w : Nesting(w) /\ \E x \in InArray : Expects(out, Inside(Top, w[Depth]), x)
  BY <1>1 DEF OutInv
<1>3. PICK x \in InArray : Nesting(w) /\ Expects(out, Inside(Top, w[Depth]), x)
  BY <1>2
<1>4. /\ Depth' = Depth + 1 /\ Depth \in Nat \ {0} /\ Top = stack[Depth]
      /\ \A i \in 1 .. Depth + 1 : stack'[i] = IF i = Depth + 1 THEN f ELSE stack[i]
  BY TopFacts DEF Starts, StackGrows
<1>5. PICK R : R = Inside(Top, w[Depth])
  OBVIOUS
<1>6. PICK d \in Nat : R = Inside(Top, w[Depth]) /\ d = Depth + 1
  BY <1>4, <1>5
<1>7. R \in Seq(Mark) /\ Append(R, "more") \in Seq(Mark)
  <2>1. w[Depth] \in Seq(Mark)
    BY <1>3, <1>4 DEF Nesting
  <2> QED BY <1>6, <2>1, InsideTyped, ArrayFacts
<1>8. Expects(out', Append(R, "more"), "first")
  <2>1. x \in BeforeValue /\ Past(x) = "more"
    BY <1>7, ArrayFacts
  <2> QED BY <1>3, <1>6, <1>7, <2>1, PrintValue DEF BeginArray
<1> DEFINE v == [i \in 1 .. d |-> IF i = d THEN Append(R, "more") ELSE w[i]]
<1>9. v[d] = Append(R, "more") /\ \A i \in 1 .. Depth : v[i] = w[i]
  BY <1>4, <1>6
<1> HIDE DEF v
<1>10. Nesting(v)'
  <2>1. ASSUME NEW i \in 1 .. d PROVE v[i] \in Seq(Mark)
    <3>1. CASE i = d
      BY <3>1, <1>7, <1>9
    <3>2. CASE i # d
      <4>1. i \in 1 .. Depth
        BY <3>2, <1>4, <1>6
      <4> QED BY <4>1, <1>3, <1>9 DEF Nesting
    <3> QED BY <3>1, <3>2
  <2>2. v[1] = <<"end">>
    BY <1>3, <1>4, <1>9 DEF Nesting
  <2>3. ASSUME NEW i \in 1 .. Depth PROVE v[i + 1] = Append(Inside(stack[i], v[i]), "more")'
    <3>1. stack'[i] = stack[i] /\ v[i] = w[i]
      BY <1>4, <1>9
    <3>2. PICK g : g = stack[i] /\ g = stack'[i]
      BY <3>1
    <3>3. Inside(g, w[i])' = Inside(g, w[i])
      BY <3>2, InsideWaiting
    <3>4. v[i + 1] = Append(Inside(g, w[i]), "more")
      <4>1. CASE i = Depth
        BY <4>1, <1>4, <1>6, <1>9, <3>2
      <4>2. CASE i # Depth
        <5>1. i \in 1 .. Depth - 1 /\ i + 1 \in 1 .. Depth
          BY <4>2, <1>4
        <5> QED BY <5>1, <1>3, <1>9, <3>2 DEF Nesting
      <4> QED BY <4>1, <4>2
    <3> QED BY <3>1, <3>2, <3>3, <3>4
  <2>4. Depth' = d /\ Depth' - 1 = Depth
    BY <1>4, <1>6
  <2> QED BY <2>1, <2>2, <2>3, <2>4 DEF Nesting
<1>11. Top' = f /\ Inside(f, v[d])' = v[d]
  <2>1. Top' = f
    BY <1>4 DEF Top
  <2>2. f.pc \notin InsidePc
    BY DEF Starts, InsidePc
  <2> QED BY <2>1, <2>2 DEF Inside, Opened
<1>12. "first" \in InArray /\ Depth' = d
  BY <1>4, <1>6 DEF InArray
<1> QED
  BY <1>8, <1>9, <1>10, <1>11, <1>12

LEMMA OutEnds ==
  ASSUME PageTypeOK, StackInv, OutInv, RunEnds, ~ wiped' => ~ wiped,
         NEW o, out' = EndArray(o),
         \A R \in Seq(Mark) : \A x \in InArray : Expects(out, R, x) => \E y \in InArray : Expects(o, R, y)
  PROVE  OutInv'
<1>1. /\ stack # <<>> /\ Top.pc = "exit" /\ StackShrinks /\ ConfsAlike
      /\ Depth = 1 => stack' = <<>>
  BY EndFacts, ReturnFacts DEF ConfsAlike, Spider
<1>2. Depth \in Nat \ {0} /\ Depth' = Depth - 1
  BY <1>1, TopFacts DEF StackShrinks
<1> SUFFICES ASSUME ~ wiped PROVE (OutInv)'
  BY DEF OutInv
<1>3. PICK w : Nesting(w) /\ \E x \in InArray : Expects(out, Inside(Top, w[Depth]), x)
  BY <1>1 DEF OutInv
<1>4. PICK x \in InArray : Nesting(w) /\ Expects(out, Inside(Top, w[Depth]), x)
  BY <1>3
<1>5. w[Depth] \in Seq(Mark) /\ Inside(Top, w[Depth]) = w[Depth]
  <2>1. w[Depth] \in Seq(Mark)
    BY <1>2, <1>4 DEF Nesting
  <2> QED BY <1>1, <2>1 DEF Inside, Opened, InsidePc
<1>6. PICK y \in InArray : Expects(o, w[Depth], y)
  BY <1>4, <1>5
<1>7. CASE Depth = 1
  <2>1. w[Depth] = Append(<<>>, "end")
    <3>1. Append(<<>>, "end") = <<"end">>
      OBVIOUS
    <3> QED BY <1>4, <1>7, <3>1 DEF Nesting
  <2>2. <<>> \in Seq(Mark)
    OBVIOUS
  <2>3. Expects(o, Append(<<>>, "end"), y)
    BY <1>6, <2>1
  <2>4. Expects(out', <<>>, "end")
    BY <2>2, <2>3, PrintClosing DEF EndArray, InArray
  <2> QED BY <1>1, <1>7, <2>4 DEF OutInv
<1>8. CASE Depth # 1
  <2>1. PICK d \in Nat \ {0} : d = Depth - 1 /\ d \in 1 .. Depth - 1 /\ d \in 1 .. Depth
    BY <1>2, <1>8
  <2>2. PICK f, g : f = stack[d] /\ g = stack'[d]
    OBVIOUS
  <2>3. /\ g.spider = f.spider /\ g.pc = f.pc /\ g.policy = f.policy /\ g.rule = f.rule
        /\ f.spider \in 1 .. Len(spiders) /\ d \in 1 .. Depth - 1 /\ d \in 1 .. Depth
    BY <1>1, <2>1, <2>2, FrameAt DEF StackShrinks
  <2>4. PICK R : R = Inside(f, w[d]) /\ R \in Seq(Mark)
    <3>1. w[d] \in Seq(Mark)
      BY <1>4, <2>3 DEF Nesting
    <3> QED BY <3>1, InsideTyped
  <2>5. w[Depth] = Append(R, "more")
    <3>1. w[d + 1] = Append(Inside(stack[d], w[d]), "more")
      BY <1>4, <2>3 DEF Nesting
    <3>2. d + 1 = Depth
      BY <1>2, <2>1
    <3> QED BY <2>2, <2>4, <3>1, <3>2
  <2>6. Expects(out', R, "more")
    BY <1>6, <2>4, <2>5, PrintClosing DEF EndArray, InArray
  <2>7. ASSUME NEW i \in 1 .. d, NEW p, p = stack[i], NEW q, q = stack'[i]
        PROVE  Inside(q, w[i])' = Inside(p, w[i])
    <3>1. i \in 1 .. Depth - 1 /\ i \in 1 .. Depth
      BY <1>2, <2>1
    <3>2. /\ q.spider = p.spider /\ q.pc = p.pc /\ q.policy = p.policy /\ q.rule = p.rule
          /\ p.spider \in 1 .. Len(spiders)
      BY <1>1, <2>7, <3>1, FrameAt DEF StackShrinks
    <3>3. spiders'[q.spider].conf = spiders[p.spider].conf
      BY <1>1, <3>2 DEF ConfsAlike
    <3> QED BY <3>2, <3>3, InsideAlike
  <2>8. Nesting(w)'
    <3>1. ASSUME NEW i \in 1 .. d - 1 PROVE w[i + 1] = Append(Inside(stack[i], w[i]), "more")'
      <4>1. PICK p, q : p = stack[i] /\ q = stack'[i]
        OBVIOUS
      <4>2. i \in 1 .. Depth - 1 /\ i \in 1 .. d
        BY <1>2, <2>1
      <4>3. Inside(q, w[i])' = Inside(p, w[i])
        BY <4>1, <4>2, <2>7
      <4>4. w[i + 1] = Append(Inside(p, w[i]), "more")
        BY <1>4, <4>1, <4>2 DEF Nesting
      <4> QED BY <4>1, <4>3, <4>4
    <3>2. Depth' = d /\ \A i \in 1 .. d : i \in 1 .. Depth
      BY <1>2, <2>1
    <3> QED BY <1>4, <3>1, <3>2 DEF Nesting
  <2>9. Top' = g /\ Depth' = d /\ Inside(g, w[d])' = R /\ "more" \in InArray
    <3>1. Depth' = d
      BY <1>2, <2>1
    <3>2. Top' = g
      BY <3>1, <2>2 DEF Top
    <3>3. d \in 1 .. d
      <4>1. \A n \in Nat \ {0} : n \in 1 .. n
        OBVIOUS
      <4> QED BY <2>1, <4>1
    <3> QED BY <3>1, <3>2, <3>3, <2>2, <2>4, <2>7 DEF InArray
  <2>10. \E x1 \in InArray : Expects(out, Inside(Top, w[Depth]), x1)'
    BY <2>6, <2>9
  <2>11. stack' # <<>>
    BY <2>1, <2>9 DEF Depth
  <2> QED BY <2>8, <2>10, <2>11 DEF OutInv
<1> QED
  BY <1>7, <1>8

\* The innermost spider goes on.
LEMMA Continues ==
  ASSUME PageTypeOK, StackInv, stack # <<>>, MovesOn \/ SetsVariable \/ BeginsPage
  PROVE  ConfsAlike /\ \E f \in FrameType : StackBecomes(f) /\ f.spider = Top.spider
<1>1. CASE MovesOn
  BY <1>1, MoveFacts DEF SpidersAlike, ConfsAlike, GoesOn
<1>2. CASE SetsVariable
  <2>1. PICK f \in FrameType, name \in DOMAIN Text : GoesOn(f) /\ StackBecomes(f)
    BY <1>2, SetFacts
  <2>2. SpidersAlike
    BY <1>2, SetFacts
  <2> QED BY <2>1, <2>2 DEF SpidersAlike, ConfsAlike, GoesOn
<1>3. CASE BeginsPage
  BY <1>3, BeginFacts DEF ConfsAlike, Spider
<1> QED
  BY <1>1, <1>2, <1>3

LEMMA BecomesOne ==
  ASSUME PageTypeOK, StackInv, stack # <<>>, NEW f, StackBecomes(f), NEW g, Become(g)
  PROVE  f = g
<1>1. stack \in Seq(FrameType) /\ Depth \in 1 .. Len(stack) /\ Depth \in 1 .. Depth
  BY TopFacts DEF PageTypeOK
<1>2. stack' = [stack EXCEPT ![Depth] = g]
  BY DEF Become
<1>3. stack'[Depth] = g
  BY <1>1, <1>2
<1>4. stack'[Depth] = f
  BY <1>1 DEF StackBecomes
<1> QED
  BY <1>3, <1>4

\* It stays where it is, inside an element or not.
StaysAs(f) ==
  \/ Top.pc \notin InsidePc /\ f.pc \notin InsidePc
  \/ Top.pc \in InsidePc /\ f.pc \in InsidePc /\ f.policy = Top.policy /\ f.rule = Top.rule

\* What is printed is nothing or a value of the array.
Adds ==
  \A R \in Seq(Mark) : \A x \in InArray : Expects(out, R, x) => \E y \in InArray : Expects(out', R, y)

LEMMA OutStays ==
  ASSUME PageTypeOK, StackInv, stack # <<>>, OutInv, ~ wiped' => ~ wiped,
         MovesOn \/ SetsVariable \/ BeginsPage, NEW g, Become(g), StaysAs(g), Adds
  PROVE  OutInv'
<1>1. ConfsAlike
  BY Continues
<1>2. PICK f \in FrameType : StackBecomes(f) /\ f.spider = Top.spider
  BY Continues
<1>3. StaysAs(f)
  BY <1>2, BecomesOne
<1>4. ASSUME NEW R \in Seq(Mark) PROVE Inside(f, R)' = Inside(Top, R) /\ Inside(Top, R) \in Seq(Mark)
  <2>1. Inside(Top, R) \in Seq(Mark)
    BY InsideTyped
  <2>2. CASE Top.pc \notin InsidePc /\ f.pc \notin InsidePc
    BY <2>1, <2>2 DEF Inside, Opened
  <2>3. CASE Top.pc \in InsidePc /\ f.pc \in InsidePc /\ f.policy = Top.policy /\ f.rule = Top.rule
    <3>1. Top.spider \in 1 .. Len(spiders)
      BY TopFacts DEF Me
    <3>2. spiders'[f.spider].conf = spiders[Top.spider].conf
      BY <1>1, <1>2, <3>1 DEF ConfsAlike
    <3>3. PICK t : t = Top
      OBVIOUS
    <3>4. Inside(f, R)' = Inside(t, R)
      BY <2>3, <3>2, <3>3, InsideAlike
    <3> QED BY <2>1, <3>3, <3>4
  <2> QED BY <1>3, <2>2, <2>3 DEF StaysAs
<1>5. \A R \in Seq(Mark) : \A x \in InArray : Expects(out, Inside(Top, R), x)
           => \E y \in InArray : Expects(out, Inside(f, R), y)'
  BY <1>4 DEF Adds
<1> QED
  BY <1>1, <1>2, <1>5, OutMoves
\* The innermost spider goes on and stays where it is.
Remains == stack # <<>> /\ \E g : Become(g) /\ StaysAs(g)

LEMMA RemainsOutside ==
  ASSUME PageTypeOK, StackInv,
         \/ ScanUrl \/ CopyStartUrl \/ ScanEof \/ FetchOk \/ FetchFails \/ FetchGivesUp
         \/ PolicyApplies \/ PolicyOutOfRange \/ PoliciesDone \/ RulesDone \/ RuleRepeated
         \/ NoMatch \/ ClearVar \/ Cleared \/ OverLimit \/ UnderLimit \/ TryAgain
  PROVE  Remains /\ wiped' = wiped
<1> USE DEF At, history
<1>1. stack # <<>> /\ Top.pc \in {"scan", "fetch", "policy", "rule", "clear", "limit", "exit"}
  BY DEF ScanUrl, CopyStartUrl, ScanEof, FetchOk, FetchFails, FetchGivesUp, PolicyApplies,
         PolicyOutOfRange, PoliciesDone, RulesDone, RuleRepeated, NoMatch, ClearVar, Cleared,
         OverLimit, UnderLimit, TryAgain
<1>2. Top \in FrameType
  BY <1>1, TopFacts
<1>3. ASSUME NEW g, Become(g), g.pc \in {"scan", "fetch", "policy", "rule", "clear", "limit", "exit"}
      PROVE  Remains
  BY <1>1, <1>3 DEF Remains, StaysAs, InsidePc
<1>4. ASSUME NEW f \in FrameType, NextPage(f) PROVE Remains
  <2> DEFINE g == [f EXCEPT !.pc = "fetch", !.page = pages + 1, !.tries = 3]
  <2>1. Become(g) /\ g.pc = "fetch"
    BY <1>4 DEF NextPage, FrameType
  <2> HIDE DEF g
  <2> QED BY <1>3, <2>1
<1>5. CASE ScanUrl
  <2>1. PICK over \in BOOLEAN : NextPage([Top EXCEPT !.over = over])
    BY <1>5 DEF ScanUrl
  <2>2. [Top EXCEPT !.over = over] \in FrameType
    BY <1>2 DEF FrameType
  <2> QED BY <1>4, <1>5, <2>1, <2>2 DEF ScanUrl
<1>6. CASE CopyStartUrl
  BY <1>2, <1>4, <1>6 DEF CopyStartUrl
<1>7. CASE ScanEof \/ PoliciesDone \/ OverLimit \/ UnderLimit \/ TryAgain
  <2>1. PICK l \in {"exit", "limit", "scan"} : Goto(l) /\ wiped' = wiped
    BY <1>7 DEF ScanEof, PoliciesDone, OverLimit, UnderLimit, TryAgain
  <2>2. Become([Top EXCEPT !.pc = l]) /\ [Top EXCEPT !.pc = l].pc = l
    BY <1>2, <2>1 DEF Goto, FrameType
  <2> QED BY <1>3, <2>1, <2>2
<1>8. CASE FetchOk
  <2>1. /\ Become([Top EXCEPT !.pc = "policy", !.policy = 1, !.tries = 0])
        /\ [Top EXCEPT !.pc = "policy", !.policy = 1, !.tries = 0].pc = "policy"
    BY <1>2, <1>8 DEF FetchOk, FrameType
  <2> QED BY <1>3, <1>8, <2>1 DEF FetchOk
<1>9. CASE FetchFails
  <2>1. Become([Top EXCEPT !.tries = @ - 1]) /\ [Top EXCEPT !.tries = @ - 1].pc = Top.pc
    BY <1>2, <1>9 DEF FetchFails, FrameType
  <2> QED BY <1>1, <1>3, <1>9, <2>1 DEF FetchFails
<1>10. CASE FetchGivesUp
  <2> DEFINE l == IF Feedback[Conf] THEN "exit" ELSE "policy"
  <2>1. /\ Become([Top EXCEPT !.pc = l, !.policy = 1, !.tries = 0])
        /\ [Top EXCEPT !.pc = l, !.policy = 1, !.tries = 0].pc = l
    BY <1>2, <1>10 DEF FetchGivesUp, FrameType
  <2> QED BY <1>3, <1>10, <2>1 DEF FetchGivesUp
<1>11. CASE PolicyApplies
  <2>1. /\ Become([Top EXCEPT !.pc = "rule", !.rule = 1, !.rep = 0])
        /\ [Top EXCEPT !.pc = "rule", !.rule = 1, !.rep = 0].pc = "rule"
    BY <1>2, <1>11 DEF PolicyApplies, FrameType
  <2> QED BY <1>3, <1>11, <2>1 DEF PolicyApplies
<1>12. CASE PolicyOutOfRange
  <2>1. Become([Top EXCEPT !.policy = @ + 1]) /\ [Top EXCEPT !.policy = @ + 1].pc = Top.pc
    BY <1>2, <1>12 DEF PolicyOutOfRange, FrameType
  <2> QED BY <1>1, <1>3, <1>12, <2>1 DEF PolicyOutOfRange
<1>13. CASE RulesDone
  <2>1. /\ Become([Top EXCEPT !.pc = "policy", !.policy = @ + 1, !.rule = 0])
        /\ [Top EXCEPT !.pc = "policy", !.policy = @ + 1, !.rule = 0].pc = "policy"
    BY <1>2, <1>13 DEF RulesDone, FrameType
  <2> QED BY <1>3, <1>13, <2>1 DEF RulesDone
<1>14. CASE RuleRepeated
  <2>1. /\ Become([Top EXCEPT !.rule = @ + 1, !.rep = 0])
        /\ [Top EXCEPT !.rule = @ + 1, !.rep = 0].pc = Top.pc
    BY <1>2, <1>14 DEF RuleRepeated, FrameType
  <2> QED BY <1>1, <1>3, <1>14, <2>1 DEF RuleRepeated
<1>15. CASE NoMatch
  <2>1. /\ Become([Top EXCEPT !.pc = "clear", !.cap = 1])
        /\ [Top EXCEPT !.pc = "clear", !.cap = 1].pc = "clear"
    BY <1>2, <1>15 DEF NoMatch, FrameType
  <2> QED BY <1>3, <1>15, <2>1 DEF NoMatch
<1>16. CASE ClearVar
  <2>1. Become([Top EXCEPT !.cap = @ + 1]) /\ [Top EXCEPT !.cap = @ + 1].pc = Top.pc
    BY <1>2, <1>16 DEF ClearVar, FrameType
  <2> QED BY <1>1, <1>3, <1>16, <2>1 DEF ClearVar
<1>17. CASE Cleared
  <2>1. /\ Become([Top EXCEPT !.pc = "rule", !.rule = @ + 1, !.rep = 0])
        /\ [Top EXCEPT !.pc = "rule", !.rule = @ + 1, !.rep = 0].pc = "rule"
    BY <1>2, <1>17 DEF Cleared, FrameType
  <2> QED BY <1>3, <1>17, <2>1 DEF Cleared
<1> QED
  BY <1>5, <1>6, <1>7, <1>8, <1>9, <1>10, <1>11, <1>12, <1>13, <1>14, <1>15, <1>16, <1>17

LEMMA RemainsInside ==
  ASSUME PageTypeOK, StackInv,
         Capture \/ Unique \/ NoUniq \/ Trigger \/ TriggerUnheard \/ TriggersDone \/ SpawnsDone
  PROVE  Remains /\ wiped' = wiped
<1> USE DEF At, Triggering, history
<1>1. stack # <<>> /\ Top.pc \in InsidePc
  BY DEF Capture, Unique, NoUniq, Trigger, TriggerUnheard, TriggersDone, SpawnsDone, InsidePc
<1>2. Top \in FrameType
  BY <1>1, TopFacts
<1>3. ASSUME NEW g, Become(g), g.pc \in InsidePc, g.policy = Top.policy, g.rule = Top.rule
      PROVE  Remains
  BY <1>1, <1>3 DEF Remains, StaysAs
<1>4. CASE Capture
  <2> DEFINE g == [Top EXCEPT !.cap = @ + 1]
  <2>1. Become(g) /\ g.pc = Top.pc /\ g.policy = Top.policy /\ g.rule = Top.rule
    BY <1>2, <1>4 DEF Capture, FrameType
  <2> HIDE DEF g
  <2> QED BY <1>1, <1>3, <1>4, <2>1 DEF Capture
<1>5. CASE Trigger \/ TriggerUnheard
  <2> DEFINE g == [Top EXCEPT !.ns = @ + 1]
  <2>1. Become(g) /\ wiped' = wiped
    BY <1>5 DEF Trigger, TriggerUnheard
  <2>2. g.pc = Top.pc /\ g.policy = Top.policy /\ g.rule = Top.rule
    BY <1>2 DEF FrameType
  <2> HIDE DEF g
  <2> QED BY <1>1, <1>3, <2>1, <2>2
<1>6. CASE Unique \/ NoUniq \/ TriggersDone
  <2>1. PICK l \in {"trigger", "spawn"} : Become([Top EXCEPT !.pc = l, !.ns = 1]) /\ wiped' = wiped
    BY <1>6 DEF Unique, NoUniq, TriggersDone
  <2> DEFINE g == [Top EXCEPT !.pc = l, !.ns = 1]
  <2>2. g.pc = l /\ g.policy = Top.policy /\ g.rule = Top.rule
    BY <1>2 DEF FrameType
  <2> HIDE DEF g
  <2> QED BY <1>3, <2>1, <2>2 DEF g, InsidePc
<1>7. CASE SpawnsDone
  <2> DEFINE g == [Top EXCEPT !.pc = "end"]
  <2>1. Become(g) /\ g.pc = "end" /\ g.policy = Top.policy /\ g.rule = Top.rule
    BY <1>2, <1>7 DEF SpawnsDone, Goto, FrameType
  <2> HIDE DEF g
  <2> QED BY <1>3, <1>7, <2>1 DEF SpawnsDone, InsidePc
<1> QED
  BY <1>4, <1>5, <1>6, <1>7
LEMMA AddsNothing ==
  ASSUME out' = out
  PROVE  Adds
BY DEF Adds

LEMMA AddsReport ==
  ASSUME out' = Reported
  PROVE  Adds
<1>1. ASSUME NEW R \in Seq(Mark), NEW x \in InArray, Expects(out, R, x)
      PROVE  \E y \in InArray : Expects(out', R, y)
  <2>1. CASE Feedback[Conf]
    <3>1. Expects(PrintFields(out, Report), R, "more")
      BY <1>1, PrintsReport
    <3> QED BY <2>1, <3>1 DEF Reported, InArray
  <2>2. CASE ~ Feedback[Conf]
    BY <1>1, <2>2 DEF Reported
  <2> QED BY <2>1, <2>2
<1> QED
  BY <1>1 DEF Adds

LEMMA AddsCapture ==
  ASSUME PageTypeOK, StackInv, Capture
  PROVE  Adds
<1>1. stack # <<>> /\ Top.pc = "cap" /\ Top.cap <= Len(Rule.caps)
  BY DEF Capture, At
<1>2. Top \in FrameType /\ FrameOK(Top) /\ Top.rule > 0 /\ Top.rule <= Len(RulesOf(Top)) /\ Top.cap > 0
  <2>1. Top \in FrameType /\ FrameOK(Top)
    BY <1>1, TopFacts
  <2> QED BY <1>1, <2>1 DEF FrameOK, AtRule, InRule
<1>3. Rule \in RuleType
  BY <1>1, <1>2, RuleFacts
<1>4. Len(Cap.json) \in Nat
  <2> DEFINE T == [store : String, json : Seq(String)]
             caps == Rule.caps
  <2>1. caps \in Seq(T) /\ Top.cap \in Nat
    BY <1>2, <1>3 DEF RuleType, FrameType
  <2>2. Top.cap <= Len(caps) /\ Cap = caps[Top.cap]
    BY <1>1 DEF Cap
  <2> HIDE DEF T, caps
  <2>3. Cap \in T
    BY <1>2, <2>1, <2>2
  <2> QED BY <2>3 DEF T
<1>5. \/ out' = out
      \/ \E t, root : out' = PrintVars(t, root, Cap.json)
  <2>1. PICK text \in Text[Cap.store] :
          LET v == VarInsert(table, Spider.handle, Cap.store, text, pages)
          IN out' = IF Cap.json = <<>> THEN out ELSE PrintVars(v.table, v.root, Cap.json)
    BY DEF Capture
  <2> QED BY <2>1
<1>6. CASE \E t, root : out' = PrintVars(t, root, Cap.json)
  <2>1. PICK t, root : out' = PrintVars(t, root, Cap.json)
    BY <1>6
  <2>2. \A R \in Seq(Mark) : \A x \in InArray : Expects(out, R, x) => Expects(out', R, "more")
    BY <1>4, <2>1, PrintsVars
  <2> QED BY <2>2 DEF Adds, InArray
<1> QED
  BY <1>5, <1>6, AddsNothing

\* A match opens an element and its end closes it.
LEMMA OutMatch ==
  ASSUME PageTypeOK, StackInv, OutInv, Match
  PROVE  OutInv'
<1>1. /\ stack # <<>> /\ Top.pc = "rule" /\ Top.rule <= Len(Policy) /\ wiped' = wiped
      /\ Become([Top EXCEPT !.pc = "cap", !.rep = @ + 1, !.cap = 1])
      /\ out' = IF Rule.json_new THEN PrintFields(out, <<"{", "key", "[">>) ELSE out
  BY DEF Match, At, history
<1>2. Top \in FrameType /\ FrameOK(Top) /\ Top.rule > 0
  <2>1. Top \in FrameType /\ FrameOK(Top)
    BY <1>1, TopFacts
  <2> QED BY <1>1, <2>1 DEF FrameOK, AtRule
<1>3. MovesOn
  BY StepsInside
<1>4. ConfsAlike
  BY <1>1, <1>3, Continues
<1>5. PICK f \in FrameType : /\ StackBecomes(f) /\ f.spider = Top.spider
                             /\ f.pc = "cap" /\ f.policy = Top.policy /\ f.rule = Top.rule
  <2>1. PICK f \in FrameType : StackBecomes(f) /\ f.spider = Top.spider
    BY <1>1, <1>3, Continues
  <2>2. f = [Top EXCEPT !.pc = "cap", !.rep = @ + 1, !.cap = 1]
    BY <1>1, <2>1, BecomesOne
  <2> QED BY <1>2, <2>1, <2>2 DEF FrameType
<1>6. RulesOf(f)' = Policy
  <2>1. Policy = RulesOf(Top) /\ Top.spider \in 1 .. Len(spiders)
    BY <1>1, <1>2, RuleFacts, TopFacts DEF Me
  <2>2. spiders'[f.spider].conf = spiders[Top.spider].conf
    BY <1>4, <1>5, <2>1 DEF ConfsAlike
  <2> QED BY <1>5, <2>1, <2>2 DEF RulesOf, ConfOf
<1>7. Opened(f)' <=> Rule.json_new
  BY <1>5, <1>6 DEF Opened, InsidePc, Rule
<1>8. ASSUME NEW R \in Seq(Mark), NEW x \in InArray, Expects(out, Inside(Top, R), x)
      PROVE  \E y \in InArray : Expects(out, Inside(f, R), y)'
  <2>1. Expects(out, R, x)
    BY <1>1, <1>8 DEF Inside, Opened, InsidePc
  <2>2. CASE Rule.json_new
    <3>1. Expects(out', InElement(R), "first")
      BY <1>1, <2>1, <2>2, OpensElement
    <3>2. Inside(f, R)' = InElement(R)
      BY <1>7, <2>2 DEF Inside
    <3> QED BY <3>1, <3>2 DEF InArray
  <2>3. CASE ~ Rule.json_new
    <3>1. Inside(f, R)' = R
      BY <1>7, <2>3 DEF Inside
    <3> QED BY <1>1, <2>1, <2>3, <3>1
  <2> QED BY <2>2, <2>3
<1> QED
  BY <1>1, <1>4, <1>5, <1>8, OutMoves

LEMMA OutEndMatch ==
  ASSUME PageTypeOK, StackInv, OutInv, EndMatch
  PROVE  OutInv'
<1>1. /\ stack # <<>> /\ Top.pc = "end" /\ wiped' = wiped
      /\ Become([Top EXCEPT !.pc = "rule"])
      /\ out' = IF Rule.json_new THEN PrintFields(out, <<"]", "}">>) ELSE out
  BY DEF EndMatch, At, Goto, history
<1>2. Top \in FrameType /\ FrameOK(Top) /\ Top.rule > 0
  <2>1. Top \in FrameType /\ FrameOK(Top)
    BY <1>1, TopFacts
  <2> QED BY <1>1, <2>1 DEF FrameOK, AtRule, InRule
<1>3. MovesOn
  BY StepsInside
<1>4. ConfsAlike
  BY <1>1, <1>3, Continues
<1>5. PICK f \in FrameType : StackBecomes(f) /\ f.pc = "rule"
  <2>1. PICK f \in FrameType : StackBecomes(f)
    BY <1>1, <1>3, Continues
  <2>2. f = [Top EXCEPT !.pc = "rule"]
    BY <1>1, <2>1, BecomesOne
  <2> QED BY <1>2, <2>1, <2>2 DEF FrameType
<1>6. Opened(Top) <=> Rule.json_new
  <2>1. Policy = RulesOf(Top)
    BY <1>1, <1>2, RuleFacts
  <2> QED BY <1>1, <2>1 DEF Opened, InsidePc, Rule
<1>7. \A R : Inside(f, R)' = R
  BY <1>5 DEF Inside, Opened, InsidePc
<1>8. ASSUME NEW R \in Seq(Mark), NEW x \in InArray, Expects(out, Inside(Top, R), x)
      PROVE  \E y \in InArray : Expects(out, Inside(f, R), y)'
  <2>1. CASE Rule.json_new
    <3>1. Expects(out, InElement(R), x)
      BY <1>6, <1>8, <2>1 DEF Inside
    <3>2. Expects(out', R, "more")
      BY <1>1, <2>1, <3>1, ClosesElement
    <3> QED BY <1>7, <3>2 DEF InArray
  <2>2. CASE ~ Rule.json_new
    <3>1. Expects(out, R, x)
      BY <1>6, <1>8, <2>2 DEF Inside
    <3> QED BY <1>1, <1>7, <2>2, <3>1
  <2> QED BY <2>1, <2>2
<1> QED
  BY <1>1, <1>4, <1>5, <1>8, OutMoves

\* A nested spider prints an array of its own.
LEMMA OutSpawns ==
  ASSUME PageTypeOK, StackInv, OutInv, SpawnKnown \/ SpawnNew
  PROVE  OutInv'
<1>1. out' = BeginArray(out) /\ wiped' = wiped
  BY DEF SpawnKnown, SpawnNew, Call, BeginArray, history
<1>2. CASE SpawnKnown
  <2>1. stack # <<>>
    BY <1>2, KnownStarts
  <2>2. PICK k \in 2 .. Len(spiders), f \in FrameType : Starts(k, f) /\ spiders[k].conf = Nested.conf
    BY <1>2, KnownStarts
  <2>3. ConfsAlike
    BY <2>2 DEF Starts, ConfsAlike
  <2> QED BY <1>1, <2>1, <2>2, <2>3, OutStarts
<1>3. CASE SpawnNew
  <2>1. stack # <<>>
    BY <1>3, NewStarts
  <2>2. PICK k \in Nat, f \in FrameType : Starts(k, f) /\ k = Len(spiders) + 1
    BY <1>3, NewStarts
  <2>3. ConfsAlike
    <3>1. \A s \in 1 .. Len(spiders) : s # k
      BY <2>2
    <3> QED BY <2>2, <3>1 DEF Starts, ConfsAlike
  <2> QED BY <1>1, <2>1, <2>2, <2>3, OutStarts
<1> QED
  BY <1>2, <1>3

LEMMA OutExits ==
  ASSUME PageTypeOK, StackInv, OutInv, ExitOverLimit \/ ExitAtEof
  PROVE  OutInv'
<1> DEFINE Left(left) == PrintFields(out, <<"{", "key", "[">> \o left \o <<"]", "}">>)
           lefts == {<<>>, <<"{", "key", "value", "}">>}
<1>1. At("exit") /\ (Return(out) \/ \E left \in lefts : Return(Left(left)))
  BY DEF ExitOverLimit, ExitAtEof
<1>2. \A left \in lefts : \A R \in Seq(Mark) : \A x \in InArray :
        Expects(out, R, x) => Expects(Left(left), R, "more")
  BY PrintsLeft
<1> HIDE DEF Left, lefts
<1>3. PICK o : /\ Return(o)
               /\ \A R \in Seq(Mark) : \A x \in InArray :
                    Expects(out, R, x) => \E y \in InArray : Expects(o, R, y)
  BY <1>1, <1>2 DEF InArray
<1>4. RunEnds
  BY <1>1, <1>3 DEF RunEnds
<1>5. out' = EndArray(o) /\ wiped' = wiped
  BY <1>3 DEF Return, EndArray
<1> QED
  BY <1>3, <1>4, <1>5, OutEnds
LEMMA OutKept ==
  ASSUME PageTypeOK, StackInv, [Next]_vars, OutInv
  PROVE  OutInv'
<1>1. CASE UNCHANGED vars
  <2>1. UNCHANGED <<stack, spiders, out, wiped, Depth, Top>>
    BY <1>1 DEF vars, memory, history, Depth, Top
  <2>2. \A w : Nesting(w)' <=> Nesting(w)
    BY <2>1 DEF Nesting, Inside, Opened, RulesOf, ConfOf
  <2>3. \A R : Inside(Top, R)' = Inside(Top, R)
    BY <2>1 DEF Inside, Opened, RulesOf, ConfOf
  <2> QED BY <2>1, <2>2, <2>3 DEF OutInv
<1>2. ASSUME Remains, wiped' = wiped, MovesOn \/ SetsVariable \/ BeginsPage, Adds PROVE OutInv'
  BY <1>2, OutStays DEF Remains
<1>3. CASE \/ ScanEof \/ FetchFails \/ PolicyOutOfRange \/ PoliciesDone \/ RulesDone
           \/ OverLimit \/ UnderLimit \/ TryAgain
  <2>1. out' = out
    BY <1>3 DEF ScanEof, FetchFails, PolicyOutOfRange, PoliciesDone, RulesDone, OverLimit,
                UnderLimit, TryAgain
  <2> QED BY <1>2, <1>3, <2>1, RemainsOutside, StepsOutside, AddsNothing
<1>4. CASE ScanUrl \/ CopyStartUrl
  <2>1. out' = out
    BY <1>4 DEF ScanUrl, CopyStartUrl
  <2> QED BY <1>2, <1>4, <2>1, RemainsOutside, StepsBegin, AddsNothing
<1>5. CASE FetchOk \/ FetchGivesUp
  <2>1. out' = Reported
    BY <1>5 DEF FetchOk, FetchGivesUp
  <2> QED BY <1>2, <1>5, <2>1, RemainsOutside, StepsOutside, AddsReport
<1>6. CASE PolicyApplies
  <2>1. out' = out
    BY <1>6 DEF PolicyApplies
  <2> QED BY <1>2, <1>6, <2>1, RemainsOutside, StepPolicyApplies, AddsNothing
<1>7. CASE RuleRepeated \/ NoMatch \/ Cleared
  <2>1. out' = out
    BY <1>7 DEF RuleRepeated, NoMatch, Cleared
  <2> QED BY <1>2, <1>7, <2>1, RemainsOutside, StepsInside, AddsNothing
<1>8. CASE ClearVar
  <2>1. out' = out
    BY <1>8 DEF ClearVar
  <2> QED BY <1>2, <1>8, <2>1, RemainsOutside, StepsCapture, AddsNothing
<1>9. CASE Unique \/ NoUniq \/ TriggerUnheard \/ TriggersDone \/ SpawnsDone
  <2>1. out' = out
    BY <1>9 DEF Unique, NoUniq, TriggerUnheard, TriggersDone, SpawnsDone
  <2> QED BY <1>2, <1>9, <2>1, RemainsInside, StepsInside, AddsNothing
<1>10. CASE Capture
  BY <1>2, <1>10, RemainsInside, StepsCapture, AddsCapture
<1>11. CASE Trigger
  <2>1. out' = out
    BY <1>11 DEF Trigger
  <2> QED BY <1>2, <1>11, <2>1, RemainsInside, StepTrigger, AddsNothing
<1>12. CASE NotUnique
  BY <1>12 DEF NotUnique, OutInv
<1>13. CASE Ended
  BY <1>1, <1>13 DEF Ended
<1> QED
  BY <1>1, <1>3, <1>4, <1>5, <1>6, <1>7, <1>8, <1>9, <1>10, <1>11, <1>12, <1>13,
     OutMatch, OutEndMatch, OutSpawns, OutExits DEF Next

LEMMA OutInit ==
  ASSUME Init
  PROVE  OutInv
<1>1. Expects(EmptyOut, <<>>, "doc")
  <2>1. Append(<<>>, "doc") = Start /\ Start # Bad
    BY DEF Start, Bad
  <2> QED BY <2>1 DEF Expects, Holding, EmptyOut, EmptyBuf
<1>2. Expects(out, <<"end">>, "first")
  <2>1. <<>> \in Seq(Mark) /\ "doc" \in BeforeValue /\ Past("doc") = "end"
    BY DEF BeforeValue, Past
  <2>2. Expects(PrintField(EmptyOut, "["), Append(<<>>, "end"), "first")
    BY <1>1, <2>1, PrintValue
  <2>3. Append(<<>>, "end") = <<"end">>
    OBVIOUS
  <2> QED BY <2>2, <2>3 DEF Init
<1>3. Depth = 1 /\ Top.pc = "scan" /\ stack # <<>>
  BY InitFacts DEF Frame
<1>4. PICK w : w = <<<<"end">>>>
  OBVIOUS
<1>5. w[1] = <<"end">> /\ w[1] \in Seq(Mark)
  BY <1>4 DEF Mark
<1>6. Nesting(w)
  <2>1. \A i \in 1 .. Depth : i = 1
    BY <1>3
  <2>2. \A i \in 1 .. Depth - 1 : FALSE
    BY <1>3
  <2> QED BY <1>5, <2>1, <2>2 DEF Nesting
<1>7. Inside(Top, w[Depth]) = <<"end">> /\ "first" \in InArray
  BY <1>3, <1>5 DEF Inside, Opened, InsidePc, InArray
<1> QED
  BY <1>2, <1>3, <1>6, <1>7 DEF OutInv

LEMMA OutReads ==
  ASSUME OutInv, out.buf.len < JsonMax
  PROVE  JsonWellFormed
<1>1. ASSUME ~ wiped PROVE IsJsonPrefix(out.buf)
  <2>1. CASE stack = <<>>
    BY <1>1, <2>1 DEF OutInv, Expects, Holding, IsJsonPrefix
  <2>2. CASE stack # <<>>
    <3>1. \E R : \E x \in InArray : Expects(out, R, x)
      BY <1>1, <2>2 DEF OutInv
    <3> QED BY <3>1 DEF Expects, Holding, IsJsonPrefix
  <2> QED BY <2>1, <2>2
<1>2. ASSUME ~ wiped, stack = <<>> PROVE IsJson(out.buf)
  <2>1. Append(<<>>, "end") = <<"end">>
    OBVIOUS
  <2> QED BY <1>2, <2>1 DEF OutInv, Expects, Holding, IsJson
<1> QED
  BY <1>1, <1>2 DEF JsonWellFormed

\* Until a duplicate clears it and as long as it is not full, the buffer is the
\* beginning of a JSON document, and a document once the last spider has ended,
\* however spiders and elements nest (sf_pcre.c:293-295,
\* 347, 489-490, main.c:159, 214-238, 316).
THEOREM JsonDocuments == Spec => [](out.buf.len < JsonMax => JsonWellFormed)
<1> DEFINE Inv == PageTypeOK /\ StackInv /\ OutInv
<1>1. Init => Inv
  BY TypeInit, OutInit
<1>2. Inv /\ [Next]_vars => Inv'
  BY TypeKept, OutKept
<1>3. Inv => (out.buf.len < JsonMax => JsonWellFormed)
  BY OutReads
<1> HIDE DEF Inv
<1> QED
  BY <1>1, <1>2, <1>3, PTL DEF Spec

============================================================================
