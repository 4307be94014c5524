------------------------------ MODULE Folding -------------------------------
(***************************************************************************)
(* Facts about sequences the proofs of the other modules rest on: how a    *)
(* fold goes along a sequence, induction over sequences, concatenation.    *)
(*                                                                         *)
(* Reference definitions and the code's loops over a list are folds.  The  *)
(* first lemmas unfold them: a fold over sets of positions obeys its       *)
(* equation element by element, which is proved by induction.              *)
(***************************************************************************)
EXTENDS Integers, Sequences, SequencesExt, SequenceTheorems, WellFoundedInduction, TLAPS

-----------------------------------------------------------------------------
(* Folds over a sequence, in a form the provers can apply: the step is a   *)
(* function, not an operator.                                              *)

\* A set of naturals that is not empty has a least element.
LEMMA LeastNatural ==
  ASSUME NEW S \in SUBSET Nat, S # {}
  PROVE  \E m \in S : \A n \in S : m <= n
<1>1. PICK m \in S : \A n \in S : <<n, m>> \notin OpToRel(<, Nat)
  BY NatLessThanWellFounded, WFMin
<1>2. \A n \in S : ~ (n < m)
  BY <1>1 DEF OpToRel
<1> QED
  BY <1>2

\* The last of a set of positions.
Most(S) == CHOOSE x \in S : \A y \in S : x >= y

\* The step of a fold.
Curried(X, Y, Z) == [X -> [Y -> Z]]

\* A fold over every set of positions, and what obeys its equations while it is
\* in V.
IsFold(it, n, V, base, D) ==
  /\ it \in [SUBSET (1 .. n) -> V]
  /\ it[{}] = base
  /\ \A S \in SUBSET (1 .. n) : S # {} => it[S] = D[Most(S)][it[S \ {Most(S)}]]

Obeys(f, n, V, base, D) ==
  /\ f[{}] = base
  /\ \A S \in SUBSET (1 .. n) :
       S # {} /\ f[S \ {Most(S)}] \in V => f[S] = D[Most(S)][f[S \ {Most(S)}]]

\* The same along a sequence.
IsSeqFold(it, s, V, base, Op) ==
  /\ it \in [SUBSET (DOMAIN s) -> V]
  /\ it[{}] = base
  /\ \A S \in SUBSET (DOMAIN s) : S # {} => it[S] = Op[it[S \ {Most(S)}]][s[Most(S)]]

SeqObeys(f, s, V, base, Op) ==
  /\ f[{}] = base
  /\ \A S \in SUBSET (DOMAIN s) :
       S # {} /\ f[S \ {Most(S)}] \in V => f[S] = Op[f[S \ {Most(S)}]][s[Most(S)]]

\* A fold over every set of positions up to n exists.
LEMMA FoldExists ==
  ASSUME NEW V, NEW base \in V, NEW n \in Nat, NEW D \in Curried(1 .. n, V, V)
  PROVE  \E it : IsFold(it, n, V, base, D)
<1> DEFINE Is(it, k) == /\ it \in [SUBSET (1 .. k) -> V]
                        /\ it[{}] = base
                        /\ \A S \in SUBSET (1 .. k) : S # {} => it[S] = D[Most(S)][it[S \ {Most(S)}]]
           Lacking == {k \in 0 .. n : ~ \E it : Is(it, k)}
<1>1. ASSUME Lacking # {} PROVE FALSE
  <2> HIDE DEF Is
  <2>1. PICK k \in Lacking : \A l \in Lacking : k <= l
    <3>1. Lacking \in SUBSET Nat
      OBVIOUS
    <3> HIDE DEF Lacking
    <3> QED BY <1>1, <3>1, LeastNatural
  <2>0. k \in 0 .. n /\ ~ \E it : Is(it, k)
    BY <2>1
  <2> USE DEF Is
  <2>2. CASE k = 0
    <3> DEFINE it == [S \in SUBSET (1 .. 0) |-> base]
    <3>1. SUBSET (1 .. 0) = {{}}
      OBVIOUS
    <3>2. Is(it, 0)
      BY <3>1
    <3> HIDE DEF Is, it
    <3> QED BY <2>0, <2>2, <3>2
  <2>3. CASE k > 0
    <3>1. k - 1 \in 0 .. n /\ k - 1 \notin Lacking
      <4> HIDE DEF Lacking
      <4> QED BY <2>0, <2>1, <2>3
    <3>2. PICK g : Is(g, k - 1)
      <4> HIDE DEF Is
      <4> QED BY <3>1
    <3> DEFINE it == [S \in SUBSET (1 .. k) |-> IF k \in S THEN D[k][g[S \ {k}]] ELSE g[S]]
    <3>3. \A S \in SUBSET (1 .. k) : S \ {k} \in SUBSET (1 .. k - 1) /\ (k \notin S => S \in SUBSET (1 .. k - 1))
      BY <2>0
    <3>4. D[k] \in [V -> V] /\ g \in [SUBSET (1 .. k - 1) -> V]
      BY <2>0, <2>3, <3>2 DEF Curried
    <3>5. it \in [SUBSET (1 .. k) -> V]
      BY <3>3, <3>4
    <3>6. it[{}] = base
      BY <2>0, <3>2
    <3>7. ASSUME NEW S \in SUBSET (1 .. k), S # {}
          PROVE  it[S] = D[Most(S)][it[S \ {Most(S)}]]
      <4>1. CASE k \in S
        <5>1. Most(S) = k
          <6>1. \A y \in S : y \in Int /\ k >= y
            BY <2>0
          <6>2. \A x \in S : (\A y \in S : x >= y) => x = k
            BY <4>1, <6>1, <2>0
          <6> QED BY <4>1, <6>1, <6>2 DEF Most
        <5>2. it[S] = D[k][g[S \ {k}]] /\ it[S \ {k}] = g[S \ {k}]
          BY <4>1, <3>3
        <5> QED BY <5>1, <5>2
      <4>2. CASE k \notin S
        <5>1. S \in SUBSET (1 .. k - 1) /\ it[S] = g[S] /\ it[S \ {Most(S)}] = g[S \ {Most(S)}]
          BY <4>2, <3>3
        <5>2. g[S] = D[Most(S)][g[S \ {Most(S)}]]
          BY <3>2, <3>7, <5>1
        <5> QED BY <5>1, <5>2
      <4> QED BY <4>1, <4>2
    <3>8. Is(it, k)
      BY <3>5, <3>6, <3>7
    <3> HIDE DEF Is, it
    <3> QED BY <2>0, <3>8
  <2> QED BY <2>0, <2>2, <2>3
<1>2. PICK it : Is(it, n)
  <2> HIDE DEF Is
  <2>1. n \in 0 .. n
    OBVIOUS
  <2> QED BY <1>1, <2>1
<1> QED
  BY <1>2 DEF IsFold

\* The last of an interval.
LEMMA MostOfInterval ==
  ASSUME NEW i \in Nat \ {0}
  PROVE  Most(1 .. i) = i /\ (1 .. i) \ {i} = 1 .. i - 1 /\ 1 .. i # {}
<1>1. i \in 1 .. i /\ \A y \in 1 .. i : i >= y
  OBVIOUS
<1>2. \A x \in 1 .. i : (\A y \in 1 .. i : x >= y) => x = i
  BY <1>1
<1> QED
  BY <1>1, <1>2 DEF Most

\* Two folds agree on every prefix.
LEMMA FoldUnique ==
  ASSUME NEW V, NEW base \in V, NEW n \in Nat, NEW D \in Curried(1 .. n, V, V), NEW f, NEW g,
         Obeys(f, n, V, base, D), Obeys(g, n, V, base, D)
  PROVE  f[1 .. n] = g[1 .. n] /\ f[1 .. n] \in V
<1> USE DEF Obeys
<1> DEFINE Apart == {i \in 0 .. n : ~ (f[1 .. i] = g[1 .. i] /\ f[1 .. i] \in V)}
<1>1. ASSUME Apart # {} PROVE FALSE
  <2>1. PICK i \in Apart : \A j \in Apart : i <= j
    <3>1. Apart \in SUBSET Nat
      OBVIOUS
    <3> HIDE DEF Apart
    <3> QED BY <1>1, <3>1, LeastNatural
  <2>2. i \in 0 .. n /\ ~ (f[1 .. i] = g[1 .. i] /\ f[1 .. i] \in V)
    BY <2>1
  <2>3. i # 0
    <3>1. 1 .. 0 = {}
      OBVIOUS
    <3> QED BY <2>2, <3>1
  <2>4. i - 1 \in 0 .. n /\ i - 1 \notin Apart
    <3> HIDE DEF Apart
    <3> QED BY <2>1, <2>2, <2>3
  <2>5. f[1 .. i - 1] = g[1 .. i - 1] /\ f[1 .. i - 1] \in V
    BY <2>4
  <2>6. 1 .. i \in SUBSET (1 .. n) /\ i \in Nat \ {0} /\ i \in 1 .. n
    BY <2>2, <2>3
  <2>7. Most(1 .. i) = i /\ (1 .. i) \ {i} = 1 .. i - 1 /\ 1 .. i # {}
    BY <2>6, MostOfInterval
  <2>8. f[1 .. i] = D[i][f[1 .. i - 1]] /\ g[1 .. i] = D[i][g[1 .. i - 1]]
    BY <2>5, <2>6, <2>7
  <2> QED BY <2>2, <2>5, <2>6, <2>8 DEF Curried
<1>2. n \in 0 .. n
  OBVIOUS
<1> QED
  BY <1>1, <1>2

\* The last of a set of positions is one of them.
LEMMA MostIs ==
  ASSUME NEW n \in Nat, NEW S \in SUBSET (1 .. n), S # {}
  PROVE  Most(S) \in S /\ S \ {Most(S)} \in SUBSET (1 .. n)
<1> DEFINE G == {n - x : x \in S}
<1>1. \A x \in S : x \in Int /\ n - x \in Nat
  OBVIOUS
<1>2. G \in SUBSET Nat /\ G # {}
  BY <1>1
<1>3. PICK m \in G : \A y \in G : m <= y
  <2> HIDE DEF G
  <2> QED BY <1>2, LeastNatural
<1>4. PICK x \in S : m = n - x
  BY <1>3
<1>5. ASSUME NEW y \in S PROVE x >= y
  <2>1. n - y \in G /\ x \in Int /\ y \in Int
    BY <1>1
  <2>2. n - x <= n - y
    BY <1>3, <1>4, <2>1
  <2> HIDE DEF G
  <2> QED BY <2>1, <2>2
<1> QED
  BY <1>4, <1>5 DEF Most

\* The steps along a sequence.
Along(V, Op, s) == [i \in 1 .. Len(s) |-> [v \in V |-> Op[v][s[i]]]]

\* What a step does along a sequence.
LEMMA AlongIs ==
  ASSUME NEW V, NEW A, NEW Op \in Curried(V, A, V), NEW s \in Seq(A)
  PROVE  /\ Len(s) \in Nat /\ DOMAIN s = 1 .. Len(s)
         /\ Along(V, Op, s) \in Curried(1 .. Len(s), V, V)
         /\ \A i \in 1 .. Len(s) : \A v \in V : Along(V, Op, s)[i][v] = Op[v][s[i]]
<1>1. \A i \in 1 .. Len(s) : s[i] \in A
  OBVIOUS
<1> QED
  BY <1>1 DEF Along, Curried

\* There is a fold over every sequence ...
LEMMA SeqFoldExists ==
  ASSUME NEW V, NEW A, NEW base \in V, NEW Op \in Curried(V, A, V), NEW s \in Seq(A)
  PROVE  \E it : IsSeqFold(it, s, V, base, Op)
<1>1. /\ Len(s) \in Nat /\ DOMAIN s = 1 .. Len(s)
      /\ Along(V, Op, s) \in Curried(1 .. Len(s), V, V)
      /\ \A i \in 1 .. Len(s) : \A v \in V : Along(V, Op, s)[i][v] = Op[v][s[i]]
  BY AlongIs
<1>2. PICK it : IsFold(it, Len(s), V, base, Along(V, Op, s))
  BY <1>1, FoldExists
<1>3. ASSUME NEW S \in SUBSET (1 .. Len(s)), S # {}
      PROVE  it[S] = Op[it[S \ {Most(S)}]][s[Most(S)]]
  <2>1. Most(S) \in S /\ S \ {Most(S)} \in SUBSET (1 .. Len(s))
    BY <1>1, <1>3, MostIs
  <2>2. Most(S) \in 1 .. Len(s) /\ it[S \ {Most(S)}] \in V
    BY <1>2, <2>1 DEF IsFold
  <2> QED BY <1>1, <1>2, <1>3, <2>2 DEF IsFold
<1>4. it \in [SUBSET (1 .. Len(s)) -> V] /\ it[{}] = base
  BY <1>2 DEF IsFold
<1> QED
  BY <1>1, <1>3, <1>4 DEF IsSeqFold

\* ... and all that obey its equations agree on the whole.
LEMMA SeqFoldUnique ==
  ASSUME NEW V, NEW A, NEW base \in V, NEW Op \in Curried(V, A, V), NEW s \in Seq(A), NEW f, NEW g,
         SeqObeys(f, s, V, base, Op), SeqObeys(g, s, V, base, Op)
  PROVE  f[DOMAIN s] = g[DOMAIN s] /\ f[DOMAIN s] \in V
<1>1. /\ Len(s) \in Nat /\ DOMAIN s = 1 .. Len(s)
      /\ Along(V, Op, s) \in Curried(1 .. Len(s), V, V)
      /\ \A i \in 1 .. Len(s) : \A v \in V : Along(V, Op, s)[i][v] = Op[v][s[i]]
  BY AlongIs
<1>2. \A S \in SUBSET (1 .. Len(s)) : S # {} => Most(S) \in 1 .. Len(s)
  BY <1>1, MostIs
<1>3. ASSUME NEW k, SeqObeys(k, s, V, base, Op)
      PROVE  Obeys(k, Len(s), V, base, Along(V, Op, s))
  <2> DEFINE n == Len(s)
             D == Along(V, Op, s)
  <2>1. /\ k[{}] = base
        /\ \A S \in SUBSET (1 .. n) :
             S # {} /\ k[S \ {Most(S)}] \in V => k[S] = Op[k[S \ {Most(S)}]][s[Most(S)]]
    BY <1>1, <1>3 DEF SeqObeys
  <2>2. /\ \A S \in SUBSET (1 .. n) : S # {} => Most(S) \in 1 .. n
        /\ \A i \in 1 .. n : \A v \in V : D[i][v] = Op[v][s[i]]
    BY <1>1, <1>2
  <2> HIDE DEF n, D
  <2>3. \A S \in SUBSET (1 .. n) :
          S # {} /\ k[S \ {Most(S)}] \in V => k[S] = D[Most(S)][k[S \ {Most(S)}]]
    BY <2>1, <2>2
  <2> QED BY <2>1, <2>3 DEF Obeys, n, D
<1> QED
  BY <1>1, <1>3, FoldUnique

\* A fold of sequences, over a step that is a function, is defined from the
\* empty one on, element by element; and whatever obeys the equation of FoldLeft
\* is that fold.
LEMMA FoldOf ==
  ASSUME NEW V, NEW A, NEW base \in V, NEW Op \in Curried(V, A, V)
  PROVE  \E F \in [Seq(A) -> V] :
           /\ F[<<>>] = base
           /\ \A s \in Seq(A) : \A a \in A : F[Append(s, a)] = Op[F[s]][a]
           /\ \A s \in Seq(A) : \E it : IsSeqFold(it, s, V, base, Op)
           /\ \A s \in Seq(A) : \A f : SeqObeys(f, s, V, base, Op) => f[DOMAIN s] = F[s]
<1> DEFINE Rec(f, s) == SeqObeys(f, s, V, base, Op)
           Is(it, s) == IsSeqFold(it, s, V, base, Op)
           It(s) == CHOOSE it : Is(it, s)
           F == [s \in Seq(A) |-> It(s)[DOMAIN s]]
<1>1. ASSUME NEW s \in Seq(A)
      PROVE  Is(It(s), s)
  <2>1. \E it : Is(it, s)
    BY SeqFoldExists
  <2> HIDE DEF Is
  <2> QED BY <2>1
<1> HIDE DEF It
<1>2. ASSUME NEW s \in Seq(A), NEW f, NEW g, Rec(f, s), Rec(g, s)
      PROVE  f[DOMAIN s] = g[DOMAIN s] /\ f[DOMAIN s] \in V
  BY <1>2, SeqFoldUnique
<1>3. ASSUME NEW s \in Seq(A)
      PROVE  F[s] = It(s)[DOMAIN s] /\ It(s)[DOMAIN s] \in V
  BY <1>1 DEF IsSeqFold
<1>4. F \in [Seq(A) -> V]
  BY <1>3
<1>5. ASSUME NEW s \in Seq(A), NEW f, Rec(f, s)
      PROVE  f[DOMAIN s] = F[s]
  <2>1. Rec(It(s), s)
    BY <1>1 DEF IsSeqFold, SeqObeys
  <2> HIDE DEF Rec, Is
  <2> QED BY <1>2, <1>3, <1>5, <2>1
<1>6. F[<<>>] = base
  <2>1. <<>> \in Seq(A) /\ DOMAIN <<>> = {}
    OBVIOUS
  <2> QED BY <1>1, <1>3, <2>1 DEF IsSeqFold
<1>7. ASSUME NEW s \in Seq(A), NEW a \in A
      PROVE  F[Append(s, a)] = Op[F[s]][a]
  <2> DEFINE r == Append(s, a)
             g == It(r)
  <2>1. /\ r \in Seq(A) /\ Len(r) = Len(s) + 1 /\ Len(s) \in Nat
        /\ DOMAIN s = 1 .. Len(s) /\ DOMAIN r = 1 .. Len(s) + 1
        /\ r[Len(s) + 1] = a /\ \A i \in 1 .. Len(s) : r[i] = s[i]
    OBVIOUS
  <2> HIDE DEF r
  <2>2. Is(g, r)
    BY <1>1, <2>1
  <2>3. Rec(g, s)
    <3>1. ASSUME NEW S \in SUBSET (DOMAIN s), S # {}
          PROVE  g[S] = Op[g[S \ {Most(S)}]][s[Most(S)]]
      <4>0. S \in SUBSET (1 .. Len(s)) /\ Len(s) \in Nat
        BY <2>1
      <4>1. S \in SUBSET (DOMAIN r) /\ Most(S) \in 1 .. Len(s)
        <5>1. Most(S) \in S
          BY <3>1, <4>0, MostIs
        <5> QED BY <2>1, <4>0, <5>1
      <4>2. g[S] = Op[g[S \ {Most(S)}]][r[Most(S)]]
        BY <2>2, <3>1, <4>1 DEF IsSeqFold
      <4> QED BY <2>1, <4>1, <4>2
    <3> QED BY <2>2, <3>1 DEF IsSeqFold, SeqObeys
  <2>4. g[DOMAIN s] = F[s]
    <3> HIDE DEF Rec, F, g
    <3> QED BY <1>5, <2>3
  <2>5. Most(DOMAIN r) = Len(s) + 1 /\ DOMAIN r \ {Len(s) + 1} = DOMAIN s /\ DOMAIN r # {}
    BY <2>1, MostOfInterval
  <2>6. g[DOMAIN r] = Op[g[DOMAIN s]][r[Len(s) + 1]]
    <3>1. DOMAIN r \in SUBSET (DOMAIN r)
      OBVIOUS
    <3> HIDE DEF g
    <3> QED BY <2>2, <2>5, <3>1 DEF IsSeqFold
  <2>7. F[r] = g[DOMAIN r]
    BY <1>3, <2>1
  <2> QED BY <2>1, <2>4, <2>6, <2>7 DEF r
<1>8. ASSUME NEW s \in Seq(A)
      PROVE  \E it : IsSeqFold(it, s, V, base, Op)
  BY SeqFoldExists
<1> HIDE DEF F
<1> QED
  BY <1>4, <1>5, <1>6, <1>7, <1>8

-----------------------------------------------------------------------------
(* Induction over sequences, and what concatenation does.                  *)

\* Induction over sequences, from the empty one on.
LEMMA SeqInduction ==
  ASSUME NEW A, NEW P, <<>> \in P, \A s \in Seq(A) : \A a \in A : s \in P => Append(s, a) \in P
  PROVE  \A s \in Seq(A) : s \in P
<1> DEFINE G == {Len(s) : s \in Seq(A) \ P}
<1> SUFFICES ASSUME NEW w \in Seq(A), w \notin P PROVE FALSE
  OBVIOUS
<1>1. G \in SUBSET Nat /\ Len(w) \in G
  OBVIOUS
<1>2. PICK m \in G : \A n \in G : m <= n
  <2> HIDE DEF G
  <2> QED BY <1>1, LeastNatural
<1>3. PICK s \in Seq(A) \ P : m = Len(s)
  BY <1>2
<1>4. s # <<>>
  OBVIOUS
<1>5. PICK t \in Seq(A), a \in A : s = Append(t, a)
  BY <1>4, SequenceEmptyOrAppend
<1>6. Len(t) < m /\ Len(t) \in Nat
  BY <1>3, <1>5
<1>7. t \in P
  BY <1>2, <1>6
<1> QED
  BY <1>5, <1>7

\* A function on sequences that obeys the equation of FoldLeft goes step by step.
LEMMA FoldIs ==
  ASSUME NEW V, NEW A, NEW base \in V, NEW Op \in Curried(V, A, V), NEW F,
         \A s \in Seq(A) : \E f : SeqObeys(f, s, V, base, Op) /\ F[s] = f[DOMAIN s]
  PROVE  /\ \A s \in Seq(A) : F[s] \in V
         /\ F[<<>>] = base
         /\ \A s \in Seq(A) : \A a \in A : F[Append(s, a)] = Op[F[s]][a]
<1>1. PICK G \in [Seq(A) -> V] :
           /\ G[<<>>] = base
           /\ \A s \in Seq(A) : \A a \in A : G[Append(s, a)] = Op[G[s]][a]
           /\ \A s \in Seq(A) : \A f : SeqObeys(f, s, V, base, Op) => f[DOMAIN s] = G[s]
  BY FoldOf
<1>2. \A s \in Seq(A) : F[s] = G[s] /\ G[s] \in V
  BY <1>1
<1>3. <<>> \in Seq(A) /\ \A s \in Seq(A) : \A a \in A : Append(s, a) \in Seq(A)
  OBVIOUS
<1>4. F[<<>>] = base
  BY <1>1, <1>2, <1>3
<1>5. ASSUME NEW s \in Seq(A), NEW a \in A PROVE F[Append(s, a)] = Op[F[s]][a]
  <2>1. F[Append(s, a)] = G[Append(s, a)] /\ F[s] = G[s]
    BY <1>2, <1>3
  <2> QED BY <1>1, <2>1
<1> QED
  BY <1>2, <1>4, <1>5

\* The parts of a text put together from two.
LEMMA Parts ==
  ASSUME NEW S, NEW x \in Seq(S), NEW y \in Seq(S)
  PROVE  /\ x \o y \in Seq(S) /\ Len(x \o y) = Len(x) + Len(y)
         /\ SubSeq(x \o y, 1, Len(x)) = x
         /\ SubSeq(x \o y, Len(x) + 1, Len(x) + Len(y)) = y
<1>1. /\ x \o y \in Seq(S) /\ Len(x \o y) = Len(x) + Len(y) /\ Len(x) \in Nat /\ Len(y) \in Nat
      /\ \A i \in 1 .. Len(x) + Len(y) : (x \o y)[i] = IF i <= Len(x) THEN x[i] ELSE y[i - Len(x)]
  BY ConcatProperties
<1> DEFINE u == SubSeq(x \o y, 1, Len(x))
           v == SubSeq(x \o y, Len(x) + 1, Len(x) + Len(y))
<1>2. u \in Seq(S) /\ Len(u) = Len(x) /\ \A i \in 1 .. Len(x) : u[i] = x[i]
  BY <1>1
<1>3. u = x
  <2> HIDE DEF u
  <2> QED BY <1>2, SeqEqual
<1>4. v \in Seq(S) /\ Len(v) = Len(y) /\ \A i \in 1 .. Len(y) : v[i] = (x \o y)[Len(x) + i]
  BY <1>1
<1>5. ASSUME NEW i \in 1 .. Len(y) PROVE v[i] = y[i]
  <2>1. Len(x) + i \in 1 .. Len(x) + Len(y) /\ ~ (Len(x) + i <= Len(x)) /\ (Len(x) + i) - Len(x) = i
    BY <1>1
  <2> HIDE DEF v
  <2> QED BY <1>1, <1>4, <2>1
<1>6. v = y
  <2> HIDE DEF v
  <2> QED BY <1>4, <1>5, SeqEqual
<1> QED
  BY <1>1, <1>3, <1>6

\* A sequence is what precedes a position, its element there and what follows.
LEMMA Around ==
  ASSUME NEW S, NEW s \in Seq(S), NEW k \in 1 .. Len(s)
  PROVE  /\ SubSeq(s, 1, k - 1) \in Seq(S) /\ SubSeq(s, k + 1, Len(s)) \in Seq(S)
         /\ Len(SubSeq(s, 1, k - 1)) = k - 1 /\ Len(SubSeq(s, k + 1, Len(s))) = Len(s) - k
         /\ s = Append(SubSeq(s, 1, k - 1), s[k]) \o SubSeq(s, k + 1, Len(s))
<1> DEFINE a == SubSeq(s, 1, k - 1)
           b == SubSeq(s, k + 1, Len(s))
           c == Append(a, s[k])
<1>1. /\ a \in Seq(S) /\ Len(a) = k - 1 /\ b \in Seq(S) /\ Len(b) = Len(s) - k
      /\ \A i \in 1 .. k - 1 : a[i] = s[i]
      /\ \A i \in 1 .. Len(s) - k : b[i] = s[k + i]
      /\ s[k] \in S /\ Len(s) \in Nat /\ k \in Nat
  OBVIOUS
<1> HIDE DEF a, b
<1>2. /\ c \in Seq(S) /\ Len(c) = k /\ \A i \in 1 .. k : c[i] = s[i]
  BY <1>1
<1> HIDE DEF c
<1>3. /\ c \o b \in Seq(S) /\ Len(c \o b) = Len(s)
      /\ \A i \in 1 .. Len(s) : (c \o b)[i] = IF i <= k THEN c[i] ELSE b[i - k]
  <2>1. Len(c) + Len(b) = Len(s)
    BY <1>1, <1>2
  <2>2. c \in Seq(S) /\ b \in Seq(S)
    BY <1>1, <1>2
  <2>3. /\ c \o b \in Seq(S) /\ Len(c \o b) = Len(c) + Len(b)
        /\ \A i \in 1 .. Len(c) + Len(b) : (c \o b)[i] = IF i <= Len(c) THEN c[i] ELSE b[i - Len(c)]
    BY <2>2, ConcatProperties
  <2> QED BY <1>2, <2>1, <2>3
<1>4. ASSUME NEW i \in 1 .. Len(s) PROVE (c \o b)[i] = s[i]
  <2>1. i <= k => i \in 1 .. k
    BY <1>1
  <2>2. ~ (i <= k) => i - k \in 1 .. Len(s) - k /\ k + (i - k) = i
    BY <1>1
  <2> QED BY <1>1, <1>2, <1>3, <2>1, <2>2
<1>5. s = c \o b
  BY <1>3, <1>4, SeqEqual
<1> QED
  BY <1>1, <1>5 DEF a, b, c

\* What concatenation does, behind names that the provers do not look into.
Associates(x, y, z) == (x \o y) \o z = x \o (y \o z)

Concats(S, x, y) ==
  /\ x \o y \in Seq(S) /\ Len(x \o y) = Len(x) + Len(y) /\ Len(x) \in Nat /\ Len(y) \in Nat
  /\ \A i \in 1 .. Len(x) + Len(y) : (x \o y)[i] = IF i <= Len(x) THEN x[i] ELSE y[i - Len(x)]

Parted(x, y) ==
  /\ SubSeq(x \o y, 1, Len(x)) = x
  /\ SubSeq(x \o y, Len(x) + 1, Len(x) + Len(y)) = y

\* Concatenation is associative.
LEMMA AllAssociate ==
  ASSUME NEW S, NEW x \in Seq(S), NEW y \in Seq(S), NEW z \in Seq(S)
  PROVE  Associates(x, y, z)
BY ConcatAssociative DEF Associates

\* The length, the elements and the parts of a concatenation.
LEMMA AllConcat ==
  ASSUME NEW S, NEW x \in Seq(S), NEW y \in Seq(S)
  PROVE  Concats(S, x, y) /\ Parted(x, y)
<1>1. Parted(x, y)
  BY Parts DEF Parted
<1>2. Concats(S, x, y)
  BY ConcatProperties DEF Concats
<1> QED
  BY <1>1, <1>2

\* A sequence with an element behind it, and a sequence without its last.
LEMMA AppendedIs ==
  ASSUME NEW S, NEW s \in Seq(S), NEW a \in S
  PROVE  /\ Append(s, a) # <<>> /\ Append(s, a) \in Seq(S) /\ Len(Append(s, a)) = Len(s) + 1
         /\ Front(Append(s, a)) = s /\ Last(Append(s, a)) = a
<1>1. /\ Append(s, a) # <<>> /\ Append(s, a) \in Seq(S) /\ Len(Append(s, a)) = Len(s) + 1
      /\ Append(s, a)[Len(s) + 1] = a /\ \A i \in 1 .. Len(s) : Append(s, a)[i] = s[i]
      /\ Len(s) \in Nat
  OBVIOUS
<1>2. SubSeq(Append(s, a), 1, Len(s)) = s
  <2>1. /\ SubSeq(Append(s, a), 1, Len(s)) \in Seq(S) /\ Len(SubSeq(Append(s, a), 1, Len(s))) = Len(s)
        /\ \A i \in 1 .. Len(s) : SubSeq(Append(s, a), 1, Len(s))[i] = s[i]
    OBVIOUS
  <2> QED BY <2>1, SeqEqual
<1> QED
  BY <1>1, <1>2 DEF Front, Last

\* A sequence that is not empty is its front and its last element.
LEMMA LastIs ==
  ASSUME NEW S, NEW s \in Seq(S), s # <<>>
  PROVE  /\ Last(s) \in S /\ Front(s) \in Seq(S) /\ s = Append(Front(s), Last(s))
         /\ Len(Front(s)) = Len(s) - 1 /\ Len(s) \in Nat \ {0} /\ Last(s) = s[Len(s)]
         /\ \A i \in 1 .. Len(s) - 1 : Front(s)[i] = s[i]
<1>1. Len(s) \in Nat \ {0} /\ Last(s) = s[Len(s)] /\ Last(s) \in S
  BY DEF Last
<1>2. \A i \in 1 .. Len(s) - 1 : s[i] \in S
  BY <1>1
<1>3. /\ Front(s) \in Seq(S) /\ Len(Front(s)) = Len(s) - 1
      /\ \A i \in 1 .. Len(s) - 1 : Front(s)[i] = s[i]
  <2> DEFINE n == Len(s) - 1
  <2>1. n \in Int /\ n >= 0 /\ 1 \in Int
    BY <1>1
  <2>2. Front(s) = SubSeq(s, 1, n)
    BY DEF Front
  <2> HIDE DEF n
  <2>3. ASSUME \A i \in 1 .. n : s[i] \in S
        PROVE  /\ SubSeq(s, 1, n) \in Seq(S)
               /\ Len(SubSeq(s, 1, n)) = IF 1 <= n THEN n - 1 + 1 ELSE 0
               /\ \A i \in 1 .. n - 1 + 1 : SubSeq(s, 1, n)[i] = s[1 + i - 1]
    BY <2>1, <2>3, SubSeqProperties
  <2>4. n - 1 + 1 = n /\ \A i \in 1 .. n : 1 + i - 1 = i
    BY <2>1
  <2>5. (IF 1 <= n THEN n - 1 + 1 ELSE 0) = n
    BY <2>1
  <2> QED BY <1>2, <2>2, <2>3, <2>4, <2>5 DEF n
<1>4. /\ Append(Front(s), Last(s)) \in Seq(S) /\ Len(Append(Front(s), Last(s))) = Len(s)
      /\ \A i \in 1 .. Len(s) : Append(Front(s), Last(s))[i] = s[i]
  BY <1>1, <1>3
<1>5. s = Append(Front(s), Last(s))
  BY <1>4, SeqEqual
<1> QED
  BY <1>1, <1>3, <1>5

\* What is appended to the second part is appended to the whole.
LEMMA AppendConcat ==
  ASSUME NEW S, NEW a \in Seq(S), NEW b \in Seq(S), NEW x \in S
  PROVE  a \o Append(b, x) = Append(a \o b, x) /\ Append(b, x) \in Seq(S) /\ a \o b \in Seq(S)
<1>1. /\ b \o <<x>> = Append(b, x) /\ (a \o b) \o <<x>> = Append(a \o b, x)
      /\ <<x>> \in Seq(S) /\ a \o b \in Seq(S) /\ Append(b, x) \in Seq(S)
  BY AppendIsConcat
<1>2. (a \o b) \o <<x>> = a \o (b \o <<x>>)
  BY <1>1, ConcatAssociative
<1> QED
  BY <1>1, <1>2

=============================================================================
