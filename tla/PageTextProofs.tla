--------------------------- MODULE PageTextProofs ---------------------------
(***************************************************************************)
(* Proofs about PageText, for any pages, ranges and captured texts: what   *)
(* is stored of a text is its content, a link is resolved as the standard  *)
(* says where redurceurl is right about it, and the links the ranges admit *)
(* are the ones that are stored.                                           *)
(*                                                                         *)
(* The reference definitions are folds over sequences; what a fold does is *)
(* in Folding.                                                             *)
(***************************************************************************)
EXTENDS PageText, Folding

-----------------------------------------------------------------------------
(* Content.                                                                *)

\* The tokens of a captured text and the states of a reader.
Token == Brackets \cup {">", "word"}
Modes == {"text", "tag", "quote", "script", "style"}
States == [mode : Modes, since : Nat, kept : Seq(Token), quoted : BOOLEAN, clean : BOOLEAN]

\* The positions up to k.
Upto(k) == [i \in 1 .. k |-> i]

\* The first positions of a text, one more at a time.
LEMMA UptoIs ==
  ASSUME NEW n \in Nat, NEW k \in 0 .. n
  PROVE  /\ Upto(k) \in Seq(1 .. n) /\ Upto(0) = <<>>
         /\ k < n => Upto(k + 1) = Append(Upto(k), k + 1) /\ k + 1 \in 1 .. n
<1>1. Upto(k) \in Seq(1 .. n) /\ Len(Upto(k)) = k
  BY DEF Upto
<1>2. Upto(0) = <<>>
  BY DEF Upto
<1>3. ASSUME k < n PROVE Upto(k + 1) = Append(Upto(k), k + 1) /\ k + 1 \in 1 .. n
  BY <1>3 DEF Upto
<1> QED
  BY <1>1, <1>2, <1>3

\* A reader that reads on is a reader.
LEMMA ReadsIs ==
  ASSUME NEW text \in Seq(Token), NEW i \in 1 .. Len(text), NEW r \in States
  PROVE  Reads(r, text, i) \in States
<1>1. text[i] \in Token /\ i \in Nat
  OBVIOUS
<1>2. ASSUME text[i] \in Opening PROVE Entered[text[i]] \in Modes
  BY <1>2 DEF Entered, Opening, Modes
<1>3. "text" \in Modes
  BY DEF Modes
<1> DEFINE now == [r EXCEPT !.quoted = FALSE,
                       !.clean = @ /\ (r.quoted => text[i] \in Brackets \ {"<blockquote"})]
<1>4. now \in States /\ now.kept = r.kept
  BY DEF States
<1> HIDE DEF now
<1>5. ASSUME text[i] \in Opening PROVE [now EXCEPT !.mode = Entered[text[i]], !.since = i] \in States
  BY <1>1, <1>2, <1>4, <1>5 DEF States
<1>6. [now EXCEPT !.kept = Append(@, text[i])] \in States
  <2> DEFINE b == Append(now.kept, text[i])
  <2>1. b \in Seq(Token)
    BY <1>1, <1>4 DEF States
  <2> HIDE DEF b
  <2>2. [now EXCEPT !.kept = b] \in States
    BY <1>4, <2>1 DEF States
  <2> QED
    BY <2>2 DEF b
<1>7. [now EXCEPT !.mode = "text"] \in States
  BY <1>3, <1>4 DEF States
<1>8. [now EXCEPT !.mode = "text", !.quoted = r.mode = "quote"] \in States
  BY <1>3, <1>4 DEF States
<1> QED
  BY <1>4, <1>5, <1>6, <1>7, <1>8 DEF Reads, now

\* What a reader knows after k tokens.
LEMMA ReadSteps ==
  ASSUME NEW text \in Seq(Token)
  PROVE  \E R \in [0 .. Len(text) -> States] :
           /\ R[0] = Reader
           /\ \A k \in 1 .. Len(text) : R[k] = Reads(R[k - 1], text, k)
           /\ R[Len(text)] = FoldLeftDomain(LAMBDA x, i : Reads(x, text, i), Reader, text)
<1> DEFINE n  == Len(text)
           A  == 1 .. n
           Op == [r \in States |-> [i \in A |-> Reads(r, text, i)]]
<1>1. n \in Nat /\ DOMAIN text = 1 .. n
  OBVIOUS
<1>2. Op \in Curried(States, A, States)
  BY ReadsIs DEF Curried
<1>3. Reader \in States
  BY DEF Reader, States, Modes
<1> HIDE DEF Op, A
<1>4. PICK F \in [Seq(A) -> States] :
         /\ F[<<>>] = Reader
         /\ \A s \in Seq(A) : \A a \in A : F[Append(s, a)] = Op[F[s]][a]
         /\ \A s \in Seq(A) : \E it : IsSeqFold(it, s, States, Reader, Op)
         /\ \A s \in Seq(A) : \A f : SeqObeys(f, s, States, Reader, Op) => f[DOMAIN s] = F[s]
  BY <1>2, <1>3, FoldOf
<1> DEFINE s == Upto(n)
           P(f) == f = [S \in SUBSET (DOMAIN s) |->
                          IF S = {} THEN Reader ELSE Reads(f[S \ {Most(S)}], text, s[Most(S)])]
           f0 == CHOOSE f : P(f)
<1>5. s \in Seq(A) /\ s = [i \in DOMAIN text |-> i] /\ DOMAIN s = 1 .. n
  BY <1>1, UptoIs DEF A, Upto
<1>6. FoldLeftDomain(LAMBDA x, i : Reads(x, text, i), Reader, text) = f0[DOMAIN s]
  BY <1>5 DEF FoldLeftDomain, FoldLeft, MapThenFoldSet, Max, Most
<1>7. \A S \in SUBSET (DOMAIN s) : S # {} => Most(S) \in DOMAIN s /\ s[Most(S)] = Most(S) /\ Most(S) \in A
  BY <1>1, <1>5, MostIs DEF A
<1>8. \A r \in States, i \in A : Op[r][i] = Reads(r, text, i)
  BY DEF Op
<1>9. PICK it : IsSeqFold(it, s, States, Reader, Op)
  BY <1>4, <1>5
<1>10. P(it)
  <2>1. /\ it \in [SUBSET (DOMAIN s) -> States] /\ it[{}] = Reader
        /\ \A S \in SUBSET (DOMAIN s) : S # {} => it[S] = Op[it[S \ {Most(S)}]][s[Most(S)]]
    BY <1>9 DEF IsSeqFold
  <2>2. ASSUME NEW S \in SUBSET (DOMAIN s), S # {}
        PROVE  it[S] = Reads(it[S \ {Most(S)}], text, s[Most(S)])
    <3>1. it[S \ {Most(S)}] \in States
      BY <2>1
    <3> QED
      BY <2>1, <2>2, <3>1, <1>7, <1>8
  <2> QED
    BY <2>1, <2>2
<1>11. P(f0)
  BY <1>10
<1> HIDE DEF f0
<1>12. SeqObeys(f0, s, States, Reader, Op)
  <2>1. f0[{}] = Reader
    BY <1>11
  <2>2. ASSUME NEW S \in SUBSET (DOMAIN s), S # {}, f0[S \ {Most(S)}] \in States
        PROVE  f0[S] = Op[f0[S \ {Most(S)}]][s[Most(S)]]
    <3>1. f0[S] = Reads(f0[S \ {Most(S)}], text, s[Most(S)])
      BY <1>11, <2>2
    <3> QED
      BY <2>2, <3>1, <1>7, <1>8
  <2> QED
    BY <2>1, <2>2 DEF SeqObeys
<1>13. f0[DOMAIN s] = F[s]
  BY <1>4, <1>5, <1>12
<1> DEFINE R == [k \in 0 .. n |-> F[Upto(k)]]
<1>14. \A k \in 0 .. n : Upto(k) \in Seq(A) /\ Upto(0) = <<>>
  BY <1>1, UptoIs DEF A
<1>15. R \in [0 .. n -> States] /\ R[0] = Reader /\ R[n] = F[s]
  BY <1>1, <1>4, <1>14
<1>16. ASSUME NEW k \in 1 .. n PROVE R[k] = Reads(R[k - 1], text, k)
  <2>1. k - 1 \in 0 .. n /\ k - 1 < n /\ (k - 1) + 1 = k /\ k \in 0 .. n
    BY <1>1, <1>16
  <2>2. Upto(k) = Append(Upto(k - 1), k) /\ k \in A
    BY <1>1, <2>1, UptoIs DEF A
  <2>3. F[Upto(k)] = Op[F[Upto(k - 1)]][k] /\ F[Upto(k - 1)] \in States
    BY <1>4, <1>14, <2>1, <2>2
  <2> QED
    BY <1>8, <2>1, <2>2, <2>3
<1> QED
  BY <1>6, <1>13, <1>15, <1>16

\* What holds of a position and is handed on holds of all that follow.
LEMMA Ascent ==
  ASSUME NEW a \in Nat, NEW b \in Nat, NEW S, a \in S, \A k \in a .. (b - 1) : k \in S => k + 1 \in S
  PROVE  \A k \in a .. b : k \in S
<1> DEFINE G == {k \in a .. b : k \notin S}
<1> SUFFICES ASSUME G # {} PROVE FALSE
  OBVIOUS
<1>1. G \in SUBSET Nat
  OBVIOUS
<1>2. PICK m \in G : \A k \in G : m <= k
  BY <1>1, LeastNatural
<1>3. m - 1 \in a .. (b - 1) /\ m - 1 \notin G /\ (m - 1) + 1 = m /\ m - 1 \in a .. b
  BY <1>2
<1> QED
  BY <1>2, <1>3

\* What a reader of text knows after each token.
IsReading(R, text) ==
  /\ R \in [0 .. Len(text) -> States]
  /\ R[0] = Reader
  /\ \A k \in 1 .. Len(text) : R[k] = Reads(R[k - 1], text, k)

\* The states of the reader along a text.
Reading(text) == CHOOSE R : IsReading(R, text)

\* The tag a reader is still in.
WithTag(r, text) == IF r.mode = "tag" THEN r.kept \o SubSeq(text, r.since, Len(text)) ELSE r.kept

\* What Read says of a text is the reader behind its last token.
LEMMA ReadingIs ==
  ASSUME NEW text \in Seq(Token)
  PROVE  /\ IsReading(Reading(text), text)
         /\ Read(text) = [clean |-> Reading(text)[Len(text)].clean,
                          kept |-> WithTag(Reading(text)[Len(text)], text)]
<1> DEFINE n == Len(text)
           X == FoldLeftDomain(LAMBDA x, i : Reads(x, text, i), Reader, text)
<1>1. PICK R : IsReading(R, text) /\ R[n] = X
  BY ReadSteps DEF IsReading
<1>6. Read(text) = [clean |-> X.clean,
          kept |-> IF X.mode = "tag" THEN X.kept \o SubSeq(text, X.since, Len(text)) ELSE X.kept]
  BY DEF Read
<1> HIDE DEF X
<1>2. IsReading(Reading(text), text)
  BY <1>1 DEF Reading
<1> DEFINE Q == Reading(text)
           Same == {k \in 0 .. n : Q[k] = R[k]}
<1>3. n \in Nat /\ 0 \in Nat /\ 0 \in Same /\ n \in 0 .. n
  BY <1>1, <1>2 DEF IsReading
<1>4. ASSUME NEW k \in 0 .. (n - 1), k \in Same PROVE k + 1 \in Same
  <2>1. k + 1 \in 1 .. n /\ (k + 1) - 1 = k
    BY <1>3
  <2>2. Q[k + 1] = Reads(Q[k], text, k + 1) /\ R[k + 1] = Reads(R[k], text, k + 1)
    BY <1>1, <1>2, <2>1 DEF IsReading
  <2> QED
    BY <1>4, <2>1, <2>2, <1>3
<1>5. n \in Same
  <2> HIDE DEF Same
  <2> QED BY <1>3, <1>4, Ascent
<1>7. Q[n] = X
  BY <1>1, <1>5
<1> QED
  BY <1>2, <1>6, <1>7 DEF WithTag

----------------------------------------------------------------------------
(* One token.                                                              *)

\* A reader that is clean has been so all along.
LEMMA CleanBefore ==
  ASSUME NEW text \in Seq(Token), NEW R, IsReading(R, text), R[Len(text)].clean,
         NEW k \in 0 .. Len(text)
  PROVE  R[k].clean
<1> DEFINE n == Len(text)
           Soiled == {j \in 0 .. n : ~ R[j].clean}
<1> SUFFICES ASSUME k \in Soiled PROVE FALSE
  OBVIOUS
<1>1. n \in Nat /\ k \in Nat
  OBVIOUS
<1>2. ASSUME NEW j \in k .. (n - 1), j \in Soiled PROVE j + 1 \in Soiled
  <2>1. j + 1 \in 1 .. n /\ (j + 1) - 1 = j /\ j \in 0 .. n
    BY <1>1
  <2>2. R[j + 1] = Reads(R[j], text, j + 1) /\ R[j] \in States
    BY <2>1 DEF IsReading
  <2>3. ~ Reads(R[j], text, j + 1).clean
    BY <1>2, <2>2 DEF Reads, States
  <2> QED
    BY <2>1, <2>2, <2>3
<1>3. n \in k .. n
  BY <1>1
<1>4. n \in Soiled
  <2> HIDE DEF Soiled
  <2> QED BY <1>1, <1>2, <1>3, Ascent
<1> QED
  BY <1>4

\* A token read in plain text.
LEMMA ReadInText ==
  ASSUME NEW text \in Seq(Token), NEW R, IsReading(R, text), NEW k \in 1 .. Len(text),
         R[k - 1].mode = "text"
  PROVE  /\ text[k] \in Opening => /\ R[k].mode = Entered[text[k]] /\ R[k].since = k
                                  /\ R[k].kept = R[k - 1].kept
         /\ text[k] \in Brackets \ Opening => R[k].mode = "text" /\ R[k].kept = R[k - 1].kept
         /\ text[k] \notin Brackets => R[k].mode = "text" /\ R[k].kept = Append(R[k - 1].kept, text[k])
         /\ R[k].clean /\ R[k - 1].quoted => text[k] \in Brackets \ {"<blockquote"}
<1>1. R[k] = Reads(R[k - 1], text, k) /\ R[k - 1] \in States
  BY DEF IsReading
<1> DEFINE r == R[k - 1]
           now == [r EXCEPT !.quoted = FALSE,
                       !.clean = @ /\ (r.quoted => text[k] \in Brackets \ {"<blockquote"})]
<1>2. /\ now \in States /\ now.kept = r.kept /\ now.mode = "text"
      /\ now.clean => (r.quoted => text[k] \in Brackets \ {"<blockquote"})
  BY <1>1 DEF States
<1>3. R[k] = IF text[k] \in Opening THEN [now EXCEPT !.mode = Entered[text[k]], !.since = k]
             ELSE IF text[k] \in Brackets THEN now ELSE [now EXCEPT !.kept = Append(@, text[k])]
  BY <1>1 DEF Reads
<1>4. Opening \subseteq Brackets
  BY DEF Brackets
<1> HIDE DEF now
<1>5. CASE text[k] \in Opening
  BY <1>2, <1>3, <1>4, <1>5 DEF States
<1>6. CASE text[k] \in Brackets \ Opening
  BY <1>2, <1>3, <1>6
<1>7. CASE text[k] \notin Brackets
  BY <1>2, <1>3, <1>4, <1>7 DEF States
<1> QED
  BY <1>5, <1>6, <1>7

\* What a reader in an element waits for.
Leaving(mode) == IF mode = "tag" THEN Ends ELSE {Closing[mode]}

\* A token read elsewhere.
LEMMA ReadInElement ==
  ASSUME NEW text \in Seq(Token), NEW R, IsReading(R, text), NEW k \in 1 .. Len(text),
         R[k - 1].mode # "text"
  PROVE  /\ R[k].kept = R[k - 1].kept
         /\ text[k] \in Leaving(R[k - 1].mode) =>
              R[k].mode = "text" /\ (R[k - 1].mode = "quote" => R[k].quoted)
         /\ text[k] \notin Leaving(R[k - 1].mode) =>
              R[k].mode = R[k - 1].mode /\ R[k].since = R[k - 1].since
<1>1. R[k] = Reads(R[k - 1], text, k) /\ R[k - 1] \in States
  BY DEF IsReading
<1> DEFINE r == R[k - 1]
           now == [r EXCEPT !.quoted = FALSE,
                       !.clean = @ /\ (r.quoted => text[k] \in Brackets \ {"<blockquote"})]
<1>2. now \in States /\ now.kept = r.kept /\ now.mode = r.mode /\ now.since = r.since
  BY <1>1 DEF States
<1>3. R[k] = IF r.mode = "tag" THEN IF text[k] \in Ends THEN [now EXCEPT !.mode = "text"] ELSE now
             ELSE IF text[k] = Closing[r.mode] THEN [now EXCEPT !.mode = "text", !.quoted = r.mode = "quote"]
             ELSE now
  BY <1>1 DEF Reads
<1> HIDE DEF now
<1>4. CASE r.mode = "tag"
  BY <1>2, <1>3, <1>4 DEF States, Leaving
<1>5. CASE r.mode # "tag"
  BY <1>2, <1>3, <1>5 DEF States, Leaving
<1> QED
  BY <1>4, <1>5

\* Until it comes, nothing changes.
LEMMA InElement ==
  ASSUME NEW text \in Seq(Token), NEW R, IsReading(R, text),
         NEW i \in 0 .. Len(text), NEW j \in i .. Len(text), R[i].mode # "text",
         \A k \in (i + 1) .. j : text[k] \notin Leaving(R[i].mode)
  PROVE  R[j].mode = R[i].mode /\ R[j].since = R[i].since /\ R[j].kept = R[i].kept
<1> DEFINE Same == {k \in i .. j : R[k].mode = R[i].mode /\ R[k].since = R[i].since /\ R[k].kept = R[i].kept}
<1>1. i \in Nat /\ j \in Nat /\ i \in Same /\ j \in i .. j /\ Len(text) \in Nat
  OBVIOUS
<1>2. ASSUME NEW k \in i .. (j - 1), k \in Same PROVE k + 1 \in Same
  <2>1. k + 1 \in 1 .. Len(text) /\ (k + 1) - 1 = k /\ k + 1 \in (i + 1) .. j /\ k + 1 \in i .. j
    BY <1>1
  <2>2. text[k + 1] \notin Leaving(R[k].mode) /\ R[k].mode # "text"
    BY <1>2, <2>1
  <2>3. R[k + 1].kept = R[k].kept /\ R[k + 1].mode = R[k].mode /\ R[k + 1].since = R[k].since
    BY <2>1, <2>2, ReadInElement
  <2> QED
    BY <1>2, <2>1, <2>3
<1>3. j \in Same
  <2> HIDE DEF Same
  <2> QED BY <1>1, <1>2, Ascent
<1> QED
  BY <1>3

----------------------------------------------------------------------------
(* Where the code goes on.                                                 *)

\* Where an element ends, or that it does not.
LEMMA BehindIs ==
  ASSUME outstr \in Seq(Token), NEW i \in 1 .. (Len(outstr) + 1), NEW tokens
  PROVE  \/ /\ Behind(i, tokens) = Len(outstr) + 1
            /\ \A k \in i .. Len(outstr) : outstr[k] \notin tokens
         \/ \E j \in i .. Len(outstr) : /\ Behind(i, tokens) = j + 1 /\ outstr[j] \in tokens
                                       /\ \A k \in i .. (j - 1) : outstr[k] \notin tokens
<1> DEFINE n    == Len(outstr)
           hits == {j \in i .. n : outstr[j] \in tokens}
           at   == CHOOSE j \in hits : \A k \in hits : j <= k
<1>1. n \in Nat /\ i \in Nat
  OBVIOUS
<1>2. Behind(i, tokens) = IF hits = {} THEN n + 1 ELSE 1 + at
  BY DEF Behind
<1>3. CASE hits = {}
  BY <1>2, <1>3
<1>4. CASE hits # {}
  <2>1. hits \in SUBSET Nat
    BY <1>1
  <2>2. \E j \in hits : \A k \in hits : j <= k
    <3> HIDE DEF hits
    <3> QED BY <1>4, <2>1, LeastNatural
  <2>3. at \in hits /\ \A k \in hits : at <= k
    BY <2>2
  <2> HIDE DEF at
  <2>4. at \in i .. n /\ outstr[at] \in tokens /\ Behind(i, tokens) = at + 1
    BY <1>1, <1>2, <1>4, <2>3
  <2>5. ASSUME NEW k \in i .. (at - 1) PROVE outstr[k] \notin tokens
    <3>1. k \in i .. n /\ ~ (at <= k)
      BY <1>1, <2>4
    <3> QED BY <2>3, <3>1
  <2> QED
    BY <2>4, <2>5
<1> QED
  BY <1>3, <1>4

\* Behind what ends the element or the tag that begins at k.
LEMMA Left ==
  ASSUME outstr \in Seq(Token), NEW R, IsReading(R, outstr), NEW k \in 1 .. Len(outstr),
         R[k].mode # "text", NEW b, b = Behind(k + 1, Leaving(R[k].mode))
  PROVE  \/ /\ b = Len(outstr) + 1 /\ R[Len(outstr)].mode = R[k].mode
            /\ R[Len(outstr)].since = R[k].since /\ R[Len(outstr)].kept = R[k].kept
            /\ \A j \in (k + 1) .. Len(outstr) : outstr[j] \notin Leaving(R[k].mode)
         \/ /\ b \in (k + 2) .. (Len(outstr) + 1) /\ R[b - 1].mode = "text"
            /\ R[b - 1].kept = R[k].kept /\ (R[k].mode = "quote" => R[b - 1].quoted)
            /\ outstr[b - 1] \in Leaving(R[k].mode)
<1> DEFINE n == Len(outstr)
           m == R[k].mode
<1>1. n \in Nat /\ k \in Nat /\ k + 1 \in 1 .. (n + 1) /\ k \in 0 .. n /\ n \in k .. n
  OBVIOUS
<1>2. CASE b = n + 1 /\ \A j \in (k + 1) .. n : outstr[j] \notin Leaving(m)
  <2>1. R[n].mode = m /\ R[n].since = R[k].since /\ R[n].kept = R[k].kept
    BY <1>1, <1>2, InElement
  <2> QED BY <1>2, <2>1
<1>3. ASSUME NEW j \in (k + 1) .. n, b = j + 1, outstr[j] \in Leaving(m),
             \A i \in (k + 1) .. (j - 1) : outstr[i] \notin Leaving(m)
      PROVE  /\ b \in (k + 2) .. (n + 1) /\ R[b - 1].mode = "text"
             /\ R[b - 1].kept = R[k].kept /\ (m = "quote" => R[b - 1].quoted)
             /\ outstr[b - 1] \in Leaving(m)
  <2>1. j - 1 \in k .. n /\ j \in 1 .. n /\ b \in (k + 2) .. (n + 1) /\ b - 1 = j
    BY <1>1, <1>3
  <2>2. R[j - 1].mode = m /\ R[j - 1].kept = R[k].kept
    <3>1. /\ k \in 0 .. Len(outstr) /\ j - 1 \in k .. Len(outstr)
          /\ \A i \in (k + 1) .. (j - 1) : outstr[i] \notin Leaving(R[k].mode)
      BY <1>1, <1>3, <2>1
    <3> QED BY <3>1, InElement
  <2>3. R[j].kept = R[j - 1].kept /\ R[j].mode = "text" /\ (m = "quote" => R[j].quoted)
    BY <1>3, <2>1, <2>2, ReadInElement
  <2> QED
    BY <1>3, <2>1, <2>2, <2>3
<1> QED
  BY <1>1, <1>2, <1>3, BehindIs

\* Where the reader is at position q, having kept text.
Reached(R, q, text) ==
  /\ q \in 1 .. (Len(outstr) + 1)
  /\ q <= Len(outstr) => R[q - 1].mode = "text" /\ R[q - 1].kept = text
  /\ q = Len(outstr) + 1 => WithTag(R[Len(outstr)], outstr) = text

\* A tag, a script or a style sheet, or the end of one, is left as the reader does.
LEMMA Unscripting ==
  ASSUME outstr \in Seq(Token), NEW R, IsReading(R, outstr), NEW q \in 1 .. Len(outstr),
         R[q - 1].mode = "text", outstr[q] \in Brackets \ {"<blockquote"}
  PROVE  Reached(R, Unscripted(q), IF Open(q) THEN R[q - 1].kept \o SubSeq(outstr, q, Len(outstr))
                                             ELSE R[q - 1].kept)
<1> DEFINE n == Len(outstr)
           t == outstr[q]
<1>1. n \in Nat /\ q \in Nat /\ q \in 1 .. (n + 1) /\ At(q) = t
  BY DEF At
<1>2. CASE t \in {"<script", "<style"}
  <2>1. R[q].mode = Entered[t] /\ R[q].kept = R[q - 1].kept /\ R[q].mode \in {"script", "style"}
    BY <1>2, ReadInText DEF Opening, Entered
  <2>2. Unscripted(q) = Behind(q + 1, Leaving(R[q].mode))
    BY <1>1, <1>2, <2>1 DEF Unscripted, Leaving, Entered, Opening, Closing
  <2>3. ~ Open(q)
    BY <1>1, <1>2 DEF Open, Tag
  <2>4. \/ /\ Unscripted(q) = n + 1 /\ R[n].mode = R[q].mode /\ R[n].kept = R[q].kept
        \/ /\ Unscripted(q) \in (q + 2) .. (n + 1) /\ R[Unscripted(q) - 1].mode = "text"
           /\ R[Unscripted(q) - 1].kept = R[q].kept
    BY <2>1, <2>2, Left
  <2> QED
    BY <1>1, <2>1, <2>3, <2>4 DEF Reached, WithTag
<1>3. CASE t = "<"
  <2>1. R[q].mode = "tag" /\ R[q].kept = R[q - 1].kept /\ R[q].since = q
    <3>1. "<" \in Opening
      BY DEF Opening
    <3>2. Entered["<"] = "tag"
      BY <3>1 DEF Entered
    <3> QED BY <1>3, <3>1, <3>2, ReadInText
  <2>2. t \notin Ends
    BY <1>3 DEF Ends, Closing
  <2>3. Unscripted(q) = Behind(q, Ends) /\ Tag(q)
    BY <1>1, <1>3 DEF Unscripted, Tag
  <2>4. Behind(q, Ends) = Behind(q + 1, Ends)
    <3> DEFINE G == {j \in q .. n : outstr[j] \in Ends}
               H == {j \in (q + 1) .. n : outstr[j] \in Ends}
    <3>1. G = H
      BY <1>1, <2>2
    <3>2. /\ Behind(q, Ends) = IF G = {} THEN n + 1 ELSE 1 + CHOOSE j \in G : \A k \in G : j <= k
          /\ Behind(q + 1, Ends) = IF H = {} THEN n + 1 ELSE 1 + CHOOSE j \in H : \A k \in H : j <= k
      BY DEF Behind
    <3> HIDE DEF G, H
    <3> QED BY <3>1, <3>2
  <2>5. \/ /\ Unscripted(q) = n + 1 /\ R[n].mode = "tag" /\ R[n].since = q /\ R[n].kept = R[q].kept
           /\ \A j \in (q + 1) .. n : outstr[j] \notin Ends
        \/ /\ Unscripted(q) \in (q + 2) .. (n + 1) /\ R[Unscripted(q) - 1].mode = "text"
           /\ R[Unscripted(q) - 1].kept = R[q].kept /\ outstr[Unscripted(q) - 1] \in Ends
    <3>1. Leaving(R[q].mode) = Ends
      BY <2>1 DEF Leaving
    <3>2. Unscripted(q) = Behind(q + 1, Leaving(R[q].mode)) /\ R[q].mode # "text"
      BY <2>1, <2>3, <2>4, <3>1
    <3> QED
      BY <2>1, <3>1, <3>2, Left
  <2>6. CASE \A j \in (q + 1) .. n : outstr[j] \notin Ends
    <3>1. Open(q)
      BY <1>1, <2>2, <2>3, <2>6 DEF Open
    <3>2. /\ Unscripted(q) = n + 1 /\ R[n].mode = "tag" /\ R[n].since = q /\ R[n].kept = R[q].kept
      BY <1>1, <2>5, <2>6
    <3> QED
      <4>1. WithTag(R[n], outstr) = R[q - 1].kept \o SubSeq(outstr, q, n)
        BY <2>1, <3>2 DEF WithTag
      <4> QED
        <5> DEFINE new == R[q - 1].kept \o SubSeq(outstr, q, n)
        <5>1. WithTag(R[n], outstr) = new
          BY <4>1
        <5> HIDE DEF new
        <5>2. Reached(R, Unscripted(q), new)
          BY <1>1, <3>2, <5>1 DEF Reached
        <5> QED BY <3>1, <5>2 DEF new
  <2>7. CASE Unscripted(q) \in (q + 2) .. (n + 1) /\ R[Unscripted(q) - 1].mode = "text"
           /\ R[Unscripted(q) - 1].kept = R[q].kept /\ outstr[Unscripted(q) - 1] \in Ends
    <3>1. ~ Open(q)
      <4>1. Unscripted(q) - 1 \in q .. n
        BY <1>1, <2>7
      <4> QED BY <2>7, <4>1 DEF Open
    <3> QED
      BY <1>1, <2>1, <2>7, <3>1 DEF Reached, WithTag
  <2> QED
    BY <2>5, <2>6, <2>7
<1>4. CASE t \in Brackets \ Opening
  <2>1. R[q].mode = "text" /\ R[q].kept = R[q - 1].kept
    BY <1>4, ReadInText
  <2>2. t \in Ends /\ t \notin {"<script", "<style"}
    BY <1>4 DEF Brackets, Opening
  <2>3. Unscripted(q) = Behind(q, Ends) /\ ~ Open(q)
    BY <1>1, <2>2 DEF Unscripted, Open
  <2>4. Behind(q, Ends) = q + 1
    BY <1>1, <2>2, BehindIs
  <2> QED
    BY <1>1, <2>1, <2>3, <2>4 DEF Reached, WithTag
<1> QED
  BY <1>2, <1>3, <1>4 DEF Opening

----------------------------------------------------------------------------
(* The content.                                                            *)

\* The text is made of tokens, and the code stands in it.
ContentType ==
  /\ outstr \in Seq(Token) /\ newstr \in Seq(Token)
  /\ p \in 1 .. (Len(outstr) + 1)

\* Where the code stands the reader is in plain text, and both have kept the same.
Followed ==
  LET R == Reading(outstr) IN R[Len(outstr)].clean => Reached(R, p, newstr)

\* What is copied so far is what the reader has kept so far.
ContentInv == ContentType /\ Followed

\* ContentInv holds of every captured text.
LEMMA ContentStarts == Init => ContentInv
<1> SUFFICES ASSUME Init PROVE ContentInv
  OBVIOUS
<1>1. outstr \in Seq(Token) /\ newstr = <<>> /\ p = 1
  <2>1. outstr \in Captured \/ outstr = <<>>
    BY DEF Init, ContentInit
  <2>2. Captured \subseteq Seq(Token) /\ <<>> \in Seq(Token)
    BY ContentAssumption DEF Token
  <2>3. newstr = <<>> /\ p = 1
    BY DEF Init, ContentInit
  <2> QED BY <2>1, <2>2, <2>3
<1>2. IsReading(Reading(outstr), outstr)
  BY <1>1, ReadingIs
<1>3. Reading(outstr)[0].mode = "text" /\ Reading(outstr)[0].kept = <<>>
  BY <1>2 DEF IsReading, Reader
<1> QED
  BY <1>1, <1>3 DEF ContentInv, ContentType, Followed, Reached, WithTag

\* Text that is copied is text the reader keeps.
LEMMA Copying == ContentInv /\ CopyText => ContentInv'
<1> SUFFICES ASSUME ContentInv, CopyText PROVE ContentInv'
  OBVIOUS
<1> DEFINE n == Len(outstr)
           R == Reading(outstr)
<1>1. /\ p \in 1 .. n /\ n \in Nat /\ outstr[p] \in Token /\ outstr' = outstr /\ p' = p + 1
      /\ newstr' = Append(newstr, outstr[p]) /\ outstr[p] \notin Brackets
  BY DEF CopyText, ContentInv, ContentType
<1>2. ContentType'
  BY <1>1 DEF ContentInv, ContentType
<1>3. ASSUME R[n].clean PROVE Reached(R, p', newstr')
  <2>1. R[p - 1].mode = "text" /\ R[p - 1].kept = newstr
    BY <1>1, <1>3 DEF ContentInv, Followed, Reached
  <2>2. IsReading(R, outstr) /\ outstr \in Seq(Token)
    BY ReadingIs DEF ContentInv, ContentType
  <2> HIDE DEF R
  <2>3. R[p].mode = "text" /\ R[p].kept = newstr'
    BY <1>1, <2>1, <2>2, ReadInText
  <2> QED
    <3>1. p' \in 1 .. (n + 1) /\ p' - 1 = p
      BY <1>1
    <3>2. ASSUME p' = n + 1 PROVE WithTag(R[n], outstr) = newstr'
      <4>1. p = n
        BY <1>1, <3>2
      <4>2. R[n].mode = "text" /\ R[n].kept = newstr'
        BY <2>3, <4>1
      <4> QED BY <4>2 DEF WithTag
    <3> QED
      BY <1>1, <2>3, <3>1, <3>2 DEF Reached
<1>4. Followed'
  <2>1. Reading(outstr)' = R /\ Len(outstr)' = n
    BY <1>1 DEF Reading
  <2> QED BY <1>1, <1>3, <2>1 DEF Followed, Reached
<1> QED
  BY <1>2, <1>4 DEF ContentInv

\* What is behind a quotation, which the code takes for the inside of a tag.
LEMMA Unquoting ==
  ASSUME outstr \in Seq(Token), NEW R, IsReading(R, outstr), R[Len(outstr)].clean,
         NEW q \in 1 .. Len(outstr), R[q - 1].mode = "text", outstr[q] = "<blockquote"
  PROVE  \/ /\ Unquoted(q) \in 1 .. Len(outstr) /\ R[Unquoted(q) - 1].mode = "text"
            /\ R[Unquoted(q) - 1].kept = R[q - 1].kept
            /\ outstr[Unquoted(q)] \in Brackets \ {"<blockquote"}
         \/ Unquoted(q) = Len(outstr) + 1 /\ WithTag(R[Len(outstr)], outstr) = R[q - 1].kept
<1> DEFINE n == Len(outstr)
           b == Unquoted(q)
<1>1. n \in Nat /\ q \in Nat /\ At(q) = "<blockquote"
  BY DEF At
<1>2. R[q].mode = "quote" /\ R[q].kept = R[q - 1].kept
  <2>1. "<blockquote" \in Opening
    BY DEF Opening
  <2>2. Entered["<blockquote"] = "quote"
    BY <2>1 DEF Entered
  <2> QED BY <2>1, <2>2, ReadInText
<1>3. b = Behind(q + 1, Leaving(R[q].mode))
  BY <1>1, <1>2 DEF Unquoted, Leaving
<1> HIDE DEF b
<1>4. CASE b = n + 1 /\ R[n].mode = R[q].mode /\ R[n].kept = R[q].kept
  BY <1>2, <1>4 DEF WithTag, b
<1>5. CASE /\ b \in (q + 2) .. (n + 1) /\ R[b - 1].mode = "text"
           /\ R[b - 1].kept = R[q].kept /\ (R[q].mode = "quote" => R[b - 1].quoted)
  <2>1. CASE b = n + 1
    <3>1. b - 1 = n
      BY <1>1, <2>1
    <3> QED BY <1>2, <1>5, <2>1, <3>1 DEF WithTag, b
  <2>2. CASE b # n + 1
    <3>1. b \in 1 .. n /\ b \in 0 .. n
      BY <1>1, <1>5, <2>2
    <3>2. R[b].clean
      BY <3>1, CleanBefore
    <3>3. outstr[b] \in Brackets \ {"<blockquote"}
      BY <1>2, <1>5, <3>1, <3>2, ReadInText
    <3> QED BY <1>2, <1>5, <3>1, <3>3 DEF b
  <2> QED BY <2>1, <2>2
<1> QED
  BY <1>2, <1>3, <1>4, <1>5, Left

\* A tag, or an element that is not shown, is skipped as the reader skips it.
LEMMA Skipping == ContentInv /\ SkipTag => ContentInv'
<1> SUFFICES ASSUME ContentInv, SkipTag PROVE ContentInv'
  OBVIOUS
<1> DEFINE n    == Len(outstr)
           R    == Reading(outstr)
           from == Unquoted(p)
<1>1. /\ p \in 1 .. n /\ n \in Nat /\ outstr \in Seq(Token) /\ newstr \in Seq(Token)
      /\ outstr[p] \in Brackets /\ outstr' = outstr /\ p' = Unscripted(from)
      /\ newstr' = IF Open(from) THEN newstr \o SubSeq(outstr, from, n) ELSE newstr
  BY DEF SkipTag, ContentInv, ContentType
<1>0. ASSUME NEW i \in 1 .. (n + 1), NEW tokens PROVE Behind(i, tokens) \in 1 .. (n + 1)
  BY <1>1, BehindIs
<1>2. from \in 1 .. (n + 1)
  <2>1. CASE At(p) = "<blockquote"
    <3>1. from = Behind(p + 1, {Closing.quote}) /\ p + 1 \in 1 .. (n + 1)
      BY <1>1, <2>1 DEF Unquoted
    <3> QED BY <1>0, <3>1
  <2>2. CASE At(p) # "<blockquote"
    BY <1>1, <2>2 DEF Unquoted
  <2> QED BY <2>1, <2>2
<1> HIDE DEF from
<1>3. p' \in 1 .. (n + 1)
  <2>1. ASSUME NEW tokens PROVE Behind(from, tokens) \in 1 .. (n + 1)
    BY <1>0, <1>2
  <2>2. ASSUME NEW tokens, from <= n PROVE Behind(from + 1, tokens) \in 1 .. (n + 1)
    <3>1. from + 1 \in 1 .. (n + 1)
      BY <1>1, <1>2, <2>2
    <3> QED BY <1>0, <3>1
  <2>3. from > n => At(from) = "end"
    BY <1>2 DEF At
  <2> QED
    BY <1>1, <1>2, <2>1, <2>2, <2>3 DEF Unscripted
<1>4. newstr' \in Seq(Token)
  <2>1. SubSeq(outstr, from, n) \in Seq(Token)
    BY <1>1, <1>2
  <2> HIDE DEF n
  <2>2. newstr \o SubSeq(outstr, from, n) \in Seq(Token)
    BY <1>1, <2>1
  <2> QED
    BY <1>1, <2>2
<1>5. ASSUME R[n].clean PROVE Reached(R, p', newstr')
  <2>1. R[p - 1].mode = "text" /\ R[p - 1].kept = newstr
    BY <1>1, <1>5 DEF ContentInv, Followed, Reached
  <2>2. IsReading(R, outstr)
    BY <1>1, ReadingIs
  <2> HIDE DEF R
  <2>3. CASE outstr[p] # "<blockquote"
    <3>1. from = p
      BY <1>1, <2>3 DEF from, Unquoted, At
    <3>2. Reached(R, Unscripted(p), IF Open(p) THEN R[p - 1].kept \o SubSeq(outstr, p, n)
                                             ELSE R[p - 1].kept)
      BY <1>1, <2>1, <2>2, <2>3, Unscripting
    <3> QED BY <1>1, <2>1, <3>1, <3>2
  <2>4. CASE /\ from \in 1 .. n /\ R[from - 1].mode = "text" /\ R[from - 1].kept = R[p - 1].kept
             /\ outstr[from] \in Brackets \ {"<blockquote"}
    <3>1. Reached(R, Unscripted(from), IF Open(from) THEN R[from - 1].kept \o SubSeq(outstr, from, n)
                                             ELSE R[from - 1].kept)
      BY <1>1, <2>2, <2>4, Unscripting
    <3> QED BY <1>1, <2>1, <2>4, <3>1
  <2>5. CASE from = n + 1 /\ WithTag(R[n], outstr) = R[p - 1].kept
    <3>1. At(from) = "end"
      BY <1>1, <2>5 DEF At
    <3>2. Unscripted(from) = Behind(from, Ends) /\ Open(from)
      BY <1>1, <2>5, <3>1 DEF Unscripted, Open, Tag
    <3>3. Behind(from, Ends) = n + 1
      BY <1>1, <1>2, <2>5, BehindIs
    <3>4. SubSeq(outstr, from, n) = <<>>
      BY <1>1, <2>5
    <3>5. newstr' = newstr
      BY <1>1, <3>2, <3>4
    <3> QED
      BY <1>1, <2>1, <2>5, <3>2, <3>3, <3>5 DEF Reached
  <2>6. CASE outstr[p] = "<blockquote"
    BY <1>1, <1>5, <2>1, <2>2, <2>4, <2>5, <2>6, Unquoting DEF from
  <2> QED
    BY <2>3, <2>6
<1>6. Followed'
  <2>1. Reading(outstr)' = R /\ Len(outstr)' = n
    BY <1>1 DEF Reading
  <2> QED BY <1>1, <1>5, <2>1 DEF Followed, Reached
<1> QED
  BY <1>1, <1>3, <1>4, <1>6 DEF ContentInv, ContentType

\* Reading links does not touch the content.
LEMMA ContentStays == ContentInv /\ UNCHANGED cvars => ContentInv'
<1> SUFFICES ASSUME ContentInv, UNCHANGED cvars PROVE ContentInv'
  OBVIOUS
<1>1. outstr' = outstr /\ p' = p /\ newstr' = newstr
  BY DEF cvars
<1>2. Reading(outstr)' = Reading(outstr)
  BY <1>1 DEF Reading
<1> QED
  BY <1>1, <1>2 DEF ContentInv, ContentType, Followed, Reached

\* Every step keeps ContentInv ...
LEMMA ContentSteps == ContentInv /\ [Next]_vars => ContentInv'
<1> SUFFICES ASSUME ContentInv, [Next]_vars PROVE ContentInv'
  OBVIOUS
<1>1. CASE SkipTag
  BY <1>1, Skipping
<1>2. CASE CopyText
  BY <1>2, Copying
<1>3. CASE UNCHANGED cvars
  BY <1>3, ContentStays
<1> QED
  BY <1>1, <1>2, <1>3 DEF Next, ContentNext, vars, cvars

\* ... which at the end of a text says that all its text was copied.
LEMMA ContentEnds == ContentInv => ContentIsText
<1> SUFFICES ASSUME ContentInv, Ended, Read(outstr).clean PROVE newstr = Read(outstr).kept
  BY DEF ContentIsText
<1>1. outstr \in Seq(Token) /\ p = Len(outstr) + 1
  BY DEF Ended, ContentInv, ContentType
<1>2. Read(outstr) = [clean |-> Reading(outstr)[Len(outstr)].clean,
                      kept |-> WithTag(Reading(outstr)[Len(outstr)], outstr)]
  BY <1>1, ReadingIs
<1> QED
  BY <1>1, <1>2 DEF ContentInv, Followed, Reached

\* The content of a captured text is its text outside tags, scripts, style sheets
\* and quotations (sf_pcre_getcontent, sf_pcre.c:93-207).
THEOREM ContentKept == Spec => []ContentIsText
<1>1. Spec => []ContentInv
  BY ContentStarts, ContentSteps, PTL DEF Spec
<1> QED
  BY <1>1, ContentEnds, PTL

-----------------------------------------------------------------------------
(* Paths: the operators of PageText, step by step.                         *)

\* The provers do not know that a literal is a string.
Word    == STRING \cup {"/", ".", "..", "http:"}
Text    == Seq(Word)
Segment == {s \in Text : \A i \in 1 .. Len(s) : s[i] # "/"}
Route   == Seq(Segment)
Split   == Route \ {<<>>}

\* The steps of the folds.
Joining(text, seg) == text \o <<"/">> \o seg

Resolving(kept, seg) ==
  IF seg = <<".">> THEN kept
  ELSE IF seg # <<"..">> THEN Append(kept, seg)
  ELSE IF kept = <<>> THEN kept ELSE Front(kept)

Staying(kept, seg) ==
  IF seg # <<"..">> THEN Append(kept, seg) ELSE IF kept = <<>> THEN kept ELSE Front(kept)

Splitting(segs, token) ==
  IF token = "/" THEN Append(segs, <<>>) ELSE [segs EXCEPT ![Len(segs)] = Append(@, token)]

\* The empty text and the slash.
LEMMA SlashIs == <<>> \in Text /\ "/" \in Word /\ <<"/">> \in Text /\ <<>> \in Segment
<1>1. "/" \in Word
  BY DEF Word
<1>2. <<>> \in Text /\ <<"/">> \in Text
  BY <1>1 DEF Text
<1> QED
  BY <1>1, <1>2 DEF Segment

\* The steps of the folds stay within their types.
LEMMA JoiningType == \A v \in Text : \A a \in Segment : Joining(v, a) \in Text
<1> SUFFICES ASSUME NEW v \in Text, NEW a \in Text PROVE v \o <<"/">> \o a \in Text
  BY DEF Joining, Segment
<1> QED
  BY SlashIs DEF Text

\* The front of a path is a path.
LEMMA FrontType == \A v \in Split : Front(v) \in Route
  BY DEF Route, Split, Front

\* Resolving yields a path ...
LEMMA ResolvingType == \A v \in Route : \A a \in Segment : Resolving(v, a) \in Route
  BY FrontType DEF Resolving, Route, Split

\* ... and so does Staying,
LEMMA StayingType == \A v \in Route : \A a \in Segment : Staying(v, a) \in Route
  BY FrontType DEF Staying, Route, Split

\* and Splitting one that is not empty.
LEMMA SplittingType == \A v \in Split : \A a \in Word : Splitting(v, a) \in Split
<1> SUFFICES ASSUME NEW v \in Split, NEW a \in Word PROVE Splitting(v, a) \in Split
  OBVIOUS
<1>1. CASE a = "/"
  BY <1>1, SlashIs DEF Splitting, Split, Route
<1>2. CASE a # "/"
  <2>1. v \in Seq(Segment) /\ v # <<>> /\ Len(v) \in 1 .. Len(v) /\ v[Len(v)] \in Segment
    BY DEF Split, Route
  <2> DEFINE b == Append(v[Len(v)], a)
  <2>2. b \in Segment
    <3> DEFINE l == v[Len(v)]
    <3>1. l \in Seq(Word) /\ \A i \in 1 .. Len(l) : l[i] # "/"
      BY <2>1 DEF Segment, Text
    <3> HIDE DEF l
    <3>2. /\ Append(l, a) \in Seq(Word) /\ Len(Append(l, a)) = Len(l) + 1
          /\ \A i \in 1 .. Len(l) + 1 : Append(l, a)[i] # "/"
      BY <1>2, <3>1
    <3> QED BY <3>2 DEF Segment, Text, l
  <2> HIDE DEF b
  <2>3. [v EXCEPT ![Len(v)] = b] \in Seq(Segment) /\ Len([v EXCEPT ![Len(v)] = b]) = Len(v)
    BY <2>1, <2>2, ExceptSeq
  <2>4. Splitting(v, a) = [v EXCEPT ![Len(v)] = b]
    BY <1>2 DEF Splitting, b
  <2> QED BY <2>1, <2>3, <2>4 DEF Split, Route
<1> QED
  BY <1>1, <1>2

\* Joined, segment by segment.
LEMMA JoinedIs ==
  /\ Joined(<<>>) = <<>>
  /\ \A s \in Route : Joined(s) \in Text
  /\ \A s \in Route : \A a \in Segment : Joined(Append(s, a)) = Joining(Joined(s), a)
<1> DEFINE Op == [v \in Text |-> [a \in Segment |-> Joining(v, a)]]
           F  == [s \in Route |-> Joined(s)]
<1>1. <<>> \in Text
  BY SlashIs
<1>2. Op \in Curried(Text, Segment, Text)
  BY JoiningType DEF Curried
<1>3. \A v \in Text : \A a \in Segment : Op[v][a] = Joining(v, a)
  OBVIOUS
<1> HIDE DEF Op
<1>4. ASSUME NEW s \in Route
      PROVE  \E f : SeqObeys(f, s, Text, <<>>, Op) /\ Joined(s) = f[DOMAIN s]
  <2> DEFINE P(f) == f = [S \in SUBSET (DOMAIN s) |->
                            IF S = {} THEN <<>> ELSE Joining(f[S \ {Most(S)}], s[Most(S)])]
             f0 == CHOOSE f : P(f)
  <2>1. Joined(s) = f0[DOMAIN s]
    BY DEF Joined, FoldLeft, MapThenFoldSet, Max, Most, Joining
  <2>2. PICK it : IsSeqFold(it, s, Text, <<>>, Op)
    BY <1>1, <1>2, SeqFoldExists DEF Route
  <2>3. /\ DOMAIN s = 1 .. Len(s)
        /\ \A S \in SUBSET (DOMAIN s) : S # {} => Most(S) \in DOMAIN s /\ s[Most(S)] \in Segment
    BY MostIs DEF Route
  <2>4. P(it)
    <3>1. /\ it \in [SUBSET (DOMAIN s) -> Text] /\ it[{}] = <<>>
          /\ \A S \in SUBSET (DOMAIN s) : S # {} => it[S] = Op[it[S \ {Most(S)}]][s[Most(S)]]
      BY <2>2 DEF IsSeqFold
    <3>2. ASSUME NEW S \in SUBSET (DOMAIN s), S # {}
          PROVE  it[S] = Joining(it[S \ {Most(S)}], s[Most(S)])
      <4>1. it[S \ {Most(S)}] \in Text
        BY <3>1
      <4> QED BY <1>3, <2>3, <3>1, <3>2, <4>1
    <3> QED BY <3>1, <3>2
  <2>5. P(f0)
    BY <2>4
  <2> HIDE DEF f0
  <2>6. SeqObeys(f0, s, Text, <<>>, Op)
    <3>1. f0[{}] = <<>>
      BY <2>5
    <3>2. ASSUME NEW S \in SUBSET (DOMAIN s), S # {}, f0[S \ {Most(S)}] \in Text
          PROVE  f0[S] = Op[f0[S \ {Most(S)}]][s[Most(S)]]
      BY <1>3, <2>3, <2>5, <3>2
    <3> QED BY <3>1, <3>2 DEF SeqObeys
  <2> QED BY <2>1, <2>6
<1>5. \A s \in Seq(Segment) : \E f : SeqObeys(f, s, Text, <<>>, Op) /\ F[s] = f[DOMAIN s]
  BY <1>4 DEF Route
<1>6. \A s \in Seq(Segment) : F[s] = Joined(s)
  BY DEF Route
<1> HIDE DEF F
<1>7. /\ \A s \in Seq(Segment) : F[s] \in Text
      /\ F[<<>>] = <<>>
      /\ \A s \in Seq(Segment) : \A a \in Segment : F[Append(s, a)] = Op[F[s]][a]
  BY <1>1, <1>2, <1>5, FoldIs
<1>8. <<>> \in Seq(Segment) /\ \A s \in Seq(Segment) : \A a \in Segment : Append(s, a) \in Seq(Segment)
  OBVIOUS
<1>9. Joined(<<>>) = <<>>
  BY <1>6, <1>7, <1>8
<1>10. ASSUME NEW s \in Seq(Segment) PROVE Joined(s) = F[s]
  BY <1>6
<1>11. ASSUME NEW s \in Seq(Segment), NEW a \in Segment
       PROVE  Joined(Append(s, a)) = Joining(Joined(s), a)
  <2>1. Joined(Append(s, a)) = F[Append(s, a)]
    BY <1>8, <1>10
  <2> QED BY <1>3, <1>7, <1>10, <2>1
<1> QED
  BY <1>7, <1>9, <1>10, <1>11 DEF Route

\* WithoutDots, segment by segment.
LEMMA WithoutDotsIs ==
  /\ WithoutDots(<<>>) = <<>>
  /\ \A s \in Route : WithoutDots(s) \in Route
  /\ \A s \in Route : \A a \in Segment : WithoutDots(Append(s, a)) = Resolving(WithoutDots(s), a)
<1> DEFINE Op == [v \in Route |-> [a \in Segment |-> Resolving(v, a)]]
           F  == [s \in Route |-> WithoutDots(s)]
<1>1. <<>> \in Route
  BY DEF Route
<1>2. Op \in Curried(Route, Segment, Route)
  BY ResolvingType DEF Curried
<1>3. \A v \in Route : \A a \in Segment : Op[v][a] = Resolving(v, a)
  OBVIOUS
<1> HIDE DEF Op
<1>4. ASSUME NEW s \in Route
      PROVE  \E f : SeqObeys(f, s, Route, <<>>, Op) /\ WithoutDots(s) = f[DOMAIN s]
  <2> DEFINE P(f) == f = [S \in SUBSET (DOMAIN s) |->
                            IF S = {} THEN <<>> ELSE Resolving(f[S \ {Most(S)}], s[Most(S)])]
             f0 == CHOOSE f : P(f)
  <2>1. WithoutDots(s) = f0[DOMAIN s]
    BY DEF WithoutDots, FoldLeft, MapThenFoldSet, Max, Most, Resolving
  <2>2. PICK it : IsSeqFold(it, s, Route, <<>>, Op)
    BY <1>1, <1>2, SeqFoldExists DEF Route
  <2>3. /\ DOMAIN s = 1 .. Len(s)
        /\ \A S \in SUBSET (DOMAIN s) : S # {} => Most(S) \in DOMAIN s /\ s[Most(S)] \in Segment
    BY MostIs DEF Route
  <2>4. P(it)
    <3>1. /\ it \in [SUBSET (DOMAIN s) -> Route] /\ it[{}] = <<>>
          /\ \A S \in SUBSET (DOMAIN s) : S # {} => it[S] = Op[it[S \ {Most(S)}]][s[Most(S)]]
      BY <2>2 DEF IsSeqFold
    <3>2. ASSUME NEW S \in SUBSET (DOMAIN s), S # {}
          PROVE  it[S] = Resolving(it[S \ {Most(S)}], s[Most(S)])
      <4>1. it[S \ {Most(S)}] \in Route
        BY <3>1
      <4> QED BY <1>3, <2>3, <3>1, <3>2, <4>1
    <3> QED BY <3>1, <3>2
  <2>5. P(f0)
    BY <2>4
  <2> HIDE DEF f0
  <2>6. SeqObeys(f0, s, Route, <<>>, Op)
    <3>1. f0[{}] = <<>>
      BY <2>5
    <3>2. ASSUME NEW S \in SUBSET (DOMAIN s), S # {}, f0[S \ {Most(S)}] \in Route
          PROVE  f0[S] = Op[f0[S \ {Most(S)}]][s[Most(S)]]
      BY <1>3, <2>3, <2>5, <3>2
    <3> QED BY <3>1, <3>2 DEF SeqObeys
  <2> QED BY <2>1, <2>6
<1>5. \A s \in Seq(Segment) : \E f : SeqObeys(f, s, Route, <<>>, Op) /\ F[s] = f[DOMAIN s]
  BY <1>4 DEF Route
<1>6. \A s \in Seq(Segment) : F[s] = WithoutDots(s)
  BY DEF Route
<1> HIDE DEF F
<1>7. /\ \A s \in Seq(Segment) : F[s] \in Route
      /\ F[<<>>] = <<>>
      /\ \A s \in Seq(Segment) : \A a \in Segment : F[Append(s, a)] = Op[F[s]][a]
  BY <1>1, <1>2, <1>5, FoldIs
<1>8. <<>> \in Seq(Segment) /\ \A s \in Seq(Segment) : \A a \in Segment : Append(s, a) \in Seq(Segment)
  OBVIOUS
<1>9. WithoutDots(<<>>) = <<>>
  BY <1>6, <1>7, <1>8
<1>10. ASSUME NEW s \in Seq(Segment) PROVE WithoutDots(s) = F[s]
  BY <1>6
<1>11. ASSUME NEW s \in Seq(Segment), NEW a \in Segment
       PROVE  WithoutDots(Append(s, a)) = Resolving(WithoutDots(s), a)
  <2>1. WithoutDots(Append(s, a)) = F[Append(s, a)]
    BY <1>8, <1>10
  <2> QED BY <1>3, <1>7, <1>10, <2>1
<1> QED
  BY <1>7, <1>9, <1>10, <1>11 DEF Route

\* Remaining, segment by segment.
LEMMA RemainingIs ==
  /\ Remaining(<<>>) = <<>>
  /\ \A s \in Route : Remaining(s) \in Route
  /\ \A s \in Route : \A a \in Segment : Remaining(Append(s, a)) = Staying(Remaining(s), a)
<1> DEFINE Op == [v \in Route |-> [a \in Segment |-> Staying(v, a)]]
           F  == [s \in Route |-> Remaining(s)]
<1>1. <<>> \in Route
  BY DEF Route
<1>2. Op \in Curried(Route, Segment, Route)
  BY StayingType DEF Curried
<1>3. \A v \in Route : \A a \in Segment : Op[v][a] = Staying(v, a)
  OBVIOUS
<1> HIDE DEF Op
<1>4. ASSUME NEW s \in Route
      PROVE  \E f : SeqObeys(f, s, Route, <<>>, Op) /\ Remaining(s) = f[DOMAIN s]
  <2> DEFINE P(f) == f = [S \in SUBSET (DOMAIN s) |->
                            IF S = {} THEN <<>> ELSE Staying(f[S \ {Most(S)}], s[Most(S)])]
             f0 == CHOOSE f : P(f)
  <2>1. Remaining(s) = f0[DOMAIN s]
    BY DEF Remaining, FoldLeft, MapThenFoldSet, Max, Most, Staying
  <2>2. PICK it : IsSeqFold(it, s, Route, <<>>, Op)
    BY <1>1, <1>2, SeqFoldExists DEF Route
  <2>3. /\ DOMAIN s = 1 .. Len(s)
        /\ \A S \in SUBSET (DOMAIN s) : S # {} => Most(S) \in DOMAIN s /\ s[Most(S)] \in Segment
    BY MostIs DEF Route
  <2>4. P(it)
    <3>1. /\ it \in [SUBSET (DOMAIN s) -> Route] /\ it[{}] = <<>>
          /\ \A S \in SUBSET (DOMAIN s) : S # {} => it[S] = Op[it[S \ {Most(S)}]][s[Most(S)]]
      BY <2>2 DEF IsSeqFold
    <3>2. ASSUME NEW S \in SUBSET (DOMAIN s), S # {}
          PROVE  it[S] = Staying(it[S \ {Most(S)}], s[Most(S)])
      <4>1. it[S \ {Most(S)}] \in Route
        BY <3>1
      <4> QED BY <1>3, <2>3, <3>1, <3>2, <4>1
    <3> QED BY <3>1, <3>2
  <2>5. P(f0)
    BY <2>4
  <2> HIDE DEF f0
  <2>6. SeqObeys(f0, s, Route, <<>>, Op)
    <3>1. f0[{}] = <<>>
      BY <2>5
    <3>2. ASSUME NEW S \in SUBSET (DOMAIN s), S # {}, f0[S \ {Most(S)}] \in Route
          PROVE  f0[S] = Op[f0[S \ {Most(S)}]][s[Most(S)]]
      BY <1>3, <2>3, <2>5, <3>2
    <3> QED BY <3>1, <3>2 DEF SeqObeys
  <2> QED BY <2>1, <2>6
<1>5. \A s \in Seq(Segment) : \E f : SeqObeys(f, s, Route, <<>>, Op) /\ F[s] = f[DOMAIN s]
  BY <1>4 DEF Route
<1>6. \A s \in Seq(Segment) : F[s] = Remaining(s)
  BY DEF Route
<1> HIDE DEF F
<1>7. /\ \A s \in Seq(Segment) : F[s] \in Route
      /\ F[<<>>] = <<>>
      /\ \A s \in Seq(Segment) : \A a \in Segment : F[Append(s, a)] = Op[F[s]][a]
  BY <1>1, <1>2, <1>5, FoldIs
<1>8. <<>> \in Seq(Segment) /\ \A s \in Seq(Segment) : \A a \in Segment : Append(s, a) \in Seq(Segment)
  OBVIOUS
<1>9. Remaining(<<>>) = <<>>
  BY <1>6, <1>7, <1>8
<1>10. ASSUME NEW s \in Seq(Segment) PROVE Remaining(s) = F[s]
  BY <1>6
<1>11. ASSUME NEW s \in Seq(Segment), NEW a \in Segment
       PROVE  Remaining(Append(s, a)) = Staying(Remaining(s), a)
  <2>1. Remaining(Append(s, a)) = F[Append(s, a)]
    BY <1>8, <1>10
  <2> QED BY <1>3, <1>7, <1>10, <2>1
<1> QED
  BY <1>7, <1>9, <1>10, <1>11 DEF Route

\* Segments, token by token.
LEMMA SegmentsIs ==
  /\ Segments(<<>>) = <<<<>>>>
  /\ \A s \in Text : Segments(s) \in Split
  /\ \A s \in Text : \A a \in Word : Segments(Append(s, a)) = Splitting(Segments(s), a)
<1> DEFINE Op == [v \in Split |-> [a \in Word |-> Splitting(v, a)]]
           F  == [s \in Text |-> Segments(s)]
<1>1. <<<<>>>> \in Split
  BY SlashIs DEF Split, Route
<1>2. Op \in Curried(Split, Word, Split)
  BY SplittingType DEF Curried
<1>3. \A v \in Split : \A a \in Word : Op[v][a] = Splitting(v, a)
  OBVIOUS
<1> HIDE DEF Op
<1>4. ASSUME NEW s \in Text
      PROVE  \E f : SeqObeys(f, s, Split, <<<<>>>>, Op) /\ Segments(s) = f[DOMAIN s]
  <2> DEFINE P(f) == f = [S \in SUBSET (DOMAIN s) |->
                            IF S = {} THEN <<<<>>>> ELSE Splitting(f[S \ {Most(S)}], s[Most(S)])]
             f0 == CHOOSE f : P(f)
  <2>1. Segments(s) = f0[DOMAIN s]
    BY DEF Segments, FoldLeft, MapThenFoldSet, Max, Most, Splitting
  <2>2. PICK it : IsSeqFold(it, s, Split, <<<<>>>>, Op)
    BY <1>1, <1>2, SeqFoldExists DEF Text
  <2>3. /\ DOMAIN s = 1 .. Len(s)
        /\ \A S \in SUBSET (DOMAIN s) : S # {} => Most(S) \in DOMAIN s /\ s[Most(S)] \in Word
    BY MostIs DEF Text
  <2>4. P(it)
    <3>1. /\ it \in [SUBSET (DOMAIN s) -> Split] /\ it[{}] = <<<<>>>>
          /\ \A S \in SUBSET (DOMAIN s) : S # {} => it[S] = Op[it[S \ {Most(S)}]][s[Most(S)]]
      BY <2>2 DEF IsSeqFold
    <3>2. ASSUME NEW S \in SUBSET (DOMAIN s), S # {}
          PROVE  it[S] = Splitting(it[S \ {Most(S)}], s[Most(S)])
      <4>1. it[S \ {Most(S)}] \in Split
        BY <3>1
      <4> QED BY <1>3, <2>3, <3>1, <3>2, <4>1
    <3> QED BY <3>1, <3>2
  <2>5. P(f0)
    BY <2>4
  <2> HIDE DEF f0
  <2>6. SeqObeys(f0, s, Split, <<<<>>>>, Op)
    <3>1. f0[{}] = <<<<>>>>
      BY <2>5
    <3>2. ASSUME NEW S \in SUBSET (DOMAIN s), S # {}, f0[S \ {Most(S)}] \in Split
          PROVE  f0[S] = Op[f0[S \ {Most(S)}]][s[Most(S)]]
      BY <1>3, <2>3, <2>5, <3>2
    <3> QED BY <3>1, <3>2 DEF SeqObeys
  <2> QED BY <2>1, <2>6
<1>5. \A s \in Seq(Word) : \E f : SeqObeys(f, s, Split, <<<<>>>>, Op) /\ F[s] = f[DOMAIN s]
  BY <1>4 DEF Text
<1>6. \A s \in Seq(Word) : F[s] = Segments(s)
  BY DEF Text
<1> HIDE DEF F
<1>7. /\ \A s \in Seq(Word) : F[s] \in Split
      /\ F[<<>>] = <<<<>>>>
      /\ \A s \in Seq(Word) : \A a \in Word : F[Append(s, a)] = Op[F[s]][a]
  BY <1>1, <1>2, <1>5, FoldIs
<1>8. <<>> \in Seq(Word) /\ \A s \in Seq(Word) : \A a \in Word : Append(s, a) \in Seq(Word)
  OBVIOUS
<1>9. Segments(<<>>) = <<<<>>>>
  BY <1>6, <1>7, <1>8
<1>10. ASSUME NEW s \in Seq(Word) PROVE Segments(s) = F[s]
  BY <1>6
<1>11. ASSUME NEW s \in Seq(Word), NEW a \in Word
       PROVE  Segments(Append(s, a)) = Splitting(Segments(s), a)
  <2>1. Segments(Append(s, a)) = F[Append(s, a)]
    BY <1>8, <1>10
  <2> QED BY <1>3, <1>7, <1>10, <2>1
<1> QED
  BY <1>7, <1>9, <1>10, <1>11 DEF Text


\* Two paths joined are joined one behind the other.
LEMMA JoinedConcat ==
  ASSUME NEW a \in Route, NEW b \in Route
  PROVE  Joined(a \o b) = Joined(a) \o Joined(b) /\ a \o b \in Route
<1> DEFINE P == {s \in Route : Joined(a \o s) = Joined(a) \o Joined(s)}
<1>0. Joined(a) \in Seq(Word) /\ a \in Seq(Segment)
  BY JoinedIs DEF Text, Route
<1>1. <<>> \in P
  <2>1. a \o <<>> = a /\ Joined(a) \o <<>> = Joined(a)
    BY <1>0, ConcatEmptySeq
  <2>2. <<>> \in Route
    BY DEF Route
  <2> QED BY <2>1, <2>2, JoinedIs
<1>2. ASSUME NEW s \in Seq(Segment), NEW x \in Segment, s \in P PROVE Append(s, x) \in P
  <2>1. /\ a \o Append(s, x) = Append(a \o s, x) /\ Append(s, x) \in Route /\ a \o s \in Route
        /\ s \in Route
    BY <1>0, AppendConcat DEF Route
  <2>2. Joined(Append(a \o s, x)) = Joined(a \o s) \o <<"/">> \o x
    BY <2>1, JoinedIs DEF Joining
  <2>3. Joined(Append(s, x)) = Joined(s) \o <<"/">> \o x
    BY <2>1, JoinedIs DEF Joining
  <2>4. /\ Joined(s) \in Seq(Word) /\ <<"/">> \in Seq(Word) /\ x \in Seq(Word)
        /\ Joined(s) \o <<"/">> \in Seq(Word)
    BY <2>1, JoinedIs, SlashIs, ConcatProperties DEF Text, Segment
  <2>5. (Joined(a) \o Joined(s)) \o <<"/">> = Joined(a) \o (Joined(s) \o <<"/">>)
    <3>1. Associates(Joined(a), Joined(s), <<"/">>)
      BY <1>0, <2>4, AllAssociate
    <3> QED BY <3>1 DEF Associates
  <2>6. (Joined(a) \o (Joined(s) \o <<"/">>)) \o x = Joined(a) \o ((Joined(s) \o <<"/">>) \o x)
    <3> DEFINE y == Joined(s) \o <<"/">>
    <3>1. y \in Seq(Word)
      BY <2>4
    <3> HIDE DEF y
    <3>2. Associates(Joined(a), y, x)
      BY <1>0, <2>4, <3>1, AllAssociate
    <3> QED BY <3>2 DEF Associates, y
  <2>7. Joined(a \o s) = Joined(a) \o Joined(s)
    BY <1>2
  <2> QED BY <2>1, <2>2, <2>3, <2>5, <2>6, <2>7
<1>3. b \in P
  <2> HIDE DEF P
  <2> QED BY <1>1, <1>2, SeqInduction DEF Route
<1> QED
  BY <1>3, <1>0, ConcatProperties DEF Route

\* A path of one segment.
LEMMA JoinedOne ==
  ASSUME NEW x \in Segment
  PROVE  <<x>> \in Route /\ Joined(<<x>>) = <<"/">> \o x
<1>1. <<>> \in Route /\ <<x>> = Append(<<>>, x) /\ <<x>> \in Route
  BY DEF Route
<1>2. Joined(<<x>>) = <<>> \o <<"/">> \o x
  BY <1>1, JoinedIs DEF Joining
<1>3. <<>> \o <<"/">> = <<"/">>
  BY SlashIs, ConcatEmptySeq DEF Text
<1> QED
  BY <1>1, <1>2, <1>3

\* What follows does not tell apart what leaves the same.
LEMMA ResolveConcat ==
  ASSUME NEW a \in Route, NEW c \in Route, NEW b \in Route, WithoutDots(a) = WithoutDots(c)
  PROVE  WithoutDots(a \o b) = WithoutDots(c \o b)
<1> DEFINE P == {s \in Route : WithoutDots(a \o s) = WithoutDots(c \o s)}
<1>1. <<>> \in P
  <2>1. a \o <<>> = a /\ c \o <<>> = c
    BY ConcatEmptySeq DEF Route
  <2>2. <<>> \in Route
    BY DEF Route
  <2> QED BY <2>1, <2>2
<1>2. ASSUME NEW s \in Seq(Segment), NEW x \in Segment, s \in P PROVE Append(s, x) \in P
  <2>1. /\ a \o Append(s, x) = Append(a \o s, x) /\ Append(s, x) \in Route /\ a \o s \in Route
        /\ c \o Append(s, x) = Append(c \o s, x) /\ c \o s \in Route
    <3>1. a \in Seq(Segment) /\ c \in Seq(Segment)
      BY DEF Route
    <3>2. /\ a \o Append(s, x) = Append(a \o s, x) /\ Append(s, x) \in Seq(Segment)
          /\ a \o s \in Seq(Segment)
      BY <3>1, AppendConcat
    <3>3. c \o Append(s, x) = Append(c \o s, x) /\ c \o s \in Seq(Segment)
      BY <3>1, AppendConcat
    <3> QED BY <3>2, <3>3 DEF Route
  <2>2. /\ WithoutDots(Append(a \o s, x)) = Resolving(WithoutDots(a \o s), x)
        /\ WithoutDots(Append(c \o s, x)) = Resolving(WithoutDots(c \o s), x)
    BY <2>1, WithoutDotsIs
  <2> QED BY <1>2, <2>1, <2>2
<1>3. b \in P
  <2> HIDE DEF P
  <2> QED BY <1>1, <1>2, SeqInduction DEF Route
<1> QED
  BY <1>3

\* The same of what a path leaves behind.
LEMMA RemainConcat ==
  ASSUME NEW a \in Route, NEW c \in Route, NEW b \in Route, Remaining(a) = Remaining(c)
  PROVE  Remaining(a \o b) = Remaining(c \o b)
<1> DEFINE P == {s \in Route : Remaining(a \o s) = Remaining(c \o s)}
<1>1. <<>> \in P
  <2>1. a \o <<>> = a /\ c \o <<>> = c
    BY ConcatEmptySeq DEF Route
  <2>2. <<>> \in Route
    BY DEF Route
  <2> QED BY <2>1, <2>2
<1>2. ASSUME NEW s \in Seq(Segment), NEW x \in Segment, s \in P PROVE Append(s, x) \in P
  <2>1. /\ a \o Append(s, x) = Append(a \o s, x) /\ Append(s, x) \in Route /\ a \o s \in Route
        /\ c \o Append(s, x) = Append(c \o s, x) /\ c \o s \in Route
    <3>1. a \in Seq(Segment) /\ c \in Seq(Segment)
      BY DEF Route
    <3>2. /\ a \o Append(s, x) = Append(a \o s, x) /\ Append(s, x) \in Seq(Segment)
          /\ a \o s \in Seq(Segment)
      BY <3>1, AppendConcat
    <3>3. c \o Append(s, x) = Append(c \o s, x) /\ c \o s \in Seq(Segment)
      BY <3>1, AppendConcat
    <3> QED BY <3>2, <3>3 DEF Route
  <2>2. /\ Remaining(Append(a \o s, x)) = Staying(Remaining(a \o s), x)
        /\ Remaining(Append(c \o s, x)) = Staying(Remaining(c \o s), x)
    BY <2>1, RemainingIs
  <2> QED BY <1>2, <2>1, <2>2
<1>3. b \in P
  <2> HIDE DEF P
  <2> QED BY <1>1, <1>2, SeqInduction DEF Route
<1> QED
  BY <1>3

\* A text is its segments, joined, behind a slash.
LEMMA SegmentsJoined ==
  ASSUME NEW text \in Text
  PROVE  Joined(Segments(text)) = <<"/">> \o text /\ Segments(text) \in Split
<1> DEFINE P == {s \in Text : Joined(Segments(s)) = <<"/">> \o s}
<1>1. <<>> \in P
  <2>1. Joined(Segments(<<>>)) = <<"/">> \o <<>>
    BY SegmentsIs, JoinedOne, SlashIs
  <2> QED BY <2>1, SlashIs
<1>2. ASSUME NEW s \in Seq(Word), NEW x \in Word, s \in P PROVE Append(s, x) \in P
  <2> DEFINE v == Segments(s)
  <2>1. /\ s \in Text /\ Append(s, x) \in Text /\ v \in Split /\ Segments(Append(s, x)) = Splitting(v, x)
        /\ v \in Route /\ <<"/">> \in Seq(Word)
        /\ <<"/">> \o Append(s, x) = Append(<<"/">> \o s, x) /\ <<"/">> \o s \in Seq(Word)
    BY SegmentsIs, SlashIs, AppendConcat DEF Text, Split
  <2>2. Joined(v) = <<"/">> \o s
    BY <1>2
  <2> HIDE DEF v
  <2>3. CASE x = "/"
    <3>1. Joined(Append(v, <<>>)) = Joined(v) \o <<"/">> \o <<>>
      BY <2>1, SlashIs, JoinedIs DEF Joining
    <3>2. Joined(v) \in Seq(Word) /\ Joined(v) \o <<"/">> \in Seq(Word)
      BY <2>1, JoinedIs, ConcatProperties DEF Text
    <3>3. (Joined(v) \o <<"/">>) \o <<>> = Joined(v) \o <<"/">> /\ Joined(v) \o <<"/">> = Append(Joined(v), "/")
      BY <3>2, ConcatEmptySeq, AppendIsConcat, SlashIs
    <3> QED BY <2>1, <2>2, <2>3, <3>1, <3>3 DEF Splitting
  <2>4. CASE x # "/"
    <3>1. PICK u \in Seq(Segment), l \in Segment : v = Append(u, l)
      BY <2>1, SequenceEmptyOrAppend DEF Split, Route
    <3> DEFINE b == Append(l, x)
    <3>2. Splitting(v, x) = Append(u, b) /\ v[Len(v)] = l
      <4>1. /\ Len(v) = Len(u) + 1 /\ v[Len(v)] = l /\ v \in Seq(Segment) /\ Len(u) \in Nat
            /\ \A i \in 1 .. Len(u) : v[i] = u[i]
        BY <3>1
      <4>2. Splitting(v, x) = [v EXCEPT ![Len(v)] = b]
        BY <2>4, <4>1 DEF Splitting
      <4>3. Splitting(v, x) \in Seq(Segment)
        BY <2>1, SplittingType DEF Split, Route
      <4>4. b \in Segment
        <5>1. v[Len(v)] \in Segment /\ [v EXCEPT ![Len(v)] = b][Len(v)] = b
          BY <4>1
        <5> QED BY <4>1, <4>2, <4>3, <5>1
      <4> HIDE DEF b
      <4>5. /\ [v EXCEPT ![Len(v)] = b] \in Seq(Segment) /\ Len([v EXCEPT ![Len(v)] = b]) = Len(v)
            /\ \A i \in 1 .. Len(v) : [v EXCEPT ![Len(v)] = b][i] = IF i = Len(v) THEN b ELSE v[i]
        BY <4>1, <4>4, ExceptSeq
      <4>6. /\ Append(u, b) \in Seq(Segment) /\ Len(Append(u, b)) = Len(v)
            /\ \A i \in 1 .. Len(v) : Append(u, b)[i] = IF i = Len(v) THEN b ELSE v[i]
        BY <4>1, <4>4
      <4> DEFINE e == [v EXCEPT ![Len(v)] = b]
                 d == Append(u, b)
      <4>7. e = d
        <5>1. Len(e) = Len(d) /\ e \in Seq(Segment) /\ d \in Seq(Segment) /\ \A i \in 1 .. Len(e) : e[i] = d[i]
          BY <4>5, <4>6
        <5> HIDE DEF e, d
        <5> QED BY <5>1, SeqEqual
      <4> QED BY <4>1, <4>2, <4>7
    <3>3. Append(u, b) \in Route /\ u \in Route /\ b \in Segment
      <4>0. Append(u, b) \in Seq(Segment)
        BY <2>1, <3>2, SplittingType DEF Split, Route
      <4>1. Append(u, b) \in Seq(Segment) /\ Len(Append(u, b)) = Len(u) + 1 /\ Append(u, b)[Len(u) + 1] = b
            /\ u \in Seq(Segment)
        <5> HIDE DEF b
        <5> QED BY <3>1, <4>0
      <4> HIDE DEF b
      <4> QED BY <4>1, ElementOfSeq DEF Route
    <3>4. Joined(Append(u, b)) = Joined(u) \o <<"/">> \o b /\ Joined(v) = Joined(u) \o <<"/">> \o l
      <4> HIDE DEF b
      <4> QED BY <3>1, <3>3, JoinedIs DEF Joining
    <3>5. (Joined(u) \o <<"/">>) \o Append(l, x) = Append((Joined(u) \o <<"/">>) \o l, x)
      <4>1. Joined(u) \o <<"/">> \in Seq(Word) /\ l \in Seq(Word)
        BY <2>1, <3>1, <3>3, JoinedIs, ConcatProperties DEF Text, Segment
      <4> QED BY <4>1, AppendConcat
    <3> QED BY <2>1, <2>2, <3>2, <3>4, <3>5
  <2> QED BY <2>3, <2>4
<1>3. text \in P
  <2> HIDE DEF P
  <2> QED BY <1>1, <1>2, SeqInduction DEF Text
<1> QED
  BY <1>3, SegmentsIs

-----------------------------------------------------------------------------
(* Where something occurs in the url of a path.                            *)

\* A path begins with a slash and its first segment.
LEMMA JoinedHead ==
  ASSUME NEW b \in Split
  PROVE  /\ Head(b) \in Segment /\ Tail(b) \in Route
         /\ b = <<Head(b)>> \o Tail(b) /\ <<Head(b)>> \in Route
         /\ Joined(b) = (<<"/">> \o Head(b)) \o Joined(Tail(b))
<1>1. b \in Seq(Segment) /\ b # <<>>
  BY DEF Split, Route
<1>2. Head(b) \in Segment /\ Tail(b) \in Route
  BY <1>1 DEF Route
<1>3. b = <<Head(b)>> \o Tail(b)
  <2>1. Len(b) \in Nat /\ 1 \in 1 .. Len(b) /\ Len(b) \in 1 .. Len(b)
    BY <1>1
  <2>2. SubSeq(b, 1, Len(b)) = <<b[1]>> \o SubSeq(b, 2, Len(b))
    BY <1>1, <2>1, SubSeqRecursiveFirst
  <2>3. SubSeq(b, 1, Len(b)) = b /\ Tail(b) = SubSeq(b, 2, Len(b)) /\ Head(b) = b[1]
    BY <1>1, SubSeqFull, TailIsSubSeq
  <2> QED BY <2>2, <2>3
<1>4. <<Head(b)>> \in Route /\ Joined(<<Head(b)>>) = <<"/">> \o Head(b)
  BY <1>2, JoinedOne
<1>5. Joined(<<Head(b)>> \o Tail(b)) = Joined(<<Head(b)>>) \o Joined(Tail(b))
  BY <1>2, <1>4, JoinedConcat
<1> QED
  BY <1>2, <1>3, <1>4, <1>5

\* A slash in what is joined begins a segment.
LEMMA SlashOf ==
  ASSUME NEW segs \in Route, NEW i \in 1 .. Len(Joined(segs)), Joined(segs)[i] = "/"
  PROVE  \E a \in Route : \E b \in Split : segs = a \o b /\ Len(Joined(a)) = i - 1
<1> DEFINE Begins(s, j) == \E a \in Route : \E b \in Split : s = a \o b /\ Len(Joined(a)) = j - 1
           P == {s \in Route : \A j \in 1 .. Len(Joined(s)) : Joined(s)[j] = "/" => Begins(s, j)}
<1>1. <<>> \in P
  <2>1. <<>> \in Route /\ Len(Joined(<<>>)) = 0
    BY JoinedIs DEF Route
  <2> HIDE DEF Begins
  <2> QED BY <2>1
<1>2. ASSUME NEW s \in Seq(Segment), NEW x \in Segment, s \in P PROVE Append(s, x) \in P
  <2>1. s \in Route /\ Append(s, x) \in Route /\ <<x>> \in Split /\ Append(s, x) = s \o <<x>>
    BY JoinedOne, AppendIsConcat DEF Route, Split
  <2>2. Joined(Append(s, x)) = Joined(s) \o <<"/">> \o x
    BY <2>1, JoinedIs DEF Joining
  <2> DEFINE u == Joined(s)
             w == u \o <<"/">>
  <2>3. /\ u \in Seq(Word) /\ x \in Seq(Word) /\ <<"/">> \in Seq(Word) /\ w \in Seq(Word)
        /\ \A j \in 1 .. Len(x) : x[j] # "/"
    BY <2>1, JoinedIs, SlashIs, ConcatProperties DEF Text, Segment
  <2> HIDE DEF u
  <2>4. /\ Len(w) = Len(u) + 1 /\ Len(u) \in Nat /\ Len(x) \in Nat
        /\ \A j \in 1 .. Len(u) : w[j] = u[j]
    BY <2>3
  <2> HIDE DEF w
  <2>5. /\ Len(w \o x) = Len(w) + Len(x)
        /\ \A j \in 1 .. Len(w) + Len(x) : (w \o x)[j] = IF j <= Len(w) THEN w[j] ELSE x[j - Len(w)]
    BY <2>3, ConcatProperties
  <2>6. ASSUME NEW j \in 1 .. Len(w) + Len(x), (w \o x)[j] = "/" PROVE Begins(Append(s, x), j)
    <3>1. CASE j <= Len(u)
      <4>1. u[j] = "/" /\ j \in 1 .. Len(u)
        BY <2>4, <2>5, <2>6, <3>1
      <4>2. PICK a \in Route, b \in Split : s = a \o b /\ Len(Joined(a)) = j - 1
        BY <1>2, <4>1 DEF u
      <4>3. Append(s, x) = a \o Append(b, x) /\ Append(b, x) \in Seq(Segment)
        <5>1. a \in Seq(Segment) /\ b \in Seq(Segment)
          BY DEF Route, Split
        <5>2. a \o Append(b, x) = Append(a \o b, x) /\ Append(b, x) \in Seq(Segment)
          BY <5>1, AppendConcat
        <5> QED BY <4>2, <5>2
      <4>4. Append(b, x) \in Split
        <5>1. Append(b, x) # <<>>
          BY AppendProperties DEF Split, Route
        <5> QED BY <4>3, <5>1 DEF Split, Route
      <4> QED BY <4>2, <4>3, <4>4
    <3>2. CASE j = Len(u) + 1
      <4>1. Len(Joined(s)) = j - 1
        BY <2>4, <3>2 DEF u
      <4> QED BY <2>1, <4>1
    <3>3. CASE j > Len(u) + 1
      <4>1. j - Len(w) \in 1 .. Len(x) /\ ~ (j <= Len(w))
        BY <2>4, <3>3
      <4> QED BY <2>3, <2>5, <2>6, <4>1
    <3> HIDE DEF Begins
    <3>4. j <= Len(u) \/ j = Len(u) + 1 \/ j > Len(u) + 1
      BY <2>4
    <3> QED BY <3>1, <3>2, <3>3, <3>4
  <2>7. Joined(Append(s, x)) = w \o x
    BY <2>2 DEF w, u
  <2> HIDE DEF Begins
  <2> QED BY <2>1, <2>5, <2>6, <2>7
<1>3. segs \in P
  <2> HIDE DEF P
  <2> QED BY <1>1, <1>2, SeqInduction DEF Route
<1> QED
  BY <1>3

\* A text "/d/" behind the head is a segment of its own, and another one follows.
OccursAt(h, segs, d, at) ==
  \E a \in Route : \E c \in Split :
    /\ segs = Append(a, <<d>>) \o c /\ <<d>> \in Segment
    /\ Len(h \o Joined(a)) = at - 1

\* Every occurrence of a dot segment in a url is in its path.
LEMMA OccursIs ==
  ASSUME NEW h \in Text, NEW segs \in Route, NEW d \in Word, d # "/",
         NEW at \in Occurs(h \o Joined(segs), <<"/", d, "/">>), at > Len(h)
  PROVE  OccursAt(h, segs, d, at)
<1> DEFINE u == Joined(segs)
           t == h \o u
           i == at - Len(h)
<1>1. /\ h \in Seq(Word) /\ u \in Seq(Word) /\ t \in Seq(Word) /\ Len(h) \in Nat /\ Len(u) \in Nat
      /\ Len(t) = Len(h) + Len(u)
      /\ \A j \in 1 .. Len(h) + Len(u) : t[j] = IF j <= Len(h) THEN h[j] ELSE u[j - Len(h)]
  BY JoinedIs, ConcatProperties DEF Text
<1>2. /\ at \in 1 .. Len(t) - 2 /\ t[at] = "/" /\ t[at + 1] = d /\ t[at + 2] = "/"
  <2> DEFINE w == <<"/", d, "/">>
  <2>1. Len(w) = 3 /\ w[1] = "/" /\ w[2] = d /\ w[3] = "/"
    OBVIOUS
  <2>2. at \in 1 .. Len(t) - Len(w) + 1 /\ SubSeq(t, at, at + Len(w) - 1) = w
    BY DEF Occurs
  <2>3. at \in 1 .. Len(t) - 2 /\ SubSeq(t, at, at + 2) = w /\ at \in Nat
    BY <1>1, <2>1, <2>2
  <2> HIDE DEF t, w
  <2>4. SubSeq(t, at, at + 2)[1] = t[at] /\ SubSeq(t, at, at + 2)[2] = t[at + 1] /\ SubSeq(t, at, at + 2)[3] = t[at + 2]
    BY <1>1, <2>3
  <2> QED BY <2>1, <2>3, <2>4
<1>3. /\ i \in 1 .. Len(u) /\ u[i] = "/" /\ u[i + 1] = d /\ u[i + 2] = "/" /\ i + 2 \in 1 .. Len(u)
  <2> HIDE DEF t, u
  <2>1. at \in Nat /\ i \in 1 .. Len(u) /\ i + 2 \in 1 .. Len(u)
    BY <1>1, <1>2
  <2>2. /\ t[at] = u[at - Len(h)] /\ t[at + 1] = u[(at + 1) - Len(h)] /\ t[at + 2] = u[(at + 2) - Len(h)]
    BY <1>1, <1>2
  <2>3. (at + 1) - Len(h) = i + 1 /\ (at + 2) - Len(h) = i + 2
    BY <1>1, <2>1
  <2> QED BY <1>2, <2>1, <2>2, <2>3
<1>4. PICK a \in Route, b \in Split : segs = a \o b /\ Len(Joined(a)) = i - 1
  <2> HIDE DEF i
  <2> QED BY <1>3, SlashOf
<1> DEFINE y == Head(b)
           c == Tail(b)
           v == Joined(c)
<1>5. /\ y \in Segment /\ c \in Route /\ b = <<y>> \o c /\ <<y>> \in Route
      /\ Joined(b) = (<<"/">> \o y) \o v /\ Joined(a) \in Seq(Word) /\ v \in Seq(Word)
      /\ y \in Seq(Word) /\ <<"/">> \in Seq(Word) /\ b \in Route
      /\ \A j \in 1 .. Len(y) : y[j] # "/"
  BY JoinedHead, JoinedIs, SlashIs DEF Text, Segment, Split
<1>6. u = Joined(a) \o Joined(b)
  BY <1>4, <1>5, JoinedConcat
<1> HIDE DEF i, u, t, y, c, v
<1> DEFINE z == <<"/">> \o y
<1>7. /\ z \in Seq(Word) /\ Len(z) = Len(y) + 1 /\ Len(y) \in Nat /\ Len(v) \in Nat
      /\ \A j \in 1 .. Len(y) : z[j + 1] = y[j]
  BY <1>5
<1> HIDE DEF z
<1>8. /\ z \o v \in Seq(Word) /\ Len(z \o v) = Len(z) + Len(v)
      /\ \A j \in 1 .. Len(z) + Len(v) : (z \o v)[j] = IF j <= Len(z) THEN z[j] ELSE v[j - Len(z)]
  BY <1>5, <1>7, ConcatProperties
<1> DEFINE g == z \o v
<1>9. g = Joined(b)
  BY <1>5 DEF z
<1> HIDE DEF g
<1>10. /\ Len(u) = (i - 1) + Len(g) /\ i \in Nat
       /\ \A j \in 1 .. (i - 1) + Len(g) : u[j] = IF j <= i - 1 THEN Joined(a)[j] ELSE g[j - (i - 1)]
  <2> DEFINE k == Joined(a)
             n == i - 1
  <2>1. k \in Seq(Word) /\ g \in Seq(Word) /\ u = k \o g /\ Len(k) = n
    BY <1>4, <1>5, <1>6, <1>8, <1>9 DEF g
  <2>2. i \in Nat
    BY <1>1, <1>3
  <2> HIDE DEF k, n
  <2>3. Concats(Word, k, g)
    BY <2>1, AllConcat
  <2>4. /\ Len(u) = n + Len(g)
        /\ \A j \in 1 .. n + Len(g) : u[j] = IF j <= n THEN k[j] ELSE g[j - n]
    BY <2>1, <2>3 DEF Concats
  <2> QED BY <2>2, <2>4 DEF k, n
<1>11. Len(g) \in Nat /\ 3 <= Len(g) /\ g[2] = d /\ g[3] = "/"
  <2>1. Len(g) \in Nat /\ 3 <= Len(g) /\ i + 1 \in 1 .. (i - 1) + Len(g) /\ i + 2 \in 1 .. (i - 1) + Len(g)
    BY <1>3, <1>7, <1>8, <1>10 DEF g
  <2>2. (i + 1) - (i - 1) = 2 /\ (i + 2) - (i - 1) = 3 /\ ~ (i + 1 <= i - 1) /\ ~ (i + 2 <= i - 1)
    BY <1>10
  <2> QED BY <1>3, <1>10, <2>1, <2>2
<1>12. c # <<>> /\ Len(y) # 0
  <2>1. CASE c = <<>>
    <3>1. v = <<>>
      BY <2>1, JoinedIs DEF v
    <3>2. Len(v) = 0
      BY <3>1
    <3>3. 2 \in 1 .. Len(y) /\ g[3] = z[3]
      BY <1>7, <1>8, <1>11, <3>2 DEF g
    <3>4. z[3] = y[2] /\ y[2] # "/"
      <4>1. 2 \in 1 .. Len(y) /\ 2 + 1 = 3
        BY <3>3
      <4>2. z[2 + 1] = y[2]
        BY <1>7, <4>1
      <4> QED BY <1>5, <4>1, <4>2
    <3> QED BY <1>11, <3>3, <3>4
  <2>2. CASE Len(y) = 0
    <3>1. Len(z) = 1 /\ Len(v) >= 2
      BY <1>7, <1>8, <1>11, <2>2 DEF g
    <3>2. c # <<>>
      <4>1. c = <<>> => v = <<>>
        BY JoinedIs DEF v
      <4>2. v # <<>>
        BY <3>1
      <4> QED BY <4>1, <4>2
    <3>3. c \in Split
      BY <1>5, <3>2 DEF Split
    <3>4. /\ v = (<<"/">> \o Head(c)) \o Joined(Tail(c)) /\ Head(c) \in Seq(Word) /\ Joined(Tail(c)) \in Seq(Word)
      BY <3>3, JoinedHead, JoinedIs DEF v, Segment, Text
    <3>5. v[1] = "/"
      BY <1>5, <3>4
    <3>6. g[2] = v[1]
      <4>1. 2 \in 1 .. Len(z) + Len(v) /\ ~ (2 <= Len(z)) /\ 2 - Len(z) = 1
        <5> DEFINE m == Len(v)
        <5>1. m \in Nat /\ m >= 2
          BY <1>7, <3>1
        <5> HIDE DEF m
        <5>2. 2 \in 1 .. 1 + m /\ ~ (2 <= 1) /\ 2 - 1 = 1
          BY <5>1
        <5> QED BY <3>1, <5>2 DEF m
      <4> QED BY <1>8, <4>1 DEF g
    <3> QED BY <1>11, <3>5, <3>6
  <2> QED BY <2>1, <2>2
<1>13. Len(y) = 1 /\ y[1] = d
  <2>1. 1 \in 1 .. Len(y) /\ g[2] = z[2] /\ z[2] = y[1]
    BY <1>7, <1>8, <1>11, <1>12 DEF g
  <2>2. ASSUME 2 <= Len(y) PROVE FALSE
    <3>1. 2 \in 1 .. Len(y) /\ g[3] = z[3] /\ z[3] = y[2]
      BY <1>7, <1>8, <1>11, <2>2 DEF g
    <3> QED BY <1>5, <1>11, <3>1
  <2>3. Len(y) = 1
    <3> DEFINE m == Len(y)
    <3>1. m \in Nat /\ m # 0 /\ ~ (2 <= m)
      BY <1>7, <1>12, <2>2
    <3> HIDE DEF m
    <3>2. m = 1
      BY <3>1
    <3> QED BY <3>2 DEF m
  <2> QED BY <1>11, <2>1, <2>3
<1>14. y = <<d>>
  BY <1>5, <1>13
<1>15. segs = Append(a, <<d>>) \o c /\ <<d>> \in Segment /\ c \in Split
  <2>1. (a \o <<y>>) \o c = a \o (<<y>> \o c)
    <3>1. Associates(a, <<y>>, c)
      BY <1>4, <1>5, AllAssociate DEF Route
    <3> QED BY <3>1 DEF Associates
  <2>2. a \o <<y>> = Append(a, y)
    BY <1>4, <1>5, AppendIsConcat DEF Route
  <2> QED BY <1>4, <1>5, <1>12, <1>14, <2>1, <2>2 DEF Split
<1>16. Len(h \o Joined(a)) = at - 1
  <2>1. Len(h \o Joined(a)) = Len(h) + Len(Joined(a))
    BY <1>1, <1>5, ConcatProperties
  <2> QED BY <1>1, <1>2, <1>4, <2>1 DEF i
<1> QED
  BY <1>4, <1>15, <1>16 DEF OccursAt

\* A url around one of its segments.
SplitsAt(h, a, x, c) ==
  /\ Append(a, x) \in Route /\ Append(a, x) \o c \in Route /\ a \o c \in Route
  /\ h \o Joined(a) \in Seq(Word) /\ <<"/">> \o x \in Seq(Word) /\ Joined(c) \in Seq(Word)
  /\ h \o Joined(Append(a, x)) = (h \o Joined(a)) \o (<<"/">> \o x)
  /\ h \o Joined(Append(a, x) \o c) = (h \o Joined(Append(a, x))) \o Joined(c)
  /\ h \o Joined(a \o c) = (h \o Joined(a)) \o Joined(c)

\* The url of a path, around one of its segments.
LEMMA AroundSegment ==
  ASSUME NEW h \in Text, NEW a \in Route, NEW x \in Segment, NEW c \in Route
  PROVE  SplitsAt(h, a, x, c)
<1>1. /\ Append(a, x) \in Route /\ x \in Seq(Word) /\ <<"/">> \in Seq(Word) /\ h \in Seq(Word)
      /\ Joined(a) \in Seq(Word) /\ Joined(c) \in Seq(Word) /\ Joined(Append(a, x)) \in Seq(Word)
  <2>1. Append(a, x) \in Route
    BY DEF Route
  <2> QED BY <2>1, JoinedIs, SlashIs DEF Text, Segment
<1>2. /\ Append(a, x) \o c \in Route /\ Joined(Append(a, x) \o c) = Joined(Append(a, x)) \o Joined(c)
      /\ a \o c \in Route /\ Joined(a \o c) = Joined(a) \o Joined(c)
  BY <1>1, JoinedConcat
<1>3. Joined(Append(a, x)) = Joined(a) \o (<<"/">> \o x) /\ <<"/">> \o x \in Seq(Word)
  <2>1. Joined(Append(a, x)) = (Joined(a) \o <<"/">>) \o x
    BY JoinedIs DEF Joining
  <2>2. Associates(Joined(a), <<"/">>, x) /\ Concats(Word, <<"/">>, x)
    BY <1>1, AllAssociate, AllConcat
  <2> QED BY <2>1, <2>2 DEF Associates, Concats
<1> DEFINE y == <<"/">> \o x
<1> HIDE DEF y
<1>4. h \o (Joined(a) \o y) = (h \o Joined(a)) \o y /\ h \o Joined(a) \in Seq(Word)
  <2>1. y \in Seq(Word)
    BY <1>3 DEF y
  <2>2. Associates(h, Joined(a), y) /\ Concats(Word, h, Joined(a))
    BY <1>1, <2>1, AllAssociate, AllConcat
  <2> QED BY <2>2 DEF Associates, Concats
<1>5. /\ h \o (Joined(Append(a, x)) \o Joined(c)) = (h \o Joined(Append(a, x))) \o Joined(c)
      /\ h \o (Joined(a) \o Joined(c)) = (h \o Joined(a)) \o Joined(c)
  <2> DEFINE k == Joined(Append(a, x))
             j == Joined(c)
             g == Joined(a)
  <2>1. k \in Seq(Word) /\ j \in Seq(Word) /\ g \in Seq(Word) /\ h \in Seq(Word)
    BY <1>1
  <2> HIDE DEF k, j, g
  <2>2. h \o (k \o j) = (h \o k) \o j
    <3>1. Associates(h, k, j)
      BY <2>1, AllAssociate
    <3> QED BY <3>1 DEF Associates
  <2>3. h \o (g \o j) = (h \o g) \o j
    <3>1. Associates(h, g, j)
      BY <2>1, AllAssociate
    <3> QED BY <3>1 DEF Associates
  <2> QED BY <2>2, <2>3 DEF k, j, g
<1> QED
  BY <1>1, <1>2, <1>3, <1>4, <1>5 DEF y, SplitsAt

\* A segment of one token, not the last, occurs between slashes.
LEMMA OccursOnce ==
  ASSUME NEW h \in Text, NEW a \in Route, NEW d \in Word, <<d>> \in Segment, NEW c \in Split
  PROVE  /\ Len(h \o Joined(a)) + 1 \in Occurs(h \o Joined(Append(a, <<d>>) \o c), <<"/", d, "/">>)
         /\ Len(h \o Joined(a)) \in Nat
<1>0. c \in Route
  BY DEF Split
<1> DEFINE u == h \o Joined(a)
           z == <<"/">> \o <<d>>
           r == Head(c) \o Joined(Tail(c))
           t == h \o Joined(Append(a, <<d>>) \o c)
<1>1. u \in Seq(Word) /\ z \in Seq(Word) /\ t = (u \o z) \o Joined(c)
  <2>1. /\ h \o Joined(a) \in Seq(Word) /\ <<"/">> \o <<d>> \in Seq(Word)
        /\ h \o Joined(Append(a, <<d>>)) = (h \o Joined(a)) \o (<<"/">> \o <<d>>)
        /\ h \o Joined(Append(a, <<d>>) \o c) = (h \o Joined(Append(a, <<d>>))) \o Joined(c)
    <3> DEFINE x == <<d>>
    <3>1. x \in Segment
      OBVIOUS
    <3> HIDE DEF x
    <3>2. /\ h \o Joined(a) \in Seq(Word) /\ <<"/">> \o x \in Seq(Word) /\ Joined(c) \in Seq(Word)
          /\ h \o Joined(Append(a, x)) = (h \o Joined(a)) \o (<<"/">> \o x)
          /\ h \o Joined(Append(a, x) \o c) = (h \o Joined(Append(a, x))) \o Joined(c)
      <4>1. SplitsAt(h, a, x, c)
        BY <1>0, <3>1, AroundSegment
      <4> QED BY <4>1 DEF SplitsAt
    <3> QED BY <3>2 DEF x
  <2> QED BY <2>1
<1>2. Joined(c) = <<"/">> \o r /\ r \in Seq(Word) /\ <<"/">> \in Seq(Word)
  <2>1. /\ Head(c) \in Seq(Word) /\ Joined(Tail(c)) \in Seq(Word) /\ <<"/">> \in Seq(Word)
        /\ Joined(c) = (<<"/">> \o Head(c)) \o Joined(Tail(c))
    BY JoinedHead, JoinedIs, SlashIs DEF Segment, Text
  <2> DEFINE f == Head(c)
             g == Joined(Tail(c))
             s == <<"/">>
  <2>2. f \in Seq(Word) /\ g \in Seq(Word) /\ s \in Seq(Word)
    BY <2>1
  <2> HIDE DEF f, g, s
  <2>3. (s \o f) \o g = s \o (f \o g) /\ f \o g \in Seq(Word)
    BY <2>2, ConcatAssociative, ConcatProperties
  <2> QED BY <2>1, <2>3 DEF f, g, s
<1>3. Len(z) = 2 /\ z[1] = "/" /\ z[2] = d
  OBVIOUS
<1> HIDE DEF u, z, r, t
<1>4. /\ u \o z \in Seq(Word) /\ Len(u \o z) = Len(u) + 2 /\ Len(u) \in Nat
      /\ (u \o z)[Len(u) + 1] = "/" /\ (u \o z)[Len(u) + 2] = d
  <2>1. /\ u \o z \in Seq(Word) /\ Len(u \o z) = Len(u) + Len(z)
        /\ \A i \in 1 .. Len(u) + Len(z) : (u \o z)[i] = IF i <= Len(u) THEN u[i] ELSE z[i - Len(u)]
    BY <1>1, ConcatProperties
  <2>2. /\ Len(u) \in Nat /\ Len(u) + 1 \in 1 .. Len(u) + Len(z) /\ Len(u) + 2 \in 1 .. Len(u) + Len(z)
        /\ (Len(u) + 1) - Len(u) = 1 /\ (Len(u) + 2) - Len(u) = 2
        /\ ~ (Len(u) + 1 <= Len(u)) /\ ~ (Len(u) + 2 <= Len(u))
    BY <1>1, <1>3
  <2> QED BY <1>3, <2>1, <2>2
<1> DEFINE v == u \o z
           j == Joined(c)
<1>5. j \in Seq(Word) /\ Len(j) = 1 + Len(r) /\ Len(r) \in Nat /\ j[1] = "/"
  BY <1>2
<1> HIDE DEF v, j
<1>6. /\ t \in Seq(Word) /\ Len(t) = Len(v) + Len(j)
      /\ \A i \in 1 .. Len(v) + Len(j) : t[i] = IF i <= Len(v) THEN v[i] ELSE j[i - Len(v)]
  <2>1. v \in Seq(Word)
    BY <1>4 DEF v
  <2>2. t = v \o j
    BY <1>1 DEF v, j
  <2>3. /\ v \o j \in Seq(Word) /\ Len(v \o j) = Len(v) + Len(j)
        /\ \A i \in 1 .. Len(v) + Len(j) : (v \o j)[i] = IF i <= Len(v) THEN v[i] ELSE j[i - Len(v)]
    <3>1. v \in Seq(Word) /\ j \in Seq(Word)
      BY <1>5, <2>1
    <3> QED BY <3>1, ConcatProperties
  <2> QED BY <2>2, <2>3
<1> DEFINE n == Len(u)
<1>7. n \in Nat /\ Len(v) = n + 2 /\ v[n + 1] = "/" /\ v[n + 2] = d
  BY <1>4 DEF v
<1> HIDE DEF n
<1>8. /\ n + 1 \in 1 .. Len(t) - 2 /\ t[n + 1] = "/" /\ t[n + 2] = d /\ t[n + 3] = "/" /\ Len(t) \in Nat
  <2>1. /\ n + 1 \in 1 .. Len(v) + Len(j) /\ n + 2 \in 1 .. Len(v) + Len(j) /\ n + 3 \in 1 .. Len(v) + Len(j)
        /\ n + 1 <= Len(v) /\ n + 2 <= Len(v) /\ ~ (n + 3 <= Len(v)) /\ (n + 3) - Len(v) = 1
        /\ n + 1 \in 1 .. Len(t) - 2 /\ Len(t) \in Nat
    BY <1>5, <1>6, <1>7
  <2> QED BY <1>5, <1>6, <1>7, <2>1
<1> DEFINE w == <<"/", d, "/">>
           q == SubSeq(t, n + 1, n + 3)
<1>9. w \in Seq(Word) /\ Len(w) = 3 /\ w[1] = "/" /\ w[2] = d /\ w[3] = "/"
  BY SlashIs
<1>10. q \in Seq(Word) /\ Len(q) = 3 /\ q[1] = t[n + 1] /\ q[2] = t[n + 2] /\ q[3] = t[n + 3]
  BY <1>6, <1>7, <1>8
<1> HIDE DEF w, q
<1>11. q = w
  <2>1. \A i \in 1 .. 3 : q[i] = w[i]
    BY <1>8, <1>9, <1>10
  <2> QED BY <1>9, <1>10, <2>1, SeqEqual
<1>12. n + 1 \in 1 .. Len(t) - Len(w) + 1 /\ SubSeq(t, n + 1, (n + 1) + Len(w) - 1) = w
  <2>1. Len(t) - Len(w) + 1 = Len(t) - 2 /\ (n + 1) + Len(w) - 1 = n + 3
    BY <1>7, <1>8, <1>9
  <2> QED BY <1>8, <1>11, <2>1 DEF q
<1>13. n + 1 \in Occurs(t, w)
  BY <1>12 DEF Occurs
<1> QED
  BY <1>7, <1>13 DEF n, t, w, u

\* RemoveHere takes the segment out ...
HereTaken(h, a, d, c) ==
  \A t, at :
    t = h \o Joined(Append(a, <<d>>) \o c) /\ at = Len(h \o Joined(a)) + 1 =>
      SubSeq(t, 1, at - 1) \o SubSeq(t, at + 2, Len(t)) = h \o Joined(a \o c)

\* RemoveHere takes the segment "." out and leaves the others.
LEMMA HereOut ==
  ASSUME NEW h \in Text, NEW a \in Route, NEW d \in Word, <<d>> \in Segment, NEW c \in Route
  PROVE  HereTaken(h, a, d, c)
<1> SUFFICES
      ASSUME NEW t, t = h \o Joined(Append(a, <<d>>) \o c), NEW at, at = Len(h \o Joined(a)) + 1
      PROVE  SubSeq(t, 1, at - 1) \o SubSeq(t, at + 2, Len(t)) = h \o Joined(a \o c)
  BY DEF HereTaken
<1> DEFINE u == h \o Joined(a)
           z == <<"/">> \o <<d>>
           j == Joined(c)
<1>1. u \in Seq(Word) /\ z \in Seq(Word) /\ j \in Seq(Word) /\ t = (u \o z) \o j
  <2>1. /\ h \o Joined(a) \in Seq(Word) /\ <<"/">> \o <<d>> \in Seq(Word) /\ Joined(c) \in Seq(Word)
        /\ h \o Joined(Append(a, <<d>>)) = (h \o Joined(a)) \o (<<"/">> \o <<d>>)
        /\ h \o Joined(Append(a, <<d>>) \o c) = (h \o Joined(Append(a, <<d>>))) \o Joined(c)
    <3> DEFINE x == <<d>>
    <3>1. x \in Segment
      OBVIOUS
    <3> HIDE DEF x
    <3>2. /\ h \o Joined(a) \in Seq(Word) /\ <<"/">> \o x \in Seq(Word) /\ Joined(c) \in Seq(Word)
          /\ h \o Joined(Append(a, x)) = (h \o Joined(a)) \o (<<"/">> \o x)
          /\ h \o Joined(Append(a, x) \o c) = (h \o Joined(Append(a, x))) \o Joined(c)
      <4>1. SplitsAt(h, a, x, c)
        BY <3>1, AroundSegment
      <4> QED BY <4>1 DEF SplitsAt
    <3> QED BY <3>2 DEF x
  <2> QED BY <2>1
<1>2. Len(z) = 2
  OBVIOUS
<1>3. h \o Joined(a \o c) = u \o j
  <2>1. SplitsAt(h, a, <<d>>, c)
    BY AroundSegment
  <2> QED BY <2>1 DEF SplitsAt
<1>4. at = Len(u) + 1
  OBVIOUS
<1> HIDE DEF u, z, j
<1>5. /\ u \o z \in Seq(Word) /\ z \o j \in Seq(Word) /\ Len(u \o z) = Len(u) + 2 /\ Len(u) \in Nat
      /\ t = u \o (z \o j) /\ Len(j) \in Nat
  <2>0. Concats(Word, u, z) /\ Concats(Word, z, j) /\ Associates(u, z, j)
    BY <1>1, AllConcat, AllAssociate
  <2>1. u \o z \in Seq(Word) /\ Len(u \o z) = Len(u) + Len(z)
    BY <2>0 DEF Concats
  <2>2. z \o j \in Seq(Word)
    BY <2>0 DEF Concats
  <2>3. (u \o z) \o j = u \o (z \o j)
    BY <2>0 DEF Associates
  <2>4. Len(u) \in Nat /\ Len(j) \in Nat
    BY <1>1
  <2>5. t = u \o (z \o j)
    BY <1>1, <2>3
  <2>6. Len(u \o z) = Len(u) + 2
    BY <1>2, <2>1
  <2> QED BY <2>1, <2>2, <2>4, <2>5, <2>6
<1> DEFINE v == u \o z
           y == z \o j
<1> HIDE DEF v, y
<1>6. SubSeq(u \o y, 1, Len(u)) = u
  BY <1>1, <1>5, Parts DEF y
<1>7. SubSeq(v \o j, Len(v) + 1, Len(v) + Len(j)) = j /\ Len(v \o j) = Len(v) + Len(j)
  <2>1. v \in Seq(Word)
    BY <1>5 DEF v
  <2> QED BY <1>1, <2>1, Parts
<1>8. t = u \o y /\ t = v \o j /\ Len(v) = Len(u) + 2
  BY <1>1, <1>5 DEF v, y
<1>9. at - 1 = Len(u) /\ at + 2 = Len(v) + 1
  BY <1>4, <1>5, <1>8
<1> QED
  BY <1>3, <1>6, <1>7, <1>8, <1>9

\* How five parts of a url are put together.
Regroups(u, s, x, z, r) ==
  /\ ((u \o (s \o x)) \o z) \o (s \o r) = (((u \o (s \o x)) \o z) \o s) \o r
  /\ ((u \o (s \o x)) \o z) \o (s \o r) = (u \o s) \o (x \o (z \o (s \o r)))
  /\ (u \o s) \o r = u \o (s \o r)

\* The three ways to put the parts of a url together.
LEMMA Regrouped ==
  ASSUME NEW S, NEW u \in Seq(S), NEW s \in Seq(S), NEW x \in Seq(S), NEW z \in Seq(S), NEW r \in Seq(S)
  PROVE  Regroups(u, s, x, z, r)
<1> DEFINE sx == s \o x
           ux == u \o sx
           sr == s \o r
           zr == z \o sr
           us == u \o s
           v  == ux \o z
<1>1. sx \in Seq(S) /\ sr \in Seq(S) /\ us \in Seq(S)
  BY ConcatProperties
<1>2. sx = s \o x /\ sr = s \o r /\ us = u \o s
  OBVIOUS
<1> HIDE DEF sx, sr, us
<1>3. ux \in Seq(S) /\ zr \in Seq(S) /\ ux = u \o sx /\ zr = z \o sr
  BY <1>1, ConcatProperties
<1> HIDE DEF ux, zr
<1>4. v \in Seq(S) /\ v = ux \o z
  BY <1>3, ConcatProperties
<1> HIDE DEF v
<1>a. Associates(v, s, r) /\ Associates(ux, z, sr) /\ Associates(u, s, x) /\ Associates(us, x, zr)
      /\ Associates(u, s, r)
  BY <1>1, <1>3, <1>4, AllAssociate
<1>5. v \o (s \o r) = (v \o s) \o r
  BY <1>a DEF Associates
<1>6. (ux \o z) \o sr = ux \o (z \o sr)
  BY <1>a DEF Associates
<1>7. u \o (s \o x) = (u \o s) \o x
  BY <1>a DEF Associates
<1>8. (us \o x) \o zr = us \o (x \o zr)
  BY <1>a DEF Associates
<1>9. (u \o s) \o r = u \o (s \o r)
  BY <1>a DEF Associates
<1>10. ux = us \o x
  BY <1>2, <1>3, <1>7
<1>11. v \o sr = us \o (x \o zr)
  BY <1>3, <1>4, <1>6, <1>8, <1>10
<1> QED
  BY <1>2, <1>3, <1>4, <1>5, <1>9, <1>11 DEF Regroups

\* The pieces of a url around a segment and the ".." behind it.
Pieces(h, a, x, d, c, r) ==
  /\ h \o Joined(Append(Append(a, x), <<d>>) \o c) =
       (((h \o Joined(a)) \o (<<"/">> \o x)) \o (<<"/">> \o <<d>>)) \o (<<"/">> \o r)
  /\ h \o Joined(a \o c) = (h \o Joined(a)) \o (<<"/">> \o r)
  /\ h \o Joined(Append(a, x)) = (h \o Joined(a)) \o (<<"/">> \o x)

\* The url of a path, around a ".." and the segment before it.
LEMMA ParentPieces ==
  ASSUME NEW h \in Text, NEW a \in Route, NEW x \in Segment, NEW d \in Word, <<d>> \in Segment, NEW c \in Split
  PROVE  \E r \in Seq(Word) : Pieces(h, a, x, d, c, r)
<1> DEFINE r == Head(c) \o Joined(Tail(c))
           b == Append(a, x)
           e == <<d>>
<1>1. c \in Route
  BY DEF Split
<1>2. SplitsAt(h, a, x, c)
  BY <1>1, AroundSegment
<1>3. b \in Route
  BY <1>2 DEF SplitsAt
<1>4. SplitsAt(h, b, e, c)
  <2> HIDE DEF b
  <2> QED BY <1>1, <1>3, AroundSegment
<1>5. Joined(c) = <<"/">> \o r /\ r \in Seq(Word)
  <2> DEFINE f == Head(c)
             g == Joined(Tail(c))
             s == <<"/">>
  <2>1. f \in Seq(Word) /\ g \in Seq(Word) /\ s \in Seq(Word) /\ Joined(c) = (s \o f) \o g
    BY JoinedHead, JoinedIs, SlashIs DEF Segment, Text
  <2> HIDE DEF f, g, s
  <2>2. (s \o f) \o g = s \o (f \o g) /\ f \o g \in Seq(Word)
    <3>1. Associates(s, f, g) /\ Concats(Word, f, g)
      BY <2>1, AllAssociate, AllConcat
    <3> QED BY <3>1 DEF Associates, Concats
  <2> QED BY <2>1, <2>2 DEF f, g, s
<1> HIDE DEF r
<1>6. /\ h \o Joined(a \o c) = (h \o Joined(a)) \o Joined(c)
      /\ h \o Joined(b) = (h \o Joined(a)) \o (<<"/">> \o x)
  BY <1>2 DEF SplitsAt
<1>7. /\ h \o Joined(Append(b, e) \o c) = (h \o Joined(Append(b, e))) \o Joined(c)
      /\ h \o Joined(Append(b, e)) = (h \o Joined(b)) \o (<<"/">> \o e)
  BY <1>4 DEF SplitsAt
<1> HIDE DEF b, e
<1>8. h \o Joined(Append(b, e) \o c) = (((h \o Joined(a)) \o (<<"/">> \o x)) \o (<<"/">> \o e)) \o (<<"/">> \o r)
  BY <1>5, <1>6, <1>7
<1>9. h \o Joined(a \o c) = (h \o Joined(a)) \o (<<"/">> \o r)
  BY <1>5, <1>6
<1> QED
  BY <1>5, <1>6, <1>8, <1>9 DEF b, e, Pieces

\* RemoveParent takes both out.
ParentTaken(h, a, x, d, c) ==
  \A t, at, up :
    /\ t = h \o Joined(Append(Append(a, x), <<d>>) \o c)
    /\ at = Len(h \o Joined(Append(a, x))) + 1
    /\ up = {i \in Slashes(t) : i < at}
    => /\ up # {}
       /\ SubSeq(t, 1, Final(up)) \o SubSeq(t, at + 3, Len(t)) = h \o Joined(a \o c)

\* RemoveParent takes the segment ".." and the one before it out.
LEMMA ParentOut ==
  ASSUME NEW h \in Text, NEW a \in Route, NEW x \in Segment, NEW d \in Word, <<d>> \in Segment, NEW c \in Split
  PROVE  ParentTaken(h, a, x, d, c)
<1> SUFFICES
      ASSUME NEW t, t = h \o Joined(Append(Append(a, x), <<d>>) \o c),
             NEW at, at = Len(h \o Joined(Append(a, x))) + 1,
             NEW up, up = {i \in Slashes(t) : i < at}
      PROVE  /\ up # {}
             /\ SubSeq(t, 1, Final(up)) \o SubSeq(t, at + 3, Len(t)) = h \o Joined(a \o c)
  BY DEF ParentTaken
<1> DEFINE u == h \o Joined(a)
           s == <<"/">>
           z == <<"/">> \o <<d>>
<1>0. PICK r \in Seq(Word) : Pieces(h, a, x, d, c, r)
  BY ParentPieces
<1>1. /\ t = ((u \o (s \o x)) \o z) \o (s \o r)
      /\ h \o Joined(a \o c) = u \o (s \o r)
      /\ h \o Joined(Append(a, x)) = u \o (s \o x)
  BY <1>0 DEF Pieces
<1>2. /\ u \in Seq(Word) /\ s \in Seq(Word) /\ z \in Seq(Word) /\ x \in Seq(Word)
      /\ Len(s) = 1 /\ s[1] = "/" /\ Len(z) = 2 /\ \A i \in 1 .. Len(x) : x[i] # "/"
  <2>1. u \in Seq(Word)
    BY JoinedIs, ConcatProperties DEF Text
  <2>2. s \in Seq(Word) /\ x \in Seq(Word) /\ z \in Seq(Word)
    BY SlashIs DEF Text, Segment
  <2> QED BY <2>1, <2>2 DEF Segment
<1> HIDE DEF u, s, z
<1> DEFINE sx == s \o x
           v  == u \o sx
           w  == v \o z
           y  == x \o (z \o (s \o r))
           us == u \o s
           ws == w \o s
<1>3. t = ws \o r /\ t = us \o y /\ us \o r = u \o (s \o r)
  <2>1. Regroups(u, s, x, z, r)
    BY <1>2, Regrouped
  <2> QED BY <1>1, <2>1 DEF Regroups
<1>4. /\ sx \in Seq(Word) /\ Len(sx) = 1 + Len(x) /\ Len(x) \in Nat
      /\ us \in Seq(Word) /\ Len(us) = Len(u) + 1 /\ Len(u) \in Nat
  <2>1. Concats(Word, s, x) /\ Concats(Word, u, s)
    BY <1>2, AllConcat
  <2> QED BY <1>2, <2>1 DEF Concats
<1> HIDE DEF sx
<1>5. /\ v \in Seq(Word) /\ Len(v) = Len(u) + (1 + Len(x))
      /\ \A i \in 1 .. Len(u) + Len(sx) : v[i] = IF i <= Len(u) THEN u[i] ELSE sx[i - Len(u)]
  <2>1. Concats(Word, u, sx)
    BY <1>2, <1>4, AllConcat
  <2> QED BY <1>4, <2>1 DEF Concats
<1> HIDE DEF v, us
<1>6. w \in Seq(Word) /\ Len(w) = Len(v) + 2
      /\ \A i \in 1 .. Len(v) : w[i] = v[i]
  <2>1. /\ w \in Seq(Word) /\ Len(w) = Len(v) + Len(z)
        /\ \A i \in 1 .. Len(v) + Len(z) : w[i] = IF i <= Len(v) THEN v[i] ELSE z[i - Len(v)]
    <3>1. Concats(Word, v, z)
      BY <1>2, <1>5, AllConcat
    <3> QED BY <3>1 DEF Concats
  <2> QED BY <1>2, <1>5, <2>1
<1> HIDE DEF w
<1>7. ws \in Seq(Word) /\ Len(ws) = Len(w) + 1 /\ Len(w) \in Nat
      /\ \A i \in 1 .. Len(w) : ws[i] = w[i]
  <2>1. /\ ws \in Seq(Word) /\ Len(ws) = Len(w) + Len(s)
        /\ \A i \in 1 .. Len(w) + Len(s) : ws[i] = IF i <= Len(w) THEN w[i] ELSE s[i - Len(w)]
    <3>1. Concats(Word, w, s)
      BY <1>2, <1>6, AllConcat
    <3> QED BY <3>1 DEF Concats
  <2> QED BY <1>2, <1>6, <2>1
<1> HIDE DEF ws
<1>8. y \in Seq(Word)
  <2> DEFINE sr == s \o r
             zr == z \o sr
  <2>1. sr \in Seq(Word)
    BY <1>1, <1>2, ConcatProperties
  <2> HIDE DEF sr
  <2>2. zr \in Seq(Word)
    BY <1>2, <2>1, ConcatProperties
  <2> HIDE DEF zr
  <2>3. x \o zr \in Seq(Word)
    BY <1>2, <2>2, ConcatProperties
  <2> QED BY <2>3 DEF zr, sr
<1> HIDE DEF y
<1>9. SubSeq(t, 1, Len(us)) = us
  <2>1. SubSeq(us \o y, 1, Len(us)) = us
    BY <1>4, <1>8, Parts
  <2> QED BY <1>3, <2>1
<1>10. /\ SubSeq(t, Len(ws) + 1, Len(t)) = r /\ Len(t) = Len(ws) + Len(r) /\ Len(r) \in Nat
       /\ \A i \in 1 .. Len(ws) : t[i] = ws[i]
  <2>1. Concats(Word, ws, r) /\ Parted(ws, r)
    BY <1>7, AllConcat
  <2>2. Len(t) = Len(ws) + Len(r) /\ SubSeq(t, Len(ws) + 1, Len(ws) + Len(r)) = r
    BY <1>3, <2>1 DEF Concats, Parted
  <2>3. Len(r) \in Nat /\ Len(ws) \in Nat /\ t = ws \o r
    BY <1>3, <2>1 DEF Concats
  <2>4. \A i \in 1 .. Len(ws) + Len(r) : t[i] = IF i <= Len(ws) THEN ws[i] ELSE r[i - Len(ws)]
    BY <2>1, <2>3 DEF Concats
  <2>5. \A i \in 1 .. Len(ws) : t[i] = ws[i]
    <3>1. Len(r) \in Nat /\ Len(ws) \in Nat
      BY <2>3
    <3>2. ASSUME NEW i \in 1 .. Len(ws) PROVE t[i] = ws[i]
      <4>1. i \in 1 .. Len(ws) + Len(r) /\ i <= Len(ws)
        BY <3>1
      <4> QED BY <2>4, <4>1
    <3> QED BY <3>2
  <2> QED BY <2>2, <2>3, <2>5
<1> DEFINE n == Len(u)
           m == Len(x)
<1>11. /\ n \in Nat /\ m \in Nat /\ Len(us) = n + 1 /\ Len(v) = n + 1 + m /\ Len(w) = n + m + 3
       /\ Len(ws) = n + m + 4 /\ Len(t) = n + m + 4 + Len(r)
  <2>1. n \in Nat /\ m \in Nat /\ Len(us) = n + 1
    BY <1>4
  <2>2. Len(v) = n + (1 + m)
    BY <1>5
  <2>3. Len(w) = Len(v) + 2 /\ Len(ws) = Len(w) + 1 /\ Len(t) = Len(ws) + Len(r) /\ Len(r) \in Nat
    BY <1>6, <1>7, <1>10
  <2> HIDE DEF n, m
  <2>4. Len(v) = n + 1 + m /\ Len(w) = n + m + 3 /\ Len(ws) = n + m + 4
    BY <2>1, <2>2, <2>3
  <2> QED BY <2>1, <2>3, <2>4
<1>12. at = n + m + 2
  <2>1. Len(h \o Joined(Append(a, x))) = Len(v)
    BY <1>1 DEF v, sx
  <2> QED BY <1>11, <2>1
<1>13. t[n + 1] = "/" /\ \A i \in n + 2 .. n + m + 1 : t[i] # "/"
  <2>1. ASSUME NEW i \in n + 1 .. n + m + 1 PROVE t[i] = sx[i - n]
    <3>1. /\ i \in 1 .. Len(ws) /\ i \in 1 .. Len(w) /\ i \in 1 .. Len(v) /\ i \in 1 .. n + Len(sx)
          /\ ~ (i <= n)
      BY <1>4, <1>11
    <3> QED BY <1>5, <1>6, <1>7, <1>10, <3>1
  <2>2. sx[1] = "/"
    BY <1>2, <1>4 DEF sx
  <2>3. ASSUME NEW i \in 2 .. m + 1 PROVE sx[i] # "/"
    <3>1. \A j \in 1 .. Len(s) + Len(x) : sx[j] = IF j <= Len(s) THEN s[j] ELSE x[j - Len(s)]
      BY <1>2, ConcatProperties DEF sx
    <3>2. i \in 1 .. Len(s) + Len(x) /\ ~ (i <= Len(s)) /\ i - Len(s) \in 1 .. Len(x)
      BY <1>2, <1>4
    <3> QED BY <1>2, <3>1, <3>2
  <2>4. n + 1 \in n + 1 .. n + m + 1 /\ (n + 1) - n = 1
    BY <1>11
  <2>5. ASSUME NEW i \in n + 2 .. n + m + 1 PROVE t[i] # "/"
    <3>1. i \in n + 1 .. n + m + 1 /\ i - n \in 2 .. m + 1
      BY <1>11
    <3> QED BY <2>1, <2>3, <3>1
  <2>6. t[n + 1] = "/"
    BY <2>1, <2>2, <2>4
  <2> QED BY <2>5, <2>6
<1> HIDE DEF n, m
<1>14. n + 1 \in up /\ \A j \in up : j <= n + 1
  <2>1. up = {i \in 1 .. Len(t) : t[i] = "/" /\ i < at}
    BY DEF Slashes
  <2>2. n + 1 \in 1 .. Len(t) /\ n + 1 < at
    BY <1>10, <1>11, <1>12
  <2>3. ASSUME NEW j \in up PROVE j <= n + 1
    <3>1. j \in Nat /\ t[j] = "/" /\ j < at
      <4>1. j \in 1 .. Len(t) /\ t[j] = "/" /\ j < at
        BY <2>1
      <4>2. Len(t) \in Nat
        BY <1>10, <1>11
      <4> QED BY <4>1, <4>2
    <3>2. j \notin n + 2 .. n + m + 1
      BY <1>13, <3>1
    <3> QED BY <1>11, <1>12, <3>1, <3>2
  <2> QED BY <1>13, <2>1, <2>2, <2>3
<1>15. Final(up) = n + 1
  <2> DEFINE f == CHOOSE i \in up : \A j \in up : j <= i
  <2>1. f \in up /\ \A j \in up : j <= f
    BY <1>14
  <2>2. f <= n + 1 /\ n + 1 <= f /\ f \in Nat
    <3>2. f <= n + 1 /\ n + 1 <= f
      BY <1>14, <2>1
    <3> HIDE DEF f
    <3>0. Len(t) \in Nat
      BY <1>10, <1>11
    <3>1. f \in 1 .. Len(t) /\ Len(t) \in Nat
      BY <2>1, <3>0 DEF Slashes
    <3> QED BY <3>1, <3>2
  <2> HIDE DEF f
  <2>3. f = n + 1
    BY <1>11, <2>2
  <2> QED BY <2>3 DEF Final, f
<1>16. at + 3 = Len(ws) + 1
  BY <1>11, <1>12
<1>17. SubSeq(t, 1, Final(up)) = us
  BY <1>9, <1>11, <1>15
<1>18. SubSeq(t, at + 3, Len(t)) = r
  BY <1>10, <1>16
<1> QED
  BY <1>1, <1>3, <1>14, <1>17, <1>18

-----------------------------------------------------------------------------
(* A base and a relative reference.                                        *)

----------------------------------------------------------------------------
(* A relative reference, put behind what it is relative to.                *)

\* What a text is in front of its first slash, and behind.
LEMMA HeadOf ==
  ASSUME NEW text \in Text
  PROVE  /\ Head(Segments(text)) \in Segment /\ Tail(Segments(text)) \in Route
         /\ text = Head(Segments(text)) \o Joined(Tail(Segments(text)))
<1> DEFINE b == Segments(text)
           f == Head(b)
           g == Joined(Tail(b))
           s == <<"/">>
<1>1. b \in Split /\ Joined(b) = s \o text
  BY SegmentsJoined
<1>2. /\ f \in Segment /\ Tail(b) \in Route /\ Joined(b) = (s \o f) \o g
  <2> HIDE DEF b
  <2> QED BY <1>1, JoinedHead
<1>3. f \in Seq(Word) /\ g \in Seq(Word) /\ s \in Seq(Word) /\ text \in Seq(Word)
  BY <1>2, JoinedIs, SlashIs DEF Segment, Text
<1> HIDE DEF f, g, s
<1>4. Associates(s, f, g) /\ f \o g \in Seq(Word)
  BY <1>3, AllAssociate, ConcatProperties
<1>5. s \o text = s \o (f \o g)
  BY <1>1, <1>2, <1>4 DEF Associates
<1> DEFINE k == f \o g
<1> HIDE DEF k
<1>6. text = k
  <2>1. k \in Seq(Word) /\ s \o text = s \o k
    BY <1>4, <1>5 DEF k
  <2>2. Concats(Word, s, text) /\ Parted(s, text) /\ Concats(Word, s, k) /\ Parted(s, k)
    BY <1>3, <2>1, AllConcat
  <2>3. Len(s) + Len(text) = Len(s) + Len(k)
    BY <2>1, <2>2 DEF Concats
  <2> QED BY <2>1, <2>2, <2>3 DEF Parted
<1> QED
  BY <1>2, <1>6 DEF k, f, g

\* A text that begins with a slash is joined from the segments behind it.
LEMMA FromRootIs ==
  ASSUME NEW text \in Text, FromRoot(text)
  PROVE  text = Joined(Tail(Segments(text))) /\ Tail(Segments(text)) \in Split
<1> DEFINE f == Head(Segments(text))
           r == Tail(Segments(text))
           g == Joined(r)
<1>1. f \in Segment /\ r \in Route /\ text = f \o g
  BY HeadOf
<1>2. f \in Seq(Word) /\ g \in Seq(Word) /\ text \in Seq(Word) /\ text # <<>> /\ text[1] = "/"
      /\ \A i \in 1 .. Len(f) : f[i] # "/"
  BY <1>1, JoinedIs DEF Segment, Text, FromRoot
<1> HIDE DEF f, r
<1>3. f = <<>>
  <2> SUFFICES ASSUME f # <<>> PROVE FALSE
    OBVIOUS
  <2>1. Len(f) \in Nat /\ 1 \in 1 .. Len(f)
    BY <1>2
  <2>2. Concats(Word, f, g)
    BY <1>2, AllConcat
  <2>3. 1 \in 1 .. Len(f) + Len(g) /\ 1 <= Len(f)
    BY <2>1, <2>2 DEF Concats
  <2>4. (f \o g)[1] = f[1]
    BY <2>2, <2>3 DEF Concats
  <2> QED BY <1>1, <1>2, <2>1, <2>4
<1>4. text = g
  BY <1>1, <1>2, <1>3, ConcatEmptySeq
<1>5. r # <<>>
  BY <1>2, <1>4, JoinedIs
<1> QED
  BY <1>1, <1>4, <1>5 DEF Split, r

\* The url of a page: scheme, host, and segments behind a slash each.
Based(base) ==
  /\ base \in Text /\ Host(base) # NULL /\ base[4] \notin Dots /\ Path(base) # <<>>
  /\ \A i \in 1 .. Len(base) : base[i] \notin Query
  /\ \A i \in 1 .. Len(base) - 1 : base[i] = "/" \/ base[i + 1] \in {"/"} \cup Query

\* The scheme and the host of a url.
Site(base) == SubSeq(base, 1, 4)

\* The host of a base, token by token.
LEMMA HostIs ==
  ASSUME NEW base \in Text, Host(base) # NULL
  PROVE  /\ Host(base) = Site(base) /\ Site(base) \in Text /\ Len(Site(base)) = 4 /\ Len(base) > 3
         /\ Site(base)[1] = "http:" /\ Site(base)[2] = "/" /\ Site(base)[3] = "/"
         /\ Site(base)[4] = base[4] /\ base[4] \notin {"/"} \cup Query
<1>1. /\ Len(base) > 3 /\ SubSeq(base, 1, 3) = Scheme /\ base[4] \notin {"/"} \cup Query
      /\ Host(base) = SubSeq(base, 1, 4)
  BY DEF Host
<1>2. base \in Seq(Word) /\ Len(base) \in Nat
  BY DEF Text
<1>3. /\ Site(base) \in Seq(Word) /\ Len(Site(base)) = 4
      /\ \A i \in 1 .. 4 : Site(base)[i] = base[i]
  BY <1>1, <1>2 DEF Site
<1>4. base[1] = "http:" /\ base[2] = "/" /\ base[3] = "/"
  <2> DEFINE w == SubSeq(base, 1, 3)
  <2>1. w[1] = base[1] /\ w[2] = base[2] /\ w[3] = base[3]
    BY <1>1, <1>2
  <2>2. Scheme[1] = "http:" /\ Scheme[2] = "/" /\ Scheme[3] = "/"
    BY DEF Scheme
  <2> HIDE DEF w
  <2>3. w = Scheme
    BY <1>1 DEF w
  <2> QED BY <2>1, <2>2, <2>3
<1> QED
  BY <1>1, <1>3, <1>4 DEF Site, Text

\* A base is its host and its path.
LEMMA BaseIs ==
  ASSUME NEW base, Based(base)
  PROVE  base = Site(base) \o Joined(Path(base)) /\ Path(base) \in Split
<1> DEFINE b4 == SubSeq(base, 4, Len(base))
           f  == Head(Segments(b4))
           r  == Tail(Segments(b4))
           g  == Joined(r)
<1>1. /\ base \in Seq(Word) /\ Len(base) \in Nat /\ Len(base) > 3 /\ base[4] # "/" /\ base \in Text
      /\ Host(base) # NULL
  BY HostIs DEF Based, Text
<1>2. b4 \in Seq(Word) /\ Len(b4) = Len(base) - 3 /\ \A i \in 1 .. Len(base) - 3 : b4[i] = base[i + 3]
  BY <1>1
<1>3. b4 \in Text
  BY <1>2 DEF Text
<1>4. r = Path(base)
  BY DEF Path
<1> HIDE DEF b4
<1>5. f \in Segment /\ r \in Route /\ b4 = f \o g
  BY <1>3, HeadOf
<1>6. f \in Seq(Word) /\ g \in Seq(Word) /\ r \in Split /\ \A i \in 1 .. Len(f) : f[i] # "/"
  BY <1>4, <1>5, JoinedIs DEF Segment, Text, Based, Split
<1>7. PICK k \in Seq(Word) : g = <<"/">> \o k
  <2> DEFINE y == Head(r)
             v == Joined(Tail(r))
             s == <<"/">>
  <2>1. y \in Seq(Word) /\ v \in Seq(Word) /\ s \in Seq(Word) /\ g = (s \o y) \o v
    <3> HIDE DEF r
    <3>1. /\ y \in Segment /\ Tail(r) \in Route /\ g = (s \o y) \o v
      BY <1>6, JoinedHead
    <3> QED BY <3>1, JoinedIs, SlashIs DEF Segment, Text
  <2> HIDE DEF y, v, s
  <2>2. Associates(s, y, v) /\ y \o v \in Seq(Word)
    BY <2>1, AllAssociate, ConcatProperties
  <2>3. g = s \o (y \o v)
    BY <2>1, <2>2 DEF Associates
  <2> QED BY <2>2, <2>3 DEF s
<1>8. g[1] = "/" /\ Len(g) \in Nat /\ 1 <= Len(g)
  BY <1>7, SlashIs
<1> HIDE DEF f, r, g
<1>9. /\ Len(b4) = Len(f) + Len(g) /\ Len(f) \in Nat
      /\ \A i \in 1 .. Len(f) + Len(g) : b4[i] = IF i <= Len(f) THEN f[i] ELSE g[i - Len(f)]
  <2>1. Concats(Word, f, g)
    BY <1>6, AllConcat
  <2> QED BY <1>5, <2>1 DEF Concats
<1>10. b4[1] = base[4] /\ b4[1] # "/"
  BY <1>1, <1>2
<1>11. Len(f) # 0
  <2> SUFFICES ASSUME Len(f) = 0 PROVE FALSE
    OBVIOUS
  <2>1. 1 \in 1 .. Len(f) + Len(g) /\ ~ (1 <= Len(f)) /\ 1 - Len(f) = 1
    BY <1>8, <1>9
  <2> QED BY <1>8, <1>9, <1>10, <2>1
<1>12. ~ (2 <= Len(f))
  <2> SUFFICES ASSUME 2 <= Len(f) PROVE FALSE
    OBVIOUS
  <2>1. 2 \in 1 .. Len(f) + Len(g) /\ 2 \in 1 .. Len(f) /\ 2 \in 1 .. Len(base) - 3 /\ 5 \in 1 .. Len(base)
        /\ 4 \in 1 .. Len(base) - 1 /\ 4 + 1 = 5 /\ 2 + 3 = 5
    BY <1>1, <1>2, <1>8, <1>9
  <2>2. b4[2] = f[2] /\ f[2] # "/" /\ b4[2] = base[5]
    BY <1>2, <1>6, <1>9, <2>1
  <2>3. base[4] = "/" \/ base[5] \in {"/"} \cup Query
    <3>1. \A i \in 1 .. Len(base) - 1 : base[i] = "/" \/ base[i + 1] \in {"/"} \cup Query
      BY DEF Based
    <3> QED BY <2>1, <3>1
  <2>4. base[5] \notin Query
    BY <2>1 DEF Based
  <2> QED BY <1>1, <2>2, <2>3, <2>4
<1>13. Len(f) = 1
  <2> DEFINE n == Len(f)
  <2>1. n \in Nat /\ n # 0 /\ ~ (2 <= n)
    BY <1>9, <1>11, <1>12
  <2> HIDE DEF n
  <2>2. n = 1
    BY <2>1
  <2> QED BY <2>2 DEF n
<1> DEFINE h == Site(base)
<1>14. /\ h \in Seq(Word) /\ Len(h) = 4 /\ \A i \in 1 .. 4 : h[i] = base[i]
  BY <1>1 DEF Site
<1> HIDE DEF h
<1>15. Concats(Word, h, g)
  BY <1>6, <1>14, AllConcat
<1> DEFINE t == h \o g
<1>16. /\ t \in Seq(Word) /\ Len(t) = Len(base) /\ \A i \in 1 .. 4 + Len(g) : t[i] = IF i <= 4 THEN h[i] ELSE g[i - 4]
  <2>1. /\ t \in Seq(Word) /\ Len(t) = 4 + Len(g) /\ \A i \in 1 .. 4 + Len(g) : t[i] = IF i <= 4 THEN h[i] ELSE g[i - 4]
    BY <1>14, <1>15 DEF Concats
  <2>2. Len(base) = 4 + Len(g)
    BY <1>1, <1>2, <1>8, <1>9, <1>13
  <2> QED BY <2>1, <2>2
<1> HIDE DEF t
<1>17. ASSUME NEW i \in 1 .. Len(base) PROVE t[i] = base[i]
  <2>1. Len(base) = 4 + Len(g)
    BY <1>1, <1>2, <1>8, <1>9, <1>13
  <2>2. CASE i <= 4
    <3>1. i \in 1 .. 4 /\ i \in 1 .. 4 + Len(g)
      BY <1>8, <2>2
    <3> QED BY <1>14, <1>16, <2>2, <3>1
  <2>3. CASE ~ (i <= 4)
    <3>1. /\ i \in 1 .. 4 + Len(g) /\ i - 3 \in 1 .. Len(base) - 3 /\ (i - 3) + 3 = i
          /\ i - 3 \in 1 .. Len(f) + Len(g) /\ ~ (i - 3 <= Len(f)) /\ (i - 3) - Len(f) = i - 4
      BY <1>1, <1>8, <1>13, <2>1, <2>3
    <3>2. t[i] = g[i - 4] /\ b4[i - 3] = base[i] /\ b4[i - 3] = g[i - 4]
      BY <1>2, <1>9, <1>16, <2>3, <3>1
    <3> QED BY <3>2
  <2> QED BY <2>2, <2>3
<1>18. t = base
  BY <1>1, <1>16, <1>17, SeqEqual
<1> QED
  BY <1>4, <1>6, <1>18 DEF t, h, g

\* A path is its front and its last segment.
LEMMA FrontIs ==
  ASSUME NEW b \in Split
  PROVE  Front(b) \in Route /\ Last(b) \in Segment /\ b = Append(Front(b), Last(b))
<1>1. b \in Seq(Segment) /\ Len(b) \in Nat /\ 1 <= Len(b)
  BY DEF Split, Route
<1> DEFINE n == Len(b)
           f == SubSeq(b, 1, n - 1)
           e == SubSeq(b, n + 1, n)
           g == Append(f, b[n])
<1>2. n \in 1 .. Len(b) /\ b[n] \in Segment /\ n \in Nat
  BY <1>1
<1>3. f \in Seq(Segment) /\ b = g \o e
  BY <1>1, <1>2, Around
<1>4. e = <<>>
  <2>1. n + 1 \in Int /\ n \in Int /\ n < n + 1
    BY <1>2
  <2> HIDE DEF n
  <2> QED BY <2>1, SubSeqEmpty
<1> HIDE DEF f, e
<1>5. g \in Seq(Segment)
  BY <1>2, <1>3
<1> HIDE DEF g
<1>6. b = g
  BY <1>3, <1>4, <1>5, ConcatEmptySeq
<1> QED
  BY <1>2, <1>3, <1>6 DEF Front, Last, f, g, Route

\* What PATTERN_HOSTPATH captures ends behind the last slash.
LEMMA HostPathIs ==
  ASSUME NEW base, Based(base)
  PROVE  /\ HostPath(base) = (Site(base) \o Joined(Front(Path(base)))) \o <<"/">>
         /\ Front(Path(base)) \in Route
<1> DEFINE h == Site(base)
           q == Front(Path(base))
           l == Last(Path(base))
           j == Joined(q)
           s == <<"/">>
<1>1. /\ base = h \o Joined(Path(base)) /\ Path(base) \in Split /\ Host(base) # NULL
      /\ h \in Seq(Word) /\ Len(h) = 4
  <2>1. base \in Text /\ Host(base) # NULL
    BY DEF Based
  <2> QED BY <2>1, BaseIs, HostIs DEF Text
<1>2. q \in Route /\ l \in Segment /\ Path(base) = Append(q, l)
  BY <1>1, FrontIs
<1>3. Joined(Path(base)) = (j \o s) \o l
  BY <1>2, JoinedIs DEF Joining
<1>4. j \in Seq(Word) /\ s \in Seq(Word) /\ l \in Seq(Word) /\ \A i \in 1 .. Len(l) : l[i] # "/"
  BY <1>2, JoinedIs, SlashIs DEF Text, Segment
<1>5. Len(s) = 1 /\ s[1] = "/"
  OBVIOUS
<1> HIDE DEF h, q, l, j, s
<1> DEFINE u  == h \o j
           us == u \o s
           js == j \o s
<1>6. Concats(Word, h, j) /\ Concats(Word, j, s) /\ Associates(h, j, s)
  BY <1>1, <1>4, AllConcat, AllAssociate
<1>7. u \in Seq(Word) /\ js \in Seq(Word) /\ h \o js = u \o s /\ Len(u) \in Nat /\ 4 <= Len(u)
  <2>1. Len(u) = 4 + Len(j) /\ Len(j) \in Nat
    BY <1>1, <1>6 DEF Concats
  <2> QED BY <1>6, <2>1 DEF Concats, Associates
<1> HIDE DEF u, js
<1>8. Concats(Word, u, s) /\ Associates(h, js, l)
  BY <1>1, <1>4, <1>7, AllConcat, AllAssociate
<1>9. us \in Seq(Word) /\ base = us \o l
  <2>1. us \in Seq(Word)
    BY <1>8 DEF Concats
  <2>2. base = h \o (js \o l)
    BY <1>1, <1>3 DEF js
  <2>3. (h \o js) \o l = h \o (js \o l)
    BY <1>8 DEF Associates
  <2> QED BY <1>7, <2>1, <2>2, <2>3
<1>10. Len(us) = Len(u) + 1 /\ us[Len(u) + 1] = "/"
  <2>1. Len(us) = Len(u) + 1
    BY <1>5, <1>8 DEF Concats
  <2>2. Len(u) + 1 \in 1 .. Len(u) + Len(s) /\ ~ (Len(u) + 1 <= Len(u)) /\ (Len(u) + 1) - Len(u) = 1
    BY <1>5, <1>7
  <2> QED BY <1>5, <1>8, <2>1, <2>2 DEF Concats
<1> HIDE DEF us
<1>11. Concats(Word, us, l) /\ Parted(us, l)
  BY <1>4, <1>9, AllConcat
<1> DEFINE n == Len(u)
<1>12. /\ n \in Nat /\ 4 <= n /\ Len(us) = n + 1 /\ Len(base) = (n + 1) + Len(l) /\ Len(l) \in Nat
       /\ \A i \in 1 .. (n + 1) + Len(l) : base[i] = IF i <= n + 1 THEN us[i] ELSE l[i - (n + 1)]
       /\ SubSeq(base, 1, n + 1) = us
  <2>1. n \in Nat /\ 4 <= n /\ Len(us) = n + 1
    BY <1>7, <1>10
  <2> HIDE DEF n
  <2>2. /\ Len(base) = (n + 1) + Len(l) /\ Len(l) \in Nat
        /\ \A i \in 1 .. (n + 1) + Len(l) : base[i] = IF i <= n + 1 THEN us[i] ELSE l[i - (n + 1)]
    BY <1>9, <1>11, <2>1 DEF Concats
  <2>3. SubSeq(base, 1, n + 1) = us
    BY <1>9, <1>11, <2>1 DEF Parted
  <2> QED BY <2>1, <2>2, <2>3
<1>13. base[n + 1] = "/"
  BY <1>10, <1>12
<1> HIDE DEF n
<1> DEFINE behind == {i \in Slashes(base) : i > 4}
<1>14. behind = {i \in 1 .. Len(base) : base[i] = "/" /\ i > 4}
  BY DEF Slashes
<1>15. n + 1 \in behind
  BY <1>12, <1>13, <1>14
<1>16. ASSUME NEW i \in behind PROVE i <= n + 1 /\ i \in Nat
  <2>1. i \in 1 .. (n + 1) + Len(l) /\ base[i] = "/"
    BY <1>12, <1>14
  <2>2. ASSUME ~ (i <= n + 1) PROVE FALSE
    <3>1. i - (n + 1) \in 1 .. Len(l)
      BY <1>12, <2>1, <2>2
    <3> QED BY <1>4, <1>12, <2>1, <2>2, <3>1
  <2> QED BY <1>12, <2>1, <2>2
<1> HIDE DEF behind
<1>17. Final(behind) = n + 1
  <2> DEFINE f == CHOOSE i \in behind : \A k \in behind : k <= i
  <2>1. f \in behind /\ \A k \in behind : k <= f
    BY <1>15, <1>16
  <2> HIDE DEF f
  <2>2. f <= n + 1 /\ n + 1 <= f /\ f \in Nat
    BY <1>15, <1>16, <2>1
  <2>3. f = n + 1
    BY <1>12, <2>2
  <2> QED BY <2>3 DEF Final, f
<1>18. HostPath(base) = SubSeq(base, 1, Final(behind))
  <2>1. behind # {}
    BY <1>15
  <2> QED BY <1>1, <2>1 DEF HostPath, behind
<1> QED
  BY <1>2, <1>12, <1>17, <1>18 DEF us, u, h, j, q, s

\* A relative reference behind its base is the path it is merged to.
LEMMA RelativeIs ==
  ASSUME NEW base, Based(base), NEW text \in Text, text # <<>>, ~ QueryOnly(text),
         Query \cap {"http:", "/", ".", ".."} = {}
  PROVE  /\ Before(text, base) \o text = Site(base) \o Joined(Merged(text, base))
         /\ Merged(text, base) \in Split
<1>1. /\ base \in Text /\ Host(base) = Site(base) /\ Site(base) \in Seq(Word) /\ text \in Seq(Word)
  <2>1. base \in Text /\ Host(base) # NULL
    BY DEF Based
  <2> QED BY <2>1, HostIs DEF Text
<1>2. CASE FromRoot(text)
  <2>1. Before(text, base) = Site(base)
    BY <1>1, <1>2 DEF Before, FromRoot
  <2>2. Merged(text, base) = Tail(Segments(text))
    BY <1>2 DEF Merged
  <2> QED BY <1>2, <2>1, <2>2, FromRootIs
<1>3. CASE ~ FromRoot(text)
  <2> DEFINE h == Site(base)
             q == Front(Path(base))
             b == Segments(text)
             j == Joined(q)
             s == <<"/">>
  <2>1. Before(text, base) = (h \o j) \o s /\ q \in Route
    <3>1. Before(text, base) = HostPath(base)
      BY <1>3 DEF Before, FromRoot, QueryOnly
    <3> QED BY <3>1, HostPathIs
  <2>2. b \in Split /\ Joined(b) = s \o text /\ b \in Route
    BY SegmentsJoined DEF Split
  <2>3. Merged(text, base) = q \o b
    BY <1>3 DEF Merged
  <2>4. h \in Seq(Word) /\ s \in Seq(Word) /\ j \in Seq(Word)
    BY <1>1, <2>1, JoinedIs, SlashIs DEF Text
  <2> HIDE DEF h, q, b, s
  <2>5. Joined(q \o b) = j \o Joined(b) /\ q \o b \in Route
    BY <2>1, <2>2, JoinedConcat
  <2> HIDE DEF j
  <2> DEFINE u  == h \o j
             st == s \o text
  <2>6. Concats(Word, h, j) /\ Concats(Word, s, text)
    BY <1>1, <2>4, AllConcat
  <2>7. u \in Seq(Word) /\ st \in Seq(Word)
    BY <2>6 DEF Concats
  <2> HIDE DEF u, st
  <2>8. Associates(u, s, text) /\ Associates(h, j, st)
    BY <1>1, <2>4, <2>7, AllAssociate
  <2>9. (u \o s) \o text = u \o st /\ u \o st = h \o (j \o st)
    BY <2>8 DEF Associates, u, st
  <2>10. Before(text, base) \o text = h \o Joined(q \o b)
    BY <2>1, <2>2, <2>5, <2>9 DEF u, st
  <2>11. q \o b # <<>>
    <3>1. q \in Seq(Segment) /\ b \in Seq(Segment) /\ b # <<>>
      BY <2>1, <2>2 DEF Route, Split
    <3> QED BY <3>1, ConcatEqualIffEmpty
  <2> QED BY <2>3, <2>5, <2>10, <2>11 DEF Split, h
<1> QED
  BY <1>2, <1>3

-----------------------------------------------------------------------------
(* What the two loops of redurceurl do to a path.                          *)

\* No segment but the last is d, and the last is no dot segment.
Inside(segs, d) == \A i \in 1 .. Len(segs) - 1 : segs[i] # <<d>>
EndsWell(segs)  == Last(segs) # <<>> => Last(segs)[1] \notin Dots

\* The dots are segments.
LEMMA DotsAre == <<".">> \in Segment /\ <<"..">> \in Segment /\ "." \in Word /\ ".." \in Word
<1>1. "." \in Word /\ ".." \in Word
  BY DEF Word
<1>2. <<".">> \in Text /\ <<"..">> \in Text
  BY <1>1 DEF Text
<1> QED
  BY <1>1, <1>2 DEF Segment

\* A path without dots stays as it is.
LEMMA Settled ==
  ASSUME NEW segs \in Route, \A i \in 1 .. Len(segs) : segs[i] \notin {<<".">>, <<"..">>}
  PROVE  WithoutDots(segs) = segs
<1> DEFINE Plain(s) == \A i \in 1 .. Len(s) : s[i] \notin {<<".">>, <<"..">>}
           P == {s \in Route : Plain(s) => WithoutDots(s) = s}
<1>1. <<>> \in P
  BY WithoutDotsIs DEF Route
<1>2. ASSUME NEW s \in Seq(Segment), NEW x \in Segment, s \in P PROVE Append(s, x) \in P
  <2>1. /\ Append(s, x) \in Route /\ s \in Route /\ Len(Append(s, x)) = Len(s) + 1 /\ Len(s) \in Nat
        /\ Append(s, x)[Len(s) + 1] = x /\ \A i \in 1 .. Len(s) : Append(s, x)[i] = s[i]
    BY DEF Route
  <2>2. ASSUME Plain(Append(s, x)) PROVE WithoutDots(Append(s, x)) = Append(s, x)
    <3>1. x \notin {<<".">>, <<"..">>}
      BY <2>1, <2>2
    <3>2. Plain(s)
      BY <2>1, <2>2
    <3>3. WithoutDots(s) = s
      BY <1>2, <3>2
    <3>4. WithoutDots(Append(s, x)) = Resolving(s, x)
      BY <2>1, <3>3, WithoutDotsIs
    <3> QED BY <3>1, <3>4 DEF Resolving
  <2> HIDE DEF Plain
  <2> QED BY <2>1, <2>2
<1>3. segs \in P
  <2> HIDE DEF P
  <2> QED BY <1>1, <1>2, SeqInduction DEF Route
<1> QED
  BY <1>3

\* The beginnings of a sequence put together from two.
LEMMA Beginnings ==
  ASSUME NEW S, NEW x \in Seq(S), NEW y \in Seq(S), NEW k \in 0 .. Len(x) + Len(y)
  PROVE  /\ k <= Len(x) => SubSeq(x \o y, 1, k) = SubSeq(x, 1, k)
         /\ k >= Len(x) => SubSeq(x \o y, 1, k) = x \o SubSeq(y, 1, k - Len(x))
<1> DEFINE t == x \o y
           l == SubSeq(t, 1, k)
<1>1. /\ t \in Seq(S) /\ Len(t) = Len(x) + Len(y) /\ Len(x) \in Nat /\ Len(y) \in Nat /\ k \in Nat
      /\ \A i \in 1 .. Len(x) + Len(y) : t[i] = IF i <= Len(x) THEN x[i] ELSE y[i - Len(x)]
  <2>1. Concats(S, x, y)
    BY AllConcat
  <2> QED BY <2>1 DEF Concats
<1> HIDE DEF t
<1>2. l \in Seq(S) /\ Len(l) = k /\ \A i \in 1 .. k : l[i] = t[i]
  BY <1>1
<1> HIDE DEF l
<1>3. ASSUME k <= Len(x) PROVE l = SubSeq(x, 1, k)
  <2> DEFINE r == SubSeq(x, 1, k)
  <2>1. r \in Seq(S) /\ Len(r) = k /\ \A i \in 1 .. k : r[i] = x[i]
    BY <1>1, <1>3
  <2> HIDE DEF r
  <2>2. \A i \in 1 .. Len(l) : l[i] = r[i]
    BY <1>1, <1>2, <1>3, <2>1
  <2>3. l = r
    BY <1>2, <2>1, <2>2, SeqEqual
  <2> QED BY <2>3 DEF r
<1>4. ASSUME k >= Len(x) PROVE l = x \o SubSeq(y, 1, k - Len(x))
  <2> DEFINE m == k - Len(x)
             e == SubSeq(y, 1, m)
             r == x \o e
  <2>1. m \in Nat /\ m <= Len(y) /\ k = Len(x) + m
    BY <1>1, <1>4
  <2> HIDE DEF m
  <2>2. e \in Seq(S) /\ Len(e) = m /\ \A i \in 1 .. m : e[i] = y[i]
    BY <1>1, <2>1
  <2> HIDE DEF e
  <2>3. Concats(S, x, e)
    BY <2>2, AllConcat
  <2>4. r \in Seq(S) /\ Len(r) = k /\ \A i \in 1 .. k : r[i] = IF i <= Len(x) THEN x[i] ELSE e[i - Len(x)]
    BY <2>1, <2>2, <2>3 DEF Concats
  <2> HIDE DEF r
  <2>5. ASSUME NEW i \in 1 .. k PROVE l[i] = r[i]
    <3>1. i \in 1 .. Len(x) + Len(y) /\ (~ (i <= Len(x)) => i - Len(x) \in 1 .. m)
      BY <1>1, <2>1
    <3> QED BY <1>1, <1>2, <2>2, <2>4, <3>1
  <2>6. l = r
    BY <1>2, <2>4, <2>5, SeqEqual
  <2> QED BY <2>6 DEF r, e, m
<1> QED
  BY <1>3, <1>4 DEF l, t

\* The last segments of two paths that end alike.
LEMMA LastOf ==
  ASSUME NEW a \in Route, NEW c \in Split
  PROVE  a \o c \in Split /\ Last(a \o c) = Last(c)
<1>1. a \in Seq(Segment) /\ c \in Seq(Segment) /\ c # <<>> /\ Len(c) \in Nat /\ Len(c) # 0
  BY DEF Route, Split
<1>2. Concats(Segment, a, c)
  BY <1>1, AllConcat
<1>3. a \o c # <<>>
  BY <1>1, ConcatEqualIffEmpty
<1>4. (a \o c)[Len(a) + Len(c)] = c[Len(c)]
  <2>1. /\ Len(a) + Len(c) \in 1 .. Len(a) + Len(c) /\ ~ (Len(a) + Len(c) <= Len(a))
        /\ (Len(a) + Len(c)) - Len(a) = Len(c)
    BY <1>1, <1>2 DEF Concats
  <2> QED BY <1>2, <2>1 DEF Concats
<1> QED
  BY <1>2, <1>3, <1>4 DEF Concats, Last, Route, Split

\* A name and the ".." behind it.
PairTaken(a, c, segs) ==
  /\ WithoutDots(segs) = WithoutDots(a \o c)
  /\ LeavesNames(segs) => LeavesNames(a \o c)
  /\ Last(segs) = Last(a \o c) /\ a \o c \in Split

\* Without such a pair a path leads to the same place.
LEMMA PairGone ==
  ASSUME NEW a \in Route, NEW x \in Segment, x \notin {<<".">>, <<"..">>}, NEW c \in Split,
         NEW segs, segs = Append(Append(a, x), <<"..">>) \o c
  PROVE  PairTaken(a, c, segs)
<1> DEFINE b == Append(a, x)
           e == Append(b, <<"..">>)
<1>1. /\ b \in Route /\ e \in Route /\ c \in Route
      /\ Len(b) = Len(a) + 1 /\ Len(e) = Len(a) + 2 /\ Len(a) \in Nat
      /\ \A i \in 1 .. Len(a) : e[i] = a[i]
  BY DotsAre DEF Route, Split
<1>2. WithoutDots(e) = WithoutDots(a)
  <2>1. /\ WithoutDots(a) \in Seq(Segment)
        /\ WithoutDots(b) = Resolving(WithoutDots(a), x)
        /\ WithoutDots(e) = Resolving(WithoutDots(b), <<"..">>)
    BY <1>1, DotsAre, WithoutDotsIs DEF Route
  <2> DEFINE w == WithoutDots(a)
  <2> HIDE DEF w
  <2>2. WithoutDots(b) = Append(w, x)
    BY <2>1 DEF Resolving, w
  <2>3. w \in Seq(Segment) /\ Append(w, x) # <<>> /\ Front(Append(w, x)) = w
    <3>1. w \in Seq(Segment)
      BY <2>1 DEF w
    <3>2. Append(w, x) # <<>> /\ Len(Append(w, x)) - 1 = Len(w) /\ Append(w, x) = w \o <<x>> /\ <<x>> \in Seq(Segment)
      BY <3>1, AppendProperties, AppendIsConcat
    <3>3. Parted(w, <<x>>)
      BY <3>1, <3>2, AllConcat
    <3>4. SubSeq(Append(w, x), 1, Len(w)) = w
      BY <3>2, <3>3 DEF Parted
    <3> QED BY <3>1, <3>2, <3>4 DEF Front
  <2>4. <<"..">> # <<".">>
    <3>1. <<"..">>[1] # <<".">>[1]
      OBVIOUS
    <3> QED BY <3>1
  <2> QED BY <2>1, <2>2, <2>3, <2>4 DEF Resolving, w
<1>3. Remaining(e) = Remaining(a)
  <2>1. /\ Remaining(a) \in Seq(Segment)
        /\ Remaining(b) = Staying(Remaining(a), x)
        /\ Remaining(e) = Staying(Remaining(b), <<"..">>)
    BY <1>1, DotsAre, RemainingIs DEF Route
  <2> DEFINE w == Remaining(a)
  <2> HIDE DEF w
  <2>2. Remaining(b) = Append(w, x)
    BY <2>1 DEF Staying, w
  <2>3. w \in Seq(Segment) /\ Append(w, x) # <<>> /\ Front(Append(w, x)) = w
    <3>1. w \in Seq(Segment)
      BY <2>1 DEF w
    <3>2. Append(w, x) # <<>> /\ Len(Append(w, x)) - 1 = Len(w) /\ Append(w, x) = w \o <<x>> /\ <<x>> \in Seq(Segment)
      BY <3>1, AppendProperties, AppendIsConcat
    <3>3. Parted(w, <<x>>)
      BY <3>1, <3>2, AllConcat
    <3>4. SubSeq(Append(w, x), 1, Len(w)) = w
      BY <3>2, <3>3 DEF Parted
    <3> QED BY <3>1, <3>2, <3>4 DEF Front
  <2> QED BY <2>1, <2>2, <2>3 DEF Staying, w
<1> HIDE DEF b, e
<1>4. segs = e \o c
  BY DEF b, e
<1>5. WithoutDots(segs) = WithoutDots(a \o c)
  <2>1. WithoutDots(e \o c) = WithoutDots(a \o c)
    BY <1>1, <1>2, ResolveConcat
  <2> QED BY <1>4, <2>1
<1>6. Last(segs) = Last(a \o c) /\ a \o c \in Split
  BY <1>1, <1>4, LastOf
<1>7. ASSUME LeavesNames(segs) PROVE LeavesNames(a \o c)
  <2>1. /\ a \in Seq(Segment) /\ c \in Seq(Segment) /\ e \in Seq(Segment)
    BY <1>1 DEF Route
  <2>2. Concats(Segment, a, c) /\ Concats(Segment, e, c)
    BY <2>1, AllConcat
  <2> DEFINE t == a \o c
             n == Len(a)
             m == Len(c)
  <2>3. /\ n \in Nat /\ m \in Nat /\ Len(t) = n + m /\ Len(segs) = n + 2 + m
        /\ \A i \in 1 .. n + m : t[i] = IF i <= n THEN a[i] ELSE c[i - n]
        /\ \A i \in 1 .. n + 2 + m : segs[i] = IF i <= n + 2 THEN e[i] ELSE c[i - (n + 2)]
    BY <1>1, <1>4, <2>2 DEF Concats
  <2> HIDE DEF t, n, m
  <2>4. ASSUME NEW i \in 1 .. Len(t), t[i] = <<"..">>
        PROVE  Remaining(SubSeq(t, 1, i - 1)) # <<>> /\ Last(Remaining(SubSeq(t, 1, i - 1))) # <<".">>
    <3>1. i \in 1 .. n + m /\ i \in Nat /\ i - 1 \in Nat
      BY <2>3
    <3>2. CASE i <= n
      <4>1. /\ i \in 1 .. n + 2 + m /\ i - 1 \in 0 .. n + m /\ i - 1 \in 0 .. n + 2 + m
            /\ i - 1 <= n /\ i - 1 <= n + 2 /\ i <= n + 2 /\ i \in 1 .. n
        BY <2>3, <3>1, <3>2
      <4>2. segs[i] = e[i] /\ e[i] = a[i] /\ a[i] = t[i]
        <5>1. segs[i] = e[i] /\ a[i] = t[i]
          BY <2>3, <3>1, <3>2, <4>1
        <5> QED BY <1>1, <4>1, <5>1 DEF n
      <4>3. SubSeq(t, 1, i - 1) = SubSeq(a, 1, i - 1)
        BY <2>1, <4>1, Beginnings DEF t, n, m
      <4>4. SubSeq(segs, 1, i - 1) = SubSeq(e, 1, i - 1)
        <5>1. i - 1 \in 0 .. Len(e) + Len(c) /\ i - 1 <= Len(e)
          BY <1>1, <4>1 DEF n, m
        <5> QED BY <1>4, <2>1, <5>1, Beginnings
      <4>5. SubSeq(e, 1, i - 1) = SubSeq(a, 1, i - 1)
        <5>1. \A j \in 1 .. i - 1 : e[j] = a[j]
          BY <1>1, <4>1 DEF n
        <5>2. \A j \in 1 .. i - 1 : e[j] \in Segment
          BY <1>1, <2>1, <4>1 DEF n
        <5> DEFINE k == i - 1
        <5> HIDE DEF k
        <5>3. /\ SubSeq(e, 1, k) \in Seq(Segment) /\ Len(SubSeq(e, 1, k)) = k
              /\ \A j \in 1 .. k : SubSeq(e, 1, k)[j] = e[j]
          BY <1>1, <2>1, <4>1, k \in Nat, <5>2 DEF k, n
        <5>4. /\ SubSeq(a, 1, k) \in Seq(Segment) /\ Len(SubSeq(a, 1, k)) = k
              /\ \A j \in 1 .. k : SubSeq(a, 1, k)[j] = a[j]
          BY <1>1, <2>1, <4>1 DEF k, n
        <5> QED BY <5>1, <5>3, <5>4, SeqEqual DEF k
      <4>6. i \in 1 .. Len(segs) /\ segs[i] = <<"..">>
        BY <2>3, <2>4, <4>1, <4>2
      <4>7. Remaining(SubSeq(segs, 1, i - 1)) # <<>> /\ Last(Remaining(SubSeq(segs, 1, i - 1))) # <<".">>
        BY <1>7, <4>6 DEF LeavesNames
      <4> QED BY <4>3, <4>4, <4>5, <4>7
    <3>3. CASE ~ (i <= n)
      <4> DEFINE j == i + 2
                 f == SubSeq(c, 1, i - 1 - n)
      <4>1. /\ j \in 1 .. n + 2 + m /\ ~ (j <= n + 2) /\ j - (n + 2) = i - n
            /\ i - 1 \in 0 .. n + m /\ i - 1 >= n /\ j - 1 \in 0 .. n + 2 + m /\ j - 1 >= n + 2
            /\ (i - 1) - n = i - 1 - n /\ (j - 1) - (n + 2) = i - 1 - n
        BY <2>3, <3>1, <3>3
      <4>2. segs[j] = c[i - n] /\ t[i] = c[i - n]
        BY <2>3, <3>1, <3>3, <4>1
      <4>3. SubSeq(t, 1, i - 1) = a \o f
        BY <2>1, <4>1, Beginnings DEF t, n, m
      <4>4. SubSeq(segs, 1, j - 1) = e \o f
        <5>1. Len(e) = n + 2 /\ m = Len(c)
          BY <1>1 DEF n, m
        <5>2. j - 1 \in 0 .. Len(e) + Len(c) /\ j - 1 >= Len(e) /\ (j - 1) - Len(e) = i - 1 - n
          BY <4>1, <5>1
        <5> DEFINE k == j - 1
        <5>3. k \in 0 .. Len(e) + Len(c) /\ k >= Len(e) /\ k - Len(e) = i - 1 - n
          BY <5>2
        <5> HIDE DEF k, f, j
        <5>4. SubSeq(e \o c, 1, k) = e \o SubSeq(c, 1, k - Len(e))
          BY <2>1, <5>3, Beginnings
        <5>5. SubSeq(c, 1, k - Len(e)) = f
          BY <5>3 DEF f
        <5>6. SubSeq(segs, 1, k) = e \o f
          BY <1>4, <5>4, <5>5
        <5> QED BY <5>6 DEF k
      <4>5. f \in Route
        <5>1. i - 1 - n \in 0 .. m
          BY <2>3, <3>1, <3>3
        <5>2. \A k \in 1 .. i - 1 - n : c[k] \in Segment
          BY <2>1, <5>1 DEF m
        <5> DEFINE k == i - 1 - n
        <5> HIDE DEF k
        <5> QED BY <2>1, <5>1, <5>2 DEF Route, k, m
      <4> HIDE DEF f
      <4>6. Remaining(e \o f) = Remaining(a \o f)
        BY <1>1, <1>3, <4>5, RemainConcat
      <4>7. j \in 1 .. Len(segs) /\ segs[j] = <<"..">>
        BY <2>3, <2>4, <4>1, <4>2
      <4> HIDE DEF j
      <4>8. Remaining(SubSeq(segs, 1, j - 1)) # <<>> /\ Last(Remaining(SubSeq(segs, 1, j - 1))) # <<".">>
        BY <1>7, <4>7 DEF LeavesNames
      <4> QED BY <4>3, <4>4, <4>6, <4>8
    <3> QED BY <3>2, <3>3
  <2> QED BY <2>4 DEF LeavesNames, t
<1> QED
  BY <1>5, <1>6, <1>7 DEF PairTaken

\* What RemoveHere does to the path of a url.
HereLeads(h, segs, t, at) ==
  \E rest \in Split :
    /\ SubSeq(t, 1, at - 1) \o SubSeq(t, at + 2, Len(t)) = h \o Joined(rest)
    /\ WithoutDots(rest) = WithoutDots(segs)
    /\ Last(rest) = Last(segs)
    /\ Inside(rest, "..")

\* It leads to the same place, and ".." is not back.
LEMMA HereStep ==
  ASSUME NEW h \in Text, NEW segs \in Split, NEW t, t = h \o Joined(segs),
         NEW at \in Occurs(t, <<"/", ".", "/">>), at > Len(h), Inside(segs, "..")
  PROVE  HereLeads(h, segs, t, at)
<1>1. segs \in Route /\ "." \in Word /\ "." # "/"
  BY DotsAre DEF Split
<1>2. PICK a \in Route, c \in Split :
        /\ segs = Append(a, <<".">>) \o c /\ <<".">> \in Segment
        /\ Len(h \o Joined(a)) = at - 1
  <2>1. at \in Occurs(h \o Joined(segs), <<"/", ".", "/">>)
    OBVIOUS
  <2> DEFINE d == "."
  <2>2. d \in Word /\ d # "/" /\ at \in Occurs(h \o Joined(segs), <<"/", d, "/">>)
    BY <1>1, <2>1
  <2> HIDE DEF d
  <2>3. OccursAt(h, segs, d, at)
    BY <1>1, <2>2, OccursIs
  <2> QED BY <2>3 DEF OccursAt, d
<1> DEFINE e == Append(a, <<".">>)
<1>3. /\ e \in Route /\ c \in Route /\ Len(e) = Len(a) + 1 /\ Len(a) \in Nat
      /\ \A i \in 1 .. Len(a) : e[i] = a[i]
  BY <1>2 DEF Route, Split
<1>4. SubSeq(t, 1, at - 1) \o SubSeq(t, at + 2, Len(t)) = h \o Joined(a \o c)
  <2>1. at = Len(h \o Joined(a)) + 1
    <3> DEFINE n == Len(h \o Joined(a))
    <3>1. n \in Nat
      <4>1. h \in Seq(Word) /\ Joined(a) \in Seq(Word)
        BY JoinedIs DEF Text
      <4>2. Concats(Word, h, Joined(a))
        BY <4>1, AllConcat
      <4> QED BY <4>2 DEF Concats
    <3>2. n = at - 1 /\ at \in Int
      BY <1>2 DEF Occurs
    <3> HIDE DEF n
    <3>3. at = n + 1
      BY <3>1, <3>2
    <3> QED BY <3>3 DEF n
  <2> DEFINE d == "."
  <2>2. t = h \o Joined(Append(a, <<d>>) \o c) /\ d \in Word /\ <<d>> \in Segment /\ c \in Route
    BY <1>1, <1>2, <1>3
  <2> HIDE DEF d, e
  <2>3. HereTaken(h, a, d, c)
    BY <2>2, HereOut
  <2> QED BY <2>1, <2>2, <2>3 DEF HereTaken
<1>5. WithoutDots(e) = WithoutDots(a)
  BY <1>2, WithoutDotsIs DEF Resolving
<1> HIDE DEF e
<1>6. WithoutDots(e \o c) = WithoutDots(a \o c)
  BY <1>3, <1>5, ResolveConcat
<1>7. segs = e \o c
  BY <1>2 DEF e
<1>8. a \o c \in Split /\ Last(a \o c) = Last(segs)
  BY <1>3, <1>7, LastOf
<1>9. Inside(a \o c, "..")
  <2>1. /\ a \in Seq(Segment) /\ c \in Seq(Segment) /\ e \in Seq(Segment)
    BY <1>3 DEF Route
  <2>2. Concats(Segment, a, c) /\ Concats(Segment, e, c)
    BY <2>1, AllConcat
  <2> DEFINE r == a \o c
             n == Len(a)
             m == Len(c)
  <2>3. /\ n \in Nat /\ m \in Nat /\ Len(r) = n + m /\ Len(segs) = n + 1 + m
        /\ \A i \in 1 .. n + m : r[i] = IF i <= n THEN a[i] ELSE c[i - n]
        /\ \A i \in 1 .. n + 1 + m : segs[i] = IF i <= n + 1 THEN e[i] ELSE c[i - (n + 1)]
    BY <1>3, <1>7, <2>2 DEF Concats
  <2>4. \A i \in 1 .. n : e[i] = a[i]
    BY <1>3
  <2> HIDE DEF r, n, m
  <2>5. ASSUME NEW i \in 1 .. Len(r) - 1 PROVE r[i] # <<"..">>
    <3>1. CASE i <= n
      <4>1. i \in 1 .. n + m /\ i \in 1 .. n + 1 + m /\ i \in 1 .. n /\ i <= n + 1 /\ i \in 1 .. Len(segs) - 1
        BY <2>3, <3>1
      <4>2. r[i] = a[i] /\ segs[i] = e[i]
        BY <2>3, <3>1, <4>1
      <4> QED BY <2>4, <4>1, <4>2 DEF Inside
    <3>2. CASE ~ (i <= n)
      <4>1. /\ i \in 1 .. n + m /\ i + 1 \in 1 .. n + 1 + m /\ ~ (i + 1 <= n + 1)
            /\ (i + 1) - (n + 1) = i - n /\ i + 1 \in 1 .. Len(segs) - 1
        BY <2>3, <3>2
      <4>2. r[i] = c[i - n] /\ segs[i + 1] = c[i - n]
        BY <2>3, <3>2, <4>1
      <4> QED BY <4>1, <4>2 DEF Inside
    <3> QED BY <3>1, <3>2
  <2> QED BY <2>5 DEF Inside, r
<1> QED
  BY <1>4, <1>6, <1>7, <1>8, <1>9 DEF HereLeads

\* What is nowhere in a url is no segment of its path, but for the last one.
LEMMA NoneInside ==
  ASSUME NEW h \in Text, NEW segs \in Split, NEW d \in Word, <<d>> \in Segment,
         Occurs(h \o Joined(segs), <<"/", d, "/">>) = {}
  PROVE  Inside(segs, d)
<1> SUFFICES ASSUME NEW k \in 1 .. Len(segs) - 1, segs[k] = <<d>> PROVE FALSE
  BY DEF Inside
<1>1. segs \in Seq(Segment) /\ Len(segs) \in Nat /\ k \in 1 .. Len(segs)
  BY DEF Split, Route
<1> DEFINE a == SubSeq(segs, 1, k - 1)
           c == SubSeq(segs, k + 1, Len(segs))
<1>2. /\ a \in Seq(Segment) /\ c \in Seq(Segment) /\ Len(c) = Len(segs) - k
      /\ segs = Append(a, segs[k]) \o c
  BY <1>1, Around
<1> HIDE DEF a, c
<1>3. c # <<>>
  <2>1. Len(c) # 0
    BY <1>1, <1>2
  <2> QED BY <2>1
<1>4. a \in Route /\ c \in Split
  BY <1>2, <1>3 DEF Route, Split
<1>5. Len(h \o Joined(a)) + 1 \in Occurs(h \o Joined(Append(a, <<d>>) \o c), <<"/", d, "/">>)
  BY <1>4, OccursOnce
<1>6. segs = Append(a, <<d>>) \o c
  BY <1>2
<1> QED
  BY <1>5, <1>6

\* A dot is never part of a host.
LEMMA BehindSite ==
  ASSUME NEW base, Based(base), NEW segs \in Split, NEW d \in Dots,
         NEW at \in Occurs(Site(base) \o Joined(segs), <<"/", d, "/">>)
  PROVE  at > Len(Site(base)) /\ Len(Site(base)) = 4
<1> DEFINE h == Site(base)
           u == Joined(segs)
           t == h \o u
<1>1. /\ h \in Seq(Word) /\ Len(h) = 4 /\ h[1] = "http:" /\ h[2] = "/" /\ h[3] = "/"
      /\ h[4] \notin Dots /\ h[4] # "/"
  <2>1. base \in Text /\ Host(base) # NULL /\ base[4] \notin Dots
    BY DEF Based
  <2> QED BY <2>1, HostIs DEF Text
<1>2. u \in Seq(Word)
  BY JoinedIs DEF Text, Split
<1> HIDE DEF h, u
<1>3. Concats(Word, h, u)
  BY <1>1, <1>2, AllConcat
<1>4. /\ t \in Seq(Word) /\ Len(t) \in Nat /\ Len(u) \in Nat /\ Len(t) = 4 + Len(u)
      /\ \A i \in 1 .. 4 + Len(u) : t[i] = IF i <= 4 THEN h[i] ELSE u[i - 4]
  BY <1>1, <1>3 DEF Concats
<1> HIDE DEF t
<1>5. /\ at \in 1 .. Len(t) - 2 /\ t[at] = "/" /\ t[at + 1] = d
  <2> DEFINE w == <<"/", d, "/">>
  <2>1. Len(w) = 3 /\ w[1] = "/" /\ w[2] = d
    OBVIOUS
  <2>2. at \in 1 .. Len(t) - Len(w) + 1 /\ SubSeq(t, at, at + Len(w) - 1) = w
    BY DEF Occurs, t, h, u
  <2>3. at \in 1 .. Len(t) - 2 /\ SubSeq(t, at, at + 2) = w /\ at \in Nat
    BY <1>4, <2>1, <2>2
  <2> HIDE DEF w
  <2>4. SubSeq(t, at, at + 2)[1] = t[at] /\ SubSeq(t, at, at + 2)[2] = t[at + 1]
    BY <1>4, <2>3
  <2> QED BY <2>1, <2>3, <2>4
<1>6. t[1] = h[1] /\ t[2] = h[2] /\ t[3] = h[3] /\ t[4] = h[4]
  BY <1>4
<1>7. at # 1 /\ at # 4
  BY <1>1, <1>5, <1>6
<1>8. at # 2 /\ at # 3
  <2>1. ASSUME at = 2 PROVE FALSE
    <3>1. t[3] = d
      BY <1>5, <2>1
    <3> QED BY <1>1, <1>6, <3>1 DEF Dots
  <2>2. ASSUME at = 3 PROVE FALSE
    <3>1. t[4] = d
      BY <1>5, <2>2
    <3> QED BY <1>1, <1>6, <3>1
  <2> QED BY <2>1, <2>2
<1>9. at \in Nat /\ at > 4
  BY <1>4, <1>5, <1>7, <1>8
<1> QED
  BY <1>1, <1>9 DEF h

\* The last of what was appended to.
LEMMA LastAppended ==
  ASSUME NEW S, NEW w \in Seq(S), NEW x \in S
  PROVE  Append(w, x) # <<>> /\ Last(Append(w, x)) = x
<1>1. Append(w, x) # <<>> /\ Len(Append(w, x)) = Len(w) + 1 /\ Append(w, x)[Len(w) + 1] = x
  BY AppendProperties
<1> QED
  BY <1>1 DEF Last

\* One segment more makes a url longer.
LEMMA LengthIs ==
  ASSUME NEW h \in Text, NEW a \in Route
  PROVE  /\ Len(h \o Joined(a)) \in Nat
         /\ \A x \in Segment : Len(h \o Joined(Append(a, x))) > Len(h \o Joined(a))
<1> DEFINE j == Joined(a)
           s == <<"/">>
<1>1. h \in Seq(Word) /\ j \in Seq(Word) /\ s \in Seq(Word) /\ Len(s) = 1
  BY JoinedIs, SlashIs DEF Text
<1>2. ASSUME NEW x \in Segment PROVE Joined(Append(a, x)) = (j \o s) \o x
  BY <1>2, JoinedIs DEF Joining
<1> HIDE DEF j, s
<1>3. Concats(Word, h, j) /\ Concats(Word, j, s)
  BY <1>1, AllConcat
<1>4. Len(h \o j) = Len(h) + Len(j) /\ Len(h) \in Nat /\ Len(j) \in Nat
  BY <1>3 DEF Concats
<1> DEFINE js == j \o s
<1>5. js \in Seq(Word) /\ Len(js) = Len(j) + 1
  BY <1>1, <1>3 DEF Concats
<1> HIDE DEF js
<1>6. ASSUME NEW x \in Segment PROVE Len(h \o Joined(Append(a, x))) > Len(h \o j)
  <2>1. x \in Seq(Word)
    BY DEF Segment, Text
  <2>2. Concats(Word, js, x)
    BY <1>5, <2>1, AllConcat
  <2> DEFINE g == js \o x
  <2>3. g \in Seq(Word) /\ Len(g) = Len(js) + Len(x) /\ Len(x) \in Nat
    BY <2>2 DEF Concats
  <2>4. Joined(Append(a, x)) = g
    BY <1>2 DEF js
  <2> HIDE DEF g
  <2>5. Concats(Word, h, g)
    BY <1>1, <2>3, AllConcat
  <2>6. Len(h \o g) = Len(h) + Len(g)
    BY <2>5 DEF Concats
  <2> DEFINE n == Len(h \o g)
             m == Len(h \o j)
  <2>7. n = Len(h) + Len(g) /\ m = Len(h) + Len(j) /\ Len(g) = Len(j) + 1 + Len(x)
    BY <1>4, <1>5, <2>3, <2>6
  <2> HIDE DEF n, m
  <2>8. n > m
    BY <1>4, <2>3, <2>7
  <2> QED BY <2>4, <2>8 DEF n, m
<1>7. Len(h \o j) \in Nat
  <2> DEFINE m == Len(h \o j)
  <2>1. m = Len(h) + Len(j)
    BY <1>4
  <2> HIDE DEF m
  <2>2. m \in Nat
    BY <1>4, <2>1
  <2> QED BY <2>2 DEF m
<1> QED
  BY <1>6, <1>7 DEF j

\* What RemoveParent does to the path of a url.
ParentLeads(h, segs, t, at, up) ==
  /\ up # {}
  /\ \E rest \in Split :
       /\ SubSeq(t, 1, Final(up)) \o SubSeq(t, at + 3, Len(t)) = h \o Joined(rest)
       /\ WithoutDots(rest) = WithoutDots(segs)
       /\ Last(rest) = Last(segs)
       /\ LeavesNames(rest)

\* The name before the first ".." goes with it: it is neither a dot nor the host.
LEMMA ParentStep ==
  ASSUME NEW h \in Text, NEW segs \in Split, NEW t, t = h \o Joined(segs),
         NEW at \in Occurs(t, <<"/", "..", "/">>), at > Len(h),
         \A k \in Occurs(t, <<"/", "..", "/">>) : at <= k,
         LeavesNames(segs), NEW up, up = {i \in Slashes(t) : i < at}
  PROVE  ParentLeads(h, segs, t, at, up)
<1> DEFINE d == ".."
           y == <<d>>
<1>1. segs \in Route /\ d \in Word /\ d # "/" /\ y \in Segment
  BY DotsAre DEF Split
<1>2. PICK a \in Route, c \in Split :
        /\ segs = Append(a, y) \o c
        /\ Len(h \o Joined(a)) = at - 1
  <2>1. at \in Occurs(h \o Joined(segs), <<"/", d, "/">>)
    OBVIOUS
  <2>2. segs \in Route /\ d \in Word /\ d # "/" /\ at > Len(h)
    BY <1>1
  <2> HIDE DEF d
  <2>3. OccursAt(h, segs, d, at)
    BY <2>1, <2>2, OccursIs
  <2> QED BY <2>3 DEF OccursAt
<1>3. y = <<d>> /\ y = <<"..">>
  OBVIOUS
<1>4. t = h \o Joined(segs) /\ at \in Occurs(t, <<"/", d, "/">>) /\ \A k \in Occurs(t, <<"/", d, "/">>) : at <= k
  OBVIOUS
<1> HIDE DEF y, d
<1> DEFINE e == Append(a, y)
<1>5. /\ e \in Route /\ c \in Route /\ Len(e) = Len(a) + 1 /\ Len(a) \in Nat
      /\ a \in Seq(Segment) /\ e \in Seq(Segment) /\ c \in Seq(Segment)
      /\ e[Len(a) + 1] = y /\ SubSeq(e, 1, Len(a)) = a
  <2>1. c \in Route /\ a \in Seq(Segment) /\ c \in Seq(Segment)
    BY DEF Route, Split
  <2>2. e \in Seq(Segment) /\ Len(e) = Len(a) + 1 /\ Len(a) \in Nat /\ e[Len(a) + 1] = y
    BY <1>1, <2>1, AppendProperties
  <2>3. e = a \o <<y>> /\ <<y>> \in Seq(Segment)
    BY <1>1, <2>1, AppendIsConcat
  <2>4. SubSeq(a \o <<y>>, 1, Len(a)) = a
    <3>1. Parted(a, <<y>>)
      BY <2>1, <2>3, AllConcat
    <3> QED BY <3>1 DEF Parted
  <2>5. SubSeq(e, 1, Len(a)) = a
    BY <2>3, <2>4
  <2> QED BY <2>1, <2>2, <2>5 DEF Route
<1> HIDE DEF e
<1>6. segs = e \o c
  BY <1>2 DEF e
<1>7. Remaining(a) # <<>> /\ Last(Remaining(a)) # <<".">>
  <2> DEFINE n == Len(a)
  <2>1. Concats(Segment, e, c)
    BY <1>5, AllConcat
  <2>2. /\ n \in Nat /\ Len(c) \in Nat /\ Len(segs) = n + 1 + Len(c) /\ Len(e) = n + 1
        /\ \A i \in 1 .. n + 1 + Len(c) : segs[i] = IF i <= n + 1 THEN e[i] ELSE c[i - (n + 1)]
    BY <1>5, <1>6, <2>1 DEF Concats
  <2>3. e[n + 1] = y /\ SubSeq(e, 1, n) = a
    BY <1>5
  <2> HIDE DEF n
  <2>4. n \in 0 .. Len(e) + Len(c) /\ n <= Len(e) /\ n + 1 \in 1 .. Len(segs) /\ (n + 1) - 1 = n
    BY <2>2
  <2>5. SubSeq(segs, 1, n) = a
    <3>1. SubSeq(e \o c, 1, n) = SubSeq(e, 1, n)
      BY <1>5, <2>4, Beginnings
    <3> QED BY <1>6, <2>3, <3>1
  <2>6. segs[n + 1] = <<"..">>
    <3>1. n + 1 \in 1 .. n + 1 + Len(c)
      BY <2>2
    <3> QED BY <1>3, <2>2, <2>3, <3>1
  <2>7. /\ Remaining(SubSeq(segs, 1, (n + 1) - 1)) # <<>>
        /\ Last(Remaining(SubSeq(segs, 1, (n + 1) - 1))) # <<".">>
    BY <2>4, <2>6 DEF LeavesNames
  <2> QED BY <2>4, <2>5, <2>7
<1>8. a \in Split
  <2>1. Remaining(<<>>) = <<>>
    BY RemainingIs
  <2> QED BY <1>7, <2>1 DEF Split
<1> DEFINE b == Front(a)
           x == Last(a)
<1>9. b \in Route /\ x \in Segment /\ a = Append(b, x)
  BY <1>8, FrontIs
<1> HIDE DEF b, x
<1>10. ASSUME x = y PROVE FALSE
  <2> DEFINE f == <<y>> \o c
  <2>1. <<y>> \in Seq(Segment) /\ e = a \o <<y>> /\ <<y>> \in Route
    BY <1>1, <1>5, AppendIsConcat DEF e, Route
  <2>2. Associates(a, <<y>>, c) /\ Concats(Segment, <<y>>, c)
    BY <1>5, <2>1, AllAssociate, AllConcat
  <2>3. e \o c = a \o f
    BY <2>1, <2>2 DEF Associates
  <2>4. f \in Split
    BY <2>1, LastOf
  <2> HIDE DEF f
  <2>5. segs = Append(b, <<d>>) \o f
    BY <1>3, <1>6, <1>9, <1>10, <2>3
  <2>6. /\ Len(h \o Joined(b)) + 1 \in Occurs(h \o Joined(Append(b, <<d>>) \o f), <<"/", d, "/">>)
        /\ Len(h \o Joined(b)) \in Nat
    BY <1>1, <1>3, <1>9, <2>4, OccursOnce
  <2>7. Len(h \o Joined(b)) + 1 \in Occurs(t, <<"/", d, "/">>)
    BY <1>4, <2>5, <2>6
  <2> DEFINE n == Len(h \o Joined(b))
             m == Len(h \o Joined(a))
  <2>8. n \in Nat /\ m \in Nat /\ m > n /\ m = at - 1 /\ at <= n + 1
    <3>1. n \in Nat /\ m \in Nat
      BY <1>9, LengthIs
    <3>2. m > n
      BY <1>9, LengthIs
    <3> QED BY <1>2, <1>4, <2>7, <3>1, <3>2
  <2>9. at \in Int
    BY DEF Occurs
  <2> HIDE DEF n, m
  <2> QED BY <2>8, <2>9
<1>11. ASSUME x = <<".">> PROVE FALSE
  <2>1. <<".">> # <<"..">>
    <3>1. <<"..">>[1] # <<".">>[1]
      OBVIOUS
    <3> QED BY <3>1
  <2>2. Remaining(b) \in Seq(Segment) /\ Remaining(a) = Staying(Remaining(b), x)
    BY <1>9, RemainingIs DEF Route
  <2> DEFINE w == Remaining(b)
  <2> HIDE DEF w
  <2>3. w \in Seq(Segment) /\ Remaining(a) = Append(w, x)
    BY <1>11, <2>1, <2>2 DEF Staying, w
  <2>4. Last(Append(w, x)) = x
    BY <1>9, <2>3, LastAppended
  <2> QED BY <1>7, <1>11, <2>3, <2>4
<1>12. x \notin {<<".">>, <<"..">>}
  BY <1>3, <1>10, <1>11
<1>13. segs = Append(Append(b, x), y) \o c
  BY <1>6, <1>9 DEF e
<1>14. /\ WithoutDots(segs) = WithoutDots(b \o c)
       /\ LeavesNames(segs) => LeavesNames(b \o c)
       /\ Last(segs) = Last(b \o c) /\ b \o c \in Split
  <2>1. segs = Append(Append(b, x), <<"..">>) \o c
    BY <1>3, <1>13
  <2>2. PairTaken(b, c, segs)
    BY <1>9, <1>12, <2>1, PairGone
  <2> QED BY <2>2 DEF PairTaken
<1>15. up # {} /\ SubSeq(t, 1, Final(up)) \o SubSeq(t, at + 3, Len(t)) = h \o Joined(b \o c)
  <2>1. ParentTaken(h, b, x, d, c)
    BY <1>1, <1>3, <1>9, ParentOut
  <2>2. t = h \o Joined(Append(Append(b, x), <<d>>) \o c)
    BY <1>3, <1>4, <1>13
  <2>3. at = Len(h \o Joined(Append(b, x))) + 1
    <3> DEFINE n == Len(h \o Joined(a))
    <3>1. n \in Nat
      BY LengthIs
    <3>2. n = at - 1 /\ at \in Int
      BY <1>2 DEF Occurs
    <3> HIDE DEF n
    <3>3. at = n + 1
      BY <3>1, <3>2
    <3> QED BY <1>9, <3>3 DEF n
  <2> QED BY <2>1, <2>2, <2>3 DEF ParentTaken
<1> QED
  BY <1>14, <1>15 DEF ParentLeads

-----------------------------------------------------------------------------
(* Links are resolved.                                                     *)

\* The dots a path still has, in each phase of redurceurl.
Unseated(segs, pc) ==
  /\ pc = "parent" => LeavesNames(segs)
  /\ pc # "parent" => Inside(segs, "..")
  /\ pc = "range"  => Inside(segs, ".")

\* The url of a relative path is that of its base's host and of a path that
\* still leads to the same place.
OnPath(text, base, u, pc) ==
  \E segs \in Split :
    /\ u = Site(base) \o Joined(segs)
    /\ WithoutDots(segs) = WithoutDots(Merged(text, base))
    /\ EndsWell(segs)
    /\ Unseated(segs, pc)

\* The url at hand leads to where its link does.
OnTheWay(link, base, u, pc) ==
  IF TakenAsIs(link) THEN pc = "range" /\ u = link.text
  ELSE IF QueryOnly(link.text) THEN u = base \o link.text
  ELSE OnPath(link.text, base, u, pc)

\* A link is at hand.
Reducing == hpc \in {"parent", "here", "range"}

\* The inductive invariant of the links.
LinkInv ==
  /\ page \in Pages /\ passed \in 0 .. Len(page.links)
  /\ hpc \in {"link", "parent", "here", "range", "done"}
  /\ Reducing => passed < Len(page.links)
  /\ Reducing /\ Regular(Link, page.base) => OnTheWay(Link, page.base, url, hpc)

\* Every sequence of strings is a text.
LEMMA StringsAreText ==
  ASSUME NEW s \in Seq(STRING)
  PROVE  s \in Text
<1>1. STRING \subseteq Word
  BY DEF Word
<1> HIDE DEF Word
<1>2. Len(s) \in Nat /\ s = [i \in 1 .. Len(s) |-> s[i]] /\ \A i \in 1 .. Len(s) : s[i] \in STRING
  OBVIOUS
<1>3. \A i \in 1 .. Len(s) : s[i] \in Word
  BY <1>1, <1>2
<1> DEFINE n == Len(s)
<1>4. n \in Nat /\ s = [i \in 1 .. n |-> s[i]] /\ \A i \in 1 .. n : s[i] \in Word
  BY <1>2, <1>3
<1> HIDE DEF n
<1>5. [i \in 1 .. n |-> s[i]] \in Seq(Word)
  BY <1>4
<1> QED
  BY <1>4, <1>5 DEF Text

\* What the assumptions say of the page at hand ...
LEMMA PageIs ==
  ASSUME page \in Pages
  PROVE  /\ page.base \in Text /\ page.links \in Seq(Links) /\ Len(page.links) \in Nat
         /\ page.ranges \in Seq(Ranges)
         /\ \A i \in 1 .. Len(page.base) - 1 : page.base[i] = "/" \/ page.base[i + 1] \in {"/"} \cup Query
<1>1. /\ page.base \in Seq(STRING) /\ page.links \in Seq(Links) /\ page.ranges \in Seq(Ranges)
      /\ \A i \in 1 .. Len(page.base) - 1 : page.base[i] = "/" \/ page.base[i + 1] \in {"/"} \cup Query
  BY HrefAssumption
<1> QED
  BY <1>1, StringsAreText

\* ... and of its link at hand.
LEMMA LinkIs ==
  ASSUME page \in Pages, passed \in 0 .. Len(page.links), passed < Len(page.links)
  PROVE  Link \in Links /\ Link.text \in Text
<1>1. page.links \in Seq(Links) /\ Len(page.links) \in Nat
  BY PageIs
<1>2. passed + 1 \in 1 .. Len(page.links)
  BY <1>1
<1>3. Link \in Links
  BY <1>1, <1>2 DEF Link
<1> QED
  BY <1>3, StringsAreText DEF Links

\* Where the code is right a link is taken as it is exactly if it is absolute.
LEMMA RegularIs ==
  ASSUME NEW link, NEW base, link.text \in Text, Regular(link, base)
  PROVE  TakenAsIs(link) <=> Absolute(link)
<1>1. ASSUME Absolute(link), link.href PROVE 1 \in Occurs(link.text, Scheme)
  <2> DEFINE t == link.text
  <2>1. Len(t) \in Nat /\ Len(t) >= 3 /\ SubSeq(t, 1, 3) = Scheme
    BY <1>1 DEF Absolute, Text
  <2>2. Len(Scheme) = 3
    BY DEF Scheme
  <2> HIDE DEF t
  <2>3. 1 \in 1 .. Len(t) - Len(Scheme) + 1 /\ 1 + Len(Scheme) - 1 = 3
    BY <2>1, <2>2
  <2> QED BY <2>1, <2>3 DEF Occurs, t
<1>2. Absolute(link) => TakenAsIs(link)
  BY <1>1 DEF TakenAsIs, Absolute
<1>3. ~ Absolute(link) => ~ TakenAsIs(link)
  BY DEF Regular, TakenAsIs, Absolute
<1> QED
  BY <1>2, <1>3

\* A reference redurceurl is right about is one to a path of a host.
LEMMA RegularPath ==
  ASSUME page \in Pages, NEW link \in Links, link.text \in Text, Regular(link, page.base),
         ~ TakenAsIs(link), ~ QueryOnly(link.text)
  PROVE  /\ Based(page.base)
         /\ Before(link.text, page.base) \o link.text = Site(page.base) \o Joined(Merged(link.text, page.base))
         /\ Merged(link.text, page.base) \in Split
         /\ EndsWell(Merged(link.text, page.base))
         /\ LeavesNames(Merged(link.text, page.base))
<1> DEFINE base == page.base
           text == link.text
<1>1. /\ text # <<>> /\ Host(base) # NULL /\ base[4] \notin Dots /\ Path(base) # <<>>
      /\ \A i \in 1 .. Len(base) : base[i] \notin Query
      /\ Last(Merged(text, base)) # <<>> => Last(Merged(text, base))[1] \notin Dots
      /\ LeavesNames(Merged(text, base))
  BY RegularIs DEF Regular
<1>2. Based(base)
  BY <1>1, PageIs DEF Based
<1>3. Query \cap {"http:", "/", ".", ".."} = {}
  BY HrefAssumption
<1> HIDE DEF base
<1>4. /\ Before(text, base) \o text = Site(base) \o Joined(Merged(text, base))
      /\ Merged(text, base) \in Split
  <2>1. text \in Text /\ text # <<>> /\ ~ QueryOnly(text)
    BY <1>1
  <2> HIDE DEF text
  <2> QED BY <1>2, <1>3, <2>1, RelativeIs
<1> QED
  BY <1>1, <1>2, <1>4 DEF EndsWell, base

\* A reference with no dot, to a page with no dot, is not touched.
LEMMA NoDots ==
  ASSUME NEW base \in Text, NEW text \in Text, ~ Dotted(base), ~ Dotted(text), NEW d \in Dots
  PROVE  Occurs(base \o text, <<"/", d, "/">>) = {}
<1> SUFFICES ASSUME NEW at \in Occurs(base \o text, <<"/", d, "/">>) PROVE FALSE
  OBVIOUS
<1> DEFINE t == base \o text
<1>1. base \in Seq(Word) /\ text \in Seq(Word)
  BY DEF Text
<1>2. Concats(Word, base, text)
  BY <1>1, AllConcat
<1>3. /\ t \in Seq(Word) /\ Len(t) \in Nat /\ Len(base) \in Nat /\ Len(text) \in Nat
      /\ Len(t) = Len(base) + Len(text)
      /\ \A i \in 1 .. Len(base) + Len(text) : t[i] = IF i <= Len(base) THEN base[i] ELSE text[i - Len(base)]
  BY <1>1, <1>2 DEF Concats
<1> HIDE DEF t
<1>4. /\ at + 1 \in 1 .. Len(t) /\ t[at + 1] = d
  <2> DEFINE w == <<"/", d, "/">>
  <2>1. Len(w) = 3 /\ w[2] = d
    OBVIOUS
  <2>2. at \in 1 .. Len(t) - Len(w) + 1 /\ SubSeq(t, at, at + Len(w) - 1) = w
    BY DEF Occurs, t
  <2>3. at \in 1 .. Len(t) - 2 /\ SubSeq(t, at, at + 2) = w /\ at \in Nat
    BY <1>3, <2>1, <2>2
  <2> HIDE DEF w
  <2>4. SubSeq(t, at, at + 2)[2] = t[at + 1]
    BY <1>3, <2>3
  <2> QED BY <1>3, <2>1, <2>3, <2>4
<1> DEFINE k == at + 1
<1>5. k \in 1 .. Len(t) /\ t[k] \in Dots
  BY <1>4
<1> HIDE DEF k
<1>6. ASSUME k <= Len(base) PROVE FALSE
  <2>1. k \in 1 .. Len(base) /\ t[k] = base[k]
    BY <1>3, <1>5, <1>6
  <2> QED BY <1>5, <2>1 DEF Dotted
<1>7. ASSUME ~ (k <= Len(base)) PROVE FALSE
  <2>1. k - Len(base) \in 1 .. Len(text) /\ t[k] = text[k - Len(base)]
    BY <1>3, <1>5, <1>7
  <2> QED BY <1>5, <2>1 DEF Dotted
<1> QED
  BY <1>6, <1>7

\* The first of the places where something occurs.
LEMMA FirstIs ==
  ASSUME NEW text, NEW word, Len(text) \in Nat, Len(word) \in Nat, Occurs(text, word) # {}
  PROVE  /\ First(Occurs(text, word)) \in Occurs(text, word)
         /\ \A k \in Occurs(text, word) : First(Occurs(text, word)) <= k
<1> DEFINE S == Occurs(text, word)
<1>1. S \in SUBSET Nat
  BY DEF Occurs
<1>2. S # {}
  OBVIOUS
<1> HIDE DEF S
<1>3. \E m \in S : \A n \in S : m <= n
  BY <1>1, <1>2, LeastNatural
<1>4. First(S) \in S /\ \A n \in S : First(S) <= n
  BY <1>3 DEF First
<1> QED
  BY <1>4 DEF S

\* A path with no dot left is what the reference resolves to.
LEMMA NothingLeft ==
  ASSUME NEW segs \in Split, EndsWell(segs), Inside(segs, ".."), Inside(segs, ".")
  PROVE  WithoutDots(segs) = segs
<1>1. segs \in Route /\ Len(segs) \in Nat /\ segs # <<>>
  BY DEF Split, Route
<1>2. ASSUME NEW i \in 1 .. Len(segs) PROVE segs[i] \notin {<<".">>, <<"..">>}
  <2>1. CASE i \in 1 .. Len(segs) - 1
    BY <2>1 DEF Inside
  <2>2. CASE i = Len(segs)
    <3>1. segs[i] = Last(segs)
      BY <2>2 DEF Last
    <3> DEFINE l == Last(segs)
    <3> HIDE DEF l
    <3>2. l # <<>> => l[1] \notin Dots
      BY DEF EndsWell, l
    <3>3. ASSUME l \in {<<".">>, <<"..">>} PROVE FALSE
      <4>1. l # <<>> /\ l[1] \in {".", ".."}
        BY <3>3
      <4> QED BY <3>2, <4>1 DEF Dots
    <3> QED BY <3>1, <3>3 DEF l
  <2> QED BY <1>1, <2>1, <2>2
<1> QED
  BY <1>1, <1>2, Settled

\* LinkInv holds of every page.
LEMMA LinkStarts == Init => LinkInv
<1> SUFFICES ASSUME Init PROVE LinkInv
  OBVIOUS
<1>1. page \in Pages /\ passed = 0 /\ hpc = "link"
  BY DEF Init, HrefInit
<1>2. Len(page.links) \in Nat
  BY <1>1, PageIs
<1> QED
  BY <1>1, <1>2 DEF LinkInv, Reducing

\* What a step on the url at hand keeps.
LEMMA SamePage ==
  ASSUME LinkInv, Reducing, page' = page, passed' = passed, hpc' \in {"parent", "here", "range"},
         Regular(Link, page.base) => OnTheWay(Link, page.base, url', hpc')
  PROVE  LinkInv'
<1>1. Link' = Link /\ Reducing'
  BY DEF Link, Reducing
<1>2. passed' < Len(page'.links)
  BY DEF LinkInv
<1>3. Regular(Link, page.base)' => OnTheWay(Link, page.base, url, hpc)'
  BY <1>1
<1> QED
  BY <1>1, <1>2, <1>3 DEF LinkInv

\* An absolute url is at its end at once.
LEMMA CompleteKeeps ==
  ASSUME LinkInv, Complete
  PROVE  LinkInv'
<1>1. /\ page' = page /\ passed' = passed /\ hpc' = "range" /\ url' = Link.text /\ TakenAsIs(Link)
      /\ passed < Len(page.links)
  BY DEF Complete, More
<1>2. OnTheWay(Link, page.base, url', hpc')
  BY <1>1 DEF OnTheWay
<1>3. Link' = Link
  BY <1>1 DEF Link
<1> QED
  BY <1>1, <1>2, <1>3 DEF LinkInv

\* A relative one begins as the path it is merged to.
LEMMA RelativeKeeps ==
  ASSUME LinkInv, Relative
  PROVE  LinkInv'
<1>1. /\ page' = page /\ passed' = passed /\ hpc' = "parent" /\ ~ TakenAsIs(Link)
      /\ url' = Before(Link.text, page.base) \o Link.text
      /\ passed < Len(page.links)
  BY DEF Relative, More
<1>2. page \in Pages /\ Link \in Links /\ Link.text \in Text
  BY <1>1, LinkIs DEF LinkInv
<1>3. ASSUME Regular(Link, page.base) PROVE OnTheWay(Link, page.base, url', hpc')
  <2>1. CASE QueryOnly(Link.text)
    <3>1. Link.text # <<>> /\ Link.text[1] \in Query /\ Link.text[1] # "/"
      BY <2>1, HrefAssumption DEF QueryOnly
    <3>2. Before(Link.text, page.base) = page.base
      BY <3>1 DEF Before
    <3> QED BY <1>1, <2>1, <3>2 DEF OnTheWay
  <2>2. CASE ~ QueryOnly(Link.text)
    <3> DEFINE m == Merged(Link.text, page.base)
    <3>1. /\ Before(Link.text, page.base) \o Link.text = Site(page.base) \o Joined(m)
          /\ m \in Split /\ EndsWell(m) /\ LeavesNames(m)
      BY <1>1, <1>2, <1>3, <2>2, RegularPath
    <3>2. Unseated(m, hpc')
      BY <1>1, <3>1 DEF Unseated
    <3>3. url' = Site(page.base) \o Joined(m)
      BY <1>1, <3>1
    <3>4. OnPath(Link.text, page.base, url', hpc')
      BY <3>1, <3>2, <3>3 DEF OnPath
    <3> QED BY <1>1, <2>2, <3>4 DEF OnTheWay
  <2> QED BY <2>1, <2>2
<1>4. Link' = Link
  BY <1>1 DEF Link
<1> QED
  BY <1>1, <1>3, <1>4 DEF LinkInv

\* While a url with dots is reduced, its link is a path.
LEMMA OnPathNow ==
  ASSUME LinkInv, Reducing, Regular(Link, page.base), NEW d \in Dots,
         hpc # "range", Occurs(url, <<"/", d, "/">>) # {}
  PROVE  ~ TakenAsIs(Link) /\ ~ QueryOnly(Link.text) /\ OnPath(Link.text, page.base, url, hpc)
<1>1. page \in Pages /\ Link \in Links /\ Link.text \in Text
  BY LinkIs DEF LinkInv
<1>2. OnTheWay(Link, page.base, url, hpc)
  BY DEF LinkInv
<1>3. ~ TakenAsIs(Link)
  BY <1>2 DEF OnTheWay
<1>4. ASSUME QueryOnly(Link.text) PROVE FALSE
  <2>1. ~ Dotted(page.base) /\ ~ Dotted(Link.text)
    BY <1>1, <1>3, <1>4, RegularIs DEF Regular
  <2>2. page.base \in Text
    BY <1>1, PageIs
  <2>3. url = page.base \o Link.text
    BY <1>2, <1>3, <1>4 DEF OnTheWay
  <2> DEFINE base == page.base
             text == Link.text
  <2>4. base \in Text /\ text \in Text /\ ~ Dotted(base) /\ ~ Dotted(text) /\ url = base \o text
    BY <1>1, <2>1, <2>2, <2>3
  <2> HIDE DEF base, text
  <2>5. Occurs(base \o text, <<"/", d, "/">>) = {}
    BY <2>4, NoDots
  <2> QED BY <2>4, <2>5
<1> QED
  BY <1>2, <1>3, <1>4 DEF OnTheWay

\* RemoveParent stays on the way ...
LEMMA ParentKeeps ==
  ASSUME LinkInv, RemoveParent
  PROVE  LinkInv'
<1> DEFINE at == First(Occurs(url, <<"/", "..", "/">>))
           up == {i \in Slashes(url) : i < at}
<1>1. /\ page' = page /\ passed' = passed /\ hpc' = hpc /\ hpc = "parent" /\ Reducing
      /\ Occurs(url, <<"/", "..", "/">>) # {}
      /\ url' = SubSeq(url, 1, Final(up)) \o SubSeq(url, at + 3, Len(url))
  BY DEF RemoveParent, Reducing
<1>2. ASSUME Regular(Link, page.base) PROVE OnTheWay(Link, page.base, url', hpc')
  <2>1. /\ page \in Pages /\ Link \in Links /\ Link.text \in Text
    BY <1>1, LinkIs DEF LinkInv
  <2>2. ~ TakenAsIs(Link) /\ ~ QueryOnly(Link.text) /\ OnPath(Link.text, page.base, url, hpc)
    <3> DEFINE d == ".."
    <3>1. d \in Dots /\ Occurs(url, <<"/", d, "/">>) # {} /\ hpc # "range"
      BY <1>1 DEF Dots
    <3> HIDE DEF d
    <3> QED BY <1>1, <1>2, <3>1, OnPathNow
  <2>3. Based(page.base)
    BY <1>2, <2>1, <2>2, RegularPath
  <2>4. PICK segs \in Split :
          /\ url = Site(page.base) \o Joined(segs)
          /\ WithoutDots(segs) = WithoutDots(Merged(Link.text, page.base))
          /\ EndsWell(segs) /\ Unseated(segs, hpc)
    BY <2>2 DEF OnPath
  <2> DEFINE h == Site(page.base)
  <2>5. h \in Text /\ url = h \o Joined(segs) /\ LeavesNames(segs)
    <3>1. page.base \in Text /\ Host(page.base) # NULL
      BY <2>3 DEF Based
    <3> QED BY <1>1, <2>4, <3>1, HostIs DEF Unseated
  <2>6. Len(url) \in Nat
    <3> HIDE DEF h
    <3>1. segs \in Route
      BY DEF Split
    <3>2. Len(h \o Joined(segs)) \in Nat
      BY <2>5, <3>1, LengthIs
    <3> QED BY <2>5, <3>2
  <2>7. /\ at \in Occurs(url, <<"/", "..", "/">>)
        /\ \A k \in Occurs(url, <<"/", "..", "/">>) : at <= k
    <3> DEFINE w == <<"/", "..", "/">>
    <3>1. Len(w) \in Nat /\ Occurs(url, w) # {}
      BY <1>1
    <3> HIDE DEF w
    <3>2. First(Occurs(url, w)) \in Occurs(url, w) /\ \A k \in Occurs(url, w) : First(Occurs(url, w)) <= k
      BY <2>6, <3>1, FirstIs
    <3> QED BY <3>2 DEF w
  <2> HIDE DEF at
  <2>8. at > Len(h)
    <3> DEFINE d == ".."
    <3>1. d \in Dots /\ at \in Occurs(Site(page.base) \o Joined(segs), <<"/", d, "/">>)
      BY <2>4, <2>7 DEF Dots
    <3> HIDE DEF d
    <3>2. at > Len(Site(page.base))
      BY <2>3, <3>1, BehindSite
    <3> QED BY <3>2 DEF h
  <2>9. \E rest \in Split :
          /\ SubSeq(url, 1, Final(up)) \o SubSeq(url, at + 3, Len(url)) = h \o Joined(rest)
          /\ WithoutDots(rest) = WithoutDots(segs)
          /\ Last(rest) = Last(segs)
          /\ LeavesNames(rest)
    <3> DEFINE above == up
    <3>1. above = {i \in Slashes(url) : i < at}
      BY DEF up, at
    <3> HIDE DEF h, above
    <3>2. ParentLeads(h, segs, url, at, above)
      BY <2>5, <2>7, <2>8, <3>1, ParentStep
    <3> QED BY <3>2 DEF above, ParentLeads
  <2>10. PICK rest \in Split :
           /\ url' = h \o Joined(rest)
           /\ WithoutDots(rest) = WithoutDots(segs)
           /\ Last(rest) = Last(segs)
           /\ LeavesNames(rest)
    BY <1>1, <2>9 DEF at
  <2>11. EndsWell(rest)
    BY <2>4, <2>10 DEF EndsWell
  <2>12. Unseated(rest, hpc')
    BY <1>1, <2>10 DEF Unseated
  <2>13. OnPath(Link.text, page.base, url', hpc')
    BY <2>4, <2>10, <2>11, <2>12 DEF OnPath
  <2> QED BY <2>2, <2>13 DEF OnTheWay
<1> QED
  BY <1>1, <1>2, SamePage

\* ... and so does RemoveHere.
LEMMA HereKeeps ==
  ASSUME LinkInv, RemoveHere
  PROVE  LinkInv'
<1> DEFINE at == First(Occurs(url, <<"/", ".", "/">>))
<1>1. /\ page' = page /\ passed' = passed /\ hpc' = hpc /\ hpc = "here" /\ Reducing
      /\ Occurs(url, <<"/", ".", "/">>) # {}
      /\ url' = SubSeq(url, 1, at - 1) \o SubSeq(url, at + 2, Len(url))
  BY DEF RemoveHere, Reducing
<1>2. ASSUME Regular(Link, page.base) PROVE OnTheWay(Link, page.base, url', hpc')
  <2>1. /\ page \in Pages /\ Link \in Links /\ Link.text \in Text
    BY <1>1, LinkIs DEF LinkInv
  <2>2. ~ TakenAsIs(Link) /\ ~ QueryOnly(Link.text) /\ OnPath(Link.text, page.base, url, hpc)
    <3> DEFINE d == "."
    <3>1. d \in Dots /\ Occurs(url, <<"/", d, "/">>) # {} /\ hpc # "range"
      BY <1>1 DEF Dots
    <3> HIDE DEF d
    <3> QED BY <1>1, <1>2, <3>1, OnPathNow
  <2>3. Based(page.base)
    BY <1>2, <2>1, <2>2, RegularPath
  <2>4. PICK segs \in Split :
          /\ url = Site(page.base) \o Joined(segs)
          /\ WithoutDots(segs) = WithoutDots(Merged(Link.text, page.base))
          /\ EndsWell(segs) /\ Unseated(segs, hpc)
    BY <2>2 DEF OnPath
  <2> DEFINE h == Site(page.base)
  <2>5. h \in Text /\ url = h \o Joined(segs) /\ Inside(segs, "..")
    <3>1. page.base \in Text /\ Host(page.base) # NULL
      BY <2>3 DEF Based
    <3> QED BY <1>1, <2>4, <3>1, HostIs DEF Unseated
  <2>6. Len(url) \in Nat
    <3> HIDE DEF h
    <3>1. segs \in Route
      BY DEF Split
    <3>2. Len(h \o Joined(segs)) \in Nat
      BY <2>5, <3>1, LengthIs
    <3> QED BY <2>5, <3>2
  <2>7. at \in Occurs(url, <<"/", ".", "/">>)
    <3> DEFINE w == <<"/", ".", "/">>
    <3>1. Len(w) \in Nat /\ Occurs(url, w) # {}
      BY <1>1
    <3> HIDE DEF w
    <3>2. First(Occurs(url, w)) \in Occurs(url, w)
      BY <2>6, <3>1, FirstIs
    <3> QED BY <3>2 DEF w
  <2> HIDE DEF at
  <2>8. at > Len(h)
    <3> DEFINE d == "."
    <3>1. d \in Dots /\ at \in Occurs(Site(page.base) \o Joined(segs), <<"/", d, "/">>)
      BY <2>4, <2>7 DEF Dots
    <3> HIDE DEF d
    <3>2. at > Len(Site(page.base))
      BY <2>3, <3>1, BehindSite
    <3> QED BY <3>2 DEF h
  <2>9. HereLeads(h, segs, url, at)
    <3> HIDE DEF h
    <3> QED BY <2>5, <2>7, <2>8, HereStep
  <2>10. PICK rest \in Split :
           /\ url' = h \o Joined(rest)
           /\ WithoutDots(rest) = WithoutDots(segs)
           /\ Last(rest) = Last(segs)
           /\ Inside(rest, "..")
    BY <1>1, <2>9 DEF at, HereLeads
  <2>11. EndsWell(rest)
    BY <2>4, <2>10 DEF EndsWell
  <2>12. Unseated(rest, hpc')
    BY <1>1, <2>10 DEF Unseated
  <2>13. OnPath(Link.text, page.base, url', hpc')
    BY <2>4, <2>10, <2>11, <2>12 DEF OnPath
  <2> QED BY <2>2, <2>13 DEF OnTheWay
<1> QED
  BY <1>1, <1>2, SamePage

\* A search that finds nothing more takes the url one step further.
LEMMA GoneKeeps ==
  ASSUME LinkInv, ParentsGone \/ HereGone
  PROVE  LinkInv'
<1>1. PICK d \in Dots :
        /\ page' = page /\ passed' = passed /\ url' = url /\ Reducing
        /\ Occurs(url, <<"/", d, "/">>) = {}
        /\ \/ d = ".." /\ hpc = "parent" /\ hpc' = "here"
           \/ d = "." /\ hpc = "here" /\ hpc' = "range"
  BY DEF ParentsGone, HereGone, Reducing, Dots
<1>2. ASSUME Regular(Link, page.base) PROVE OnTheWay(Link, page.base, url', hpc')
  <2>1. OnTheWay(Link, page.base, url, hpc) /\ ~ TakenAsIs(Link)
    BY <1>1, <1>2 DEF LinkInv, OnTheWay
  <2>2. CASE QueryOnly(Link.text)
    BY <1>1, <2>1, <2>2 DEF OnTheWay
  <2>3. CASE ~ QueryOnly(Link.text)
    <3>1. page \in Pages /\ Link \in Links /\ Link.text \in Text
      BY <1>1, LinkIs DEF LinkInv
    <3>2. Based(page.base)
      BY <1>2, <2>1, <2>3, <3>1, RegularPath
    <3>3. PICK segs \in Split :
            /\ url = Site(page.base) \o Joined(segs)
            /\ WithoutDots(segs) = WithoutDots(Merged(Link.text, page.base))
            /\ EndsWell(segs) /\ Unseated(segs, hpc)
      BY <2>1, <2>3 DEF OnTheWay, OnPath
    <3>4. Inside(segs, d)
      <4>1. Site(page.base) \in Text
        <5>1. page.base \in Text /\ Host(page.base) # NULL
          BY <3>2 DEF Based
        <5> QED BY <5>1, HostIs
      <4>2. d \in Word /\ <<d>> \in Segment
        BY DotsAre DEF Dots
      <4>3. Occurs(Site(page.base) \o Joined(segs), <<"/", d, "/">>) = {}
        BY <1>1, <3>3
      <4> DEFINE h == Site(page.base)
      <4> HIDE DEF h
      <4>4. h \in Text /\ Occurs(h \o Joined(segs), <<"/", d, "/">>) = {}
        BY <4>1, <4>3 DEF h
      <4> QED BY <4>2, <4>4, NoneInside
    <3>5. Unseated(segs, hpc')
      BY <1>1, <3>3, <3>4 DEF Unseated
    <3>6. OnPath(Link.text, page.base, url', hpc')
      BY <1>1, <3>3, <3>5 DEF OnPath
    <3> QED BY <2>1, <2>3, <3>6 DEF OnTheWay
  <2> QED BY <2>2, <2>3
<1> QED
  BY <1>1, <1>2, SamePage

\* A link that is done with is followed by the next one.
LEMMA InsertKeeps ==
  ASSUME LinkInv, Insert
  PROVE  LinkInv'
<1>1. /\ page' = page /\ passed' = passed + 1 /\ hpc' = "link" /\ passed < Len(page.links)
      /\ page \in Pages /\ passed \in 0 .. Len(page.links)
  BY DEF Insert, LinkInv, Reducing
<1>2. Len(page.links) \in Nat
  BY <1>1, PageIs
<1>3. passed' \in 0 .. Len(page.links)
  BY <1>1, <1>2
<1> QED
  BY <1>1, <1>3 DEF LinkInv, Reducing

\* What changes no variable of the links keeps LinkInv.
LEMMA LinkStays ==
  ASSUME LinkInv, UNCHANGED hvars
  PROVE  LinkInv'
BY DEF hvars, LinkInv, Reducing, Link

\* Every step keeps LinkInv ...
LEMMA LinkSteps == LinkInv /\ [Next]_vars => LinkInv'
<1> SUFFICES ASSUME LinkInv, [Next]_vars PROVE LinkInv'
  OBVIOUS
<1>1. CASE Complete
  BY <1>1, CompleteKeeps
<1>2. CASE Relative
  BY <1>2, RelativeKeeps
<1>3. CASE GetHostError \/ NoMoreLinks
  BY <1>3 DEF GetHostError, NoMoreLinks, LinkInv, Reducing
<1>4. CASE RemoveParent
  BY <1>4, ParentKeeps
<1>5. CASE ParentsGone \/ HereGone
  BY <1>5, GoneKeeps
<1>6. CASE RemoveHere
  BY <1>6, HereKeeps
<1>7. CASE Insert
  BY <1>7, InsertKeeps
<1>8. CASE UNCHANGED hvars
  BY <1>8, LinkStays
<1>9. CASE Spin
  BY <1>8, <1>9 DEF Spin
<1>10. HrefNext \/ UNCHANGED hvars
  BY DEF Next, vars
<1> QED
  BY <1>1, <1>2, <1>3, <1>4, <1>5, <1>6, <1>7, <1>8, <1>9, <1>10 DEF HrefNext

\* ... which at the end of a url says that it is resolved.
LEMMA LinkEnds == LinkInv => LinksResolved
<1> SUFFICES ASSUME LinkInv, hpc = "range", Regular(Link, page.base)
             PROVE  url = Resolved(Link, page.base)
  BY DEF LinksResolved
<1>1. OnTheWay(Link, page.base, url, hpc)
  BY DEF LinkInv, Reducing
<1>2. TakenAsIs(Link) <=> Absolute(Link)
  <2>1. Link.text \in Text
    BY LinkIs DEF LinkInv, Reducing
  <2> QED BY <2>1, RegularIs
<1>3. CASE TakenAsIs(Link) \/ QueryOnly(Link.text)
  BY <1>1, <1>3, <1>2 DEF OnTheWay, Resolved
<1>4. CASE ~ TakenAsIs(Link) /\ ~ QueryOnly(Link.text)
  <2>1. PICK segs \in Split :
          /\ url = Site(page.base) \o Joined(segs)
          /\ WithoutDots(segs) = WithoutDots(Merged(Link.text, page.base))
          /\ EndsWell(segs) /\ Unseated(segs, hpc)
    BY <1>1, <1>4 DEF OnTheWay, OnPath
  <2>2. WithoutDots(segs) = segs
    BY <2>1, NothingLeft DEF Unseated
  <2>3. Resolved(Link, page.base) = Site(page.base) \o Joined(WithoutDots(Merged(Link.text, page.base)))
    BY <1>4, <1>2 DEF Resolved, Site
  <2> QED BY <2>1, <2>2, <2>3
<1> QED
  BY <1>3, <1>4

\* LinksResolved: whatever the pages, a link that is Regular is resolved as RFC
\* 3986 says when the ranges see it (sf_pcre.c:555-578, 611-639).
THEOREM LinksAreResolved == Spec => []LinksResolved
<1>1. Init => LinkInv
  BY LinkStarts
<1>2. LinkInv /\ [Next]_vars => LinkInv'
  BY LinkSteps
<1>3. LinkInv => LinksResolved
  BY LinkEnds
<1> QED
  BY <1>1, <1>2, <1>3, PTL DEF Spec

-----------------------------------------------------------------------------
(* Links are stored.                                                       *)

\* What the ranges let through, and what they make of it.
Offers(base, ranges) == {Rewritten(Resolved(link, base), ranges) : link \in Links}

\* The step of WantedOf.
Wanting(urls, link, base, ranges) ==
  IF Admitted(Resolved(link, base), ranges)
  THEN Append(urls, Rewritten(Resolved(link, base), ranges)) ELSE urls

\* The step of WantedOf stays within its type.
LEMMA WantingType ==
  ASSUME NEW base, NEW ranges
  PROVE  \A v \in Seq(Offers(base, ranges)) : \A a \in Links :
           Wanting(v, a, base, ranges) \in Seq(Offers(base, ranges))
<1> SUFFICES ASSUME NEW v \in Seq(Offers(base, ranges)), NEW a \in Links
             PROVE  Wanting(v, a, base, ranges) \in Seq(Offers(base, ranges))
  OBVIOUS
<1> DEFINE x == Rewritten(Resolved(a, base), ranges)
<1>1. x \in Offers(base, ranges)
  BY DEF Offers
<1> HIDE DEF x
<1>2. Append(v, x) \in Seq(Offers(base, ranges))
  BY <1>1
<1> QED
  BY <1>2 DEF Wanting, x

\* WantedOf, link by link.
LEMMA WantedIs ==
  ASSUME NEW base, NEW ranges
  PROVE
  /\ WantedOf(<<>>, base, ranges) = <<>>
  /\ \A s \in Seq(Links) : WantedOf(s, base, ranges) \in Seq(Offers(base, ranges))
  /\ \A s \in Seq(Links) : \A a \in Links : WantedOf(Append(s, a), base, ranges) = Wanting(WantedOf(s, base, ranges), a, base, ranges)
<1> DEFINE Stored == Seq(Offers(base, ranges))
<1>0. <<>> \in Stored
  OBVIOUS
<1>00. \A v \in Stored : \A a \in Links : Wanting(v, a, base, ranges) \in Stored
  BY WantingType
<1> HIDE DEF Stored
<1> DEFINE Op == [v \in Stored |-> [a \in Links |-> Wanting(v, a, base, ranges)]]
           F  == [s \in Seq(Links) |-> WantedOf(s, base, ranges)]
<1>1. <<>> \in Stored
  BY <1>0
<1>2. Op \in Curried(Stored, Links, Stored)
  BY <1>00 DEF Curried
<1>3. \A v \in Stored : \A a \in Links : Op[v][a] = Wanting(v, a, base, ranges)
  OBVIOUS
<1> HIDE DEF Op
<1>4. ASSUME NEW s \in Seq(Links)
      PROVE  \E f : SeqObeys(f, s, Stored, <<>>, Op) /\ WantedOf(s, base, ranges) = f[DOMAIN s]
  <2> DEFINE P(f) == f = [S \in SUBSET (DOMAIN s) |->
                            IF S = {} THEN <<>> ELSE Wanting(f[S \ {Most(S)}], s[Most(S)], base, ranges)]
             f0 == CHOOSE f : P(f)
  <2>1. WantedOf(s, base, ranges) = f0[DOMAIN s]
    BY DEF WantedOf, FoldLeft, MapThenFoldSet, Max, Most, Wanting
  <2>2. PICK it : IsSeqFold(it, s, Stored, <<>>, Op)
    BY <1>1, <1>2, SeqFoldExists
  <2>3. /\ DOMAIN s = 1 .. Len(s)
        /\ \A S \in SUBSET (DOMAIN s) : S # {} => Most(S) \in DOMAIN s /\ s[Most(S)] \in Links
    BY MostIs
  <2>4. P(it)
    <3>1. /\ it \in [SUBSET (DOMAIN s) -> Stored] /\ it[{}] = <<>>
          /\ \A S \in SUBSET (DOMAIN s) : S # {} => it[S] = Op[it[S \ {Most(S)}]][s[Most(S)]]
      BY <2>2 DEF IsSeqFold
    <3>2. ASSUME NEW S \in SUBSET (DOMAIN s), S # {}
          PROVE  it[S] = Wanting(it[S \ {Most(S)}], s[Most(S)], base, ranges)
      <4>1. it[S \ {Most(S)}] \in Stored
        BY <3>1
      <4> QED BY <1>3, <2>3, <3>1, <3>2, <4>1
    <3> QED BY <3>1, <3>2
  <2>5. P(f0)
    BY <2>4
  <2> HIDE DEF f0
  <2>6. SeqObeys(f0, s, Stored, <<>>, Op)
    <3>1. f0[{}] = <<>>
      BY <2>5
    <3>2. ASSUME NEW S \in SUBSET (DOMAIN s), S # {}, f0[S \ {Most(S)}] \in Stored
          PROVE  f0[S] = Op[f0[S \ {Most(S)}]][s[Most(S)]]
      BY <1>3, <2>3, <2>5, <3>2
    <3> QED BY <3>1, <3>2 DEF SeqObeys
  <2> QED BY <2>1, <2>6
<1>5. \A s \in Seq(Links) : \E f : SeqObeys(f, s, Stored, <<>>, Op) /\ F[s] = f[DOMAIN s]
  BY <1>4
<1>6. \A s \in Seq(Links) : F[s] = WantedOf(s, base, ranges)
  OBVIOUS
<1> HIDE DEF F
<1>7. /\ \A s \in Seq(Links) : F[s] \in Stored
      /\ F[<<>>] = <<>>
      /\ \A s \in Seq(Links) : \A a \in Links : F[Append(s, a)] = Op[F[s]][a]
  BY <1>1, <1>2, <1>5, FoldIs
<1>8. <<>> \in Seq(Links) /\ \A s \in Seq(Links) : \A a \in Links : Append(s, a) \in Seq(Links)
  OBVIOUS
<1> QED
  BY <1>3, <1>6, <1>7, <1>8 DEF Stored

\* The word a pattern captures is the first it finds.
LEMMA FoundIs ==
  ASSUME NEW words, NEW text
  PROVE  Match(words, text) => Found(words, text) = Min({i \in 1 .. Len(text) : text[i] \in words})
BY DEF Match, Found, SelectInSeq

\* What the ranges make of a url.
LEMMA RewriteIs ==
  ASSUME NEW text \in Text, text # NULL, NEW ranges \in Seq(Ranges)
  PROVE  /\ Admitted(text, ranges) => /\ RewriteRange(text, ranges) = Rewritten(text, ranges)
                                      /\ RewriteRange(text, ranges) # NULL
         /\ ~ Admitted(text, ranges) => RewriteRange(text, ranges) = NULL
<1> DEFINE white == {i \in 1 .. Len(ranges) : Match(ranges[i].white, text)}
           r == ranges[First(white)]
<1>1. Len(text) \in Nat /\ DOMAIN text = 1 .. Len(text) /\ Len(ranges) \in Nat /\ DOMAIN ranges = 1 .. Len(ranges)
  BY DEF Text
<1>2. \A words : Match(words, text) <=> ToSet(text) \cap words # {}
  BY <1>1 DEF Match, ToSet
<1>3. CASE ranges = <<>>
  BY <1>3 DEF Admitted, RewriteRange, Rewritten
<1>4. CASE ranges # <<>> /\ \E i \in 1 .. Len(ranges) : Match(ranges[i].black, text)
  <2>1. PICK i \in 1 .. Len(ranges) : ToSet(text) \cap ranges[i].black # {}
    BY <1>2, <1>4
  <2>2. ToSet(text) \cap UNION {ranges[j].black : j \in DOMAIN ranges} # {}
    BY <1>1, <2>1
  <2>3. ~ Admitted(text, ranges)
    BY <1>4, <2>2 DEF Admitted
  <2>4. RewriteRange(text, ranges) = NULL
    BY <1>4 DEF RewriteRange
  <2> QED BY <2>3, <2>4
<1>5. CASE ranges # <<>> /\ white = {}
  <2>1. \A i \in 1 .. Len(ranges) : ToSet(text) \cap ranges[i].white = {}
    BY <1>2, <1>5
  <2>2. ToSet(text) \cap UNION {ranges[j].white : j \in DOMAIN ranges} = {}
    BY <1>1, <2>1
  <2>3. ~ Admitted(text, ranges)
    BY <1>5, <2>2 DEF Admitted
  <2>4. RewriteRange(text, ranges) = NULL
    BY <1>5 DEF RewriteRange
  <2> QED BY <2>3, <2>4
<1>6. CASE ranges # <<>> /\ white # {} /\ ~ \E i \in 1 .. Len(ranges) : Match(ranges[i].black, text)
  <2>1. RewriteRange(text, ranges) = RewriteExp(r.rewrite, r.white, text)
    BY <1>6 DEF RewriteRange
  <2>2. First(white) = Min({i \in DOMAIN ranges : ToSet(text) \cap ranges[i].white # {}})
    <3>1. white = {i \in DOMAIN ranges : ToSet(text) \cap ranges[i].white # {}}
      BY <1>1, <1>2
    <3> HIDE DEF white
    <3> QED BY <3>1 DEF First, Min
  <2>3. First(white) \in white
    <3>1. white \in SUBSET Nat /\ white # {}
      BY <1>1, <1>6
    <3> HIDE DEF white
    <3>2. \E m \in white : \A n \in white : m <= n
      BY <3>1, LeastNatural
    <3> QED BY <3>2 DEF First
  <2> DEFINE f == First(white)
  <2>4. f \in 1 .. Len(ranges) /\ Match(ranges[f].white, text)
    BY <2>3
  <2>5. r = ranges[f] /\ f = Min({i \in DOMAIN ranges : ToSet(text) \cap ranges[i].white # {}})
    BY <2>2
  <2> HIDE DEF f, white, r
  <2>6. r \in Ranges
    BY <2>4, <2>5
  <2>7. r.rewrite \in Seq(STRING)
    BY <2>6 DEF Ranges
  <2>8. Found(r.white, text) = Min({i \in DOMAIN text : text[i] \in r.white})
    BY <1>1, <2>4, <2>5, FoundIs
  <2> DEFINE word == text[Found(r.white, text)]
             exp == r.rewrite
  <2>10. Admitted(text, ranges)
    <3>1. ToSet(text) \cap ranges[f].white # {}
      BY <1>2, <2>4
    <3>2. ToSet(text) \cap UNION {ranges[i].white : i \in DOMAIN ranges} # {}
      BY <1>1, <2>4, <3>1
    <3>3. \A i \in 1 .. Len(ranges) : ToSet(text) \cap ranges[i].black = {}
      BY <1>2, <1>6
    <3>4. ToSet(text) \cap UNION {ranges[i].black : i \in DOMAIN ranges} = {}
      BY <1>1, <3>3
    <3> QED BY <3>2, <3>4 DEF Admitted
  <2>9. CASE exp = NULL
    <3>1. Rewritten(text, ranges) = text
      BY <2>5, <2>9 DEF Rewritten
    <3>2. RewriteExp(exp, r.white, text) = text
      BY <2>9 DEF RewriteExp
    <3> QED BY <1>6, <2>1, <3>1, <3>2, <2>10 DEF white
  <2>11. CASE exp # NULL
    <3>1. Rewritten(text, ranges) = ReplaceAll(exp, "(#word)", word)
      BY <1>6, <2>5, <2>8, <2>11 DEF Rewritten
    <3>2. RewriteExp(exp, r.white, text) = [i \in 1 .. Len(exp) |-> IF exp[i] = "(#word)" THEN word ELSE exp[i]]
      BY <2>11 DEF RewriteExp
    <3>3. ReplaceAll(exp, "(#word)", word) = [i \in 1 .. Len(exp) |-> IF exp[i] = "(#word)" THEN word ELSE exp[i]]
      BY DEF ReplaceAll
    <3>4. [i \in 1 .. Len(exp) |-> IF exp[i] = "(#word)" THEN word ELSE exp[i]] # NULL
      <4> HIDE DEF word
      <4>1. exp \in Seq(STRING) /\ exp # <<>>
        BY <2>7, <2>11 DEF NULL
      <4> HIDE DEF exp
      <4> DEFINE g == [i \in 1 .. Len(exp) |-> IF exp[i] = "(#word)" THEN word ELSE exp[i]]
      <4>2. 1 \in DOMAIN g
        BY <4>1
      <4> HIDE DEF g
      <4>3. g # <<>>
        BY <4>2
      <4> QED BY <4>3 DEF g, NULL
    <3> QED BY <2>1, <2>10, <3>1, <3>2, <3>3, <3>4
  <2> QED BY <2>9, <2>11
<1> QED
  BY <1>3, <1>4, <1>5, <1>6

\* What a regular reference resolves to is a url.
LEMMA ResolvedIs ==
  ASSUME page \in Pages, NEW link \in Links, ~ link.href => link.text # NULL, Regular(link, page.base)
  PROVE  Resolved(link, page.base) \in Text /\ Resolved(link, page.base) # NULL
<1>1. link.text \in Text /\ page.base \in Text /\ page.base # NULL
  BY PageIs, StringsAreText, HrefAssumption DEF Links
<1>2. TakenAsIs(link) <=> Absolute(link)
  BY <1>1, RegularIs
<1>3. CASE TakenAsIs(link)
  <2>1. ASSUME link.text = NULL PROVE FALSE
    <3>1. Occurs(link.text, Scheme) # {}
      BY <1>3, <2>1 DEF TakenAsIs
    <3>2. Len(Scheme) = 3 /\ Len(link.text) = 0
      BY <2>1 DEF Scheme, NULL
    <3> QED BY <3>1, <3>2 DEF Occurs
  <2> QED BY <1>1, <1>3, <1>2, <2>1 DEF Resolved
<1>4. CASE ~ TakenAsIs(link) /\ QueryOnly(link.text)
  <2> DEFINE a == page.base
             b == link.text
  <2>1. a \in Seq(Word) /\ b \in Seq(Word) /\ a # <<>>
    BY <1>1 DEF Text, NULL
  <2>2. Resolved(link, page.base) = a \o b
    BY <1>4, <1>2 DEF Resolved
  <2> HIDE DEF a, b
  <2>3. a \o b \in Seq(Word) /\ a \o b # <<>>
    BY <2>1, ConcatEqualIffEmpty, ConcatProperties
  <2> QED BY <2>2, <2>3 DEF Text, NULL
<1>5. CASE ~ TakenAsIs(link) /\ ~ QueryOnly(link.text)
  <2>1. Based(page.base) /\ Merged(link.text, page.base) \in Split
    BY <1>1, <1>5, RegularPath
  <2> DEFINE h == Site(page.base)
             j == Joined(WithoutDots(Merged(link.text, page.base)))
  <2>2. h \in Seq(Word) /\ Len(h) = 4
    BY <2>1, HostIs DEF Based, Text
  <2>3. j \in Seq(Word)
    BY <2>1, WithoutDotsIs, JoinedIs DEF Split, Text
  <2>4. Resolved(link, page.base) = h \o j
    BY <1>5, <1>2 DEF Resolved, Site
  <2> HIDE DEF h, j
  <2>5. h # <<>>
    <3>1. 1 \in DOMAIN h
      BY <2>2
    <3>2. DOMAIN <<>> = {}
      OBVIOUS
    <3> QED BY <3>1, <3>2
  <2>6. h \o j \in Seq(Word) /\ h \o j # <<>>
    BY <2>2, <2>3, <2>5, ConcatEqualIffEmpty, ConcatProperties
  <2> QED BY <2>4, <2>6 DEF Text, NULL
<1> QED
  BY <1>3, <1>4, <1>5

\* A regular reference is put behind something.
LEMMA BeforeIs ==
  ASSUME page \in Pages, NEW link \in Links, ~ TakenAsIs(link), Regular(link, page.base)
  PROVE  Before(link.text, page.base) # NULL
<1>1. link.text \in Text /\ page.base # NULL
  BY StringsAreText, HrefAssumption DEF Links
<1>2. CASE QueryOnly(link.text)
  <2>1. Before(link.text, page.base) = page.base
    BY <1>2, HrefAssumption DEF QueryOnly, Before
  <2> QED BY <1>1, <2>1
<1>3. CASE ~ QueryOnly(link.text)
  <2>1. Based(page.base)
    BY <1>1, <1>3, RegularPath
  <2>2. CASE FromRoot(link.text)
    BY <2>1, <2>2 DEF Based, Before, FromRoot
  <2>3. CASE ~ FromRoot(link.text)
    <3>1. Before(link.text, page.base) = HostPath(page.base)
      BY <1>3, <2>3 DEF Before, FromRoot, QueryOnly
    <3>2. /\ HostPath(page.base) = (Site(page.base) \o Joined(Front(Path(page.base)))) \o <<"/">>
          /\ Front(Path(page.base)) \in Route
      BY <2>1, HostPathIs
    <3> DEFINE u == Site(page.base) \o Joined(Front(Path(page.base)))
               s == <<"/">>
    <3>3. u \in Seq(Word)
      <4>1. Site(page.base) \in Seq(Word)
        BY <2>1, HostIs DEF Based, Text
      <4>2. Joined(Front(Path(page.base))) \in Seq(Word)
        BY <3>2, JoinedIs DEF Text
      <4> QED BY <4>1, <4>2, ConcatProperties
    <3>4. s \in Seq(Word) /\ s # <<>>
      BY SlashIs DEF Text
    <3>5. HostPath(page.base) = u \o s
      BY <3>2
    <3> HIDE DEF u, s
    <3>6. u \o s # <<>>
      BY <3>3, <3>4, ConcatEqualIffEmpty
    <3> QED BY <3>1, <3>5, <3>6 DEF NULL
  <2> QED BY <2>2, <2>3
<1> QED
  BY <1>2, <1>3

\* Are the first n links ones redurceurl is right about?
AllRegular(n) == \A i \in 1 .. n : Regular(page.links[i], page.base)

\* What is stored is what is wanted of the links that are done with.
StoreInv ==
  /\ LinkInv
  /\ AllRegular(passed) => stored = WantedOf(SubSeq(page.links, 1, passed), page.base, page.ranges)
  /\ hpc = "done" /\ AllRegular(Len(page.links)) => passed = Len(page.links)

\* StoreInv holds of every page.
LEMMA StoreStarts == Init => StoreInv
<1> SUFFICES ASSUME Init PROVE StoreInv
  OBVIOUS
<1>1. page \in Pages /\ passed = 0 /\ hpc = "link" /\ stored = <<>>
  BY DEF Init, HrefInit
<1>2. SubSeq(page.links, 1, passed) = <<>>
  BY <1>1, PageIs
<1>3. WantedOf(<<>>, page.base, page.ranges) = <<>>
  BY WantedIs
<1> QED
  BY <1>1, <1>2, <1>3, LinkStarts DEF StoreInv

\* The urls that are stored change with Insert only.
LEMMA StoredStays ==
  ASSUME StoreInv, LinkInv', page' = page, passed' = passed, stored' = stored,
         hpc' = "done" /\ AllRegular(Len(page.links)) => passed = Len(page.links)
  PROVE  StoreInv'
<1>1. \A n : AllRegular(n)' <=> AllRegular(n)
  BY DEF AllRegular
<1> QED
  BY <1>1 DEF StoreInv

\* Insert stores the url of its link, if the ranges admit it.
LEMMA InsertStores ==
  ASSUME StoreInv, Insert, LinkInv'
  PROVE  StoreInv'
<1>1. /\ page' = page /\ passed' = passed + 1 /\ hpc' = "link" /\ hpc = "range"
      /\ stored' = InsertWithRange(stored, url, page.ranges)
  BY DEF Insert
<1>2. page \in Pages /\ passed \in 0 .. Len(page.links) /\ passed < Len(page.links) /\ LinkInv
  BY <1>1 DEF StoreInv, LinkInv, Reducing
<1>3. Link \in Links /\ page.links \in Seq(Links) /\ Len(page.links) \in Nat /\ page.ranges \in Seq(Ranges)
  BY <1>2, LinkIs, PageIs
<1> DEFINE before == SubSeq(page.links, 1, passed)
<1>4. before \in Seq(Links) /\ SubSeq(page.links, 1, passed + 1) = Append(before, Link)
  <2> DEFINE l == page.links
             k == passed + 1
  <2>1. l \in Seq(Links) /\ k \in 1 .. Len(l) /\ k - 1 = passed /\ passed \in Nat /\ passed <= Len(l) /\ Len(l) \in Nat
    BY <1>2, <1>3
  <2>2. Link = l[k]
    BY DEF Link
  <2> HIDE DEF l, k
  <2> DEFINE a == SubSeq(l, 1, passed)
             b == SubSeq(l, 1, k)
  <2>3. a \in Seq(Links) /\ Len(a) = passed /\ \A i \in 1 .. passed : a[i] = l[i]
    BY <2>1
  <2>4. b \in Seq(Links) /\ Len(b) = k /\ \A i \in 1 .. k : b[i] = l[i]
    BY <2>1
  <2> HIDE DEF a, b
  <2> DEFINE c == Append(a, l[k])
  <2>5. /\ c \in Seq(Links) /\ Len(c) = passed + 1
        /\ \A i \in 1 .. passed : c[i] = a[i]
        /\ c[passed + 1] = l[k]
    BY <2>1, <2>3, AppendProperties
  <2> HIDE DEF c
  <2>6. \A i \in 1 .. Len(b) : b[i] = c[i]
    BY <2>1, <2>3, <2>4, <2>5
  <2>7. b = c
    BY <2>1, <2>4, <2>5, <2>6, SeqEqual
  <2> QED BY <2>2, <2>3, <2>7 DEF a, b, c, k, l
<1>5. ASSUME AllRegular(passed + 1)
      PROVE  stored' = WantedOf(SubSeq(page.links, 1, passed + 1), page.base, page.ranges)
  <2>1. AllRegular(passed) /\ Regular(Link, page.base)
    <3>1. passed + 1 \in 1 .. passed + 1 /\ \A i \in 1 .. passed : i \in 1 .. passed + 1
      BY <1>2, <1>3
    <3> QED BY <1>5, <3>1 DEF AllRegular, Link
  <2>2. stored = WantedOf(before, page.base, page.ranges)
    BY <2>1 DEF StoreInv
  <2> DEFINE u == Resolved(Link, page.base)
  <2>3. url = u
    BY <1>1, <1>2, <2>1, LinkEnds DEF LinksResolved
  <2>4. u \in Text /\ u # NULL
    <3>1. ~ Link.href => Link.text # NULL
      <4>1. passed + 1 \in 1 .. Len(page.links)
        BY <1>2, <1>3
      <4> QED BY <1>2, <4>1, HrefAssumption DEF Link
    <3> QED BY <1>2, <1>3, <2>1, <3>1, ResolvedIs
  <2> HIDE DEF before
  <2>5. WantedOf(Append(before, Link), page.base, page.ranges) =
          Wanting(WantedOf(before, page.base, page.ranges), Link, page.base, page.ranges)
    BY <1>3, <1>4, WantedIs
  <2>6. stored' = IF RewriteRange(u, page.ranges) = NULL THEN stored ELSE Append(stored, RewriteRange(u, page.ranges))
    BY <1>1, <2>3 DEF InsertWithRange
  <2>7. /\ Admitted(u, page.ranges) => /\ RewriteRange(u, page.ranges) = Rewritten(u, page.ranges)
                                       /\ RewriteRange(u, page.ranges) # NULL
        /\ ~ Admitted(u, page.ranges) => RewriteRange(u, page.ranges) = NULL
    BY <1>3, <2>4, RewriteIs
  <2>8. Wanting(stored, Link, page.base, page.ranges) =
          IF Admitted(u, page.ranges) THEN Append(stored, Rewritten(u, page.ranges)) ELSE stored
    BY DEF Wanting
  <2> HIDE DEF u
  <2>9. stored' = Wanting(stored, Link, page.base, page.ranges)
    BY <2>6, <2>7, <2>8
  <2> QED BY <1>4, <2>2, <2>5, <2>9
<1>6. AllRegular(passed)' <=> AllRegular(passed + 1)
  BY <1>1 DEF AllRegular
<1>7. AllRegular(passed)' => stored' = WantedOf(SubSeq(page'.links, 1, passed'), page'.base, page'.ranges)
  BY <1>1, <1>5, <1>6
<1> QED
  BY <1>1, <1>7 DEF StoreInv

\* Every step keeps StoreInv ...
LEMMA StoreSteps == StoreInv /\ [Next]_vars => StoreInv'
<1> SUFFICES ASSUME StoreInv, [Next]_vars PROVE StoreInv'
  OBVIOUS
<1>1. LinkInv /\ LinkInv'
  BY LinkSteps DEF StoreInv
<1>2. CASE Complete \/ Relative \/ RemoveParent \/ ParentsGone \/ RemoveHere \/ HereGone
  <2>1. page' = page /\ passed' = passed /\ stored' = stored /\ hpc' # "done"
    BY <1>2 DEF Complete, Relative, RemoveParent, ParentsGone, RemoveHere, HereGone, More
  <2> QED BY <1>1, <2>1, StoredStays
<1>3. CASE GetHostError
  <2>1. /\ page' = page /\ passed' = passed /\ stored' = stored /\ ~ TakenAsIs(Link)
        /\ Before(Link.text, page.base) = NULL /\ passed < Len(page.links)
    BY <1>3 DEF GetHostError, More
  <2>2. page \in Pages /\ passed \in 0 .. Len(page.links)
    BY <1>1 DEF LinkInv
  <2>3. ~ Regular(Link, page.base)
    <3>1. Link \in Links
      BY <2>1, <2>2, LinkIs
    <3> QED BY <2>1, <2>2, <3>1, BeforeIs
  <2>4. ~ AllRegular(Len(page.links))
    <3>1. passed + 1 \in 1 .. Len(page.links)
      BY <2>1, <2>2, PageIs
    <3> QED BY <2>3, <3>1 DEF AllRegular, Link
  <2> QED BY <1>1, <2>1, <2>4, StoredStays
<1>4. CASE Insert
  BY <1>1, <1>4, InsertStores
<1>5. CASE NoMoreLinks
  <2>1. page' = page /\ passed' = passed /\ stored' = stored /\ passed = Len(page.links)
    BY <1>5 DEF NoMoreLinks
  <2> QED BY <1>1, <2>1, StoredStays
<1>6. CASE UNCHANGED hvars
  <2>1. page' = page /\ passed' = passed /\ stored' = stored /\ hpc' = hpc
    BY <1>6 DEF hvars
  <2>2. hpc' = "done" /\ AllRegular(Len(page.links)) => passed = Len(page.links)
    BY <2>1 DEF StoreInv
  <2> QED BY <1>1, <2>1, <2>2, StoredStays
<1>7. CASE Spin
  BY <1>6, <1>7 DEF Spin
<1>8. HrefNext \/ UNCHANGED hvars
  BY DEF Next, vars
<1> QED
  BY <1>2, <1>3, <1>4, <1>5, <1>6, <1>7, <1>8 DEF HrefNext

\* ... which at the end of a page says that what is wanted is stored.
LEMMA StoreEnds == StoreInv => LinksStored
<1> SUFFICES ASSUME StoreInv, hpc = "done", \A i \in DOMAIN page.links : Regular(page.links[i], page.base)
             PROVE  stored = Wanted
  BY DEF LinksStored
<1>1. page.links \in Seq(Links) /\ DOMAIN page.links = 1 .. Len(page.links) /\ Len(page.links) \in Nat
  BY PageIs DEF StoreInv, LinkInv
<1>2. AllRegular(Len(page.links))
  BY <1>1 DEF AllRegular
<1>3. passed = Len(page.links)
  BY <1>2 DEF StoreInv
<1>4. SubSeq(page.links, 1, passed) = page.links
  <2> DEFINE l == page.links
  <2>1. l \in Seq(Links)
    BY <1>1
  <2> HIDE DEF l
  <2>2. SubSeq(l, 1, Len(l)) = l
    BY <2>1
  <2> QED BY <1>3, <2>2 DEF l
<1> QED
  BY <1>2, <1>3, <1>4 DEF StoreInv, Wanted

\* LinksStored: of a page whose links are all regular, just the urls the ranges admit
\* are stored, in order and rewritten as the first white pattern that matches says
\* (sf_proc.c:117-156, sf_pcre.c:604-662).
THEOREM LinksAreStored == Spec => []LinksStored
<1>1. Init => StoreInv
  BY StoreStarts
<1>2. StoreInv /\ [Next]_vars => StoreInv'
  BY StoreSteps
<1>3. StoreInv => LinksStored
  BY StoreEnds
<1> QED
  BY <1>1, <1>2, <1>3, PTL DEF Spec

=============================================================================
