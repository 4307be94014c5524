---------------------------- MODULE JsonGrammar -----------------------------
(***************************************************************************)
(* The language of JSON, as the grammar of RFC 4627 over UTF-8 (RFC 3629), *)
(* with the comments a configuration allows where white space may stand.   *)
(* An operator that ends in "End" gives the position behind the phrase of  *)
(* t that starts at i, or 0 when there is none.  Where libjson reads a     *)
(* file otherwise than the grammar is said at the end.                     *)
(***************************************************************************)
EXTENDS JsonLint

RECURSIVE Skip(_, _, _), StringEnd(_, _), ValueEnd(_, _, _, _), ItemsEnd(_, _, _, _)

At(t, i) == IF i \in 1 .. Len(t) THEN t[i] ELSE 0
Least(S) == CHOOSE x \in S : \A y \in S : x <= y

AllIn(t, i, j, S) == \A k \in i .. j : t[k] \in S

Decimal == 48 .. 57
Hexadecimal == Decimal \cup (65 .. 70) \cup (97 .. 102)

-----------------------------------------------------------------------------
(* White space and comments. *)

\* Behind the star and slash, or the newline, that ends the (ASCII) comment at i.
CommentEnd(t, i, config) ==
  LET stops == IF At(t, i) = 35
              THEN { j \in i .. Len(t) : config.yamlComments /\ t[j] = 10 }
              ELSE { j \in i + 3 .. Len(t) : /\ config.cComments
                                             /\ At(t, i) = 47 /\ At(t, i + 1) = 42
                                             /\ t[j - 1] = 42 /\ t[j] = 47 }
      ends == { j \in stops : AllIn(t, i, j, {9, 10, 13} \cup (32 .. 127)) }
  IN IF ends = {} THEN 0 ELSE Least(ends) + 1

Skip(t, i, config) ==
  CASE At(t, i) \in {32, 9, 10, 13} -> Skip(t, i + 1, config)
    [] At(t, i) \in {35, 47} /\ CommentEnd(t, i, config) # 0
         -> Skip(t, CommentEnd(t, i, config), config)
    [] OTHER -> i

-----------------------------------------------------------------------------
(* Numbers and strings. *)

\* The number from i to j: sign, integer, fraction, exponent.
IsNumber(t, i, j) ==
  \E a \in {i} \cup (IF At(t, i) = 45 THEN {i + 1} ELSE {}) :
  \E b \in a .. j : \E c \in b .. j :
    /\ AllIn(t, a, b, Decimal) /\ (t[a] = 48 => a = b)
    /\ \/ c = b
       \/ c >= b + 2 /\ t[b + 1] = 46 /\ AllIn(t, b + 2, c, Decimal)
    /\ \/ c = j
       \/ /\ t[c + 1] \in {69, 101}
          /\ \E d \in {c + 2} \cup (IF At(t, c + 2) \in {43, 45} THEN {c + 3} ELSE {}) :
               d <= j /\ AllIn(t, d, j, Decimal)

NumberEnd(t, i) ==
  LET chars == Decimal \cup {43, 45, 46, 69, 101}
      stop  == Least({ j \in i .. Len(t) + 1 : At(t, j) \notin chars })
  IN IF i < stop /\ IsNumber(t, i, stop - 1) THEN stop ELSE 0

\* The bytes of the character at i, and what the second of them may be: the
\* shortest form, no surrogates, nothing above U+10FFFF.
Width(c) == CASE c < 128 -> 1 [] c \in 194 .. 223 -> 2 [] c \in 224 .. 239 -> 3
              [] c \in 240 .. 244 -> 4 [] OTHER -> 0
Second(c) == CASE c = 224 -> 160 .. 191 [] c = 237 -> 128 .. 159
               [] c = 240 -> 144 .. 191 [] c = 244 -> 128 .. 143 [] OTHER -> 128 .. 191
CharEnd(t, i) ==
  LET w == Width(At(t, i))
  IN IF /\ w > 0 /\ i + w - 1 <= Len(t) /\ AllIn(t, i + 1, i + w - 1, 128 .. 191)
        /\ w > 1 => t[i + 1] \in Second(t[i])
     THEN i + w ELSE 0

\* An escape \uXXXX stands at i; RFC 4627 asks no more of it.
IsUnit(t, i) ==
  /\ At(t, i) = 92 /\ At(t, i + 1) = 117
  /\ i + 5 <= Len(t) /\ AllIn(t, i + 2, i + 5, Hexadecimal)

StringEnd(t, i) ==
  CASE At(t, i) = 34 -> i + 1
    [] At(t, i) < 32 -> 0
    [] At(t, i) = 92 ->
         CASE At(t, i + 1) \in {34, 92, 47, 98, 102, 110, 114, 116} -> StringEnd(t, i + 2)
           [] IsUnit(t, i) -> StringEnd(t, i + 6)
           [] OTHER -> 0
    [] OTHER -> IF CharEnd(t, i) = 0 THEN 0 ELSE StringEnd(t, CharEnd(t, i))

-----------------------------------------------------------------------------
(* Values. *)

Word(t, i, w) == i + Len(w) - 1 <= Len(t) /\ SubSeq(t, i, i + Len(w) - 1) = w

\* The rest of a structure from its element at i on; `depth' is what may still open.
ItemsEnd(t, i, config, in) ==
  LET colon == IF At(t, i) = 34 THEN Skip(t, StringEnd(t, i + 1), config) ELSE 0
      start == CASE in.closing = 93 -> i
                 [] in.closing = 125 /\ colon > 1 /\ At(t, colon) = 58 -> Skip(t, colon + 1, config)
                 [] OTHER -> 0
      end   == IF start = 0 THEN 0 ELSE ValueEnd(t, start, config, in.depth)
      next  == IF end = 0 THEN 0 ELSE Skip(t, end, config)
  IN CASE next = 0 -> 0
       [] next # 0 /\ At(t, next) = in.closing -> next + 1
       [] next # 0 /\ At(t, next) = 44 -> ItemsEnd(t, Skip(t, next + 1, config), config, in)
       [] OTHER -> 0

StructureEnd(t, i, config, depth) ==
  LET closing == IF At(t, i) = 91 THEN 93 ELSE 125
      first   == Skip(t, i + 1, config)
  IN CASE depth = 0 -> 0
       [] depth > 0 /\ At(t, first) = closing -> first + 1
       [] OTHER -> ItemsEnd(t, first, config, [closing |-> closing, depth |-> depth - 1])

ValueEnd(t, i, config, depth) ==
  CASE At(t, i) \in {91, 123} -> StructureEnd(t, i, config, depth)
    [] At(t, i) = 34 -> StringEnd(t, i + 1)
    [] Word(t, i, <<116, 114, 117, 101>>) -> i + 4
    [] Word(t, i, <<102, 97, 108, 115, 101>>) -> i + 5
    [] Word(t, i, <<110, 117, 108, 108>>) -> i + 4
    [] OTHER -> NumberEnd(t, i)

\* A document is one structure.
IsDocument(t, config) ==
  LET start == Skip(t, 1, config)
      end   == IF At(t, start) \in {91, 123}
               THEN StructureEnd(t, start, config,
                                 IF config.nesting = 0 THEN Len(t) ELSE config.nesting)
               ELSE 0
  IN end # 0 /\ Skip(t, end, config) = Len(t) + 1

-----------------------------------------------------------------------------
(* Where libjson and the grammar part, each by the form it takes in the    *)
(* file.  A file in which one of them stands, be it inside a string, is    *)
(* none AcceptsDocuments speaks of.                                        *)

\* libjson refuses them: a bare 0 takes no exponent ...
ZeroExponent(t) ==
  \E i \in 1 .. Len(t) :
    t[i] = 48 /\ At(t, i + 1) \in {69, 101} /\ At(t, i - 1) \notin Decimal \cup {46}

\* ... no comment may follow an exponent directly ...
CommentAtExponent(t) ==
  \E i, j \in 1 .. Len(t) :
    /\ t[i] \in {69, 101} /\ t[j] \in {35, 47}
    /\ i + 1 < j /\ AllIn(t, i + 1, j - 1, Decimal \cup {43, 45})

\* ... and surrogates come in pairs, a high one and a low one.
HexValue(c) == IF c < 65 THEN c - 48 ELSE IF c < 97 THEN c - 55 ELSE c - 87

UnitIn(t, i, tops) == IsUnit(t, i) /\ HexValue(t[i + 2]) * 16 + HexValue(t[i + 3]) \in tops

LoneSurrogate(t) ==
  \E i \in 1 .. Len(t) :
    \/ UnitIn(t, i, 216 .. 219) /\ ~UnitIn(t, i + 6, 220 .. 223)
    \/ UnitIn(t, i, 220 .. 223) /\ ~UnitIn(t, i - 6, 216 .. 219)

\* libjson accepts them: characters of UTF-8 in more bytes than they need, of
\* five and six bytes, surrogates, and those above U+10FFFF.
LooseUtf8(t) ==
  \E i \in 1 .. Len(t) :
    \/ t[i] \in {192, 193} \cup (245 .. 253)
    \/ t[i] \in {224, 237, 240, 244} /\ At(t, i + 1) \in (128 .. 191) \ Second(t[i])

\* ... and a file that ends inside a comment, even if nothing else is in it.
Parts(t) == ZeroExponent(t) \/ CommentAtExponent(t) \/ LoneSurrogate(t) \/ LooseUtf8(t) \/ InComment

-----------------------------------------------------------------------------
(* Properties of JsonLint. *)

Undisturbed == parser.ret \notin {"CALLBACK", "NO_MEMORY", "DATA_LIMIT"}

\* The table and its actions accept the grammar, but for the forms above: a
\* file without them is valid exactly if it is a document of RFC 4627 that
\* nests no deeper than max_nesting.
AcceptsDocuments ==
  (verdict # "reading" /\ Undisturbed /\ ~Parts(text)) =>
    (verdict = "valid" <=> IsDocument(text, parser.config))

=============================================================================
