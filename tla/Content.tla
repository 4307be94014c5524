------------------------------ MODULE Content -------------------------------
(***************************************************************************)
(* sf_pcre_getcontent: the text of a captured piece of HTML, without its   *)
(* tags and without what is quoted, script or style.  One action is one    *)
(* round of its loop.                                                      *)
(*                                                                         *)
(* A captured text is a sequence of tokens: the beginnings and ends of the *)
(* elements the code looks for, the beginning of another tag, what ends    *)
(* one, and words.  It is not empty: of an empty one the code copies what  *)
(* lies behind it in memory.                                               *)
(***************************************************************************)
EXTENDS Integers, Sequences

CONSTANT Captured   \* the texts captured

Opening  == {"<blockquote", "<script", "<style", "<"}
Closing  == [quote |-> "</blockquote>", script |-> "</script>", style |-> "</style>"]
Ends     == {">"} \cup {Closing[k] : k \in DOMAIN Closing}    \* tokens that end in ">"
Brackets == Opening \cup (Ends \ {">"})                      \* tokens that begin with "<"

ASSUME ContentAssumption == Captured \subseteq Seq(Brackets \cup {">", "word"})

VARIABLES
  outstr,   \* the text captured
  p,        \* where the code stands in it
  newstr    \* the content

cvars == <<outstr, p, newstr>>

\* Behind the first token at or after i that is one of tokens, or at the end.
Behind(i, tokens) ==
  LET hits == {j \in i .. Len(outstr) : outstr[j] \in tokens}
  IN IF hits = {} THEN Len(outstr) + 1 ELSE 1 + CHOOSE j \in hits : \A k \in hits : j <= k

At(i) == IF i > Len(outstr) THEN "end" ELSE outstr[i]

\* A blockquote is skipped, and the tests that follow are made behind it.
Unquoted(i) == IF At(i) = "<blockquote" THEN Behind(i + 1, {Closing.quote}) ELSE i

----------------------------------------------------------------------------
(* Faulty variants.                                                        *)

\* A script is left like any other tag, and its text is kept.
UnscriptedTag(i) ==
  CASE At(i) = "<style" -> Behind(i + 1, {Closing.style})
    [] OTHER -> Behind(i, Ends)

----------------------------------------------------------------------------

\* Behind the script, the style sheet or the tag at i.  What follows a
\* blockquote is searched for the end of a tag even where none begins.
Unscripted(i) ==
  CASE At(i) = "<script" -> Behind(i + 1, {Closing.script})
    [] At(i) = "<style"  -> Behind(i + 1, {Closing.style})
    [] OTHER             -> Behind(i, Ends)

Tag(i) == At(i) \notin {"<script", "<style"}

\* Is there no end of a tag from i on?  What is left is then copied as it is.
Open(i) == Tag(i) /\ \A j \in i .. Len(outstr) : outstr[j] \notin Ends

SkipTag ==
  LET from == Unquoted(p) IN
  /\ p <= Len(outstr) /\ outstr[p] \in Brackets
  /\ p' = Unscripted(from)
  /\ newstr' = IF Open(from) THEN newstr \o SubSeq(outstr, from, Len(outstr)) ELSE newstr
  /\ UNCHANGED outstr

CopyText ==
  /\ p <= Len(outstr) /\ outstr[p] \notin Brackets
  /\ newstr' = Append(newstr, outstr[p])
  /\ p' = p + 1
  /\ UNCHANGED outstr

ContentInit == outstr \in Captured /\ p = 1 /\ newstr = <<>>

ContentNext == SkipTag \/ CopyText

=============================================================================
