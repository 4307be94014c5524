---------------------------- MODULE MCPageText ------------------------------
(***************************************************************************)
(* Pages and captured texts for model-checking PageText.                   *)
(***************************************************************************)
EXTENDS PageText

MCQuery == {"?q"}
MCFragment == {"#f"}

\* Paths of up to n segments, relative or from the root, with a query or not.
Segs(n) == UNION { [1 .. m -> {<<>>, <<".">>, <<"..">>, <<"a">>}] : m \in 1 .. n }
Paths(n) == { Tail(Joined(s)) : s \in Segs(n) }

Site(path) == Scheme \o <<"h">> \o path

Bases == { Site(<<"/">>), Site(<<"/", "d", "/", "e">>), Site(<<>>),
           Site(<<"/", "d", "/", "..", "/", "e">>),
           Site(<<"/", "d", "?q", "/", "e">>), <<"h", "/", "d">> }

Href(text) == [href |-> TRUE, text |-> text]
Bare(text) == [href |-> FALSE, text |-> text]
Plain(base, links) == [base |-> base, links |-> links, ranges |-> <<>>]

RangeOf(black, white, rewrite) == [black |-> black, white |-> white, rewrite |-> rewrite]

RangeLists ==
  { <<r>> : r \in { RangeOf({"b"}, {"a", "c"}, NULL), RangeOf({"b"}, None, NULL) } } \cup
  { <<RangeOf(black, {"a"}, <<"x", "(#word)">>), RangeOf(other, {"a", "c"}, rewrite)>> :
      black \in {None, {"b"}}, other \in {None, {"b", "c"}}, rewrite \in {NULL, <<"y", "(#name)">>} }

Sites == { Site(<<"/", x>>) : x \in {"a", "b", "c"} } \cup
         { Site(<<"/", "a", "/", x>>) : x \in {"b", "c"} }

MCNoLinks == Plain(Site(<<"/">>), <<>>)

MCPages ==
  { Plain(b, <<Href(t), Href(<<"a">>)>>) : b \in Bases, t \in Paths(5) } \cup
  { Plain(b, <<Href(t \o <<"?q">>), Bare(Site(<<"/", "..", "/", "a">>))>>) :
      b \in Bases, t \in Paths(3) \cup {<<>>} } \cup
  { Plain(b, <<Href(t \o x)>>) : b \in Bases, t \in {<<>>, <<"a">>, <<"/", "..", "/", "a">>},
      x \in { <<"?q">> \o Site(<<"/", "b">>), <<"?q", "/", "..", "/", "b">>, <<"?q", "/", "b">>,
              <<"/">> \o Site(<<>>), <<"#f">>, <<"#f", "/", "b">> } } \cup
  { Plain(b, <<Href(Site(t))>>) : b \in Bases, t \in Paths(3) } \cup
  { [base |-> Site(<<"/">>), links |-> <<l, Href(<<"c">>)>>, ranges |-> r] :
      l \in { Bare(t) : t \in Sites } \cup { Href(<<"a">>), Href(<<"b">>) }, r \in RangeLists } \cup
  { MCNoLinks }

Tokens == Brackets \cup {">", "word"}

MCCaptured ==
  UNION { [1 .. n -> Tokens] : n \in 1 .. 4 } \cup
  UNION { [1 .. n -> {"<blockquote", "</blockquote>", "<", ">", "word"}] : n \in 5 .. 6 }
=============================================================================
