-------------------------------- MODULE Href --------------------------------
(***************************************************************************)
(* The links of a page: sf_pcre_get_href finds them, makes them absolute,  *)
(* takes the dot segments out (redurceurl) and hands them to               *)
(* sf_proc_insert_url_withrange, which the ranges of the configuration let *)
(* pass, rewrite or refuse.                                                *)
(*                                                                         *)
(* A url is a sequence of tokens: "http:", "/", ".", "..", names without a *)
(* colon, and a query or a fragment with the sign before it; no two names  *)
(* or dots are neighbours, so that the strings the code looks for are runs *)
(* of whole tokens.  Urls are *)
(* shorter than the 255 bytes of redurceurl's buffer.  PCRE is external:   *)
(* what a page holds is an input, and the pattern of a range is a set of   *)
(* words, of which it finds the first that occurs in a url.                *)
(***************************************************************************)
EXTENDS Integers, Sequences, SequencesExt

CONSTANTS
  Pages,      \* pages: base, its url, links, in order, and ranges that apply
  Query,      \* the tokens that begin with a question mark
  Fragment    \* the tokens that begin with a number sign

NULL == <<>>  \* no string

\* A link is the value of an attribute or a bare url; a range has two patterns.
Links  == [href : BOOLEAN, text : Seq(STRING)]
Ranges == [black : SUBSET STRING, white : SUBSET STRING, rewrite : Seq(STRING)]

ASSUME HrefAssumption ==
  /\ (Query \cup Fragment) \cap {"http:", "/", ".", ".."} = {} /\ Query \cap Fragment = {}
  /\ \A p \in Pages :
       /\ p.base \in Seq(STRING) /\ p.base # NULL
       /\ \A i \in 1 .. Len(p.base) - 1 : p.base[i] = "/" \/ p.base[i + 1] \in {"/"} \cup Query
       /\ p.links \in Seq(Links) /\ p.ranges \in Seq(Ranges)
       /\ \A i \in 1 .. Len(p.links) : ~p.links[i].href => p.links[i].text # NULL

VARIABLES
  page,     \* the page at hand
  passed,   \* links of it that are done with
  url,      \* newurl, or the link as it was found
  stored,   \* the urls handed to sf_proc_insert_url, in order
  hpc       \* where the search for links is

hvars == <<page, passed, url, stored, hpc>>

Scheme == <<"http:", "/", "/">>

----------------------------------------------------------------------------
(* Strings.                                                                *)

\* strstr: where word occurs in text.
Occurs(text, word) ==
  {i \in 1 .. Len(text) - Len(word) + 1 : SubSeq(text, i, i + Len(word) - 1) = word}

Slashes(text) == {i \in 1 .. Len(text) : text[i] = "/"}

First(S) == CHOOSE i \in S : \A j \in S : i <= j
Final(S) == CHOOSE i \in S : \A j \in S : j <= i

\* PATTERN_HOST: the scheme and what follows up to a slash or a query.
Host(text) ==
  LET named == Len(text) > 3 /\ SubSeq(text, 1, 3) = Scheme
               /\ text[4] \notin {"/"} \cup Query
  IN IF named THEN SubSeq(text, 1, 4) ELSE NULL

\* Faulty variant of HostPath: up to the first slash.
HostPathShort(text) ==
  LET behind == {i \in Slashes(text) : i > 4}
  IN IF Host(text) = NULL \/ behind = {} THEN NULL ELSE SubSeq(text, 1, First(behind))

\* PATTERN_HOSTPATH: greedily up to the last slash behind a host, which may be
\* one of a query.
HostPath(text) ==
  LET behind == {i \in Slashes(text) : i > 4}
  IN IF Host(text) = NULL \/ behind = {} THEN NULL ELSE SubSeq(text, 1, Final(behind))

\* What a link without "://" is put behind.
Before(link, base) ==
  IF link = <<>> \/ link[1] \notin {"/"} \cup Query THEN HostPath(base)
  ELSE IF link[1] = "/" THEN Host(base) ELSE base

----------------------------------------------------------------------------
(* Ranges.                                                                 *)

None == {}    \* no pattern

\* pcre_exec and the substring a pattern captures, here the word it finds.
Match(words, text) == \E i \in 1 .. Len(text) : text[i] \in words
Found(words, text) == SelectInSeq(text, LAMBDA token : token \in words)

\* sf_rewrite_exp: "(#word)" is replaced by what the white pattern captured,
\* every other name stands for itself.
RewriteExp(exp, words, text) ==
  IF exp = NULL THEN text
  ELSE [i \in 1 .. Len(exp) |-> IF exp[i] = "(#word)" THEN text[Found(words, text)] ELSE exp[i]]

\* Faulty variant of RewriteRange: only the black pattern of the range that decides
\* counts.
RewriteRangeLate(text, ranges) ==
  LET white == {i \in 1 .. Len(ranges) : Match(ranges[i].white, text)}
      r == ranges[First(white)]
  IN IF ranges = <<>> THEN text
     ELSE IF white = {} THEN NULL
     ELSE IF Match(r.black, text) THEN NULL
     ELSE RewriteExp(r.rewrite, r.white, text)

\* sf_proc_url_rewrite_range: the black patterns of all ranges come first, then
\* the first white one that matches decides.
RewriteRange(text, ranges) ==
  LET white == {i \in 1 .. Len(ranges) : Match(ranges[i].white, text)}
      r == ranges[First(white)]
  IN IF ranges = <<>> THEN text
     ELSE IF \E i \in 1 .. Len(ranges) : Match(ranges[i].black, text) THEN NULL
     ELSE IF white = {} THEN NULL
     ELSE RewriteExp(r.rewrite, r.white, text)

\* sf_proc_insert_url_withrange.
InsertWithRange(urls, text, ranges) ==
  LET rewrite == RewriteRange(text, ranges)
  IN IF rewrite = NULL THEN urls ELSE Append(urls, rewrite)

----------------------------------------------------------------------------
(* sf_pcre_get_href.                                                       *)

Link == page.links[passed + 1]

More == hpc = "link" /\ passed < Len(page.links)

\* A url that stands in the page, and a link with "://" anywhere in it.
TakenAsIs(link) == ~link.href \/ Occurs(link.text, Scheme) # {}

Complete ==
  /\ More
  /\ TakenAsIs(Link)
  /\ url' = Link.text
  /\ hpc' = "range"
  /\ UNCHANGED <<page, passed, stored>>

Relative ==
  LET before == Before(Link.text, page.base) IN
  /\ More
  /\ ~TakenAsIs(Link)
  /\ before # NULL
  /\ url' = before \o Link.text
  /\ hpc' = "parent"
  /\ UNCHANGED <<page, passed, stored>>

\* Without a host the function returns, whatever else the page links.
GetHostError ==
  /\ More
  /\ ~TakenAsIs(Link)
  /\ Before(Link.text, page.base) = NULL
  /\ hpc' = "done"
  /\ UNCHANGED <<page, passed, url, stored>>

\* Faulty variant of RemoveParent: what is before the segment stays, and the
\* search goes on behind it.
RemoveParentKeeps ==
  LET at == First(Occurs(url, <<"/", "..", "/">>))
      up == {i \in Slashes(url) : i < at}
  IN /\ hpc = "parent"
     /\ Occurs(url, <<"/", "..", "/">>) # {} /\ up # {}
     /\ url' = SubSeq(url, 1, Final(up)) \o SubSeq(url, at, Len(url))
     /\ UNCHANGED <<page, passed, stored, hpc>>

\* redurceurl: "/../" and the segment before it go, as long as there is one ...
RemoveParent ==
  LET at == First(Occurs(url, <<"/", "..", "/">>))
      up == {i \in Slashes(url) : i < at}
  IN /\ hpc = "parent"
     /\ Occurs(url, <<"/", "..", "/">>) # {} /\ up # {}
     /\ url' = SubSeq(url, 1, Final(up)) \o SubSeq(url, at + 3, Len(url))
     /\ UNCHANGED <<page, passed, stored, hpc>>

\* ... without a slash before it the loop changes nothing and never ends.
Spin ==
  LET at == First(Occurs(url, <<"/", "..", "/">>)) IN
  /\ hpc = "parent"
  /\ Occurs(url, <<"/", "..", "/">>) # {} /\ \A i \in Slashes(url) : i >= at
  /\ UNCHANGED hvars

ParentsGone ==
  /\ hpc = "parent"
  /\ Occurs(url, <<"/", "..", "/">>) = {}
  /\ hpc' = "here"
  /\ UNCHANGED <<page, passed, url, stored>>

RemoveHere ==
  LET at == First(Occurs(url, <<"/", ".", "/">>)) IN
  /\ hpc = "here"
  /\ Occurs(url, <<"/", ".", "/">>) # {}
  /\ url' = SubSeq(url, 1, at - 1) \o SubSeq(url, at + 2, Len(url))
  /\ UNCHANGED <<page, passed, stored, hpc>>

HereGone ==
  /\ hpc = "here"
  /\ Occurs(url, <<"/", ".", "/">>) = {}
  /\ hpc' = "range"
  /\ UNCHANGED <<page, passed, url, stored>>

Insert ==
  /\ hpc = "range"
  /\ stored' = InsertWithRange(stored, url, page.ranges)
  /\ passed' = passed + 1
  /\ hpc' = "link"
  /\ UNCHANGED <<page, url>>

NoMoreLinks ==
  /\ hpc = "link" /\ passed = Len(page.links)
  /\ hpc' = "done"
  /\ UNCHANGED <<page, passed, url, stored>>

HrefInit ==
  /\ page \in Pages
  /\ passed = 0
  /\ url = <<>>
  /\ stored = <<>>
  /\ hpc = "link"

HrefNext ==
  \/ Complete \/ Relative \/ GetHostError
  \/ RemoveParent \/ Spin \/ ParentsGone \/ RemoveHere \/ HereGone
  \/ Insert \/ NoMoreLinks

=============================================================================
