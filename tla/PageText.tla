------------------------------ MODULE PageText ------------------------------
(***************************************************************************)
(* What is read out of the text of a page (main.c:255-266): first its      *)
(* links (module Href), then, for a capture stored with content_as, its    *)
(* content (module Content).  Both are compared with what they are for:    *)
(* the resolution of relative references (RFC 3986, section 5.2), and a    *)
(* reader that knows of tags and of elements that are not shown.           *)
(***************************************************************************)
EXTENDS Href, Content

CONSTANT NoLinks    \* a page without links

ASSUME PageTextAssumption == NoLinks \in Pages /\ NoLinks.links = <<>>

vars == <<hvars, cvars>>

\* A page with links, or one whose capture is stored.
Init ==
  /\ HrefInit
  /\ IF page = NoLinks THEN ContentInit ELSE outstr = <<>> /\ p = 1 /\ newstr = <<>>

Ended == hpc = "done" /\ p > Len(outstr)

Next ==
  \/ HrefNext /\ UNCHANGED cvars
  \/ hpc = "done" /\ ContentNext /\ UNCHANGED hvars
  \/ Ended /\ UNCHANGED vars

Spec == Init /\ [][Next]_vars /\ WF_vars(Next)

----------------------------------------------------------------------------
(* Relative references.                                                    *)

\* The segments of a text, each a sequence of tokens without a slash.
Segments(text) ==
  FoldLeft(LAMBDA segs, token :
             IF token = "/" THEN Append(segs, <<>>)
                            ELSE [segs EXCEPT ![Len(segs)] = Append(@, token)],
           << <<>> >>, text)

Joined(segs) == FoldLeft(LAMBDA text, seg : text \o <<"/">> \o seg, <<>>, segs)

\* remove_dot_segments.
WithoutDots(segs) ==
  FoldLeft(LAMBDA kept, seg :
             IF seg = <<".">> THEN kept
             ELSE IF seg # <<"..">> THEN Append(kept, seg)
             ELSE IF kept = <<>> THEN kept ELSE Front(kept),
           <<>>, segs)

\* The path of an absolute url.
Path(base) == Tail(Segments(SubSeq(base, 4, Len(base))))

\* A url that stands in the page, or a link that begins with a scheme.
Absolute(link)  == ~link.href \/ (Len(link.text) >= 3 /\ SubSeq(link.text, 1, 3) = Scheme)
QueryOnly(text) == text # <<>> /\ text[1] \in Query
FromRoot(text)  == text # <<>> /\ text[1] = "/"

\* The path a relative reference leads to, its dots still in it.
Merged(text, base) ==
  IF FromRoot(text) THEN Tail(Segments(text))
  ELSE Front(Path(base)) \o Segments(text)

Resolved(link, base) ==
  IF Absolute(link) THEN link.text
  ELSE IF QueryOnly(link.text) THEN base \o link.text
  ELSE SubSeq(base, 1, 4) \o Joined(WithoutDots(Merged(link.text, base)))

Dots == {".", ".."}

Dotted(text) == \E i \in 1 .. Len(text) : text[i] \in Dots

\* The segments a path leaves behind, a "." among them.
Remaining(segs) ==
  FoldLeft(LAMBDA kept, seg :
             IF seg # <<"..">> THEN Append(kept, seg)
             ELSE IF kept = <<>> THEN kept ELSE Front(kept),
           <<>>, segs)

\* Does every ".." of the path but the last segment leave a name behind, and
\* neither "." nor the host?
LeavesNames(segs) ==
  \A i \in 1 .. Len(segs) :
    LET before == Remaining(SubSeq(segs, 1, i - 1))
    IN segs[i] = <<"..">> => before # <<>> /\ Last(before) # <<".">>

\* Neither a query with a slash in it, whose segments would be taken for some
\* of the path, nor a fragment.
PathFirst(text) ==
  \A i, j \in 1 .. Len(text) : i < j /\ text[i] \in Query => text[j] # "/"

NoFragment(text) == \A i \in 1 .. Len(text) : text[i] \notin Fragment

\* The links whose resolution the code gets right.  A complete url has no dots,
\* which would stay.  A relative reference has no scheme of its own and no
\* "://" further on, for which it would be taken as it is; it is no fragment
\* and has none.  The page has a host, which is no dot, a path, and neither
\* query nor fragment.  A reference that is only a query has no dots, nor has
\* the page, because dots on either side of the query would be removed.  One
\* with a path has no second slash in front, no slash in its query, no dot
\* segment at the end, and does not climb beyond the root.
Regular(link, base) ==
  LET text == link.text IN
  \/ Absolute(link) /\ ~Dotted(text)
  \/ /\ ~Absolute(link) /\ text # <<>> /\ text[1] # "http:" /\ Occurs(text, Scheme) = {}
     /\ NoFragment(text) /\ NoFragment(base)
     /\ Host(base) # NULL /\ base[4] \notin Dots /\ Path(base) # <<>>
     /\ \A i \in 1 .. Len(base) : base[i] \notin Query
     /\ QueryOnly(text) => ~Dotted(base) /\ ~Dotted(text)
     /\ ~QueryOnly(text) =>
          LET segs == Merged(text, base) IN
          /\ FromRoot(text) /\ Len(text) > 1 => text[2] # "/"
          /\ PathFirst(text)
          /\ Last(segs) # <<>> => Last(segs)[1] \notin Dots
          /\ LeavesNames(segs)

\* The whole url has a segment left to remove for every ".." that is not last.
NeverSpins(link, base) ==
  TakenAsIs(link) \/ Before(link.text, base) = NULL \/
    LET segs == Segments(Before(link.text, base) \o link.text)
        Left(n, seg) == IF n = 0 THEN 0 ELSE IF seg # <<"..">> THEN n + 1
                        ELSE IF n = 1 THEN 0 ELSE n - 1
    IN FoldLeft(Left, 1, Tail(Front(segs))) > 0

----------------------------------------------------------------------------
(* Content.                                                                *)

\* A reader of HTML: in plain text, in a tag that began at since, or in an
\* element that is not shown.  clean: what follows a blockquote begins with "<"
\* and is no other one.
Reader == [mode |-> "text", since |-> 0, kept |-> <<>>, quoted |-> FALSE, clean |-> TRUE]

Entered == [t \in Opening |->
  CASE t = "<blockquote" -> "quote" [] t = "<script" -> "script"
    [] t = "<style" -> "style" [] t = "<" -> "tag"]

Reads(r, text, i) ==
  LET t == text[i]
      now == [r EXCEPT !.quoted = FALSE,
                       !.clean = @ /\ (r.quoted => t \in Brackets \ {"<blockquote"})]
  IN IF r.mode = "text"
     THEN IF t \in Opening THEN [now EXCEPT !.mode = Entered[t], !.since = i]
          ELSE IF t \in Brackets THEN now ELSE [now EXCEPT !.kept = Append(@, t)]
     ELSE IF r.mode = "tag"
     THEN IF t \in Ends THEN [now EXCEPT !.mode = "text"] ELSE now
     ELSE IF t = Closing[r.mode] THEN [now EXCEPT !.mode = "text", !.quoted = r.mode = "quote"]
     ELSE now

\* A tag that does not end is text.
Read(text) ==
  LET r == FoldLeftDomain(LAMBDA x, i : Reads(x, text, i), Reader, text)
  IN [clean |-> r.clean,
      kept |-> IF r.mode = "tag" THEN r.kept \o SubSeq(text, r.since, Len(text)) ELSE r.kept]

----------------------------------------------------------------------------
(* Properties.                                                             *)

\* redurceurl and the two patterns of a host resolve a reference as RFC 3986
\* does, where it is Regular (sf_pcre.c:555-578, 611-639).
LinksResolved ==
  hpc = "range" /\ Regular(Link, page.base) => url = Resolved(Link, page.base)

\* Which urls of a page are stored depends on all ranges: a black pattern of
\* any of them refuses a url, the first white pattern that matches decides how
\* it is rewritten, and no link keeps another one from being stored
\* (sf_proc.c:117-156, sf_pcre.c:604-662).
Admitted(text, ranges) ==
  \/ ranges = <<>>
  \/ /\ ToSet(text) \cap UNION {ranges[i].black : i \in DOMAIN ranges} = {}
     /\ ToSet(text) \cap UNION {ranges[i].white : i \in DOMAIN ranges} # {}

Rewritten(text, ranges) ==
  LET r == ranges[Min({i \in DOMAIN ranges : ToSet(text) \cap ranges[i].white # {}})]
      word == text[Min({i \in DOMAIN text : text[i] \in r.white})]
  IN IF ranges = <<>> \/ r.rewrite = NULL THEN text ELSE ReplaceAll(r.rewrite, "(#word)", word)

WantedOf(links, base, ranges) ==
  FoldLeft(LAMBDA urls, link :
             LET u == Resolved(link, base)
             IN IF Admitted(u, ranges) THEN Append(urls, Rewritten(u, ranges)) ELSE urls,
           <<>>, links)

Wanted == WantedOf(page.links, page.base, page.ranges)

LinksStored ==
  hpc = "done" /\ (\A i \in DOMAIN page.links : Regular(page.links[i], page.base)) =>
    stored = Wanted

\* A page is done with, unless a link of it climbs so far above the root that
\* nothing of its url is left (sf_pcre.c:560-571).
PageEnds ==
  (\A i \in DOMAIN page.links : NeverSpins(page.links[i], page.base)) ~> hpc = "done"

\* The content is the text outside tags, scripts, style sheets and quotations,
\* as long as no text follows a quotation (sf_pcre.c:93-207: after a blockquote
\* the code looks for the end of a tag that has not begun).
ContentIsText ==
  Ended /\ Read(outstr).clean => newstr = Read(outstr).kept

=============================================================================
