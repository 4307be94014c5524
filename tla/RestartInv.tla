----------------------------- MODULE RestartInv -----------------------------
(***************************************************************************)
(* The inductive invariant of Restart: why a crash loses no link, for a    *)
(* crawl first started without -l and resumed from the start of url.txt,   *)
(* or by a single thread from the last checkpoint.                         *)
(***************************************************************************)
EXTENDS Restart, CrawlerInv

\* Line i is held by a thread that has not fetched it yet.
Unfetched(i) == \E s \in Spider : cur[s] = i /\ pc[s] \in {"pool", "fetch"}

\* Link l of line i is still ahead of the thread that holds the line.
Ahead(i, l) ==
  \E s \in Spider : cur[s] = i /\ pc[s] \in OnPage /\ \E k \in DOMAIN links[s] : links[s][k] = l

\* Every link of every line taken, but for those missed, is in the table, or
\* ahead of a thread.
FollowInv ==
  \A i \in (1 .. pos) \ missed :
    \/ Unfetched(i)
    \/ \A n \in DOMAIN Links[urlfile[i].url] :
         LET l == Links[urlfile[i].url][n]
         IN \/ Rewrite[l] = NoUrl
            \/ Key[Rewrite[l]] \in keys
            \/ Ahead(i, l)

\* A checkpoint of a single thread counts lines of the file that are through.
SavedInv ==
  SpiderCnt = 1 =>
    /\ checkpoint <= Len(urlfile) /\ checkpoint <= MostLines
    /\ CheckpointFollowed

RInv == IInv /\ FollowInv /\ SavedInv

(***************************************************************************)
(* What is known of every line taken, and of a crawl by one thread.        *)
(***************************************************************************)

\* The lines that were reported, or lost for want of a pool.
Accounted == result.fetched \cup result.failed \cup dropped

\* A line of this run is in the hands of at most one thread or accounted for,
\* not both, and reported in at most one way; none is missed if feedback is asked
\* for.
AccountInv ==
  /\ skipline \in Nat /\ skipline <= pos
  /\ \A n \in Accounted : n \in skipline + 1 .. pos /\ ~ Unfetched(n)
  /\ \A s \in Spider : pc[s] \in {"pool", "fetch"} => cur[s] \in skipline + 1 .. pos
  /\ \A s, t \in Spider :
       /\ pc[s] \in {"pool", "fetch"} /\ pc[t] \in {"pool", "fetch"}
       /\ cur[s] = cur[t]
       => s = t
  /\ result.fetched \cap result.failed = {}
  /\ result.asked => \A n \in skipline + 1 .. pos : n \in Accounted \/ Unfetched(n)

Unparsing == {"unparse", "report", "print"}

\* A single thread holds the last line taken; it is marked eof only on its way
\* out, and it leaves at the end of the file or over a limit.
SoloOf(s) ==
  /\ cur[s] # 0 => cur[s] = pos
  /\ eof[s] => pc[s] \in {"exit", "alleof", "done"} \cup Unparsing
  /\ pc[s] = "mark" => pos = Len(urlfile)
  /\ pc[s] = "exit" /\ eof[s] => pos = Len(urlfile) \/ (OverLimit(s) /\ cur[s] # 0)
  /\ pc[s] = "alleof" => idx[s] = 0 /\ (eof[s] => pos = Len(urlfile))
  /\ pc[s] \in {"done"} \cup Unparsing =>
       \/ pos = Len(urlfile)
       \/ line >= UrlCount
       \/ level[s] > UrlLevel /\ cur[s] # 0

\* The lines a single thread has listed as unparsed.
ListedBy(s) ==
  CASE pc[s] = "report" -> pos + 1 .. rd[s]
    [] pc[s] = "print" -> pos + 1 .. rd[s] - 1
    [] pc[s] = "done" /\ result.asked -> pos + 1 .. Len(urlfile)
    [] OTHER -> {}

ListingOf(s) ==
  /\ result.unparsed = ListedBy(s)
  /\ pc[s] \in Unparsing => result.asked
  /\ pc[s] \in {"report", "print"} => from[s] = pos /\ rd[s] \in 0 .. Len(urlfile)
  /\ pc[s] = "print" => shown = rd[s] /\ rd[s] > pos

SoloInv ==
  SpiderCnt = 1 /\ ~ StickyEof => \A s \in Spider : SoloOf(s) /\ ListingOf(s)

\* The seeds are of one level, or of a level and then of the next.
LayeredSeeds ==
  \A i, j \in 1 .. Len(Seeds) :
    i < j => Seeds[i].level <= Seeds[j].level /\ Seeds[j].level <= Seeds[i].level + 1

\* The file is sorted by level; from the line taken last to its end the levels
\* span one layer and the next.
LayerInv ==
  /\ crashes \in Nat
  /\ SpiderCnt = 1 /\ ~ StickyEof /\ LayeredSeeds /\ crashes = 0 =>
       \A i, j \in 1 .. Len(urlfile) :
         /\ i < j => urlfile[i].level <= urlfile[j].level
         /\ pos <= i => urlfile[j].level <= urlfile[i].level + 1

SInv == RInv /\ AccountInv /\ SoloInv /\ LayerInv

=============================================================================
