----------------------------- MODULE CrawlerInv -----------------------------
(***************************************************************************)
(* The inductive invariant of Crawler: why its safety properties hold.     *)
(***************************************************************************)
EXTENDS Crawler

\* url_mutex and global_pool_mutex are held exactly inside their sections.
LockInv ==
  /\ \A s \in Spider :
       urlMutex = s <=> pc[s] \in {"search", "alloc", "palloc", "insert"}
  /\ \A s \in Spider : poolMutex = s <=> pc[s] = "palloc"

\* Where the thread has a page whose links it follows ...
OnPage == {"href", "lock", "search", "alloc", "palloc", "insert", "append"}
\* ... and where the first of them is being inserted.
OnLink == OnPage \ {"href"}

\* The link being inserted was accepted by the ranges; between search and
\* insertion its key stays absent from the table.
LinkInv ==
  \A s \in Spider :
    /\ pc[s] \in OnLink => links[s] # <<>> /\ Target(s) \in Urls
    /\ pc[s] \in {"alloc", "palloc", "insert"} => Key[Target(s)] \notin keys

\* What a thread holds is a line of this run, at its level, and the links it
\* still has to follow are links of that line's page.
PageOf(s) ==
  /\ pc[s] \in Working => cur[s] # 0
  /\ cur[s] # 0 =>
       /\ cur[s] \in SkipLine + 1 .. pos
       /\ level[s] = urlfile[cur[s]].level
  /\ pc[s] \in OnPage =>
       \A k \in DOMAIN links[s] :
         \E n \in DOMAIN Links[Url(s)] : links[s][k] = Links[Url(s)][n]

PageInv == \A s \in Spider : PageOf(s)

\* `line' counts the lines the stream has passed.
CountInv == line = pos /\ pos >= SkipLine /\ (streamEof => StickyEof)

\* A thread that found no line yet has only reached the exit test by way of
\* the end of the file; one that is on a page is not marked eof; one that
\* leaves is marked eof or has met a limit.
ExitOf(s) ==
  /\ pc[s] = "exit" /\ cur[s] = 0 => eof[s]
  /\ pc[s] \in {"fetch", "limit"} \cup OnPage => ~ eof[s]
  /\ pc[s] \in {"unparse", "report", "print"} => eof[s] \/ LimitReached
  /\ pc[s] = "alleof" /\ s < idx[s] => eof[s]

ExitInv == \A s \in Spider : ExitOf(s)

\* Where the stream forgets EOF: for every unread line a thread is left that
\* will read the file again; and a thread that has met the end of the file, or
\* is marked, has left no line of its own unread.
Watches(s) == pc[s] \notin {"mark", "done"} /\ ~ eof[s]

OwnOf(s) ==
  /\ mine[s] <= Len(urlfile)
  /\ ~ StickyEof /\ (eof[s] \/ pc[s] = "mark") => mine[s] <= pos \/ LimitReached

EofInv ==
  /\ \A s \in Spider : OwnOf(s)
  /\ ~ StickyEof /\ pos < Len(urlfile) => LimitReached \/ \E s \in Spider : Watches(s)

\* The threads that may take one more line whatever `line' is by now.
Cleared == {s \in Spider : pc[s] \in {"new", "scan", "chkpt", "save", "alleof"}}

MostLines == IF SkipLine > UrlCount - 1 THEN SkipLine ELSE UrlCount - 1

ClearedInv == line + Cardinality(Cleared) <= MostLines + SpiderCnt

IInv ==
  /\ TypeOK /\ LockInv /\ LinkInv /\ PageInv /\ CountInv
  /\ TableMatchesFile /\ NoDuplicateLine /\ ExitInv /\ EofInv /\ ClearedInv
============================================================================
