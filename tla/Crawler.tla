------------------------------ MODULE Crawler ------------------------------
(***************************************************************************)
(* The crawl loop of spiderframe: main() starts SpiderCnt threads, each    *)
(* running sf_proc_start_spider() (main.c:140-326).  All threads share the *)
(* file url.txt, which is both the work queue and the output of the crawl: *)
(* sf_global_scan_url() reads the next line, sf_proc_insert_url() appends  *)
(* every link found on a page whose key is not yet in the dedup table.     *)
(*                                                                         *)
(* A thread decides by itself when to exit: at a level or count limit, or  *)
(* at the end of the file once it has read the eof flag of every thread.   *)
(*                                                                         *)
(* file_mutex is held only inside one fscanf + line++ or one fprintf +     *)
(* fflush, so each of these is one action here.  url_mutex and             *)
(* global_pool_mutex are held across several steps and are variables.      *)
(* `line' and the eof flags are read without a lock, one read per step.    *)
(***************************************************************************)
EXTENDS Integers, Sequences, FiniteSets

CONSTANTS
  SpiderCnt,    \* spider_cnt: number of threads (-m)
  Urls,         \* the URLs that occur, as they stand in url.txt or on pages
  NoUrl,        \* NULL: a link rejected by the configured ranges
  Key,          \* Key[u]: bucket and BKDR hash of u, all the table keeps of it
  Links,        \* Links[u]: the links on the page at u, in page order
  Rewrite,      \* Rewrite[l]: the URL stored for link l, or NoUrl
  Seeds,        \* the lines of url.txt when the program starts
  SkipLine,     \* skipline (-l): lines already crawled by an earlier run
  UrlLevel,     \* conf->url_level
  UrlCount,     \* conf->url_count
  UrlFeedback,  \* what conf->url_feedback may be: a set of truth values
  Period,       \* sf_do_checkpoint: a checkpoint every Period lines (10)
  StickyEof     \* does the C library remember EOF on a stream (glibc >= 2.28)?

Line == [level : Int, url : Urls]

ASSUME SpiderAssumption == SpiderCnt \in Nat \ {0}

ASSUME ConfAssumption ==
  /\ SkipLine \in Nat /\ UrlLevel \in Int /\ UrlCount \in Int
  /\ UrlFeedback \subseteq BOOLEAN /\ StickyEof \in BOOLEAN
  /\ Period \in Nat \ {0}

ASSUME WebAssumption ==
  /\ NoUrl \notin Urls
  /\ DOMAIN Key = Urls
  /\ Links \in [Urls -> Seq(Urls)]
  /\ Rewrite \in [Urls -> Urls \cup {NoUrl}]
  /\ Seeds \in Seq(Line)
  /\ SkipLine <= Len(Seeds)

\* The feedback handed to the JSON printer (success_url, fail_url, unparse_url),
\* as sets of line numbers of url.txt, if it is asked for.  sf_json_flush is an empty macro, so that
\* it reaches a file only with the output of a later policy.
Result == [asked : BOOLEAN,
           fetched : SUBSET Nat, failed : SUBSET Nat, unparsed : SUBSET Nat]

Spider == 0 .. SpiderCnt - 1
Free   == -1                    \* a mutex nobody holds

VARIABLES
  urlfile,      \* the lines of url.txt
  pos,          \* lines the shared read stream url_fdr has consumed
  streamEof,    \* the stream's remembered EOF indicator
  line,         \* the global `line' counter
  keys,         \* keys in the dedup table url_handle
  urlMutex,     \* holder of url_mutex
  poolMutex,    \* holder of global_pool_mutex
  checkpoint,   \* last line count written to the file check_point
  result,       \* is feedback asked for, and what was given
  shown,        \* line held by the static `url' of sf_proc_output_unparse
  dropped,      \* lines taken and lost to a failed ngx_create_pool (history)
  slots,        \* entries of spider_list main() has stored so far
  crashed,      \* the process died dereferencing a null pointer
  pc,           \* where each thread is
  eof,          \* s->eof
  cur,          \* number of the url.txt line the thread took last (history)
  level,        \* the thread's `level'
  links,        \* links of its current page still to be followed
  from,         \* the `line' argument of sf_proc_output_unparse
  rd,           \* lines its own stream has read
  idx,          \* loop index of sf_all_spiders_eof
  mine          \* number of the last line the thread appended (history)

file    == <<urlfile, pos, streamEof, line>>
locks   == <<urlMutex, poolMutex>>
output  == <<checkpoint, result, shown, dropped>>
startup == <<slots, crashed>>
page    == <<cur, level, links>>
args    == <<from, rd, idx, mine>>
shared  == <<file, keys, locks, output, startup>>
local   == <<pc, eof, page, args>>
vars    == <<shared, local>>

Labels == {"new", "scan", "mark", "pool", "fetch", "href", "lock", "search",
           "alloc", "palloc", "insert", "append", "limit", "chkpt", "save", "exit",
           "unparse", "report", "print", "alleof", "done"}

\* A thread that has taken a line and is not through with it.
Working == {"pool", "fetch", "href", "lock", "search", "alloc", "palloc",
            "insert", "append", "limit"}

(***************************************************************************)
(* sf_global_init: the table is loaded from the whole file, the stream is  *)
(* moved past SkipLine lines.  `level' is an uninitialised local that the  *)
(* exit test can read: it is on either side of the limit.                  *)
(***************************************************************************)
Init ==
  /\ urlfile = Seeds
  /\ pos = SkipLine
  /\ line = SkipLine
  /\ streamEof = (StickyEof /\ SkipLine > 0 /\ SkipLine = Len(Seeds))
  /\ keys = {Key[Seeds[i].url] : i \in 1 .. Len(Seeds)}
  /\ urlMutex = Free /\ poolMutex = Free
  /\ checkpoint = 0
  /\ result \in [asked : UrlFeedback, fetched : {{}}, failed : {{}}, unparsed : {{}}]
  /\ shown = 0
  /\ dropped = {}
  /\ slots = 0
  /\ crashed = FALSE
  /\ pc = [s \in Spider |-> "new"]
  /\ eof = [s \in Spider |-> FALSE]
  /\ cur = [s \in Spider |-> 0]
  /\ level \in [Spider -> {UrlLevel, UrlLevel + 1}]
  /\ links = [s \in Spider |-> <<>>]
  /\ from = [s \in Spider |-> 0]
  /\ rd = [s \in Spider |-> 0]
  /\ idx = [s \in Spider |-> 0]
  /\ mine = [s \in Spider |-> 0]

Goto(s, here, there) ==
  /\ ~ crashed
  /\ pc[s] = here
  /\ pc' = [pc EXCEPT ![s] = there]

AtEof == streamEof \/ pos >= Len(urlfile)

Url(s) == urlfile[cur[s]].url

Target(s) == Rewrite[Head(links[s])]
DropLink(s) == links' = [links EXCEPT ![s] = Tail(@)]

----------------------------------------------------------------------------
(* Faulty variants of the definitions below, each a slip the code could     *)
(* have: the properties are tested against them.                            *)

\* The eof flag of an earlier scan is not cleared.
NewPoolKeepsEof(s) ==
  /\ Goto(s, "pool", "fetch")
  /\ UNCHANGED <<shared, eof, page, args>>

\* A thread that fails marks itself eof.
NewPoolFailsAsEof(s) ==
  /\ Goto(s, "pool", "exit")
  /\ dropped' = dropped \cup {cur[s]}
  /\ eof' = [eof EXCEPT ![s] = TRUE]
  /\ UNCHANGED <<file, keys, locks, checkpoint, result, shown, startup, page, args>>

\* url_mutex is taken without waiting.
LockUrlsAtOnce(s) ==
  /\ Goto(s, "lock", "search")
  /\ urlMutex' = s
  /\ UNCHANGED <<file, keys, poolMutex, output, startup, eof, page, args>>

\* url_mutex is released between the search and the insertion.
KeyNotFoundUnlocks(s) ==
  /\ Goto(s, "search", "alloc")
  /\ Key[Target(s)] \notin keys
  /\ urlMutex' = Free
  /\ UNCHANGED <<file, keys, poolMutex, output, startup, eof, page, args>>

\* The page's key is inserted for the link's.
InsertKeyOfPage(s) ==
  /\ Goto(s, "insert", "append")
  /\ keys' = keys \cup {Key[Url(s)]}
  /\ urlMutex' = Free
  /\ UNCHANGED <<file, poolMutex, output, startup, eof, page, args>>

\* A link is written with the level of its page.
AppendUrlSameLevel(s) ==
  /\ Goto(s, "append", "href")
  /\ urlfile' = Append(urlfile, [level |-> level[s], url |-> Target(s)])
  /\ mine' = [mine EXCEPT ![s] = Len(urlfile')]
  /\ DropLink(s)
  /\ UNCHANGED <<pos, streamEof, line, keys, locks, output, startup, eof,
                 cur, level, from, rd, idx>>

\* The count limit is off by one; the level limit is.
OverLimitCount(s) == level[s] > UrlLevel \/ line > UrlCount
OverLimitLevel(s) == level[s] >= UrlLevel \/ line >= UrlCount

\* A thread at the end of the file does not mark itself eof.
MarkEofNot(s) ==
  /\ Goto(s, "mark", "exit")
  /\ UNCHANGED <<shared, eof, page, args>>

\* A checkpoint counts the line to be read next.
SaveCheckpointNext(s) ==
  /\ Goto(s, "save", "scan")
  /\ checkpoint' = line + 1
  /\ UNCHANGED <<file, keys, locks, result, shown, dropped, startup, eof, page,
                 args>>

\* One line too few is skipped.
ReadUnparsedEarly(s) ==
  /\ Goto(s, "report", IF rd[s] + 1 < from[s] THEN "report" ELSE "print")
  /\ rd[s] < Len(urlfile)
  /\ rd' = [rd EXCEPT ![s] = @ + 1]
  /\ shown' = rd[s] + 1
  /\ UNCHANGED <<file, keys, locks, checkpoint, result, dropped, startup, eof,
                 page, from, idx, mine>>

\* One thread at the end of the file is taken for all.
ReadEofOfAny(s) ==
  /\ idx[s] < slots
  /\ Goto(s, "alleof", IF eof[idx[s]] THEN "done"
                       ELSE IF idx[s] + 1 = SpiderCnt THEN "scan" ELSE "alleof")
  /\ idx' = [idx EXCEPT ![s] = @ + 1]
  /\ UNCHANGED <<shared, eof, page, from, rd, mine>>

----------------------------------------------------------------------------
(* The main thread: sf_spider_create starts the thread before main() has   *)
(* stored the spider in spider_list.                                       *)

CreateSpider(s) ==
  /\ slots = s
  /\ Goto(s, "new", "scan")
  /\ UNCHANGED <<shared, eof, page, args>>

StoreSpider(s) ==
  /\ ~ crashed
  /\ slots = s /\ pc[s] # "new"
  /\ slots' = slots + 1
  /\ UNCHANGED <<file, keys, locks, output, crashed, local>>

----------------------------------------------------------------------------
(* Taking the next line.                                                   *)

ScanUrl(s) ==
  /\ Goto(s, "scan", "pool")
  /\ ~ AtEof
  /\ pos' = pos + 1
  /\ line' = line + 1
  \* the "\n" that ends the format reads ahead, and meets EOF on the last line
  /\ streamEof' = (StickyEof /\ pos + 1 = Len(urlfile))
  /\ cur' = [cur EXCEPT ![s] = pos + 1]
  /\ level' = [level EXCEPT ![s] = urlfile[pos + 1].level]
  /\ UNCHANGED <<urlfile, keys, locks, output, startup, eof, links, args>>

\* fscanf meets the end of the file, under file_mutex.
ScanEof(s) ==
  /\ Goto(s, "scan", "mark")
  /\ AtEof
  /\ streamEof' = StickyEof
  /\ UNCHANGED <<urlfile, pos, line, keys, locks, output, startup, eof, page,
                 args>>

\* The flag is set when file_mutex is long released: others may have appended
\* lines, or taken them, since.
MarkEof(s) ==
  /\ Goto(s, "mark", "exit")
  /\ eof' = [eof EXCEPT ![s] = TRUE]
  /\ UNCHANGED <<shared, page, args>>

\* Only now is eof cleared: until here it tells of an earlier scan.
NewPool(s) ==
  /\ Goto(s, "pool", "fetch")
  /\ eof' = [eof EXCEPT ![s] = FALSE]
  /\ UNCHANGED <<shared, page, args>>

\* Out of memory: the line just taken is dropped.
NewPoolFails(s) ==
  /\ Goto(s, "pool", "exit")
  /\ dropped' = dropped \cup {cur[s]}
  /\ UNCHANGED <<file, keys, locks, checkpoint, result, shown, startup, eof, page,
                 args>>

----------------------------------------------------------------------------
(* Fetching the page.                                                      *)

FetchOk(s) ==
  /\ Goto(s, "fetch", "href")
  /\ result' = IF result.asked THEN [result EXCEPT !.fetched = @ \cup {cur[s]}]
                               ELSE result
  /\ links' = [links EXCEPT ![s] = Links[Url(s)]]
  /\ UNCHANGED <<file, keys, locks, checkpoint, shown, dropped, startup, eof, cur,
                 level, args>>

\* With url_feedback the failure is reported and ends the inner loop; without
\* it the page goes on as if fetched, with whatever part of it arrived.
FetchFailsReported(s) ==
  /\ result.asked
  /\ Goto(s, "fetch", "exit")
  /\ result' = [result EXCEPT !.failed = @ \cup {cur[s]}]
  /\ UNCHANGED <<file, keys, locks, checkpoint, shown, dropped, startup, eof, page,
                 args>>

FetchFailsIgnored(s) ==
  /\ ~ result.asked
  /\ Goto(s, "fetch", "href")
  /\ \E n \in 0 .. Len(Links[Url(s)]) :
       links' = [links EXCEPT ![s] = SubSeq(Links[Url(s)], 1, n)]
  /\ UNCHANGED <<shared, eof, cur, level, args>>

----------------------------------------------------------------------------
(* sf_pcre_get_href, sf_proc_insert_url_withrange, sf_proc_insert_url.     *)

LinksDone(s) ==
  /\ Goto(s, "href", "limit")
  /\ links[s] = <<>>
  /\ UNCHANGED <<shared, eof, page, args>>

LinkRejected(s) ==
  /\ Goto(s, "href", "href")
  /\ links[s] # <<>> /\ Target(s) = NoUrl
  /\ DropLink(s)
  /\ UNCHANGED <<shared, eof, cur, level, args>>

LinkAccepted(s) ==
  /\ Goto(s, "href", "lock")
  /\ links[s] # <<>> /\ Target(s) # NoUrl
  /\ UNCHANGED <<shared, eof, page, args>>

LockUrls(s) ==
  /\ Goto(s, "lock", "search")
  /\ urlMutex = Free
  /\ urlMutex' = s
  /\ UNCHANGED <<file, keys, poolMutex, output, startup, eof, page, args>>

KeyFound(s) ==
  /\ Goto(s, "search", "href")
  /\ Key[Target(s)] \in keys
  /\ urlMutex' = Free
  /\ DropLink(s)
  /\ UNCHANGED <<file, keys, poolMutex, output, startup, eof, cur, level,
                 args>>

KeyNotFound(s) ==
  /\ Goto(s, "search", "alloc")
  /\ Key[Target(s)] \notin keys
  /\ UNCHANGED <<shared, eof, page, args>>

LockPool(s) ==
  /\ Goto(s, "alloc", "palloc")
  /\ poolMutex = Free
  /\ poolMutex' = s
  /\ UNCHANGED <<file, keys, urlMutex, output, startup, eof, page, args>>

AllocOk(s) ==
  /\ Goto(s, "palloc", "insert")
  /\ poolMutex' = Free
  /\ UNCHANGED <<file, keys, urlMutex, output, startup, eof, page, args>>

\* AllocHashData writes to the entry before the caller tests it for NULL.
AllocFails(s) ==
  /\ Goto(s, "palloc", "palloc")
  /\ crashed' = TRUE
  /\ UNCHANGED <<file, keys, locks, output, slots, eof, page, args>>

InsertKey(s) ==
  /\ Goto(s, "insert", "append")
  /\ keys' = keys \cup {Key[Target(s)]}
  /\ urlMutex' = Free
  /\ UNCHANGED <<file, poolMutex, output, startup, eof, page, args>>

AppendUrl(s) ==
  /\ Goto(s, "append", "href")
  /\ urlfile' = Append(urlfile, [level |-> level[s] + 1, url |-> Target(s)])
  /\ mine' = [mine EXCEPT ![s] = Len(urlfile')]
  /\ DropLink(s)
  /\ UNCHANGED <<pos, streamEof, line, keys, locks, output, startup, eof,
                 cur, level, from, rd, idx>>

----------------------------------------------------------------------------
(* After the page: limits, checkpoint, exit.                               *)

OverLimit(s) == level[s] > UrlLevel \/ line >= UrlCount

CheckLimit(s) ==
  /\ Goto(s, "limit", IF OverLimit(s) THEN "exit" ELSE "chkpt")
  /\ eof' = [eof EXCEPT ![s] = @ \/ OverLimit(s)]
  /\ UNCHANGED <<shared, page, args>>

\* `line' is tested here and read again by SaveCheckpoint.
DoCheckpoint(s) ==
  /\ Goto(s, "chkpt", IF line % Period = 0 THEN "save" ELSE "scan")
  /\ UNCHANGED <<shared, eof, page, args>>

SaveCheckpoint(s) ==
  /\ Goto(s, "save", "scan")
  /\ checkpoint' = line
  /\ UNCHANGED <<file, keys, locks, result, shown, dropped, startup, eof, page,
                 args>>

CheckExit(s) ==
  /\ Goto(s, "exit", IF ~ OverLimit(s) THEN "alleof"
                     ELSE IF result.asked THEN "unparse" ELSE "done")
  /\ idx' = [idx EXCEPT ![s] = 0]
  /\ UNCHANGED <<shared, eof, page, from, rd, mine>>

\* sf_proc_output_unparse opens the file anew.
CallUnparse(s) ==
  /\ Goto(s, "unparse", "report")
  /\ from' = [from EXCEPT ![s] = line]
  /\ rd' = [rd EXCEPT ![s] = 0]
  /\ UNCHANGED <<shared, eof, page, idx, mine>>

\* The URL read goes to a buffer all threads share; the first lines are
\* skipped.
ReadUnparsed(s) ==
  /\ Goto(s, "report", IF rd[s] < from[s] THEN "report" ELSE "print")
  /\ rd[s] < Len(urlfile)
  /\ rd' = [rd EXCEPT ![s] = @ + 1]
  /\ shown' = rd[s] + 1
  /\ UNCHANGED <<file, keys, locks, checkpoint, result, dropped, startup, eof,
                 page, from, idx, mine>>

\* What is printed is what the buffer holds by now.
PrintUnparsed(s) ==
  /\ Goto(s, "print", "report")
  /\ result' = [result EXCEPT !.unparsed = @ \cup {shown}]
  /\ UNCHANGED <<file, keys, locks, checkpoint, shown, dropped, startup, eof,
                 page, args>>

UnparsedEnd(s) ==
  /\ Goto(s, "report", "done")
  /\ rd[s] >= Len(urlfile)
  /\ UNCHANGED <<shared, eof, page, args>>

\* One iteration of sf_all_spiders_eof; a NULL entry of spider_list is
\* dereferenced when main() has not stored it yet.
ReadEof(s) ==
  /\ idx[s] < slots
  /\ Goto(s, "alleof", IF ~ eof[idx[s]] THEN "scan"
                       ELSE IF idx[s] + 1 = SpiderCnt THEN "done" ELSE "alleof")
  /\ idx' = [idx EXCEPT ![s] = @ + 1]
  /\ UNCHANGED <<shared, eof, page, from, rd, mine>>

ReadUnsetSlot(s) ==
  /\ idx[s] >= slots
  /\ Goto(s, "alleof", "alleof")
  /\ crashed' = TRUE
  /\ UNCHANGED <<file, keys, locks, output, slots, eof, page, args>>

----------------------------------------------------------------------------

Main(s) == CreateSpider(s) \/ StoreSpider(s)

Run(s) ==
  \/ ScanUrl(s) \/ ScanEof(s) \/ MarkEof(s) \/ NewPool(s) \/ NewPoolFails(s)
  \/ FetchOk(s) \/ FetchFailsReported(s) \/ FetchFailsIgnored(s)
  \/ LinksDone(s) \/ LinkRejected(s) \/ LinkAccepted(s)
  \/ LockUrls(s) \/ KeyFound(s) \/ KeyNotFound(s)
  \/ LockPool(s) \/ AllocOk(s) \/ AllocFails(s) \/ InsertKey(s) \/ AppendUrl(s)
  \/ CheckLimit(s) \/ DoCheckpoint(s) \/ SaveCheckpoint(s)
  \/ CheckExit(s) \/ CallUnparse(s)
  \/ ReadUnparsed(s) \/ PrintUnparsed(s) \/ UnparsedEnd(s)
  \/ ReadEof(s) \/ ReadUnsetSlot(s)

AllDone == \A s \in Spider : pc[s] = "done"

Finished ==
  /\ crashed \/ (AllDone /\ slots = SpiderCnt)
  /\ UNCHANGED vars

Next == (\E s \in Spider : Main(s) \/ Run(s)) \/ Finished

Spec == Init /\ [][Next]_vars

\* The scheduler runs every thread, the main thread included.
FairSpec == Spec /\ \A s \in Spider : WF_vars(Main(s)) /\ WF_vars(Run(s))

----------------------------------------------------------------------------
(* Properties.                                                             *)

\* A limit the configuration sets was met by this run (main.c:276 and 293).
LimitReached ==
  \/ line >= UrlCount
  \/ \E i \in SkipLine + 1 .. pos : urlfile[i].level > UrlLevel

\* The type invariant.
TypeOK ==
  /\ urlfile \in Seq(Line)
  /\ pos \in Nat /\ pos <= Len(urlfile)
  /\ streamEof \in BOOLEAN
  /\ line \in Nat
  /\ keys \subseteq {Key[u] : u \in Urls}
  /\ urlMutex \in Spider \cup {Free}
  /\ poolMutex \in Spider \cup {Free}
  /\ checkpoint \in Nat
  /\ result \in Result
  /\ shown \in Nat
  /\ dropped \in SUBSET Nat
  /\ slots \in 0 .. SpiderCnt
  /\ crashed \in BOOLEAN
  /\ pc \in [Spider -> Labels]
  /\ eof \in [Spider -> BOOLEAN]
  /\ cur \in [Spider -> Nat]
  /\ level \in [Spider -> Int]
  /\ links \in [Spider -> Seq(Urls)]
  /\ from \in [Spider -> Nat]
  /\ rd \in [Spider -> Nat]
  /\ idx \in [Spider -> 0 .. SpiderCnt]
  /\ mine \in [Spider -> Nat]

\* A line the crawl appends never repeats the key of an earlier line, although
\* the table is searched and filled under url_mutex and the line is written
\* after it is released: the search, the insertion and the append of two
\* threads that find the same link at once interleave (sf_proc.c:186-206).
NoDuplicateLine ==
  \A j \in Len(Seeds) + 1 .. Len(urlfile) :
    \A i \in 1 .. j - 1 : Key[urlfile[i].url] # Key[urlfile[j].url]

\* A key in the table is in the file or is about to be written by exactly one
\* thread: a link found again meanwhile is ignored, but never lost for that.
TableMatchesFile ==
  LET pending == {s \in Spider : pc[s] = "append"}
      written == {Key[urlfile[i].url] : i \in 1 .. Len(urlfile)}
  IN /\ keys = written \cup {Key[Target(s)] : s \in pending}
     /\ \A s \in pending : Key[Target(s)] \notin written
     /\ \A s, t \in pending : Key[Target(s)] = Key[Target(t)] => s = t

\* The threads do not leave unread lines behind: short of a limit, while the
\* file has lines nobody has taken, some thread that has not marked itself eof
\* is still running - in spite of the eof flags being read one by one, without
\* a lock, and cleared only some time after a line is taken (main.c:94-106,
\* 174, 193).
NoUrlLeftBehind ==
  pos < Len(urlfile) =>
    LimitReached \/ \E s \in Spider : pc[s] # "done" /\ ~ eof[s]

\* A thread that is marked eof has left no line of its own unread, short of a
\* limit, although it sets the flag some time after it met the end of the file
\* and others append and take lines meanwhile: the unread lines are those of a
\* thread that is not marked yet (main.c:54-59, 174-175, 193, sf_proc.c:203-206).
OwnLinesTaken ==
  \A s \in Spider : eof[s] => mine[s] <= pos \/ LimitReached

\* A thread marks itself eof only when every line is taken or a limit is met
\* (sf_include.h:74, "the end of the URL file was read").  Of two threads this
\* is false whatever the stream does, because one appends between the other's
\* EOF (main.c:54-59) and its flag (main.c:175): OwnLinesTaken is what is true
\* then.  It is asked of one thread, where only a stream that stays at its end
\* can make it false.
EofMeansFileRead ==
  [][\A s \in Spider : eof'[s] /\ ~ eof[s] =>
       pos = Len(urlfile) \/ LimitReached]_vars

\* url_count is tested without the lock that guards `line', after the page is
\* processed: every thread can take one more line than the limit, and none more.
LineBound ==
  LET most == IF SkipLine > UrlCount - 1 THEN SkipLine ELSE UrlCount - 1
  IN line <= most + SpiderCnt

\* A checkpoint of n lines is written when no thread still works on one of
\* them: a crawl resumed with -l n repeats lines but skips none.
CheckpointCovers ==
  \A s \in Spider : pc[s] \in Working => cur[s] > checkpoint

\* The program ends: no thread waits forever for the eof flag of another.
Termination == <>(AllDone \/ crashed)

(***************************************************************************)
(* The threads together implement the abstract queue.                      *)
(***************************************************************************)
F == INSTANCE Frontier WITH
       Worker  <- Spider,
       queue   <- urlfile,
       taken   <- pos,
       retired <- {s \in Spider : pc[s] = "done"}

\* Every step of the threads is a Take, a Discover, a Retire or a stutter of
\* Frontier: no line is taken twice, no page adds a link under a known key or
\* at a wrong level, and the last thread leaves no unread line short of a limit.
ImplementsFrontier == F!FSpec

\* A crawl that all threads have left has taken every line or met a limit,
\* whichever thread was the last to append one (main.c:94-106, 310-313).
CrawlComplete == F!Complete

============================================================================
