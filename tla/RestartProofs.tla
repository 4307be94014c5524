---------------------------- MODULE RestartProofs ---------------------------
(***************************************************************************)
(* Proofs about Restart: killed at any moment and started over, the crawl  *)
(* repeats no link and loses none of a page it did not miss, for any       *)
(* number of threads; a single thread may also be resumed from its last    *)
(* checkpoint.  The second half is about what a crawl reports and in which *)
(* order it takes its lines, through any number of crashes: every line     *)
(* taken is accounted for once, by any number of threads; a single         *)
(* thread's feedback is complete and its crawl goes layer by layer.        *)
(***************************************************************************)
EXTENDS RestartInv, CrawlerProofs

----------------------------------------------------------------------------
(* Steps between two crashes.                                              *)

\* A step of Restart between crashes is a step of Crawler.
LEMMA ReliableRuns ==
  ASSUME NEW s \in Spider, Reliable(s)
  PROVE  Run(s)
  BY DEF Reliable, Run

LEMMA MissesRuns ==
  ASSUME NEW s \in Spider, Misses(s)
  PROVE  Run(s)
  BY DEF Misses, Run

\* The table only grows.
LEMMA KeysGrow ==
  ASSUME NEW s \in Spider, Main(s) \/ Run(s)
  PROVE  keys \subseteq keys'
  BY FileStep DEF InsertKey

\* What a step does to the page its thread holds.
LEMMA PageStep ==
  ASSUME TypeOK, NEW s \in Spider, Main(s) \/ Reliable(s)
  PROVE  \/ ScanUrl(s) \/ FetchOk(s) \/ LinksDone(s)
         \/ LinkRejected(s) \/ KeyFound(s) \/ AppendUrl(s)
         \/ /\ UNCHANGED page
            /\ pc[s] \in {"pool", "fetch"} => pc'[s] \in {"pool", "fetch"}
            /\ pc[s] \in OnPage => pc'[s] \in OnPage
<1>1. pc \in [Spider -> Labels]
  BY DEF TypeOK
<1> USE DEF OnPage, Goto, shared, local, page
<1>2. CASE CreateSpider(s) \/ StoreSpider(s) \/ ScanEof(s) \/ MarkEof(s) \/ NewPool(s)
  BY <1>1, <1>2 DEF CreateSpider, StoreSpider, ScanEof, MarkEof, NewPool
<1>3. CASE \/ LinkAccepted(s) \/ LockUrls(s) \/ KeyNotFound(s)
           \/ LockPool(s) \/ AllocOk(s) \/ AllocFails(s) \/ InsertKey(s)
  BY <1>1, <1>3 DEF LinkAccepted, LockUrls, KeyNotFound, LockPool, AllocOk, AllocFails,
       InsertKey
<1>4. CASE \/ CheckLimit(s) \/ DoCheckpoint(s) \/ SaveCheckpoint(s)
           \/ CheckExit(s) \/ CallUnparse(s)
           \/ ReadUnparsed(s) \/ PrintUnparsed(s) \/ UnparsedEnd(s)
  BY <1>1, <1>4 DEF CheckLimit, DoCheckpoint, SaveCheckpoint, CheckExit,
       CallUnparse, ReadUnparsed, PrintUnparsed, UnparsedEnd
<1>5. CASE ReadEof(s) \/ ReadUnsetSlot(s)
  BY <1>1, <1>5 DEF ReadEof, ReadUnsetSlot
<1> QED
  BY <1>2, <1>3, <1>4, <1>5 DEF Main, Reliable

\* A link is dropped only when the ranges reject it or its key is in the table.
LEMMA DroppedLink ==
  ASSUME TypeOK, LinkInv, TableMatchesFile, NEW s \in Spider,
         LinkRejected(s) \/ KeyFound(s) \/ AppendUrl(s)
  PROVE  /\ links[s] # <<>> /\ DropLink(s) /\ pc'[s] \in OnPage /\ cur' = cur
         /\ Target(s) = NoUrl \/ Key[Target(s)] \in keys
<1>1. CASE LinkRejected(s)
  BY <1>1 DEF LinkRejected, Goto, OnPage, TypeOK
<1>2. CASE KeyFound(s)
  BY <1>2 DEF KeyFound, Goto, OnPage, OnLink, TypeOK, LinkInv
<1>3. CASE AppendUrl(s)
  <2>1. pc[s] = "append" /\ cur' = cur /\ DropLink(s) /\ pc'[s] = "href"
    BY <1>3 DEF AppendUrl, Goto, TypeOK
  <2>2. links[s] # <<>>
    BY <2>1 DEF LinkInv, OnLink, OnPage
  <2>3. Key[Target(s)] \in keys
    BY <2>1 DEF TableMatchesFile
  <2> QED BY <2>1, <2>2, <2>3 DEF OnPage
<1> QED
  BY <1>1, <1>2, <1>3

\* A link ahead of a thread stays so until it is rejected or in the table.
LEMMA AheadStep ==
  ASSUME TypeOK, LinkInv, TableMatchesFile, NEW s \in Spider,
         Main(s) \/ Reliable(s), NEW i \in Nat, NEW l \in Urls, Ahead(i, l)
  PROVE  Ahead(i, l)' \/ Rewrite[l] = NoUrl \/ Key[Rewrite[l]] \in keys
<1>1. PICK t \in Spider :
        cur[t] = i /\ pc[t] \in OnPage /\ \E k \in DOMAIN links[t] : links[t][k] = l
  BY DEF Ahead
<1>2. CASE t # s
  <2>1. pc'[t] = pc[t] /\ cur'[t] = cur[t] /\ links'[t] = links[t]
    BY <1>2, Frame, ReliableRuns
  <2> QED BY <1>1, <2>1 DEF Ahead
<1>3. CASE t = s /\ (LinkRejected(s) \/ KeyFound(s) \/ AppendUrl(s))
  <2>1. /\ links[s] # <<>> /\ DropLink(s) /\ pc'[s] \in OnPage /\ cur' = cur
        /\ Target(s) = NoUrl \/ Key[Target(s)] \in keys
    BY <1>3, DroppedLink
  <2>2. PICK k \in DOMAIN links[s] : links[s][k] = l
    BY <1>1, <1>3
  <2>3. links[s] \in Seq(Urls) /\ links'[s] = Tail(links[s])
    BY <2>1 DEF TypeOK, DropLink
  <2>4. CASE k = 1
    BY <2>1, <2>2, <2>3, <2>4 DEF Target
  <2>5. CASE k # 1
    <3>1. k - 1 \in DOMAIN Tail(links[s]) /\ Tail(links[s])[k - 1] = l
      BY <2>1, <2>2, <2>3, <2>5
    <3> QED BY <1>1, <1>3, <2>1, <2>3, <3>1 DEF Ahead
  <2> QED BY <2>4, <2>5
<1>4. CASE t = s /\ UNCHANGED page /\ pc'[s] \in OnPage
  BY <1>1, <1>4 DEF page, Ahead
<1>5. ~ (ScanUrl(t) \/ FetchOk(t) \/ LinksDone(t))
  <2>1. DOMAIN links[t] # {} /\ links[t] \in Seq(Urls)
    BY <1>1 DEF TypeOK
  <2>2. links[t] # <<>>
    BY <2>1
  <2> QED BY <1>1, <2>2 DEF ScanUrl, FetchOk, LinksDone, Goto, OnPage
<1> QED
  BY <1>1, <1>2, <1>3, <1>4, <1>5, PageStep

\* Fetching a page puts all its links ahead of the thread.
LEMMA UnfetchedStep ==
  ASSUME TypeOK, PageInv, NEW s \in Spider, Main(s) \/ Reliable(s),
         NEW i \in Nat, Unfetched(i),
         NEW n \in DOMAIN Links[urlfile[i].url], NEW l, l = Links[urlfile[i].url][n]
  PROVE  Unfetched(i)' \/ Ahead(i, l)'
<1>1. PICK t \in Spider : cur[t] = i /\ pc[t] \in {"pool", "fetch"}
  BY DEF Unfetched
<1>2. CASE t # s
  <2>1. pc'[t] = pc[t] /\ cur'[t] = cur[t]
    BY <1>2, Frame, ReliableRuns
  <2> QED BY <1>1, <2>1 DEF Unfetched
<1>3. CASE t = s /\ FetchOk(s)
  <2>1. cur'[s] = i /\ pc'[s] = "href" /\ links'[s] = Links[urlfile[i].url]
    BY <1>1, <1>3 DEF FetchOk, Goto, TypeOK, Url
  <2> QED BY <2>1 DEF Ahead, OnPage
<1>4. CASE t = s /\ UNCHANGED page /\ pc'[s] \in {"pool", "fetch"}
  BY <1>1, <1>4 DEF page, Unfetched
<1>5. ~ (ScanUrl(t) \/ LinksDone(t) \/ LinkRejected(t) \/ KeyFound(t) \/ AppendUrl(t))
  BY <1>1 DEF ScanUrl, LinksDone, LinkRejected, KeyFound, AppendUrl, Goto
<1> QED
  BY <1>1, <1>2, <1>3, <1>4, <1>5, PageStep

\* The links of a line are links of a page.
LEMMA LinkType ==
  ASSUME TypeOK, NEW i \in 1 .. pos, NEW n \in DOMAIN Links[urlfile[i].url]
  PROVE  /\ i \in Nat /\ i \in 1 .. Len(urlfile) /\ urlfile[i].url \in Urls
         /\ Links[urlfile[i].url][n] \in Urls
<1>1. i \in Nat /\ i \in 1 .. Len(urlfile) /\ urlfile \in Seq(Line)
  BY DEF TypeOK
<1>2. urlfile[i].url \in Urls
  BY <1>1, LineType
<1>3. Links[urlfile[i].url] \in Seq(Urls)
  BY <1>2, WebAssumption
<1>4. Links[urlfile[i].url][n] \in Urls
  BY <1>3
<1> QED
  BY <1>1, <1>2, <1>4

\* A thread that gives its line up touches no other line.
LEMMA MissStep ==
  ASSUME TypeOK, NEW s \in Spider, Misses(s), NEW i \in Nat, i # cur[s], NEW l
  PROVE  /\ Unfetched(i) => Unfetched(i)'
         /\ Ahead(i, l) => Ahead(i, l)'
<1>1. \A t \in Spider : cur[t] = i =>
        pc'[t] = pc[t] /\ cur'[t] = cur[t] /\ links'[t] = links[t]
  BY Frame, MissesRuns
<1> QED
  BY <1>1 DEF Unfetched, Ahead

\* The lines missed in a step: none, or the line of the thread that gives up.
MissedNow(s) ==
  \/ (Main(s) \/ Reliable(s)) /\ missed' = missed
  \/ Misses(s) /\ missed' = missed \cup {cur[s]}

LEMMA MissedNowRuns ==
  ASSUME NEW s \in Spider, MissedNow(s)
  PROVE  (Main(s) \/ Run(s)) /\ missed \subseteq missed'
  BY ReliableRuns, MissesRuns DEF MissedNow

LEMMA StepFollow ==
  ASSUME IInv, FollowInv, NEW s \in Spider, MissedNow(s)
  PROVE  FollowInv'
<1> USE DEF IInv
<1>1. pos \in Nat /\ pos <= Len(urlfile) /\ Len(urlfile) \in Nat
  BY DEF TypeOK
<1>2. ASSUME NEW i \in (1 .. pos) \ missed'
      PROVE  \/ Unfetched(i)'
             \/ \A n \in DOMAIN Links[urlfile'[i].url] :
                  LET l == Links[urlfile'[i].url][n]
                  IN \/ Rewrite[l] = NoUrl
                     \/ Key[Rewrite[l]] \in keys'
                     \/ \E t \in Spider : /\ cur'[t] = i /\ pc'[t] \in OnPage
                                          /\ \E k \in DOMAIN links'[t] : links'[t][k] = l
  <2>1. /\ i \in Nat /\ i \in (1 .. pos) \ missed
        /\ urlfile'[i] = urlfile[i] /\ keys \subseteq keys'
    BY <1>1, FileGrows, MissedNowRuns, KeysGrow
  <2>2. SUFFICES ASSUME ~ Unfetched(i)',
                        NEW n \in DOMAIN Links[urlfile[i].url],
                        NEW l, l = Links[urlfile[i].url][n]
                 PROVE  Rewrite[l] = NoUrl \/ Key[Rewrite[l]] \in keys' \/ Ahead(i, l)'
    BY <2>1 DEF Ahead
  <2>3. l \in Urls
    BY <2>1, <2>2, LinkType
  <2>4. CASE Misses(s) /\ missed' = missed \cup {cur[s]}
    <3>1. i # cur[s]
      BY <2>4
    <3>2. Rewrite[l] = NoUrl \/ Key[Rewrite[l]] \in keys \/ Ahead(i, l)
      BY <2>1, <2>2, <2>4, <3>1, MissStep DEF FollowInv
    <3> QED BY <2>1, <2>4, <3>1, <3>2, MissStep
  <2>5. CASE Main(s) \/ Reliable(s)
    <3>1. CASE Unfetched(i)
      BY <2>1, <2>2, <2>5, <3>1, UnfetchedStep
    <3>2. CASE ~ Unfetched(i)
      <4>1. Rewrite[l] = NoUrl \/ Key[Rewrite[l]] \in keys \/ Ahead(i, l)
        BY <2>1, <2>2, <3>2 DEF FollowInv
      <4> QED BY <2>1, <2>3, <2>5, <4>1, AheadStep
    <3> QED BY <3>1, <3>2
  <2> QED BY <2>4, <2>5 DEF MissedNow
<1>3. CASE pos' = pos
  BY <1>2, <1>3 DEF FollowInv, Ahead
<1>4. CASE ScanUrl(s)
  <2>1. pos' = pos + 1 /\ cur'[s] = pos + 1 /\ pc'[s] = "pool"
    BY <1>4 DEF ScanUrl, Goto, TypeOK
  <2>2. \A i \in (1 .. pos + 1) \ missed' : i \in (1 .. pos) \ missed' \/ i = pos + 1
    BY <1>1
  <2>3. ASSUME NEW i, i = pos + 1 PROVE Unfetched(i)'
    BY <2>1, <2>3 DEF Unfetched
  <2> QED BY <1>2, <2>1, <2>2, <2>3 DEF FollowInv, Ahead
<1> QED
  BY <1>3, <1>4, FileStep, MissedNowRuns

----------------------------------------------------------------------------
(* Checkpoints.                                                            *)

\* Where no thread is on a page, every line taken is through.
LEMMA ThroughWhenIdle ==
  ASSUME IInv, FollowInv, \A s \in Spider : pc[s] \notin Working
  PROVE  \A i \in (1 .. pos) \ missed : Followed(i)
<1> SUFFICES ASSUME NEW i \in (1 .. pos) \ missed,
                    NEW n \in DOMAIN Links[urlfile[i].url],
                    NEW u, u = Rewrite[Links[urlfile[i].url][n]], u # NoUrl
             PROVE  \E j \in 1 .. Len(urlfile) : Key[urlfile[j].url] = Key[u]
  BY DEF Followed
<1>1. ~ Unfetched(i) /\ ~ Ahead(i, Links[urlfile[i].url][n])
  BY DEF Unfetched, Ahead, Working, OnPage
<1>2. Key[u] \in keys
  BY <1>1 DEF FollowInv
<1>3. {s \in Spider : pc[s] = "append"} = {}
  BY DEF Working
<1> QED
  BY <1>2, <1>3 DEF IInv, TableMatchesFile

\* The file has a length after a step, and it is no shorter.
LEMMA LengthStep ==
  ASSUME IInv, NEW s \in Spider, Main(s) \/ Run(s)
  PROVE  /\ Len(urlfile) \in Nat /\ Len(urlfile') \in Nat
         /\ Len(urlfile) <= Len(urlfile')
         /\ \A j \in 1 .. Len(urlfile) : urlfile'[j] = urlfile[j]
<1>1. IInv'
  BY StepInv DEF Next
<1>2. urlfile \in Seq(Line) /\ urlfile' \in Seq(Line)
  BY <1>1 DEF IInv, TypeOK
<1>3. Len(urlfile) \in Nat /\ Len(urlfile') \in Nat
  BY <1>2
<1> QED
  BY <1>3, FileGrows DEF IInv

\* What was through stays through.
LEMMA FollowedStays ==
  ASSUME IInv, NEW s \in Spider, Main(s) \/ Run(s),
         NEW i \in 1 .. Len(urlfile), Followed(i)
  PROVE  Followed(i)'
<1>1. /\ Len(urlfile) \in Nat /\ Len(urlfile') \in Nat
      /\ Len(urlfile) <= Len(urlfile')
      /\ \A j \in 1 .. Len(urlfile) : urlfile'[j] = urlfile[j]
  BY LengthStep
<1>2. \A j \in 1 .. Len(urlfile) : j \in 1 .. Len(urlfile')
  BY <1>1
<1> QED
  BY <1>1, <1>2 DEF Followed

\* Only SaveCheckpoint writes a checkpoint.
LEMMA CheckpointStep ==
  ASSUME NEW s \in Spider, Main(s) \/ Run(s)
  PROVE  checkpoint' = checkpoint \/ SaveCheckpoint(s)
  BY SMTT(60) DEF Main, Run, file, locks, output,
       startup, page, args, shared, local,
       CreateSpider, StoreSpider, ScanUrl, ScanEof, MarkEof, NewPool,
       NewPoolFails, FetchOk, FetchFailsReported, FetchFailsIgnored, LinksDone, LinkRejected,
       LinkAccepted, LockUrls, KeyFound, KeyNotFound, LockPool, AllocOk,
       AllocFails, InsertKey, AppendUrl, CheckLimit, DoCheckpoint,
       CheckExit, CallUnparse, ReadUnparsed, PrintUnparsed, UnparsedEnd, ReadEof,
       ReadUnsetSlot

LEMMA StepSaved ==
  ASSUME IInv, FollowInv, SavedInv, NEW s \in Spider, MissedNow(s)
  PROVE  SavedInv'
<1> SUFFICES ASSUME SpiderCnt = 1
             PROVE  /\ checkpoint' <= Len(urlfile') /\ checkpoint' <= MostLines
                    /\ CheckpointFollowed'
  BY DEF SavedInv, MostLines
<1>1. (Main(s) \/ Run(s)) /\ missed \subseteq missed'
  BY MissedNowRuns
<1>2. /\ urlfile \in Seq(Line) /\ pos \in Nat /\ pos <= Len(urlfile)
      /\ Len(urlfile) \in Nat /\ checkpoint \in Nat /\ line = pos
  BY DEF IInv, TypeOK, CountInv
<1>3. Len(urlfile) <= Len(urlfile') /\ Len(urlfile') \in Nat
  BY <1>1, LengthStep
<1>4. CASE checkpoint' = checkpoint
  <2>1. \A i \in (1 .. checkpoint) \ missed : i \in 1 .. Len(urlfile) /\ Followed(i)
    BY <1>2 DEF SavedInv, CheckpointFollowed
  <2>2. \A i \in (1 .. checkpoint) \ missed : Followed(i)'
    BY <1>1, <2>1, FollowedStays
  <2> QED BY <1>1, <1>2, <1>3, <1>4, <2>2 DEF SavedInv, CheckpointFollowed
<1>5. CASE SaveCheckpoint(s)
  <2>1. checkpoint' = pos /\ pc[s] = "save" /\ urlfile' = urlfile
    BY <1>2, <1>5 DEF SaveCheckpoint, Goto, file
  <2>2. Spider = {s}
    BY DEF Spider
  <2>3. \A i \in (1 .. pos) \ missed : Followed(i)
    BY <2>1, <2>2, ThroughWhenIdle DEF Working
  <2>4. pos <= MostLines
    <3>1. Cleared = {s}
      BY <2>1, <2>2 DEF Cleared
    <3>2. Cardinality(Cleared) = 1
      BY <3>1, FS_Singleton
    <3>3. MostLines \in Int
      BY ConfAssumption DEF MostLines
    <3> QED BY <1>2, <3>2, <3>3 DEF IInv, ClearedInv
  <2>5. \A i \in (1 .. pos) \ missed' : Followed(i)'
    BY <1>1, <2>1, <2>3 DEF Followed
  <2> QED BY <1>2, <2>1, <2>4, <2>5 DEF CheckpointFollowed
<1> QED
  BY <1>1, <1>4, <1>5, CheckpointStep

----------------------------------------------------------------------------
(* The crash.                                                              *)

\* The run the theorems are about: no line is skipped at first, and several
\* threads are not resumed from a checkpoint.
FirstRun == SkipLine = 0 /\ (Resume \subseteq {"start"} \/ SpiderCnt = 1)

\* Where a crawl is resumed, the lines before are through.
LEMMA ResumedAt ==
  ASSUME IInv, SavedInv, FirstRun, NEW how \in Resume
  PROVE  /\ FirstLine(how) \in Nat /\ FirstLine(how) <= Len(urlfile)
         /\ FirstLine(how) <= MostLines
         /\ \A i \in (1 .. FirstLine(how)) \ missed : Followed(i)
<1>1. CASE how = "checkpoint"
  <2>1. SpiderCnt = 1 /\ checkpoint \in Nat
    BY <1>1 DEF FirstRun, IInv, TypeOK
  <2> QED BY <1>1, <2>1 DEF FirstLine, SavedInv, CheckpointFollowed
<1>2. CASE how # "checkpoint"
  <2>1. FirstLine(how) = 0
    BY <1>2 DEF FirstLine
  <2>2. 0 <= MostLines /\ Len(urlfile) \in Nat
    BY ConfAssumption DEF MostLines, FirstRun, IInv, TypeOK
  <2> QED BY <2>1, <2>2
<1> QED
  BY <1>1, <1>2

LEMMA CrashInv ==
  ASSUME IInv, SavedInv, FirstRun, CrashAndRestart
  PROVE  IInv' /\ FollowInv' /\ SavedInv'
<1>1. /\ missed' = missed
      /\ \E how \in Resume : Restarted(FirstLine(how))
  BY DEF CrashAndRestart
<1>13. PICK how \in Resume : Restarted(FirstLine(how))
  BY <1>1
<1> DEFINE n == FirstLine(how)
<1>2. n \in Nat /\ n <= Len(urlfile) /\ n <= MostLines
      /\ \A i \in (1 .. n) \ missed : Followed(i)
  BY ResumedAt
<1> HIDE DEF n
<1>3. /\ pos' = n /\ line' = n
      /\ streamEof' = (StickyEof /\ n > 0 /\ n = Len(urlfile))
      /\ keys' = {Key[urlfile[i].url] : i \in 1 .. Len(urlfile)}
      /\ urlMutex' = Free /\ poolMutex' = Free
      /\ slots' = 0 /\ crashed' = FALSE
      /\ urlfile' = urlfile /\ checkpoint' = checkpoint
      /\ result' = [asked |-> result.asked,
                    fetched |-> {}, failed |-> {}, unparsed |-> {}]
      /\ shown' = 0 /\ dropped' = {}
  BY <1>13 DEF Restarted, RestartedWith, n
<1>4. /\ pc' = [s \in Spider |-> "new"]
      /\ eof' = [s \in Spider |-> FALSE]
      /\ cur' = [s \in Spider |-> 0]
      /\ level' \in [Spider -> {UrlLevel, UrlLevel + 1}]
      /\ links' = [s \in Spider |-> <<>>]
      /\ from' = [s \in Spider |-> 0]
      /\ rd' = [s \in Spider |-> 0]
      /\ idx' = [s \in Spider |-> 0]
      /\ mine' = [s \in Spider |-> 0]
  BY <1>13 DEF Restarted, RestartedWith
<1>5. urlfile \in Seq(Line) /\ Len(urlfile) \in Nat /\ checkpoint \in Nat
  BY DEF IInv, TypeOK
<1>6. TypeOK'
  <2>1. keys' \subseteq {Key[u] : u \in Urls}
    BY <1>3, <1>5, LineType
  <2>2. result' \in Result /\ 0 \in 0 .. SpiderCnt
    <3>1. result.asked \in BOOLEAN
      BY DEF IInv, TypeOK, Result
    <3> QED
      BY <1>3, <3>1, SpiderAssumption DEF Result
  <2>3. level' \in [Spider -> Int]
    <3>1. {UrlLevel, UrlLevel + 1} \subseteq Int
      BY ConfAssumption
    <3> QED BY <1>4, <3>1
  <2>4. /\ pc' \in [Spider -> Labels] /\ eof' \in [Spider -> BOOLEAN]
        /\ cur' \in [Spider -> Nat] /\ links' \in [Spider -> Seq(Urls)]
        /\ from' \in [Spider -> Nat] /\ rd' \in [Spider -> Nat]
        /\ idx' \in [Spider -> 0 .. SpiderCnt] /\ mine' \in [Spider -> Nat]
    BY <1>4, <2>2 DEF Labels
  <2> QED BY <1>2, <1>3, <1>5, <2>1, <2>2, <2>3, <2>4 DEF TypeOK
<1>7. LockInv' /\ LinkInv' /\ ExitInv'
  BY <1>3, <1>4 DEF LockInv, LinkInv, ExitInv, ExitOf, OnLink, OnPage, Free, Spider
<1>14. EofInv'
  <2>1. 0 \in Spider
    BY SpiderAssumption DEF Spider
  <2>2. \A s \in Spider : Watches(s)' /\ OwnOf(s)'
    BY <1>3, <1>4, <1>5 DEF Watches, OwnOf
  <2> QED BY <2>1, <2>2 DEF EofInv
<1>8. PageInv' /\ CountInv'
  <2>1. \A s \in Spider : pc'[s] = "new" /\ cur'[s] = 0
    BY <1>4
  <2>2. PageInv'
    BY <2>1 DEF PageInv, PageOf, Working, OnPage
  <2>3. CountInv'
    BY <1>2, <1>3, ConfAssumption DEF CountInv, FirstRun
  <2> QED BY <2>2, <2>3
<1>9. TableMatchesFile' /\ NoDuplicateLine'
  BY <1>3, <1>4 DEF TableMatchesFile, NoDuplicateLine, IInv
<1>10. ClearedInv'
  <2>1. Cardinality(Cleared') \in Nat /\ Cardinality(Cleared') <= SpiderCnt
    BY SomeSpiders DEF Cleared
  <2>2. MostLines \in Int /\ SpiderCnt \in Nat
    BY ConfAssumption, SpiderAssumption DEF MostLines
  <2>3. MostLines' = MostLines
    BY DEF MostLines
  <2> QED BY <1>2, <1>3, <2>1, <2>2, <2>3 DEF ClearedInv
<1>11. FollowInv'
  <2> SUFFICES ASSUME NEW i \in (1 .. n) \ missed,
                      NEW m \in DOMAIN Links[urlfile[i].url],
                      NEW l, l = Links[urlfile[i].url][m], Rewrite[l] # NoUrl
               PROVE  Key[Rewrite[l]] \in keys'
    BY <1>1, <1>3 DEF FollowInv, Ahead
  <2>1. i \in 1 .. n
    OBVIOUS
  <2>2. Followed(i)
    BY <1>2, <2>1
  <2>3. PICK j \in 1 .. Len(urlfile) : Key[urlfile[j].url] = Key[Rewrite[l]]
    BY <2>2 DEF Followed
  <2> QED BY <1>3, <2>3
<1>12. SavedInv'
  <2>1. \A i : Followed(i) => Followed(i)'
    BY <1>3 DEF Followed
  <2>2. MostLines' = MostLines
    BY DEF MostLines
  <2> QED BY <1>1, <1>3, <2>1, <2>2 DEF SavedInv, CheckpointFollowed
<1> QED
  BY <1>6, <1>7, <1>8, <1>9, <1>10, <1>11, <1>12, <1>14 DEF IInv

----------------------------------------------------------------------------
(* The theorems.                                                           *)

LEMMA RestartInitInv ==
  ASSUME FirstRun, RestartInit
  PROVE  RInv
<1>1. IInv
  BY InitInv DEF RestartInit
<1>2. pos = 0 /\ checkpoint = 0
  BY DEF RestartInit, Init, FirstRun
<1>3. 0 <= MostLines /\ Len(urlfile) \in Nat
  BY <1>1, ConfAssumption DEF MostLines, FirstRun, IInv, TypeOK
<1> QED
  BY <1>1, <1>2, <1>3 DEF RInv, FollowInv, SavedInv, CheckpointFollowed

LEMMA RestartStepInv ==
  ASSUME FirstRun, RInv, [RestartNext]_rvars
  PROVE  RInv'
<1>1. ASSUME NEW s \in Spider, MissedNow(s) PROVE RInv'
  <2>1. Main(s) \/ Run(s)
    BY <1>1, MissedNowRuns
  <2>2. [Next]_vars
    BY <2>1 DEF Next
  <2> QED BY <1>1, <2>2, StepInv, StepFollow, StepSaved DEF RInv
<1>2. CASE CrashAndRestart
  BY <1>2, CrashInv DEF RInv
<1>3. CASE UNCHANGED <<vars, missed>>
  <2>1. IInv'
    BY <1>3, StutterInv DEF RInv
  <2>2. FollowInv' /\ SavedInv'
    <3>1. UNCHANGED <<urlfile, checkpoint, pos, keys, cur, pc, links, missed>>
      BY <1>3 DEF vars, shared, local, file, output, page
    <3>2. \A i, l : Unfetched(i)' = Unfetched(i) /\ Ahead(i, l)' = Ahead(i, l)
                     /\ Followed(i)' = Followed(i)
      BY <3>1 DEF Unfetched, Ahead, Followed
    <3>3. FollowInv'
      BY <3>1, <3>2 DEF RInv, FollowInv
    <3>4. SavedInv'
      BY <3>1, <3>2 DEF RInv, SavedInv, CheckpointFollowed, MostLines
    <3> QED BY <3>3, <3>4
  <2> QED BY <2>1, <2>2 DEF RInv
<1> QED
  BY <1>1, <1>2, <1>3 DEF RestartNext, MissedNow, Finished, rvars

\* The inductive invariant holds through any number of crashes.
THEOREM RestartInvariance ==
  ASSUME FirstRun
  PROVE  RestartSpec => []RInv
  BY RestartInitInv, RestartStepInv, PTL DEF RestartSpec

\* A crawl started over on the url.txt it was killed with repeats no line: the
\* table is rebuilt from the file (sf_proc.c:215-280).
THEOREM NoLineRepeated ==
  ASSUME FirstRun
  PROVE  RestartSpec => []NoDuplicateLine
<1>1. RInv => NoDuplicateLine
  BY DEF RInv, IInv
<1> QED
  BY <1>1, RestartInvariance, PTL

\* A crawl that has come to the end of its file has written every link of every
\* page in it, whenever it was killed: no key survives a crash without its line.
THEOREM NoLinkLost ==
  ASSUME FirstRun
  PROVE  RestartSpec => []NothingLost
<1>1. ASSUME RInv PROVE NothingLost
  <2> SUFFICES ASSUME AllDone, pos = Len(urlfile)
               PROVE  \A i \in (1 .. Len(urlfile)) \ missed : Followed(i)
    BY DEF NothingLost
  <2>1. \A s \in Spider : pc[s] \notin Working
    BY DEF AllDone, Working
  <2> QED BY <1>1, <2>1, ThroughWhenIdle DEF RInv
<1> QED
  BY <1>1, RestartInvariance, PTL

\* The lines a single thread's checkpoint counts are through.
THEOREM CheckpointIsThrough ==
  ASSUME FirstRun, SpiderCnt = 1
  PROVE  RestartSpec => []CheckpointFollowed
<1>1. RInv => CheckpointFollowed
  BY DEF RInv, SavedInv
<1> QED
  BY <1>1, RestartInvariance, PTL


----------------------------------------------------------------------------
(* Every line taken is accounted for once.                                 *)

\* The fields of result that a step can leave alone.
LEMMA ResultFields ==
  ASSUME TypeOK
  PROVE  /\ result \in Result /\ result.asked \in BOOLEAN
         /\ result.fetched \in SUBSET Nat /\ result.failed \in SUBSET Nat
         /\ result.unparsed \in SUBSET Nat
         /\ \A n : LET r == [result EXCEPT !.fetched = @ \cup {n}] IN
              /\ r.fetched = result.fetched \cup {n}
              /\ r.failed = result.failed /\ r.unparsed = result.unparsed
              /\ r.asked = result.asked
         /\ \A n : LET r == [result EXCEPT !.failed = @ \cup {n}] IN
              /\ r.failed = result.failed \cup {n}
              /\ r.fetched = result.fetched /\ r.unparsed = result.unparsed
              /\ r.asked = result.asked
         /\ \A n : LET r == [result EXCEPT !.unparsed = @ \cup {n}] IN
              /\ r.unparsed = result.unparsed \cup {n}
              /\ r.fetched = result.fetched /\ r.failed = result.failed
              /\ r.asked = result.asked
  BY DEF TypeOK, Result

\* The steps that take a line or let go of one without its links.
Settles(s) ==
  \/ ScanUrl(s) \/ NewPoolFails(s)
  \/ FetchOk(s) \/ FetchFailsReported(s) \/ FetchFailsIgnored(s)

\* Every other step leaves the accounts alone.
LEMMA AccountFrame ==
  ASSUME TypeOK, NEW s \in Spider, Main(s) \/ Run(s), ~ Settles(s)
  PROVE  /\ UNCHANGED <<cur, dropped, pos>>
         /\ result'.asked = result.asked
         /\ result'.fetched = result.fetched /\ result'.failed = result.failed
         /\ pc[s] \in {"pool", "fetch"} <=> pc'[s] \in {"pool", "fetch"}
<1>1. pc \in [Spider -> Labels]
  BY DEF TypeOK
<1> USE DEF Goto, file, output, page, args, shared, local, locks, startup
<1>2. CASE CreateSpider(s) \/ StoreSpider(s) \/ ScanEof(s) \/ MarkEof(s) \/ NewPool(s)
  BY <1>1, <1>2 DEF CreateSpider, StoreSpider, ScanEof, MarkEof, NewPool
<1>3. CASE \/ LinksDone(s) \/ LinkRejected(s) \/ LinkAccepted(s) \/ LockUrls(s)
           \/ KeyFound(s) \/ KeyNotFound(s) \/ LockPool(s)
  BY <1>1, <1>3 DEF LinksDone, LinkRejected, LinkAccepted, LockUrls, KeyFound,
       KeyNotFound, LockPool
<1>4. CASE AllocOk(s) \/ AllocFails(s) \/ InsertKey(s) \/ AppendUrl(s)
  BY <1>1, <1>4 DEF AllocOk, AllocFails, InsertKey, AppendUrl
<1>5. CASE \/ CheckLimit(s) \/ DoCheckpoint(s) \/ SaveCheckpoint(s)
           \/ CheckExit(s) \/ CallUnparse(s)
  BY <1>1, <1>5 DEF CheckLimit, DoCheckpoint, SaveCheckpoint, CheckExit, CallUnparse
<1>6. CASE ReadUnparsed(s) \/ UnparsedEnd(s) \/ ReadEof(s) \/ ReadUnsetSlot(s)
  BY <1>1, <1>6 DEF ReadUnparsed, UnparsedEnd, ReadEof, ReadUnsetSlot
<1>7. CASE PrintUnparsed(s)
  <2>1. result' = [result EXCEPT !.unparsed = @ \cup {shown}]
    BY <1>7 DEF PrintUnparsed
  <2>2. /\ result'.asked = result.asked
        /\ result'.fetched = result.fetched /\ result'.failed = result.failed
    BY <2>1, ResultFields
  <2> QED BY <1>1, <1>7, <2>2 DEF PrintUnparsed
<1> QED
  BY <1>2, <1>3, <1>4, <1>5, <1>6, <1>7 DEF Main, Run, Settles

\* A step that leaves the accounts alone.
LEMMA AccountStays ==
  ASSUME TypeOK, AccountInv, NEW s \in Spider, Main(s) \/ Run(s), ~ Settles(s),
         skipline' = skipline
  PROVE  AccountInv'
<1>1. /\ cur' = cur /\ dropped' = dropped /\ pos' = pos
      /\ result'.asked = result.asked
      /\ result'.fetched = result.fetched /\ result'.failed = result.failed
      /\ pc[s] \in {"pool", "fetch"} <=> pc'[s] \in {"pool", "fetch"}
  BY AccountFrame
<1>2. \A t \in Spider : pc[t] \in {"pool", "fetch"} <=> pc'[t] \in {"pool", "fetch"}
  BY <1>1, Frame
<1>3. \A n : Unfetched(n)' <=> Unfetched(n)
  BY <1>1, <1>2 DEF Unfetched
<1>4. Accounted' = Accounted
  BY <1>1 DEF Accounted
<1> QED
  BY <1>1, <1>2, <1>3, <1>4 DEF AccountInv

\* The line that is settled was in the hands of one thread; it no longer is.
LEMMA SettledLine ==
  ASSUME TypeOK, AccountInv, NEW s \in Spider,
         pc[s] \in {"pool", "fetch"}, pc'[s] \notin {"pool", "fetch"},
         \A t \in Spider \ {s} : pc'[t] = pc[t], cur' = cur
  PROVE  /\ cur[s] \in skipline + 1 .. pos /\ cur[s] \notin Accounted
         /\ ~ Unfetched(cur[s])'
         /\ \A n : n # cur[s] => (Unfetched(n)' <=> Unfetched(n))
         /\ \A t \in Spider : pc'[t] \in {"pool", "fetch"} => pc[t] \in {"pool", "fetch"}
<1>1. Unfetched(cur[s])
  BY DEF Unfetched
<1>2. cur[s] \in skipline + 1 .. pos /\ cur[s] \notin Accounted
  BY <1>1 DEF AccountInv
<1>3. \A t \in Spider : pc'[t] \in {"pool", "fetch"} => t # s /\ pc'[t] = pc[t]
  OBVIOUS
<1>4. ~ Unfetched(cur[s])'
  BY <1>3 DEF Unfetched, AccountInv
<1>5. ASSUME NEW n, n # cur[s] PROVE Unfetched(n)' <=> Unfetched(n)
  BY <1>3, <1>5 DEF Unfetched
<1> QED
  BY <1>2, <1>3, <1>4, <1>5

\* A line let go of with a report, or with a pool that was not to be had.
LEMMA AccountReported ==
  ASSUME TypeOK, AccountInv, NEW s \in Spider,
         NewPoolFails(s) \/ FetchFailsReported(s) \/ FetchOk(s), result.asked,
         skipline' = skipline
  PROVE  AccountInv'
<1>1. /\ pc[s] \in {"pool", "fetch"} /\ pc'[s] \notin {"pool", "fetch"}
      /\ \A t \in Spider \ {s} : pc'[t] = pc[t]
      /\ cur' = cur /\ pos' = pos
  BY DEF NewPoolFails, FetchFailsReported, FetchOk, Goto, TypeOK, page, file
<1>2. /\ cur[s] \in skipline + 1 .. pos /\ cur[s] \notin Accounted
      /\ ~ Unfetched(cur[s])'
      /\ \A n : n # cur[s] => (Unfetched(n)' <=> Unfetched(n))
      /\ \A t \in Spider : pc'[t] \in {"pool", "fetch"} => pc[t] \in {"pool", "fetch"}
  BY <1>1, SettledLine
<1>3. /\ Accounted' = Accounted \cup {cur[s]}
      /\ result'.asked = result.asked
      /\ result'.fetched \cap result'.failed = {}
  <2>0. result.fetched \cap result.failed = {} /\ cur[s] \notin result.fetched
        /\ cur[s] \notin result.failed
    BY <1>2 DEF AccountInv, Accounted
  <2>1. CASE NewPoolFails(s)
    <3>1. dropped' = dropped \cup {cur[s]} /\ result' = result
      BY <2>1 DEF NewPoolFails
    <3> QED BY <2>0, <3>1 DEF Accounted
  <2>2. CASE FetchFailsReported(s)
    <3>1. dropped' = dropped /\ result' = [result EXCEPT !.failed = @ \cup {cur[s]}]
      BY <2>2 DEF FetchFailsReported
    <3>2. /\ result'.failed = result.failed \cup {cur[s]}
          /\ result'.fetched = result.fetched /\ result'.asked = result.asked
      BY <3>1, ResultFields
    <3> QED BY <2>0, <3>1, <3>2 DEF Accounted
  <2>3. CASE FetchOk(s)
    <3>1. dropped' = dropped /\ result' = [result EXCEPT !.fetched = @ \cup {cur[s]}]
      BY <2>3 DEF FetchOk
    <3>2. /\ result'.fetched = result.fetched \cup {cur[s]}
          /\ result'.failed = result.failed /\ result'.asked = result.asked
      BY <3>1, ResultFields
    <3> QED BY <2>0, <3>1, <3>2 DEF Accounted
  <2> QED BY <2>1, <2>2, <2>3
<1> QED
  BY <1>1, <1>2, <1>3 DEF AccountInv

\* A line let go of when no feedback is asked for.
LEMMA AccountUnasked ==
  ASSUME TypeOK, AccountInv, NEW s \in Spider,
         NewPoolFails(s) \/ FetchFailsIgnored(s) \/ FetchOk(s), ~ result.asked,
         skipline' = skipline
  PROVE  AccountInv'
<1>1. /\ pc[s] \in {"pool", "fetch"} /\ pc'[s] \notin {"pool", "fetch"}
      /\ \A t \in Spider \ {s} : pc'[t] = pc[t]
      /\ cur' = cur /\ pos' = pos /\ result' = result
      /\ dropped' = dropped \/ dropped' = dropped \cup {cur[s]}
  BY DEF NewPoolFails, FetchFailsIgnored, FetchOk, Goto, TypeOK, page, file, shared, output
<1>2. /\ cur[s] \in skipline + 1 .. pos /\ cur[s] \notin Accounted
      /\ ~ Unfetched(cur[s])'
      /\ \A n : n # cur[s] => (Unfetched(n)' <=> Unfetched(n))
      /\ \A t \in Spider : pc'[t] \in {"pool", "fetch"} => pc[t] \in {"pool", "fetch"}
  BY <1>1, SettledLine
<1>3. Accounted' = Accounted \/ Accounted' = Accounted \cup {cur[s]}
  BY <1>1 DEF Accounted
<1> QED
  BY <1>1, <1>2, <1>3 DEF AccountInv

\* A new line goes to the thread that takes it.
LEMMA AccountScan ==
  ASSUME TypeOK, AccountInv, NEW s \in Spider, ScanUrl(s), skipline' = skipline
  PROVE  AccountInv'
<1>1. /\ pc[s] = "scan" /\ pc'[s] = "pool" /\ cur'[s] = pos + 1 /\ pos' = pos + 1
      /\ \A t \in Spider \ {s} : pc'[t] = pc[t] /\ cur'[t] = cur[t]
      /\ result' = result /\ dropped' = dropped
  BY DEF ScanUrl, Goto, TypeOK, output
<1>2. pos \in Nat /\ skipline \in Nat /\ skipline <= pos
  BY DEF TypeOK, AccountInv
<1>3. \A n : Unfetched(n)' <=> Unfetched(n) \/ n = pos + 1
  BY <1>1 DEF Unfetched
<1>4. Accounted' = Accounted /\ \A n \in Accounted : n \in skipline + 1 .. pos
  BY <1>1 DEF Accounted, AccountInv
<1>5. \A t \in Spider \ {s} : pc'[t] \in {"pool", "fetch"} =>
        pc[t] \in {"pool", "fetch"} /\ cur'[t] \in skipline + 1 .. pos
  BY <1>1 DEF AccountInv
<1>6. \A n \in skipline + 1 .. pos + 1 : n \in skipline + 1 .. pos \/ n = pos + 1
  BY <1>2
<1>7. /\ pos + 1 \notin skipline + 1 .. pos /\ pos + 1 \in skipline + 1 .. pos + 1
      /\ skipline + 1 .. pos \subseteq skipline + 1 .. pos + 1
      /\ skipline <= pos + 1
  BY <1>2
<1>8. ASSUME NEW t \in Spider, NEW u \in Spider,
             pc'[t] \in {"pool", "fetch"}, pc'[u] \in {"pool", "fetch"}, cur'[t] = cur'[u]
      PROVE  t = u
  BY <1>1, <1>5, <1>7, <1>8 DEF AccountInv
<1> QED
  BY <1>1, <1>2, <1>3, <1>4, <1>5, <1>6, <1>7, <1>8 DEF AccountInv

LEMMA StepAccount ==
  ASSUME TypeOK, AccountInv, NEW s \in Spider, Main(s) \/ Run(s), skipline' = skipline
  PROVE  AccountInv'
<1>1. FetchFailsReported(s) => result.asked
  BY DEF FetchFailsReported
<1>2. FetchFailsIgnored(s) => ~ result.asked
  BY DEF FetchFailsIgnored
<1> QED
  BY <1>1, <1>2, AccountStays, AccountReported, AccountUnasked, AccountScan DEF Settles

----------------------------------------------------------------------------
(* One thread.                                                             *)

\* What the steps of a single thread are about.
LEMMA SoloFacts ==
  ASSUME IInv, SpiderCnt = 1, ~ StickyEof, NEW s \in Spider
  PROVE  /\ Spider = {s} /\ s = 0
         /\ pos \in Nat /\ line = pos /\ pos <= Len(urlfile)
         /\ urlfile \in Seq(Line) /\ Len(urlfile) \in Nat
         /\ ~ streamEof /\ (AtEof <=> pos = Len(urlfile))
         /\ pc \in [Spider -> Labels] /\ eof \in [Spider -> BOOLEAN]
         /\ cur \in [Spider -> Nat] /\ level \in [Spider -> Int]
         /\ from \in [Spider -> Nat] /\ rd \in [Spider -> Nat]
         /\ idx \in [Spider -> 0 .. SpiderCnt] /\ shown \in Nat
<1>1. Spider = {s} /\ s = 0
  BY DEF Spider
<1>2. TypeOK /\ CountInv
  BY DEF IInv
<1>3. Len(urlfile) \in Nat
  BY <1>2 DEF TypeOK
<1> QED
  BY <1>1, <1>2, <1>3 DEF TypeOK, CountInv, AtEof

\* Where a thread has not come to its exit.
Quiet == Labels \ ({"mark", "exit", "alleof", "done"} \cup Unparsing)

\* The steps that matter to SoloOf and ListingOf.
Turns(s) ==
  \/ StoreSpider(s) \/ ScanUrl(s) \/ ScanEof(s) \/ MarkEof(s) \/ NewPoolFails(s)
  \/ FetchFailsReported(s) \/ CheckLimit(s) \/ CheckExit(s) \/ CallUnparse(s)
  \/ ReadUnparsed(s) \/ PrintUnparsed(s) \/ UnparsedEnd(s)
  \/ ReadEof(s) \/ ReadUnsetSlot(s)

LEMMA QuietStep ==
  ASSUME TypeOK, NEW s \in Spider, Main(s) \/ Run(s), ~ Turns(s)
  PROVE  /\ pc[s] \in Quiet /\ pc'[s] \in Quiet
         /\ pos' = pos /\ cur' = cur /\ (eof'[s] => eof[s])
         /\ result'.unparsed = result.unparsed
<1>1. pc \in [Spider -> Labels] /\ eof \in [Spider -> BOOLEAN]
  BY DEF TypeOK
<1> USE DEF Goto, file, output, page, args, shared, local, locks, startup,
            Quiet, Labels, Unparsing
<1>2. CASE CreateSpider(s) \/ NewPool(s)
  BY <1>1, <1>2 DEF CreateSpider, NewPool
<1>3. CASE FetchOk(s)
  <2>1. result' = result \/ result' = [result EXCEPT !.fetched = @ \cup {cur[s]}]
    BY <1>3 DEF FetchOk
  <2>2. result'.unparsed = result.unparsed
    BY <2>1, ResultFields
  <2> QED BY <1>1, <1>3, <2>2 DEF FetchOk
<1>4. CASE FetchFailsIgnored(s)
  BY <1>1, <1>4 DEF FetchFailsIgnored
<1>5. CASE LinksDone(s) \/ LinkRejected(s) \/ LinkAccepted(s) \/ LockUrls(s)
  BY <1>1, <1>5 DEF LinksDone, LinkRejected, LinkAccepted, LockUrls
<1>6. CASE KeyFound(s) \/ KeyNotFound(s) \/ LockPool(s)
  BY <1>1, <1>6 DEF KeyFound, KeyNotFound, LockPool
<1>7. CASE AllocOk(s) \/ AllocFails(s) \/ InsertKey(s) \/ AppendUrl(s)
  BY <1>1, <1>7 DEF AllocOk, AllocFails, InsertKey, AppendUrl
<1>8. CASE DoCheckpoint(s) \/ SaveCheckpoint(s)
  BY <1>1, <1>8 DEF DoCheckpoint, SaveCheckpoint
<1> QED
  BY <1>2, <1>3, <1>4, <1>5, <1>6, <1>7, <1>8 DEF Main, Run, Turns

\* On its way a thread has listed nothing.
LEMMA QuietSolo ==
  ASSUME NEW s \in Spider, pc[s] \in Quiet
  PROVE  /\ SoloOf(s) <=> (cur[s] # 0 => cur[s] = pos) /\ ~ eof[s]
         /\ ListingOf(s) <=> result.unparsed = {}
  BY DEF SoloOf, ListingOf, ListedBy, Quiet, Labels, Unparsing

LEMMA SoloQuiet ==
  ASSUME IInv, NEW s \in Spider, SoloOf(s), ListingOf(s), Main(s) \/ Run(s), ~ Turns(s)
  PROVE  SoloOf(s)' /\ ListingOf(s)'
<1>1. /\ pc[s] \in Quiet /\ pc'[s] \in Quiet
      /\ pos' = pos /\ cur' = cur /\ (eof'[s] => eof[s])
      /\ result'.unparsed = result.unparsed
  BY QuietStep DEF IInv
<1>2. (cur[s] # 0 => cur[s] = pos) /\ ~ eof[s] /\ result.unparsed = {}
  BY <1>1, QuietSolo
<1> QED
  BY <1>1, <1>2 DEF SoloOf, ListingOf, ListedBy, Quiet, Labels, Unparsing

\* The line is taken, or there is none.
LEMMA SoloScan ==
  ASSUME IInv, SpiderCnt = 1, ~ StickyEof, NEW s \in Spider,
         SoloOf(s), ListingOf(s), ScanUrl(s) \/ ScanEof(s)
  PROVE  SoloOf(s)' /\ ListingOf(s)'
<1>1. pc[s] \in Quiet
  BY DEF ScanUrl, ScanEof, Goto, Quiet, Labels, Unparsing
<1>2. (cur[s] # 0 => cur[s] = pos) /\ ~ eof[s] /\ result.unparsed = {}
  BY <1>1, QuietSolo
<1>3. CASE ScanUrl(s)
  <2>1. /\ pc'[s] = "pool" /\ cur'[s] = pos + 1 /\ pos' = pos + 1
        /\ eof' = eof /\ result' = result
    BY <1>3, SoloFacts DEF ScanUrl, Goto, output
  <2> QED BY <1>2, <2>1 DEF SoloOf, ListingOf, ListedBy, Unparsing
<1>4. CASE ScanEof(s)
  <2>1. /\ pc'[s] = "mark" /\ cur' = cur /\ pos' = pos /\ urlfile' = urlfile
        /\ eof' = eof /\ result' = result /\ pos = Len(urlfile)
    BY <1>4, SoloFacts DEF ScanEof, Goto, output, page
  <2> QED BY <1>2, <2>1 DEF SoloOf, ListingOf, ListedBy, Unparsing
<1> QED
  BY <1>3, <1>4

\* The end of the file was met, and no other thread has appended a line since.
LEMMA SoloMark ==
  ASSUME IInv, SpiderCnt = 1, ~ StickyEof, NEW s \in Spider,
         SoloOf(s), ListingOf(s), MarkEof(s)
  PROVE  SoloOf(s)' /\ ListingOf(s)'
<1>1. /\ pc[s] = "mark" /\ pc'[s] = "exit" /\ cur' = cur /\ pos' = pos
      /\ urlfile' = urlfile /\ result' = result
  BY SoloFacts DEF MarkEof, Goto, shared, file, output, page
<1>2. pos = Len(urlfile) /\ (cur[s] # 0 => cur[s] = pos) /\ result.unparsed = {}
  BY <1>1 DEF SoloOf, ListingOf, ListedBy, Unparsing
<1> QED
  BY <1>1, <1>2 DEF SoloOf, ListingOf, ListedBy, Unparsing

\* The line is given up.
LEMMA SoloGivesUp ==
  ASSUME IInv, SpiderCnt = 1, ~ StickyEof, NEW s \in Spider,
         SoloOf(s), ListingOf(s), NewPoolFails(s) \/ FetchFailsReported(s)
  PROVE  SoloOf(s)' /\ ListingOf(s)'
<1>1. /\ pc[s] \in Quiet /\ pc'[s] = "exit" /\ cur' = cur /\ pos' = pos
      /\ eof' = eof
  BY SoloFacts DEF NewPoolFails, FetchFailsReported, Goto, Quiet, Labels, Unparsing,
     page, file
<1>2. result'.unparsed = result.unparsed
  BY ResultFields DEF IInv, NewPoolFails, FetchFailsReported
<1>3. (cur[s] # 0 => cur[s] = pos) /\ ~ eof[s] /\ result.unparsed = {}
  BY <1>1, QuietSolo
<1> QED
  BY <1>1, <1>2, <1>3 DEF SoloOf, ListingOf, ListedBy, Unparsing

\* The limits are tested.
LEMMA SoloLimit ==
  ASSUME IInv, SpiderCnt = 1, ~ StickyEof, NEW s \in Spider,
         SoloOf(s), ListingOf(s), CheckLimit(s)
  PROVE  SoloOf(s)' /\ ListingOf(s)'
<1>1. /\ pc[s] \in Quiet /\ pc[s] \in Working
      /\ pc'[s] = IF OverLimit(s) THEN "exit" ELSE "chkpt"
      /\ eof'[s] = (eof[s] \/ OverLimit(s))
      /\ result' = result /\ cur' = cur /\ level' = level /\ pos' = pos /\ line' = line
  BY SoloFacts DEF CheckLimit, Goto, Quiet, Labels, Unparsing, Working, shared, output,
     page, file
<1>2. (cur[s] # 0 => cur[s] = pos) /\ ~ eof[s] /\ result.unparsed = {}
  BY <1>1, QuietSolo
<1>3. cur[s] # 0
  BY <1>1 DEF IInv, PageInv, PageOf
<1>4. OverLimit(s)' = OverLimit(s)
  BY <1>1 DEF OverLimit
<1> QED
  BY <1>1, <1>2, <1>3, <1>4 DEF SoloOf, ListingOf, ListedBy, Unparsing

\* The thread leaves, or goes on to the flags.
LEMMA SoloExit ==
  ASSUME IInv, SpiderCnt = 1, ~ StickyEof, NEW s \in Spider,
         SoloOf(s), ListingOf(s), CheckExit(s)
  PROVE  SoloOf(s)' /\ ListingOf(s)'
<1>1. /\ pc[s] = "exit" /\ idx'[s] = 0
      /\ pc'[s] = IF ~ OverLimit(s) THEN "alleof"
                  ELSE IF result.asked THEN "unparse" ELSE "done"
      /\ UNCHANGED <<result, eof, cur, level, pos, line, urlfile>>
  BY SoloFacts DEF CheckExit, Goto, shared, output, page, file
<1>2. result.unparsed = {} /\ (cur[s] # 0 => cur[s] = pos)
      /\ (eof[s] => pos = Len(urlfile) \/ (OverLimit(s) /\ cur[s] # 0))
  BY <1>1 DEF SoloOf, ListingOf, ListedBy, Unparsing
<1>3. cur[s] = 0 => eof[s]
  BY <1>1 DEF IInv, ExitInv, ExitOf
<1>4. CASE ~ OverLimit(s)
  BY <1>1, <1>2, <1>4 DEF SoloOf, ListingOf, ListedBy, Unparsing
<1>5. CASE OverLimit(s)
  <2>1. \/ pos = Len(urlfile) \/ line >= UrlCount
        \/ level[s] > UrlLevel /\ cur[s] # 0
    BY <1>2, <1>3, <1>5 DEF OverLimit
  <2> QED BY <1>1, <1>2, <1>5, <2>1 DEF SoloOf, ListingOf, ListedBy, Unparsing
<1> QED
  BY <1>4, <1>5

\* With its own flag read, the only thread leaves at the end of the file.
LEMMA SoloFlags ==
  ASSUME IInv, SpiderCnt = 1, ~ StickyEof, NEW s \in Spider,
         SoloOf(s), ListingOf(s), ReadEof(s) \/ ReadUnsetSlot(s)
  PROVE  SoloOf(s)' /\ ListingOf(s)'
<1>1. /\ pc[s] = "alleof" /\ UNCHANGED <<result, eof, cur, level, pos, line, urlfile>>
  BY DEF ReadEof, ReadUnsetSlot, Goto, shared, output, page, file
<1>2. result.unparsed = {} /\ (cur[s] # 0 => cur[s] = pos)
      /\ idx[s] = 0 /\ (eof[s] => pos = Len(urlfile))
  BY <1>1 DEF SoloOf, ListingOf, ListedBy, Unparsing
<1>3. CASE ReadEof(s)
  <2>1. pc'[s] = IF eof[s] THEN "done" ELSE "scan"
    BY <1>2, <1>3, SoloFacts DEF ReadEof, Goto
  <2>2. pos = Len(urlfile) => pos + 1 .. Len(urlfile) = {}
    BY SoloFacts
  <2> QED BY <1>1, <1>2, <2>1, <2>2 DEF SoloOf, ListingOf, ListedBy, Unparsing
<1>4. CASE ReadUnsetSlot(s)
  <2>1. pc'[s] = "alleof" /\ idx' = idx
    BY <1>4, SoloFacts DEF ReadUnsetSlot, Goto, args
  <2> QED BY <1>1, <1>2, <2>1 DEF SoloOf, ListingOf, ListedBy, Unparsing
<1> QED
  BY <1>3, <1>4

\* The lines left are listed, from the one after the last taken.
LEMMA SoloLists ==
  ASSUME IInv, SpiderCnt = 1, ~ StickyEof, NEW s \in Spider,
         SoloOf(s), ListingOf(s),
         CallUnparse(s) \/ ReadUnparsed(s) \/ PrintUnparsed(s) \/ UnparsedEnd(s)
  PROVE  SoloOf(s)' /\ ListingOf(s)'
<1>1. /\ pc[s] \in Unparsing /\ pc'[s] \in {"report", "print", "done"}
      /\ UNCHANGED <<eof, cur, level, pos, line, urlfile>>
  BY SoloFacts DEF CallUnparse, ReadUnparsed, PrintUnparsed, UnparsedEnd, Goto,
     Unparsing, shared, output, page, file
<1>2. /\ pos \in Nat /\ line = pos /\ Len(urlfile) \in Nat /\ rd[s] \in Nat
      /\ rd \in [Spider -> Nat] /\ from \in [Spider -> Nat]
  BY SoloFacts
<1>3. SoloOf(s)'
  BY <1>1 DEF SoloOf, Unparsing
<1>4. result.asked
  BY <1>1 DEF ListingOf
<1>5. CASE CallUnparse(s)
  <2>1. /\ pc[s] = "unparse" /\ pc'[s] = "report" /\ result' = result
        /\ from'[s] = pos /\ rd'[s] = 0
    BY <1>2, <1>5, SoloFacts DEF CallUnparse, Goto, shared, output
  <2>2. result.unparsed = {} /\ pos + 1 .. 0 = {} /\ 0 \in 0 .. Len(urlfile)
    BY <1>2, <2>1 DEF ListingOf, ListedBy, Unparsing
  <2> QED BY <1>1, <1>3, <1>4, <2>1, <2>2 DEF ListingOf, ListedBy, Unparsing
<1>6. CASE ReadUnparsed(s)
  <2>1. /\ pc[s] = "report" /\ pc'[s] = IF rd[s] < from[s] THEN "report" ELSE "print"
        /\ result' = result /\ from' = from /\ rd'[s] = rd[s] + 1 /\ shown' = rd[s] + 1
        /\ rd[s] < Len(urlfile)
    BY <1>2, <1>6, SoloFacts DEF ReadUnparsed, Goto
  <2>2. result.unparsed = pos + 1 .. rd[s] /\ from[s] = pos
    BY <2>1 DEF ListingOf, ListedBy
  <2>3. rd[s] + 1 \in 0 .. Len(urlfile)
    BY <1>2, <2>1
  <2>4. CASE rd[s] < pos
    <3>1. pos + 1 .. rd[s] = pos + 1 .. rd[s] + 1
      BY <1>2, <2>4
    <3> QED BY <1>1, <1>3, <1>4, <2>1, <2>2, <2>3, <2>4, <3>1 DEF ListingOf, ListedBy, Unparsing
  <2>5. CASE ~ (rd[s] < pos)
    <3>1. rd[s] + 1 > pos /\ (rd[s] + 1) - 1 = rd[s]
      BY <1>2, <2>5
    <3> QED BY <1>1, <1>3, <1>4, <2>1, <2>2, <2>3, <2>5, <3>1 DEF ListingOf, ListedBy, Unparsing
  <2> QED BY <2>4, <2>5
<1>7. CASE PrintUnparsed(s)
  <2>1. /\ pc[s] = "print" /\ pc'[s] = "report"
        /\ result' = [result EXCEPT !.unparsed = @ \cup {shown}]
        /\ from' = from /\ rd' = rd
    BY <1>7, SoloFacts DEF PrintUnparsed, Goto, args
  <2>2. /\ result.unparsed = pos + 1 .. rd[s] - 1 /\ from[s] = pos /\ shown = rd[s]
        /\ rd[s] > pos /\ rd[s] \in 0 .. Len(urlfile)
    BY <2>1 DEF ListingOf, ListedBy
  <2>3. result'.unparsed = result.unparsed \cup {shown} /\ result'.asked = result.asked
    BY <2>1, ResultFields DEF IInv
  <2>4. (pos + 1 .. rd[s] - 1) \cup {rd[s]} = pos + 1 .. rd[s]
    BY <1>2, <2>2
  <2> QED BY <1>1, <1>3, <1>4, <2>1, <2>2, <2>3, <2>4 DEF ListingOf, ListedBy, Unparsing
<1>8. CASE UnparsedEnd(s)
  <2>1. /\ pc[s] = "report" /\ pc'[s] = "done" /\ result' = result /\ rd[s] >= Len(urlfile)
    BY <1>8, SoloFacts DEF UnparsedEnd, Goto, shared, output
  <2>2. result.unparsed = pos + 1 .. rd[s] /\ rd[s] \in 0 .. Len(urlfile)
    BY <2>1 DEF ListingOf, ListedBy
  <2>3. rd[s] = Len(urlfile)
    BY <1>2, <2>1, <2>2
  <2> QED BY <1>1, <1>3, <1>4, <2>1, <2>2, <2>3 DEF ListingOf, ListedBy, Unparsing
<1> QED
  BY <1>5, <1>6, <1>7, <1>8

LEMMA StepSolo ==
  ASSUME IInv, SoloInv, NEW s \in Spider, Main(s) \/ Run(s)
  PROVE  SoloInv'
<1> SUFFICES ASSUME SpiderCnt = 1, ~ StickyEof
             PROVE  \A t \in Spider : SoloOf(t)' /\ ListingOf(t)'
  BY DEF SoloInv
<1>1. SoloOf(s) /\ ListingOf(s)
  BY DEF SoloInv
<1>2. CASE StoreSpider(s)
  <2>1. UNCHANGED <<pos, line, urlfile, result, shown, pc, eof, cur, level, from, rd, idx>>
    BY <1>2 DEF StoreSpider, output, file, local, page, args
  <2>2. SoloOf(s)'
    BY <1>1, <2>1 DEF SoloOf, OverLimit
  <2>3. ListingOf(s)'
    BY <1>1, <2>1 DEF ListingOf, ListedBy
  <2> QED BY <2>2, <2>3, SoloFacts
<1>3. SoloOf(s)' /\ ListingOf(s)'
  BY <1>1, <1>2, SoloFacts, SoloQuiet, SoloScan, SoloMark, SoloGivesUp, SoloLimit,
     SoloExit, SoloFlags, SoloLists DEF Turns
<1> QED
  BY <1>3, SoloFacts

----------------------------------------------------------------------------
(* Layers.                                                                 *)

LEMMA StepLayer ==
  ASSUME IInv, SoloInv, LayerInv, NEW s \in Spider, Main(s) \/ Run(s), crashes' = crashes
  PROVE  LayerInv'
<1> DEFINE Lev(i) == urlfile[i].level
           Sorted(f) == \A i, j \in 1 .. Len(f) : i < j => f[i].level <= f[j].level
           Spans(f, p) == \A i, j \in 1 .. Len(f) : p <= i => f[j].level <= f[i].level + 1
<1> SUFFICES ASSUME SpiderCnt = 1, ~ StickyEof, LayeredSeeds, crashes = 0
             PROVE  Sorted(urlfile') /\ Spans(urlfile', pos')
  BY DEF LayerInv, LayeredSeeds
<1>1. Sorted(urlfile) /\ Spans(urlfile, pos)
  BY DEF LayerInv
<1>2. SoloOf(s) /\ Spider = {s} /\ pos \in Nat /\ Len(urlfile) \in Nat
      /\ pos <= Len(urlfile) /\ urlfile \in Seq(Line)
  BY SoloFacts DEF SoloInv
<1>3. \A i \in 1 .. Len(urlfile) : Lev(i) \in Int
  BY <1>2, LineType DEF Line
<1>4. CASE urlfile' = urlfile /\ pos' = pos
  BY <1>1, <1>4
<1>5. CASE ScanUrl(s)
  <2>1. urlfile' = urlfile /\ pos' = pos + 1
    BY <1>5 DEF ScanUrl
  <2>2. \A i : pos + 1 <= i /\ i \in 1 .. Len(urlfile) => pos <= i
    BY <1>2
  <2> QED BY <1>1, <2>1, <2>2
<1>6. CASE AppendUrl(s)
  <2>1. /\ Len(urlfile') = Len(urlfile) + 1
        /\ \A i \in 1 .. Len(urlfile) : urlfile'[i] = urlfile[i]
        /\ urlfile'[Len(urlfile) + 1].level = level[s] + 1
    BY <1>6, AppendType DEF IInv
  <2>2. pos' = pos /\ pc[s] = "append"
    BY <1>6 DEF AppendUrl, Goto
  <2>3. cur[s] # 0 /\ level[s] = Lev(cur[s]) /\ cur[s] = pos
    BY <1>2, <2>2 DEF IInv, PageInv, PageOf, Working, SoloOf
  <2>4. pos \in 1 .. Len(urlfile) /\ level[s] \in Int
    BY <1>2, <1>3, <2>3
  <2>5. \A j \in 1 .. Len(urlfile) : Lev(j) <= level[s] + 1
    BY <1>1, <1>2, <2>3, <2>4
  <2>6. \A i \in 1 .. Len(urlfile) : pos <= i => level[s] <= Lev(i)
    <3> TAKE i \in 1 .. Len(urlfile)
    <3>1. pos < i => Lev(pos) <= Lev(i)
      BY <1>1, <2>4
    <3> QED BY <1>2, <1>3, <2>3, <2>4, <3>1
  <2>7. \A i \in 1 .. Len(urlfile) + 1 : i \in 1 .. Len(urlfile) \/ i = Len(urlfile) + 1
    BY <1>2
  <2>8. Sorted(urlfile')
    <3> SUFFICES ASSUME NEW i \in 1 .. Len(urlfile) + 1, NEW j \in 1 .. Len(urlfile) + 1, i < j
                 PROVE  urlfile'[i].level <= urlfile'[j].level
      BY <2>1
    <3>1. i \in 1 .. Len(urlfile)
      BY <1>2
    <3>2. CASE j \in 1 .. Len(urlfile)
      BY <1>1, <2>1, <3>1, <3>2
    <3>3. CASE j = Len(urlfile) + 1
      BY <2>1, <2>5, <3>1, <3>3
    <3> QED BY <2>7, <3>2, <3>3
  <2>9. Spans(urlfile', pos')
    <3> SUFFICES ASSUME NEW i \in 1 .. Len(urlfile) + 1, NEW j \in 1 .. Len(urlfile) + 1, pos <= i
                 PROVE  urlfile'[j].level <= urlfile'[i].level + 1
      BY <2>1, <2>2
    <3> DEFINE top == level[s] + 1
    <3>1. top \in Int /\ urlfile'[j].level \in Int /\ urlfile'[j].level <= top
      <4>1. CASE j \in 1 .. Len(urlfile)
        BY <1>3, <2>1, <2>4, <2>5, <4>1
      <4>2. CASE j = Len(urlfile) + 1
        BY <2>1, <2>4, <4>2
      <4> QED BY <2>7, <4>1, <4>2
    <3>2. urlfile'[i].level \in Int /\ level[s] <= urlfile'[i].level
      <4>1. CASE i \in 1 .. Len(urlfile)
        BY <1>3, <2>1, <2>6, <4>1
      <4>2. CASE i = Len(urlfile) + 1
        BY <2>1, <2>4, <4>2
      <4> QED BY <2>7, <4>1, <4>2
    <3> QED BY <2>4, <3>1, <3>2
  <2> QED BY <2>8, <2>9
<1> QED
  BY <1>4, <1>5, <1>6, FileStep DEF AppendUrl

----------------------------------------------------------------------------
(* The theorems.                                                           *)

LEMMA SInitInv ==
  ASSUME FirstRun, RestartInit
  PROVE  SInv
<1>1. RInv /\ IInv /\ Init /\ crashes = 0 /\ skipline = SkipLine
  BY RestartInitInv DEF RestartInit, RInv
<1>2. /\ pos = SkipLine /\ urlfile = Seeds /\ dropped = {} /\ SkipLine \in Nat
      /\ result.fetched = {} /\ result.failed = {} /\ result.unparsed = {}
      /\ pc = [s \in Spider |-> "new"] /\ cur = [s \in Spider |-> 0]
      /\ eof = [s \in Spider |-> FALSE]
  BY <1>1, ConfAssumption DEF Init
<1>3. AccountInv
  BY <1>1, <1>2 DEF AccountInv, Accounted, Unfetched
<1>4. SoloInv
  BY <1>2 DEF SoloInv, SoloOf, ListingOf, ListedBy, Unparsing
<1>5. LayerInv
  <2> SUFFICES ASSUME LayeredSeeds, NEW i \in 1 .. Len(Seeds), NEW j \in 1 .. Len(Seeds)
               PROVE  /\ i < j => Seeds[i].level <= Seeds[j].level
                      /\ Seeds[j].level <= Seeds[i].level + 1
    BY <1>1, <1>2 DEF LayerInv
  <2>1. Seeds[i].level \in Int /\ Seeds[j].level \in Int
    <3>1. Seeds[i] \in Line /\ Seeds[j] \in Line
      BY WebAssumption
    <3> QED BY <3>1 DEF Line
  <2> QED BY <2>1 DEF LayeredSeeds
<1> QED
  BY <1>1, <1>3, <1>4, <1>5 DEF SInv

\* A new process has reported nothing, and its crawl is not the first.
LEMMA SCrashInv ==
  ASSUME FirstRun, SInv, CrashAndRestart
  PROVE  AccountInv' /\ SoloInv' /\ LayerInv'
<1>1. PICK how \in Resume : Restarted(FirstLine(how)) /\ skipline' = FirstLine(how)
  BY DEF CrashAndRestart
<1>2. FirstLine(how) \in Nat
  BY ResumedAt DEF SInv, RInv
<1>3. crashes' \in Nat /\ crashes' # 0
  BY DEF CrashAndRestart, SInv, LayerInv
<1>4. /\ pos' = skipline' /\ dropped' = {}
      /\ result' = [asked |-> result.asked,
                    fetched |-> {}, failed |-> {}, unparsed |-> {}]
      /\ pc' = [s \in Spider |-> "new"]
      /\ eof' = [s \in Spider |-> FALSE]
      /\ cur' = [s \in Spider |-> 0]
  BY <1>1 DEF Restarted, RestartedWith
<1>5. result'.fetched = {} /\ result'.failed = {} /\ result'.unparsed = {}
  BY <1>4
<1>6. AccountInv'
  BY <1>1, <1>2, <1>4, <1>5 DEF AccountInv, Accounted, Unfetched
<1>7. SoloInv'
  BY <1>4, <1>5 DEF SoloInv, SoloOf, ListingOf, ListedBy, Unparsing
<1>8. LayerInv'
  BY <1>3 DEF LayerInv
<1> QED
  BY <1>6, <1>7, <1>8

LEMMA SStepInv ==
  ASSUME FirstRun, SInv, [RestartNext]_rvars
  PROVE  SInv'
<1>1. RInv'
  BY RestartStepInv DEF SInv
<1>2. ASSUME NEW s \in Spider, MissedNow(s), UNCHANGED <<crashes, skipline>>
      PROVE  AccountInv' /\ SoloInv' /\ LayerInv'
  <2>1. Main(s) \/ Run(s)
    BY <1>2, MissedNowRuns
  <2> QED
    BY <1>2, <2>1, StepAccount, StepSolo, StepLayer DEF SInv, RInv, IInv
<1>3. CrashAndRestart => AccountInv' /\ SoloInv' /\ LayerInv'
  BY SCrashInv
<1>4. ASSUME UNCHANGED <<vars, crashes, skipline>>
      PROVE  AccountInv' /\ SoloInv' /\ LayerInv'
  <2>1. UNCHANGED <<file, result, dropped, shown, local, crashes, skipline>>
    BY <1>4 DEF vars, shared, output
  <2>2. AccountInv'
    BY <2>1 DEF SInv, AccountInv, Accounted, Unfetched, file, local, page
  <2>3. SoloInv'
    BY <2>1 DEF SInv, SoloInv, SoloOf, ListingOf, ListedBy, OverLimit, file, local, page, args
  <2>4. LayerInv'
    BY <2>1 DEF SInv, LayerInv, file
  <2> QED BY <2>2, <2>3, <2>4
<1> QED
  BY <1>1, <1>2, <1>3, <1>4 DEF SInv, RestartNext, MissedNow, Finished, rvars

\* What is known of every line taken holds through any number of crashes.
THEOREM SInvariance ==
  ASSUME FirstRun
  PROVE  RestartSpec => []SInv
  BY SInitInv, SStepInv, PTL DEF RestartSpec

\* Any number of threads take a line at most once in a run, and each line taken is
\* in one thread's hands or accounted for; with url_feedback no line that is read
\* goes unreported but for want of a pool (main.c:174, 180, 214, 230).
THEOREM EachLineOnce ==
  ASSUME FirstRun
  PROVE  RestartSpec => []AccountInv
<1>1. SInv => AccountInv
  BY DEF SInv
<1> QED
  BY <1>1, SInvariance, PTL

\* With url_feedback, a crawl by one thread that has ended has reported every line
\* of the file from -l on as fetched, failed or unparsed, in one way, but for
\* those lost for want of a pool (main.c:214, 230, 299); provided that the C library
\* reads on in a file that has grown.
THEOREM FeedbackIsRight ==
  ASSUME FirstRun, SpiderCnt = 1, ~ StickyEof
  PROVE  RestartSpec => []FeedbackRight
<1>1. ASSUME SInv PROVE FeedbackRight
  <2> USE <1>1
  <2>1. PICK s \in Spider : Spider = {s}
    BY DEF Spider
  <2>2. /\ pos \in Nat /\ Len(urlfile) \in Nat /\ skipline \in Nat
    BY SoloFacts, <2>1 DEF SInv, RInv, AccountInv
  <2>3. ListingOf(s)
    BY DEF SInv, SoloInv
  <2>4. \A n \in Accounted : n \in skipline + 1 .. pos
    BY DEF SInv, AccountInv
  <2>5. result.unparsed \subseteq {n \in Int : n > pos}
    BY <2>2, <2>3, SoloFacts DEF ListingOf, ListedBy, SInv, RInv
  <2>6. result.unparsed \cap (result.fetched \cup result.failed) = {}
    BY <2>2, <2>4, <2>5 DEF Accounted
  <2>7. ASSUME result.asked, AllDone, NEW n \in skipline + 1 .. Len(urlfile)
        PROVE  n \in Accounted \cup result.unparsed
    <3>1. pc[s] = "done"
      BY <2>7 DEF AllDone
    <3>2. CASE n \in skipline + 1 .. pos
      <4>1. ~ Unfetched(n)
        BY <2>7 DEF AllDone, Unfetched
      <4> QED BY <2>7, <3>2, <4>1 DEF SInv, AccountInv
    <3>3. CASE n \in pos + 1 .. Len(urlfile)
      BY <2>3, <2>7, <3>1, <3>3 DEF ListingOf, ListedBy
    <3> QED BY <2>2, <2>7, <3>2, <3>3
  <2>8. result.fetched \cap result.failed = {}
    BY DEF SInv, AccountInv
  <2> QED BY <2>6, <2>7, <2>8 DEF FeedbackRight, Accounted
<1> QED
  BY <1>1, SInvariance, PTL

\* An uninterrupted crawl by one thread keeps the lines sorted by level and, short of
\* url_count, takes every line within url_level: the queue makes it breadth-first
\* (main.c:174, 276, sf_proc.c:204), for seeds of a level and the next.
THEOREM GoesLayerByLayer ==
  ASSUME FirstRun, SpiderCnt = 1, ~ StickyEof, LayeredSeeds
  PROVE  RestartSpec => []LayerByLayer
<1>1. ASSUME SInv PROVE LayerByLayer
  <2> USE <1>1
  <2> SUFFICES ASSUME crashes = 0
               PROVE  /\ \A i, j \in 1 .. Len(urlfile) :
                           i < j => urlfile[i].level <= urlfile[j].level
                      /\ AllDone /\ line < UrlCount =>
                           \A i \in 1 .. Len(urlfile) :
                             urlfile[i].level <= UrlLevel => i <= pos
    BY DEF LayerByLayer
  <2>1. PICK s \in Spider : Spider = {s}
    BY DEF Spider
  <2>2. /\ pos \in Nat /\ Len(urlfile) \in Nat /\ pos <= Len(urlfile) /\ line \in Nat
        /\ line = pos /\ urlfile \in Seq(Line) /\ IInv
    BY SoloFacts, <2>1 DEF SInv, RInv
  <2>3. \A i, j \in 1 .. Len(urlfile) : i < j => urlfile[i].level <= urlfile[j].level
    BY DEF SInv, LayerInv
  <2>4. ASSUME AllDone, line < UrlCount, NEW i \in 1 .. Len(urlfile),
               urlfile[i].level <= UrlLevel
        PROVE  i <= pos
    <3>1. pc[s] = "done" /\ SoloOf(s)
      BY <2>4 DEF AllDone, SInv, SoloInv
    <3>2. pos = Len(urlfile) \/ (level[s] > UrlLevel /\ cur[s] # 0 /\ cur[s] = pos)
      BY <2>2, <2>4, <3>1, ConfAssumption DEF SoloOf
    <3>3. CASE pos = Len(urlfile)
      BY <2>2, <3>3
    <3>4. CASE level[s] > UrlLevel /\ cur[s] # 0 /\ cur[s] = pos
      <4>1. level[s] = urlfile[pos].level /\ pos \in 1 .. Len(urlfile)
        BY <2>2, <3>4 DEF IInv, PageInv, PageOf
      <4>2. urlfile[pos].level \in Int /\ urlfile[i].level \in Int /\ UrlLevel \in Int
        BY <2>2, <4>1, LineType, ConfAssumption DEF Line
      <4>3. pos < i => urlfile[pos].level <= urlfile[i].level
        BY <2>3, <4>1
      <4> QED BY <2>2, <2>4, <3>4, <4>1, <4>2, <4>3
    <3> QED BY <3>2, <3>3, <3>4
  <2> QED BY <2>3, <2>4
<1> QED
  BY <1>1, SInvariance, PTL

============================================================================
