--------------------------- MODULE CrawlerProofs ---------------------------
(***************************************************************************)
(* Proofs about Crawler for any number of threads, any web, any seeds and  *)
(* any configuration.                                                      *)
(***************************************************************************)
EXTENDS CrawlerInv, FiniteSetTheorems, TLAPS

USE SpiderAssumption, ConfAssumption, WebAssumption

----------------------------------------------------------------------------
(* Facts about the data.                                                   *)

\* A line of a file has a level and a URL.
LEMMA LineType ==
  ASSUME NEW q \in Seq(Line), NEW i \in 1 .. Len(q)
  PROVE  q[i] \in Line /\ q[i].level \in Int /\ q[i].url \in Urls
<1>1. q[i] \in Line
  OBVIOUS
<1> QED
  BY <1>1 DEF Line

\* Adding line numbers to a feedback list.
LEMMA ResultType ==
  ASSUME NEW r \in Result, NEW S \in SUBSET Nat
  PROVE  /\ [r EXCEPT !.fetched = @ \cup S] \in Result
         /\ [r EXCEPT !.failed = @ \cup S] \in Result
         /\ [r EXCEPT !.unparsed = @ \cup S] \in Result
  BY DEF Result

\* A thread on a page holds a line of the file.
LEMMA UrlType ==
  ASSUME TypeOK, PageInv, NEW s \in Spider, cur[s] # 0
  PROVE  cur[s] \in 1 .. Len(urlfile) /\ Url(s) \in Urls
<1>1. urlfile \in Seq(Line) /\ pos \in Nat /\ pos <= Len(urlfile)
  BY DEF TypeOK
<1>2. cur[s] \in SkipLine + 1 .. pos
  BY DEF PageInv, PageOf
<1>3. cur[s] \in 1 .. Len(urlfile)
  BY <1>1, <1>2
<1> QED
  BY <1>1, <1>3, LineType DEF Url

\* The step that drops a page's first link keeps `links' well typed.
LEMMA DropLinkType ==
  ASSUME TypeOK, NEW s \in Spider, links[s] # <<>>, DropLink(s)
  PROVE  links' \in [Spider -> Seq(Urls)]
  BY DEF TypeOK, DropLink

----------------------------------------------------------------------------
(* Type correctness.                                                       *)

LEMMA InitType == Init => TypeOK
<1> SUFFICES ASSUME Init PROVE TypeOK
  OBVIOUS
<1>1. /\ urlfile \in Seq(Line)
      /\ pos \in Nat /\ pos <= Len(urlfile) /\ streamEof \in BOOLEAN
      /\ line \in Nat
  BY DEF Init
<1>2. keys \subseteq {Key[u] : u \in Urls}
  BY <1>1, LineType DEF Init
<1>3. UrlLevel + 1 \in Int /\ level \in [Spider -> {UrlLevel, UrlLevel + 1}]
  BY DEF Init
<1>4. level \in [Spider -> Int]
  BY <1>3
<1>5. pc \in [Spider -> Labels]
  BY DEF Init, Labels
<1>6. idx \in [Spider -> 0 .. SpiderCnt] /\ slots \in 0 .. SpiderCnt
  BY DEF Init
<1>7. result \in Result
  BY DEF Init, Result
<1>8. links \in [Spider -> Seq(Urls)]
  BY DEF Init
<1> QED
  BY <1>1, <1>2, <1>4, <1>5, <1>6, <1>7, <1>8 DEF Init, TypeOK, Free

\* The loop index of sf_all_spiders_eof stays below the number of stored slots.
LEMMA ReadEofType ==
  ASSUME TypeOK, NEW s \in Spider, ReadEof(s)
  PROVE  idx' \in [Spider -> 0 .. SpiderCnt]
<1>1. idx[s] \in 0 .. SpiderCnt /\ slots \in 0 .. SpiderCnt /\ idx[s] < slots
  BY DEF TypeOK, ReadEof
<1>2. idx[s] + 1 \in 0 .. SpiderCnt
  BY <1>1
<1>3. idx \in [Spider -> 0 .. SpiderCnt] /\ idx' = [idx EXCEPT ![s] = @ + 1]
  BY DEF TypeOK, ReadEof
<1> QED
  BY ONLY <1>2, <1>3

\* Every step of main() and of a thread keeps the types.
LEMMA StepType ==
  ASSUME TypeOK, LinkInv, PageInv, [Next]_vars
  PROVE  TypeOK'
<1> USE DEF TypeOK, Goto, Labels, Free, file, locks, output, startup, page,
            args, shared, local
<1>1. ASSUME NEW s \in Spider, CreateSpider(s) PROVE TypeOK'
  BY <1>1 DEF CreateSpider
<1>2. ASSUME NEW s \in Spider, StoreSpider(s) PROVE TypeOK'
  <2>1. slots' \in 0 .. SpiderCnt
    BY <1>2 DEF StoreSpider, Spider
  <2> QED BY <1>2, <2>1 DEF StoreSpider
<1>3. ASSUME NEW s \in Spider, ScanUrl(s) PROVE TypeOK'
  <2>0. /\ pos' = pos + 1 /\ line' = line + 1
        /\ pos \in Nat /\ line \in Nat /\ Len(urlfile) \in Nat
        /\ ~ (pos >= Len(urlfile))
    BY <1>3 DEF ScanUrl, AtEof
  <2>1. /\ pos' \in Nat /\ line' \in Nat /\ pos' <= Len(urlfile)
        /\ pos + 1 \in 1 .. Len(urlfile)
    BY ONLY <2>0
  <2>2. urlfile[pos + 1].level \in Int
    BY <2>1, LineType
  <2>3. level' \in [Spider -> Int]
    BY <1>3, <2>2 DEF ScanUrl
  <2>4. streamEof' \in BOOLEAN /\ cur' \in [Spider -> Nat]
    BY <1>3 DEF ScanUrl
  <2> QED BY <1>3, <2>1, <2>3, <2>4 DEF ScanUrl
<1>4. ASSUME NEW s \in Spider, ScanEof(s) PROVE TypeOK'
  BY <1>4 DEF ScanEof
<1>32. ASSUME NEW s \in Spider, MarkEof(s) PROVE TypeOK'
  BY <1>32 DEF MarkEof
<1>5. ASSUME NEW s \in Spider, NewPool(s) PROVE TypeOK'
  BY <1>5 DEF NewPool
<1>6. ASSUME NEW s \in Spider, NewPoolFails(s) PROVE TypeOK'
  <2>1. cur[s] \in Nat /\ dropped' = dropped \cup {cur[s]}
    BY <1>6 DEF NewPoolFails
  <2>2. dropped' \in SUBSET Nat
    BY <2>1
  <2> QED BY <1>6, <2>2 DEF NewPoolFails
<1>7. ASSUME NEW s \in Spider, FetchOk(s) PROVE TypeOK'
  <2>1. Url(s) \in Urls
    BY <1>7, UrlType DEF FetchOk, PageInv, PageOf, Working
  <2>2. links' \in [Spider -> Seq(Urls)]
    BY <1>7, <2>1 DEF FetchOk
  <2>3. {cur[s]} \in SUBSET Nat
    OBVIOUS
  <2>4. result' \in Result
    BY <1>7, <2>3, ResultType DEF FetchOk
  <2> QED BY <1>7, <2>2, <2>4 DEF FetchOk
<1>8. ASSUME NEW s \in Spider, FetchFailsReported(s) PROVE TypeOK'
  <2>1. {cur[s]} \in SUBSET Nat
    OBVIOUS
  <2>2. result' \in Result
    BY <1>8, <2>1, ResultType DEF FetchFailsReported
  <2> QED BY <1>8, <2>2 DEF FetchFailsReported
<1>9. ASSUME NEW s \in Spider, FetchFailsIgnored(s) PROVE TypeOK'
  <2>1. Url(s) \in Urls
    BY <1>9, UrlType DEF FetchFailsIgnored, PageInv, PageOf,
       Working
  <2>2. PICK n \in 0 .. Len(Links[Url(s)]) :
          links' = [links EXCEPT ![s] = SubSeq(Links[Url(s)], 1, n)]
    BY <1>9 DEF FetchFailsIgnored
  <2>3. SubSeq(Links[Url(s)], 1, n) \in Seq(Urls)
    BY <2>1
  <2>4. links' \in [Spider -> Seq(Urls)]
    BY <2>2, <2>3
  <2> QED BY <1>9, <2>4 DEF FetchFailsIgnored
<1>10. ASSUME NEW s \in Spider, LinksDone(s) PROVE TypeOK'
  BY <1>10 DEF LinksDone
<1>11. ASSUME NEW s \in Spider, LinkRejected(s) PROVE TypeOK'
  <2>1. links' \in [Spider -> Seq(Urls)]
    BY <1>11, DropLinkType DEF LinkRejected
  <2> QED BY <1>11, <2>1 DEF LinkRejected
<1>12. ASSUME NEW s \in Spider, LinkAccepted(s) PROVE TypeOK'
  BY <1>12 DEF LinkAccepted
<1>13. ASSUME NEW s \in Spider, LockUrls(s) PROVE TypeOK'
  BY <1>13 DEF LockUrls
<1>14. ASSUME NEW s \in Spider, KeyFound(s) PROVE TypeOK'
  <2>1. links' \in [Spider -> Seq(Urls)]
    BY <1>14, DropLinkType DEF KeyFound, LinkInv, OnLink, OnPage
  <2> QED BY <1>14, <2>1 DEF KeyFound
<1>15. ASSUME NEW s \in Spider, KeyNotFound(s) PROVE TypeOK'
  BY <1>15 DEF KeyNotFound
<1>16. ASSUME NEW s \in Spider, LockPool(s) PROVE TypeOK'
  BY <1>16 DEF LockPool
<1>17. ASSUME NEW s \in Spider, AllocOk(s) PROVE TypeOK'
  BY <1>17 DEF AllocOk
<1>18. ASSUME NEW s \in Spider, AllocFails(s) PROVE TypeOK'
  BY <1>18 DEF AllocFails
<1>19. ASSUME NEW s \in Spider, InsertKey(s) PROVE TypeOK'
  <2>1. Target(s) \in Urls
    BY <1>19 DEF InsertKey, LinkInv, OnLink, OnPage
  <2>2. keys' \subseteq {Key[u] : u \in Urls}
    BY <1>19, <2>1 DEF InsertKey
  <2> QED BY <1>19, <2>2 DEF InsertKey
<1>20. ASSUME NEW s \in Spider, AppendUrl(s) PROVE TypeOK'
  <2>1. links[s] # <<>> /\ Target(s) \in Urls
    BY <1>20 DEF AppendUrl, LinkInv, OnLink, OnPage
  <2>2. links' \in [Spider -> Seq(Urls)]
    BY <1>20, <2>1, DropLinkType DEF AppendUrl
  <2>3. [level |-> level[s] + 1, url |-> Target(s)] \in Line
    BY <2>1 DEF Line
  <2>4. urlfile' \in Seq(Line) /\ Len(urlfile') = Len(urlfile) + 1
    BY <1>20, <2>3 DEF AppendUrl
  <2>5. pos <= Len(urlfile')
    BY <2>4
  <2>6. pc' \in [Spider -> Labels]
    BY <1>20 DEF AppendUrl
  <2>7. mine' \in [Spider -> Nat]
    <3>1. mine \in [Spider -> Nat] /\ Len(urlfile') \in Nat
      BY <2>4
    <3> QED
      BY <1>20, <3>1 DEF AppendUrl
  <2> QED BY <1>20, <2>2, <2>4, <2>5, <2>6, <2>7 DEF AppendUrl
<1>21. ASSUME NEW s \in Spider, CheckLimit(s) PROVE TypeOK'
  BY <1>21 DEF CheckLimit
<1>22. ASSUME NEW s \in Spider, DoCheckpoint(s) PROVE TypeOK'
  BY <1>22 DEF DoCheckpoint
<1>23. ASSUME NEW s \in Spider, SaveCheckpoint(s) PROVE TypeOK'
  BY <1>23 DEF SaveCheckpoint
<1>24. ASSUME NEW s \in Spider, CheckExit(s) PROVE TypeOK'
  <2>1. idx' \in [Spider -> 0 .. SpiderCnt]
    BY <1>24 DEF CheckExit
  <2>2. pc' \in [Spider -> Labels]
    BY <1>24 DEF CheckExit
  <2> QED BY <1>24, <2>1, <2>2 DEF CheckExit
<1>25. ASSUME NEW s \in Spider, CallUnparse(s) PROVE TypeOK'
  BY <1>25 DEF CallUnparse
<1>26. ASSUME NEW s \in Spider, PrintUnparsed(s) PROVE TypeOK'
  <2>1. {shown} \in SUBSET Nat
    OBVIOUS
  <2>2. result' \in Result
    BY <1>26, <2>1, ResultType DEF PrintUnparsed
  <2>3. pc' \in [Spider -> Labels]
    BY <1>26 DEF PrintUnparsed
  <2> QED BY <1>26, <2>2, <2>3 DEF PrintUnparsed
<1>30. ASSUME NEW s \in Spider, ReadUnparsed(s) PROVE TypeOK'
  <2>0. rd \in [Spider -> Nat]
    OBVIOUS
  <2>1. rd[s] + 1 \in Nat
    BY ONLY <2>0, s \in Spider
  <2>2. rd' \in [Spider -> Nat] /\ shown' \in Nat
    BY <1>30, <2>1 DEF ReadUnparsed
  <2>3. pc' \in [Spider -> Labels]
    BY <1>30 DEF ReadUnparsed
  <2> QED BY <1>30, <2>2, <2>3 DEF ReadUnparsed
<1>31. ASSUME NEW s \in Spider, UnparsedEnd(s) PROVE TypeOK'
  BY <1>31 DEF UnparsedEnd
<1>27. ASSUME NEW s \in Spider, ReadEof(s) PROVE TypeOK'
  <2>2. idx' \in [Spider -> 0 .. SpiderCnt]
    BY <1>27, ReadEofType
  <2>3. pc' \in [Spider -> Labels]
    BY <1>27 DEF ReadEof
  <2> QED BY <1>27, <2>2, <2>3 DEF ReadEof
<1>28. ASSUME NEW s \in Spider, ReadUnsetSlot(s) PROVE TypeOK'
  BY <1>28 DEF ReadUnsetSlot
<1>29. CASE UNCHANGED vars
  BY <1>29 DEF vars
<1> QED
  BY <1>1, <1>2, <1>3, <1>4, <1>5, <1>6, <1>7, <1>8, <1>9, <1>10, <1>11,
       <1>12, <1>13, <1>14, <1>15, <1>16, <1>17, <1>18, <1>19, <1>20, <1>21, <1>22,
       <1>23, <1>24, <1>25, <1>26, <1>27, <1>28, <1>29, <1>30,
       <1>31, <1>32
     DEF Next, Main, Run, Finished

----------------------------------------------------------------------------
(* What one step of thread s can touch.                                    *)

\* A step moves one thread: what is local to the others stays.
LEMMA Frame ==
  ASSUME TypeOK, NEW s \in Spider, Main(s) \/ Run(s)
  PROVE  \A t \in Spider \ {s} :
           /\ pc'[t] = pc[t] /\ eof'[t] = eof[t] /\ cur'[t] = cur[t]
           /\ level'[t] = level[t] /\ links'[t] = links[t]
           /\ from'[t] = from[t] /\ idx'[t] = idx[t] /\ mine'[t] = mine[t]
<1>1. /\ pc \in [Spider -> Labels] /\ eof \in [Spider -> BOOLEAN]
      /\ cur \in [Spider -> Nat] /\ level \in [Spider -> Int]
      /\ links \in [Spider -> Seq(Urls)] /\ from \in [Spider -> Nat]
      /\ idx \in [Spider -> 0 .. SpiderCnt] /\ mine \in [Spider -> Nat]
  BY DEF TypeOK
<1> QED
  BY SMTT(60), <1>1 DEF Main, Run, Goto, DropLink, file, locks, output,
       startup, page, args, shared, local,
       CreateSpider, StoreSpider, ScanUrl, ScanEof, MarkEof, NewPool,
       NewPoolFails, FetchOk, FetchFailsReported, FetchFailsIgnored, LinksDone, LinkRejected,
       LinkAccepted, LockUrls, KeyFound, KeyNotFound, LockPool, AllocOk,
       AllocFails, InsertKey, AppendUrl, CheckLimit, DoCheckpoint,
       SaveCheckpoint, CheckExit, CallUnparse,
       ReadUnparsed, PrintUnparsed, UnparsedEnd, ReadEof,
       ReadUnsetSlot

\* Only ScanUrl moves the stream, only AppendUrl writes the file and only
\* InsertKey fills the table.
LEMMA FileStep ==
  ASSUME NEW s \in Spider, Main(s) \/ Run(s)
  PROVE  /\ (pos' = pos /\ line' = line) \/ ScanUrl(s)
         /\ urlfile' = urlfile \/ AppendUrl(s)
         /\ keys' = keys \/ InsertKey(s)
  BY SMTT(60) DEF Main, Run, file, locks, output,
       startup, page, args, shared, local,
       CreateSpider, StoreSpider, ScanUrl, ScanEof, MarkEof, NewPool,
       NewPoolFails, FetchOk, FetchFailsReported, FetchFailsIgnored, LinksDone, LinkRejected,
       LinkAccepted, LockUrls, KeyFound, KeyNotFound, LockPool, AllocOk,
       AllocFails, InsertKey, AppendUrl, CheckLimit, DoCheckpoint,
       SaveCheckpoint, CheckExit, CallUnparse,
       ReadUnparsed, PrintUnparsed, UnparsedEnd, ReadEof,
       ReadUnsetSlot

\* What AppendUrl writes is a line of url.txt with a new last entry.
LEMMA AppendType ==
  ASSUME TypeOK, LinkInv, NEW s \in Spider, AppendUrl(s)
  PROVE  /\ [level |-> level[s] + 1, url |-> Target(s)] \in Line
         /\ Len(urlfile') = Len(urlfile) + 1
         /\ \A i \in 1 .. Len(urlfile) : urlfile'[i] = urlfile[i]
         /\ urlfile'[Len(urlfile) + 1] =
              [level |-> level[s] + 1, url |-> Target(s)]
         /\ urlfile'[Len(urlfile) + 1].level = level[s] + 1
         /\ urlfile'[Len(urlfile) + 1].url = Target(s)
<1>1. Target(s) \in Urls /\ level[s] + 1 \in Int
  BY DEF AppendUrl, Goto, LinkInv, OnLink, OnPage, TypeOK
<1>2. [level |-> level[s] + 1, url |-> Target(s)] \in Line
  BY <1>1 DEF Line
<1>3. urlfile \in Seq(Line)
  BY DEF TypeOK
<1>4. /\ Len(urlfile') = Len(urlfile) + 1
      /\ \A i \in 1 .. Len(urlfile) : urlfile'[i] = urlfile[i]
      /\ urlfile'[Len(urlfile) + 1] =
           [level |-> level[s] + 1, url |-> Target(s)]
  BY <1>2, <1>3 DEF AppendUrl
<1> QED
  BY <1>2, <1>4

\* The file only grows, at its end; the counters only grow.
LEMMA FileGrows ==
  ASSUME TypeOK, LinkInv, NEW s \in Spider, Main(s) \/ Run(s)
  PROVE  /\ Len(urlfile) <= Len(urlfile')
         /\ \A i \in 1 .. Len(urlfile) : urlfile'[i] = urlfile[i]
         /\ pos <= pos' /\ line <= line'
<1>1. Len(urlfile) \in Nat /\ pos \in Nat /\ line \in Nat
  BY DEF TypeOK
<1>2. pos <= pos' /\ line <= line'
  BY <1>1, FileStep DEF ScanUrl
<1>3. CASE urlfile' = urlfile
  BY <1>1, <1>2, <1>3
<1>4. CASE AppendUrl(s)
  <2>1. /\ Len(urlfile') = Len(urlfile) + 1
        /\ \A i \in 1 .. Len(urlfile) : urlfile'[i] = urlfile[i]
    BY <1>4, AppendType
  <2> QED
    BY <1>1, <1>2, <2>1
<1> QED
  BY <1>3, <1>4, FileStep

\* A limit once met stays met.
LEMMA LimitStays ==
  ASSUME TypeOK, LinkInv, NEW s \in Spider, Main(s) \/ Run(s), LimitReached
  PROVE  LimitReached'
<1>0. /\ pos \in Nat /\ line \in Nat
      /\ pos <= Len(urlfile) /\ Len(urlfile) \in Nat
  BY DEF TypeOK
<1>1. pos' \in Nat /\ line' \in Nat
  BY <1>0, FileStep DEF ScanUrl
<1>2. CASE line >= UrlCount
  BY <1>0, <1>1, <1>2, FileGrows DEF LimitReached
<1>3. CASE \E i \in SkipLine + 1 .. pos : urlfile[i].level > UrlLevel
  <2>1. PICK i \in SkipLine + 1 .. pos : urlfile[i].level > UrlLevel
    BY <1>3
  <2>2. i \in 1 .. Len(urlfile) /\ i \in SkipLine + 1 .. pos'
    BY <1>0, <1>1, <2>1, FileGrows
  <2> QED
    BY <2>1, <2>2, FileGrows DEF LimitReached
<1> QED
  BY <1>2, <1>3 DEF LimitReached

----------------------------------------------------------------------------
(* The mutexes.                                                            *)

Section == {"search", "alloc", "palloc", "insert"}

\* Outside the section of sf_proc_insert_url no mutex changes hands.
LEMMA OutsideSection ==
  ASSUME TypeOK, NEW s \in Spider, Main(s) \/ Run(s)
  PROVE  \/ LockUrls(s) \/ KeyFound(s) \/ KeyNotFound(s) \/ LockPool(s)
         \/ AllocOk(s) \/ AllocFails(s) \/ InsertKey(s) \/ StoreSpider(s)
         \/ /\ UNCHANGED locks
            /\ pc[s] \notin Section /\ pc'[s] \notin Section
<1>1. pc \in [Spider -> Labels]
  BY DEF TypeOK
<1>2. CASE \/ CreateSpider(s)
           \/ ScanUrl(s)
           \/ ScanEof(s)
           \/ MarkEof(s)
           \/ NewPool(s)
           \/ NewPoolFails(s)
  BY <1>1, <1>2 DEF Section, Goto, file, locks, output, startup,
       page, args, shared, local, CreateSpider, ScanUrl, ScanEof,
       MarkEof, NewPool, NewPoolFails
<1>3. CASE \/ FetchOk(s)
           \/ FetchFailsReported(s)
           \/ FetchFailsIgnored(s)
           \/ LinksDone(s)
           \/ LinkRejected(s)
           \/ LinkAccepted(s)
  BY <1>1, <1>3 DEF Section, Goto, file, locks, output, startup,
       page, args, shared, local, FetchOk, FetchFailsReported,
       FetchFailsIgnored, LinksDone, LinkRejected, LinkAccepted
<1>4. CASE \/ AppendUrl(s)
           \/ CheckLimit(s)
           \/ DoCheckpoint(s)
           \/ SaveCheckpoint(s)
           \/ CheckExit(s)
           \/ CallUnparse(s)
  BY <1>1, <1>4 DEF Section, Goto, file, locks, output, startup,
       page, args, shared, local, AppendUrl, CheckLimit, DoCheckpoint,
       SaveCheckpoint, CheckExit, CallUnparse
<1>5. CASE \/ ReadUnparsed(s) \/ PrintUnparsed(s) \/ UnparsedEnd(s)
           \/ ReadEof(s)
           \/ ReadUnsetSlot(s)
  BY <1>1, <1>5 DEF Section, Goto, file, locks, output, startup,
       page, args, shared, local,
       ReadUnparsed, PrintUnparsed, UnparsedEnd, ReadEof, ReadUnsetSlot
<1> QED
  BY <1>2, <1>3, <1>4, <1>5 DEF Main, Run

\* Mutual exclusion is kept by every step.
LEMMA StepLock ==
  ASSUME TypeOK, LockInv, NEW s \in Spider, Main(s) \/ Run(s)
  PROVE  LockInv'
<1>1. Free \notin Spider
  BY DEF Free, Spider
<1>2. pc \in [Spider -> Labels] /\ \A t \in Spider \ {s} : pc'[t] = pc[t]
  BY Frame DEF TypeOK
<1> USE <1>1, <1>2 DEF LockInv, Goto, Section
<1>3. CASE LockUrls(s)
  BY <1>3 DEF LockUrls
<1>4. CASE KeyFound(s)
  BY <1>4 DEF KeyFound, locks
<1>5. CASE KeyNotFound(s)
  BY <1>5 DEF KeyNotFound, shared, locks
<1>6. CASE LockPool(s)
  BY <1>6 DEF LockPool
<1>7. CASE AllocOk(s)
  BY <1>7 DEF AllocOk
<1>8. CASE AllocFails(s)
  BY <1>8 DEF AllocFails, locks
<1>9. CASE InsertKey(s)
  BY <1>9 DEF InsertKey
<1>10. CASE /\ UNCHANGED locks
            /\ pc[s] \notin Section /\ pc'[s] \notin Section
  BY <1>10 DEF locks
<1>11. CASE StoreSpider(s)
  BY <1>11 DEF StoreSpider, locks, local
<1> QED
  BY <1>3, <1>4, <1>5, <1>6, <1>7, <1>8, <1>9, <1>10, <1>11, OutsideSection

----------------------------------------------------------------------------
(* The link being inserted.                                                *)

\* Every other step ends outside the steps that work on a link.
LEMMA OutsideLink ==
  ASSUME TypeOK, NEW s \in Spider, Main(s) \/ Run(s)
  PROVE  \/ LinkAccepted(s) \/ LockUrls(s) \/ KeyNotFound(s)
         \/ LockPool(s) \/ AllocOk(s) \/ AllocFails(s) \/ InsertKey(s)
         \/ StoreSpider(s)
         \/ pc'[s] \notin OnLink
<1>1. pc \in [Spider -> Labels]
  BY DEF TypeOK
<1>2. CASE \/ CreateSpider(s)
           \/ ScanUrl(s)
           \/ ScanEof(s)
           \/ MarkEof(s)
           \/ NewPool(s)
           \/ NewPoolFails(s)
  BY <1>1, <1>2 DEF OnLink, OnPage, Goto, file, locks, output, startup,
       page, args, shared, local, CreateSpider, ScanUrl, ScanEof,
       MarkEof, NewPool, NewPoolFails
<1>3. CASE \/ FetchOk(s)
           \/ FetchFailsReported(s)
           \/ FetchFailsIgnored(s)
           \/ LinksDone(s)
           \/ LinkRejected(s)
           \/ KeyFound(s)
  BY <1>1, <1>3 DEF OnLink, OnPage, Goto, file, locks, output, startup,
       page, args, shared, local, FetchOk, FetchFailsReported,
       FetchFailsIgnored, LinksDone, LinkRejected, KeyFound
<1>4. CASE \/ AppendUrl(s)
           \/ CheckLimit(s)
           \/ DoCheckpoint(s)
           \/ SaveCheckpoint(s)
           \/ CheckExit(s)
  BY <1>1, <1>4 DEF OnLink, OnPage, Goto, file, locks, output, startup,
       page, args, shared, local, AppendUrl, CheckLimit,
       DoCheckpoint, SaveCheckpoint, CheckExit
<1>5. CASE \/ CallUnparse(s)
           \/ ReadUnparsed(s) \/ PrintUnparsed(s) \/ UnparsedEnd(s)
           \/ ReadEof(s)
           \/ ReadUnsetSlot(s)
  BY <1>1, <1>5 DEF OnLink, OnPage, Goto, file, locks, output, startup,
       page, args, shared, local, CallUnparse,
       ReadUnparsed, PrintUnparsed, UnparsedEnd, ReadEof,
       ReadUnsetSlot
<1> QED
  BY <1>2, <1>3, <1>4, <1>5 DEF Main, Run

\* The accepted link stays the first one, and its key stays out of the table
\* while the thread holds url_mutex.
LEMMA StepLink ==
  ASSUME TypeOK, LockInv, LinkInv, NEW s \in Spider, Main(s) \/ Run(s)
  PROVE  LinkInv'
<1> SUFFICES ASSUME NEW t \in Spider
             PROVE  /\ pc'[t] \in OnLink => links'[t] # <<>> /\ Target(t)' \in Urls
                    /\ pc'[t] \in {"alloc", "palloc", "insert"}
                         => Key[Target(t)]' \notin keys'
  BY DEF LinkInv
<1>1. CASE t # s
  <2>1. pc'[t] = pc[t] /\ links'[t] = links[t] /\ Target(t)' = Target(t)
    BY <1>1, Frame DEF Target
  <2>2. CASE keys' = keys
    BY <2>1, <2>2 DEF LinkInv
  <2>3. CASE InsertKey(s)
    <3>1. pc[t] \notin {"alloc", "palloc", "insert"}
      BY <1>1, <2>3 DEF InsertKey, Goto, LockInv
    <3> QED
      BY <2>1, <3>1 DEF LinkInv
  <2> QED
    BY <2>2, <2>3, FileStep
<1>2. CASE t = s
  <2> USE <1>2 DEF LinkInv, OnLink, OnPage, Goto, Target, TypeOK
  <2>1. CASE LinkAccepted(s)
    <3>1. Head(links[s]) \in Urls
      BY <2>1 DEF LinkAccepted
    <3> QED
      BY <2>1, <3>1 DEF LinkAccepted, page
  <2>2. CASE LockUrls(s)
    BY <2>2 DEF LockUrls, page
  <2>3. CASE KeyNotFound(s)
    BY <2>3 DEF KeyNotFound, page, shared
  <2>4. CASE LockPool(s)
    BY <2>4 DEF LockPool, page
  <2>5. CASE AllocOk(s)
    BY <2>5 DEF AllocOk, page
  <2>6. CASE InsertKey(s)
    BY <2>6 DEF InsertKey, page
  <2>9. CASE AllocFails(s)
    BY <2>9 DEF AllocFails, page
  <2>7. CASE pc'[s] \notin OnLink
    BY <2>7
  <2>8. CASE StoreSpider(s)
    BY <2>8 DEF StoreSpider, local, page
  <2> QED
    BY <2>1, <2>2, <2>3, <2>4, <2>5, <2>6, <2>7, <2>8, <2>9, OutsideLink
<1> QED
  BY <1>1, <1>2

----------------------------------------------------------------------------
(* The line and the page of a thread.                                      *)

\* Every other step leaves the thread's line, level and links alone and does
\* not bring it onto a page.
LEMMA OutsidePage ==
  ASSUME TypeOK, NEW s \in Spider, Main(s) \/ Run(s)
  PROVE  \/ ScanUrl(s) \/ FetchOk(s) \/ FetchFailsIgnored(s)
         \/ LinkRejected(s) \/ KeyFound(s) \/ AppendUrl(s)
         \/ /\ UNCHANGED page
            /\ pc'[s] \in Working => pc[s] \in Working
            /\ pc'[s] \in OnPage => pc[s] \in OnPage
<1>1. pc \in [Spider -> Labels]
  BY DEF TypeOK
<1> USE DEF Working, OnPage, Goto, shared, local, page
<1>2. CASE \/ CreateSpider(s) \/ StoreSpider(s) \/ ScanEof(s) \/ MarkEof(s)
           \/ NewPool(s) \/ NewPoolFails(s) \/ FetchFailsReported(s)
  BY <1>1, <1>2 DEF CreateSpider, StoreSpider, ScanEof, MarkEof, NewPool,
       NewPoolFails, FetchFailsReported
<1>3. CASE \/ LinksDone(s) \/ LinkAccepted(s) \/ LockUrls(s) \/ KeyNotFound(s)
           \/ LockPool(s) \/ AllocOk(s) \/ AllocFails(s) \/ InsertKey(s)
  BY <1>1, <1>3 DEF LinksDone, LinkAccepted, LockUrls, KeyNotFound, LockPool,
       AllocOk, AllocFails, InsertKey
<1>4. CASE \/ CheckLimit(s) \/ DoCheckpoint(s) \/ SaveCheckpoint(s)
           \/ CheckExit(s) \/ CallUnparse(s)
           \/ ReadUnparsed(s) \/ PrintUnparsed(s) \/ UnparsedEnd(s)
  BY <1>1, <1>4 DEF CheckLimit, DoCheckpoint, SaveCheckpoint, CheckExit,
       CallUnparse, ReadUnparsed, PrintUnparsed, UnparsedEnd
<1>5. CASE ReadEof(s) \/ ReadUnsetSlot(s)
  BY <1>1, <1>5 DEF ReadEof, ReadUnsetSlot
<1> QED
  BY <1>2, <1>3, <1>4, <1>5 DEF Main, Run

\* What a thread holds is still in the file after any step of any thread.
LEMMA HeldStays ==
  ASSUME TypeOK, LinkInv, PageInv, NEW s \in Spider, Main(s) \/ Run(s),
         NEW t \in Spider, cur[t] # 0
  PROVE  /\ cur[t] \in SkipLine + 1 .. pos'
         /\ cur[t] \in 1 .. Len(urlfile)
         /\ urlfile'[cur[t]] = urlfile[cur[t]]
<1>1. cur[t] \in SkipLine + 1 .. pos /\ pos \in Nat /\ pos <= Len(urlfile)
  BY DEF PageInv, PageOf, TypeOK
<1>2. pos' \in Int /\ pos <= pos'
  BY <1>1, FileStep, FileGrows DEF ScanUrl
<1>3. cur[t] \in 1 .. Len(urlfile)
  BY <1>1, UrlType
<1> QED
  BY <1>1, <1>2, <1>3, FileGrows

\* Dropping the first link leaves links of the same page.
LEMMA TailOfPage ==
  ASSUME TypeOK, NEW s \in Spider, links[s] # <<>>, DropLink(s),
         \A k \in DOMAIN links[s] :
           \E n \in DOMAIN Links[Url(s)] : links[s][k] = Links[Url(s)][n]
  PROVE  \A k \in DOMAIN links'[s] :
           \E n \in DOMAIN Links[Url(s)] : links'[s][k] = Links[Url(s)][n]
<1>1. links[s] \in Seq(Urls) /\ links'[s] = Tail(links[s])
  BY DEF TypeOK, DropLink
<1>2. \A k \in DOMAIN links'[s] :
        k + 1 \in DOMAIN links[s] /\ links'[s][k] = links[s][k + 1]
  BY <1>1
<1> QED
  BY <1>2

\* What a thread holds stays a line of this run with its own links.
LEMMA StepPage ==
  ASSUME TypeOK, CountInv, LinkInv, PageInv, NEW s \in Spider, Main(s) \/ Run(s)
  PROVE  PageInv'
<1>1. OnPage \subseteq Working
  BY DEF OnPage, Working
<1>2. ASSUME NEW t \in Spider,
             cur'[t] = cur[t], level'[t] = level[t], links'[t] = links[t],
             pc'[t] \in Working => pc[t] \in Working,
             pc'[t] \in OnPage => pc[t] \in OnPage
      PROVE  PageOf(t)'
  <2>1. PageOf(t)
    BY DEF PageInv
  <2>2. CASE cur[t] = 0
    BY <1>1, <1>2, <2>1, <2>2 DEF PageOf
  <2>3. CASE cur[t] # 0
    <3>1. /\ cur[t] \in SkipLine + 1 .. pos'
          /\ urlfile'[cur[t]] = urlfile[cur[t]]
      BY <2>3, HeldStays
    <3> QED
      BY <1>2, <2>1, <2>3, <3>1 DEF PageOf, Url
  <2> QED
    BY <2>2, <2>3
<1>3. ASSUME NEW t \in Spider, t # s PROVE PageOf(t)'
  <2>1. /\ cur'[t] = cur[t] /\ level'[t] = level[t] /\ links'[t] = links[t]
        /\ pc'[t] = pc[t]
    BY <1>3, Frame
  <2> QED
    BY <1>2, <2>1
<1>4. ASSUME links[s] # <<>>, DropLink(s), pc[s] \in OnPage,
             cur' = cur, level' = level
      PROVE  PageOf(s)'
  <2>1. PageOf(s) /\ cur[s] # 0
    BY <1>1, <1>4 DEF PageInv, PageOf
  <2>2. /\ cur[s] \in SkipLine + 1 .. pos'
        /\ urlfile'[cur[s]] = urlfile[cur[s]]
    BY <2>1, HeldStays
  <2>3. \A k \in DOMAIN links[s] :
          \E n \in DOMAIN Links[Url(s)] : links[s][k] = Links[Url(s)][n]
    BY <1>4, <2>1 DEF PageOf
  <2>4. \A k \in DOMAIN links'[s] :
          \E n \in DOMAIN Links[Url(s)] : links'[s][k] = Links[Url(s)][n]
    BY <1>4, <2>3, TailOfPage
  <2> QED
    BY <1>4, <2>1, <2>2, <2>4 DEF PageOf, Url
<1>5. ASSUME ScanUrl(s) PROVE PageOf(s)'
  <2>1. /\ pc'[s] = "pool" /\ cur'[s] = pos + 1 /\ pos' = pos + 1
        /\ level'[s] = urlfile[pos + 1].level /\ urlfile' = urlfile
    BY <1>5 DEF ScanUrl, Goto, TypeOK
  <2>2. pos \in Nat /\ pos >= SkipLine
    BY DEF TypeOK, CountInv
  <2>3. cur'[s] \in SkipLine + 1 .. pos' /\ cur'[s] # 0
    BY <2>1, <2>2
  <2> QED
    BY <2>1, <2>3 DEF PageOf, OnPage
<1>6. ASSUME FetchOk(s) PROVE PageOf(s)'
  <2>0. links \in [Spider -> Seq(Urls)]
    BY DEF TypeOK
  <2>1. links'[s] = Links[Url(s)]
    BY <1>6, <2>0 DEF FetchOk
  <2>2. /\ pc[s] \in Working
        /\ urlfile' = urlfile /\ pos' = pos /\ cur' = cur /\ level' = level
    BY <1>6 DEF FetchOk, Goto, Working, file
  <2>3. PageOf(s)
    BY DEF PageInv
  <2> QED
    BY <2>1, <2>2, <2>3 DEF PageOf, Url
<1>7. ASSUME FetchFailsIgnored(s) PROVE PageOf(s)'
  <2>1. /\ pc[s] \in Working
        /\ urlfile' = urlfile /\ pos' = pos /\ cur' = cur /\ level' = level
    BY <1>7 DEF FetchFailsIgnored, Goto, Working, shared, file
  <2>2. PageOf(s)
    BY DEF PageInv
  <2>3. PICK n \in 0 .. Len(Links[Url(s)]) :
          links' = [links EXCEPT ![s] = SubSeq(Links[Url(s)], 1, n)]
    BY <1>7 DEF FetchFailsIgnored
  <2>4. links'[s] = SubSeq(Links[Url(s)], 1, n)
    BY <2>3 DEF TypeOK
  <2>5. Links[Url(s)] \in Seq(Urls)
    BY <2>1, <2>2, UrlType DEF PageOf
  <2>6. \A k \in DOMAIN links'[s] :
          k \in DOMAIN Links[Url(s)] /\ links'[s][k] = Links[Url(s)][k]
    BY <2>4, <2>5
  <2> QED
    BY <2>1, <2>2, <2>6 DEF PageOf, Url
<1>8. ASSUME LinkRejected(s) PROVE PageOf(s)'
  BY <1>4, <1>8 DEF LinkRejected, Goto, OnPage
<1>9. ASSUME KeyFound(s) PROVE PageOf(s)'
  BY <1>4, <1>9 DEF KeyFound, Goto, OnPage, OnLink, LinkInv
<1>11. ASSUME AppendUrl(s) PROVE PageOf(s)'
  BY <1>4, <1>11 DEF AppendUrl, Goto, OnPage, OnLink, LinkInv
<1>12. ASSUME /\ UNCHANGED page
              /\ pc'[s] \in Working => pc[s] \in Working
              /\ pc'[s] \in OnPage => pc[s] \in OnPage
       PROVE  PageOf(s)'
  BY <1>2, <1>12 DEF page
<1>13. PageOf(s)'
  BY <1>5, <1>6, <1>7, <1>8, <1>9, <1>11, <1>12, OutsidePage
<1> QED
  BY <1>3, <1>13 DEF PageInv

\* `line' counts the lines the stream has passed.
LEMMA StepCount ==
  ASSUME TypeOK, CountInv, NEW s \in Spider, Main(s) \/ Run(s)
  PROVE  CountInv'
<1>1. pos \in Nat /\ line = pos /\ pos >= SkipLine
  BY DEF TypeOK, CountInv
<1>2. line' = pos' /\ pos' >= SkipLine
  BY <1>1, FileStep DEF ScanUrl
<1>3. streamEof' = streamEof \/ ScanUrl(s) \/ ScanEof(s)
  BY DEF Main, Run, file, locks, output, startup, page, args, shared, local,
       CreateSpider, StoreSpider, MarkEof, NewPool, NewPoolFails,
       FetchOk, FetchFailsReported, FetchFailsIgnored, LinksDone, LinkRejected,
       LinkAccepted, LockUrls, KeyFound, KeyNotFound, LockPool, AllocOk,
       AllocFails, InsertKey, AppendUrl, CheckLimit, DoCheckpoint,
       SaveCheckpoint, CheckExit, CallUnparse,
       ReadUnparsed, PrintUnparsed, UnparsedEnd, ReadEof,
       ReadUnsetSlot
<1>4. streamEof' => StickyEof
  BY <1>3 DEF CountInv, ScanUrl, ScanEof
<1> QED
  BY <1>2, <1>4 DEF CountInv

----------------------------------------------------------------------------
(* The dedup table and the file.                                           *)

\* Every other step leaves the table, the file and the set of threads about to
\* write a line as they are.
LEMMA OutsideTable ==
  ASSUME TypeOK, NEW s \in Spider, Main(s) \/ Run(s)
  PROVE  \/ InsertKey(s) \/ AppendUrl(s)
         \/ /\ keys' = keys /\ urlfile' = urlfile
            /\ pc'[s] = "append" => pc[s] = "append" /\ links' = links
            /\ pc[s] = "append" => pc'[s] = "append"
<1>1. pc \in [Spider -> Labels]
  BY DEF TypeOK
<1> USE DEF Goto, shared, local, page, file
<1>2. CASE \/ CreateSpider(s) \/ StoreSpider(s) \/ ScanEof(s) \/ ScanUrl(s)
           \/ MarkEof(s) \/ NewPool(s) \/ NewPoolFails(s) \/ FetchFailsReported(s)
  BY <1>1, <1>2 DEF CreateSpider, StoreSpider, ScanEof, ScanUrl, MarkEof,
       NewPool, NewPoolFails, FetchFailsReported
<1>3. CASE \/ FetchOk(s) \/ FetchFailsIgnored(s) \/ LinksDone(s)
           \/ LinkRejected(s) \/ LinkAccepted(s) \/ LockUrls(s) \/ KeyFound(s)
  BY <1>1, <1>3 DEF FetchOk, FetchFailsIgnored, LinksDone, LinkRejected,
       LinkAccepted, LockUrls, KeyFound
<1>4. CASE \/ KeyNotFound(s) \/ LockPool(s) \/ AllocOk(s) \/ AllocFails(s)
           \/ CheckLimit(s) \/ DoCheckpoint(s) \/ SaveCheckpoint(s)
  BY <1>1, <1>4 DEF KeyNotFound, LockPool, AllocOk, AllocFails, CheckLimit,
       DoCheckpoint, SaveCheckpoint
<1>5. CASE \/ CheckExit(s) \/ CallUnparse(s)
           \/ ReadUnparsed(s) \/ PrintUnparsed(s) \/ UnparsedEnd(s)
           \/ ReadEof(s) \/ ReadUnsetSlot(s)
  BY <1>1, <1>5 DEF CheckExit, CallUnparse,
       ReadUnparsed, PrintUnparsed, UnparsedEnd, ReadEof,
       ReadUnsetSlot
<1> QED
  BY <1>2, <1>3, <1>4, <1>5 DEF Main, Run

Pending == {t \in Spider : pc[t] = "append"}
Written == {Key[urlfile[i].url] : i \in 1 .. Len(urlfile)}

\* A key enters the table together with a thread that is about to write it, and
\* the thread's line takes its place.
LEMMA StepTable ==
  ASSUME TypeOK, LinkInv, TableMatchesFile, NEW s \in Spider, Main(s) \/ Run(s)
  PROVE  TableMatchesFile'
<1>1. /\ keys = Written \cup {Key[Target(t)] : t \in Pending}
      /\ \A t \in Pending : Key[Target(t)] \notin Written
      /\ \A t, u \in Pending : Key[Target(t)] = Key[Target(u)] => t = u
  BY DEF TableMatchesFile, Written, Pending
<1>2. \A t \in Spider \ {s} :
        /\ pc'[t] = pc[t]
        /\ Target(t)' = Target(t)
  BY Frame DEF Target
<1>3. pc \in [Spider -> Labels]
  BY DEF TypeOK
<1>4. ASSUME /\ keys' = Written' \cup {Key[Target(t)'] : t \in Pending'}
             /\ \A t \in Pending' : Key[Target(t)'] \notin Written'
             /\ \A t, u \in Pending' : Key[Target(t)'] = Key[Target(u)'] => t = u
      PROVE  TableMatchesFile'
  BY <1>4 DEF TableMatchesFile, Written, Pending
<1>5. CASE InsertKey(s)
  <2>1. /\ keys' = keys \cup {Key[Target(s)]} /\ urlfile' = urlfile
        /\ links' = links /\ pc[s] = "insert" /\ pc'[s] = "append"
    BY <1>3, <1>5 DEF InsertKey, Goto, file, page
  <2>2. Key[Target(s)] \notin keys /\ Target(s)' = Target(s)
    BY <2>1 DEF LinkInv, Target
  <2>3. Pending' = Pending \cup {s} /\ s \notin Pending /\ Written' = Written
    BY <1>2, <2>1 DEF Pending, Written
  <2>4. \A t \in Pending' : Target(t)' = Target(t)
    BY <1>2, <2>2 DEF Pending
  <2> QED
    BY <1>1, <1>4, <2>1, <2>2, <2>3, <2>4
<1>6. CASE AppendUrl(s)
  <2>1. keys' = keys /\ pc[s] = "append" /\ pc'[s] = "href"
    BY <1>3, <1>6 DEF AppendUrl, Goto
  <2>2. s \in Pending /\ Pending' = Pending \ {s}
    BY <1>2, <2>1 DEF Pending
  <2>3. \A t \in Pending' : Target(t)' = Target(t)
    BY <1>2, <2>2 DEF Pending
  <2>4. Written' = Written \cup {Key[Target(s)]}
    <3>1. /\ Len(urlfile') = Len(urlfile) + 1 /\ Len(urlfile) \in Nat
          /\ \A i \in 1 .. Len(urlfile) : urlfile'[i] = urlfile[i]
          /\ urlfile'[Len(urlfile) + 1].url = Target(s)
      <4>1. Len(urlfile) \in Nat
        BY DEF TypeOK
      <4> QED
        BY <1>6, <4>1, AppendType
    <3>2. 1 .. Len(urlfile') = (1 .. Len(urlfile)) \cup {Len(urlfile) + 1}
      BY <3>1
    <3>3. \A i \in 1 .. Len(urlfile) : Key[urlfile'[i].url] = Key[urlfile[i].url]
      BY <3>1
    <3>4. Written' = {Key[urlfile'[i].url] : i \in 1 .. Len(urlfile')}
      BY DEF Written
    <3>5. ASSUME NEW k
          PROVE  k \in Written' <=> k \in Written \cup {Key[Target(s)]}
      <4>1. k \in Written' <=>
              \E i \in (1 .. Len(urlfile)) \cup {Len(urlfile) + 1} :
                k = Key[urlfile'[i].url]
        BY <3>2, <3>4
      <4>2. k \in Written <=> \E i \in 1 .. Len(urlfile) : k = Key[urlfile[i].url]
        BY DEF Written
      <4>3. Key[urlfile'[Len(urlfile) + 1].url] = Key[Target(s)]
        BY <3>1
      <4> QED
        BY <3>3, <4>1, <4>2, <4>3
    <3> QED
      BY <3>5
  <2> QED
    BY <1>1, <1>4, <2>1, <2>2, <2>3, <2>4
<1>7. CASE /\ keys' = keys /\ urlfile' = urlfile
           /\ pc'[s] = "append" => pc[s] = "append" /\ links' = links
           /\ pc[s] = "append" => pc'[s] = "append"
  <2>1. Pending' = Pending /\ Written' = Written
    BY <1>2, <1>7 DEF Pending, Written
  <2>2. \A t \in Pending' : Target(t)' = Target(t)
    BY <1>2, <1>7 DEF Pending, Target
  <2> QED
    BY <1>1, <1>4, <1>7, <2>1, <2>2
<1> QED
  BY <1>5, <1>6, <1>7, OutsideTable

\* A thread about to write a line has a key no line has.
LEMMA KeyIsNew ==
  ASSUME TableMatchesFile, NEW s \in Spider, pc[s] = "append"
  PROVE  \A i \in 1 .. Len(urlfile) : Key[urlfile[i].url] # Key[Target(s)]
<1>1. Key[Target(s)] \notin Written
  BY DEF TableMatchesFile, Written
<1>2. \A i \in 1 .. Len(urlfile) : Key[urlfile[i].url] \in Written
  BY DEF Written
<1> QED
  BY <1>1, <1>2

\* The line appended has a key no line has.
LEMMA StepDuplicate ==
  ASSUME TypeOK, LinkInv, TableMatchesFile, NoDuplicateLine,
         NEW s \in Spider, Main(s) \/ Run(s)
  PROVE  NoDuplicateLine'
<1>1. CASE urlfile' = urlfile
  BY <1>1 DEF NoDuplicateLine
<1>2. CASE AppendUrl(s)
  <2>1. /\ Len(urlfile') = Len(urlfile) + 1 /\ Len(urlfile) \in Nat
        /\ \A i \in 1 .. Len(urlfile) : urlfile'[i] = urlfile[i]
        /\ urlfile'[Len(urlfile) + 1].url = Target(s)
    <3>1. Len(urlfile) \in Nat
      BY DEF TypeOK
    <3> QED
      BY <1>2, <3>1, AppendType
  <2>2. \A i \in 1 .. Len(urlfile) : Key[urlfile[i].url] # Key[Target(s)]
    BY <1>2, KeyIsNew DEF AppendUrl, Goto
  <2>3. SUFFICES ASSUME NEW j \in Len(Seeds) + 1 .. Len(urlfile'),
                        NEW i \in 1 .. j - 1
                 PROVE  Key[urlfile'[i].url] # Key[urlfile'[j].url]
    BY DEF NoDuplicateLine
  <2>4. Len(Seeds) \in Nat
    OBVIOUS
  <2>5. i \in 1 .. Len(urlfile)
    BY <2>1, <2>4
  <2>6. CASE j = Len(urlfile) + 1
    BY <2>1, <2>2, <2>5, <2>6
  <2>7. CASE j # Len(urlfile) + 1
    <3>0. /\ Len(urlfile') = Len(urlfile) + 1 /\ Len(urlfile) \in Nat
          /\ j \in Len(Seeds) + 1 .. Len(urlfile')
      BY <2>1
    <3>1. j \in Len(Seeds) + 1 .. Len(urlfile) /\ j \in 1 .. Len(urlfile)
      BY ONLY <3>0, <2>4, <2>7
    <3> QED
      BY <2>1, <2>5, <3>1 DEF NoDuplicateLine
  <2> QED
    BY <2>6, <2>7
<1> QED
  BY <1>1, <1>2, FileStep

----------------------------------------------------------------------------
(* Leaving the crawl.                                                      *)

\* A thread with a line that finds itself over a limit witnesses the limit.
LEMMA OverLimitReached ==
  ASSUME TypeOK, PageInv, NEW s \in Spider, cur[s] # 0, OverLimit(s)
  PROVE  LimitReached
<1>1. cur[s] \in SkipLine + 1 .. pos /\ level[s] = urlfile[cur[s]].level
  BY DEF PageInv, PageOf
<1> QED
  BY <1>1 DEF OverLimit, LimitReached

\* While the file is not written and the stream not moved, no limit goes away.
LEMMA SameLimit ==
  ASSUME UNCHANGED file, LimitReached
  PROVE  LimitReached'
  BY DEF file, LimitReached

\* A thread that leaves is marked eof or has met a limit.
LEMMA StepExit ==
  ASSUME TypeOK, LinkInv, PageInv, ExitInv, NEW s \in Spider, Main(s) \/ Run(s)
  PROVE  ExitInv'
<1>1. ASSUME NEW t \in Spider, t # s PROVE ExitOf(t)'
  <2>1. /\ pc'[t] = pc[t] /\ eof'[t] = eof[t] /\ cur'[t] = cur[t]
        /\ idx'[t] = idx[t]
    BY <1>1, Frame
  <2>2. ExitOf(t)
    BY DEF ExitInv
  <2> QED
    BY <2>1, <2>2, LimitStays DEF ExitOf
<1>2. /\ pc \in [Spider -> Labels] /\ eof \in [Spider -> BOOLEAN]
      /\ idx \in [Spider -> 0 .. SpiderCnt]
  BY DEF TypeOK
<1>3. ExitOf(s) /\ PageOf(s)
  BY DEF ExitInv, PageInv
<1>4. ExitOf(s)'
  <2> USE DEF Goto, shared, local, page, args, OnPage
  <2>1. ASSUME \/ CreateSpider(s) \/ ScanEof(s) \/ MarkEof(s) \/ ScanUrl(s)
               \/ NewPool(s) \/ NewPoolFails(s) \/ FetchFailsReported(s)
        PROVE ExitOf(s)'
    BY <1>2, <1>3, <2>1 DEF ExitOf, PageOf, Working, CreateSpider, ScanEof,
         MarkEof, ScanUrl, NewPool, NewPoolFails, FetchFailsReported
  <2>2. ASSUME \/ FetchOk(s) \/ FetchFailsIgnored(s) \/ LinksDone(s)
               \/ LinkRejected(s) \/ LinkAccepted(s) \/ LockUrls(s) \/ KeyFound(s)
        PROVE ExitOf(s)'
    BY <1>2, <1>3, <2>2 DEF ExitOf, FetchOk, FetchFailsIgnored, LinksDone,
         LinkRejected, LinkAccepted, LockUrls, KeyFound
  <2>3. ASSUME \/ KeyNotFound(s) \/ LockPool(s) \/ AllocOk(s) \/ AllocFails(s)
               \/ InsertKey(s) \/ AppendUrl(s)
        PROVE ExitOf(s)'
    BY <1>2, <1>3, <2>3 DEF ExitOf, KeyNotFound, LockPool, AllocOk, AllocFails,
         InsertKey, AppendUrl
  <2>4. ASSUME \/ CheckLimit(s) \/ DoCheckpoint(s) \/ SaveCheckpoint(s)
        PROVE ExitOf(s)'
    BY <1>2, <1>3, <2>4 DEF ExitOf, PageOf, Working, CheckLimit, DoCheckpoint,
         SaveCheckpoint
  <2>5. ASSUME CheckExit(s) PROVE ExitOf(s)'
    <3>1. /\ eof' = eof /\ cur' = cur /\ idx'[s] = 0 /\ UNCHANGED file
          /\ pc[s] = "exit" /\ pc'[s] \in {"alleof", "unparse", "done"}
          /\ pc'[s] = "unparse" => OverLimit(s)
      BY <1>2, <2>5 DEF CheckExit
    <3>2. pc'[s] = "unparse" => eof[s] \/ LimitReached
      BY <1>3, <3>1, OverLimitReached DEF ExitOf
    <3>3. pc'[s] = "unparse" => eof[s] \/ LimitReached'
      BY <3>1, <3>2, SameLimit
    <3>4. ~ (s < 0)
      BY DEF Spider
    <3> QED
      BY <3>1, <3>3, <3>4 DEF ExitOf
  <2>6. ASSUME \/ CallUnparse(s) \/ ReadUnparsed(s)
               \/ PrintUnparsed(s) \/ UnparsedEnd(s)
        PROVE ExitOf(s)'
    <3>1. /\ eof' = eof /\ pc[s] \in {"unparse", "report", "print"}
          /\ pc'[s] \in {"report", "print", "done"}
      BY <1>2, <2>6 DEF CallUnparse, ReadUnparsed, PrintUnparsed, UnparsedEnd
    <3>2. eof[s] \/ LimitReached'
      BY <1>3, <3>1, LimitStays DEF ExitOf
    <3> QED
      BY <3>1, <3>2 DEF ExitOf
  <2>7. ASSUME ReadEof(s) PROVE ExitOf(s)'
    <3>1. /\ eof' = eof /\ cur' = cur /\ pc[s] = "alleof" /\ idx'[s] = idx[s] + 1
          /\ pc'[s] \in {"scan", "done", "alleof"}
          /\ pc'[s] = "alleof" => eof[idx[s]]
      BY <1>2, <2>7 DEF ReadEof
    <3>2. s < idx[s] + 1 => s < idx[s] \/ s = idx[s]
      BY <1>2 DEF Spider
    <3> QED
      BY <1>3, <3>1, <3>2 DEF ExitOf
  <2>8. ASSUME ReadUnsetSlot(s) \/ StoreSpider(s) PROVE ExitOf(s)'
    <3>1. /\ eof' = eof /\ cur' = cur /\ idx' = idx /\ pc'[s] = pc[s]
      BY <1>2, <2>8 DEF ReadUnsetSlot, StoreSpider
    <3> QED
      BY <1>3, <3>1, LimitStays DEF ExitOf
  <2> QED
    BY <2>1, <2>2, <2>3, <2>4, <2>5, <2>6, <2>7, <2>8 DEF Main, Run
<1> QED
  BY <1>1, <1>4 DEF ExitInv

----------------------------------------------------------------------------
(* The bound on the lines taken.                                           *)

ClearedAt == {"new", "scan", "chkpt", "save", "alleof"}

\* A thread is cleared to take one more line only by a test of `line'.
LEMMA OutsideCleared ==
  ASSUME TypeOK, NEW s \in Spider, Main(s) \/ Run(s)
  PROVE  \/ ScanUrl(s)
         \/ line' = line /\ line < UrlCount
         \/ line' = line /\ (pc'[s] \in ClearedAt => pc[s] \in ClearedAt)
<1>1. pc \in [Spider -> Labels] /\ line \in Nat
  BY DEF TypeOK
<1> USE DEF Goto, shared, local, file, ClearedAt
<1>2. CASE \/ CreateSpider(s) \/ StoreSpider(s) \/ ScanEof(s) \/ MarkEof(s)
           \/ NewPool(s) \/ NewPoolFails(s) \/ FetchOk(s) \/ FetchFailsReported(s)
  BY <1>1, <1>2 DEF CreateSpider, StoreSpider, ScanEof, MarkEof, NewPool,
       NewPoolFails, FetchOk, FetchFailsReported
<1>3. CASE \/ FetchFailsIgnored(s) \/ LinksDone(s) \/ LinkRejected(s)
           \/ LinkAccepted(s) \/ LockUrls(s) \/ KeyFound(s) \/ KeyNotFound(s)
  BY <1>1, <1>3 DEF FetchFailsIgnored, LinksDone, LinkRejected, LinkAccepted,
       LockUrls, KeyFound, KeyNotFound
<1>4. CASE \/ LockPool(s) \/ AllocOk(s) \/ AllocFails(s) \/ InsertKey(s)
           \/ AppendUrl(s) \/ DoCheckpoint(s) \/ SaveCheckpoint(s)
  BY <1>1, <1>4 DEF LockPool, AllocOk, AllocFails, InsertKey, AppendUrl,
       DoCheckpoint, SaveCheckpoint
<1>5. CASE \/ CallUnparse(s)
           \/ ReadUnparsed(s) \/ PrintUnparsed(s) \/ UnparsedEnd(s) \/ ReadEof(s)
           \/ ReadUnsetSlot(s)
  BY <1>1, <1>5 DEF CallUnparse,
       ReadUnparsed, PrintUnparsed, UnparsedEnd, ReadEof, ReadUnsetSlot
<1>6. CASE CheckLimit(s) \/ CheckExit(s)
  BY <1>1, <1>6 DEF CheckLimit, CheckExit, OverLimit
<1> QED
  BY <1>2, <1>3, <1>4, <1>5, <1>6 DEF Main, Run

\* There are finitely many threads.
LEMMA SomeSpiders ==
  ASSUME NEW S \in SUBSET Spider
  PROVE  /\ IsFiniteSet(S) /\ Cardinality(S) \in Nat
         /\ Cardinality(S) <= SpiderCnt
<1>0. /\ SpiderCnt - 1 \in Int /\ 0 \in Int
      /\ SpiderCnt = IF 0 > SpiderCnt - 1 THEN 0 ELSE SpiderCnt - 1 - 0 + 1
  OBVIOUS
<1>1. IsFiniteSet(Spider) /\ Cardinality(Spider) = SpiderCnt
  BY <1>0, FS_Interval, Zenon DEF Spider
<1>2. IsFiniteSet(S) /\ Cardinality(S) <= Cardinality(Spider)
  BY <1>1, FS_Subset
<1> QED
  BY <1>1, <1>2, FS_CardinalityType

\* A line is taken by a thread that was cleared before the limit was met.
LEMMA StepCleared ==
  ASSUME TypeOK, ClearedInv, NEW s \in Spider, Main(s) \/ Run(s)
  PROVE  ClearedInv'
<1>0. line \in Nat
  BY DEF TypeOK
<1>1. line \in Nat /\ MostLines \in Int /\ MostLines >= UrlCount - 1
      /\ MostLines' = MostLines
  BY <1>0 DEF MostLines
<1>2. \A t \in Spider \ {s} : pc'[t] = pc[t]
  BY Frame
<1>3. /\ Cleared = {t \in Spider : pc[t] \in ClearedAt}
      /\ Cleared' = {t \in Spider : pc'[t] \in ClearedAt}
  BY DEF Cleared, ClearedAt
<1>4. /\ Cardinality(Cleared) \in Nat /\ Cardinality(Cleared') \in Nat
      /\ Cardinality(Cleared') <= SpiderCnt /\ IsFiniteSet(Cleared)
  BY <1>3, SomeSpiders
<1>5. line + Cardinality(Cleared) <= MostLines + SpiderCnt
  BY DEF ClearedInv
<1>6. CASE ScanUrl(s)
  <2>1. pc[s] = "scan" /\ pc'[s] = "pool" /\ line' = line + 1
    BY <1>6 DEF ScanUrl, Goto, TypeOK
  <2>2. s \in Cleared /\ Cleared' = Cleared \ {s}
    BY <1>2, <1>3, <2>1 DEF ClearedAt
  <2>3. Cardinality(Cleared') = Cardinality(Cleared) - 1
    BY <1>4, <2>2, FS_RemoveElement
  <2>4. line' + Cardinality(Cleared') <= MostLines + SpiderCnt
    BY <1>1, <1>4, <1>5, <2>1, <2>3
  <2> QED
    BY <1>1, <2>4 DEF ClearedInv
<1>7. CASE line' = line /\ line < UrlCount
  <2>1. line' + Cardinality(Cleared') <= MostLines + SpiderCnt
    BY <1>1, <1>4, <1>7
  <2> QED
    BY <1>1, <2>1 DEF ClearedInv
<1>8. CASE line' = line /\ (pc'[s] \in ClearedAt => pc[s] \in ClearedAt)
  <2>1. Cleared' \in SUBSET Cleared
    BY <1>2, <1>3, <1>8
  <2>2. Cardinality(Cleared') <= Cardinality(Cleared)
    BY <1>4, <2>1, FS_Subset
  <2>3. line' + Cardinality(Cleared') <= MostLines + SpiderCnt
    BY <1>1, <1>4, <1>5, <1>8, <2>2
  <2> QED
    BY <1>1, <2>3 DEF ClearedInv
<1> QED
  BY <1>6, <1>7, <1>8, OutsideCleared

----------------------------------------------------------------------------
(* No unread line is left behind.                                          *)

\* A thread meets the end of the file by ScanEof or at a limit, and leaves the
\* reading of the file by ScanEof, marked eof, or at a limit.
LEMMA OutsideReaders ==
  ASSUME TypeOK, PageInv, ExitInv, NEW s \in Spider, Main(s) \/ Run(s)
  PROVE  \/ AppendUrl(s) \/ ScanEof(s)
         \/ /\ urlfile' = urlfile /\ mine' = mine
            /\ eof'[s] \/ pc'[s] = "mark" => eof[s] \/ pc[s] = "mark" \/ LimitReached
            /\ Watches(s) => Watches(s)' \/ LimitReached
<1>1. /\ pc \in [Spider -> Labels] /\ eof \in [Spider -> BOOLEAN]
      /\ idx \in [Spider -> 0 .. SpiderCnt]
  BY DEF TypeOK
<1>2. ExitOf(s) /\ PageOf(s)
  BY DEF ExitInv, PageInv
<1> USE DEF Goto, shared, local, file, page, args, Watches
<1>3. CASE \/ CreateSpider(s) \/ StoreSpider(s) \/ ScanUrl(s) \/ MarkEof(s) \/ NewPool(s)
           \/ NewPoolFails(s) \/ FetchOk(s) \/ FetchFailsReported(s)
  BY <1>1, <1>3 DEF CreateSpider, StoreSpider, ScanUrl, MarkEof, NewPool,
       NewPoolFails, FetchOk, FetchFailsReported
<1>4. CASE \/ FetchFailsIgnored(s) \/ LinksDone(s) \/ LinkRejected(s)
           \/ LinkAccepted(s) \/ LockUrls(s) \/ KeyFound(s) \/ KeyNotFound(s)
  BY <1>1, <1>4 DEF FetchFailsIgnored, LinksDone, LinkRejected, LinkAccepted,
       LockUrls, KeyFound, KeyNotFound
<1>5. CASE \/ LockPool(s) \/ AllocOk(s) \/ AllocFails(s) \/ InsertKey(s)
           \/ DoCheckpoint(s) \/ SaveCheckpoint(s) \/ CallUnparse(s)
           \/ ReadUnsetSlot(s)
  BY <1>1, <1>5 DEF LockPool, AllocOk, AllocFails, InsertKey, DoCheckpoint,
       SaveCheckpoint, CallUnparse, ReadUnsetSlot
<1>6. CASE CheckLimit(s)
  <2>1. OverLimit(s) => LimitReached
    BY <1>2, <1>6, OverLimitReached DEF CheckLimit, PageOf, Working
  <2> QED
    BY <1>1, <1>6, <2>1 DEF CheckLimit
<1>7. CASE CheckExit(s)
  <2>1. OverLimit(s) => eof[s] \/ LimitReached
    BY <1>2, <1>7, OverLimitReached DEF CheckExit, ExitOf
  <2> QED
    BY <1>1, <1>7, <2>1 DEF CheckExit
<1>8. CASE ReadUnparsed(s) \/ PrintUnparsed(s) \/ UnparsedEnd(s)
  BY <1>1, <1>2, <1>8 DEF ReadUnparsed, PrintUnparsed, UnparsedEnd, ExitOf
<1>9. CASE ReadEof(s)
  <2>1. /\ pc[s] = "alleof" /\ urlfile' = urlfile /\ eof' = eof /\ mine' = mine
        /\ pc'[s] \in {"scan", "alleof", "done"}
        /\ pc'[s] = "done" => eof[idx[s]] /\ idx[s] + 1 = SpiderCnt
    BY <1>1, <1>9 DEF ReadEof
  <2>2. idx[s] + 1 = SpiderCnt => s < idx[s] \/ s = idx[s]
    BY <1>1 DEF Spider
  <2> QED
    BY <1>2, <2>1, <2>2 DEF ExitOf
<1> QED
  BY <1>3, <1>4, <1>5, <1>6, <1>7, <1>8, <1>9 DEF Main, Run

\* With a stream that forgets EOF, a thread is left that will read the file
\* again, and no thread leaves a line of its own unread.
LEMMA StepEofInv ==
  ASSUME TypeOK, LinkInv, PageInv, CountInv, ExitInv, EofInv,
         NEW s \in Spider, Main(s) \/ Run(s)
  PROVE  EofInv'
<1>0. /\ urlfile \in Seq(Line) /\ pos \in Nat /\ pos <= Len(urlfile)
      /\ pc \in [Spider -> Labels] /\ eof \in [Spider -> BOOLEAN]
      /\ mine \in [Spider -> Nat]
  BY DEF TypeOK
<1>9. Len(urlfile) \in Nat
  BY <1>0
<1>1. \A t \in Spider \ {s} :
        /\ pc'[t] = pc[t] /\ eof'[t] = eof[t] /\ mine'[t] = mine[t]
        /\ Watches(t)' = Watches(t)
  BY Frame DEF Watches
<1>2. /\ pos' \in Nat /\ pos <= pos' /\ Len(urlfile) <= Len(urlfile')
      /\ Len(urlfile') \in Nat
  <2>1. pos' \in Nat
    BY <1>0, FileStep DEF ScanUrl
  <2>2. Len(urlfile') \in Nat
    BY <1>9, AppendType, FileStep
  <2> QED
    BY <2>1, <2>2, FileGrows
<1>3. LimitReached => LimitReached'
  BY LimitStays
<1>4. ASSUME NEW t \in Spider, t # s PROVE OwnOf(t)'
  <2>1. OwnOf(t) /\ mine[t] \in Nat
    BY <1>0 DEF EofInv
  <2> QED
    BY <1>0, <1>1, <1>2, <1>3, <1>4, <1>9, <2>1 DEF OwnOf
<1>5. OwnOf(s) /\ mine[s] \in Nat
  BY <1>0 DEF EofInv
<1>6. CASE AppendUrl(s)
  <2>1. /\ pc'[s] = "href" /\ eof'[s] = eof[s] /\ pc[s] = "append"
        /\ mine'[s] = Len(urlfile')
    BY <1>0, <1>6 DEF AppendUrl, Goto
  <2>2. ~ eof[s]
    BY <2>1 DEF ExitInv, ExitOf, OnPage
  <2>3. OwnOf(s)' /\ Watches(s)'
    BY <1>2, <2>1, <2>2 DEF OwnOf, Watches
  <2> QED
    BY <1>4, <2>3 DEF EofInv
<1>7. CASE ScanEof(s)
  <2>1. pos' = pos /\ urlfile' = urlfile /\ mine' = mine
    BY <1>7 DEF ScanEof, args
  <2>2. ~ StickyEof => pos >= Len(urlfile)
    BY <1>7 DEF ScanEof, AtEof, CountInv
  <2>3. OwnOf(s)'
    BY <1>0, <1>5, <1>9, <2>1, <2>2 DEF OwnOf
  <2>4. ~ StickyEof => ~ (pos' < Len(urlfile'))
    BY <1>0, <1>9, <2>1, <2>2
  <2> QED
    BY <1>4, <2>3, <2>4 DEF EofInv
<1>8. CASE /\ urlfile' = urlfile /\ mine' = mine
           /\ eof'[s] \/ pc'[s] = "mark" => eof[s] \/ pc[s] = "mark" \/ LimitReached
           /\ Watches(s) => Watches(s)' \/ LimitReached
  <2>1. OwnOf(s)'
    BY <1>0, <1>2, <1>3, <1>5, <1>8, <1>9 DEF OwnOf
  <2>2. ASSUME ~ StickyEof, pos' < Len(urlfile'), ~ LimitReached'
        PROVE  \E t \in Spider : Watches(t)'
    <3>1. pos < Len(urlfile) /\ ~ LimitReached
      BY <1>0, <1>2, <1>3, <1>8, <1>9, <2>2
    <3>2. PICK t \in Spider : Watches(t)
      BY <2>2, <3>1 DEF EofInv
    <3>3. Watches(t)'
      BY <1>1, <1>8, <3>1, <3>2
    <3> QED
      BY <3>3
  <2> QED
    BY <1>4, <2>1, <2>2 DEF EofInv
<1> QED
  BY <1>6, <1>7, <1>8, OutsideReaders

----------------------------------------------------------------------------
(* The inductive invariant.                                                *)

\* The invariant holds of a freshly started program.
LEMMA InitInv == Init => IInv
<1> SUFFICES ASSUME Init PROVE IInv
  OBVIOUS
<1>1. TypeOK
  BY InitType
<1>2. /\ \A s \in Spider : pc[s] = "new" /\ cur[s] = 0
      /\ urlMutex = Free /\ poolMutex = Free /\ Free \notin Spider
  BY DEF Init, Free, Spider
<1>3. LockInv
  BY <1>2 DEF LockInv
<1>4. LinkInv
  BY <1>2 DEF LinkInv, OnLink, OnPage
<1>5. PageInv
  BY <1>2 DEF PageInv, PageOf, OnPage, Working
<1>6. CountInv
  BY DEF Init, CountInv
<1>7. TableMatchesFile
  <2>1. Pending = {}
    BY <1>2 DEF Pending
  <2>2. keys = Written
    BY DEF Init, Written
  <2> QED
    BY <2>1, <2>2 DEF TableMatchesFile, Pending, Written
<1>8. NoDuplicateLine
  <2>1. urlfile = Seeds /\ Len(Seeds) \in Nat
    BY DEF Init
  <2>2. Len(Seeds) + 1 .. Len(urlfile) = {}
    BY <2>1
  <2> QED
    BY <2>2 DEF NoDuplicateLine
<1>9. ExitInv
  BY <1>2 DEF ExitInv, ExitOf, OnPage
<1>11. EofInv
  <2>1. urlfile \in Seq(Line) /\ 0 \in Spider
    BY DEF Init, Spider
  <2>2. \A s \in Spider : OwnOf(s) /\ Watches(s)
    BY <1>2, <2>1 DEF Init, OwnOf, Watches
  <2> QED
    BY <2>1, <2>2 DEF EofInv
<1>10. ClearedInv
  <2>1. line = SkipLine /\ MostLines \in Int /\ MostLines >= SkipLine
    BY DEF Init, MostLines
  <2>2. Cardinality(Cleared) \in Nat /\ Cardinality(Cleared) <= SpiderCnt
    BY SomeSpiders DEF Cleared
  <2> QED
    BY <2>1, <2>2 DEF ClearedInv
<1> QED
  BY <1>1, <1>3, <1>4, <1>5, <1>6, <1>7, <1>8, <1>9, <1>10, <1>11 DEF IInv

\* Nothing the invariant speaks of changes in a stuttering step.
LEMMA StutterInv ==
  ASSUME IInv, UNCHANGED vars
  PROVE  IInv'
<1> USE DEF vars, shared, local, file, locks, output, startup, page, args
<1>1. TypeOK'
  BY DEF IInv, TypeOK
<1>2. LockInv' /\ CountInv'
  BY DEF IInv, LockInv, CountInv
<1>3. LinkInv'
  BY DEF IInv, LinkInv, Target
<1>4. PageInv'
  BY DEF IInv, PageInv, PageOf, Url
<1>5. TableMatchesFile' /\ NoDuplicateLine'
  BY DEF IInv, TableMatchesFile, NoDuplicateLine, Target
<1>6. ExitInv'
  BY DEF IInv, ExitInv, ExitOf, LimitReached
<1>7. ClearedInv'
  BY DEF IInv, ClearedInv, Cleared, MostLines
<1>8. EofInv'
  BY DEF IInv, EofInv, OwnOf, Watches, LimitReached
<1> QED
  BY <1>1, <1>2, <1>3, <1>4, <1>5, <1>6, <1>7, <1>8 DEF IInv

\* Every step of the program keeps the invariant.
LEMMA StepInv == IInv /\ [Next]_vars => IInv'
<1> SUFFICES ASSUME IInv, [Next]_vars PROVE IInv'
  OBVIOUS
<1>1. CASE UNCHANGED vars
  BY <1>1, StutterInv
<1>2. ASSUME NEW s \in Spider, Main(s) \/ Run(s) PROVE IInv'
  <2>1. /\ TypeOK /\ LockInv /\ LinkInv /\ PageInv /\ CountInv
        /\ TableMatchesFile /\ NoDuplicateLine /\ ExitInv /\ EofInv /\ ClearedInv
    BY DEF IInv
  <2>2. TypeOK'
    BY <2>1, StepType
  <2>3. LockInv' /\ LinkInv' /\ PageInv' /\ CountInv'
    BY <1>2, <2>1, StepLock, StepLink, StepPage, StepCount
  <2>4. TableMatchesFile' /\ NoDuplicateLine'
    BY <1>2, <2>1, StepTable, StepDuplicate
  <2>5. ExitInv' /\ EofInv' /\ ClearedInv'
    BY <1>2, <2>1, StepExit, StepEofInv, StepCleared
  <2> QED
    BY <2>2, <2>3, <2>4, <2>5 DEF IInv
<1> QED
  BY <1>1, <1>2 DEF Next, Finished

\* The inductive invariant holds of every reachable state (main.c:140-326 and
\* sf_proc.c:176-212 with any number of threads).
THEOREM Invariance == Spec => []IInv
  BY InitInv, StepInv, PTL DEF Spec

\* The state keeps its types: what the reads of urlfile[cur[s]] and
\* spider_list[idx[s]] assume.
THEOREM TypeCorrect == Spec => []TypeOK
<1>1. IInv => TypeOK
  BY DEF IInv
<1> QED
  BY <1>1, Invariance, PTL

\* No two threads append a line with the same key (sf_proc.c:186-206).
THEOREM LinesAreUnique == Spec => []NoDuplicateLine
<1>1. IInv => NoDuplicateLine
  BY DEF IInv
<1> QED
  BY <1>1, Invariance, PTL

\* The table holds the keys of the file and of the lines about to be written.
THEOREM TableIsFile == Spec => []TableMatchesFile
<1>1. IInv => TableMatchesFile
  BY DEF IInv
<1> QED
  BY <1>1, Invariance, PTL

\* url_count is overrun by at most one line per thread (main.c:276, 293).
THEOREM LinesAreBounded == Spec => []LineBound
<1>1. IInv => LineBound
  <2> SUFFICES ASSUME IInv PROVE LineBound
    OBVIOUS
  <2>1. Cardinality(Cleared) \in Nat
    BY SomeSpiders DEF Cleared
  <2>2. line \in Nat /\ MostLines \in Int
        /\ line + Cardinality(Cleared) <= MostLines + SpiderCnt
    BY DEF IInv, TypeOK, ClearedInv, MostLines
  <2>3. line <= MostLines + SpiderCnt
    BY <2>1, <2>2
  <2> QED
    BY <2>3 DEF LineBound, MostLines
<1> QED
  BY <1>1, Invariance, PTL

\* Where the C library re-reads a file that has grown, short of a limit a
\* running thread that is not marked eof is left for every unread line
\* (main.c:94-106, 174, 193, 276).
THEOREM NothingLeftBehind ==
  ASSUME ~ StickyEof
  PROVE  Spec => []NoUrlLeftBehind
<1>1. IInv => NoUrlLeftBehind
  BY DEF IInv, EofInv, Watches, NoUrlLeftBehind
<1> QED
  BY <1>1, Invariance, PTL

\* Under the same condition a thread that is marked eof has left no line of its
\* own unread, although the end of the file is met under file_mutex and the
\* flag is set without it, with appends of others in between (main.c:54-59,
\* 174-175, sf_proc.c:203-206).
THEOREM OwnLinesAreTaken ==
  ASSUME ~ StickyEof
  PROVE  Spec => []OwnLinesTaken
<1>1. IInv => OwnLinesTaken
  BY DEF IInv, EofInv, OwnOf, OwnLinesTaken
<1> QED
  BY <1>1, Invariance, PTL

----------------------------------------------------------------------------
(* The threads implement the queue of Frontier.                            *)

Gone == {t \in Spider : pc[t] = "done"}

\* A thread that has ended stays ended.
LEMMA DoneStays ==
  ASSUME TypeOK, NEW s \in Spider, Main(s) \/ Run(s), pc[s] = "done"
  PROVE  pc'[s] = "done"
  BY DEF TypeOK, Main, Run, Goto, local,
       CreateSpider, StoreSpider, ScanUrl, ScanEof, MarkEof, NewPool,
       NewPoolFails, FetchOk, FetchFailsReported, FetchFailsIgnored, LinksDone, LinkRejected,
       LinkAccepted, LockUrls, KeyFound, KeyNotFound, LockPool, AllocOk,
       AllocFails, InsertKey, AppendUrl, CheckLimit, DoCheckpoint,
       SaveCheckpoint, CheckExit, CallUnparse,
       ReadUnparsed, PrintUnparsed, UnparsedEnd, ReadEof,
       ReadUnsetSlot

\* Reading a line takes it from the front of the queue.
LEMMA ScanTakes ==
  ASSUME IInv, NEW s \in Spider, ScanUrl(s)
  PROVE  F!Take(s)
<1>1. /\ pos < Len(urlfile) /\ pos' = pos + 1 /\ urlfile' = urlfile
      /\ pc[s] = "scan" /\ pc' = [pc EXCEPT ![s] = "pool"]
  <2>1. pos \in Nat /\ Len(urlfile) \in Nat
    BY DEF IInv, TypeOK
  <2> QED
    BY <2>1 DEF ScanUrl, AtEof, Goto
<1>2. Gone' = Gone
  BY <1>1 DEF Gone, IInv, TypeOK
<1> QED
  BY <1>1, <1>2 DEF F!Take, Gone

\* Appending a line adds a new link of a taken page to the queue.
LEMMA AppendDiscovers ==
  ASSUME IInv, NEW s \in Spider, AppendUrl(s)
  PROVE  F!Discover(s)
<1>1. /\ pc[s] = "append" /\ pc' = [pc EXCEPT ![s] = "href"] /\ pos' = pos
      /\ urlfile' = Append(urlfile, [level |-> level[s] + 1, url |-> Target(s)])
  BY DEF AppendUrl, Goto
<1>2. Gone' = Gone
  BY <1>1 DEF Gone, IInv, TypeOK
<1>3. PageOf(s) /\ links[s] # <<>> /\ Target(s) \in Urls
      /\ links[s] \in Seq(Urls)
  BY <1>1 DEF IInv, TypeOK, PageInv, LinkInv, OnLink, OnPage
<1>4. /\ cur[s] \in SkipLine + 1 .. pos /\ level[s] = urlfile[cur[s]].level
      /\ \A k \in DOMAIN links[s] :
           \E n \in DOMAIN Links[Url(s)] : links[s][k] = Links[Url(s)][n]
  BY <1>1, <1>3 DEF PageOf, Working, OnPage
<1>5. 1 \in DOMAIN links[s] /\ Head(links[s]) = links[s][1]
  BY <1>3
<1>6. PICK n \in DOMAIN Links[urlfile[cur[s]].url] :
        Target(s) = Rewrite[Links[urlfile[cur[s]].url][n]]
  <2>1. PICK n \in DOMAIN Links[Url(s)] : links[s][1] = Links[Url(s)][n]
    BY <1>4, <1>5
  <2>2. Target(s) = Rewrite[links[s][1]]
    BY <1>5 DEF Target
  <2> QED BY <2>1, <2>2 DEF Url
<1>7. \A j \in 1 .. Len(urlfile) : Key[urlfile[j].url] # Key[Target(s)]
  BY <1>1, KeyIsNew DEF IInv
<1>8. urlfile' = Append(urlfile, [level |-> urlfile[cur[s]].level + 1,
                                  url   |-> Target(s)])
  BY <1>1, <1>4
<1> QED
  BY <1>1, <1>2, <1>3, <1>4, <1>6, <1>7, <1>8 DEF F!Discover, Gone

\* A thread that ends retires; every other step leaves the queue as it is.
LEMMA OtherRetires ==
  ASSUME IInv, IInv', NoUrlLeftBehind', NEW s \in Spider, Main(s) \/ Run(s),
         pos' = pos, urlfile' = urlfile
  PROVE  F!Retire(s) \/ UNCHANGED F!fvars
<1>1. \A t \in Spider \ {s} : pc'[t] = pc[t]
  BY Frame DEF IInv
<1>2. pc[s] = "done" => pc'[s] = "done"
  BY DoneStays DEF IInv
<1>3. CASE pc[s] = "done" \/ pc'[s] # "done"
  <2>1. Gone' = Gone
    BY <1>1, <1>2, <1>3 DEF Gone
  <2> QED
    BY <2>1 DEF F!fvars, Gone
<1>4. CASE pc[s] # "done" /\ pc'[s] = "done"
  <2>1. s \notin Gone /\ Gone' = Gone \cup {s}
    BY <1>1, <1>4 DEF Gone
  <2>2. Spider \ Gone = {s} => pos = Len(urlfile) \/ LimitReached
    <3>1. SUFFICES ASSUME Spider \ Gone = {s}
                   PROVE  pos = Len(urlfile) \/ LimitReached
      OBVIOUS
    <3>2. \A t \in Spider : pc'[t] = "done"
      BY <2>1, <3>1 DEF Gone
    <3>3. pos' < Len(urlfile') => LimitReached'
      BY <3>2 DEF NoUrlLeftBehind
    <3>4. pos \in Nat /\ pos <= Len(urlfile) /\ Len(urlfile) \in Nat
      BY DEF IInv, TypeOK
    <3>5. line' = line
      BY DEF IInv, CountInv
    <3>6. LimitReached' <=> LimitReached
      BY <3>5 DEF LimitReached
    <3> QED
      BY <3>3, <3>4, <3>6
  <2>3. LimitReached => F!Limit
    BY DEF LimitReached, F!Limit, IInv, CountInv
  <2> QED
    BY <2>1, <2>2, <2>3 DEF F!Retire, Gone
<1> QED
  BY <1>3, <1>4

\* Where the C library re-reads a file that has grown, every crawl is a
\* behaviour of the abstract queue: lines are taken once, in order, new links
\* are queued once, one level below their page, and the crawl ends with the
\* queue exhausted or a limit met (main.c:140-326, sf_proc.c:176-212).
THEOREM Implements ==
  ASSUME ~ StickyEof
  PROVE  Spec => ImplementsFrontier
<1>1. Init => F!FInit
  BY DEF Init, F!FInit
<1>2. IInv /\ IInv' /\ NoUrlLeftBehind' /\ [Next]_vars => [F!FNext]_(F!fvars)
  <2> SUFFICES ASSUME IInv, IInv', NoUrlLeftBehind', [Next]_vars
               PROVE  [F!FNext]_(F!fvars)
    OBVIOUS
  <2>1. CASE UNCHANGED vars
    BY <2>1 DEF F!fvars, vars, shared, local, file
  <2>2. ASSUME NEW s \in Spider, Main(s) \/ Run(s)
        PROVE  [F!FNext]_(F!fvars)
    <3>1. CASE ScanUrl(s)
      BY <3>1, ScanTakes DEF F!FNext
    <3>2. CASE AppendUrl(s)
      BY <3>2, AppendDiscovers DEF F!FNext
    <3>3. CASE pos' = pos /\ urlfile' = urlfile
      BY <2>2, <3>3, OtherRetires DEF F!FNext
    <3> QED
      BY <2>2, <3>1, <3>2, <3>3, FileStep
  <2> QED
    BY <2>1, <2>2 DEF Next, Finished
<1> QED
  BY <1>1, <1>2, Invariance, NothingLeftBehind, PTL
     DEF Spec, ImplementsFrontier, F!FSpec

\* Under the same condition the crawl that has ended is complete: the last
\* thread to leave has seen to every line (main.c:293-313).
THEOREM EndsComplete ==
  ASSUME ~ StickyEof
  PROVE  Spec => []CrawlComplete
<1>1. IInv /\ NoUrlLeftBehind => CrawlComplete
  <2> SUFFICES ASSUME IInv, NoUrlLeftBehind, Gone = Spider
               PROVE  F!Limit \/ pos = Len(urlfile)
    BY DEF CrawlComplete, F!Complete, Gone
  <2>1. pos < Len(urlfile) => LimitReached
    BY DEF NoUrlLeftBehind, Gone
  <2>2. pos \in Nat /\ pos <= Len(urlfile) /\ Len(urlfile) \in Nat
    BY DEF IInv, TypeOK
  <2>3. LimitReached => F!Limit
    BY DEF LimitReached, F!Limit, IInv, CountInv
  <2> QED
    BY <2>1, <2>2, <2>3
<1> QED
  BY <1>1, Invariance, NothingLeftBehind, PTL
============================================================================
