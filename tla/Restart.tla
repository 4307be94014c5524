------------------------------ MODULE Restart ------------------------------
(***************************************************************************)
(* The crawl killed at any moment and started again.  What survives is on  *)
(* disk: url.txt (flushed line by line, sf_proc.c:204-205) and             *)
(* check_point; the feedback lives in memory.  The dedup table is rebuilt  *)
(* from url.txt (sf_proc.c:215-280); sf_load_chkpoint is never called, so  *)
(* the operator passes -l: nothing, or the last line of check_point.       *)
(*                                                                         *)
(* A transfer, a pool or an allocation may fail besides: missed remembers  *)
(* the lines given up for that in any run.                                 *)
(***************************************************************************)
EXTENDS Crawler

CONSTANTS
  MaxCrashes,   \* bound on the number of restarts
  Resume        \* what the operator may do: "start" over, use the "checkpoint"

ASSUME RestartAssumption ==
  MaxCrashes \in Nat /\ Resume \subseteq {"start", "checkpoint"}

VARIABLES
  crashes,   \* restarts so far
  skipline,  \* -l of the run at hand
  missed     \* lines whose page was not followed in some run (history)

rvars == <<vars, crashes, skipline, missed>>

\* The process starts again at line n with the given dedup table.
RestartedWith(n, table) ==
  /\ pos' = n /\ line' = n
  /\ streamEof' = (StickyEof /\ n > 0 /\ n = Len(urlfile))
  /\ keys' = table
  /\ urlMutex' = Free /\ poolMutex' = Free
  /\ slots' = 0 /\ crashed' = FALSE
  /\ pc' = [s \in Spider |-> "new"]
  /\ eof' = [s \in Spider |-> FALSE]
  /\ cur' = [s \in Spider |-> 0]
  /\ level' \in [Spider -> {UrlLevel, UrlLevel + 1}]
  /\ links' = [s \in Spider |-> <<>>]
  /\ from' = [s \in Spider |-> 0]
  /\ rd' = [s \in Spider |-> 0]
  /\ idx' = [s \in Spider |-> 0]
  /\ mine' = [s \in Spider |-> 0]
  /\ result' = [asked |-> result.asked,
                fetched |-> {}, failed |-> {}, unparsed |-> {}]
  /\ shown' = 0 /\ dropped' = {}
  /\ UNCHANGED <<urlfile, checkpoint>>

\* Faulty variants: the line after the checkpoint is skipped; the table starts
\* empty.
FirstLineNext(how) ==
  IF how = "checkpoint" /\ checkpoint < Len(urlfile)
  THEN checkpoint + 1 ELSE IF how = "checkpoint" THEN checkpoint ELSE 0

RestartedEmptyTable(n) == RestartedWith(n, {})

FirstLine(how) == IF how = "checkpoint" THEN checkpoint ELSE 0

Restarted(n) ==
  RestartedWith(n, {Key[urlfile[i].url] : i \in 1 .. Len(urlfile)})

CrashAndRestart ==
  /\ crashes < MaxCrashes
  /\ crashes' = crashes + 1
  /\ \E how \in Resume : Restarted(FirstLine(how)) /\ skipline' = FirstLine(how)
  /\ UNCHANGED missed

Reliable(s) ==
  \/ ScanUrl(s) \/ ScanEof(s) \/ MarkEof(s) \/ NewPool(s) \/ FetchOk(s)
  \/ LinksDone(s) \/ LinkRejected(s) \/ LinkAccepted(s)
  \/ LockUrls(s) \/ KeyFound(s) \/ KeyNotFound(s)
  \/ LockPool(s) \/ AllocOk(s) \/ AllocFails(s) \/ InsertKey(s) \/ AppendUrl(s)
  \/ CheckLimit(s) \/ DoCheckpoint(s) \/ SaveCheckpoint(s)
  \/ CheckExit(s) \/ CallUnparse(s)
  \/ ReadUnparsed(s) \/ PrintUnparsed(s) \/ UnparsedEnd(s)
  \/ ReadEof(s) \/ ReadUnsetSlot(s)

\* The thread goes on without the page of its line, or with a part of it.
Misses(s) == NewPoolFails(s) \/ FetchFailsReported(s) \/ FetchFailsIgnored(s)

RestartInit == Init /\ crashes = 0 /\ skipline = SkipLine /\ missed = {}

RestartNext ==
  \/ \E s \in Spider : (Main(s) \/ Reliable(s)) /\ UNCHANGED <<crashes, skipline, missed>>
  \/ \E s \in Spider : /\ Misses(s)
                       /\ missed' = missed \cup {cur[s]}
                       /\ UNCHANGED <<crashes, skipline>>
  \/ CrashAndRestart
  \/ Finished /\ UNCHANGED <<crashes, skipline, missed>>

RestartSpec == RestartInit /\ [][RestartNext]_rvars

----------------------------------------------------------------------------

\* Every link of the page at line i that the ranges accept is in the file.
Followed(i) ==
  \A n \in DOMAIN Links[urlfile[i].url] :
    LET u == Rewrite[Links[urlfile[i].url][n]]
    IN u # NoUrl => \E j \in 1 .. Len(urlfile) : Key[urlfile[j].url] = Key[u]

\* When the crawl has come to the end of the file, the links of every line are
\* in it, whatever was cut short by a crash in between: a key entered in the
\* table whose line was never written, a page half followed, a line taken but
\* not counted in a checkpoint (sf_proc.c:201-206, main.c:255, 282).
NothingLost ==
  AllDone /\ pos = Len(urlfile) => \A i \in (1 .. Len(urlfile)) \ missed : Followed(i)

\* The lines a checkpoint counts are through: a crawl resumed there has nothing
\* left to do for them (sf_checkpoint.c:4, main.c:282-284).
CheckpointFollowed == \A i \in (1 .. checkpoint) \ missed : Followed(i)

\* With url_feedback, when all threads are done every line from -l on is
\* reported as fetched, failed or unparsed, but for lines dropped when
\* ngx_create_pool failed, and none in two ways (main.c:214, 230, 299).  One
\* thread reports so; two that list the unparsed lines share a static buffer.
FeedbackRight ==
  /\ result.asked /\ AllDone =>
       \A n \in skipline + 1 .. Len(urlfile) :
         n \in result.fetched \cup result.failed \cup result.unparsed \cup dropped
  /\ result.fetched \cap result.failed = {}
  /\ result.unparsed \cap (result.fetched \cup result.failed) = {}

\* A crawl that was not interrupted goes layer by layer: a single thread queues
\* the lines by level and, short of url_count, takes all those within url_level.
LayerByLayer ==
  crashes = 0 =>
    /\ \A i, j \in 1 .. Len(urlfile) : i < j => urlfile[i].level <= urlfile[j].level
    /\ AllDone /\ line < UrlCount =>
         \A i \in 1 .. Len(urlfile) : urlfile[i].level <= UrlLevel => i <= pos
============================================================================
