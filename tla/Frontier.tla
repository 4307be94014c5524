------------------------------ MODULE Frontier ------------------------------
(***************************************************************************)
(* What the crawl promises, without its threads' steps: a queue of URLs    *)
(* that workers take from the front and extend at the back with the new    *)
(* links of the pages already taken, until they retire.  The queue is      *)
(* url.txt (main.c:44-61, sf_proc.c:176-212), a worker is a thread of      *)
(* sf_proc_start_spider.                                                   *)
(***************************************************************************)
EXTENDS Integers, Sequences

CONSTANTS Worker, Urls, NoUrl, Key, Links, Rewrite, Seeds, SkipLine,
          UrlLevel, UrlCount

VARIABLES
  queue,        \* the URLs found, in the order they were written
  taken,        \* how many of them have been handed to a worker
  retired       \* the workers that have ended

fvars == <<queue, taken, retired>>

Limit ==
  \/ taken >= UrlCount
  \/ \E i \in SkipLine + 1 .. taken : queue[i].level > UrlLevel

FInit ==
  /\ queue = Seeds
  /\ taken = SkipLine
  /\ retired = {}

\* The front of the queue goes to one worker, once.
Take(w) ==
  /\ w \notin retired
  /\ taken < Len(queue)
  /\ taken' = taken + 1
  /\ UNCHANGED <<queue, retired>>

\* A link of a taken page joins the queue one level deeper, if its key is new.
Discover(w) ==
  /\ w \notin retired
  /\ \E i \in SkipLine + 1 .. taken : \E u \in Urls :
       /\ \E n \in DOMAIN Links[queue[i].url] : u = Rewrite[Links[queue[i].url][n]]
       /\ \A j \in 1 .. Len(queue) : Key[queue[j].url] # Key[u]
       /\ queue' = Append(queue, [level |-> queue[i].level + 1, url |-> u])
  /\ UNCHANGED <<taken, retired>>

\* Short of a limit, the last worker ends only when the queue is exhausted.
Retire(w) ==
  /\ w \notin retired
  /\ Limit \/ taken = Len(queue) \/ Worker \ retired # {w}
  /\ retired' = retired \cup {w}
  /\ UNCHANGED <<queue, taken>>

FNext == \E w \in Worker : Take(w) \/ Discover(w) \/ Retire(w)

FSpec == FInit /\ [][FNext]_fvars

\* A crawl that all workers have left is complete or has met a limit.
Complete == retired = Worker => Limit \/ taken = Len(queue)
=============================================================================
