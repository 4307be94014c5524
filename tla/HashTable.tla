----------------------------- MODULE HashTable ------------------------------
(***************************************************************************)
(* The hash table of sf_hashmodule.c as the crawler uses it: a thread      *)
(* looks an item up and inserts it when it is not there.  Every bucket is  *)
(* a list of DualLink.  The table itself takes no lock (SemTake and        *)
(* SemGive are empty macros, sf_hashmodule.c:10-12); its callers do, or do *)
(* not:                                                                    *)
(*   - sf_proc_insert_url searches and inserts under url_mutex;            *)
(*   - sf_pcre_perform calls sf_isdup and sf_uniq_insert without a lock on *)
(*     a table that threads running the same nested spider share.          *)
(* So the search and every assignment of DualLinkAppend are steps of their *)
(* own.  Item stands for what the comparison function tells apart, the     *)
(* BKDR hash of a URL or a whole string.                                   *)
(***************************************************************************)
EXTENDS Integers, Sequences

CONSTANTS
  Thread,
  Item,
  Bucket,
  BucketOf,     \* BucketOf[x]: KeyToItem of the CRC of x
  Work,         \* Work[t]: the items thread t looks up, in order
  Locked,       \* does the caller hold a mutex from the search to the insertion?
  Null

ASSUME WorkAssumption ==
  /\ BucketOf \in [Item -> Bucket]
  /\ Work \in [Thread -> Seq(Item) \ {<<>>}]
  /\ Locked \in BOOLEAN
  /\ Null \notin Thread
  /\ Null \notin UNION {{t} \X (1 .. Len(Work[t])) : t \in Thread}

\* The node allocated for the i-th item of t, should it be new.
Node == UNION {{t} \X (1 .. Len(Work[t])) : t \in Thread}

INSTANCE DualLink

VARIABLES
  root,     \* taHashItem[b].iHashRoot
  next, prev,
  count,    \* taHashItem[b].iCount
  mutex,    \* holder of the caller's mutex
  pc,
  job,      \* index in Work[t] of the item thread t is at
  head,     \* hashHead of the search
  cur,      \* hashTemp of the search
  old,      \* iCount as read by iCount++
  new,      \* items the table was found not to hold, in order (history)
  chain     \* nodes of each bucket, in order of insertion (history)

links  == <<root, next, prev>>
walk   == <<head, cur>>
ghosts == <<new, chain>>
vars   == <<links, count, mutex, pc, job, walk, old, ghosts>>

Labels == {"begin", "search", "walk", "test", "selfnext", "selfprev", "setroot",
           "itemnext", "itemprev", "lastnext", "rootprev", "countread",
           "countwrite", "end", "done"}

Want(t) == Work[t][job[t]]
Mine(t) == <<t, job[t]>>
B(t)    == BucketOf[Want(t)]
ItemOf(n) == Work[n[1]][n[2]]

Init ==
  /\ root = [b \in Bucket |-> Null]
  /\ next = [n \in Node |-> Null]
  /\ prev = [n \in Node |-> Null]
  /\ count = [b \in Bucket |-> 0]
  /\ mutex = Null
  /\ pc = [t \in Thread |-> "begin"]
  /\ job = [t \in Thread |-> 1]
  /\ head = [t \in Thread |-> Null]
  /\ cur = [t \in Thread |-> Null]
  /\ old = [t \in Thread |-> 0]
  /\ new = <<>>
  /\ chain = [b \in Bucket |-> <<>>]

Goto(t, here, there) ==
  /\ pc[t] = here
  /\ pc' = [pc EXCEPT ![t] = there]

----------------------------------------------------------------------------
(* Faulty variants of definitions below.                                   *)

\* A search that fails lets the mutex go before the insertion.
SearchEndUnlocks(t) ==
  /\ Goto(t, "walk", "test")
  /\ ItemOf(cur[t]) # Want(t)
  /\ next[cur[t]] = head[t]
  /\ mutex' = Null
  /\ new' = Append(new, Want(t))
  /\ cur' = [cur EXCEPT ![t] = next[cur[t]]]
  /\ UNCHANGED <<links, count, job, head, old, chain>>

\* The search stops one node short of the end.
SearchEndEarly(t) ==
  /\ Goto(t, "walk", "test")
  /\ next[cur[t]] = head[t] \/ next[next[cur[t]]] = head[t]
  /\ ItemOf(cur[t]) # Want(t)
  /\ new' = Append(new, Want(t))
  /\ cur' = [cur EXCEPT ![t] = next[cur[t]]]
  /\ UNCHANGED <<links, count, mutex, job, head, old, chain>>

\* The new node's next is the node itself, as in the empty bucket.
SetItemNextSelf(t) ==
  /\ Goto(t, "itemnext", "itemprev")
  /\ next' = [next EXCEPT ![Mine(t)] = Mine(t)]
  /\ UNCHANGED <<root, prev, count, mutex, job, walk, old, ghosts>>

\* The root's prev is left as it was.
SetRootPrevSkipped(t) ==
  /\ Goto(t, "rootprev", "countread")
  /\ chain' = [chain EXCEPT ![B(t)] = Append(@, Mine(t))]
  /\ UNCHANGED <<links, count, mutex, job, walk, old, new>>

----------------------------------------------------------------------------
(* HashModuleSearch.                                                       *)

Begin(t) ==
  /\ Goto(t, "begin", "search")
  /\ Locked => mutex = Null
  /\ mutex' = IF Locked THEN t ELSE mutex
  /\ UNCHANGED <<links, count, job, walk, old, ghosts>>

SearchEmpty(t) ==
  /\ Goto(t, "search", "test")
  /\ root[B(t)] = Null
  /\ new' = Append(new, Want(t))
  /\ UNCHANGED <<links, count, mutex, job, walk, old, chain>>

SearchFirst(t) ==
  /\ Goto(t, "search", "walk")
  /\ root[B(t)] # Null
  /\ head' = [head EXCEPT ![t] = root[B(t)]]
  /\ cur' = [cur EXCEPT ![t] = root[B(t)]]
  /\ UNCHANGED <<links, count, mutex, job, old, ghosts>>

SearchHit(t) ==
  /\ Goto(t, "walk", "end")
  /\ ItemOf(cur[t]) = Want(t)
  /\ UNCHANGED <<links, count, mutex, job, walk, old, ghosts>>

SearchNext(t) ==
  /\ Goto(t, "walk", "walk")
  /\ ItemOf(cur[t]) # Want(t)
  /\ next[cur[t]] # head[t]
  /\ cur' = [cur EXCEPT ![t] = next[cur[t]]]
  /\ UNCHANGED <<links, count, mutex, job, head, old, ghosts>>

SearchEnd(t) ==
  /\ Goto(t, "walk", "test")
  /\ ItemOf(cur[t]) # Want(t)
  /\ next[cur[t]] = head[t]
  /\ cur' = [cur EXCEPT ![t] = next[cur[t]]]
  /\ new' = Append(new, Want(t))
  /\ UNCHANGED <<links, count, mutex, job, head, old, chain>>

----------------------------------------------------------------------------
(* HashModuleInsert: DualLinkAppend, one assignment at a time; *root is    *)
(* read anew in each.  Then iCount++.                                      *)

TestRoot(t) ==
  /\ Goto(t, "test", IF root[B(t)] = Null THEN "selfnext" ELSE "itemnext")
  /\ UNCHANGED <<links, count, mutex, job, walk, old, ghosts>>

SetSelfNext(t) ==
  /\ Goto(t, "selfnext", "selfprev")
  /\ next' = [next EXCEPT ![Mine(t)] = Mine(t)]
  /\ UNCHANGED <<root, prev, count, mutex, job, walk, old, ghosts>>

SetSelfPrev(t) ==
  /\ Goto(t, "selfprev", "setroot")
  /\ prev' = [prev EXCEPT ![Mine(t)] = Mine(t)]
  /\ UNCHANGED <<root, next, count, mutex, job, walk, old, ghosts>>

SetRoot(t) ==
  /\ Goto(t, "setroot", "countread")
  /\ root' = [root EXCEPT ![B(t)] = Mine(t)]
  /\ chain' = [chain EXCEPT ![B(t)] = Append(@, Mine(t))]
  /\ UNCHANGED <<next, prev, count, mutex, job, walk, old, new>>

SetItemNext(t) ==
  /\ Goto(t, "itemnext", "itemprev")
  /\ next' = [next EXCEPT ![Mine(t)] = root[B(t)]]
  /\ UNCHANGED <<root, prev, count, mutex, job, walk, old, ghosts>>

SetItemPrev(t) ==
  /\ Goto(t, "itemprev", "lastnext")
  /\ prev' = [prev EXCEPT ![Mine(t)] = prev[root[B(t)]]]
  /\ UNCHANGED <<root, next, count, mutex, job, walk, old, ghosts>>

SetLastNext(t) ==
  /\ Goto(t, "lastnext", "rootprev")
  /\ next' = [next EXCEPT ![prev[root[B(t)]]] = Mine(t)]
  /\ UNCHANGED <<root, prev, count, mutex, job, walk, old, ghosts>>

SetRootPrev(t) ==
  /\ Goto(t, "rootprev", "countread")
  /\ prev' = [prev EXCEPT ![root[B(t)]] = Mine(t)]
  /\ chain' = [chain EXCEPT ![B(t)] = Append(@, Mine(t))]
  /\ UNCHANGED <<root, next, count, mutex, job, walk, old, new>>

ReadCount(t) ==
  /\ Goto(t, "countread", "countwrite")
  /\ old' = [old EXCEPT ![t] = count[B(t)]]
  /\ UNCHANGED <<links, count, mutex, job, walk, ghosts>>

WriteCount(t) ==
  /\ Goto(t, "countwrite", "end")
  /\ count' = [count EXCEPT ![B(t)] = old[t] + 1]
  /\ UNCHANGED <<links, mutex, job, walk, old, ghosts>>

End(t) ==
  /\ Goto(t, "end", IF job[t] = Len(Work[t]) THEN "done" ELSE "begin")
  /\ job' = [job EXCEPT ![t] = IF @ = Len(Work[t]) THEN @ ELSE @ + 1]
  /\ mutex' = IF Locked THEN Null ELSE mutex
  /\ UNCHANGED <<links, count, walk, old, ghosts>>

----------------------------------------------------------------------------

Step(t) ==
  \/ Begin(t) \/ SearchEmpty(t) \/ SearchFirst(t) \/ SearchHit(t)
  \/ SearchNext(t) \/ SearchEnd(t)
  \/ TestRoot(t) \/ SetSelfNext(t) \/ SetSelfPrev(t) \/ SetRoot(t)
  \/ SetItemNext(t) \/ SetItemPrev(t) \/ SetLastNext(t) \/ SetRootPrev(t)
  \/ ReadCount(t) \/ WriteCount(t) \/ End(t)

Finished ==
  /\ \A t \in Thread : pc[t] = "done"
  /\ UNCHANGED vars

Next == (\E t \in Thread : Step(t)) \/ Finished

Spec == Init /\ [][Next]_vars

\* The scheduler runs every thread.
FairSpec == Spec /\ \A t \in Thread : WF_vars(Step(t))

----------------------------------------------------------------------------
(* Properties.                                                             *)

\* Linking the new node, up to the assignment that completes the ring.
Linking == {"test", "selfnext", "selfprev", "setroot", "itemnext", "itemprev",
            "lastnext", "rootprev"}

\* The type invariant.
TypeOK ==
  /\ root \in [Bucket -> Pointer]
  /\ next \in Fields /\ prev \in Fields
  /\ count \in [Bucket -> Nat]
  /\ mutex \in Thread \cup {Null}
  /\ pc \in [Thread -> Labels]
  /\ job \in [Thread -> Nat \ {0}]
  /\ \A t \in Thread : job[t] <= Len(Work[t])
  /\ head \in [Thread -> Pointer] /\ cur \in [Thread -> Pointer]
  /\ old \in [Thread -> Nat]
  /\ new \in Seq(Item)
  /\ chain \in [Bucket -> Seq(Node)]

\* Every thread is through with all its items in the end: no search runs round
\* a list for ever (sf_hashmodule.c:275-285).
Terminates == <>(\A t \in Thread : pc[t] = "done")

\* No item is found new twice (sf_uniq.c:2, "this file is for deduplicating
\* variables or other content"; sf_proc.c:186-211).
NewOnce == Distinct(new)

\* What a search finds was found new before: data are never suppressed unless
\* they have been output.
FoundIsKnown ==
  \A t \in Thread : \A i \in 1 .. job[t] - 1 :
    \E k \in 1 .. Len(new) : new[k] = Work[t][i]

\* Outside of an insertion every bucket is a ring that holds its nodes in order
\* of insertion, and iCount counts them.
RingsIntact ==
  (\A t \in Thread : pc[t] \notin Linking \cup {"countread", "countwrite"}) =>
    \A b \in Bucket : /\ IsRing(next, prev, root[b], chain[b])
                      /\ count[b] = Len(chain[b])

\* A search that walks a list another thread is changing meets no NULL: the
\* fields of a node are set before the node is reachable.
WalkMeetsNode ==
  \A t \in Thread :
    /\ pc[t] = "walk" => cur[t] \in Node /\ next[cur[t]] \in Node
    /\ pc[t] \in {"itemprev", "lastnext", "rootprev"} =>
         /\ root[B(t)] \in Node
         /\ prev[root[B(t)]] \in Node

(***************************************************************************)
(* Under a mutex the table is a set that is tested and extended at once.   *)
(***************************************************************************)
Decided(t) ==
  job[t] - (IF pc[t] \in {"begin", "search", "walk"} THEN 1 ELSE 0)

S == INSTANCE SeenSet WITH
       fresh <- new,
       done  <- [t \in Thread |-> Decided(t)]

\* Every decision - new or a duplicate - is the one an atomic set would take.
ImplementsSet == S!Spec

============================================================================
