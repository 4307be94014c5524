---------------------------- MODULE HashTableInv ----------------------------
(***************************************************************************)
(* The inductive invariant of HashTable where its callers hold a mutex.    *)
(***************************************************************************)
EXTENDS HashTable

Critical == Labels \ {"begin", "done"}

\* The mutex is held from the search to the end of the insertion.
MutexInv == \A t \in Thread : pc[t] \in Critical <=> mutex = t

\* A node is in the chain of its own bucket, once, after it was linked.
Linked(n) ==
  \/ n[2] < job[n[1]]
  \/ n[2] = job[n[1]] /\ pc[n[1]] \in {"countread", "countwrite", "end", "done"}

ChainInv ==
  \A b \in Bucket :
    /\ Distinct(chain[b])
    /\ \A i \in 1 .. Len(chain[b]) :
         BucketOf[ItemOf(chain[b][i])] = b /\ Linked(chain[b][i])

Last(b) == chain[b][Len(chain[b])]

\* All but the last node's next are as in a ring ...
ChainLinks(b) ==
  /\ root[b] = IF chain[b] = <<>> THEN Null ELSE chain[b][1]
  /\ \A i \in 1 .. Len(chain[b]) - 1 : next[chain[b][i]] = chain[b][i + 1]
  /\ \A i \in 1 .. Len(chain[b]) - 1 : prev[chain[b][i + 1]] = chain[b][i]
  /\ chain[b] # <<>> => prev[chain[b][1]] = Last(b)

RingInv == \A b \in Bucket : ChainLinks(b)

\* ... and the last node's leads to the root or, just before the insertion is
\* complete, to the new node.
ClosedInv ==
  \A b \in Bucket :
    chain[b] # <<>> =>
      \/ next[Last(b)] = chain[b][1]
      \/ mutex # Null /\ pc[mutex] = "rootprev" /\ B(mutex) = b

\* How far the new node is linked.
NewNodeInv ==
  \A t \in Thread :
    /\ pc[t] \in {"selfnext", "selfprev", "setroot"} => chain[B(t)] = <<>>
    /\ pc[t] \in {"itemnext", "itemprev", "lastnext", "rootprev"} =>
         chain[B(t)] # <<>>
    /\ pc[t] \in {"selfprev", "setroot"} => next[Mine(t)] = Mine(t)
    /\ pc[t] = "setroot" => prev[Mine(t)] = Mine(t)
    /\ pc[t] \in {"itemprev", "lastnext", "rootprev"} =>
         next[Mine(t)] = chain[B(t)][1]
    /\ pc[t] \in {"lastnext", "rootprev"} => prev[Mine(t)] = Last(B(t))
    /\ pc[t] = "rootprev" => next[Last(B(t))] = Mine(t)

\* A search has passed the nodes before cur, none of which is what it wants.
WalkInv ==
  \A t \in Thread :
    pc[t] = "walk" =>
      /\ head[t] = root[B(t)]
      /\ \E k \in 1 .. Len(chain[B(t)]) :
           /\ cur[t] = chain[B(t)][k]
           /\ \A i \in 1 .. k - 1 : ItemOf(chain[B(t)][i]) # Want(t)

Known(x) == \E k \in 1 .. Len(new) : new[k] = x

\* The items found new are those of the nodes linked and of the node about to
\* be linked.
NewInv ==
  /\ Distinct(new)
  /\ \A b \in Bucket : \A i \in 1 .. Len(chain[b]) : Known(ItemOf(chain[b][i]))
  /\ \A x \in Item :
       Known(x) =>
         \/ \E i \in 1 .. Len(chain[BucketOf[x]]) :
              ItemOf(chain[BucketOf[x]][i]) = x
         \/ mutex # Null /\ pc[mutex] \in Linking /\ Want(mutex) = x

\* An item that was decided is known.
DecidedInv ==
  \A t \in Thread :
    /\ \A i \in 1 .. job[t] - 1 : Known(Work[t][i])
    /\ pc[t] \in Linking \cup {"countread", "countwrite", "end"} => Known(Want(t))

\* The counters.
Uncounted(b) ==
  mutex # Null /\ pc[mutex] \in {"countread", "countwrite"} /\ B(mutex) = b

CountInv ==
  /\ \A b \in Bucket :
       Len(chain[b]) = count[b] + (IF Uncounted(b) THEN 1 ELSE 0)
  /\ \A t \in Thread : pc[t] = "countwrite" => old[t] = count[B(t)]

IInv ==
  /\ TypeOK /\ MutexInv /\ ChainInv /\ RingInv /\ ClosedInv /\ NewNodeInv
  /\ WalkInv /\ NewInv /\ DecidedInv /\ CountInv

============================================================================
