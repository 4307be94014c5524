-------------------------- MODULE HashTableProofs ---------------------------
(***************************************************************************)
(* Proofs about HashTable where the callers hold a mutex (Locked), for any *)
(* number of threads, any items and any assignment of items to buckets.    *)
(***************************************************************************)
EXTENDS HashTableInv, TLAPS

USE WorkAssumption

----------------------------------------------------------------------------
(* Facts about nodes.                                                      *)

\* A node belongs to an item of some thread's work.
LEMMA NodeType ==
  ASSUME NEW n \in Node
  PROVE  /\ n[1] \in Thread /\ n[2] \in 1 .. Len(Work[n[1]])
         /\ n = <<n[1], n[2]>>
         /\ ItemOf(n) \in Item /\ BucketOf[ItemOf(n)] \in Bucket
         /\ n # Null
<1>1. PICK t \in Thread : n \in {t} \X (1 .. Len(Work[t]))
  BY DEF Node
<1>2. /\ n[1] \in Thread /\ n[2] \in 1 .. Len(Work[n[1]])
      /\ n = <<n[1], n[2]>>
  BY <1>1
<1>3. Work[n[1]] \in Seq(Item)
  BY <1>2
<1>4. ItemOf(n) \in Item
  BY <1>2, <1>3 DEF ItemOf
<1> QED
  BY <1>2, <1>4 DEF Node

\* A thread has an item, a bucket and a node of its own.
LEMMA MineType ==
  ASSUME TypeOK, NEW t \in Thread
  PROVE  /\ job[t] \in 1 .. Len(Work[t])
         /\ Want(t) \in Item /\ B(t) \in Bucket
         /\ Mine(t) \in Node /\ Mine(t) # Null
         /\ Mine(t)[1] = t /\ Mine(t)[2] = job[t] /\ ItemOf(Mine(t)) = Want(t)
<1>1. job[t] \in Nat \ {0} /\ job[t] <= Len(Work[t]) /\ Work[t] \in Seq(Item)
  BY DEF TypeOK
<1>2. Len(Work[t]) \in Nat
  BY <1>1
<1>3. job[t] \in 1 .. Len(Work[t])
  BY <1>1, <1>2
<1>4. Want(t) \in Item /\ B(t) \in Bucket
  BY <1>1, <1>3 DEF Want, B
<1>5. Mine(t) \in {t} \X (1 .. Len(Work[t]))
  BY <1>3 DEF Mine
<1>6. Mine(t) \in Node
  BY <1>5 DEF Node
<1> QED
  BY <1>3, <1>4, <1>6, NodeType DEF Mine, ItemOf, Want

\* Who is in the critical section is alone in it.
LEMMA Alone ==
  ASSUME MutexInv, NEW t \in Thread, pc[t] \in Critical
  PROVE  /\ mutex = t
         /\ \A u \in Thread : pc[u] \in Critical => u = t
  BY DEF MutexInv

----------------------------------------------------------------------------
(* Type correctness.                                                       *)

LEMMA InitType == Init => TypeOK
<1> SUFFICES ASSUME Init PROVE TypeOK
  OBVIOUS
<1>1. \A t \in Thread : 1 <= Len(Work[t])
  <2> TAKE t \in Thread
  <2>1. Work[t] \in Seq(Item) /\ Work[t] # <<>>
    OBVIOUS
  <2> QED BY <2>1
<1>2. job \in [Thread -> Nat \ {0}] /\ \A t \in Thread : job[t] <= Len(Work[t])
  BY <1>1 DEF Init
<1>3. pc \in [Thread -> Labels]
  BY DEF Init, Labels
<1> QED
  BY <1>2, <1>3 DEF Init, TypeOK, Pointer, Fields

LEMMA StepType ==
  ASSUME TypeOK, WalkInv, RingInv, NewNodeInv, [Next]_vars
  PROVE  TypeOK'
<1> USE DEF TypeOK, Goto, Labels, Pointer, Fields, vars, links, walk, ghosts
<1>1. ASSUME NEW t \in Thread, Begin(t) \/ SearchHit(t) PROVE TypeOK'
  BY <1>1 DEF Begin, SearchHit
<1>2. ASSUME NEW t \in Thread, SearchEmpty(t) PROVE TypeOK'
  <2>1. Want(t) \in Item
    BY MineType
  <2>2. new' \in Seq(Item)
    BY <1>2, <2>1 DEF SearchEmpty
  <2>3. pc' \in [Thread -> Labels]
    BY <1>2 DEF SearchEmpty
  <2> QED BY <1>2, <2>2, <2>3 DEF SearchEmpty
<1>3. ASSUME NEW t \in Thread, SearchFirst(t) PROVE TypeOK'
  <2>1. root[B(t)] \in Pointer
    BY MineType
  <2> QED BY <1>3, <2>1 DEF SearchFirst
<1>4. ASSUME NEW t \in Thread, SearchNext(t) \/ SearchEnd(t) PROVE TypeOK'
  <2>1. Want(t) \in Item /\ chain[B(t)] \in Seq(Node)
    BY MineType
  <2>2. cur[t] \in Node
    <3>1. pc[t] = "walk"
      BY <1>4 DEF SearchNext, SearchEnd
    <3>2. PICK k \in 1 .. Len(chain[B(t)]) : cur[t] = chain[B(t)][k]
      BY <3>1 DEF WalkInv
    <3> QED BY ONLY <2>1, <3>2
  <2>3. next[cur[t]] \in Pointer
    BY <2>2
  <2>4. CASE SearchNext(t)
    BY <2>3, <2>4 DEF SearchNext
  <2>5. CASE SearchEnd(t)
    <3>1. Append(new, Want(t)) \in Seq(Item)
      BY <2>1
    <3> QED BY <2>3, <2>5, <3>1 DEF SearchEnd
  <2> QED BY <1>4, <2>4, <2>5
<1>5. ASSUME NEW t \in Thread,
             TestRoot(t) \/ SetSelfNext(t) \/ SetSelfPrev(t)
      PROVE  TypeOK'
  <2>1. Mine(t) \in Node
    BY MineType
  <2>2. CASE TestRoot(t)
    BY <2>2 DEF TestRoot
  <2>3. CASE SetSelfNext(t)
    BY <2>1, <2>3 DEF SetSelfNext
  <2>4. CASE SetSelfPrev(t)
    BY <2>1, <2>4 DEF SetSelfPrev
  <2> QED BY <1>5, <2>2, <2>3, <2>4
<1>6. ASSUME NEW t \in Thread, SetRoot(t) PROVE TypeOK'
  <2>1. Mine(t) \in Node /\ B(t) \in Bucket /\ chain[B(t)] \in Seq(Node)
    BY MineType
  <2>2. Append(chain[B(t)], Mine(t)) \in Seq(Node)
    BY <2>1
  <2> QED BY <1>6, <2>1, <2>2 DEF SetRoot
<1>7. ASSUME NEW t \in Thread, SetItemNext(t) \/ SetItemPrev(t) \/ SetLastNext(t)
      PROVE  TypeOK'
  <2>1. Mine(t) \in Node /\ root[B(t)] \in Pointer
    BY MineType
  <2>2. CASE SetItemNext(t)
    BY <2>1, <2>2 DEF SetItemNext
  <2>3. CASE SetItemPrev(t)
    <3>1. B(t) \in Bucket /\ chain[B(t)] \in Seq(Node) /\ chain[B(t)] # <<>>
      BY <2>3, MineType DEF SetItemPrev, NewNodeInv
    <3>2. root[B(t)] = chain[B(t)][1]
      BY <3>1 DEF RingInv, ChainLinks
    <3>3. chain[B(t)][1] \in Node
      BY ONLY <3>1
    <3>4. prev[root[B(t)]] \in Pointer
      BY <3>2, <3>3
    <3> QED BY <2>1, <2>3, <3>4 DEF SetItemPrev
  <2>4. CASE SetLastNext(t)
    BY <2>1, <2>4 DEF SetLastNext
  <2> QED BY <1>7, <2>2, <2>3, <2>4
<1>8. ASSUME NEW t \in Thread, SetRootPrev(t) PROVE TypeOK'
  <2>1. Mine(t) \in Node /\ B(t) \in Bucket /\ chain[B(t)] \in Seq(Node)
    BY MineType
  <2>2. Append(chain[B(t)], Mine(t)) \in Seq(Node)
    BY <2>1
  <2> QED BY <1>8, <2>1, <2>2 DEF SetRootPrev
<1>9. ASSUME NEW t \in Thread, ReadCount(t) \/ WriteCount(t) PROVE TypeOK'
  <2>1. count[B(t)] \in Nat /\ old[t] + 1 \in Nat
    BY MineType
  <2>2. CASE ReadCount(t)
    BY <2>1, <2>2 DEF ReadCount
  <2>3. CASE WriteCount(t)
    BY <2>1, <2>3 DEF WriteCount
  <2> QED BY <1>9, <2>2, <2>3
<1>10. ASSUME NEW t \in Thread, End(t) PROVE TypeOK'
  <2>1. job[t] \in 1 .. Len(Work[t])
    BY MineType
  <2>2. Len(Work[t]) \in Nat
    OBVIOUS
  <2>3. /\ job' = [job EXCEPT ![t] = IF job[t] = Len(Work[t]) THEN job[t]
                                     ELSE job[t] + 1]
    BY <1>10 DEF End
  <2>4. LET j == IF job[t] = Len(Work[t]) THEN job[t] ELSE job[t] + 1
        IN j \in Nat \ {0} /\ j <= Len(Work[t])
    BY ONLY <2>1, <2>2
  <2>5. job' \in [Thread -> Nat \ {0}] /\ \A u \in Thread : job'[u] <= Len(Work[u])
    BY <2>3, <2>4
  <2>6. mutex' \in Thread \cup {Null} /\ pc' \in [Thread -> Labels]
    BY <1>10 DEF End
  <2> QED BY <1>10, <2>5, <2>6 DEF End
<1>11. CASE UNCHANGED vars
  BY <1>11
<1> QED
  BY <1>1, <1>2, <1>3, <1>4, <1>5, <1>6, <1>7, <1>8, <1>9, <1>10, <1>11
     DEF Next, Step, Finished

----------------------------------------------------------------------------
(* Facts about chains.                                                     *)

\* Labels at which the thread's own node is not linked yet.
Before == Labels \ {"countread", "countwrite", "end", "done"}

LEMMA ChainType ==
  ASSUME TypeOK, NEW b \in Bucket
  PROVE  /\ chain[b] \in Seq(Node) /\ Len(chain[b]) \in Nat
         /\ \A i \in 1 .. Len(chain[b]) : chain[b][i] \in Node
         /\ chain[b] # <<>> => /\ Len(chain[b]) \in 1 .. Len(chain[b])
                               /\ 1 \in 1 .. Len(chain[b])
                               /\ Last(b) \in Node /\ chain[b][1] \in Node
<1>1. chain[b] \in Seq(Node)
  BY DEF TypeOK
<1> QED
  BY <1>1 DEF Last

\* A node that is not linked is in no chain.
LEMMA NotInChain ==
  ASSUME TypeOK, ChainInv, NEW t \in Thread, pc[t] \in Before,
         NEW b \in Bucket, NEW i \in 1 .. Len(chain[b])
  PROVE  chain[b][i] # Mine(t)
<1>1. Mine(t)[1] = t /\ Mine(t)[2] = job[t] /\ job[t] \in Nat
  BY MineType DEF TypeOK
<1>2. ~ Linked(Mine(t))
  BY <1>1 DEF Linked, Before
<1> QED
  BY <1>2 DEF ChainInv

\* No node is in two chains.
LEMMA OneChain ==
  ASSUME ChainInv, NEW b \in Bucket, NEW c \in Bucket, b # c,
         NEW i \in 1 .. Len(chain[b]), NEW j \in 1 .. Len(chain[c])
  PROVE  chain[b][i] # chain[c][j]
  BY DEF ChainInv

\* What appending does to a sequence of nodes.
LEMMA AppendFacts ==
  ASSUME NEW q \in Seq(Node), NEW n \in Node
  PROVE  /\ Append(q, n) \in Seq(Node) /\ Append(q, n) # <<>>
         /\ Len(Append(q, n)) = Len(q) + 1 /\ Len(q) \in Nat
         /\ \A i \in 1 .. Len(q) : Append(q, n)[i] = q[i]
         /\ Append(q, n)[Len(q) + 1] = n
  OBVIOUS

LEMMA DistinctAppend ==
  ASSUME NEW q \in Seq(Node), NEW n \in Node, Distinct(q),
         \A i \in 1 .. Len(q) : q[i] # n
  PROVE  Distinct(Append(q, n))
<1>1. Len(q) \in Nat
  OBVIOUS
<1>2. \A i \in 1 .. Len(q) + 1 : i \in 1 .. Len(q) \/ i = Len(q) + 1
  BY <1>1
<1> QED
  BY <1>2, AppendFacts DEF Distinct

\* What a step leaves of the other threads, and of its own item.
LEMMA Frame ==
  ASSUME TypeOK, NEW t \in Thread, Step(t)
  PROVE  /\ \A u \in Thread \ {t} : pc'[u] = pc[u] /\ job'[u] = job[u]
         /\ \A u \in Thread \ {t} :
              Want(u)' = Want(u) /\ B(u)' = B(u) /\ Mine(u)' = Mine(u)
         /\ pc[t] # "end" =>
              /\ job' = job
              /\ \A u \in Thread :
                   Want(u)' = Want(u) /\ B(u)' = B(u) /\ Mine(u)' = Mine(u)
<1>1. /\ \A u \in Thread \ {t} : pc'[u] = pc[u] /\ job'[u] = job[u]
      /\ pc[t] # "end" => job' = job
  BY DEF TypeOK, Step, Goto, Begin, SearchEmpty, SearchFirst, SearchHit,
         SearchNext, SearchEnd, TestRoot, SetSelfNext, SetSelfPrev, SetRoot,
         SetItemNext, SetItemPrev, SetLastNext, SetRootPrev, ReadCount,
         WriteCount, End
<1> QED
  BY <1>1 DEF Want, B, Mine

----------------------------------------------------------------------------
(* The mutex.                                                              *)

\* Between Begin and End a thread stays inside its section.
LEMMA StaysCritical ==
  ASSUME TypeOK, NEW t \in Thread, Step(t), ~ Begin(t), ~ End(t)
  PROVE  /\ mutex' = mutex
         /\ pc[t] \in Critical
         /\ \E l \in Critical : pc' = [pc EXCEPT ![t] = l]
<1> USE DEF TypeOK, Critical, Labels, Goto
<1>1. CASE SearchEmpty(t) \/ SearchFirst(t) \/ SearchHit(t)
  BY <1>1 DEF SearchEmpty, SearchFirst, SearchHit
<1>2. CASE SearchNext(t) \/ SearchEnd(t)
  BY <1>2 DEF SearchNext, SearchEnd
<1>3. CASE TestRoot(t)
  BY <1>3 DEF TestRoot
<1>4. CASE SetSelfNext(t) \/ SetSelfPrev(t) \/ SetRoot(t)
  BY <1>4 DEF SetSelfNext, SetSelfPrev, SetRoot
<1>5. CASE SetItemNext(t) \/ SetItemPrev(t)
  BY <1>5 DEF SetItemNext, SetItemPrev
<1>6. CASE SetLastNext(t) \/ SetRootPrev(t)
  BY <1>6 DEF SetLastNext, SetRootPrev
<1>7. CASE ReadCount(t) \/ WriteCount(t)
  BY <1>7 DEF ReadCount, WriteCount
<1> QED
  BY <1>1, <1>2, <1>3, <1>4, <1>5, <1>6, <1>7 DEF Step

LEMMA StepMutex ==
  ASSUME Locked, TypeOK, MutexInv, [Next]_vars
  PROVE  MutexInv'
<1>1. ASSUME NEW t \in Thread, Begin(t) PROVE MutexInv'
  BY <1>1 DEF Begin, TypeOK, MutexInv, Critical, Labels, Goto
<1>2. ASSUME NEW t \in Thread, End(t) PROVE MutexInv'
  BY <1>2 DEF End, TypeOK, MutexInv, Critical, Labels, Goto
<1>3. ASSUME NEW t \in Thread, Step(t), ~ Begin(t), ~ End(t) PROVE MutexInv'
  <2>1. mutex' = mutex /\ pc[t] \in Critical
    BY <1>3, StaysCritical
  <2>2. PICK l \in Critical : pc' = [pc EXCEPT ![t] = l]
    BY <1>3, StaysCritical
  <2>3. pc \in [Thread -> Labels]
    BY DEF TypeOK
  <2> QED BY <2>1, <2>2, <2>3 DEF MutexInv
<1>4. CASE UNCHANGED vars
  BY <1>4 DEF vars, MutexInv
<1> QED
  BY <1>1, <1>2, <1>3, <1>4 DEF Next, Finished

----------------------------------------------------------------------------
(* The chains.                                                             *)

\* The steps that link a node.
Link(t) == SetRoot(t) \/ SetRootPrev(t)

\* Every other step leaves the chains alone.
LEMMA ChainFrame ==
  ASSUME NEW t \in Thread, Step(t), ~ Link(t)
  PROVE  chain' = chain
  BY DEF Link, Step, ghosts, Begin, SearchEmpty, SearchFirst, SearchHit,
         SearchNext, SearchEnd, TestRoot, SetSelfNext, SetSelfPrev,
         SetItemNext, SetItemPrev, SetLastNext, ReadCount, WriteCount, End

\* A linked node stays linked.
LEMMA LinkedStable ==
  ASSUME TypeOK, NEW t \in Thread, Step(t), NEW n \in Node, Linked(n)
  PROVE  Linked(n)'
<1>1. n[1] \in Thread /\ n[2] \in Nat /\ job[n[1]] \in Nat
  BY NodeType DEF TypeOK
<1>2. CASE n[1] # t
  BY <1>1, <1>2, Frame DEF Linked
<1>3. CASE n[1] = t /\ pc[t] # "end"
  <2>1. job' = job
    BY <1>3, Frame
  <2>2. pc[t] \in {"countread", "countwrite", "done"} =>
          pc'[t] \in {"countwrite", "end"}
    BY DEF TypeOK, Step, Goto, Begin, SearchEmpty, SearchFirst, SearchHit,
         SearchNext, SearchEnd, TestRoot, SetSelfNext, SetSelfPrev, SetRoot,
         SetItemNext, SetItemPrev, SetLastNext, SetRootPrev, ReadCount,
         WriteCount, End
  <2> QED BY <1>3, <2>1, <2>2 DEF Linked
<1>4. CASE n[1] = t /\ pc[t] = "end"
  <2>1. End(t)
    BY <1>4 DEF Step, Goto, Begin, SearchEmpty, SearchFirst, SearchHit,
         SearchNext, SearchEnd, TestRoot, SetSelfNext, SetSelfPrev, SetRoot,
         SetItemNext, SetItemPrev, SetLastNext, SetRootPrev, ReadCount,
         WriteCount
  <2>2. CASE job[t] = Len(Work[t])
    BY <1>4, <2>1, <2>2 DEF End, Linked, Goto, TypeOK
  <2>3. CASE job[t] # Len(Work[t])
    <3>1. job'[t] = job[t] + 1
      BY <2>1, <2>3 DEF End, TypeOK
    <3>2. n[2] <= job[t]
      BY <1>1, <1>4 DEF Linked
    <3>3. n[2] < job'[t]
      BY <1>1, <1>4, <3>1, <3>2
    <3> QED BY <1>4, <3>3 DEF Linked
  <2> QED BY <2>2, <2>3
<1> QED
  BY <1>2, <1>3, <1>4

\* The step that links a node appends it to its chain.
LEMMA LinkStep ==
  ASSUME TypeOK, ChainInv, NEW t \in Thread, Link(t)
  PROVE  /\ pc[t] \in Before /\ pc'[t] = "countread" /\ job' = job
         /\ chain' = [chain EXCEPT ![B(t)] = Append(chain[B(t)], Mine(t))]
         /\ \A b \in Bucket \ {B(t)} : chain'[b] = chain[b]
         /\ chain'[B(t)] = Append(chain[B(t)], Mine(t))
         /\ chain[B(t)] \in Seq(Node) /\ Mine(t) \in Node
         /\ B(t) \in Bucket
  BY MineType, ChainType DEF Link, SetRoot, SetRootPrev, Goto, Before, Labels, TypeOK

LEMMA StepChain ==
  ASSUME TypeOK, ChainInv, [Next]_vars
  PROVE  ChainInv'
<1>1. CASE UNCHANGED vars
  BY <1>1 DEF vars, ghosts, ChainInv, Linked
<1>2. ASSUME NEW t \in Thread, Step(t), ~ Link(t) PROVE ChainInv'
  <2>1. chain' = chain
    BY <1>2, ChainFrame
  <2>2. ASSUME NEW b \in Bucket, NEW i \in 1 .. Len(chain[b])
        PROVE  Linked(chain[b][i])'
    BY <1>2, <2>1, <2>2, ChainType, LinkedStable DEF ChainInv
  <2> QED BY <2>1, <2>2 DEF ChainInv
<1>3. ASSUME NEW t \in Thread, Step(t), Link(t) PROVE ChainInv'
  <2>1. /\ pc[t] \in Before /\ pc'[t] = "countread" /\ job' = job
        /\ \A b \in Bucket \ {B(t)} : chain'[b] = chain[b]
        /\ chain'[B(t)] = Append(chain[B(t)], Mine(t))
        /\ chain[B(t)] \in Seq(Node) /\ Mine(t) \in Node /\ B(t) \in Bucket
    BY <1>3, LinkStep
  <2> DEFINE NowLinked(n) ==
        \/ n[2] < job'[n[1]]
        \/ n[2] = job'[n[1]] /\ pc'[n[1]] \in {"countread", "countwrite", "end", "done"}
  <2>2. ItemOf(Mine(t)) = Want(t) /\ NowLinked(Mine(t))
    BY <2>1, MineType
  <2>3. Distinct(Append(chain[B(t)], Mine(t)))
    BY <2>1, DistinctAppend, NotInChain DEF ChainInv
  <2>4. ASSUME NEW b \in Bucket, NEW i \in 1 .. Len(chain[b])
        PROVE  NowLinked(chain[b][i])
    <3>1. PICK n \in Node : n = chain[b][i]
      BY <2>4, ChainType
    <3>2. Linked(n)
      BY <3>1 DEF ChainInv
    <3>3. Linked(n)'
      BY <1>3, <3>2, LinkedStable
    <3> QED BY <3>1, <3>3 DEF Linked
  <2>5. ASSUME NEW b \in Bucket, b # B(t)
        PROVE  /\ Distinct(chain'[b])
               /\ \A i \in 1 .. Len(chain'[b]) :
                    BucketOf[ItemOf(chain'[b][i])] = b /\ NowLinked(chain'[b][i])
    <3>1. chain'[b] = chain[b]
      BY <2>1, <2>5
    <3> HIDE DEF NowLinked
    <3> QED BY <3>1, <2>4 DEF ChainInv
  <2>6. ASSUME NEW i \in 1 .. Len(chain'[B(t)])
        PROVE  BucketOf[ItemOf(chain'[B(t)][i])] = B(t) /\ NowLinked(chain'[B(t)][i])
    <3> HIDE DEF NowLinked
    <3>1. i \in 1 .. Len(chain[B(t)]) \/ i = Len(chain[B(t)]) + 1
      BY <2>1, <2>6, AppendFacts
    <3>2. CASE i \in 1 .. Len(chain[B(t)])
      <4>1. chain'[B(t)][i] = chain[B(t)][i]
        BY <2>1, <3>2, AppendFacts
      <4> QED BY <4>1, <2>1, <2>4, <3>2 DEF ChainInv
    <3>3. CASE i = Len(chain[B(t)]) + 1
      <4>1. chain'[B(t)][i] = Mine(t)
        BY <2>1, <3>3, AppendFacts
      <4> QED BY <4>1, <2>2 DEF B
    <3> QED BY <3>1, <3>2, <3>3
  <2>7. Distinct(chain'[B(t)])
    BY <2>1, <2>3
  <2> QED BY <2>5, <2>6, <2>7 DEF ChainInv, Linked
<1> QED
  BY <1>1, <1>2, <1>3 DEF Next, Finished

----------------------------------------------------------------------------
(* The rings.                                                              *)

\* The nodes of a bucket's chain that the steps of an insertion touch.
LEMMA RingNodes ==
  ASSUME TypeOK, RingInv, NEW b \in Bucket, chain[b] # <<>>
  PROVE  /\ root[b] = chain[b][1] /\ root[b] \in Node /\ Last(b) \in Node
         /\ prev[root[b]] = Last(b)
  BY ChainType DEF RingInv, ChainLinks

\* Steps that change neither the chains nor the fields of their nodes.
Quiet(t) ==
  \/ Begin(t) \/ SearchEmpty(t) \/ SearchFirst(t) \/ SearchHit(t)
  \/ SearchNext(t) \/ SearchEnd(t) \/ TestRoot(t)
  \/ SetSelfNext(t) \/ SetSelfPrev(t) \/ SetItemNext(t) \/ SetItemPrev(t)
  \/ ReadCount(t) \/ WriteCount(t) \/ End(t)

LEMMA QuietFrame ==
  ASSUME TypeOK, ChainInv, NEW t \in Thread, Quiet(t)
  PROVE  /\ chain' = chain /\ root' = root
         /\ pc[t] # "rootprev" /\ pc'[t] # "rootprev"
         /\ \A b \in Bucket : \A i \in 1 .. Len(chain[b]) :
              /\ next'[chain[b][i]] = next[chain[b][i]]
              /\ prev'[chain[b][i]] = prev[chain[b][i]]
<1>1. /\ chain' = chain /\ root' = root
      /\ pc[t] # "rootprev" /\ pc'[t] # "rootprev"
  BY DEF TypeOK, Quiet, ghosts, links, Goto, Begin, SearchEmpty, SearchFirst,
         SearchHit, SearchNext, SearchEnd, TestRoot, SetSelfNext, SetSelfPrev,
         SetItemNext, SetItemPrev, ReadCount, WriteCount, End
<1>2. \/ next' = next /\ prev' = prev
      \/ pc[t] \in Before /\ prev' = prev
           /\ \E v \in Pointer : next' = [next EXCEPT ![Mine(t)] = v]
      \/ pc[t] \in Before /\ next' = next
           /\ \E v : prev' = [prev EXCEPT ![Mine(t)] = v]
  <2>1. CASE SetSelfNext(t) \/ SetSelfPrev(t) \/ SetItemNext(t) \/ SetItemPrev(t)
    <3>1. Mine(t) \in Pointer /\ root[B(t)] \in Pointer
      BY MineType DEF Pointer, TypeOK
    <3> QED
      BY <2>1, <3>1 DEF SetSelfNext, SetSelfPrev, SetItemNext, SetItemPrev,
         Goto, Before, Labels
  <2>2. CASE ~ (SetSelfNext(t) \/ SetSelfPrev(t) \/ SetItemNext(t) \/ SetItemPrev(t))
    BY <2>2 DEF Quiet, links, Begin, SearchEmpty, SearchFirst, SearchHit,
         SearchNext, SearchEnd, TestRoot, ReadCount, WriteCount, End
  <2> QED BY <2>1, <2>2
<1>3. ASSUME NEW b \in Bucket, NEW i \in 1 .. Len(chain[b])
      PROVE  /\ next'[chain[b][i]] = next[chain[b][i]]
             /\ prev'[chain[b][i]] = prev[chain[b][i]]
  <2>1. pc[t] \in Before => chain[b][i] # Mine(t)
    BY NotInChain
  <2>2. next \in Fields /\ prev \in Fields /\ chain[b][i] \in Node
    BY ChainType DEF TypeOK
  <2> QED BY <1>2, <2>1, <2>2 DEF Fields
<1> QED
  BY <1>1, <1>3

LEMMA QuietRing ==
  ASSUME TypeOK, ChainInv, RingInv, NEW t \in Thread, Quiet(t)
  PROVE  RingInv'
<1>1. /\ chain' = chain /\ root' = root
      /\ \A b \in Bucket : \A i \in 1 .. Len(chain[b]) :
           /\ next'[chain[b][i]] = next[chain[b][i]]
           /\ prev'[chain[b][i]] = prev[chain[b][i]]
  BY QuietFrame
<1>2. ASSUME NEW b \in Bucket
      PROVE  ChainLinks(b)'
  <2>1. ChainLinks(b) /\ Len(chain[b]) \in Nat
    BY ChainType DEF RingInv
  <2>2. \A i \in 1 .. Len(chain[b]) - 1 :
          i \in 1 .. Len(chain[b]) /\ i + 1 \in 1 .. Len(chain[b])
    BY <2>1
  <2>3. chain[b] # <<>> => 1 \in 1 .. Len(chain[b])
    BY ChainType
  <2> QED
    BY <1>1, <2>1, <2>2, <2>3 DEF ChainLinks, Last
<1> QED
  BY <1>2 DEF RingInv

\* The step before the last of an insertion: the last node leads to the new one.
LEMMA LastNextRing ==
  ASSUME TypeOK, ChainInv, RingInv, NewNodeInv, NEW t \in Thread, SetLastNext(t)
  PROVE  /\ chain' = chain /\ root' = root /\ prev' = prev
         /\ chain[B(t)] # <<>>
         /\ next' = [next EXCEPT ![Last(B(t))] = Mine(t)]
         /\ RingInv'
<1>1. /\ chain' = chain /\ root' = root /\ prev' = prev
      /\ chain[B(t)] # <<>> /\ B(t) \in Bucket
      /\ next' = [next EXCEPT ![prev[root[B(t)]]] = Mine(t)]
  BY MineType DEF SetLastNext, ghosts, NewNodeInv, Goto
<1>2. next' = [next EXCEPT ![Last(B(t))] = Mine(t)]
  BY <1>1, RingNodes
<1>3. ASSUME NEW b \in Bucket, NEW i \in 1 .. Len(chain[b]) - 1
      PROVE  next'[chain[b][i]] = next[chain[b][i]]
  <2>1. /\ Len(chain[b]) \in Nat /\ i \in 1 .. Len(chain[b]) /\ i # Len(chain[b])
        /\ Len(chain[b]) \in 1 .. Len(chain[b])
    BY <1>3, ChainType
  <2>2. chain[b][i] # Last(B(t))
    <3>1. CASE b = B(t)
      BY <2>1, <3>1 DEF ChainInv, Distinct, Last
    <3>2. CASE b # B(t)
      BY <1>1, <2>1, <3>2, OneChain, ChainType DEF Last
    <3> QED BY <3>1, <3>2
  <2> QED BY <1>2, <2>2, <2>1, ChainType DEF TypeOK, Fields
<1>4. ASSUME NEW b \in Bucket PROVE ChainLinks(b)'
  BY <1>1, <1>3 DEF RingInv, ChainLinks, Last
<1> QED
  BY <1>1, <1>2, <1>4 DEF RingInv

\* The first node of a bucket.
LEMMA SetRootRing ==
  ASSUME TypeOK, ChainInv, RingInv, NewNodeInv, NEW t \in Thread, SetRoot(t)
  PROVE  /\ RingInv'
         /\ next' = next /\ prev' = prev
         /\ next'[Mine(t)] = chain'[B(t)][1] /\ Last(B(t))' = Mine(t)
<1>1. /\ next' = next /\ prev' = prev /\ B(t) \in Bucket /\ Mine(t) \in Node
      /\ chain[B(t)] = <<>> /\ next[Mine(t)] = Mine(t) /\ prev[Mine(t)] = Mine(t)
      /\ root' = [root EXCEPT ![B(t)] = Mine(t)]
      /\ job' = job
  BY MineType DEF SetRoot, NewNodeInv, Goto
<1>2. chain' = [chain EXCEPT ![B(t)] = <<Mine(t)>>]
  BY <1>1 DEF SetRoot
<1>3. /\ chain'[B(t)] = <<Mine(t)>> /\ root'[B(t)] = Mine(t)
      /\ \A b \in Bucket \ {B(t)} : chain'[b] = chain[b] /\ root'[b] = root[b]
  BY <1>1, <1>2 DEF TypeOK
<1>4. B(t)' = B(t)
  BY <1>1 DEF B, Want
<1>5. ASSUME NEW b \in Bucket, b # B(t) PROVE ChainLinks(b)'
  BY <1>1, <1>3, <1>5 DEF RingInv, ChainLinks, Last
<1>6. ASSUME NEW b \in Bucket, b = B(t) PROVE ChainLinks(b)'
  <2>1. chain'[b] = <<Mine(t)>> /\ root'[b] = Mine(t) /\ prev'[Mine(t)] = Mine(t)
    BY <1>1, <1>3, <1>6
  <2>2. Len(chain'[b]) = 1 /\ chain'[b][1] = Mine(t) /\ chain'[b] # <<>>
    BY <2>1
  <2> QED BY <2>1, <2>2 DEF ChainLinks, Last
<1>7. Last(B(t))' = Mine(t)
  <2>1. Len(chain'[B(t)]) = 1 /\ chain'[B(t)][1] = Mine(t)
    BY <1>3
  <2> QED BY <1>4, <2>1 DEF Last
<1> QED
  BY <1>1, <1>3, <1>5, <1>6, <1>7 DEF RingInv

\* A further node.
LEMMA SetRootPrevRing ==
  ASSUME TypeOK, ChainInv, RingInv, NewNodeInv, NEW t \in Thread, SetRootPrev(t)
  PROVE  /\ RingInv'
         /\ next' = next
         /\ next'[Mine(t)] = chain'[B(t)][1] /\ Last(B(t))' = Mine(t)
<1> DEFINE q == chain[B(t)]
<1>1. /\ next' = next /\ root' = root /\ B(t) \in Bucket /\ Mine(t) \in Node
      /\ q # <<>> /\ q \in Seq(Node)
      /\ next[Mine(t)] = q[1] /\ prev[Mine(t)] = Last(B(t))
      /\ next[Last(B(t))] = Mine(t)
      /\ job' = job /\ pc[t] \in Before
  BY MineType, ChainType DEF SetRootPrev, NewNodeInv, Goto, Before, Labels, links
<1>2. root[B(t)] = q[1] /\ q[1] \in Node
  BY <1>1, RingNodes
<1>3. prev' = [prev EXCEPT ![q[1]] = Mine(t)]
  BY <1>2 DEF SetRootPrev
<1>4. /\ chain'[B(t)] = Append(q, Mine(t))
      /\ \A b \in Bucket \ {B(t)} : chain'[b] = chain[b]
  BY LinkStep DEF Link
<1>5. B(t)' = B(t)
  BY <1>1 DEF B, Want
<1>6. /\ Len(chain'[B(t)]) = Len(q) + 1 /\ Len(q) \in Nat /\ Len(q) \in 1 .. Len(q)
      /\ 1 \in 1 .. Len(q)
      /\ \A i \in 1 .. Len(q) : chain'[B(t)][i] = q[i]
      /\ chain'[B(t)][Len(q) + 1] = Mine(t)
      /\ chain'[B(t)] # <<>>
  <2>1. Len(q) \in Nat /\ Len(q) \in 1 .. Len(q) /\ 1 \in 1 .. Len(q)
    BY <1>1, ChainType
  <2> HIDE DEF q
  <2>2. /\ Len(Append(q, Mine(t))) = Len(q) + 1 /\ Append(q, Mine(t)) # <<>>
        /\ \A i \in 1 .. Len(q) : Append(q, Mine(t))[i] = q[i]
        /\ Append(q, Mine(t))[Len(q) + 1] = Mine(t)
    BY <1>1, AppendFacts
  <2> QED BY <1>4, <2>1, <2>2
<1>7. \A n \in Node : n # q[1] => prev'[n] = prev[n]
  BY <1>3 DEF TypeOK, Fields
<1>8. prev'[q[1]] = Mine(t)
  BY <1>2, <1>3 DEF TypeOK, Fields
<1>9. Last(B(t))' = Mine(t)
  BY <1>5, <1>6 DEF Last
<1>10. ASSUME NEW b \in Bucket, b # B(t) PROVE ChainLinks(b)'
  <2>1. chain'[b] = chain[b] /\ ChainLinks(b) /\ Len(chain[b]) \in Nat
    BY <1>4, <1>10, ChainType DEF RingInv
  <2>2. \A i \in 1 .. Len(chain[b]) : prev'[chain[b][i]] = prev[chain[b][i]]
    BY <1>1, <1>6, <1>7, <1>10, ChainType, OneChain
  <2>3. \A i \in 1 .. Len(chain[b]) - 1 : i + 1 \in 1 .. Len(chain[b])
    BY <2>1
  <2>4. chain[b] # <<>> => 1 \in 1 .. Len(chain[b])
    BY ChainType
  <2> QED BY <1>1, <2>1, <2>2, <2>3, <2>4 DEF ChainLinks, Last
<1>11. ASSUME NEW b \in Bucket, b = B(t) PROVE ChainLinks(b)'
  <2>1. \A i \in 1 .. Len(q) - 1 : next[q[i]] = q[i + 1] /\ prev[q[i + 1]] = q[i]
    BY <1>1 DEF RingInv, ChainLinks
  <2>2. \A i \in 1 .. Len(q) - 1 :
          i \in 1 .. Len(q) /\ i + 1 \in 1 .. Len(q) /\ i + 1 # 1
    BY <1>6
  <2>3. \A i \in 1 .. Len(q) - 1 : q[i + 1] # q[1] /\ q[i + 1] \in Node
    BY <1>1, <1>6, <2>2, ChainType DEF ChainInv, Distinct
  <2>4. \A i \in 1 .. Len(q) - 1 : prev'[q[i + 1]] = q[i]
    BY <1>7, <2>1, <2>3
  <2>5. Mine(t) # q[1]
    BY <1>1, <1>6, NotInChain
  <2>6. prev'[Mine(t)] = Last(B(t)) /\ Last(B(t)) = q[Len(q)]
    BY <1>1, <1>7, <2>5 DEF Last
  <2>7. \A i \in 1 .. Len(q) : i \in 1 .. Len(q) - 1 \/ i = Len(q)
    BY <1>6
  <2>8. ASSUME NEW i \in 1 .. Len(q)
        PROVE  /\ next'[chain'[b][i]] = chain'[b][i + 1]
               /\ prev'[chain'[b][i + 1]] = chain'[b][i]
    <3>1. CASE i \in 1 .. Len(q) - 1
      <4>1. chain'[b][i] = q[i] /\ chain'[b][i + 1] = q[i + 1]
        BY <1>6, <1>11, <2>2, <3>1
      <4> QED BY <4>1, <1>1, <2>1, <2>4, <3>1
    <3>2. CASE i = Len(q)
      <4>1. chain'[b][i] = Last(B(t)) /\ chain'[b][i + 1] = Mine(t)
        BY <1>6, <1>11, <2>6, <3>2
      <4> QED BY <4>1, <1>1, <2>6
    <3> QED BY <2>7, <3>1, <3>2
  <2>9. Len(chain'[b]) - 1 = Len(q)
    BY <1>6, <1>11
  <2>10. root'[b] = chain'[b][1] /\ prev'[chain'[b][1]] = Last(b)'
    BY <1>1, <1>2, <1>5, <1>6, <1>8, <1>9, <1>11
  <2> QED BY <1>6, <1>11, <2>8, <2>9, <2>10 DEF ChainLinks
<1>12. next'[Mine(t)] = chain'[B(t)][1]
  BY <1>1, <1>6
<1> QED
  BY <1>1, <1>9, <1>10, <1>11, <1>12 DEF RingInv

\* While a thread takes a step, no other one is in the critical section.
LEMMA Others ==
  ASSUME Locked, TypeOK, MutexInv, NEW t \in Thread, Step(t)
  PROVE  /\ \A u \in Thread \ {t} : pc[u] \notin Critical /\ pc'[u] \notin Critical
         /\ pc[t] \in Critical => mutex = t
         /\ pc[t] \notin Critical => Begin(t) /\ mutex = Null
<1>1. \A u \in Thread \ {t} : pc'[u] = pc[u]
  BY Frame
<1>2. pc[t] \in Critical => mutex = t
  BY DEF MutexInv
<1>3. pc[t] \notin Critical => Begin(t)
  BY DEF TypeOK, Critical, Labels, Step, Goto, Begin, SearchEmpty, SearchFirst,
         SearchHit, SearchNext, SearchEnd, TestRoot, SetSelfNext, SetSelfPrev,
         SetRoot, SetItemNext, SetItemPrev, SetLastNext, SetRootPrev, ReadCount,
         WriteCount, End
<1>4. Begin(t) => mutex = Null
  BY DEF Begin
<1> QED
  BY <1>1, <1>2, <1>3, <1>4 DEF MutexInv

LEMMA StepRing ==
  ASSUME TypeOK, ChainInv, RingInv, NewNodeInv, [Next]_vars
  PROVE  RingInv'
<1>1. CASE UNCHANGED vars
  BY <1>1 DEF vars, links, ghosts, RingInv, ChainLinks, Last
<1>2. ASSUME NEW t \in Thread, Step(t) PROVE RingInv'
  <2>1. Quiet(t) \/ SetLastNext(t) \/ SetRoot(t) \/ SetRootPrev(t)
    BY <1>2 DEF Step, Quiet
  <2> QED
    BY <2>1, QuietRing, LastNextRing, SetRootRing, SetRootPrevRing
<1> QED
  BY <1>1, <1>2 DEF Next, Finished

LEMMA StepClosed ==
  ASSUME Locked, TypeOK, MutexInv, ChainInv, RingInv, ClosedInv, NewNodeInv,
         [Next]_vars
  PROVE  ClosedInv'
<1>1. CASE UNCHANGED vars
  BY <1>1 DEF vars, links, ghosts, ClosedInv, Last, B, Want
<1>2. ASSUME NEW t \in Thread, Step(t), Quiet(t) PROVE ClosedInv'
  <2>1. /\ chain' = chain /\ pc[t] # "rootprev"
        /\ \A b \in Bucket : \A i \in 1 .. Len(chain[b]) :
             next'[chain[b][i]] = next[chain[b][i]]
    BY <1>2, QuietFrame
  <2>2. mutex = Null \/ pc[mutex] # "rootprev"
    BY <1>2, <2>1, Others
  <2>3. ASSUME NEW b \in Bucket, chain[b] # <<>>
        PROVE  next'[Last(b)] = chain[b][1]
    BY <2>1, <2>2, <2>3, ChainType DEF ClosedInv, Last
  <2> QED BY <2>1, <2>3 DEF ClosedInv, Last
<1>3. ASSUME NEW t \in Thread, Step(t), SetLastNext(t) PROVE ClosedInv'
  <2>1. /\ chain' = chain /\ chain[B(t)] # <<>> /\ B(t) \in Bucket
        /\ next' = [next EXCEPT ![Last(B(t))] = Mine(t)]
    BY <1>3, LastNextRing, MineType
  <2>2. pc[t] \in Critical /\ mutex = t /\ mutex' = t /\ pc'[t] = "rootprev"
    BY <1>3, Others DEF SetLastNext, Goto, Critical, Labels, TypeOK
  <2>3. B(t)' = B(t)
    BY <1>3, Frame DEF SetLastNext, Goto
  <2>4. ASSUME NEW b \in Bucket, chain[b] # <<>>, b # B(t)
        PROVE  next'[Last(b)] = chain[b][1]
    <3>1. next[Last(b)] = chain[b][1]
      BY <2>2, <2>4 DEF ClosedInv
    <3>2. Last(b) # Last(B(t)) /\ Last(b) \in Node
      BY <2>1, <2>4, ChainType, OneChain DEF Last
    <3> QED BY <2>1, <3>1, <3>2 DEF TypeOK, Fields
  <2>5. mutex' # Null
    BY <2>2
  <2>6. ASSUME NEW b \in Bucket, b = B(t)
        PROVE  (mutex # Null /\ pc[mutex] = "rootprev" /\ B(mutex) = b)'
    BY <2>2, <2>3, <2>5, <2>6
  <2> QED BY <2>1, <2>4, <2>6 DEF ClosedInv, Last
<1>4. ASSUME NEW t \in Thread, Step(t), Link(t) PROVE ClosedInv'
  <2>1. /\ pc[t] \in Critical /\ mutex = t /\ B(t) \in Bucket
        /\ \A b \in Bucket \ {B(t)} : chain'[b] = chain[b]
        /\ pc[t] = "rootprev" \/ pc[t] = "setroot"
    BY <1>4, Others, LinkStep DEF Link, SetRoot, SetRootPrev, Goto, Critical, Labels
  <2>2. next' = next /\ next'[Mine(t)] = chain'[B(t)][1] /\ Last(B(t))' = Mine(t)
    BY <1>4, SetRootRing, SetRootPrevRing DEF Link
  <2>3. B(t)' = B(t)
    BY <1>4, <2>1, Frame
  <2>4. ASSUME NEW b \in Bucket, b = B(t) PROVE next'[Last(b)'] = chain'[b][1]
    BY <2>2, <2>3, <2>4 DEF Last
  <2>5. ASSUME NEW b \in Bucket, b # B(t), chain'[b] # <<>>
        PROVE  next'[Last(b)'] = chain'[b][1]
    BY <2>1, <2>2, <2>5 DEF ClosedInv, Last
  <2> QED BY <2>4, <2>5 DEF ClosedInv
<1>5. ASSUME NEW t \in Thread, Step(t)
      PROVE  Quiet(t) \/ SetLastNext(t) \/ Link(t)
  BY <1>5 DEF Step, Quiet, Link
<1> QED
  BY <1>1, <1>2, <1>3, <1>4, <1>5 DEF Next, Finished

LEMMA StepNewNode ==
  ASSUME Locked, TypeOK, MutexInv, ChainInv, RingInv, NewNodeInv, [Next]_vars
  PROVE  NewNodeInv'
<1> DEFINE Good(t) ==
      /\ pc[t] \in {"selfnext", "selfprev", "setroot"} => chain[B(t)] = <<>>
      /\ pc[t] \in {"itemnext", "itemprev", "lastnext", "rootprev"} =>
           chain[B(t)] # <<>>
      /\ pc[t] \in {"selfprev", "setroot"} => next[Mine(t)] = Mine(t)
      /\ pc[t] = "setroot" => prev[Mine(t)] = Mine(t)
      /\ pc[t] \in {"itemprev", "lastnext", "rootprev"} =>
           next[Mine(t)] = chain[B(t)][1]
      /\ pc[t] \in {"lastnext", "rootprev"} => prev[Mine(t)] = Last(B(t))
      /\ pc[t] = "rootprev" => next[Last(B(t))] = Mine(t)
<1>1. CASE UNCHANGED vars
  BY <1>1 DEF vars, links, ghosts, NewNodeInv, Last, B, Want, Mine
<1>2. ASSUME NEW t \in Thread, Step(t) PROVE Good(t)'
  <2>1. /\ Mine(t) \in Node /\ B(t) \in Bucket /\ Good(t)
        /\ next \in Fields /\ prev \in Fields
    BY MineType DEF NewNodeInv, TypeOK
  <2>2. chain[B(t)] # <<>> =>
          /\ root[B(t)] = chain[B(t)][1] /\ Last(B(t)) \in Node
          /\ prev[root[B(t)]] = Last(B(t)) /\ root[B(t)] \in Node
    BY <2>1, RingNodes
  <2>3. chain[B(t)] = <<>> <=> root[B(t)] = Null
    BY <2>1, <2>2, NodeType DEF RingInv, ChainLinks
  <2>4. pc[t] # "end" => Mine(t)' = Mine(t) /\ B(t)' = B(t)
    BY <1>2, Frame
  <2>5. CASE \/ Begin(t) \/ SearchEmpty(t) \/ SearchFirst(t) \/ SearchHit(t)
             \/ SearchNext(t) \/ SearchEnd(t) \/ ReadCount(t) \/ WriteCount(t)
             \/ End(t) \/ SetRoot(t) \/ SetRootPrev(t)
    BY <2>5 DEF Goto, TypeOK, Begin, SearchEmpty, SearchFirst, SearchHit,
         SearchNext, SearchEnd, ReadCount, WriteCount, End, SetRoot, SetRootPrev
  <2>6. CASE TestRoot(t)
    BY <2>3, <2>4, <2>6 DEF TestRoot, Goto, TypeOK, ghosts, links
  <2>7. CASE SetSelfNext(t)
    BY <2>1, <2>4, <2>7 DEF SetSelfNext, Goto, TypeOK, ghosts, Fields
  <2>8. CASE SetSelfPrev(t)
    BY <2>1, <2>4, <2>8 DEF SetSelfPrev, Goto, TypeOK, ghosts, Fields
  <2>9. CASE SetItemNext(t)
    BY <2>1, <2>2, <2>4, <2>9 DEF SetItemNext, Goto, TypeOK, ghosts, Fields
  <2>10. CASE SetItemPrev(t)
    BY <2>1, <2>2, <2>4, <2>10 DEF SetItemPrev, Goto, TypeOK, ghosts, Fields, Last
  <2>11. CASE SetLastNext(t)
    <3>1. pc[t] = "lastnext" /\ pc'[t] = "rootprev" /\ chain' = chain
          /\ prev' = prev /\ next' = [next EXCEPT ![Last(B(t))] = Mine(t)]
      BY <2>11, LastNextRing DEF SetLastNext, Goto, TypeOK
    <3>2. Mine(t) # Last(B(t))
      BY <2>1, <3>1, NotInChain, ChainType DEF Last, Before, Labels
    <3> QED
      BY <2>1, <2>2, <2>4, <3>1, <3>2 DEF Fields, Last
  <2> QED BY <1>2, <2>5, <2>6, <2>7, <2>8, <2>9, <2>10, <2>11 DEF Step
<1>3. ASSUME NEW t \in Thread, Step(t), NEW u \in Thread, u # t PROVE Good(u)'
  BY <1>3, Others DEF Critical, Labels
<1> QED
  BY <1>1, <1>2, <1>3 DEF Next, Finished, NewNodeInv

----------------------------------------------------------------------------
(* The search.                                                             *)

\* Where a search stands, and whether it is at the last node.
LEMMA WalkPlace ==
  ASSUME Locked, TypeOK, MutexInv, ChainInv, RingInv, ClosedInv, WalkInv,
         NEW t \in Thread, pc[t] = "walk"
  PROVE  \E k \in 1 .. Len(chain[B(t)]) :
           /\ chain[B(t)] # <<>> /\ head[t] = chain[B(t)][1]
           /\ cur[t] = chain[B(t)][k]
           /\ \A i \in 1 .. k - 1 : ItemOf(chain[B(t)][i]) # Want(t)
           /\ next[cur[t]] = head[t] <=> k = Len(chain[B(t)])
           /\ k # Len(chain[B(t)]) => /\ k + 1 \in 1 .. Len(chain[B(t)])
                                      /\ next[cur[t]] = chain[B(t)][k + 1]
<1>1. B(t) \in Bucket /\ Len(chain[B(t)]) \in Nat
  BY MineType, ChainType
<1>2. PICK k \in 1 .. Len(chain[B(t)]) :
        /\ cur[t] = chain[B(t)][k]
        /\ \A i \in 1 .. k - 1 : ItemOf(chain[B(t)][i]) # Want(t)
  BY DEF WalkInv
<1>3. chain[B(t)] # <<>> /\ 1 \in 1 .. Len(chain[B(t)])
  BY <1>1, <1>2, ChainType
<1>4. head[t] = chain[B(t)][1]
  BY <1>1, <1>3, RingNodes DEF WalkInv
<1>5. next[Last(B(t))] = chain[B(t)][1]
  BY <1>1, <1>3 DEF ClosedInv, MutexInv, Critical, Labels
<1>6. CASE k = Len(chain[B(t)])
  BY <1>2, <1>3, <1>4, <1>5, <1>6 DEF Last
<1>7. CASE k # Len(chain[B(t)])
  <2>1. k \in 1 .. Len(chain[B(t)]) - 1 /\ k + 1 \in 1 .. Len(chain[B(t)]) /\ k + 1 # 1
    BY <1>1, <1>7
  <2>2. next[cur[t]] = chain[B(t)][k + 1]
    BY <1>1, <1>2, <2>1 DEF RingInv, ChainLinks
  <2>3. chain[B(t)][k + 1] # chain[B(t)][1]
    BY <1>1, <1>3, <2>1 DEF ChainInv, Distinct
  <2> QED BY <1>2, <1>3, <1>4, <1>7, <2>1, <2>2, <2>3
<1> QED
  BY <1>6, <1>7

LEMMA StepWalk ==
  ASSUME Locked, TypeOK, MutexInv, ChainInv, RingInv, ClosedInv, WalkInv,
         [Next]_vars
  PROVE  WalkInv'
<1> DEFINE Good(t) ==
      pc[t] = "walk" =>
        /\ head[t] = root[B(t)]
        /\ \E k \in 1 .. Len(chain[B(t)]) :
             /\ cur[t] = chain[B(t)][k]
             /\ \A i \in 1 .. k - 1 : ItemOf(chain[B(t)][i]) # Want(t)
<1>1. CASE UNCHANGED vars
  BY <1>1 DEF vars, links, walk, ghosts, WalkInv, B, Want
<1>2. ASSUME NEW t \in Thread, Step(t) PROVE Good(t)'
  <2>1. B(t) \in Bucket /\ Len(chain[B(t)]) \in Nat
    BY MineType, ChainType
  <2>2. CASE SearchFirst(t)
    <3>1. /\ root[B(t)] # Null /\ chain' = chain /\ root' = root
          /\ head'[t] = root[B(t)] /\ cur'[t] = root[B(t)] /\ pc[t] # "end"
      BY <2>2 DEF SearchFirst, TypeOK, ghosts, links, Goto
    <3>2. B(t)' = B(t) /\ Want(t)' = Want(t)
      BY <1>2, <3>1, Frame
    <3>3. chain[B(t)] # <<>>
      BY <2>1, <3>1 DEF RingInv, ChainLinks
    <3>4. root[B(t)] = chain[B(t)][1] /\ 1 \in 1 .. Len(chain[B(t)])
      BY <2>1, <3>3, RingNodes, ChainType
    <3>5. cur'[t] = chain[B(t)][1] /\ \A i \in 1 .. 1 - 1 : FALSE
      BY <3>1, <3>4
    <3> QED BY <3>1, <3>2, <3>4, <3>5
  <2>3. CASE SearchNext(t)
    <3>1. /\ pc[t] = "walk" /\ chain' = chain /\ root' = root /\ head' = head
          /\ cur'[t] = next[cur[t]]
          /\ ItemOf(cur[t]) # Want(t) /\ next[cur[t]] # head[t]
      BY <2>3 DEF SearchNext, TypeOK, ghosts, links, Goto
    <3>2. B(t)' = B(t) /\ Want(t)' = Want(t)
      BY <1>2, <3>1, Frame
    <3>3. PICK k \in 1 .. Len(chain[B(t)]) :
            /\ cur[t] = chain[B(t)][k]
            /\ \A i \in 1 .. k - 1 : ItemOf(chain[B(t)][i]) # Want(t)
            /\ k + 1 \in 1 .. Len(chain[B(t)])
            /\ next[cur[t]] = chain[B(t)][k + 1]
      BY <3>1, WalkPlace
    <3>4. \A i \in 1 .. (k + 1) - 1 : i \in 1 .. k - 1 \/ i = k
      BY <2>1
    <3>5. \A i \in 1 .. (k + 1) - 1 : ItemOf(chain[B(t)][i]) # Want(t)
      BY <3>1, <3>3, <3>4
    <3>6. head[t] = root[B(t)]
      BY <3>1 DEF WalkInv
    <3> QED BY <3>1, <3>2, <3>3, <3>5, <3>6
  <2>4. CASE ~ (SearchFirst(t) \/ SearchNext(t))
    <3>1. pc'[t] # "walk"
      BY <1>2, <2>4 DEF TypeOK, Step, Goto, Begin, SearchEmpty, SearchHit,
         SearchEnd, TestRoot, SetSelfNext, SetSelfPrev, SetRoot, SetItemNext,
         SetItemPrev, SetLastNext, SetRootPrev, ReadCount, WriteCount, End
    <3> QED BY <3>1
  <2> QED BY <2>2, <2>3, <2>4
<1>3. ASSUME NEW t \in Thread, Step(t), NEW u \in Thread, u # t PROVE Good(u)'
  BY <1>3, Others DEF Critical, Labels
<1> QED
  BY <1>1, <1>2, <1>3 DEF Next, Finished, WalkInv

----------------------------------------------------------------------------
(* What was found new.                                                     *)

Fresh(t) == SearchEmpty(t) \/ SearchEnd(t)

\* A search that fails has looked at the whole bucket.
LEMMA FreshStep ==
  ASSUME Locked, TypeOK, MutexInv, ChainInv, RingInv, ClosedInv, WalkInv, NewInv,
         NEW t \in Thread, Fresh(t)
  PROVE  /\ ~ Known(Want(t)) /\ Want(t) \in Item
         /\ new' = Append(new, Want(t)) /\ chain' = chain
         /\ pc'[t] = "test" /\ mutex = t /\ mutex' = t /\ job' = job
<1>1. /\ new' = Append(new, Want(t)) /\ chain' = chain
      /\ pc[t] \in {"search", "walk"} /\ pc'[t] = "test" /\ mutex' = mutex
      /\ job' = job
  BY DEF Fresh, SearchEmpty, SearchEnd, Goto, TypeOK
<1>2. mutex = t
  BY <1>1 DEF MutexInv, Critical, Labels
<1>3. Want(t) \in Item /\ B(t) \in Bucket /\ B(t) = BucketOf[Want(t)]
      /\ Len(chain[B(t)]) \in Nat
  BY MineType, ChainType DEF B
<1>4. \A i \in 1 .. Len(chain[B(t)]) : ItemOf(chain[B(t)][i]) # Want(t)
  <2>1. CASE SearchEmpty(t)
    <3>1. chain[B(t)] = <<>>
      BY <1>3, <2>1, RingNodes, NodeType DEF SearchEmpty
    <3> QED BY <3>1
  <2>2. CASE SearchEnd(t)
    <3>1. pc[t] = "walk" /\ ItemOf(cur[t]) # Want(t) /\ next[cur[t]] = head[t]
      BY <2>2 DEF SearchEnd, Goto
    <3>2. /\ cur[t] = chain[B(t)][Len(chain[B(t)])]
          /\ \A i \in 1 .. Len(chain[B(t)]) - 1 : ItemOf(chain[B(t)][i]) # Want(t)
      BY <3>1, WalkPlace
    <3>3. \A i \in 1 .. Len(chain[B(t)]) :
            i \in 1 .. Len(chain[B(t)]) - 1 \/ i = Len(chain[B(t)])
      BY <1>3
    <3> QED BY <3>1, <3>2, <3>3
  <2> QED BY <2>1, <2>2 DEF Fresh
<1>5. ~ Known(Want(t))
  BY <1>1, <1>2, <1>3, <1>4 DEF NewInv, Linking
<1> QED
  BY <1>1, <1>2, <1>3, <1>5

\* Appending an item that is not there.
LEMMA NewAppend ==
  ASSUME NEW q \in Seq(Item), NEW x \in Item, Distinct(q),
         \A k \in 1 .. Len(q) : q[k] # x
  PROVE  /\ Distinct(Append(q, x)) /\ Len(Append(q, x)) = Len(q) + 1
         /\ Len(q) \in Nat
         /\ \A k \in 1 .. Len(q) : Append(q, x)[k] = q[k]
         /\ Append(q, x)[Len(q) + 1] = x
<1>1. /\ Len(Append(q, x)) = Len(q) + 1 /\ Len(q) \in Nat
      /\ \A k \in 1 .. Len(q) : Append(q, x)[k] = q[k]
      /\ Append(q, x)[Len(q) + 1] = x
  OBVIOUS
<1>2. \A i \in 1 .. Len(q) + 1 : i \in 1 .. Len(q) \/ i = Len(q) + 1
  BY <1>1
<1> QED
  BY <1>1, <1>2 DEF Distinct

\* The items known after a step.
LEMMA KnownStep ==
  ASSUME Locked, TypeOK, MutexInv, ChainInv, RingInv, ClosedInv, WalkInv, NewInv,
         NEW t \in Thread, Step(t)
  PROVE  /\ Distinct(new)' 
         /\ \A x \in Item :
              Known(x)' <=> Known(x) \/ (Fresh(t) /\ x = Want(t))
<1>1. CASE Fresh(t)
  <2>1. ~ Known(Want(t)) /\ Want(t) \in Item /\ new' = Append(new, Want(t))
    BY <1>1, FreshStep
  <2>2. new \in Seq(Item) /\ Distinct(new) /\ \A k \in 1 .. Len(new) : new[k] # Want(t)
    BY <2>1 DEF TypeOK, NewInv, Known
  <2>3. /\ Distinct(new') /\ Len(new') = Len(new) + 1 /\ Len(new) \in Nat
        /\ \A k \in 1 .. Len(new) : new'[k] = new[k]
        /\ new'[Len(new) + 1] = Want(t)
    BY <2>1, <2>2, NewAppend
  <2>4. \A i \in 1 .. Len(new) + 1 : i \in 1 .. Len(new) \/ i = Len(new) + 1
    BY <2>3
  <2>5. \A i \in 1 .. Len(new) : i \in 1 .. Len(new) + 1
    BY <2>3
  <2>6. Len(new) + 1 \in 1 .. Len(new) + 1
    BY <2>3
  <2> QED BY <1>1, <2>3, <2>4, <2>5, <2>6 DEF Known
<1>2. CASE ~ Fresh(t)
  <2>1. new' = new
    BY <1>2 DEF Fresh, Step, ghosts, Begin, SearchFirst, SearchHit,
         SearchNext, TestRoot, SetSelfNext, SetSelfPrev, SetRoot, SetItemNext,
         SetItemPrev, SetLastNext, SetRootPrev, ReadCount, WriteCount, End
  <2> QED BY <1>2, <2>1 DEF Known, NewInv
<1> QED
  BY <1>1, <1>2

\* The item of a node being linked stays that until the node is linked.
LEMMA LinkingStep ==
  ASSUME Locked, TypeOK, MutexInv, NEW t \in Thread, Step(t)
  PROVE  /\ \A x : mutex # Null /\ pc[mutex] \in Linking /\ Want(mutex) = x =>
              mutex = t /\ pc[t] \in Linking /\ Want(t) = x
         /\ pc[t] \in Linking /\ ~ Link(t) =>
              /\ mutex' = t /\ mutex' # Null /\ pc'[t] \in Linking
              /\ Want(t)' = Want(t)
<1>1. ASSUME mutex # Null, pc[mutex] \in Linking
      PROVE  mutex = t
  BY <1>1, Others DEF TypeOK, MutexInv, Critical, Labels, Linking
<1>2. ASSUME pc[t] \in Linking, ~ Link(t)
      PROVE  /\ mutex' = t /\ mutex' # Null /\ pc'[t] \in Linking
             /\ Want(t)' = Want(t)
  <2>1. \/ TestRoot(t) \/ SetSelfNext(t) \/ SetSelfPrev(t) \/ SetItemNext(t)
        \/ SetItemPrev(t) \/ SetLastNext(t)
    BY <1>2 DEF Step, Link, Linking, Goto, Begin, SearchEmpty, SearchFirst,
       SearchHit, SearchNext, SearchEnd, ReadCount, WriteCount, End
  <2>2. mutex' = mutex /\ pc'[t] \in Linking
    BY <2>1 DEF TypeOK, Linking, Goto, TestRoot, SetSelfNext, SetSelfPrev,
       SetItemNext, SetItemPrev, SetLastNext
  <2>3. mutex = t
    BY <1>2, Others DEF Critical, Labels, Linking
  <2>4. Want(t)' = Want(t)
    BY <1>2, Frame DEF Linking
  <2> QED BY <2>2, <2>3, <2>4
<1> QED
  BY <1>1, <1>2

LEMMA StepNew ==
  ASSUME Locked, TypeOK, MutexInv, ChainInv, RingInv, ClosedInv, WalkInv, NewInv,
         DecidedInv, [Next]_vars
  PROVE  NewInv'
<1>1. CASE UNCHANGED vars
  BY <1>1 DEF vars, ghosts, NewInv, Known, Want
<1>2. ASSUME NEW t \in Thread, Step(t) PROVE NewInv'
  <2>1. /\ Distinct(new)'
        /\ \A x \in Item : Known(x)' <=> Known(x) \/ (Fresh(t) /\ x = Want(t))
    BY <1>2, KnownStep
  <2>2. /\ \A b \in Bucket : \A i \in 1 .. Len(chain[b]) :
             Known(ItemOf(chain[b][i])) /\ ItemOf(chain[b][i]) \in Item
        /\ \A x \in Item : Known(x) =>
             \/ \E i \in 1 .. Len(chain[BucketOf[x]]) :
                  ItemOf(chain[BucketOf[x]][i]) = x
             \/ mutex = t /\ pc[t] \in Linking /\ Want(t) = x
    BY <1>2, LinkingStep, ChainType, NodeType DEF NewInv
  <2>3. CASE Fresh(t)
    <3>1. /\ chain' = chain /\ mutex' = t /\ mutex' # Null /\ pc'[t] = "test"
          /\ Want(t)' = Want(t) /\ pc[t] \notin Linking
      BY <2>3, FreshStep DEF Want, Fresh, SearchEmpty, SearchEnd, Goto, Linking
    <3> QED BY <2>1, <2>2, <3>1 DEF NewInv, Linking
  <2>4. CASE Link(t)
    <3>1. /\ pc[t] \in Linking /\ ~ Fresh(t)
          /\ \A b \in Bucket \ {B(t)} : chain'[b] = chain[b]
          /\ chain'[B(t)] = Append(chain[B(t)], Mine(t))
          /\ chain[B(t)] \in Seq(Node) /\ Mine(t) \in Node /\ B(t) \in Bucket
      BY <2>4, LinkStep
         DEF Link, Fresh, SetRoot, SetRootPrev, SearchEmpty, SearchEnd, Goto, Linking
    <3>2. ItemOf(Mine(t)) = Want(t) /\ Known(Want(t)) /\ Want(t) \in Item
      BY <3>1, MineType DEF DecidedInv
    <3>3. /\ Len(chain'[B(t)]) = Len(chain[B(t)]) + 1 /\ Len(chain[B(t)]) \in Nat
          /\ \A i \in 1 .. Len(chain[B(t)]) : chain'[B(t)][i] = chain[B(t)][i]
          /\ chain'[B(t)][Len(chain[B(t)]) + 1] = Mine(t)
      BY <3>1, AppendFacts
    <3>4. \A i \in 1 .. Len(chain[B(t)]) + 1 :
            i \in 1 .. Len(chain[B(t)]) \/ i = Len(chain[B(t)]) + 1
      BY <3>3
    <3>5. /\ \A i \in 1 .. Len(chain[B(t)]) : i \in 1 .. Len(chain'[B(t)])
          /\ Len(chain[B(t)]) + 1 \in 1 .. Len(chain'[B(t)])
      BY <3>3
    <3> DEFINE NowKnown(x) == \E k \in 1 .. Len(new') : new'[k] = x
    <3>5a. \A x \in Item : NowKnown(x) <=> Known(x)
      BY <2>1, <3>1 DEF Known
    <3> HIDE DEF NowKnown
    <3>6. ASSUME NEW b \in Bucket, NEW i \in 1 .. Len(chain'[b])
          PROVE  NowKnown(ItemOf(chain'[b][i]))
      <4>1. ItemOf(chain'[b][i]) \in Item /\ Known(ItemOf(chain'[b][i]))
        <5>1. CASE b = B(t)
          BY <2>2, <3>2, <3>3, <3>4, <3>6, <5>1
        <5>2. CASE b # B(t)
          BY <2>2, <3>1, <3>6, <5>2
        <5> QED BY <5>1, <5>2
      <4> QED BY <3>5a, <4>1
    <3>7. ASSUME NEW x \in Item, NowKnown(x)
          PROVE  \E i \in 1 .. Len(chain'[BucketOf[x]]) :
                   ItemOf(chain'[BucketOf[x]][i]) = x
      <4>1. Known(x) /\ BucketOf[x] \in Bucket
        BY <3>5a, <3>7
      <4>2. CASE Want(t) = x
        BY <3>2, <3>3, <3>5, <4>2 DEF B
      <4>3. CASE Want(t) # x
        <5>1. PICK i \in 1 .. Len(chain[BucketOf[x]]) :
                ItemOf(chain[BucketOf[x]][i]) = x
          BY <2>2, <4>1, <4>3
        <5>2. CASE BucketOf[x] = B(t)
          BY <3>3, <3>5, <5>1, <5>2
        <5>3. CASE BucketOf[x] # B(t)
          BY <3>1, <4>1, <5>1, <5>3
        <5> QED BY <5>2, <5>3
      <4> QED BY <4>2, <4>3
    <3> QED BY <2>1, <3>6, <3>7 DEF NewInv, Known, NowKnown
  <2>5. CASE ~ Fresh(t) /\ ~ Link(t)
    <3>1. chain' = chain
      BY <1>2, <2>5, ChainFrame
    <3>2. pc[t] \in Linking => /\ mutex' # Null /\ pc'[mutex'] \in Linking
                               /\ Want(mutex)' = Want(t)
      <4>1. pc[t] \in Linking =>
              /\ mutex' = t /\ mutex' # Null /\ pc'[t] \in Linking
              /\ Want(t)' = Want(t)
        BY <1>2, <2>5, LinkingStep
      <4> QED BY <4>1 DEF Want
    <3> QED BY <2>1, <2>2, <2>5, <3>1, <3>2 DEF NewInv
  <2> QED BY <2>3, <2>4, <2>5
<1> QED
  BY <1>1, <1>2 DEF Next, Finished

\* Known items stay known.
LEMMA KnownStable ==
  ASSUME Locked, TypeOK, MutexInv, ChainInv, RingInv, ClosedInv, WalkInv, NewInv,
         NEW t \in Thread, Step(t), NEW u \in Thread,
         NEW i \in 1 .. job[u], Known(Work[u][i])
  PROVE  Known(Work[u][i])'
<1>1. i \in 1 .. Len(Work[u]) /\ Work[u] \in Seq(Item)
  <2>1. job[u] \in Nat /\ job[u] <= Len(Work[u]) /\ Work[u] \in Seq(Item)
    BY DEF TypeOK
  <2> QED BY <2>1
<1>2. Work[u][i] \in Item
  BY <1>1
<1> QED
  BY <1>2, KnownStep

LEMMA StepDecided ==
  ASSUME Locked, TypeOK, MutexInv, ChainInv, RingInv, ClosedInv, WalkInv, NewInv,
         DecidedInv, [Next]_vars
  PROVE  DecidedInv'
<1> DEFINE Late == Linking \cup {"countread", "countwrite", "end"}
<1> DEFINE Good(u) ==
      /\ \A i \in 1 .. job[u] - 1 : Known(Work[u][i])
      /\ pc[u] \in Late => Known(Want(u))
<1>1. CASE UNCHANGED vars
  BY <1>1 DEF vars, ghosts, DecidedInv, Known, Want
<1>2. ASSUME NEW u \in Thread
      PROVE  /\ job[u] \in Nat \ {0} /\ job[u] \in 1 .. job[u]
             /\ \A i \in 1 .. job[u] - 1 : i \in 1 .. job[u]
  <2>1. job[u] \in Nat \ {0}
    BY DEF TypeOK
  <2> QED BY <2>1
<1>3. ASSUME NEW t \in Thread, Step(t), NEW u \in Thread,
             pc'[u] \in Late => pc[u] \in Late, job'[u] = job[u]
      PROVE  Good(u)'
  <2>1. \A i \in 1 .. job[u] - 1 : Known(Work[u][i])'
    BY <1>2, <1>3, KnownStable DEF DecidedInv
  <2>2. pc[u] \in Late => Known(Work[u][job[u]])'
    BY <1>2, <1>3, KnownStable DEF DecidedInv, Want
  <2> QED BY <1>3, <2>1, <2>2 DEF Known, Want
<1>4. ASSUME NEW t \in Thread, Step(t) PROVE Good(t)'
  <2>1. CASE Fresh(t)
    <3>1. pc'[t] = "test" /\ job' = job /\ Want(t) \in Item
      BY <2>1, FreshStep
    <3>2. \A i \in 1 .. job[t] - 1 : Known(Work[t][i])'
      BY <1>2, <1>4, KnownStable DEF DecidedInv
    <3>3. Known(Want(t))' /\ Want(t)' = Want(t)
      <4>1. Want(t)' = Want(t)
        BY <3>1 DEF Want
      <4>2. \E k \in 1 .. Len(new') : new'[k] = Want(t)
        BY <1>4, <2>1, <3>1, KnownStep DEF Known
      <4> QED BY <4>1, <4>2 DEF Known
    <3> QED BY <3>1, <3>2, <3>3 DEF Known
  <2>2. CASE SearchHit(t)
    <3>1. pc[t] = "walk" /\ ItemOf(cur[t]) = Want(t) /\ job' = job /\ new' = new
      BY <2>2 DEF SearchHit, Goto, ghosts
    <3>2. B(t) \in Bucket /\ \E k \in 1 .. Len(chain[B(t)]) : cur[t] = chain[B(t)][k]
      BY <3>1, MineType DEF WalkInv
    <3>3. Known(Want(t))
      BY <3>1, <3>2 DEF NewInv
    <3> QED BY <3>1, <3>3 DEF DecidedInv, Known, Want
  <2>3. CASE End(t)
    <3>1. /\ pc[t] = "end" /\ pc'[t] \notin Late /\ new' = new
          /\ job'[t] = IF job[t] = Len(Work[t]) THEN job[t] ELSE job[t] + 1
      BY <2>3 DEF End, Goto, TypeOK, ghosts, Linking
    <3>2. /\ \A i \in 1 .. job[t] - 1 : Known(Work[t][i])
          /\ Known(Work[t][job[t]])
      BY <3>1 DEF DecidedInv, Want
    <3>3. \A i \in 1 .. job'[t] - 1 : i \in 1 .. job[t] - 1 \/ i = job[t]
      BY <1>2, <3>1
    <3>4. \A i \in 1 .. job'[t] - 1 : Known(Work[t][i])
      BY <3>2, <3>3
    <3> QED BY <3>1, <3>4 DEF Known
  <2>4. CASE ~ (Fresh(t) \/ SearchHit(t) \/ End(t))
    <3>1. (pc'[t] \in Late => pc[t] \in Late) /\ job'[t] = job[t]
      BY <1>4, <2>4 DEF TypeOK, Linking, Fresh, Step, Goto, Begin, SearchFirst,
         SearchNext, TestRoot, SetSelfNext, SetSelfPrev, SetRoot, SetItemNext,
         SetItemPrev, SetLastNext, SetRootPrev, ReadCount, WriteCount
    <3> QED BY <1>3, <1>4, <3>1
  <2> QED BY <2>1, <2>2, <2>3, <2>4
<1>5. ASSUME NEW t \in Thread, Step(t), NEW u \in Thread, u # t PROVE Good(u)'
  <2>1. pc'[u] = pc[u] /\ job'[u] = job[u]
    BY <1>5, Frame
  <2> QED BY <1>3, <1>5, <2>1
<1> QED
  BY <1>1, <1>4, <1>5 DEF Next, Finished, DecidedInv

----------------------------------------------------------------------------
(* The counters.                                                           *)

LEMMA StepCount ==
  ASSUME Locked, TypeOK, MutexInv, ChainInv, CountInv, [Next]_vars
  PROVE  CountInv'
<1> DEFINE Open(t) == pc[t] \in {"countread", "countwrite"}
<1>1. CASE UNCHANGED vars
  BY <1>1 DEF vars, ghosts, CountInv, Uncounted, B, Want
<1>2. ASSUME NEW t \in Thread, Step(t) PROVE CountInv'
  <2>1. /\ \A u \in Thread \ {t} : pc[u] \notin Critical /\ pc'[u] \notin Critical
        /\ pc[t] \in Critical => mutex = t
        /\ t # Null
    BY <1>2, Others
  <2>2. \A b \in Bucket :
          /\ count[b] \in Nat /\ Len(chain[b]) \in Nat
          /\ Len(chain[b]) = count[b] + (IF Open(t) /\ B(t) = b THEN 1 ELSE 0)
    <3>1. \A b \in Bucket : Uncounted(b) <=> Open(t) /\ B(t) = b
      BY <2>1 DEF Uncounted, MutexInv, Critical, Labels, TypeOK
    <3> QED BY <3>1, ChainType DEF CountInv, TypeOK
  <2>3. pc[t] # "end" => B(t)' = B(t)
    BY <1>2, Frame
  <2>4. MutexInv'
    BY <1>2, StepMutex DEF Next
  <2>4a. mutex' \in Thread \cup {Null}
    BY <1>2 DEF TypeOK, Step, Begin, SearchEmpty, SearchFirst,
       SearchHit, SearchNext, SearchEnd, TestRoot, SetSelfNext, SetSelfPrev,
       SetRoot, SetRootPrev, ReadCount, WriteCount,
       SetItemNext, SetItemPrev, SetLastNext, End
  <2> DEFINE NowOpen == pc'[t] \in {"countread", "countwrite"}
  <2>5. \A b \in Bucket : Uncounted(b)' <=> NowOpen /\ B(t)' = b
    <3>1. NowOpen => mutex' = t
      BY <2>4 DEF MutexInv, Critical, Labels
    <3>2. ASSUME mutex' # Null, pc'[mutex'] \in {"countread", "countwrite"}
          PROVE  mutex' = t
      <4>1. mutex' \in Thread
        BY <2>4a, <3>2 DEF TypeOK
      <4> QED BY <2>1, <3>2, <4>1 DEF Critical, Labels
    <3>3. mutex' = t => B(mutex)' = B(t)'
      BY DEF B, Want
    <3> QED BY <2>1, <3>1, <3>2, <3>3 DEF Uncounted
  <2>6. ASSUME NEW u \in Thread, u # t PROVE pc'[u] # "countwrite"
    BY <2>1, <2>6 DEF Critical, Labels
  <2>7. CASE Link(t)
    <3>1. /\ pc[t] \in Before /\ pc'[t] = "countread" /\ count' = count
          /\ \A b \in Bucket \ {B(t)} : chain'[b] = chain[b]
          /\ chain'[B(t)] = Append(chain[B(t)], Mine(t))
          /\ chain[B(t)] \in Seq(Node) /\ Mine(t) \in Node /\ B(t) \in Bucket
      BY <2>7, LinkStep DEF Link, SetRoot, SetRootPrev
    <3>2. Len(chain'[B(t)]) = Len(chain[B(t)]) + 1 /\ B(t)' = B(t)
      BY <2>3, <3>1, AppendFacts DEF Before
    <3>3. ASSUME NEW b \in Bucket
          PROVE  Len(chain'[b]) = count'[b] + (IF NowOpen /\ B(t)' = b THEN 1 ELSE 0)
      <4>1. ~ Open(t)
        BY <3>1 DEF Before
      <4>2. CASE b = B(t)
        BY <2>2, <3>1, <3>2, <4>1, <4>2
      <4>3. CASE b # B(t)
        BY <2>2, <3>1, <3>2, <4>1, <4>3
      <4> QED BY <4>2, <4>3
    <3> QED BY <2>5, <2>6, <3>1, <3>3 DEF CountInv
  <2>8. CASE ReadCount(t)
    <3>1. /\ pc[t] = "countread" /\ pc'[t] = "countwrite" /\ chain' = chain
          /\ count' = count /\ old'[t] = count[B(t)] /\ B(t)' = B(t)
      BY <2>3, <2>8 DEF ReadCount, Goto, TypeOK, ghosts
    <3> QED BY <2>2, <2>5, <2>6, <3>1 DEF CountInv
  <2>9. CASE WriteCount(t)
    <3>1. /\ pc[t] = "countwrite" /\ pc'[t] = "end" /\ chain' = chain
          /\ count' = [count EXCEPT ![B(t)] = count[B(t)] + 1] /\ B(t)' = B(t)
      BY <2>3, <2>9 DEF WriteCount, Goto, TypeOK, ghosts, CountInv
    <3>2. ASSUME NEW b \in Bucket PROVE Len(chain'[b]) = count'[b]
      <4>1. CASE b = B(t)
        BY <2>2, <3>1, <4>1 DEF TypeOK
      <4>2. CASE b # B(t)
        BY <2>2, <3>1, <4>2 DEF TypeOK
      <4> QED BY <4>1, <4>2
    <3>3. \A b \in Bucket : ~ Uncounted(b)'
      BY <2>5, <3>1
    <3>4. \A b \in Bucket : count'[b] \in Nat
      BY <2>2, <3>1, MineType DEF TypeOK
    <3> QED BY <2>6, <3>1, <3>2, <3>3, <3>4 DEF CountInv
  <2>10. CASE ~ (Link(t) \/ ReadCount(t) \/ WriteCount(t))
    <3>1. pc[t] \notin {"countread", "countwrite"} /\ ~ NowOpen /\ count' = count
      BY <1>2, <2>10 DEF TypeOK, Link, Step, Goto, Begin, SearchEmpty, SearchFirst,
         SearchHit, SearchNext, SearchEnd, TestRoot, SetSelfNext, SetSelfPrev,
         SetItemNext, SetItemPrev, SetLastNext, End
    <3>2. chain' = chain
      BY <1>2, <2>10, ChainFrame
    <3> QED BY <2>2, <2>5, <2>6, <3>1, <3>2 DEF CountInv
  <2> QED BY <2>7, <2>8, <2>9, <2>10
<1> QED
  BY <1>1, <1>2 DEF Next, Finished

----------------------------------------------------------------------------
(* The theorems.                                                           *)

LEMMA InitInv == Init => IInv
<1> SUFFICES ASSUME Init PROVE IInv
  OBVIOUS
<1>1. /\ chain = [b \in Bucket |-> <<>>] /\ new = <<>> /\ mutex = Null
      /\ root = [b \in Bucket |-> Null] /\ count = [b \in Bucket |-> 0]
      /\ \A t \in Thread : pc[t] = "begin" /\ job[t] = 1
  BY DEF Init
<1>2. TypeOK
  BY InitType
<1>3. MutexInv
  BY <1>1 DEF MutexInv, Critical, Labels
<1>4. ChainInv /\ RingInv /\ ClosedInv /\ CountInv
  BY <1>1 DEF ChainInv, RingInv, ClosedInv, CountInv, Distinct, ChainLinks, Uncounted
<1>5. NewNodeInv /\ WalkInv
  BY <1>1 DEF NewNodeInv, WalkInv
<1>6. NewInv /\ DecidedInv
  BY <1>1 DEF NewInv, DecidedInv, Known, Distinct, Linking
<1> QED
  BY <1>2, <1>3, <1>4, <1>5, <1>6 DEF IInv

\* The inductive invariant: under a mutex each bucket is a ring of the nodes
\* inserted (HashModuleInsert, DualLinkAppend), the insertion under way excepted,
\* and the items found new are those of its nodes.
THEOREM Invariance ==
  ASSUME Locked
  PROVE  Spec => []IInv
<1>1. Init => IInv
  BY InitInv
<1>2. ASSUME IInv, [Next]_vars PROVE IInv'
  BY <1>2, StepType, StepMutex, StepChain, StepRing, StepClosed, StepNewNode,
     StepWalk, StepNew, StepDecided, StepCount DEF IInv
<1> QED
  BY <1>1, <1>2, PTL DEF Spec

\* Type correctness.
THEOREM TypeCorrect ==
  ASSUME Locked
  PROVE  Spec => []TypeOK
<1>1. IInv => TypeOK
  BY DEF IInv
<1> QED
  BY <1>1, Invariance, PTL

\* No item is taken for new twice: the crawler fetches no URL twice
\* (sf_proc_insert_url, sf_proc.c:186-211).
THEOREM NoItemNewTwice ==
  ASSUME Locked
  PROVE  Spec => []NewOnce
<1>1. IInv => NewOnce
  BY DEF IInv, NewInv, NewOnce
<1> QED
  BY <1>1, Invariance, PTL

\* What is taken for a duplicate was taken for new before.
THEOREM NoItemLost ==
  ASSUME Locked
  PROVE  Spec => []FoundIsKnown
<1>1. IInv => FoundIsKnown
  BY DEF IInv, DecidedInv, Known, FoundIsKnown
<1> QED
  BY <1>1, Invariance, PTL

\* Between insertions every bucket is a ring of its nodes and its counter counts
\* them.
THEOREM BucketsAreRings ==
  ASSUME Locked
  PROVE  Spec => []RingsIntact
<1>1. ASSUME IInv PROVE RingsIntact
  <2> SUFFICES ASSUME \A t \in Thread :
                        pc[t] \notin Linking \cup {"countread", "countwrite"},
                      NEW b \in Bucket
               PROVE  /\ IsRing(next, prev, root[b], chain[b])
                      /\ count[b] = Len(chain[b])
    BY DEF RingsIntact
  <2> USE <1>1 DEF IInv
  <2>1. Len(chain[b]) \in Nat /\ count[b] \in Nat
    BY ChainType DEF TypeOK
  <2>2. \A c \in Bucket : ~ Uncounted(c)
    BY DEF Uncounted, TypeOK
  <2>3. chain[b] # <<>> => next[Last(b)] = chain[b][1] /\ prev[chain[b][1]] = Last(b)
    BY DEF ClosedInv, RingInv, ChainLinks, TypeOK, Linking
  <2>4. \A i \in 1 .. Len(chain[b]) :
          /\ i \in 1 .. Len(chain[b]) - 1 \/ i = Len(chain[b])
          /\ chain[b] # <<>>
    BY <2>1
  <2>5. \A i \in 1 .. Len(chain[b]) :
          /\ next[chain[b][i]] = Succ(chain[b], i)
          /\ prev[Succ(chain[b], i)] = chain[b][i]
    <3> TAKE i \in 1 .. Len(chain[b])
    <3>1. CASE i \in 1 .. Len(chain[b]) - 1
      <4>1. i # Len(chain[b])
        BY <2>1, <3>1
      <4> QED BY <3>1, <4>1 DEF RingInv, ChainLinks, Succ
    <3>2. CASE i = Len(chain[b])
      BY <2>3, <2>4, <3>2 DEF Succ, Last
    <3> QED BY <2>4, <3>1, <3>2
  <2>6. Distinct(chain[b]) /\ root[b] = IF chain[b] = <<>> THEN Null ELSE chain[b][1]
    BY DEF ChainInv, RingInv, ChainLinks
  <2>7. count[b] = Len(chain[b])
    BY <2>1, <2>2 DEF CountInv
  <2> QED BY <2>5, <2>6, <2>7 DEF IsRing
<1> QED
  BY <1>1, Invariance, PTL

\* No search and no insertion follows a NULL.
THEOREM NoNullFollowed ==
  ASSUME Locked
  PROVE  Spec => []WalkMeetsNode
<1>1. ASSUME IInv, NEW t \in Thread
      PROVE  /\ pc[t] = "walk" => cur[t] \in Node /\ next[cur[t]] \in Node
             /\ pc[t] \in {"itemprev", "lastnext", "rootprev"} =>
                  /\ root[B(t)] \in Node
                  /\ prev[root[B(t)]] \in Node
  <2> USE <1>1 DEF IInv
  <2>1. B(t) \in Bucket
    BY MineType
  <2>2. CASE pc[t] = "walk"
    <3>1. PICK k \in 1 .. Len(chain[B(t)]) :
            /\ chain[B(t)] # <<>> /\ head[t] = chain[B(t)][1]
            /\ cur[t] = chain[B(t)][k]
            /\ next[cur[t]] = head[t] <=> k = Len(chain[B(t)])
            /\ k # Len(chain[B(t)]) => /\ k + 1 \in 1 .. Len(chain[B(t)])
                                       /\ next[cur[t]] = chain[B(t)][k + 1]
      BY <2>2, WalkPlace
    <3> QED BY <2>1, <2>2, <3>1, ChainType
  <2>3. CASE pc[t] \in {"itemprev", "lastnext", "rootprev"}
    <3>1. chain[B(t)] # <<>>
      BY <2>3 DEF NewNodeInv
    <3> QED BY <2>1, <2>3, <3>1, RingNodes
  <2> QED BY <2>2, <2>3
<1>2. IInv => WalkMeetsNode
  BY <1>1 DEF WalkMeetsNode
<1> QED
  BY <1>2, Invariance, PTL

\* Under a mutex a search and the insertion that follows it are one atomic test
\* and insertion of a set.
THEOREM RefinesSet ==
  ASSUME Locked
  PROVE  Spec => ImplementsSet
<1> DEFINE done == [t \in Thread |-> Decided(t)]
<1>1. Init => S!Init
  BY DEF Init, S!Init, Decided
<1>2. ASSUME IInv, [Next]_vars PROVE [S!Next]_<<new, done>>
  <2> USE <1>2 DEF IInv
  <2>1. CASE UNCHANGED vars
    BY <2>1 DEF vars, ghosts, Decided
  <2>2. ASSUME NEW t \in Thread, Step(t) PROVE [S!Next]_<<new, done>>
    <3>1. \A u \in Thread \ {t} : Decided(u)' = Decided(u)
      BY <2>2, Frame DEF Decided
    <3>2. /\ job[t] \in Nat \ {0} /\ job[t] <= Len(Work[t])
          /\ Work[t] \in Seq(Item) /\ Len(Work[t]) \in Nat
      BY DEF TypeOK
    <3>3. ASSUME pc[t] = "walk" \/ pc[t] = "search", pc'[t] \in {"test", "end"},
                 job' = job
          PROVE  /\ done[t] = job[t] - 1 /\ done[t] < Len(Work[t])
                 /\ done[t] + 1 = job[t]
                 /\ done' = [done EXCEPT ![t] = done[t] + 1]
      <4>1. Decided(t) = job[t] - 1 /\ Decided(t)' = job[t]
        BY <3>2, <3>3 DEF Decided
      <4>2. done' = [u \in Thread |-> Decided(u)']
        OBVIOUS
      <4>3. job[t] - 1 + 1 = job[t] /\ job[t] - 1 < Len(Work[t])
        BY <3>2
      <4>4. [done EXCEPT ![t] = done[t] + 1] = [u \in Thread |-> Decided(u)']
        BY <3>1, <4>1, <4>3
      <4> QED BY <4>1, <4>2, <4>3, <4>4
    <3>4. CASE Fresh(t)
      <4>1. /\ ~ Known(Want(t)) /\ new' = Append(new, Want(t)) /\ pc'[t] = "test"
            /\ job' = job /\ pc[t] \in {"search", "walk"}
        BY <3>4, FreshStep DEF Fresh, SearchEmpty, SearchEnd, Goto
      <4>2. ~ S!Known(Work[t][job[t]])
        BY <4>1 DEF Known, S!Known, Want
      <4>3. S!Decide(t)
        BY <3>3, <4>1, <4>2 DEF S!Decide, Want
      <4> QED BY <4>3 DEF S!Next
    <3>5. CASE SearchHit(t)
      <4>1. /\ pc[t] = "walk" /\ pc'[t] = "end" /\ job' = job /\ new' = new
            /\ ItemOf(cur[t]) = Want(t)
        BY <3>5 DEF SearchHit, Goto, ghosts, TypeOK
      <4>2. B(t) \in Bucket /\ \E k \in 1 .. Len(chain[B(t)]) : cur[t] = chain[B(t)][k]
        BY <4>1, MineType DEF WalkInv
      <4>3. S!Known(Work[t][job[t]])
        BY <4>1, <4>2 DEF NewInv, Known, S!Known, Want
      <4>4. S!Decide(t)
        BY <3>3, <4>1, <4>3 DEF S!Decide
      <4> QED BY <4>4 DEF S!Next
    <3>6. CASE ~ (Fresh(t) \/ SearchHit(t))
      <4>1. new' = new
        BY <2>2, <3>6 DEF Fresh, Step, ghosts, Begin, SearchFirst,
           SearchNext, TestRoot, SetSelfNext, SetSelfPrev, SetRoot, SetItemNext,
           SetItemPrev, SetLastNext, SetRootPrev, ReadCount, WriteCount, End
      <4>2. Decided(t)' = Decided(t)
        <5>1. CASE End(t)
          <6>1. /\ pc[t] = "end"
                /\ pc'[t] = IF job[t] = Len(Work[t]) THEN "done" ELSE "begin"
                /\ job'[t] = IF job[t] = Len(Work[t]) THEN job[t] ELSE job[t] + 1
            BY <5>1 DEF End, Goto, TypeOK
          <6> QED BY <3>2, <6>1 DEF Decided
        <5>2. CASE ~ End(t)
          <6>1. /\ job'[t] = job[t]
                /\ pc[t] \in {"begin", "search", "walk"} <=>
                     pc'[t] \in {"begin", "search", "walk"}
            BY <2>2, <3>6, <5>2 DEF TypeOK, Goto, Fresh, Step, Begin, SearchFirst,
           SearchNext, TestRoot, SetSelfNext, SetSelfPrev, SetRoot, SetItemNext,
           SetItemPrev, SetLastNext, SetRootPrev, ReadCount, WriteCount
          <6> QED BY <6>1 DEF Decided
        <5> QED BY <5>1, <5>2
      <4> QED BY <3>1, <4>1, <4>2
    <3> QED BY <3>4, <3>5, <3>6
  <2> QED BY <2>1, <2>2, <1>2 DEF Next, Finished
<1> QED
  BY <1>1, <1>2, Invariance, PTL DEF Spec, S!Spec, ImplementsSet

============================================================================
