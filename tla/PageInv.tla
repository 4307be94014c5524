------------------------------ MODULE PageInv -------------------------------
(***************************************************************************)
(* What holds of the pages of a thread at every step.                      *)
(***************************************************************************)
EXTENDS Page

\* Where a frame is inside a rule, and where it is at one.
InRule == {"clear", "cap", "trigger", "spawn", "end"}
AtRule == {"rule"} \cup InRule

Labels == {"scan", "fetch", "policy", "limit", "exit"} \cup AtRule

FrameType ==
  [spider : Nat \ {0}, pc : Labels, page : Nat, tries : Nat, policy : Nat,
   rule : Nat, rep : Nat, cap : Nat, ns : Nat, over : BOOLEAN]

SpiderType ==
  [conf : Confs, pool : Nat, starturl : [pool : Nat, freed : BOOLEAN],
   eof : BOOLEAN, handle : Nat]

ConfOf(f)  == spiders[f.spider].conf
RulesOf(f) == Policies[ConfOf(f)][f.policy]

\* A frame is of a spider there is and of a page begun; its indices are those of
\* a policy and a rule of its configuration.
FrameOK(f) ==
  /\ f.spider <= Len(spiders)
  /\ f.page <= pages
  /\ f.pc = "policy" => f.policy > 0
  /\ f.pc \in AtRule <=> f.rule > 0
  /\ f.rule > 0 => f.policy \in 1 .. Len(Policies[ConfOf(f)])
  /\ f.pc \in InRule => f.rule <= Len(RulesOf(f))
  /\ f.pc = "rule" => f.rule <= Len(RulesOf(f)) + 1
  /\ f.pc \in {"clear", "cap"} => f.cap > 0
  /\ f.pc \in {"trigger", "spawn"} => f.ns > 0

PageTypeOK ==
  /\ stack \in Seq(FrameType)
  /\ spiders \in Seq(SpiderType)
  /\ IsTable(table) /\ Closed(table, Len(table.name))
  /\ \A s \in 1 .. Len(spiders) : spiders[s].handle \in {NULL} \cup Nodes(table)
  /\ line \in Nat /\ pages \in Nat /\ pools \in Nat /\ returned \in Nat
  /\ wiped \in BOOLEAN
  /\ \A e \in confset : /\ e.conf \in Confs
                        /\ e.spider \in 2 .. Len(spiders)
                        /\ spiders[e.spider].conf = e.conf

\* Every frame but the innermost is waiting for the spider it started.
StackInv ==
  /\ \A i \in 1 .. Depth : FrameOK(stack[i])
  /\ \A i \in 1 .. Depth - 1 : stack[i].pc = "spawn"
  /\ stack # <<>> => stack[1].spider = 1

\* Each spider has a pool of its own or none; a pool is alive for each run that
\* has ended and for each spider that has one and is running.
Running == {stack[i].spider : i \in 1 .. Depth}
Bare    == {s \in Running : spiders[s].pool = 0}

PoolInv ==
  /\ live \subseteq 1 .. pools
  /\ \A s \in 1 .. Len(spiders) : spiders[s].pool \in live \cup {0}
  /\ \A r, s \in 1 .. Len(spiders) : spiders[r].pool = spiders[s].pool /\ spiders[r].pool # 0 => r = s
  /\ Cardinality(live) + Cardinality(Bare) <= returned + Depth

\* Does a rule give a url to the spiders it starts with configuration c?
GivesUrl(c) == \E r \in Rules : \E n \in 1 .. Len(r.spiders) : r.spiders[n].conf = c /\ r.spiders[n].url

\* The url a nested spider was given is in the pool of its caller.
UrlInv ==
  /\ \A i \in 1 .. Depth :
       stack[i].pc \notin {"scan", "exit"} => spiders[stack[i].spider].pool # 0
  /\ \A i \in 1 .. Depth :
       LET u == spiders[stack[i].spider].starturl
       IN u # NoUrl => i > 1 /\ ~ u.freed /\ u.pool = spiders[stack[i - 1].spider].pool
  /\ \A s \in 1 .. Len(spiders) : spiders[s].starturl # NoUrl => s > 1 /\ GivesUrl(spiders[s].conf)

\* No configuration starts itself, directly or through others: rank falls from a
\* configuration to those of the spiders its rules start.
NestsDown(rank) ==
  \A c \in Confs : \A i \in 1 .. Len(Policies[c]) : \A j \in 1 .. Len(Policies[c][i]) :
    LET rule == Policies[c][i][j]
    IN \A n \in 1 .. Len(rule.spiders) : rank[rule.spiders[n].conf] < rank[c]

\* The rules that start a configuration agree on whether to give it a url.
UrlsAgree ==
  \A q, r \in Rules : \A i \in 1 .. Len(q.spiders) : \A j \in 1 .. Len(r.spiders) :
    q.spiders[i].conf = r.spiders[j].conf => q.spiders[i].url = r.spiders[j].url

\* So none runs twice at once.
RankInv(rank) ==
  \A i, j \in 1 .. Depth : i < j => rank[ConfOf(stack[j])] < rank[ConfOf(stack[i])]

\* No variable that is captured, printed by a program or preset is without a name.
Named ==
  /\ Blank \notin DOMAIN Text
  /\ \A c \in Confs : LET list == PresetVars(Document[c], Included)
                     IN \A i \in 1 .. Len(list) : list[i].name # Blank

\* In the first thread every running spider has its handle on the sentinel, which
\* begins a table of variables.
Sentinel == 1

SentinelInv ==
  /\ \A i \in 1 .. Depth : spiders[stack[i].spider].handle = Sentinel
  /\ Holds(table, Sentinel, Walk(table, Sentinel))
  /\ table.name[Sentinel] = Blank

\* A variable is unset or was set on the page of f or later.
Fresh(f, name) ==
  LET v == VarSearch(table, Sentinel, name) IN v # NULL => table.born[v] >= f.page

\* f is done with a variable: with the rule that sets it, all of it or so far.
Done(f, name) ==
  \/ \E r \in 1 .. f.rule - 1 : RulesOf(f)[r].repeat > 0 /\ name \in Names(RulesOf(f)[r])
  \/ /\ f.pc \in {"trigger", "spawn", "end"} \/ (f.pc = "rule" /\ f.rep > 0)
     /\ name \in Names(RulesOf(f)[f.rule])
  \/ /\ f.pc \in {"clear", "cap"}
     /\ \E k \in 1 .. f.cap - 1 : name = RulesOf(f)[f.rule].caps[k].store

FreshInv ==
  \A i \in 1 .. Depth : \A name \in DOMAIN Text : Done(stack[i], name) => Fresh(stack[i], name)

============================================================================
