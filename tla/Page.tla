-------------------------------- MODULE Page --------------------------------
(***************************************************************************)
(* What one thread does with the pages it fetches: sf_curl_url, the        *)
(* policies of sf_pcre_perform with their captures, uniqueness test,       *)
(* triggers and nested spiders, and around them the loop of                *)
(* sf_proc_start_spider, which a nested spider runs again on a frame of    *)
(* its own.  The links of a page are the business of module Crawler.       *)
(*                                                                         *)
(* What a regular expression matches is an input: a match captures any of  *)
(* Text.  Allocation and output never fail.  Memory is tracked by pool:    *)
(* pools are numbered as they are created, live holds those not destroyed. *)
(***************************************************************************)
EXTENDS VarTable, JsonOut, ConfLists

CONSTANTS
  Confs, MainConf,  \* configuration files, and the one of the command line
  Document,         \* Document[c]: the nodes under the root of the file c
  Included,         \* Included[f]: the nodes under the root of the file f of variables
  UrlCount,         \* UrlCount[c]: attribute url_count of c
  Feedback,         \* Feedback[c]: attribute url_feedback of c
  Text,             \* Text[x]: what a match can capture, or a program print, for x
  Unset,            \* an expression left as it is, its variable being unset
  Lines,            \* lines of url.txt
  FirstThread       \* is this the first thread?  Only its table has a sentinel.

\* Policies[c]: the policies of c, sequences of rules.  A rule (sf_pcre_t) has
\* captures, each with the variable it sets and the variables it prints; it may
\* open a JSON element; a variable of it may have to be unique; its triggers
\* set a variable or none; the spiders it starts have a configuration and may
\* be given a url.
Policies == [c \in Confs |-> ReadPolicies(Document[c])]

Rules == UNION {UNION {{Policies[c][i][j] : j \in 1 .. Len(Policies[c][i])}
                        : i \in 1 .. Len(Policies[c])} : c \in Confs}

RuleType ==
  [repeat : Nat, uniq : String, json_new : BOOLEAN,
   caps : Seq([store : String, json : Seq(String)]),
   spiders : Seq([conf : Confs, url : BOOLEAN]),
   triggers : Seq(String)]

VarType == [kind : {"var"}, name : String, value : String]

ASSUME PageAssumption ==
  /\ MainConf \in Confs
  /\ UrlCount \in [Confs -> Nat]
  /\ Feedback \in [Confs -> BOOLEAN]
  /\ Lines \in Nat
  /\ FirstThread \in BOOLEAN
  /\ Policies \in [Confs -> Seq(Seq(RuleType))]
  /\ \A c \in Confs : PresetVars(Document[c], Included) \in Seq(VarType)
  /\ \A x \in DOMAIN Text : x \in String /\ Text[x] \subseteq String
  /\ \A r \in Rules :
       /\ \A i \in 1 .. Len(r.caps) : r.caps[i].store \in DOMAIN Text
       /\ \A i \in 1 .. Len(r.triggers) : r.triggers[i] # None => r.triggers[i] \in DOMAIN Text

VARIABLES
  stack,     \* the running spiders, innermost last, each with its locals
  spiders,   \* the sf_spider_t structures, by number
  table,     \* the nodes of all variables
  out,       \* json_print and json_buf
  uniq,      \* the uniqueness table
  confset,   \* hConfset
  live,      \* pools not destroyed
  pools,     \* pools created so far
  line,      \* lines taken from url.txt
  pages,     \* pages begun (history)
  wiped,     \* was json_buf ever cleared? (history)
  returned   \* runs that have ended (history)

memory  == <<spiders, live, pools>>
history == <<pages, wiped, returned>>
vars    == <<stack, table, out, uniq, confset, line, memory, history>>

NoUrl == [pool |-> 0, freed |-> FALSE]

\* A frame: the locals of sf_proc_start_spider and, below it, sf_pcre_perform.
Frame(s) == [spider |-> s, pc |-> "scan", page |-> 0, tries |-> 0, policy |-> 0,
             rule |-> 0, rep |-> 0, cap |-> 0, ns |-> 0, over |-> FALSE]

\* sf_conf_vars for all of them: the handle a spider starts with is root.
Preset(t, root, c) ==
  LET list == PresetVars(Document[c], Included)
      put[i \in 0 .. Len(list)] ==
        IF i = 0 THEN [table |-> t, root |-> root]
        ELSE VarInsert(put[i - 1].table, put[i - 1].root, list[i].name, list[i].value, 0)
  IN put[Len(list)]

\* sf_proc_init_varhandle: only the first spider of the process gets the
\* sentinel, a variable without a name.
FirstTable ==
  IF FirstThread
  THEN Preset(LinkAppend(VarCreate(EmptyTable, Blank, Blank, 0), NULL, 1).table, 1, MainConf)
  ELSE Preset(EmptyTable, NULL, MainConf)

Init ==
  /\ stack = <<Frame(1)>>
  /\ spiders = <<[conf |-> MainConf, pool |-> 0, starturl |-> NoUrl, eof |-> FALSE,
                  handle |-> FirstTable.root]>>
  /\ table = FirstTable.table
  /\ out = PrintField(EmptyOut, "[")
  /\ uniq = {}
  /\ confset = {}
  /\ live = {}
  /\ pools = 0
  /\ line = 0
  /\ pages = 0
  /\ wiped = FALSE
  /\ returned = 0

Depth  == Len(stack)
Top    == stack[Depth]
Me     == Top.spider
Spider == spiders[Me]
Conf   == Spider.conf

\* The innermost spider is at pc; it goes on with its locals updated.
At(pc)      == stack # <<>> /\ Top.pc = pc
Become(f)   == stack' = [stack EXCEPT ![Depth] = f]
Goto(pc)    == Become([Top EXCEPT !.pc = pc])

Policy == Policies[Conf][Top.policy]
Rule   == Policy[Top.rule]
Cap    == Rule.caps[Top.cap]
Names(rule) == {rule.caps[i].store : i \in 1 .. Len(rule.caps)}

\* sf_var_exp of an expression that is one variable.
VarExp(name) ==
  LET v == VarSearch(table, Spider.handle, name)
  IN IF v = NULL THEN Unset ELSE table.text[v]

----------------------------------------------------------------------------
(* Faulty variants of definitions below.                                   *)

\* The pool of the page before is not destroyed.
NextPageKeepsPool(f) ==
  /\ pools' = pools + 1
  /\ live' = live \cup {pools + 1}
  /\ spiders' = [spiders EXCEPT ![Me].pool = pools + 1, ![Me].eof = FALSE]
  /\ pages' = pages + 1
  /\ Become([f EXCEPT !.pc = "fetch", !.page = pages + 1, !.tries = 3])

\* The variables of a rule that does not match are left as they are.
NoMatchKeeps ==
  /\ At("rule") /\ Top.rule <= Len(Policy)
  /\ Top.rep < Rule.repeat
  /\ Become([Top EXCEPT !.rule = @ + 1, !.rep = 0])
  /\ UNCHANGED <<table, out, uniq, confset, line, memory, history>>

\* The element is closed only after the last repetition.
EndMatchOnce ==
  /\ At("end")
  /\ out' = IF Rule.json_new /\ Top.rep = Rule.repeat THEN PrintFields(out, <<"]", "}">>) ELSE out
  /\ Goto("rule")
  /\ UNCHANGED <<table, uniq, confset, line, memory, history>>

\* The nested spider gets its url in the first run only.
PreparedOnce(s) ==
  [s EXCEPT !.starturl = IF s.starturl = NoUrl THEN [pool |-> Spider.pool, freed |-> FALSE] ELSE @,
            !.handle = Spider.handle, !.pool = 0]

\* The nested spider keeps the handle of its own.
PreparedApart(s) ==
  [s EXCEPT !.starturl = [pool |-> Spider.pool, freed |-> FALSE], !.pool = 0]

----------------------------------------------------------------------------
(* sf_proc_start_spider: the next url, its pool and the transfer.           *)

NextPage(f) ==
  /\ pools' = pools + 1
  /\ live' = (live \ {Spider.pool}) \cup {pools + 1}
  /\ spiders' = [spiders EXCEPT ![Me].pool = pools + 1, ![Me].eof = FALSE]
  /\ pages' = pages + 1
  /\ Become([f EXCEPT !.pc = "fetch", !.page = pages + 1, !.tries = 3])

\* A line has the level of its page; a start url has whatever level was in
\* the uninitialised variable.
ScanUrl ==
  /\ At("scan") /\ Spider.starturl = NoUrl
  /\ line < Lines
  /\ line' = line + 1
  /\ \E over \in BOOLEAN : NextPage([Top EXCEPT !.over = over])
  /\ UNCHANGED <<table, out, uniq, confset, wiped, returned>>

CopyStartUrl ==
  /\ At("scan") /\ Spider.starturl # NoUrl
  /\ NextPage(Top)
  /\ UNCHANGED <<table, out, uniq, confset, line, wiped, returned>>

ScanEof ==
  /\ At("scan") /\ Spider.starturl = NoUrl
  /\ line = Lines
  /\ spiders' = [spiders EXCEPT ![Me].eof = TRUE]
  /\ Goto("exit")
  /\ UNCHANGED <<table, out, uniq, confset, line, live, pools, history>>

\* {key: [{key: value}]}
Report == <<"{", "key", "[", "{", "key", "value", "}", "]", "}">>

Reported == IF Feedback[Conf] THEN PrintFields(out, Report) ELSE out

FetchOk ==
  /\ At("fetch")
  /\ out' = Reported
  /\ Become([Top EXCEPT !.pc = "policy", !.policy = 1, !.tries = 0])
  /\ UNCHANGED <<table, uniq, confset, line, memory, history>>

FetchFails ==
  /\ At("fetch") /\ Top.tries > 1
  /\ Become([Top EXCEPT !.tries = @ - 1])
  /\ UNCHANGED <<table, out, uniq, confset, line, memory, history>>

\* Without feedback what the failed transfers left is processed all the same.
FetchGivesUp ==
  /\ At("fetch") /\ Top.tries = 1
  /\ out' = Reported
  /\ Become([Top EXCEPT !.pc = IF Feedback[Conf] THEN "exit" ELSE "policy",
                         !.policy = 1, !.tries = 0])
  /\ UNCHANGED <<table, uniq, confset, line, memory, history>>

----------------------------------------------------------------------------
(* The policies of a configuration and the rules of a policy.              *)

PolicyApplies ==
  /\ At("policy") /\ Top.policy <= Len(Policies[Conf])
  /\ Become([Top EXCEPT !.pc = "rule", !.rule = 1, !.rep = 0])
  /\ UNCHANGED <<table, out, uniq, confset, line, memory, history>>

PolicyOutOfRange ==
  /\ At("policy") /\ Top.policy <= Len(Policies[Conf])
  /\ Become([Top EXCEPT !.policy = @ + 1])
  /\ UNCHANGED <<table, out, uniq, confset, line, memory, history>>

PoliciesDone ==
  /\ At("policy") /\ Top.policy > Len(Policies[Conf])
  /\ Goto("limit")
  /\ UNCHANGED <<table, out, uniq, confset, line, memory, history>>

RulesDone ==
  /\ At("rule") /\ Top.rule > Len(Policy)
  /\ Become([Top EXCEPT !.pc = "policy", !.policy = @ + 1, !.rule = 0])
  /\ UNCHANGED <<table, out, uniq, confset, line, memory, history>>

RuleRepeated ==
  /\ At("rule") /\ Top.rule <= Len(Policy)
  /\ Top.rep = Rule.repeat
  /\ Become([Top EXCEPT !.rule = @ + 1, !.rep = 0])
  /\ UNCHANGED <<table, out, uniq, confset, line, memory, history>>

\* Does a search for name come back?
Returns(name) == SearchEnds(table, Spider.handle) \/ VarSearch(table, Spider.handle, name) # NULL

\* If nothing matches, the variables of the rule are cleared, one by one.
NoMatch ==
  /\ At("rule") /\ Top.rule <= Len(Policy)
  /\ Top.rep < Rule.repeat
  /\ Become([Top EXCEPT !.pc = "clear", !.cap = 1])
  /\ UNCHANGED <<table, out, uniq, confset, line, memory, history>>

ClearVar ==
  /\ At("clear") /\ Top.cap <= Len(Rule.caps)
  /\ Returns(Cap.store)
  /\ LET v == VarDelete(table, Spider.handle, Cap.store)
     IN /\ table' = v.table
        /\ spiders' = [spiders EXCEPT ![Me].handle = v.root]
  /\ Become([Top EXCEPT !.cap = @ + 1])
  /\ UNCHANGED <<out, uniq, confset, line, live, pools, history>>

Cleared ==
  /\ At("clear") /\ Top.cap > Len(Rule.caps)
  /\ Become([Top EXCEPT !.pc = "rule", !.rule = @ + 1, !.rep = 0])
  /\ UNCHANGED <<table, out, uniq, confset, line, memory, history>>

Match ==
  /\ At("rule") /\ Top.rule <= Len(Policy)
  /\ Top.rep < Rule.repeat
  /\ out' = IF Rule.json_new THEN PrintFields(out, <<"{", "key", "[">>) ELSE out
  /\ Become([Top EXCEPT !.pc = "cap", !.rep = @ + 1, !.cap = 1])
  /\ UNCHANGED <<table, uniq, confset, line, memory, history>>

\* sf_json_print_buf: the variables of names that are set.
PrintVars(t, root, names) ==
  LET put[i \in 0 .. Len(names)] ==
        IF i = 0 THEN PrintField(out, "{")
        ELSE IF VarSearch(t, root, names[i]) = NULL THEN put[i - 1]
        ELSE PrintFields(put[i - 1], <<"key", "value">>)
  IN PrintField(put[Len(names)], "}")

Capture ==
  /\ At("cap") /\ Top.cap <= Len(Rule.caps)
  /\ Returns(Cap.store)
  /\ \E text \in Text[Cap.store] :
       LET v == VarInsert(table, Spider.handle, Cap.store, text, pages)
       IN /\ table' = v.table
          /\ spiders' = [spiders EXCEPT ![Me].handle = v.root]
          /\ out' = IF Cap.json = <<>> THEN out ELSE PrintVars(v.table, v.root, Cap.json)
  /\ Become([Top EXCEPT !.cap = @ + 1])
  /\ UNCHANGED <<uniq, confset, line, live, pools, history>>

NotUnique ==
  /\ At("cap") /\ Top.cap > Len(Rule.caps)
  /\ Rule.uniq # None /\ Returns(Rule.uniq)
  /\ VarExp(Rule.uniq) \in uniq
  /\ out' = ClearBuf(out)
  /\ wiped' = TRUE
  /\ Goto("end")
  /\ UNCHANGED <<table, uniq, confset, line, memory, pages, returned>>

Unique ==
  /\ At("cap") /\ Top.cap > Len(Rule.caps)
  /\ Rule.uniq # None /\ Returns(Rule.uniq)
  /\ VarExp(Rule.uniq) \notin uniq
  /\ uniq' = uniq \cup {VarExp(Rule.uniq)}
  /\ Become([Top EXCEPT !.pc = "trigger", !.ns = 1])
  /\ UNCHANGED <<table, out, confset, line, memory, pages, wiped, returned>>

NoUniq ==
  /\ At("cap") /\ Top.cap > Len(Rule.caps)
  /\ Rule.uniq = None
  /\ Become([Top EXCEPT !.pc = "trigger", !.ns = 1])
  /\ UNCHANGED <<table, out, uniq, confset, line, memory, history>>

Triggering == At("trigger") /\ Top.ns <= Len(Rule.triggers)

\* The output of an external program becomes a variable.
Trigger ==
  /\ Triggering
  /\ Rule.triggers[Top.ns] # None /\ Returns(Rule.triggers[Top.ns])
  /\ \E text \in Text[Rule.triggers[Top.ns]] :
       LET v == VarInsert(table, Spider.handle, Rule.triggers[Top.ns], text, pages)
       IN /\ table' = v.table
          /\ spiders' = [spiders EXCEPT ![Me].handle = v.root]
  /\ Become([Top EXCEPT !.ns = @ + 1])
  /\ UNCHANGED <<out, uniq, confset, line, live, pools, history>>

\* Its output is not asked for, or popen fails.
TriggerUnheard ==
  /\ Triggering
  /\ Become([Top EXCEPT !.ns = @ + 1])
  /\ UNCHANGED <<table, out, uniq, confset, line, memory, history>>

TriggersDone ==
  /\ At("trigger") /\ Top.ns > Len(Rule.triggers)
  /\ Become([Top EXCEPT !.pc = "spawn", !.ns = 1])
  /\ UNCHANGED <<table, out, uniq, confset, line, memory, history>>

----------------------------------------------------------------------------
(* Nested spiders: sf_confset_search, sf_spider_init, sf_confset_insert    *)
(* and the call of sf_proc_start_spider.                                   *)

Nested == Rule.spiders[Top.ns]

Spawning == At("spawn") /\ Top.ns <= Len(Rule.spiders)

\* An entry whose name was freed with its pool may or may not still compare
\* equal to its configuration.
MayMatch(e)  == e.conf = Nested.conf
MustMatch(e) == MayMatch(e) /\ e.pool \in live

\* The fields set for every run, and the first steps of the callee.
Prepared(s) ==
  [s EXCEPT !.starturl = IF Nested.url THEN [pool |-> Spider.pool, freed |-> FALSE] ELSE @,
            !.handle = Spider.handle, !.pool = 0]

\* The callee's level is not initialised: over is what it happens to hold.
Call(s) ==
  /\ out' = PrintField(out, "[")
  /\ \E over \in BOOLEAN : stack' = Append(stack, [Frame(s) EXCEPT !.over = over])

SpawnKnown ==
  /\ Spawning
  /\ \E e \in confset :
       /\ MayMatch(e)
       /\ spiders' = [spiders EXCEPT ![e.spider] = Prepared(@)]
       /\ Call(e.spider)
  /\ UNCHANGED <<table, uniq, confset, line, live, pools, history>>

\* The preset variables of the new configuration go to a table of their own.
SpawnNew ==
  LET own == Preset(table, NULL, Nested.conf) IN
  /\ Spawning
  /\ \A e \in confset : ~MustMatch(e)
  /\ table' = own.table
  /\ spiders' = Append(spiders, Prepared([conf |-> Nested.conf, pool |-> 0, starturl |-> NoUrl,
                                          eof |-> FALSE, handle |-> own.root]))
  /\ \/ confset' = confset \cup {[conf |-> Nested.conf, spider |-> Len(spiders) + 1,
                                   pool |-> Spider.pool]}
     \/ /\ \E e \in confset : MayMatch(e)
        /\ UNCHANGED confset
  /\ Call(Len(spiders) + 1)
  /\ UNCHANGED <<uniq, line, live, pools, history>>

SpawnsDone ==
  /\ At("spawn") /\ Top.ns > Len(Rule.spiders)
  /\ Goto("end")
  /\ UNCHANGED <<table, out, uniq, confset, line, memory, history>>

\* move_to_end.
EndMatch ==
  /\ At("end")
  /\ out' = IF Rule.json_new THEN PrintFields(out, <<"]", "}">>) ELSE out
  /\ Goto("rule")
  /\ UNCHANGED <<table, uniq, confset, line, memory, history>>

----------------------------------------------------------------------------
(* sf_proc_start_spider: the limits and the end of a run.                  *)

LimitReached == Top.over \/ line >= UrlCount[Conf]

OverLimit ==
  /\ At("limit") /\ LimitReached
  /\ spiders' = [spiders EXCEPT ![Me].eof = TRUE]
  /\ Goto("exit")
  /\ UNCHANGED <<table, out, uniq, confset, line, live, pools, history>>

UnderLimit ==
  /\ At("limit") /\ ~LimitReached
  /\ Goto("scan")
  /\ UNCHANGED <<table, out, uniq, confset, line, memory, history>>

\* The run ends; the caller frees the start url and goes on.
Return(o) ==
  /\ out' = PrintField(o, "]")
  /\ IF Depth = 1
     THEN stack' = <<>> /\ UNCHANGED spiders
     ELSE LET caller == stack[Depth - 1] IN
          /\ stack' = [Front(stack) EXCEPT ![Depth - 1].ns = @ + 1]
          /\ spiders' = IF Spider.starturl # NoUrl /\ Spider.starturl.pool = spiders[caller.spider].pool
                        THEN [spiders EXCEPT ![Me].starturl.freed = TRUE]
                        ELSE spiders
  /\ returned' = returned + 1
  /\ UNCHANGED <<table, uniq, confset, line, live, pools, pages, wiped>>

\* With feedback the lines left are listed, here one or none.
ExitOverLimit ==
  /\ At("exit") /\ LimitReached
  /\ IF Spider.starturl = NoUrl /\ Feedback[Conf]
     THEN \E left \in {<<>>, <<"{", "key", "value", "}">>} :
            Return(PrintFields(out, <<"{", "key", "[">> \o left \o <<"]", "}">>))
     ELSE Return(out)

\* sf_all_spiders_eof looks at the thread's own spider, never at a nested one.
ExitAtEof ==
  /\ At("exit") /\ ~LimitReached
  /\ spiders[1].eof
  /\ Return(out)

TryAgain ==
  /\ At("exit") /\ ~LimitReached
  /\ ~spiders[1].eof
  /\ Goto("scan")
  /\ UNCHANGED <<table, out, uniq, confset, line, memory, history>>

Ended == stack = <<>> /\ UNCHANGED vars

Next ==
  \/ ScanUrl \/ CopyStartUrl \/ ScanEof
  \/ FetchOk \/ FetchFails \/ FetchGivesUp
  \/ PolicyApplies \/ PolicyOutOfRange \/ PoliciesDone
  \/ RulesDone \/ RuleRepeated \/ NoMatch \/ ClearVar \/ Cleared \/ Match
  \/ Capture \/ NotUnique \/ Unique \/ NoUniq
  \/ Trigger \/ TriggerUnheard \/ TriggersDone
  \/ SpawnKnown \/ SpawnNew \/ SpawnsDone \/ EndMatch
  \/ OverLimit \/ UnderLimit \/ ExitOverLimit \/ ExitAtEof \/ TryAgain
  \/ Ended

Spec == Init /\ [][Next]_vars

----------------------------------------------------------------------------
(* Properties.                                                             *)

Handles == {spiders[stack[i].spider].handle : i \in 1 .. Depth}

\* No more pools are alive than one for each running spider, which a line or a
\* start url exchanges for a new one, and one for each run that has ended: a run
\* begins by forgetting the last pool of the run before (main.c:162, 180-183,
\* sf_pcre.c:460-472).
PoolsAccounted ==
  /\ live \subseteq 1 .. pools
  /\ Cardinality(live) <= returned + Depth

\* A search for a variable that is not set ends: from the handle of a running
\* spider the walk of sf_var_search (sf_var.c:35-39) leads back to the handle,
\* whatever the spiders it started did to the table.
SearchesEnd == \A h \in Handles : SearchEnds(table, h)

\* Every running spider has a table of distinct names that its searches walk to
\* the end.
HandlesHold ==
  /\ SearchesEnd
  /\ \A h \in Handles : IsInjective([i \in 1 .. Len(Walk(table, h)) |-> table.name[Walk(table, h)[i]]])

\* A nested spider and its caller share one table: what one of them sets or
\* clears, the other one sees (sf_pcre.c:459 copies the handle).
OneTable ==
  \A g, h \in Handles : ToSet(Walk(table, g)) = ToSet(Walk(table, h))

\* Once a rule is done with a page, its variables are unset or were set since
\* the page was begun: nothing is left of an earlier page (sf_pcre.c:262).
FreshVars ==
  \A i \in 1 .. Depth : LET f == stack[i] IN
    f.rule > 0 =>
      \A r \in 1 .. f.rule - 1 :
        LET rule == Policies[spiders[f.spider].conf][f.policy][r] IN
        rule.repeat > 0 =>
          \A name \in Names(rule) :
            LET v == VarSearch(table, spiders[f.spider].handle, name)
            IN v # NULL => table.born[v] >= f.page

\* Until a duplicate clears it, the buffer is the beginning of a JSON document,
\* however spiders and elements nest, and at the end it is a document.
JsonWellFormed ==
  ~wiped => /\ IsJsonPrefix(out.buf)
            /\ stack = <<>> => IsJson(out.buf)

\* What a spider is about to fetch was not freed (main.c:170, sf_pcre.c:476).
StartUrlLive ==
  At("scan") /\ Spider.starturl # NoUrl =>
    Spider.starturl.pool \in live /\ ~Spider.starturl.freed

============================================================================
