# spiderframe in TLA+

A verification project for spiderframe, a small multi-threaded web crawler in C
(`src/`): TLA+ modules that model its parts, TLC configurations that check them
on small instances, and TLAPS proofs of the properties that matter most, for
every value of the constants.

Contents: [the system](#the-system) · [what is hard about
it](#what-is-hard-about-it) · [modules](#modules) · [runs](#runs) ·
[proofs](#proofs) · [findings](#findings) · [assumptions and
limits](#assumptions-and-limits) · [plan](#plan)

To check: `tlc -config two_spiders.cfg MCCrawler` (and so on for each run below),
`tlapm CrawlerProofs.tla` (and so on for each `*Proofs` module).

## The system

`main()` reads the options, opens `url.txt`, loads a table of the URLs it
already holds, and starts `-m` threads. Every thread runs
`sf_proc_start_spider()`: it takes the next line of `url.txt`, fetches the page,
appends the links of the page that are new to the same `url.txt`, applies the
configured policies (regular expressions that fill variables, print JSON, run
programs and start nested spiders), and goes on until a limit is met or the file
is exhausted. `url.txt` is the queue and the result of the crawl at once.

| component | files | state | operations | what makes it correct |
|---|---|---|---|---|
| crawl threads | `main.c` | two streams on `url.txt`, `line`, `spider_list`; per thread `eof`, `level`, `pool` | start, take a line, fetch, follow links, limits, checkpoint, feedback, exit | every line is taken once; no thread leaves work behind; all threads end |
| dedup and queue | `sf_proc.c` | `url_handle`, `url_mutex`, `global_pool_mutex`, `url.txt` | insert a URL, load the table, rewrite by range | no URL is queued twice, none is lost |
| checkpoint | `sf_checkpoint.c` | file `check_point` | save (load is never called) | a crawl resumed there skips nothing |
| page processing | `sf_pcre.c` | output buffer, nested spiders | rules, nested spiders | what a rule prints belongs to the page |
| text of a page | `sf_pcre.c`, `sf_proc.c` | none | find links, make them absolute, reduce dot segments, apply ranges; strip tags | a link leads where the page's author meant; a page is done with |
| nested configurations | `sf_confset.c` | hash table from file name to spider | search, insert | a configuration is read once; its name stays valid |
| variables | `sf_var.c` | circular list of name and value, shared by a thread's spiders | create, search, insert, delete, expand | names are unique, a search ends |
| fetching | `sf_curl.c` | receive buffers | one transfer, up to three times | |
| uniqueness | `sf_uniq.c` | hash table of texts | test and insert | no text passes twice |
| hash table, lists | `sf_hashmodule.c`, `sf_linkmodule.c` | buckets of circular lists | search, insert | a set, under a mutex |
| memory pools | `ngx_palloc.c` | blocks, large allocations | allocate, free, reset, destroy | allocations do not overlap, none is freed twice |
| JSON output | `sf_json.c`, `libjson/json.c` | printer state, one buffer of 128 KB | print a field, print variables, clear | the output is a JSON document |
| configuration | `sf_conf.c` | lists of policies, rules, captures, ... | read the XML file | the lists have the order the engine expects |
| JSON library | `libjson/json.c`, `jsonlint.c` | parser state, stack, buffer; DOM stack | feed a byte, events, build a tree, print | accepts JSON and nothing else, but for the forms listed below; what it prints reads back. The crawler uses only the printer |
| support | `sf_log.c`, `sf_mem.c`, `sf_iconv.c`, `sf_ua.c`, `ngx_md5.c` | none | | |

How they interact: the threads share `url.txt`, the dedup table and its pool
under three mutexes (`url_mutex`, `global_pool_mutex` inside it, `file_mutex`
for single reads and writes of the file), and read each other's `eof` flags
and `line` without any. Page processing is called by the crawl loop with the
thread's spider and calls back into `sf_proc_start_spider` for nested spiders,
which share the caller's variables and uniqueness table. The JSON printer and the set
of nested configurations are global and unprotected.

## What is hard about it

- **Exit protocol.** A thread that finds no line sets its flag and leaves when it
  has read every flag set, one after the other, without a lock, while other
  threads clear theirs *after* they took a line and append lines later.
- **Two lists in step.** A key is entered in the table under `url_mutex`, the
  line is written after it is released: the table and the file differ for a
  while, also when the process is killed just then.
- **Counters read without their lock.** `line` is compared with `url_count` and
  saved in the checkpoint while other threads move it.
- **Data structures in use.** Hash buckets are circular lists with a root
  pointer, changed field by field; the uniqueness table has no lock at all.
- **Handles by value.** A nested spider gets a *copy* of the pointer into its
  caller's circular list of variables, and removes nodes from it.
- **Lifetimes.** Every page has a pool; pointers into it are kept in structures
  that live longer.
- **Arithmetic on addresses.** The pool compares an unsigned difference.
- **Text rewritten in place.** `redurceurl` removes segments until no `/../` is
  left, in a loop that counts on a slash before it; `getcontent` skips elements by
  tests that follow each other without an `else`.
- **A grammar in tables.** The JSON parser is two tables of states by character
  classes, with actions that run an event late and buffers that grow under a limit.

`PROJECT.json` lists these hazards at their lines, each with the properties that
cover it.

## Modules

### The crawl: `Frontier`, `Crawler`, `CrawlerInv`, `CrawlerProofs`, `MCCrawler`

`Crawler` has one action per step of a thread that other threads can see. Steps
under `file_mutex` (one `fscanf` and `line++`; one `fprintf` and `fflush`) are one
action; `url_mutex` and `global_pool_mutex` are variables, held over several.

| code | actions |
|---|---|
| `main()` 489-505 | `CreateSpider`, `StoreSpider` (the other threads may run in between) |
| `scan_url` 50-61, loop 164-194 | `ScanUrl`, `ScanEof`, `MarkEof`, `NewPool`, `NewPoolFails` |
| fetch 196-241 | `FetchOk`, `FetchFailsReported`, `FetchFailsIgnored` |
| `sf_pcre_get_href` 580-664 | `LinkRejected`, `LinkAccepted`, `LinksDone` |
| `sf_proc_insert_url` 176-212 | `LockUrls`, `KeyFound`, `KeyNotFound`, `LockPool`, `AllocOk`, `AllocFails`, `InsertKey`, `AppendUrl` |
| limits and checkpoint 268-285 | `CheckLimit`, `DoCheckpoint`, `SaveCheckpoint` |
| exit 287-315, `output_unparse` 63-92, `all_spiders_eof` 94-106 | `CheckExit`, `CallUnparse`, `ReadUnparsed`, `PrintUnparsed`, `UnparsedEnd`, `ReadEof`, `ReadUnsetSlot` |

The web is a constant: `Links` (the links of a page), `Rewrite` (what the
configured ranges make of a link), `Key` (bucket and hash of a URL, all that the
table compares, so that different URLs may collide). `dropped` and `mine` (the last line a
thread appended) are history.

The end of the file is met in one step and noted in another: `fscanf` returns EOF under
`file_mutex`, released at `main.c:59`, and `s->eof = 1` follows at `main.c:175`. Between
`ScanEof` and `MarkEof` other threads append lines and take them.

`Frontier` is the abstract specification: a queue from which workers `Take`, to
which they add new links (`Discover`), until they `Retire`. `Crawler` implements
it: `ImplementsFrontier` is the property `F!FSpec` under the mapping *queue =
the lines of `url.txt`, taken = the position of the stream, retired = the threads
that are done*.

### Kill and restart: `Restart`, `RestartInv`, `RestartProofs`, `MCRestart`

Extends `Crawler` by `CrashAndRestart`: at any step the process is killed and
started again with what is on disk, from the start or with `-l` and the last line of
`check_point`, with a table rebuilt from `url.txt`. Within a run transfers, pools and
allocations may fail (`Misses`, `AllocFails`); the history variable `missed` holds
the lines whose page was given up, in any run, because what the code then does with
its links is the one loss it allows itself.

### The hash table: `SeenSet`, `DualLink`, `HashTable`, `HashTableInv`, `HashTableProofs`, `MCHashTable`

Threads look items up and insert those that are new; every assignment to a
pointer of `DualLinkAppend` and every read of a search is a step. With
`Locked = TRUE` a test and insert runs under a mutex, as `sf_proc_insert_url`
does; with `FALSE` without one, as `sf_pcre_perform` does. `SeenSet` is the
abstract atomic set; `ImplementsSet` says that the locked table implements it,
which justifies the set `keys` of `Crawler`.

### Pages of one thread: `VarTable`, `JsonOut`, `ConfLists`, `Page`, `PageInv`, `PageProofs`, `MCPage`

`Page` is one thread, from taking a line to the end of the page: transfer with
retries, policies, rules with repetition, captures, uniqueness test, triggers,
nested spiders (a stack of frames, since the code recurses), limits, return.
It is built on three modules of operators:

- `VarTable`: `sf_var.c` on circular lists, `next` and `prev` kept as the code
  keeps them, so that a handle can be left pointing at a removed node.
- `JsonOut`: the printer of `libjson` (which separator comes before a token)
  and the fixed buffer; and a reader that decides whether tokens are (the
  beginning of) a document, which properties use.
- `ConfLists`: what `sf_conf.c` makes of a document: policies are entered at the
  head of their list, rules, captures, spiders and triggers at the tail, preset
  variables come after those of an included file. `Page` gets its policies and
  preset variables from a document through it.

`Page` knows nothing of links: they are the business of `Crawler` and of the text
modules below. Pools are numbered as they are created and `live` holds those not destroyed,
so that a pointer into a pool is a number that may no longer be live. What a
regular expression matches is an input.

| code | actions |
|---|---|
| `sf_proc_start_spider` 164-209, 212-241 | `ScanUrl`, `CopyStartUrl`, `ScanEof`; `FetchOk`, `FetchFails`, `FetchGivesUp` |
| policies 257-276, rules (`sf_pcre_perform` 225-260) | `PolicyApplies`, `PolicyOutOfRange`, `PoliciesDone`; `RulesDone`, `RuleRepeated` |
| no match, 264-289 | `NoMatch`, then a `ClearVar` for each capture, and `Cleared` |
| match, captures and uniqueness 260-381 | `Match`, `Capture`, `NotUnique`, `Unique`, `NoUniq` |
| programs 384-428 | `Trigger`, `TriggerUnheard`, `TriggersDone` |
| nested spiders 431-495 | `SpawnKnown`, `SpawnNew`, `SpawnsDone`, `EndMatch` |
| limits and return, `sf_proc_start_spider` 276-326 | `OverLimit`, `UnderLimit`, `TryAgain`, `ExitOverLimit`, `ExitAtEof` |

`PageInv` has the invariants of the proofs; `MCPage` supposes of its configurations
what the theorems suppose (`MCHypotheses`). The name of the sentinel, the empty
string, is called `Blank`.

### The text of a page: `Href`, `Content`, `PageText`, `PageTextProofs`, `MCPageText`

What `sf_proc_start_spider` reads out of a page besides its rules (`main.c:255-266`).
A url is a sequence of tokens (scheme, `/`, `.`, `..`, names, a query), a captured
text one of tags and words.

| code | actions |
|---|---|
| `sf_pcre_get_href` 580-664 | `Complete`, `Relative`, `GetHostError`, `NoMoreLinks` |
| `redurceurl` 553-578, one round of a loop each | `RemoveParent`, `Spin`, `ParentsGone`, `RemoveHere`, `HereGone` |
| `insert_url_withrange`, `url_rewrite_range`, `rewrite_exp` (`sf_proc.c` 57-172) | `Insert` |
| `sf_pcre_getcontent` 80-197, one round of its loop | `SkipTag`, `CopyText` |

`Spin` is the round that changes nothing: `/../` without a slash before it. `PageText`
composes the two and holds what they are compared with: the resolution of relative
references of RFC 3986 (`Resolved`), with a condition under which the code
agrees with it (`Regular`), and a reader that knows of tags and hidden elements
(`Read`). What `Regular` leaves out is where the code and the RFC differ, or may:

- a link with `://` anywhere in it is taken for complete (`TakenAsIs`, the `strstr` of the code),
  be it in a query or in the middle of a path, where for the RFC it is relative
  (`Absolute`: the link *begins* with a scheme); one that begins with another scheme
  (`http:name`) is put behind the directory;

- a link that climbs above the root eats the host, then the scheme, then spins
  (`NeverSpins` says exactly when);
- `/./` is taken out after `/../`, so a dot before a parent counts as a directory;
- a dot segment at the end stays, as do those of an absolute link;
- `//host/path` is put behind the host, `#part` behind the directory; a fragment of the
  page's url stays in what is made of it (a link or page with a fragment is not
  regular, even where the two agree);
- a query is appended to the whole url of the page, its old query included, and a
  slash inside a query is taken for one of the path;
- on a page whose url ends behind its host a relative link ends the search for links;
- dots in the url of the page are removed along with those of a link that is only a
  query, where the RFC leaves them alone; a host that is a dot is taken for a segment (that
  `Regular` must leave these out was found in the proof).

### The JSON library: `JsonParser`, `JsonPrinter`, `JsonDom`, `JsonLint`, `JsonLintProofs`, `JsonGrammar`, `MCJson`

`JsonParser` has the two tables of `json.c` as sets of transitions, the stack and the
buffer with their growth and limits, UTF-8 and `\u` decoding, comments, and the
actions with the events they report; `JsonPrinter` the printer with its escapes,
`JsonDom` the callback that builds a tree with freed and live keys told apart.
`JsonLint` drives them as `jsonlint.c` does, byte by byte (`ReadByte`, `EndOfFile`),
while the callback may refuse events and allocations may fail (`Memory`): the parser's
(`grow`), the growth of the tree's stack (`push`), what `tree_append` needs for a structure
that ends (`append`), the copy of a key (`copy`). The last three go unnoticed: `dom_push` gives
`realloc` a number of elements for a number of bytes, and its caller ignores that it failed
(`DomPush`); `json.c:1044` ignores that `append` failed, and goes on without
the structure; `jsonlint.c:309` does not look at the copy it got (`Attach`). The
field `lost` of the tree says that one of the latter two happened. `TreeInStep` says that the
tree holds the events until then, and that no freed key is used even thereafter; it is
checked and proved where the stack of the tree need not grow, the hypothesis `Shallow`.

`JsonGrammar` is the reference, a recursive grammar over bytes, independent of the tables:
RFC 4627 over the UTF-8 of RFC 3629, and the comments a configuration allows wherever white
space may stand. `src/libjson/README.md` promises as much: "uses a textual data
format (RFC4627)" (line 8), "Full JSON support" (18), "UTF8 validation of the input" (19).
The code does not keep this promise for five forms of files, which `Parts` names and
`AcceptsDocuments` leaves out:

| form | libjson | grammar |
|---|---|---|
| `ZeroExponent`: `0e1`, `-0E2` | refuses | accepts |
| `CommentAtExponent`: a comment directly behind an exponent | refuses | accepts |
| `LoneSurrogate`: `\ud800` without a partner, as an escape | refuses | accepts |
| `LooseUtf8`: overlong forms, surrogates in three bytes, more than U+10FFFF, five and six bytes | accepts | refuses |
| `InComment`: the file ends inside a comment | accepts | refuses |

The files of the run have all five, so that `AcceptsDocuments` is false if any one of
them is taken out of `Parts`. Two more differences are of the settings: `max_data` n refuses a
text of n bytes, and the BEGIN event is out before the nesting limit is tested.

### Memory pools: `NgxPool`, `NgxPoolProofs`, `MCNgxPool`

One action per function of `ngx_palloc.c`: `Palloc`, `Pnalloc`, `PallocReuse` and
`PallocLarge`, `Pmemalign`, `Pfree`, `ResetPool`, `DestroyPool`, `CreatePool`. A
block is an offset range; the comparison of the unsigned difference is modelled
as such (a negative difference is larger than any size). `given`, the allocations
given out, is history.

## Runs

| run | system | checks | shows |
|---|---|---|---|
| `two_spiders` | 2 threads, 7 URLs, colliding keys, excluded links, failing fetches, pools and allocations, with and without feedback, `url_count` 3 | `IInv`, `NoDuplicateLine`, `TableMatchesFile`, `LineBound`, `NoUrlLeftBehind`, `OwnLinesTaken`, `CrawlComplete`, `ImplementsFrontier`, `Termination` | the queue is right and both threads end, although flags and counters are read without locks and a flag is set some time after the end of the file was met; `url_count` is overrun by a line per thread at most |
| `restart` | 1 thread, 6 URLs, 2 seeds, `url_level` 1, `url_count` 6, failing fetches and pools, with and without feedback, killed up to twice, resumed either way | `SInv`, `NoDuplicateLine`, `NothingLost`, `CheckpointFollowed`, `FeedbackRight`, `LayerByLayer` | a kill at any step neither repeats nor loses a link; every line from `-l` on is reported once; an undisturbed crawl goes layer by layer |
| `table_locked` | 3 threads, 4 items, 3 of them in one bucket, mutex | `IInv`, `NewOnce`, `RingsIntact`, `ImplementsSet`, `Terminates` | the table is an atomic set, its buckets stay rings |
| `page` | the first thread, 2 lines, a nested spider started twice per page, 2 preset variables | `PoolsAccounted`, `HandlesHold`, `OneTable`, `FreshVars`, `JsonWellFormed`, `StartUrlLive` | nested spiders and their caller share one well-formed table; a rule sees nothing of an earlier page; the output nests; no run loses more than its last pool |
| `pool` | blocks of 6 bytes, alignment 2, 4 blocks, 3 large entries | `TypeOK`, `Disjoint`, `InsideBlock`, `AlignedAsAsked`, `ListIsHeap`, `GivenUpTired` | allocations are disjoint and in bounds, large ones are listed once |
| `text` | 9,400 pages of one or two links, 26,000 captured texts | `LinksResolved`, `LinksStored`, `ContentIsText`, `PageEnds` | regular links lead where RFC 3986 says; the ranges store what they should; a page is done with unless a link climbs too far; the content is the visible text |
| `json` | 50,000 files, 2 settings, 5 environments | `AcceptsDocuments`, `BufferRoom`, `PrintsBack`, `TreeInStep` | the tables are the grammar of RFC 4627, but for the five forms of `Parts`; the buffer holds; printing and parsing are inverse; the tree follows the events until an allocation fails unnoticed, and never uses a freed key |
| `checkpoint_two_spiders` | 2 threads | `CheckpointCovers` | **violated**, see findings |
| `sticky_eof` | 1 thread, C library that remembers EOF | `EofMeansFileRead` | **violated** |
| `stale_eof_flag` | 2 threads, `url_level` 0 | `Termination` | **violated** |
| `table_race` | 2 threads, no mutex | `NewOnce` | **violated** |
| `page_second` | any thread but the first | `SearchesEnd` | **violated** |

**Bounds.** Two threads show every interleaving of a pair; the proofs lift the
safety properties to any number. The web of `two_spiders` is the smallest in which
two pages link the same page, a page has the key of another, a link is
excluded, and the web outgrows the limit, so that both threads race for the last
line. `Period` is 1 or 2 in place of 10, so that checkpoints happen. In
`restart` two kills suffice for a kill during a resumed crawl; the web has two pages on
the last level, so that leaving it early shows; more threads are
covered by the proof (`NoLinkLost`). The items of `table_locked` fall in two
buckets, so that lists of length two and parallel first insertions occur. In
`page` a rule repeats twice and starts a spider each time, once new and once
known; the uniqueness test sees both a new and a known text. `JsonMax` is larger
than any output of that run: what a full buffer drops is not checked. In
`text` five segments are one more than any loop of `redurceurl` needs to climb out of
the deepest page; a captured text has up to four of nine tokens, or up to six of those
that have to do with quotations. In `json` the files are all words over eight small
alphabets, each chosen for one part of the tables (structure, numbers, constants,
comments, strings, UTF-8, `\u`), with a buffer that begins with one or two bytes, a stack that grows
and one that may not; every step is taken with all allocations failing, with the unnoticed
ones failing one kind at a time, and with a callback that refuses some events. In `pool`,
`MaxFailed` is 0 in place of 4 and `Scan` 1 in place of 5 (the thresholds
are constants of the proofs), so that blocks are given up within four blocks;
`MaxBlocks` and `MaxLarge` are the bounds of the model itself.

**Fairness.** `FairSpec` of `Crawler` and `HashTable` is weak fairness of each
thread: the operating system runs every runnable thread again and again. The mutexes
need no more, because each is held for a bounded number of steps and a
thread that waits for one is not stuck behind the same thread forever in a finite
crawl. `Spec` of `PageText` is weak fairness of the one thread: it has only loops,
and `PageEnds` is about whether they end. Nothing is assumed of which way a
nondeterministic outcome goes: a transfer may fail every time. `Termination` is
checked for limits by count; with a limit by level it fails, which is the run
`stale_eof_flag`. Deadlock is checked in every run but `json`, where a file read to
its verdict is the end: the other modules say where the program ends by a
stuttering action (`Finished`, `Ended`).

## Proofs

| module | theorem | states, for every value of the constants |
|---|---|---|
| `CrawlerProofs` | `Invariance`, `TypeCorrect`, `LinesAreUnique`, `TableIsFile`, `LinesAreBounded` | `IInv`, `TypeOK`, `NoDuplicateLine`, `TableMatchesFile`, `LineBound` |
| | `NothingLeftBehind`, `OwnLinesAreTaken`, `Implements`, `EndsComplete` | `NoUrlLeftBehind`, `OwnLinesTaken`, `ImplementsFrontier`, `CrawlComplete`, for a C library that re-reads a grown file (`~StickyEof`) |
| `RestartProofs` | `RestartInvariance`, `NoLineRepeated`, `NoLinkLost`, `CheckpointIsThrough` | `RInv`, `NoDuplicateLine`, `NothingLost`, `CheckpointFollowed`, under `FirstRun` |
| | `SInvariance`, `EachLineOnce` | `SInv`; with feedback, every line taken since `-l` is reported, missed or at hand, for any number of threads |
| | `FeedbackIsRight`, `GoesLayerByLayer` | `FeedbackRight`, `LayerByLayer`, of one thread |
| `PageProofs` | `PageTypes`, `PoolsAreAccounted` | `PageTypeOK`, `StackInv`, `PoolsAccounted`, for any configurations |
| | `StartUrlsLive` | `StartUrlLive`, where `NestsDown(rank)` for some `rank`, and `UrlsAgree` |
| | `HandlesLive`, `VariablesShared`, `NothingStale` | `HandlesHold`, `OneTable`, `FreshVars`, in the first thread, where variables are `Named` |
| | `JsonDocuments` | `JsonWellFormed` as long as the buffer is not full, for any configurations |
| `PageTextProofs` | `LinksAreResolved`, `LinksAreStored`, `ContentKept` | `LinksResolved` (of regular links), `LinksStored` (of pages whose links are regular), `ContentIsText` (of clean texts), for any pages, ranges and captured texts |
| `HashTableProofs` | `Invariance`, `TypeCorrect`, `NoItemNewTwice`, `NoItemLost`, `BucketsAreRings`, `NoNullFollowed`, `RefinesSet` | `IInv`, `TypeOK`, `NewOnce`, `FoundIsKnown`, `RingsIntact`, `WalkMeetsNode`, `ImplementsSet`, where `Locked` |
| `NgxPoolProofs` | `Invariance`, `TypeCorrect`, `NoOverlap`, `NoOverrun`, `Aligned`, `EveryLargeListed`, `NoBlockGivenUpEarly` | `IInv`, `TypeOK`, `Disjoint`, `InsideBlock`, `AlignedAsAsked`, `ListIsHeap`, `GivenUpTired` |
| `JsonLintProofs` | `Invariance`, `BufferHasRoom` | `ParserInv`, `BufferRoom`, for every file, setting and failure |
| | `TreeFollows` | `TreeInStep`, where `Shallow`: the tree holds the events until `append` or the copy of a key fails unnoticed |

`Folding` holds the facts about sequences these modules share: that a fold of the community
modules, which is defined over sets of positions, is a function on the prefixes of its
sequence with the equation one expects, induction over sequences, concatenation.

**Crawler.** Assumed: `SpiderAssumption` (at least one thread), `ConfAssumption`
(types), `WebAssumption` (types, and `-l` is not past the end of the file). That
no line is repeated is not inductive: two threads could both be about to append
a key. `IInv` adds who holds the mutexes where (`LockInv`); that between search and
insertion the key stays absent (`LinkInv`); that the table is the file plus the
lines about to be appended, of different keys (`TableMatchesFile`); that a
thread's level and links are those of its line (`PageInv`); that `line` is the
position of the stream (`CountInv`). `LineBound` needs the count of threads that
may still take a line whatever `line` is by now (`ClearedInv`, an argument on
cardinalities). `NoUrlLeftBehind` and the refinement need `ExitInv`: a thread on a
page is not marked eof, a thread that reads the flags has seen every earlier
thread either marked eof or over a limit. A running thread that appended the last line is
therefore not marked when it did, and reads the file once more before it can
leave, however stale the flags are that the others read. `OwnLinesTaken` rests on `EofInv`: a
thread that has met the end and not marked it yet has its own lines taken, whatever
others append meanwhile. That *every* line is taken when a flag is set (`EofMeansFileRead`)
is false of two threads for just that reason; it is checked of one thread, in `sticky_eof`.

**Restart.** `FirstRun`: the first start is without `-l`, and either resumes are from
the start or there is one thread. `FollowInv`: every link of every line taken, but for
those missed, is excluded, in the table or still ahead of the thread that holds the line;
`SavedInv`: the lines counted by a single thread's checkpoint have all their links in
the *file*. A kill turns "in the table" into nothing where the line was not yet
written; the line of the page is then read again, since either the crawl starts
over or the checkpoint did not count it.

**Feedback and layers.** `SInv` is `RInv` and three invariants more. `AccountInv`: a
line taken since `-l` is at one place, among those reported, missed or at hand, where
"at hand" is read off the label of the thread. `SoloInv`: a single thread at the exit
lists exactly the lines behind its stream, and none before. Two threads break it, because
they read lines into one static buffer. `FeedbackRight` follows where a stream re-reads
a grown file; with `StickyEof` lines are left. `LayerInv`: links are one level below
their page, so that lines appended by a single thread have their levels in order if the
seeds have, and if the crawl begins at line 0 (`FirstRun`).

**Variables.** The first part of `PageProofs` says of the operators of `VarTable` what they do on a
*ring* of nodes of distinct names (`Holds`; the ring is the one of `DualLink`): a walk
returns the ring (`WalkIs`), a search finds the node of that name and ends (`SearchIs`), a
deletion leaves the ring without it and moves the handle only if it was there
(`DeleteIs`), an insertion leaves no second node of the name (`InsertIs`), and rings
that share no node do not touch each other (`HoldsElsewhere`). A handle may also be
on a removed node: then a table is still closed under its links
(`SearchWithin`, `InsertWithin`), which is all that the types need.

**Pages.** `Steps` sorts the actions by what they do to the frames that wait: the
innermost spider moves on, sets a variable, begins a page, starts a spider or
returns. Each invariant is then proved for these.

- `PoolInv`: spiders own different pools. A spider that begins a run forgets its pool; so
  one may be lost for each run that has ended. No hypothesis.
- `UrlInv`, `RankInv`: the start url of a waiting spider's callee is in the
  pool of the caller, which keeps that pool as long as it waits. Both hypotheses
  are needed, and TLC shows what happens without them: of two rules that start
  one configuration, one with a url and one without, the second lets the
  spider fetch the url freed after the first (`sf_pcre.c:476` leaves the
  pointer); and a configuration that starts itself runs one `sf_spider_t` twice at
  once, so that the inner run frees the url of the outer.
- `SentinelInv`: every running spider's handle is on the sentinel, from which the table
  is a ring. Names set are never blank, so nothing removes the sentinel, and what is
  preset for a nested spider is another ring. A preset variable *without* a name takes the
  sentinel's place and the handle goes to the next variable, which a nested spider
  may remove as in `page_second`: hence `Named`.
- `FreshInv`: what a frame is done with (`Done`, down to the capture it is at) was set
  since the frame's page began, or is unset; nested spiders that set a variable set it
  on a later page.
- `OutInv`, in `PageProofs`: every running spider has opened an array inside of what
  its caller was inside of, and a rule that is being done an element in its spider's array
  (`Nesting`); what the reader expects next is what the innermost one can print, and the
  printer's two flags say whether a comma is due there (`Expects`). Each text that is printed is
  a value of the array it is printed in, or opens or closes one. The proof is by
  the tokens one by one (`PrintSteps`: a fold is a walk). The hypothesis is needed:
  what a full buffer does not take is missing from the document.

**Text of a page.** Assumed: `HrefAssumption` (types; a url is a run of whole tokens: a
query or a fragment is no scheme, slash or dot, the page's url is not empty and has no two names
side by side, a bare url is not empty), `ContentAssumption` (types), `PageTextAssumption`. The references
(`Segments`, `Joined`, `WithoutDots`, `Read`, `Wanted`) are folds of the community
modules; by `Folding` each has the equation one expects (`SegmentsIs`, `JoinedIs`,
`WithoutDotsIs`, ...), and everything else uses the equations only.

- *Links* (`LinkInv`). Equality with the RFC holds only at the end of the reduction, so the
  invariant says where it is going: the url at hand is the host followed by `Joined(segs)`
  for some path `segs` that leads where the link leads, `WithoutDots(segs) =
  WithoutDots(Merged(...))` (`OnPath`). A round of `redurceurl` takes the leftmost `..` out
  together with the name before it, or a `.`, which changes neither. The slashes the
  code finds are the borders of segments, so that what it cuts in the url is what is
  cut in the path. Each `..` still finds a name before it (`LeavesNames`, kept by every
  round), so that the round never reaches the host; without that clause of `Regular` it does, which is
  the first entry of the list above. Once the loops are through no segment is a dot,
  and a path without dots is its own resolution (`Settled`).
- *Storing* (`StoreInv`): what is stored is what is wanted of the links that are done with,
  if these are regular; and the search ends at the last link, because a regular one never takes
  `GetHostError`. The ranges are compared on the way: the words a black or white pattern
  holds as sets against the first range, and the first token of the url, that match.
- *Content* (`ContentInv`): the code jumps over an element in one round, the reader goes token
  by token; the invariant is that the reader at `p` is in plain text and kept the same, or that
  its text is no longer clean; between the two the reader stays in one mode.

**Hash table.** Assumed: `WorkAssumption` (types of the constants) and, where said, `Locked`. The
buckets are rings but for the one insertion under way, whose state is described
label by label (`RingInv`, `NewNodeInv`, `ClosedInv`); a search stands on a node
whose predecessors are not the item (`WalkInv`); the items found new are those
of the nodes (`NewInv`, `DecidedInv`), each once.

**Pool.** Assumed: `PoolAssumption`: the block size is a multiple of the
alignment (4 KB, 1 MB, 16 MB and 16), the header of a later block rounded up is
no longer than that of the first (32 and 88). The invariant puts every allocation
before the free part of its block and the free part before the end; rounding up
then cannot pass the end, because the end is a multiple of the alignment
(`AlignUpFacts`), so that the unsigned difference is never a wrapped one. A block's
failures fall along the list from `current` on (`FailedDown`), which gives
`GivenUpTired` for blocks skipped along with a tired one. A destroyed pool holds
nothing.

**JSON parser.** Assumed: `DefaultsAssumption` (the default sizes are not 0; with
`Nat` for the settings, 0 means "not set") and `LintAssumption` (types). `ParserInv`
says that the parser is well typed, that the buffer has a place more than its
characters and is within `max_data`, and the stack within its size (`Good`); and that in
`U2`, `U3` and `U4` one, two or three digits are in the buffer (`DigitsRead`). Without
the latter `act_uc` could take back four characters that were never kept. That it
holds is a fact about the table: each of these states has one predecessor, and the
policy of a step into it is to append (`TableIs`, `KeptIs`); and about the
actions: none leaves the parser in such a state (`StateAfter`). `Good` is kept by
every operator (`PushGood`, `KeepGood`, `DecodedGood`, ...), the failing ones included.

**JSON tree.** `TreeFollows` is about what happens between the parser and the callback that
builds the tree: keys come before values, every end has its begin, a number is told of
when it is over. `TreeInd` is its inductive invariant, over the parser, the tree and the file:

- `Lexed`: a value waits in `type` in the states of a number and behind a constant only, and
  a key is expected where an object begins, behind its commas and inside the key; the
  state of the document inside a comment is the saved one (`Now`).
- `Due`: whether the next event must be a key, a value or an end follows from the state, from
  `expectingKey` and from `type`; `Shape` says that the tree's stack has
  the structures of the parser's mode stack, innermost on top, and holds a key exactly
  when the innermost is an object whose value is due (`InStep` joins the two).
- `Depth`: no more structures are open than brackets were read, nor than the limit.
  With `Shallow` the tree's stack is then never full.
- `Recorded`: the events of the document so far are those of the tree. Each event that comes
  when `Shape` allows it adds itself at the end, since it goes to the innermost
  structure that is open (`BeginTold` and what is with it), or the call fails and the tree
  tells of nothing new. A failed call ends the reading, so only the tree is claimed thereafter;
  and from a failure nobody hears of (`lost`) on, only that no freed key is used.

`Shallow`: the limit on nesting is below the first size of the tree's stack (1024), or the
file opens no more structures than that. It is needed: `dom_push` asks `realloc` for
as many *bytes* as it wants elements, so that what is pushed after the first growth is behind
what was allocated (`json.c:977`).

**Model-checked only.** Liveness (`Termination`, `Terminates`, `PageEnds`), which the
prover does not do; and of the JSON library `AcceptsDocuments` and `PrintsBack`. The
grammar of the first is a recursive operator, out of the prover's reach in any
module. The second parses what was printed, a fold of the parser over the printed bytes; to
prove it the two directions of escapes, of UTF-8 and of numbers would have to be shown
inverse byte by byte through the parser's table, for strings of any length. It stays with TLC.

## Findings

- `checkpoint_two_spiders`: `sf_checkpoint.c` says the file records the lines
  processed; it records the lines *taken*, and with two threads some of them are
  still worked on. A resume with `-l` skips what a killed thread had in hand.
- `sticky_eof`: `sf_include.h:74` says `eof` means the end of the file was read.
  With glibc from 2.28 on, a stream that met the end stays there: the crawler stops
  at the end of the seeds, with the lines it appended itself unread.
- `stale_eof_flag`: a thread whose transfer fails goes to the exit test with
  `eof` cleared; over a limit it leaves so, and the others wait for its flag for ever.
- `table_race`: `sf_isdup` and `sf_uniq_insert` have no lock, and two threads take
  the same text for new.
- `page_second`: only the first spider's list of variables has a node that is never
  removed. In the other threads a nested spider can remove the node its caller's
  handle points to, and the caller's next search for an unset variable never ends.

Modelled, but contradicting nothing written in the repository: preset variables of
a nested configuration go to a table that is dropped at once (`SpawnNew`); policies
are applied in the reverse order of the file, rules in its order (`ConfLists`);
the JSON buffer is never flushed, because `sf_json_flush` is an empty macro; the name
under which a nested configuration is registered is in the pool of a page, so that a
later search compares freed memory (`MayMatch`, `MustMatch` leave either outcome open);
the differences of the url code from RFC 3986 listed with its module; the structures and
keys missing from the tree of `jsonlint` when an allocation fails unnoticed (`lost`).

Contradicting what is written, and left out of `AcceptsDocuments` rather than given a run of
their own: the five forms of files in which libjson differs from what its README says
(`src/libjson/README.md:8,18,19`), listed with `JsonGrammar`.

## Assumptions and limits

- **Memory model.** `src/makefile` asks gcc for no optimisation: an access to a shared variable is a memory access
  in program order, and the model interleaves them. An `int` is read whole.
- **Uninitialised `level`** (`main.c:145`) is on either side of the limit, at will.
- **External code.** libcurl fails or delivers, PCRE matches or not, malloc of small
  objects succeeds (it may fail where `Crawler` says so), thread creation succeeds.
  Reading and writing files never fails.
- **url.txt** holds well-formed lines; configuration files can be read and compile.
- **Feedback** stays in memory and is lost in a restart.
- **Page** is one thread. Two threads that start nested spiders of the same
  configuration share one `sf_spider_t`; that race is not modelled. A token has
  length one, so that what does not fit is dropped a token at a time, where the code drops
  a piece of one; nothing is claimed of a full buffer. `JsonWellFormed` is claimed until a
  duplicate clears the buffer in mid-document. A search with an empty handle (`sf_var_search` falls off its
  end) returns NULL, as the unoptimised build does.
- **HashTable** abstracts `KeyToItem` to a constant assignment of items to buckets.
- **NgxPool** leaves out cleanup handlers (none is registered) and statistics.
- **Urls** are shorter than the 255 bytes of the buffer in `redurceurl`, a captured text
  is not empty (of an empty one `getcontent` copies what lies behind it), and what
  `sf_rewrite_exp` makes fits its buffer.

Not modelled: the copying of `sf_var_exp`, contents of receive buffers, output files
by pattern, offsets of `movetoend`, request headers, url_suffix, the options and file
handling of `jsonlint`; `ngx_md5.c`, logging, iconv and `testpcre` (no part in the
crawl's state).

## Plan

1. *Done*: the crawl with its abstract queue and proofs; kill and restart with failing
   transfers; the hash table; one thread's pages; the memory pool; the links and the
   content of a page; the JSON library.
2. *Done*: feedback and layers, the list of variables, the pages of one thread, links and
   content of a page, and the buffer and the tree of the JSON parser as theorems.
3. Nested spiders of two threads: a module over the shared `sf_spider_t`, the
   variables and the set of configurations, with the race on `starturl` and `pool`.
4. The JSON printer's buffer at its limit: which prefix of a document survives when
   tokens are dropped; two threads that print into it.
5. `Page` with the receive buffers of a retried transfer, composed with `PageText`.
6. `KeyToItem` and the BKDR hash with their widths.
