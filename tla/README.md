# loggi in TLA+

loggi is a log viewer: a background server ingests lines from files, pipes and
containers, keeps the last rows in a ring, indexes them, and streams those that
match a filter to web and command-line clients. This directory holds its
specifications: what the concurrent and the stateful parts do, and what its filter
language means, translated from `src/`, model-checked with TLC, and for the live
tail, storage, the sources, the registry, the configuration and the daemon proved with
TLAPS.

Contents: [the system](#the-system), [modules](#modules), [runs](#runs),
[abstractions](#abstractions), [fairness](#fairness), [proofs](#proofs),
[findings](#findings), [known disagreements](#known-disagreements),
[not modelled](#not-modelled), [plan](#plan).

## The system

```
 file ─┐                             ┌─ subscriber channel ─ pump ─ session ─ client
 stdin ┼─ ingest channel ─ ingester ─┤  (publish, deliver)
 docker┘   (server.go)     Publish   └─ ring, columns, index ─ backlog, history,
                                        (store.go, column.go)  histogram, export, MCP
 server: source registry, profiles, column detectors, idle timer, shutdown
 files:  configuration (user, repo, local); socket, lock, pid file, runtime.json
 commands dial the socket, and start a server if there is none
```

| Component (source) | State | Operations | What makes it correct |
|---|---|---|---|
| Subscriber hub (`store/store.go`) | `subs`, per subscriber: cursor, paused, filter, channel, dropped | Publish/deliver, Subscribe, Pause, Resume, SetFilter, TakeDropped, Unsubscribe, Close | rows once and in order; a matching row is delivered or counted; a publisher never waits for a client |
| Sessions and pumps (`server/session.go`) | subscriptions of a connection, the pump's batch, its stdin sources | one read loop per connection, one pump per subscription, cleanup | backlog and live rows leave no hole; pumps end |
| Row storage (`store/store.go`, `store/column.go`) | ring slots, dictionary and raw columns, presence, bitmaps, tail pairs, promotion counters | Append of JSON and text, evict, promote, dictionary to raw, Materialize | a row reads back as it came until it is overwritten; references counted exactly |
| Interner, blob slab (`store/intern.go`, `store/blob.go`) | slots, hashes, reference counts, free list | intern, retain, release | no slot freed in use, leaked, or found under a stale hash |
| History queries, plans (`filter/plan.go`, `filter/compile.go`, `server/session.go`) | none of their own; head, tail and bitmaps read in turn | queryBacklog, history pages | complete and sound on rows still in the ring |
| File source (`source/file/file.go`) | open file, buffer, `pos`, closed | Run, waitForGrowth, Close | every byte once, in order; truncation noticed |
| Stdin source (`source/stdin/stdin.go`) | buffer, notify token, closed | Push, Run, Close | lines joined over pushes; no wake-up lost; ends drained |
| Ingest channel, ingester (`server/server.go`) | channel of 8192 lines | ingester, processLine | back-pressure only delays; nobody hangs at shutdown |
| Source registry (`server/server.go`, `session.go`, `http.go`) | `srcs`: state, owner, mode, columns; `sessions` | attach, RemoveSource, findOpenSource, broadcast, snapshot | one tail per target unless adds race; every client sees the registry's states |
| Profile activation (`server/server.go`) | active profile and the references it declared | ActivateProfile | sources a profile started go with it, others stay |
| Idle timer, shutdown (`server/server.go`) | timer, session count | armIdle, idleFire, cancelIdle, Shutdown | exits only when idle, and then does |
| Column detection (`server/coldetect.go`, `coldetect/sampler.go`) | sampler per source | observe, closeIfDeadline, finalize | one recommendation, never over a user's choice |
| Configuration (`config/*.go`, `server/http.go`) | three TOML files; the server's copy of the profiles | load, change, write to a temporary file, rename | what was saved stays; the copy is what a restart would load |
| Daemon lifecycle (`client/*.go`, `app/server.go`) | socket, lock, pid file, runtime.json, the port | dial, discover, start, stop, idle exit | one daemon; the files name it |
| Filter language (`filter/*.go`) | none | parse, compile, plan, match | the grammar's tree; the plan selects what the compiled filter selects |
| Export, MCP queries (`server/export.go`, `mcp/tools.go`) | none of their own | scan, runQuery | an answer without holes |
| Docker source, levels and text patterns, frame codec, histogram, command line, web client | little or none | | |

The hard behaviours are: a publisher that reads each subscriber's cursor, paused
flag and filter without a lock common to all of them, while a session resumes,
re-filters or cancels; a ring that overwrites rows readers still walk; slots and
ids recycled under reference counts kept by four different owners; a file that
changes under a reader that knows it only by its size; wake-ups and shutdown;
whole files read, changed and written back by handlers, detectors and commands
that know nothing of each other; processes that find each other by files any of
them may remove.
`PROJECT.json` lists each hazard at its line, with the properties that watch it.

## Modules

| Module | What it is |
|---|---|
| `LiveTail` | abstract: what a live tail promises each subscriber: every row offered is queued in order, counted because the channel is full, or passed over because it is unwanted or the subscriber has gone |
| `LogHub` | detailed: the publisher's loop, the subscriber's flags, the session's handlers and the pump, step by step; implements `LiveTail` |
| `LogHubProofs`, `LogHubLossProofs` | type correctness, delivery order and the refinement; which rows can be missing, for every value of the constants |
| `Slab` | operators on a reference-counted table with recycled ids: interner, blob slab, dictionary of a column |
| `RowStore` | ring rows, columns, bitmaps, tail pairs, promotion and eviction on top of `Slab`, and history queries in four steps |
| `RowStoreProofs`, `RowStoreQueryProofs` | reference counts are exact, rows read back; queries find what they should, for any ring, thresholds and hash function |
| `FileTail`, `StdinPipe` | the two sources, against the program that writes the file and the session that pushes |
| `Ingest` | composes the two sources with the ingest channel, the ingester and the shutdown |
| `IngestProofs` | the bytes of a file and of a pipe arrive once, in order and whole |
| `IdleTimer` | operators on the timer that ends an idle server |
| `Registry` | sources, profiles, announcements to clients, the idle timer and the shutdown, on top of `IdleTimer` |
| `RegistryProofs` | who tails what, what a switch of the profile leaves, what clients are told |
| `ColumnSampler` | operators: what the sampler counts of the fields it sees, and the columns it recommends |
| `Settings` | the configuration files, the server's copies of them, and the columns of sources, chosen or detected, on top of `ColumnSampler` |
| `SettingsProofs` | what was saved stays, what was chosen stands, a restart shows what was shown |
| `FilterParser` | operators: tokens and parser, from a text to a tree |
| `FilterEval` | operators: the compiled matcher and the query plan of a tree |
| `Filters` | typing and asking filters: history paging, MCP queries and export over a moving ring, on top of the two |
| `Daemon` | servers and commands as processes, and the files they find each other by |
| `DaemonProofs` | the lock keeps one daemon, and the files name it |
| `MC…` | instances for TLC |

**LogHub.** `rows`, `lines`, `stop` are the ring (its append order), the lines read
and the progress of `Shutdown`; `pub` is the publisher's program counter and the
locals of `publish`; `rd[s]` the session goroutine that owns subscription `s`,
with the locals of the handler it is in; `sub[s]` the `Subscriber`; `chan[s]` its
channel; `pump[s]` the pump. Each atomic load or store and each lock-protected
section of `publish`, `deliver`, `Subscribe`, `Resume`, `Unsubscribe` and
`queryBacklog` is an action: `PubSnapshot`, `PubSkip`, `PubPick`, `PubDeliver`,
`PubAdvance` follow the loop at `store.go:586-610`, `ResumeCursor` to
`ResumeUnpause` the body of `Resume`, `QueryHead`, `SendBacklog` and `StartPump`
the handler of a subscribe message. Everything queued stays in `chan[s].queued`;
`pump[s].taken` and `sent` cut it into sent rows, batch and channel, so that order
and loss can be stated.

**RowStore.** One record `db` holds the storage; `kept` remembers every row as it came
in and is what `ReadBack` compares with. `AppendJson` and `AppendText` are the whole of
`Append` under the store's mutex: eviction of the slot, the level chosen from the
fields, a cell in a column, or a tail pair and perhaps a promotion, per field. A field
is a string or a literal (`Literals`: number, null, object). A column keeps only the
text of a literal (`ColumnText`, `store.go:314-324`) and materializes it as a string
(`store.go:698-702`), a tail pair keeps the value: the number 5 reads back as 5 while
its key is rare and as "5" once the key has a column. `Shown` is what a row gives back
and `Scalar` what filters compare (`formatScalar`); `ReadBack` asks for the value of a
pair and for the text of a column (`Reading`). The empty value is not told from an
absent one. `EvictCells`, `PromoteToRaw` and `EvictRow` give what the loops of the code
add up to: how many references to each text go, and which cells are left. A query reads
head, then tail, then the plan's bitmap, then the rows, with appends in between, as
`queryBacklog` does.

**Ingest.** `FileTail` follows `Run` and `waitForGrowth` system call by system call,
including `bufio`'s read-ahead. `StdinPipe` separates what happens under the mutex
from the notify that follows it and from the select the goroutine comes to later.
Both send to `ingest`.

**Registry.** `srcs` is `Server.srcs`, with state `"none"` for an id that is not in
the map. A request is served by an element of `Workers`, whose record `work[w]` holds
its locals: `Find` (the search for an open source and the new id), `Attach`, `Spawn`
and `Announce` are `addFileSource` and `attach` up to the broadcast of the handler;
`Delete`, `ArmAfterRemove` and `TellRemoved` are `RemoveSource` and its broadcast;
`LockActive`, `NextDrop`, `NextAdd` and `Activated` are `ActivateProfile`, which uses
the former for each reference. `goroutine[id]` is the goroutine that `attach` starts,
`client[c]` a connection with what it has been told. `past` remembers what excuses a
state that is not ideal: a source a later profile has inherited, a target two
workers raced for, a source whose announcement missed a client or came too late.

**Settings.** A file is a function from items (single settings, the autostart list,
profiles, column preferences) to values. A worker is a handler, a command of another
process, the ingester or the ticker; each change is `Load`, then `Save` of the whole
file with the edits in it, then, for some, a copy in memory (`CopyProfiles`,
`CopyPin`) or an event (`Announce`). `Encode` is what the TOML encoder does to
settings the file did not have. `rec[s]` has the columns and the detector of a source:
`TakeLine` and `Observe` are the two halves of `processLine` around `srcMu`, `Tick`
the deadline, `Install` and a `"recommend"` save `finalizeRecommendation`. `Restart`
starts the server anew from the files, `Fail` is a file that cannot be read or
written. `past` remembers which overwriting and which races have happened.

**FilterParser, FilterEval, Filters.** A text is a sequence of symbols, a symbol a
character or a whole name. `Tokens` and `Parse` follow the tokenizer and the recursive
descent of `parser.go`, quoting, runs of punctuation and the tolerance for an unfinished
`AND` included; `Matches` is `compile.go`, `PlanOf` and `Selects` are `plan.go` with
its candidates and residuals. A `/.../` that the tokenizer takes for a regular
expression loses the backslash before a slash (`Slashes`) and must compile (`Compiles`),
or the text does not parse. `Filters` types texts word by word; `Means` gives the rows
that README and help promise for the documented forms of a term, each beside the line
it is from, and `OrMeans` what the grammar makes of them. One that parses may
be sent; then rows arrive (`Publish`) while queries read tail, head and plan in the
order of the code (`HistoryTail` … `HistoryPlan`, `ToolPlan`, `ToolRange`,
`ExportRange`), scan and answer, and `client` pages back from `BeginPaging`.

**Daemon.** `server[s]` is a process; its steps are the system calls of `Start`
(`RemoveSocket`, `ListenUnix`, `ListenTCP`, `WritePid`, `WriteRuntime`) and of
`Shutdown` (`CloseSocket` to `RemovePid`, gone through twice when the idle timer
stops it: its callback and `runServer` both call it). `cmd[c]` is a command in
`Dial`: `DialFirst`, `Discover`, `DialOther`, `Flock`, `Redial`, `RemoveStale`,
`Spawn`, `Poll`, `GiveUp`, and then what it does with the connection. A file holds
the number of the server that wrote it. `past` remembers daemons whose command
stopped waiting for them, servers whose socket another process removed, and servers
that lived with one of another environment or one that was shutting down.

**TypeOK.** Each state module defines `TypeOK`, the shape of its variables. Those of
`LogHub`, `Ingest` and `Daemon` are proved; that of `Registry` but for the number of
timers, which is a bound of the instances; of that of `Settings`, whose values have no
type in the proofs, the shapes of files, records and requests. That of `RowStore` is
proved; that of `Filters` documents the variables.

## Runs

| Run | Instance | Shows |
|---|---|---|
| `hub_live` | 4 lines of 2 kinds, ring of 2, channel of 2, batch of 1; filter updates, backlog of 2, cancellation | `LiveOrder`, `NoSilentDrop`, `BacklogSeam`; the hub implements `LiveTail` (`TailSpec`) |
| `hub_pause` | 3 lines, ring of 2, channel of 1; pause and resume anywhere | what a Resume can lose or repeat is exactly what was appended or overwritten while it ran: `OnlyExposedRowsVanish`, `OnlyExposedRowsJump` |
| `hub_ends` | 3 lines; cancellation and shutdown, with fairness | `PublishReturns`, `QueuedIsSent`, `PumpsEnd` |
| `hub_resume_lost` | 2 subscriptions, 3 lines | violation of `NoSilentDrop`, see findings |
| `store` | 5 rows, strings and an object, in a ring of 2; dictionary limit 1, four hashes for nine texts; either of two queries at any moment | `RefsExact`, `ReadBack` through eviction, dictionary to raw, promotion, hash collisions; `QueryExact`: no live row missed, none invented |
| `ingest` | a file with 2 text bytes and up to 3 bytes in all, one truncation or move; a pipe with 3 bytes in chunks of 1 or 2; channel of 1 | `ReadOnce`, `FollowsFile`, `JoinsParts`, `EndsDrained`, `NoticesTruncation`, `ArrivesInTheEnd`, `SourcesReturn` |
| `file_parts` | a writer that flushes in mid-line | violation of `ReadOnce` |
| `registry` | 2 workers, 2 targets, 2 profiles that share one, 1 client, in 5 scenarios | `NoFalseEnd`, `ListsAgree`, `OnlyRacesDouble`, `ManualSurvives`, `SwitchCleansUp`; with fairness `ExitsWhenIdle` |
| `registry_twice` | 2 workers that add one target | violation of `OneTailEach`, see findings |
| `settings` | 2 handlers, 2 settings and the profiles `default` and `errors` in 3 files, 2 sources of one name, 3 requests, in 9 scenarios | `EditsKept`, `PinsStand`, `RestartShowsTheSame`, `ColumnsSteady` |
| `filters` | every text of 5 terms and connectives, of 3 documented forms and connectives, of 4 characters and brackets; filters of 2 words asked over 5 rows in a ring of 4, one row an answer | `ReadsAsDocumented`, `GroupsCompose`, `QuotedIsExact`, `PlanMatchesFilter`, `GlobsMatch`, `AnswersExact`, `PagingReachesAll` |
| `daemon` | 2 commands, 3 servers, 3 environments, in 7 scenarios | `OneDaemon`, `FilesFollow`; with fairness `CommandsReturn` |

Why the bounds are enough. The hub's races need one publisher, one subscription
and one row more than the ring or the channel holds; rings and channels of 1 and 2
are full, wrap and overwrite rows within 3 or 4 lines. Subscriptions share nothing
but the ring and the publisher, which serves them in any order; two of them are in
the violation run, and the proofs hold for any set. In the row store, 5 rows in a
ring of 2 overwrite every slot, one of them twice, a dictionary limit of 1 makes the
second text of a key force the change to raw, with queries before, during and after it,
and promotion takes two rows. `QueryExact` is about values that share their hash with no
other text: the index looks a value up by its hash alone, and of two that collide only
one has an entry. In `ingest`,
a line of one character, empty lines, and one cut let the file after a truncation
be smaller than, equal to and larger than what was read of it, with one more read
between any two of these steps. The file and the pipe are attached one at a time
(`Attachments`): they meet only in the channel, and a channel filled by another
source looks to the sender like one the ingester is slow to empty, which the
instance has.

All that can happen around the registry at once is out of TLC's reach, so each
behaviour of `Registry` is one of a few scenarios, fixed in its first state: which
kinds of request there are and how many, how many connections, whether the timer
runs, whether sources have lines and end by themselves. The five of `registry` are
three requests of any order among activate, add and remove; two with sources that
end; two activations with a client that connects at any moment; two requests of the
other kinds (add, autostart, removal by session or HTTP) with a client and sources
that end; one request, a client, lines, ends and the idle timer. Two workers and
two requests at a time are enough for each race; three activations are what a source
that changes hands needs to be left over or to be removed wrongly.

The scenarios of `settings` put together what writes the same file: profiles saved by
handlers and commands; settings, autostart and profiles over a restart; the same with
failures; pins and attachments over a restart; settings and `profile use`; pins against
detectors, with a longer window, failures or another writer; profiles that handlers and
commands save over a restart; and, for the sampler, three lines out of five, which have
aliases, nested and dotted keys, a field found at two depths, identifiers and a long
text. Losing a saved item takes two workers that overlap, and a third request shows that
a later save restores it. `DistinctCap`, 3 there, is not reached by three lines: that
the columns depend on the order once a field has more values than the sampler keeps is
excluded from `ColumnsSteady` and not shown.

In `filters`, five words hold two operators and three operands, the least that
tells the groupings apart; the characters cover each branch of the tokenizer within
four. `MCDocumented` has 17 forms of a term that README or help explain; three words are
each of them alone, negated, in a group and beside each other, and four rows tell them
apart: one without the field, one with text around it. One row an answer makes every
second match the next page's, and the fifth row overwrites the first between any two
reads.

In `daemon`, two commands are what a lock needs; three servers let one of them fail, be
killed or go idle and be replaced while another environment has its own. The scenarios
are ordinary use, a server started by hand beside it, `stop` with one kill or
interruption, two servers by hand, a daemon that may take longer than a command waits,
another `TMPDIR`, and another configured address.

Every property of a passing run has a mutant in `PROJECT.json`: a definition, named
in a comment as a bug variant, that makes TLC find the property violated when it
takes the place of the code's.

## Abstractions

* A row is its kind, and a filter the set of kinds it accepts, in `LogHub`; an
  overwritten row is `Gone`, which a filter such as `level != x` may accept.
* Reading the filter and matching one row is one step; a filter update in between
  has the same outcomes as one before it.
* The readers of the subscriptions of one session are independent goroutines,
  where the code has one read loop: every order of the code is among the model's.
* `deliver` loads `dead` and selects in one step, but when an Unsubscribe comes
  first both outcomes of the select remain possible. The CAS on `dead` and the
  close of `done` are one step. So are `TakeDropped` and the materializing of a
  batch, and the scan, `Tail` and materializing of a backlog.
* A client that disconnects is an Unsubscribe (`cleanup` does that); a second
  subscribe under the same id is an Unsubscribe and another element of `Subs`.
* `RowStore`: a literal is a value of its own; `Bytes` and `Printed` give its JSON text
  and what `formatScalar` makes of it. The fields of a JSON row arrive in any order, as
  Go's map iteration has it. A loop that releases references frees ids in the order it
  meets them, which depends on map iteration; in the model those freed together join the
  free list in an arbitrary order, and `live` is having references. The index of a
  column is a set of pairs of an id and a sequence number. The arena's bytes, timestamps
  and source ids are left out. `level` and `msg` stand for the well-known columns.
  Sequence numbers in bitmaps are taken modulo `SeqWidth`; no instance reaches it, as no
  store reaches 2^32 rows soon.
* `Ingest`: a byte is a number of its own or the newline. `bufio` takes everything
  there is in one read (its buffer is 1 MiB). A failing `Seek` or `read` is left out.
* `Registry`: a target is the kind and the name of a source; a profile declares the
  same targets throughout, without arguments that rename one. `"closed"` and
  `"error"` are one state. Listing the sessions and writing to them is one step, and
  so are the two reads of `shouldIdle`, and closing a source, cancelling it and
  arming the timer in `RemoveSource`. Stdin sources do not take part. Time is left
  out of the timer: it may expire as soon as it is armed. In scenarios without the
  timer it is never armed. After `"crashed"` (a source attached when `Shutdown` has
  set `srcs` to nil) nothing happens.
* A published line is appended to `stored`: what Publish does with it is the other
  two models'.
* `Settings`: a value is written by one request only, so that a lost edit shows; a
  profile counts as one item, and so does the autostart list. A rename is one step and
  a crash leaves the file before or after it: the temporary file is not modelled.
  `AskCliUse` looks the profile up and reads the file in two steps. A text in an entry
  has its identity, length and look. The scores of fields, which have a logarithm, are
  compared as products of powers (`Outscores`), and their shares as integers.
* `Filters`: names and keywords are single symbols, so a name is not cut in two.
  A regular expression matches where its pattern stands as literal text; its other
  syntax and the flag `i` are left out, and `Compiles` rejects what regexp rejects of the
  symbols there are: a repetition of nothing, an open group or class, an escape at the
  end, a range upside down.
  Digits make small numbers; a time is a number. A row is a function from paths to
  texts; sources, levels and fields are paths alike. A scan is one step, with any subset
  of the rows overwritten before it that the scan may or may not have seen still
  there. The time window of a tool's query is a residual like any other and left out.
* `Daemon`: a connection is the number of the server; a process that ends closes its
  descriptors, so its port is free and its lock is dropped, and the file of its socket
  stays. Three seconds are over when the daemon cannot be starting any more, except
  in the scenario of slow starts. A source keeps a server busy for good. Pids are not
  reused.

Bounds on behaviour are constants: `MaxLines`, `MaxRows`, `MaxBytes`, `MaxSize`,
`MaxCuts`, `MaxRewinds`, `MaxPushed`, `MaxIds`, `MaxServers`, the lengths in
`Vocabularies` and the numbers in `Scenarios`; `MaxTimers` is no bound on behaviour but
on what `TypeOK` allows. Runs whose system simply has nothing left to do when a bound is
reached say `CHECK_DEADLOCK FALSE`.

## Fairness

`hub_ends` and `ingest` assume weak fairness of each goroutine's own steps: the Go
scheduler runs what is ready, the client reads its frames, the ingester takes
lines. `Ingest` adds strong fairness of a source's `GiveUp`: a select whose context
is done each time it is reached takes that case sooner or later, even if the other
case is ready too. `Registry` assumes that
a request once taken up goes on, that a source told to stop does, that a session
whose read loop ends is taken apart, and that a timer expires; with that a server
that stays idle stops. `Daemon` assumes that a server that has not been killed and a
command go on; not that a daemon is killed, goes idle or is stopped. A command that
waits for a daemon that will never answer gives up because its deadline passes.
Nothing is assumed of clients, of the program that writes a file
or of whoever removes a source or stops the server, except that a Push that holds
the mutex ends and a RemoveSource that has begun goes on.

## Proofs

Eight modules, for every value of the constants: any number of subscriptions, rows,
texts, sources, requests, processes, bytes and lines, where a run has two or three. Each
starts from the assumption named in the module it is about, which states what the
constants are (capacities positive, sets disjoint, a sentinel outside its set, at least
one target and one environment), and goes the same way: an inductive type invariant,
then an invariant that says why the property holds, kept by each action. Where a theorem
needs a condition on the constants, it says so as an `ASSUME` of its own.

**The live tail** (`LogHubProofs`, `LogHubLossProofs`).

* `TypeCorrect`: `Spec => []TypeOK`. Inductive with `TypeInv`, which adds that the
  pump's window lies inside the queue (`Windows`) and that the publisher has a
  subscription in hand exactly where it uses one (`PubTarget`).
* `JumpsAreExposed`: `Spec => []OnlyExposedRowsJump`. A row out of order in a
  client's queue was appended while that subscription resumed, or the store was
  closing. `OrderInv` makes it inductive: the publisher works on the last row
  (`PublishesLast`), a subscriber it has not served yet has a queue that ends below
  that row unless a Resume saw it (`Fresh`), the walk of a Resume adds rows in order
  and below its cursor (`InOrder`).
* `LiveOrderHolds`: without resume and shutdown (`Undisturbed`) nothing is ever
  exposed, so delivery is in order and without repetition.
* `Refinement`: under the same condition `Spec => TailSpec`, the hub implements
  `LiveTail`. The mapping shows the publisher's hand: `offered` is the row that `publish`
  has picked for a subscriber and not dealt with, `wanted` that row if the filter of the
  moment accepts it. An offer ends in one of three ways, so a row refused while the
  channel has room, or dropped without being counted, is no step of `LiveTail`. `RefInv`
  adds that the channel is within its bound and the batch within its size; each step of
  the hub is shown to be a step of `LiveTail` or a stutter (`Quiet`).
* `OnlyExposedRowsVanishHolds`: with every operation allowed, a row that a subscriber
  was owed and did not get was announced as dropped, or a Resume overlapped with its
  publication or overwriting. `LossInv` counts: the rows that the cursor has passed and
  the queue has not (`Missing`) are no more than those announced (`Lossless`). That the
  cursor never passes a row otherwise is `FollowInv`: a subscriber that is not paused
  has been passed over by no row but the one the publisher is at (`Served`); a Resume
  that has walked to the head it read leaves out exposed rows only (`CaughtUp`), for
  what is appended or overwritten beside its walk is exposed (`WalkExposes`).
* `NoSilentDropHolds`: without Resume nothing is exposed, and `LossInv` alone remains.
  The condition is what the run `hub_resume_lost` breaks.
* `BacklogSeamHolds`: nothing falls between backlog and live tail. `SeamInv`: the
  backlog is without holes from its oldest row to where the live tail begins to be
  owed, and that is no later than the head the backlog was read at. Under the
  condition that clients do not resume and follow from now on (`FromNow`): the wire
  format says "0 = live tail from now" (`wire/wire.go:40`) and no client in the
  repository sends anything else (`web/src/lib/ws.ts:6` only declares the field). A
  client that asked for a number ahead of the head would be owed rows from there only.

`Undisturbed` is needed, not convenient: with resume the order can be
broken (`OnlyExposedRowsJump` says how), and after Shutdown closes the store a
publish announces the row with sequence number 0 again (`store.go:208`).

**The store** (`RowStoreProofs`, `RowStoreQueryProofs`), from `StoreAssumption`: the
ring has a size of at least one, there are finitely many keys, rows are made of the
texts there are. The hash function is any function, two texts that collide included.

* `StoreTypes`: `Spec => []TypeOK`; a dictionary never holds more than `MaxDict` values.
* `RefsStayExact`: every reference count of the interner, the blob slab and the
  dictionaries is the number of references there are.
* `RowsReadBack`: every live row reads back with the text of every field as it was
  appended, and with its JSON value too where no column has it.
* `QueriesStayExact`: what a history query has found when it ends is right (no live row
  that never had the value and, on a well-known column, every live row below its head
  that has it), whatever is appended, overwritten or promoted between its reads of head,
  tail, bitmap and rows. This one also assumes `MaxRows <= SeqWidth`: there are no more
  rows than the sequence numbers of 32 bits in the bitmaps tell apart (see "Known
  disagreements").

`StoreInv` is inductive for the first three. `RefsExact` and `ReadBack` need each other
and something more, and that is `DbOK`. Of each slab (`SlabOK`): an id on the free list
has no references and is there once (nothing is needed of `byHash`, for a look-up
compares the text). Of each column (`ColOK`): the cells of a dictionary column name live
entries, every entry has as many references as cells, and other columns have no entries.
Of the interner and the blobs (`InternExact`, `BlobsExact`): a count is the sum, over
columns and over slots of the ring, of what refers to the id there. Sums are the sizes
of unions of tagged sets (`Spread`), so that a change in one column or one slot changes
the count by as much as it changes there (`ColChange`, `SlotChange`), and no induction
over columns or slots is needed. A text that is in use before and after a change reads
the same (`Same`): that is why nothing but the slot of the row changes.

An append is a chain of such changes, and `Filled` is what each leaves behind: `DbOK`,
the slot showing the fields so far, every other slot showing what it did. The fields of
a JSON row come one at a time, by a recursive function; that they all arrive is proved
by the least number of fields after which something would be wrong (`LeastUpTo`), again
without induction over data. At the end, rows in a window of `Cap` have slots of
their own (`ModInj`).

For queries `StoreInv` says nothing of the index, so `IndexInv` does, for each
dictionary column (`IndexIs`): `byHash` leads from the hash of a text to its entry if
the text shares the hash with no other; every sequence number under an entry is of a row
that had that text under the key (`ToldOf`, which only grows); every cell is under its
entry with the number of its row. The second part says "had", not "has": a cell set
twice leaves the row under the first value too. `Apart` adds that a key is not both in a
pair and in a cell of a row, so that what a filter reads first is what the row shows.
Each operation is shown to keep `IndexIs` as it was shown to keep the counts; a key
promoted starts with an empty index, and a column turned raw has none any more.
`QueryInv` then says what a query may rely on at each step: its head is not ahead of the
head, its tail not ahead of the tail, and the bitmap it took (`FoundExact`) has only
rows that had the value and, on a well-known column, all that are live. Appends keep it
because a row appended later is past the head of the query, and one overwritten is no
longer live.

**The sources** (`IngestProofs`). A sequence of lines is given by the places where
they end, and the k-th of a set of places by counting, so that one line more is one
place more; that is how a statement about all bytes is proved without induction over
them (`Least`: a set of numbers has a least one, from the library's well-founded order
on finite sets).

* `TypesHold`: `Spec => []TypeOK`.
* `ReadOnceHolds`, `FollowsFileHolds`: of a file every byte is read once and in order,
  also when it is cut; while it is not cut, what was read is its first lines. The key
  is `Counted`: `pos` is exactly the number of bytes handed on, the offset is that plus
  what is in the buffer, so a size below `pos` is a cut and nothing else. `OnceInv`
  then has the lines handed on, the buffer and what lies ahead in the file in one
  rising order, and `FollowInv` knows the place (`At`) of the reader in the bytes.
  Both assume `WholeLines`: who writes the file ends every write with a newline. That
  is the instance of `ingest`, and without it `Counted` fails by the one byte that the
  run `file_parts` shows and `ReadOnce` is violated; the condition is the finding.
* `JoinsPartsHolds`, `EndsDrainedHolds`: without a condition, a pipe's lines arrive
  whole, once and in order, and a source that ends by itself has handed on all.
  `PipeInv` is `At` for what was pushed, with the buffer at its end.

**The registry** (`RegistryProofs`), all with every kind of request, any overlap, and
the timer and shutdown among the steps.

* `NoFalseEndHolds`: an id nobody has attached yet is one nobody has heard of
  (`Unheard`), and an end that will be announced has happened (`EndsTrue`).
* `OnlyRacesDoubleHolds`: two open sources of one target come from a race only. A worker
  between its search and its attachment that has company there is in a race that is
  named (`TailInv`). Without races it is `OneTailEach`, which the run `registry_twice`
  shows to be false.
* `ManualSurvivesHolds`, `SwitchCleansUpHolds`: from `CleanInv`: `activeMu` has one
  holder and its request drops only what a profile owns (`SwitchInv`); a profile has
  one open source of a target at most (`OneOwned`); while a switch runs, what the old
  profile started and the new one does not declare is in the list of what is to go
  (`Dropping`).
* `ListsAgreeHolds`: until the shutdown a connected client lists what is open, or
  somebody is on the way to tell it (`ListInv`); a goroutine is started once
  (`SpawnInv`).

**The configuration** (`SettingsProofs`). Values are untyped there: an item may hold
anything.

* `EditsKeptHolds`: a worker between its read and its write has in `missed` all that
  others have changed since, and of the rest it holds what the file has, zeros apart
  (`ReadInv`). `TypeInv` says of every kind of request which section of which file it
  edits (`Doing`), and that settings are changed in the user's file only (`Mild`).
* `RestartShowsTheSameHolds`: from `ShowInv`: what is about to be copied is in the file
  (`CopyInv`), a profile in memory is the effective one or a copy is on its way
  (`NamesShown`), settings are those of the start unless the file says otherwise
  (`FieldsShown`).
* `PinsStandHolds`: `ChoiceInv`: once the last choice for a name has been made and
  nothing has raced with it, it is in the file and in every source of that name, no
  detector is left, and nobody is on the way to give them other columns (`Stands`).

**The daemon** (`DaemonProofs`).

* `Typed`: `Spec => []TypeOK`.
* `OneDaemonHolds`: `DaemonInv`: whoever is between flock and unlock has the lock of its
  directory (`LockHeld`); a daemon of that directory listens there or the command that
  started it still waits for it, with the lock (`Accounted`); and so whoever is about
  to start one, having dialled under the lock, has seen that there is none (`Cleared`).
* `FilesFollowHolds`: `FilesInv`: two processes never have one port (`OnePort`), an
  undisturbed server lives with none of another environment and none that stops
  (`Alone`), and what it has written since names it (`Named`).

What the attempts corrected. `ReadInv` was not inductive as `missed` stood: a save that
overtakes another one has read an item before that one changed it, so `Save` now passes
on what it had missed itself. `Lossless` failed after a filter update for a client that
asked for a `from_seq` ahead of the head: what it is owed begins at its cursor, not at
the head, and `UpdateFilter` of `LogHub` says so now (rows below are delivered as they
come, and skipped by a walk, but not owed). Both were wrong in the history the
properties look at, not in what the code does.

Only model-checked: `ColumnsSteady` of `Settings`, where the sampler folds fields into
counts; all of `Filters`, since `FilterParser`, `FilterEval` and `Filters` have
`RECURSIVE` operators, for the descent into a text or a tree, and the prover has no SMT
in their reach; no other module has one. Liveness and `ENABLED` are out of reach
altogether: `PublishReturns`, `QueuedIsSent`, `PumpsEnd`, `NoticesTruncation`,
`ArrivesInTheEnd`, `SourcesReturn`, `ExitsWhenIdle` and `CommandsReturn` are TLC's. What
a fold computes for every input needs induction over data, for which the library's
theorems cannot be instantiated; the way round it of `IngestProofs` and `RowStoreProofs`
is to say with sets and counts what a recursion says.

## Findings

Each is a run that TLC ends with a counterexample.

* `hub_resume_lost`: `Resume` reads head, walks, and clears `paused` afterwards. A
  row published in between is skipped as paused, advances the cursor, and is
  neither delivered nor counted.
* `file_parts`: a last line without its newline is emitted and counted with one
  byte more than it has, so that `pos` exceeds the size of the file. The next poll
  takes that for a truncation and the whole file is ingested again, with every
  poll, until the line is finished.
* `registry_twice`: two workers look for a source of the same target, find none, and
  both attach one (`server.go:540`): `findOpenSource` and `attach` are two critical
  sections. The comment at `server.go:601` has the search there "so re-clicking Add or
  racing reconnects don't spawn parallel tails of the same target".

## Known disagreements

Properties that a document or a comment of the code states and the code does not have.
They are defined in the modules beside those that hold, and in no run; TLC finds each
violated under the configuration named, with the property in place of that run's.

* `QueryExact` of `RowStore` when more rows arrive than `SeqWidth` (with `SeqWidth = 4`
  in `MCRowStore.cfg`): a bitmap keeps 32 bits of a sequence number, "ring fits in
  uint32 ranges practically" (`column.go:148`). The ring does, but `QueryRangeBitmap`
  (`store.go:908`) compares the truncated numbers with whole ones, so that after 2^32
  rows a query by the index finds nothing new. The run of `QueryExact` and its proof are
  about the rows before that.
* `IndexExact` of `RowStore`: a cell set twice in one row (the level from the fields,
  then the level an alias gives, `store.go:262`) leaves the row in the bitmap of the
  first value. `MCRowStore.cfg` with `JsonRows <- MCAliasRows`, `Asked = {}`,
  `MaxDict = 2`.
* `FilterSeesWhatIsShown` of `RowStore`: once a key is promoted, filters look only at
  its column, and rows kept from before show a value that no filter on it finds
  (`store.go:338`).
  `MCRowStore.cfg` as it is.
* `NestedPathsReach` of `RowStore`: `@msg_batch_conf.ConsumerQos:>=50` filters by a "nested
  JSON path" (`README.md:188`), but an object whose key has a column is text there, which
  no path leads into, and reads back as a string (`store.go:314-324`, `698-702`).
  `MCRowStore.cfg` as it is.
* `NothingLeftOver` of `Registry`: a source of profile A that B declares too stays
  through the switch and keeps A as its owner; the switch from B to no profile removes
  only what B owns, and no later switch removes it (`server.go:383`). `MCRegistry.cfg`
  with `Scenarios <- MCProfileSwitches`.
* `SavesKeepOthers` of `Settings`: saving or deleting a profile "preserves all other
  top-level config sections" (`config/write.go:21`), but settings the file did not have
  are written as zero, and the zeros win over the values of an earlier layer.
  `MCSettings.cfg` as it is.
* `ReadsAsDocumented` of `Filters`, once the forms `MCContradicted` are among those that
  mean something: `/regex/` is a "regex on msg" (`README.md:192`), but a regular expression
  is read after a colon only (`parser.go:144-156`) and elsewhere the slashes are part of
  the text looked for; `service:auth*` is a "prefix match" (`HelpModal.svelte:78`), but a
  star at either end asks for a substring; `-*health*` is a "negated substring"
  (`HelpModal.svelte:81`, `128`), but the minus sign is taken into the run of
  punctuation and the text looked for begins with it (`parser.go:215-222`). Each of the
  three alone violates it. `MCFilters.cfg` with `Means <- MCDocumented`.
* `ToolAnswersMatch` of `Filters`: a query of the tools "returns matching seqs"
  (`mcp/tools.go:332`). A row appended after the plan was compiled and before head was
  read is selected by candidates that do not know it, and by their complement under a
  negation; one overwritten during the scan by the bit its predecessor left.
  `MCFilters.cfg`.
* `GlobTakesAny` of `Filters`: wild parts "greedily consume any-substring"
  (`compile.go:166`), but the literal after one is taken where it stands first, so that
  `*x` does not match `xx`. `MCFilters.cfg`.
* `PlanCovers` of `Filters`: a plan's candidates are a super-set of the matching rows
  (`plan.go:8`), but an equality with a column that has an index looks its value up as
  it is, where the compiled filter ignores quotes, and finds nothing for an empty value.
  `MCFilters.cfg`.

Not stated as properties, but visible in the models:

* Registry: a removal by HTTP is not announced to the sessions, a source that ends
  while "open" is being announced is listed as open for good, and an event between a
  session's snapshot and its registration is missed (`ListsAgree` excuses these by
  name); the callback of an idle timer that has been cancelled clears the pointer to its
  successor (`server.go:888`, under the comment that asks whether it was cancelled) and
  shuts the server down even if a session arrives after its last look; a source
  attached after that ends the process.
* Sources: a file moved away and created anew is read again from the start of the old
  file, which is still open (`file.go:97`); a pipe that ends in mid-line leaves a buffer
  that is never empty, so that its source stays open until it is removed
  (`stdin.go:88`, against the comment at `stdin.go:36`).
* Configuration: an edit is lost when another save overlaps it (`EditsKept` says that
  this is the only way); a recommendation on its way when the user pins columns
  overwrites them, in memory and in the file (`PinsStand` names the races); the list of
  profiles the server keeps is wrong after two saves of one profile that overlap, after
  a save that a later file hides, and until a restart after a command has changed it.
* The live tail: a publish after the store is closed gets sequence number 0 again
  (`store.go:208`), which `OnlyExposedRowsJump` excuses.
* Filters: a range that begins with a negative number, `k:[-1..3]`, does not parse,
  though the grammar in `parser.go` has it.
* Daemon: a second `loggi server` by hand removes the socket of the running one and
  then fails on the port, so that commands no longer reach the server by its socket; an
  old `runtime.json` hides the configured address from `loggi web`
  (`sources_cmd.go:171`); a signal that arrives before the server listens for signals
  kills it with its files in place; `Dial` may return a connection to a daemon that then
  fails on the port; a `Shutdown` removes the files of whoever has written them last, a
  newer server's or one's of another environment among them (`server.go:512`,
  `past.disturbed` excuses these).

## Not modelled

The Docker source and the frame codec (I/O against a client library, encoding
without state); tables and patterns of levels and text lines (data); histogram, debug
pages and the other MCP tools (read-only scans and lookups); `server status` and a port
chosen by the system; rates, and the stdin sources of a session; arguments and output of
the command line; the web client, whose messages are the inputs of `LogHub`'s reader
and whose way of combining filters is in `GroupsCompose`.

## Plan

Done: the live tail, storage, sources, registry, configuration and columns, the filter
language, the daemon; the safety properties of all but columns and filters proved.
Left, in this order:

1. An abstract registry (what is open, and who is told) that `Registry` implements.
2. The stdin sources of a session, and a profile edited between two activations:
   `Registry` and `Settings` composed.
