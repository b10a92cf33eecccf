# spark-dashboard in TLA+

TLA+ models of spark-dashboard, TLC configurations that check them on small
instances, and TLAPS proofs of what holds for any number of engines, clients
and documents. Paths below are relative to the repository's root (`src/` there
is the Rust server, `frontend/src/` the React client); comments in the modules
and `PROJECT.json`, which maps every definition to the lines it models, write
them with one `src/` more.

    tlc -workers 2 -config engine_safety.cfg MCEngineLifecycle.tla
    tlapm EngineLifecycle_proofs.tla

## 1. The system

spark-dashboard shows one host: its hardware, the LLM inference servers
("engines") on it, and a configurable grid of panels. A Rust server collects
and publishes; any number of browsers display, and share one stored
configuration.

| component | state it keeps | operations | talks to |
|---|---|---|---|
| **engine collector loop** `src/engines/mod.rs` | a map from (type, endpoint) to `EngineState`: failures, ages, status, model cache, PIDs, container; the published list | a detection pass every 5 s, a poll tick every 1 s (probe, model, metrics, snapshot per engine), removal after the grace period | detector, adapters; publishes to `shared_snapshots` |
| **detection** `detector.rs` | none beyond a pass | process scan, Docker scan, merge, probes | the host's processes, Docker, the engines; the loop |
| **adapters** `vllm.rs`, `sglang.rs`, `llamacpp.rs`, `ollama.rs`, `model_info.rs` | warmup tracker, rate state; metrics latch, role, drafter, loaded models, the hub's answer | `health_check`, `get_model_info`, `get_metrics` | the engines and the model hub, over HTTP |
| **warmup and rates** `warmup.rs`, `common.rs`, `histogram.rs` | mode, baseline, cursor; previous reading, running mean | `observe`, `reset`, percentiles and goodput | the adapters |
| **configuration store** `config_store.rs` | one file, temporary files, the read-only flag | `new`, `load`, `store`, `delete` | the file system |
| **configuration API** `server.rs` | none | GET, PUT, DELETE `/api/dashboard` | store, browsers |
| **log viewer** `logs.rs` | registry of streams, one broadcast channel each | subscribe, stream, deregister | Docker, browsers, `shared_snapshots` |
| **metrics collector, socket** `metrics/`, `ws.rs` | previous samples; a channel of 16 | sample, broadcast, send | the kernel, NVML, `shared_snapshots`; browsers |
| **configuration in the browser** `useDashboardConfiguration.ts`, `PageBar.tsx`, `PageConfig.tsx`, `GridPageEditor.tsx`, `load.ts`, `client.ts` | the document shown, notices, the open edit session, one busy flag per control | load, save, reset, page edits, navigation, edit sessions | the API, the URL |
| **log viewer in the browser** `logStreamStore.ts` | a connection per endpoint, listeners, lines | subscribe, release, reconnect | `/ws/logs` |
| **metrics in the browser** `useMetrics.ts`, `metricsHistoryStore.ts`, `circular-buffer.ts` | socket, pending snapshot, ring buffers | receive, flush, reconnect | `/ws` |
| **rotation and selection** `useEngineRotation.ts`, `selection.ts` | the clock, the selected engine | step, pick, hold | panels |
| **grid, pages, schema** `lib/dashboard/*` | none | pure functions on documents | the editor, the loader |

What is hard about it:

* The loop awaits between every two facts it learns about an engine, while the
  engine may die, restart as something else, or lose its model. Correct means:
  nothing of a dead server is shown or kept, a live one ends up shown with its
  own model, none is dropped early or kept for ever, and none is asked for its
  model all the time.
- Documents are written by file operations with crashes, power failures and
  other writers between them. Correct means: the file is always a whole
  document and each request looks atomic.
- Detection reads processes, containers and environments one after another,
  any of which may not be had, and sees a containerised server twice. Correct
  means: every server that can be found is, once, with the processes of its own.
- A tick asks an engine several routes while its server may be replaced by
  another, and an adapter outlives its server. Correct means: nothing learned
  of one server hides or renames the next, and asking does not keep it awake.
- Counters restart with the engine and are read through a baseline that
  restarts with warmup. Correct means: no figure mixes two baselines.
- Snapshots cross a bounded channel and a connection that breaks, sometimes
  unnoticed. Correct means: a browser comes back to the newest, never to an
  older one, or says that it is stale.
- Log streams are started by the first client and end by themselves, while
  clients come and go. Correct means: one reader per container, lines in
  order, nobody left on a dead channel.
- Every browser control writes the whole document it sees, concurrently.
  Correct means: what is on screen was stored, or is announced as not, and no
  unsaved work disappears.

Whatever is hard to test is listed, at its line, under `hazards` in
`PROJECT.json` with the properties that cover it, or the reason none does.

## 2. The plan

| | modules | state |
|---|---|---|
| 1 | `EngineLifecycle`: the collector loop | checked and proved |
| 2 | `AtomicDocument` (abstract) and `ConfigStore` (the handlers over the file system), the second implementing the first | checked and proved, the refinement too |
| 3 | `EngineRates`: warmup, baselines, rates, latencies | checked and proved |
| 4 | `LogStreams`: the log viewer's server side | checked and proved |
| 5 | `DashboardClient`, composed with `AtomicDocument` | checked and proved |
| 6 | `LaunchCommands` (what a command line says) and `Detection` (a pass) over it | checked and proved |
| 7 | `EngineAdapters`: the four adapters and the model resolver, request by request | checked and proved |
| 8 | `MetricsFeed`: samplers, broadcast, lag, the reconnecting browser, staleness | checked and proved |
| 9 | the browser's log connections over `LogStreams`; the rotation clock; grid placement and ring buffer against reference definitions | to do |

Liveness stays with TLC: the proof system handles neither fairness nor
`ENABLED`. Nor does it handle recursive operators; the loops of `Detection` and
of the sums and percentiles are therefore recursive functions or definitions by
their result, of which it is proved what the properties need.

## 3. The modules

### EngineLifecycle

One action per await of `engine_collector_loop`: `DetectScan` (what a pass
finds, read while it runs) and `DetectApply` (entry, `adopt_container`,
`clear_stale_pids`); `PollStart`, then per engine `Probe`
(`record_probe_result`), `FetchModel` or `SkipFetch` (`should_fetch_model`,
`cache_model`), `Scrape` (`get_metrics`, `snapshot`), and `Publish` (the
`retain`, the shared list). Engines are polled in any order, as a `HashMap`
yields them. The environment (`GoesQuiet`, `Resumes`, `Restarts`,
`FinishesLoading`, `MetaChanges`) and the clock (`Tick`) move between any two
awaits. An `Instant` is the age it has, up to the largest age a comparison can
tell apart, so the state space is finite although time is not bounded. An
answer to a request for the model names one, is an error, or names none, as a
router's with nothing loaded does, and Ollama's adapter without a request; `heard` records which, for the
property only.
`MaxIncarnation` bounds how many servers come up on an endpoint; a model is
named after the server that serves it.

### AtomicDocument, ConfigStore

`AtomicDocument` is what the API promises: requests open, take effect at one
moment or are declined, are answered or abandoned; a power failure goes back to
a document that was current since the last commit of the directory. One who
goes away unanswered may have its request take effect later, once (`Replace`,
`Lapse`), and a full disk may leave a torn document (`Tear`), which is the one
way to get one. `ConfigStore` has each file operation of `store`, `load` and `delete`
as a step that may fail, a disk of inodes with two halves and a synced flag,
and a disk that fills up: `write_all` returns while the write is in flight and
`sync_all` drops its error, so the store goes on with a file that is cut short
(`WriteStops`). A connection is dropped at any step: its handler ends where it
awaits, but the file operation it had handed to tokio's threads goes on (`gone`,
`MayBeUnderWay`). Further there are restarts (with `probe_writable` deciding `read_only`), power failures, and a
directory remounted read-only or writable at any time. `Abstract` is the
refinement mapping: the document is what `dashboards.json` names, a request is
open until the rename, the read or the unlink, and `Torn` if its file is cut.
`MaxStores` bounds how many stores a behaviour starts. A temporary name is a
process id and a counter; processes that share a directory are taken to have
different ids, which two containers with a volume in common need not.

### EngineRates

An adapter's figures from two counters and a histogram: `served`, the requests
that had their first token (with llama.cpp: that finished), `tokens`, and the
latencies of the requests served. The engine, of one of three kinds, serves,
generates and restarts; a scrape is one of `KeepWarming`, `EndWarmup`,
`NoticeRestart`, `Measure`, the four paths of `WarmupTracker::observe`, each
with the rate state's reset and update. With llama.cpp a scrape may wait for a
second answer (`ReadSlots`), and a request may finish or the server restart in
between. `EngineMetrics` is what `get_metrics` reports: gauges and totals stand
whatever the baseline, the rest is blank while warming up. `Percentile` and
`CountLe` are `histogram.rs` over `SubtractBaseline`, in exact fractions.
llama.cpp's rate of prompts is of the raw counter (`PromptRate`). A scrape
without series of the engine's changes nothing with SGLang and llama.cpp; vLLM's
is read whatever it is (`ReadErrorPage`), which while warming moves the cursor
to zero, and `misread` records that it did. Assumed (`MayServe`): a
restarted engine is scraped before it has caught up with its former counters;
without that the code cannot notice the restart, and does not.

### LaunchCommands, Detection

`LaunchCommands` has no state: which engine an argument vector runs
(`EngineOfCommand`), on which host and ports it listens, which model it names,
with the precedence of flags, repeated flags, values written with a flag and
environment variables. An argument is an atom, not characters. `Detection` is a
pass over a host that stands still: `ScanProcesses`, `ListContainers`,
`ScanContainer` for each, `Merge`, then the probes of each candidate's
endpoints in turn (`Answers`, `DoesNotAnswer`). Docker may not answer, a process
list or an environment may be unreadable, a probe may time out; `trouble`
remembers it, since less is promised then. What is really there (`at`, the port
a process's server can be reached on) is known to the properties and not to the
scans. `Scenes` and `Natives` are the hosts. The loops over the process table,
the containers, the candidates and the fallback endpoints (`Scanned`,
`Claimed`, `Joined`, `WithFallbacks`) are functions of how far they have come,
in the order of the code's; a process tree (`expand_pid_tree`) is the least set
that has its roots and all their children, which is what its search computes,
cycles in the parent data included.

### EngineAdapters

`EngineState::poll` over each of the adapters, one action per request:
`CheckHealth`, `AskModelInfo` (of an SGLang without `/ready`), `AskProps`, `AskModels`, `AskV1Models`, `AskHub`, `AskMetrics`,
`AskSlots`, `AskServerInfo`, `AskPs`.
The server may be stopped, started as something else, take a request, log its
first series (`LogsSeries`, before which an SGLang's scrape is no data and its
drafter not asked for) or fall asleep between any two, and a request may get no answer. `adapter` is what the
adapter remembers, `engine` what the loop does, `shown` the last snapshot. What
is asked next follows from the answers, as the code's awaits do. A `launch` is
how a server was started: with metrics or without, behind a key, with `/slots`,
with a drafter, an old release, a router, with a name of one of four shapes.
Cooldowns and refresh intervals are `waiting` clocks that elapse.

### MetricsFeed

`Tick` is the collector's: disk rates from two readings of devices that come,
go and count anew (`IoRates`), GPU numbering with devices that do not open and
simulated ones, events, the GPUs an engine's processes are on, unified memory.
`Accept`, `Forward`, `ForwardFails` are the socket handler
on a channel of `Capacity`; `Break` ends a connection with or without notice;
`OnMessage`, `OnClose`, `Connect`, `Flush`, `HideOrShow`, `GoesQuiet` are
`useMetrics.ts`, from how the server sees it. A snapshot is its number, the
last standing for every later one. The reader of a socket that is `silent` gets
nothing and no event, as when a laptop sleeps.

### LogStreams

Socket handlers (`Subscribe`, `Attach`, `Deliver`, `Lag`, `SeesChannelClosed`,
`SeesPeerLeave`) and stream tasks (`Open`, `Fail`, `Frame`, `End`, `Remove`)
interleave at their awaits and at the registry's lock. Output is counted in
half lines, so that Docker's frames can cut a line in two and the last may lack
its newline; a receiver is a cursor into what its channel published, and falls
behind once more than `Capacity` messages are waiting. A stopped container
starts again only after its stream was read to the end. Left out: stderr's own
buffer, several lines in one frame (so many frames), stalled peers.

### DashboardClient

Tabs over `Server == INSTANCE AtomicDocument`, whose `Invoke`, `Apply`,
`Decline`, `Return`, `Abandon` and `Lapse` carry the requests, those of a tab
that got no answer included, which may still take effect. A document is the set of
writes it builds on, which is all its properties need: the empty set is the
preset, a stored document without pages too, which `load.ts:97` replaces by the
preset without a notice as there is no layout to lose; and a member `Earlier`
stands for what was stored before. `Sends`
computes what is written from what the tab shows, as the controls do;
`EditsPages` is the page bar, `ChoosesSource` the source control, `Begins`,
`Discards` and `Saves` the editor. `Settles` is the whole of an answer: the
hook's state, the navigation, the end of the session. `Rendered` and `Renders`
say what React's keys do: an editor whose page is no longer on screen is
unmounted with its session, and an answer to it then changes no session.
Left out: power failures, a disk that fills up, panels, edits made while a save
is in flight (`GridPageEditor.tsx:188`), migrations, windows too narrow to edit in.
Page ids are fresh. A directory is read-only or not
for a whole behaviour, and "too large" is any other failure.

### Variants

Each module has, next to some definitions, a second form of the same signature
whose comment says what a mistake there would be (`LoadRaw`,
`ShouldRemoveEarly`, ...). No behaviour uses them: put in the place of
the definition, each breaks the property `PROJECT.json` pairs it with, which
shows that the property depends on that line of the code.

## 4. The runs

Passing:

| run | checks | bounds, and why they are enough |
|---|---|---|
| `engine_safety` | `TypeOK`, `OfflineShowsNothing`, `PidsAreCurrent`, `RemovalNeedsSilence`, `RequestsAreSpaced`, `TickIsComplete` | one containerised engine and two servers on its endpoint; grace 1 s, cooldown and refresh 2 s, so that every age reaches, passes and stays past each limit; a server names its model, fails to, or answers without one. A longer refresh interval only makes the run larger; the proofs are for any. Engines share nothing but the loop, and the proofs are for any number. |
| `engine_liveness` | `LiveEngineIsShown`, `DeadEngineIsDropped`, `ModelCatchesUp` | the same, also configured by hand, no container |
| `store` | `TypeOK`, `DocumentIsWhole`, `NoWriterHasTheDocument`, `ImplementsAtomicDocument` | two connections, two documents, two stores: two writers at once, or one after another's crash, or one whose client left, or onto a full disk; connections and documents are symmetric |
| `rates` | `TypeOK`, `RatesAreSound`, `LiveCountIsHonest`, `WarmupIsExcluded`, `LatenciesAreMeasured`, `WarmupEnds` | three kinds of engine, two warmup requests, five requests and six tokens a life, two lives: a restart before, during and after warmup; latencies in and between the buckets and beyond the last; an error page at any moment |
| `logs` | `TypeOK`, `RegistryIsExact`, `LogIsReadInOrder`, `FirstClientMissesNothing`, `NobodyIsLeftHanging` | one container, two clients, two streams one after the other, five half lines: two whole lines and a last one without its newline, so that there is an order to get wrong and a line to skip between two; a channel of two messages so that lag happens; the tail is empty, so a client joins at the present |
| `client` | `TypeOK`, `ShownWasStored`, `NothingIsReplacedUntold`, `SessionOutlivesFailure` | two interchangeable tabs and two writes: in one tab or in two, overlapping or not, by any controls. Tabs are opened at a page's URL |
| `detection` | `OneServerOneEngine`, `ProcessHasOneEngine`, `ChildIsNeverAnEngine`, `EveryServerIsFound` | every pair of eleven native servers side by side, or one with a child and a grandchild of three sorts, beside any of eleven containers. Two candidates and a container are what a merge can be wrong about; a chain of three what a process tree can. `ProcessHasOneEngine` says nothing of a host where one server starts another on another address (`OneServerPerTree`); none of these is one |
| `adapters` | `TypeOK`, `ModelIsOfThisServer`, `ReportCatchesUp`, `IdleServerSleeps` | ten launches of the four types, two of them one after the other on the endpoint, one request without an answer; a launch command that names a model or none |
| `feed` | `TypeOK`, `SnapshotIsOfThisMachine`, `ShownNeverGoesBack`, `LiveViewIsLive` | a browser over four snapshots, a channel of two, one message on the wire and two broken connections: lag, a break while reconnecting, silence; or three disks counting to three; or two GPUs that open or not, asked for or not, simulated or not; or memory in every relation NVML and the kernel can show. The parts do not interact, so each host has one |

`rates` and `adapters` do not check for deadlock: an engine that has used up
its bounds may be silent for ever.

`detection` leaves out the module's `TypeOK`, which says no more than what shape
a candidate has; it is proved.

Violations: what the repository says of itself and the code does not do.

| run | the statement | what happens |
|---|---|---|
| `engine_override` | `README.md`: configure by hand "when auto-detection doesn't work" | such an engine is dropped after one outage and never polled again |
| `rates_restart` | `llamacpp.rs`: the trigger counter is the one "the warmup baseline watches for a restart" | a baseline of zero watches nothing: the restart of a server first seen idle goes unnoticed, and its live count stays at the old server's |
| `detection_guess` | `detector.rs`: the probe rejects a guessed port, so a wrong guess "corrects itself" | a server of the same type that happens to be on the guessed port confirms it, and the container gets its figures |

### Fairness

*Loop.* `select!` picks at random among the intervals that are due, so neither
pass is put off for ever: strong fairness for `DetectScan` and `PollStart`,
each of which is disabled while the other runs. Requests time out after 2 s, so
a pass goes on: weak fairness for the rest, and for the clock. Servers are owed
nothing; a property that needs one to stay up says so.

*Logs.* The runtime polls every handler and task that can go on. Docker's
frames arrive; that opening a stream fails is never owed.

*Rates.* The loop scrapes a running engine every second.

*Adapters.* Ticks go on, a server that loads finishes loading, an idle one that
may sleep does, cooldowns elapse. That a server is started or answers is never
owed.

*Feed.* The collector ticks, the handler and the browser's event loop run,
timers fire. That a connection breaks, or is noticed to have, is never owed.

`store`, `client` and `detection` check safety only.

## 5. What is proved

`EngineLifecycle_proofs`, for any sets of engines, any periods with the
cooldown no longer than the refresh interval, any number of servers: types,
`StoppedForgetsModel`, `OfflineShowsNothing`, `PidsAreCurrent`,
`RemovalNeedsSilence`, `ContainerIsKept`, `TickIsComplete` and
`RequestsAreSpaced`, which names the code's one exception and proves that it is
the only one: a server that answers without naming a model leaves the refresh
clock of the one cached before where it was, and once that is over it is asked
on every tick. `IInv` adds to the properties what makes them inductive: the
relation of status and `stopped_at` (set exactly while the engine is stopped,
which it has been no longer than it has been silent), and that of the two model
clocks to the cache (`EntryInv`), that a snapshot in the
making is already consistent (`SnapshotInv`), and that mid-tick the list has
exactly the engines already polled (`PollInv`).

`ConfigStore_proofs`, for any connections and documents: types,
`DocumentIsWhole`, `NoWriterHasTheDocument`, and that `ConfigStore` implements
`AtomicDocument`, step by step. The argument is that every writer has a
temporary name and an inode of its own (`ApartInv`, from the counter:
`NamesInv`), which holds exactly what it has written so far (`WriterInv`) and
is none of those the document is or may become after a power failure
(`PastInv`); a rename therefore moves a synced file into place that is whole, or
that the disk cut. Nothing in this needs the client to be there: a request that
was dropped keeps its names until the operation under way is over. In the
refinement such a request is an `abandoned` call, and its rename or unlink is
that call taking effect.

`LogStreams_proofs`, for any containers, clients, streams, lines and capacity:
types, `RegistryIsExact`, `LogIsReadInOrder`, `FirstClientMissesNothing`.
`IInv` relates each task to its entry and each receiver to a stream that was
started. `OrderInv` adds where a client is in its stream: what was published
runs in order, a cursor stands behind the last thing its client has, and a
client that never lagged has had everything since the stream's first line.

`DashboardClient_proofs`, for any tabs and writes: types, `ShownWasStored`,
`NothingIsReplacedUntold`, `SessionOutlivesFailure`. Assumed is that a tab's
name is no write's (`TabsAssumption`): both name requests to one server. The
argument is that an answer of success carries a document that was current once
(the abstract server's `past` only grows), that a tab takes nothing else for
its own without the notice, and that a write asked for without the notice
builds on such a document (`BuildsOn`), so on `Earlier` as long as all of these do.

`MetricsFeed_proofs`, for any hosts, capacities and windows: types,
`ShownNeverGoesBack` and `SnapshotIsOfThisMachine`. `QueuesInv` says that the
numbers on the wire and in the receiver's queue behind it rise and are none
above the newest;
`BrowserInv` that what is still to come on the browser's connection is no older
than what is pending, and that no older than what is shown. A connection that
is replaced takes its messages with it (the late event of an old socket is
ignored), which is what keeps this true over a reconnection.
`ReadInv` relates the last reading to the disks: a device has counted no more than it moved since, and
exactly that if it does not count anew. The rate and what moved are sums over
different sets; that a sum over a finite set depends on no order, and is no more
than a sum of more over a set it maps into one to one, is proved from the
well-foundedness of finite sets. A host is taken to have finitely many disks of
different names and no more than 4 TiB of memory (`FeedAssumption`).

`EngineAdapters_proofs`, for any launches and any number of servers: types and
`ModelIsOfThisServer`. `None` must be no error (`NoneAssumption`). The
invariant follows a name from the server that gave it: `seen` has every server
that ran since the engine was last recorded as stopped (`SeenInv`); the name a
tick takes to the hub (`NameInv`), the cached model (`ModelInv`) and the last
snapshot (`ShownInv`) are each of one of those, and routes are only asked of
engines of their type (`PcInv`). What the adapter remembers for longer (its role, the hub's cache)
never brings a name back by itself.

`Detection_proofs`, for any hosts: any process table and parent data, any
command lines and environments, any container, and whatever Docker and the
servers leave unanswered. Assumed is only that processes and ports are listed
and that Docker names a container (`HostAssumption`). Types, that no two
results are of one type on one endpoint (`ResultsDiffer`), and the four
properties the run checks.

- A process tree is the least closed set, which is its induction principle: two
  trees meet only where a root of one is in the other (`TreesApart`). Each loop
  is proved to keep a statement of where it is, by a smallest step at which it
  would not (`ReadUpTo` for the scan, `AbsorbedUpTo`, `FallbacksUpTo` and their
  like for the merge). From these: a merge neither loses nor invents a process
  (`MergeKeepsProcesses`, for any number of containers), and what is probed is
  exactly the scanned servers with their descendants and what Docker listed
  (`MergeKeepsServers`).
- `PassInv` is the inductive invariant. `Hosted` is the assumption on the host;
  `AtItsPlace` says what each list can be at each await, and that what is being
  probed are addresses of the first candidate; `Sorted` that the lists hold
  engines whose addresses somebody entitled named (`Sourced`), that results
  differ, and that candidates left and results made share no process.
  `ResultsDiffer` and `ProcessHasOneEngine` follow.
- `Traced` adds whose processes the lists have and that results answered:
  `OnlyKinIsCounted`, `ResultsAreNamed` and `ChildIsNeverAnEngine`.
- `PortsKept` adds which ports the lists name: candidates left name none that
  another does or a result is on. `OneServerOneEngine` follows.
- `PromisesKept` follows each server from the scan to the results: until it is
  one of them, a candidate of its type has its processes, and the first of its
  addresses to answer is still to be tried. It holds where no probe failed for
  the host's own servers, whatever Docker does (`NativeServersAreFound`), and
  where nothing failed for the container's too. `EveryServerIsFound` follows.

Three of the four have a precondition, which the code cannot know and the host
must grant; each is a statement about the host alone. `NoChildIsNamed`: nobody else's launch names a
port that a child of Ollama or of a router listens on; such a child answers
like any engine, and the code goes by addresses. `PortsAreNamedOnce`: two
candidates of the scan name no port in common, nor one and a container that it
is not part of, unless they join on their endpoint. `ServersAreWhereTheySay`: a server is on a port its launch or its
container names, no other of its type on one named before, and a container has
a server's tree whole or not at all. Of the 1452 hosts of `detection`, in order,
1445, 1408 and all meet them; TLC checks the properties on the rest too.

`EngineRates_proofs`, for any number of requests, tokens and lives, any
latencies and any bucket bounds: types and `LiveCountIsHonest` from `BaseInv`;
`LatenciesAreMeasured` from `BaseInv` and what the histogram operators compute;
`RatesAreSound` and `WarmupIsExcluded` from `IInv`, where `SkipRequests # 0`.
Both name what the code does not keep: llama.cpp's rate of prompts is negative
after a restart over a baseline of zero and then only; and where vLLM's error
page was read for a count of zero, warmup leaves out the first `SkipRequests`
requests of the server's life, not those since it was first seen.

- `BaseInv` says when an earlier reading may be ahead of the counters: never
  once the running server was scraped (`ReadingsInv`), and before that it has
  served at most `Early` requests (`LifeInv`, from `MayServe`): none, or the
  first of an SGLang server, which has no series until then. llama.cpp's live
  count, over a baseline of the running server, is not ahead of it (`LiveInv`).
- `MeasuredInv` says that the warmup cursor, and so the baseline, is at least
  `Early` requests up, the baseline by `SkipRequests` more: a restarted server's
  counters are below it and it is noticed. Once it is, the baseline is the
  running server's, `SkipRequests` beyond every scrape of its warmup, and the
  rate's last value and the mean's sum are of that baseline.
- The threshold is needed and not for the proof's sake: with
  `SPARK_WARMUP_SKIP_REQUESTS=0`, which `warmup.rs:79` allows, TLC finds both
  properties violated, since a baseline of zero cannot fall and so watches
  nothing. The default is one (`common.rs:12`).
- A percentile is characterised without the order of the requests: it is at
  most a bound exactly when enough of the measured requests are. The extremes
  of finite sets the code's first and last bucket are found by come from
  well-foundedness of the numbers.

`StoppedForgetsModel` and `ContainerIsKept` are proved but no run checks them
any more: the first is a step of the argument for `OfflineShowsNothing`, the
second restates the guard of `adopt_container`.

Only model-checked:

- *Liveness*, which the proof system has no rules for: `LiveEngineIsShown`,
  `DeadEngineIsDropped`, `ModelCatchesUp`, `WarmupEnds`, `NobodyIsLeftHanging`,
  `ReportCatchesUp`, `IdleServerSleeps`, `LiveViewIsLive`.
- What a command line says (`LaunchCommands`): the proofs of `Detection` hold
  whatever it is, and need only that it is a list of addresses.
- The four properties of `Detection` on the few hosts outside the preconditions
  above.
- The statements of the violation runs, which do not hold.

## 6. Where the code and its words part

Beyond the violation runs, modelling met these. They are stated here because
each follows from a line or two and needs no search.

- A container recreated within the grace period keeps its predecessor's id
  (`engines/mod.rs:950`), which the log viewer then opens.
- A configuration directory that becomes unwritable after the start is answered
  as any failed write (`server.rs:186`), not as read-only, which
  `client.ts:10` expects. `DashboardClient` therefore has a directory read-only
  or not for a whole behaviour.
- Lifetime totals said to be "ungated by warmup so it stays continuous"
  (`vllm.rs:238`) are read from the adjusted counters and fall when warmup ends.
- A quiet container's log stream goes on after its last client left
  (`logs.rs:230`), until the container writes or stops; `logs.rs:26` says
  streams run only while watched.
- A page-bar write accepted after an edit session began navigates away and
  unmounts the session (`PageBar.tsx:61`; line 37 means to prevent it).
- A router that replaces a single-model server within three probes leaves the
  model of the one before on show, since an answer without a model keeps the
  last one; so `ReportCatchesUp` says nothing of a router's model. A server
  behind a key that replaces a router likewise: its metric groups stay empty.
- SGLang's drafter is learned once and outlives the server it was learned of
  (`sglang.rs:88`); `ReportCatchesUp` asks for it on the first server only.
- Two llama-servers whose launch names the same default endpoint become one
  candidate (`detector.rs:1007`); `EveryServerIsFound` excepts them. When a
  container's process list cannot be read, its server may appear twice;
  `OneServerOneEngine` excepts that.
- The store renames a truncated file into place when the disk is full:
  `write_all` (`config_store.rs:129`) is not followed by `flush`, and `sync_all`
  drops the error of the write it waits for, so a document that is cut short is
  synced, moved into place and answered with success. `config_store.rs:84`
  promises "never a truncated file", and `config_store.rs:121` that a full
  disk "is a plain error". `WriteStops` and `Tear` are this; `DocumentIsWhole` excepts
  the file the disk cut.
- `get_metrics` of vLLM checks neither the status of the answer nor that it has
  series of its own: an error page read while warming up puts the cursor at 0,
  and the warmup requests of a server that was busy before the dashboard came
  may get into the figures. `WarmupIsExcluded` excepts that.
- A server that answers without naming a model, once the refresh interval is
  over, is asked for it on every tick, since `cache_model` renews the model's
  date for an answer that names one only (`engines/mod.rs:681`).
  `RequestsAreSpaced` excepts that.
- llama.cpp's rate of prompts takes the counter without floor or baseline
  (`llamacpp.rs:376`): in the case of `rates_restart` it is negative for a tick.
  `RatesAreSound` excepts that.
- The models Ollama has loaded are sent whatever the engine's status
  (`engines/mod.rs:761`); `OfflineShowsNothing` does not speak of them.
- With `SPARK_WARMUP_SKIP_REQUESTS=0` vLLM and SGLang have the zero baseline of
  `rates_restart`.

## 7. Not modelled

- *Time that passes within a tick.* Engines are polled one after another with
  requests of up to 2 s; the models say what a tick does, not how late.
- *Text*: Prometheus and `/proc` parsing, ids and slugs, log colours. Where a
  conversion decides something (a command line, a model's name, a histogram's
  buckets) it is modelled by what it does on atoms.
- *Plain readings*: CPU load, network traffic and the interface it is named
  after, clocks, power and PCIe, the waveforms of simulated
  GPUs, and what a model's configuration file says of it. Device-mapper and RAID
  devices, which the disk rate counts beside the disks under them, are left out
  of `Hosts`, and so is a number of GPUs that changes while the program runs.
- *Log streams*: a character cut by a chunk boundary, a peer that reads nothing.
- *Configuration store*: temporary files that a dropped handler leaves behind,
  which are never opened again; two processes of one id on one directory.
- *Browser*: the log viewer's connections, the rotation clock, grid and page
  editing within a session, migrations and presets, history, rendering. Of these
  the first two have state over time and are the plan's next; the rest are pure
  functions or what is on screen. React's development mode, which mounts twice
  (and reopens a socket whose `onclose` comes late, `useMetrics.ts:63`), is not
  modelled.
- *Command line, service, deployment, `main.rs`*: sequential I/O at startup and
  installation.

`components` in `PROJECT.json` says the same file by file.
