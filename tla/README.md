# A TLA+ model of the eBPF monitoring server

The server (Go, `src/cmd/epbf-monitor` and `src/internal`) is given git
repositories of *plugins*. It clones and builds a plugin, stores the compiled
eBPF object in S3 and a row in PostgreSQL, loads the program into the kernel,
reads its events from a ring buffer, turns them into Prometheus collectors and
samples of an in-memory store, and evaluates filter expressions over that store
for a web UI. These modules model the parts of it in which goroutines, faults
and restarts meet; TLC checks small instances, and the TLA+ proof system proves
the safety properties for every value of the constants.

All paths below are relative to the repository (`src/`).

## 1. The system

### Components, their state and operations

| component | state | operations | what makes it correct |
|---|---|---|---|
| **plugin service** `internal/plugin/service.go` | none of its own: the table, the bucket, the runtime | `LoadPlugin`, `buildPlugin` (a goroutine), `DeletePlugin`, `EnablePlugin`, `DisablePlugin`, `RebuildPlugin`, `StartAllPlugins` | a row's status, its artifact and the running program agree; names are unique; deletion is final; every build ends visibly |
| **plugin runtime** `internal/plugin/runtime.go` | `pluginRuntimes` under `Runtime.mu` (not always) | `StartPlugin`, `RemovePlugin`, `StopPlugin`, `DisablePlugin`, `EnablePlugin`, the event handler | an entry matches the row; the handler's samples reach the store |
| **loader, builder** `plugin/loader.go`, `plugin/builder` | a clone directory per URL path, an object file in it, a container per build | remove, clone, read, docker build, write the object, clean up | a build uses one commit, its own; the row names the commit of its object |
| **manifest** `plugin/manifest.go` | none | parse, validate | accepts what the rest can handle |
| **plugins table** `storage/postgres/plugin_repo.go` | rows, `UNIQUE(name)` | single statements | – |
| **artifact bucket** `storage/s3/client.go` | objects `plugins/<id>/ebpf.o` | put, get, delete | – |
| **eBPF loader** `internal/runtime/ebpf/loader.go` | `programs` under `Loader.mu`; per program a context, a ring buffer, a reader goroutine | `LoadProgramWithManifest`, `UnloadProgram`, `Close`, `readEvents` | the registered program is open; readers end after an unload; ring buffers are drained |
| **dynamic metrics** `internal/metrics/dynamic.go` | collectors per plugin, and the Prometheus registry | `RegisterPluginMetrics`, `UnregisterPluginMetrics` | the registry holds what plugins hold; plugins do not take each other's series |
| **collector** `internal/metrics/collector.go` | the server's own counters and gauges | set, add, remove a plugin's | a plugin's series are its own; the gauge of loaded programs follows what is loaded |
| **metrics service** `internal/metrics/service.go` | subscribers nobody uses | reads the filter engine | – |
| **filter engine** `internal/filter/{engine,types,ast}.go` | the store and the result cache, `Engine.mu` | `AddMetric`, `Evaluate`, `Cleanup` | the store holds the latest samples; results expire; queries do not disturb each other |
| **filter parser** `internal/filter/parser.go` | none | a recursive-descent parser | terminates; accepts the documented grammar |
| **HTTP API, WebSocket** `internal/api` | `wsSubscribers` | one handler per route; `WebSocket`, `BroadcastWS`, `cleanupWS` | a channel is closed once |
| **filters, dashboards, metric definitions** `storage/postgres/*_repo.go` | rows | single statements; `DashboardRepo.Save` reads, then writes | – |
| **server process** `cmd/epbf-monitor/main.go` | – | start-up (plugins, then HTTP), signal, shutdown | – |
| **web UI, plugins' kernel code, logger, PostgreSQL client** | – | – | – |

### How they interact

* An HTTP handler calls the plugin service. `LoadPlugin` and `RebuildPlugin`
  spawn a build goroutine with `context.Background()` and return; enable, disable
  and delete run in the handler. **No lock covers an operation**: two requests,
  or a request and a build, for one plugin interleave at every SQL statement, S3
  call and critical section.
* A build and an enable request call `Runtime.StartPlugin`, which downloads the
  artifact, calls the eBPF loader with *the caller's context*, registers the
  manifest's metrics, and stores an entry, whatever failed before.
* The loader starts a reader goroutine per program. The reader calls the
  runtime's handler, which increments collectors and calls `Engine.AddMetric`.
* Queries and `AddMetric` share `Engine.mu`; the cache of results is touched
  under the read lock, under the write lock, and under none.
* The runtime and the table know a plugin by its id; metrics are known by the plugin's
  *name*, which a build takes from the manifest and may change.
* A clone's directory is named after the path of the git URL, the directory that is
  cleaned up after the manifest's name. No lock covers either.
* The table and the bucket survive the process. On start `StartAllPlugins` reads
  the table and starts every built plugin before the HTTP server listens.

### What is hard

Interleavings of builds with requests on the same plugin; failures after which
an operation just returns and leaves what it did; crashes between two steps;
contexts that end with the request that made them; a reader racing with the
unload of its program; pointers into the store that leave the lock; two maps
written without the lock that guards them; a registry that remembers a name
after it was unregistered; directories that builds remove under each other. `PROJECT.json` lists these hazards at their lines.

## 2. The modules

| module | models | proofs |
|---|---|---|
| `PluginLifecycle` | plugin service, runtime, table, bucket, process | `PluginLifecycleProofs` |
| `PluginRegistry` | abstract: what the table promises about ids and names | |
| `EbpfLoader` | eBPF loader and its readers | `EbpfLoaderProofs` |
| `BuildWorkspace` | a build's files: loader, builder, object and row | `BuildWorkspaceProofs` |
| `DynamicMetrics` | dynamic metrics over the Prometheus registry: state and operations | (below) |
| `PluginMetrics` | who calls them: builds, enables, deletes, with the runtime map; extends `DynamicMetrics` | `PluginMetricsProofs` |
| `FilterEngine` | the store, its lock, evaluation | `FilterEngineProofs` |
| `FilterCache` | the result cache | `FilterCacheProofs` |
| `FilterParser` | the parser of filter expressions | `FilterParserProofs`, on the lemmas of `FilterGrammarProofs` |
| `MC*` | the instances TLC checks | |

In every module an operator named "Mutant of X" is a plausible wrong version of
`X` that no specification uses; it is there to see that a property notices it.
Variables marked *history* are never read by a guard; they record what a
property talks about.

### PluginLifecycle

State: the columns of the table (`status`, `name`, `repo`, `key`), the bucket
(`uploaded`), a program counter per goroutine (`build`, `req`), the runtime map,
the attached programs and their readers, and the phase of the process (`mode`,
`todo`). The goroutines' steps are:

| code | actions |
|---|---|
| `LoadPlugin` service.go:92 | `AddPlugin(Fails)` |
| `buildPlugin`, `handleBuildError` | `BuildBegin(Fails)`, `BuildLoad`, `BuildCompile`, `BuildUpload`, `BuildFails`, `BuildRecord(Fails)`, then `StartPlugin` |
| `Runtime.StartPlugin` | `BuildFetch`, `BuildAttach`, `BuildStore` and `EnableFetch`, `EnableAttach`, `EnableStore` |
| `EnablePlugin` | `EnableGet`, `EnableStatus`, `StatusFails`, ... |
| `DisablePlugin` | `DisableStatus(Fails)`, `DisableRuntime` |
| `DeletePlugin` | `DeleteRuntime`, `DeleteGet`, `DeleteObjects`, `DeleteRow` |
| `RebuildPlugin` | `RebuildGet`, `RebuildStatus`, `StatusFails` |
| `main`, `StartAllPlugins` | `Crash`, `Restart`, `BootSkip`, `BootStart`, `BootDone` |

`Faults` chooses what may fail: the database, S3, git, the docker build, loading
into the kernel, the process. A statement that reports an error may have been committed,
its answer lost: then the row is written and the operation ends all the same. An upload whose
answer is lost may have stored the object. A crash forgets memory only.

Four histories record what the properties excuse, each property its own:

* `lapsed`: plugins with an operation cut short by a database error, a violated constraint or a
  crash, for ever. `WaitingHasBuild`, `ArtifactForKey` and `BuildsConclude` excuse them:
  nothing in the code repairs such a row (the hazards at service.go:190, 388 and 223), so these properties say only
  that nothing *else* leaves one.
* `unstarted`: plugins a database error has cut off from their start: in a delete that has
  dropped the runtime entry, in the boot's listing of the rows, or in place of the answer to the UPDATE of
  an enable or a build. A start of the plugin, and a crash, takes it out again.
* `met`: plugins on which two requests were in flight at once since the process started.
  `ReadyMeansEnabled` excuses `met` and `unstarted`, and nothing else.
* `disturbed`: plugins whose last delete S3 refused, or that another request or a build
  overlapped. Only `RemovalIsComplete` excuses them, and it excuses nothing else.

The artifact has no version: an object is there or not (which commit it is of is
`BuildWorkspace`'s question). `repo` and `Names` keep
the rename of a row by its build (from the URL's name to the manifest's), the
only point where a build meets the `UNIQUE` constraint. A query for a name or
the listing of rows reads only and has no action.

### EbpfLoader

State: `programs` (the loader's map), and per `Program` its owner, whether its
ring buffer is open, its context, the step of its reader and the backlog of its
ring buffer. `LoadProgramWithManifest` and `UnloadProgram` hold `Loader.mu`
from start to end and are one step each. `Close` takes the lock and calls
`UnloadProgram`, which takes it again: the `unload` step of a closer is never
enabled while it holds the lock, so the model has the self-deadlock of
loader.go:408-413 as the code has it. No property is about it (see section 6).
`scoped` is whether the caller's context ends (`ParentEnds`): that of an HTTP
request does. A load for a plugin that has a program overwrites the map entry
and leaves the old program open, as the code does.

### BuildWorkspace

State: the disk (`git`, `files`, `output`, `object`, per directory), the branch heads of the
repositories, per build goroutine its step and its locals (commit, manifest, the object's
bytes), the bucket and the row, each as the commit it is of. A directory is one of a constant
set with a constant order `Below`; `CloneDir` is where a URL is cloned, `SourceDir` and `BuildDir`
the `ebpf` and the `build` below a clone, `ManifestDir` the directory of the name a commit's manifest
carries, which is what `Cleanup` removes. `Tree` has the directories a commit's checkout
puts files into. They may lie inside the clone of another path: a checkout of `org` whose tree has a
directory `tool`, or a repository at `org/ebpf`, writes into what another build reads.

| code | actions |
|---|---|
| `Loader.Load` loader.go:44 | `RemoveOld`, `CloneBegin`, `CloneCheckout`, `ReadHead`, `ReadManifest` |
| `Builder.Build` builder.go:61 | `MakeOutput` (twice), `Mount`, `Compile`, `CreateObject`, `WriteObject` |
| `buildPlugin` service.go:127 | `Begin`, `ReadObject`, `Upload`, `Record`, `Clean`, `Fails` |

git is external: a clone creates `.git` and is refused where one is, then fetches the branch
and checks its whole tree out, over whatever is there. A container keeps the directory it mounted when that is removed under it,
and `os.WriteFile` is an open that truncates (the object is `Torn`) and a write; `linked` is
whether what is open is still found under its name. Any step may fail, and a failed build
leaves its files: only `Clean`, the last step of a successful one, removes anything, and a
failed clone its own directory. Two histories say when the properties may be given up:
`alone`, the builds that no build which could reach their directory overlapped, and `torn`,
the plugins with an overlapped or failed build since the last one that ran alone.

`BuiltFromItsDirectory` is excused by neither. It bounds what overlapping builds can mix up: the
commit in a row is of a repository with the row's path; a manifest, and the source an object is compiled
from, may be of any repository whose checkout puts files where this one's lie. TLC reaches states
in which a row has the manifest, and a bucket the object, of a repository of another path
in the instance of section 3, so nothing narrower is true of the code.

The checkout is one step, so a build never sees half of a commit's files: an overlapping one may in
the code, which then is one of the overlaps `alone` and `torn` excuse. What go-git may *remove* below a directory it checks
out into is left out; it would make an overlapping build fail, and put nothing anywhere.

### DynamicMetrics and PluginMetrics

In `DynamicMetrics`, one step per operation, for each holds `DynamicMetrics.mu` throughout. The
Prometheus registry is external: it is modelled by the two conditions under
which the code's `Register` calls are refused (the name is in use; the name was
once registered with another help text or other labels, which client_golang
remembers after `Unregister`). `FullName` is any naming that is injective per
plugin; two plugins may collide.

`PluginMetrics` adds the goroutines that call these operations, over the columns of the table
they read (name, manifest, whether there is an object) and the names in the runtime's map
(`runtime`):

| code | actions |
|---|---|
| a build: `LoadPlugin`, `RebuildPlugin`, then `PluginRepo.Update` | `Add`, `Rebuild`, `Record`, `Fails` |
| `EnablePlugin` service.go:283 | `Enable`: the row is read, and what was read is started |
| `Runtime.StartPlugin` runtime.go:66 | `Register`, `Store` |
| `Runtime.RemovePlugin` runtime.go:337 | `Remove` (reads the entry), `Forget` (drops it) |
| `Collector.RemovePluginMetrics` | `RemoveDynamic` |
| `DeletePlugin` | `DeleteRow` |

`met` is history: two goroutines were under way for one plugin. The two properties
about agreement with the row hold until then, and no longer: an enable that read its row
before a rebuild registers the old manifest again. The other properties hold through
every interleaving. What `Upload` and the S3 delete do, the status, and the process' restart
(which empties all but the table) are in `PluginLifecycle`.

### FilterEngine

The store holds, per series, the times of its samples; a sample's value does not
matter to the properties. A handler takes the time of a sample (`AddBegin`), queues for the lock
(`Announce`) and replaces the samples (`AddMetric`); it does so for the metrics of its plugin's
manifest, `Emits`. An evaluation takes the read lock, selects pointers to
the store's own series, cuts each to the range when the expression has one, and
copies the points of each when a function is on top. A cut reads the points (`FilterPoints`)
and assigns them (`CutRange`) in two steps, because it writes while other readers run.

The lock is a `sync.RWMutex`: writers queue, the one whose turn it is announces itself and waits
for the readers there are; a reader that comes after that is blocked (`Block`), and all blocked readers get in
when the writer unlocks, before the next writer announces itself (`LetReadersIn`).

Two conditions of the code that the model relies on: a sample carries one label,
the plugin's name, so a series has one label hash (`hashLabels` depends on the
iteration order of a Go map and would give a series of more labels several
places); and range and function are the only operators that write or make
series.

### FilterCache

Each access to `cache` and `cacheExpiry` is a step; the cleanup's visit of an expiry and its two
deletions are three (`CleanupVisit`, `CleanupDelete`, `CleanupDrop`). A lookup holds the read lock,
`Cleanup` the write lock, `addToCache` none. `raced` records the entries at which
two goroutines were at a time, one of them changing it. Go may also kill the
process when two map accesses overlap in time (`concurrent map writes`); that is
a crash, which `PluginLifecycle` has, and not part of this module.

### FilterParser

The parse functions call each other; the module is the machine of those calls.
`at` is the place in a function, `stack` the calls that wait for an operand,
`cur` and `peek` the parser's two tokens, `nodes` the nodes made so far, operands
first. A token is its type, with the words that mean something to
`parseAggregation` told apart. `NextToken` chooses the next token when the lexer
is asked for it, so a behaviour is the parse of one expression, and all of up to
`MaxLen` tokens are explored; an unknown character is an `eof` with tokens behind
it. `read` is history: the tokens passed, in a list the well-formed part of it.
A number is one that `strconv.ParseFloat` takes; the strings and names it also
takes (`"0.5"`, `inf`) are left out of a quantile.

`Sentences` is a reference grammar, written as sets of texts with their trees:
metrics with ranges, parentheses, and the functions as the code has them
(a quantile's parenthesis stays open). It has no list and no matchers, for the parser takes
none: the theorem `ListsStayOut` says so of lists (finding 4), the action `LabelMatchers` of matchers.
The properties compare what the parser *read* with the grammar; tokens behind the expression it
ignores, and so do they.

## 3. The runs

Every passing run explores its whole instance; each also checks its module's types.

| run | instance | shows |
|---|---|---|
| `PluginNames` | 2 plugins from 2 repositories with one manifest name, 2 builds, 1 request, no faults | `UniqueNames`; `ImplementsRegistry`: the table behaves as `PluginRegistry` |
| `PluginFaults` | 1 plugin, 2 builds, 1 request at a time, all faults | `WaitingHasBuild`, `ArtifactForKey`, `ReadyMeansEnabled`, `RemovalIsComplete`, `NoResurrection`; `BuildsConclude` (liveness) |
| `BuildWorkspace` | 3 plugins of 3 repositories: `org/ebpf` on two hosts, and `org`, whose checkout puts files into it; 2 builds at a time, 3 in all, 1 push | `AloneIsOneCommit`, `AloneFindsItsFiles`, `RowNamesItsObject`, `BuiltFromItsDirectory` |
| `EbpfPrograms` | 2 plugins, 2 programs, 1 closer, a ring of 2 | `RegisteredIsOpen`, `AtMostOneLateEvent`; `ReadersEnd`, `FullRingDrains` (liveness) |
| `PluginMetrics` | 2 ids, names `a` and `a_b`, metrics `c` and `b_c`, 3 manifests of 2 shapes, 3 goroutines at a time, 4 in all | `RegistryIsUnion`, `OneHolder`, `HeldAsDeclared`, `ExposedAsRecorded`, `EntriesKeepToNames` |
| `FilterEngine` | 2 series, 2 adders (one of both series, one of one), 2 queries, a range or a function | `EvaluationIsSnapshot`; `SamplesGetIn` (liveness) |
| `FilterCache` | 2 expressions, 2 queries, the cleanup routine, TTL 1, 4 instants | `ValidUnlessRaced` |
| `FilterParser` | every token, expressions of up to 8 | `AcceptedIsSentence`, `RefusedForGood`; `ParsesEnd` (liveness) |

Four runs find a documented statement violated; see section 6.

**Why the bounds are enough.** The hazards are between two goroutines: two
builds of one plugin, a build and a request, two requests, two readers of an
entry; each instance has both. A collision of names needs two plugins whose
manifests agree, a reload needs two programs and one plugin, a full
ring needs two events, a collision of full names needs the pair `a`/`b_c`,
`a_b`/`c`. A build that disturbs another needs two at a time; a third in all lets one
run alone after both, which must put the row right, and after the leftovers of a failed one.
`PluginMetrics` begins four goroutines: two builds for two rows, and a rename and a delete, or
a rebuild and an enable, that meet them. The clock of the filter modules needs one instant before, at and
after an expiry (TTL 1, times 0 to 3) and one instant outside a range
(range 0, times 0 to 1). Eight tokens are those of
`rate(metric[5m])` and of the README's grouped sum, with every shorter nesting. `PluginFaults`
uses one plugin because the actions of the lifecycle relate two plugins through names only, which
is `PluginNames`' question, and one request at a time, which may delete or rebuild between
any two steps of the builds: that is what its liveness property asks for. Its safety properties
are proved for any number of plugins, builds and requests (section 5), where two requests matter.

`ReadyMeansEnabled` excuses the plugins of `met` and of `unstarted` on purpose. A disable between the two
writes of an enable leaves the row and the runtime apart, as nothing in the code orders them; a delete
whose SELECT or DELETE fails (service.go:250-273) leaves a ready row without a runtime entry, and so does
a lost answer that makes an enable stop between its two writes. These are
defects the property does not find, and the hazards at those lines say so. What is left is not excused: every fault of
git, the build, S3 and the kernel, a failed or overlapping build, and every crash. The excuses end with what repairs
them: a restart starts what the rows say, and from then on the plugin counts again; so does a plugin of
`unstarted` that is enabled or rebuilt. With requests one at a time `met` stays
empty, so the run checks the property without that excuse.

`RemovalIsComplete` is what finding 1 leaves of the acceptance table's promise: a delete that no
other operation on the plugin overlaps, and that S3 does not refuse, leaves no runtime entry and no object, even the object of
a build that failed after its upload, or whose record failed or was cut off by a crash, which no row names. Nothing that
happened before the delete is excused. Its mutant deletes only the object that
the row names.

**Deadlock** is checked everywhere but in the parser's runs, for a parse ends; in
`EbpfPrograms`, where the programs are
a finite supply, and when all are used, unloaded and their readers have exited
nothing is left to do (a closer that holds the lock is such a state too); and in `BuildWorkspace`
and `PluginMetrics`, where the goroutines to begin are a finite supply (`MaxBegun`): nobody
need ever ask for another build.

**Symmetry** is used for interchangeable plugins, requests, builds, queries or
expressions, in runs of safety properties only.

## 4. Fairness and liveness

| property | fairness | justification |
|---|---|---|
| `BuildsConclude` | weak, of the steps of each build goroutine | Go runs every goroutine; git, docker, S3 and PostgreSQL are assumed to answer, with a result or an error. No request, crash or restart is assumed to happen. |
| `ReadersEnd`, `FullRingDrains` | weak, of the steps of each reader | Go runs every reader. Unloading, events and the end of a context are not assumed. |
| `SamplesGetIn` | weak, of the steps of each query and of an adder that has announced itself; strong, of `Announce` | Go runs every goroutine. Strong fairness of `Announce` is what `sync.Mutex`, on which writers queue, gives: one that waits for a millisecond is handed the mutex next. That readers let a writer in is the `RWMutex` rule, not fairness: with the mutant `RLockAnytime` the property fails. |
| `ParsesEnd` | weak, of the parser's steps | A parse is a loop of one goroutine that waits for nothing. |

## 5. What is proved

Every safety property of the passing runs is a theorem for all values of the
constants (any number of plugins, repositories, goroutines, series, any bounds
and any set of faults), from the named `ASSUME`s of the modules only. Those say
that null values are outside their sets, that sets a `CHOOSE` draws from are
not empty, that numbers are naturals, and that a full name is injective in the
metric for one plugin.

* **PluginLifecycle.** `TypeCorrect`. `TableImplementsRegistry`: the refinement
  `listed <- Listed`; an addition is a `Register`, a build's record a `Rename` or a
  stutter, a delete a `Remove` or a stutter, everything else a stutter.
  `NamesStayUnique`: an added or renamed row passed `NameTaken`, and other steps only
  shrink `Listed`. `DeletionIsFinal`: updates match no row. `WaitingRowsHaveBuilds`: each
  step that ends a build before it recorded either writes the row or lapses.
  `ArtifactsBackRows` needs a strengthening: `ArtifactForKey` alone does not survive
  `BuildRecord`, which sets the key. `ArtifactInv` adds that a build about to
  record has its object uploaded, unless a delete is between bucket and table
  or was cut short (`ArtifactForRecord`), and that rows and goroutines concern
  ids handed out (`InUse`), so that an added row has no old build.
  `ReadyIsEnabled` needs `ReadyInv`, for the plugins on which no requests met: a row that is due, of a plugin
  no database error cut off (`unstarted`), is
  started, or its request is between the row and the runtime (`DueIsStarted`); a disable under way
  finds the row not ready; an enable whose read of the row missed a key finds the plugin started by
  the build that set it, or that build cut off (`StaleReadIsStarted`). `MetInv` says such a plugin has one request at most,
  and so none that disables it in between (`OnlyRequest`); a crash leaves no request, which is why
  `met` may be forgotten there. `RemovalsAreComplete` needs `RemovedInv`: an undisturbed delete
  under way has the plugin for itself, without runtime entry and, at its last step, without
  object (`DeleteAlone`); a plugin gone in this way has no build, and no request that could write
  anything of it (`Gone`); only listed rows have a key, so a restart starts none of the gone
  (`KeyListed`). It rests on `InUse` and `IdleUnlessServing` of the two invariants before it.
* **EbpfLoader.** `TypeCorrect`; `RegisteredStaysOpen` is inductive with
  the types; `LateEventsBounded` needs `LateInv`: a late call is the reader's last
  (it is at its check or gone), none was made while the context lived, and a
  program that is not loaded has no reader.
* **BuildWorkspace.** One inductive invariant `Inv`. `Apart`: a build that runs alone has no other
  build with a directory it can reach; `Cloned` and `Built`: for such a build, per step, what
  the disk holds in its directory and what its locals are; `ByPath`: a clone, and a commit read from it, is of a repository
  of that path (`OfPath`); files in a directory, and a manifest read there, are of a commit whose checkout puts files there
  (`PutInto`); an object is of one whose checkout reaches the source it is compiled from or the directory it lies in (`Feeds`). The
  frame lemma (`StepFrame`, `RemoveFrame`) says a step of one build changes the disk only
  in directories it reaches, so the builds that run alone keep their part. `BuildsOneCommit`,
  `BuildsFindFiles`, `ObjectsKeepToDirectory` follow; `RowsNameObjects` is a conjunct of `Inv`, kept by an
  upload because a build at its `record` is excused, and restored by its `Record`.
* **PluginMetrics.** `RegistryIsUnion`, `OneHolder` and `HeldAsDeclared` are
  inductive only together (`DynamicInv`): that removing a plugin's names leaves the others' in the
  registry needs `OneHolder`, which an accepted registration keeps because the
  registry is the union.
  `ExposureFollowsRows` and `EntriesStayWithNames` need `Own`, which holds until goroutines
  meet: at most one goroutine per plugin; its locals agree with the row (`Fits`); a
  plugin nobody starts has an entry that agrees with its row (`EntriesRight`). That another
  plugin's goroutine cannot disturb this is the lemma `Frame`, from `UniqueNames` and `FreshIds`.
* **FilterEngine.** `TypeCorrect`. `EvaluationsAreSnapshots` needs `CopiesFit`: each selected series is still to be
  copied, or copied as it is in the store, or cut; adders cannot change that, for they wait, and a
  cut that takes a sample away is recorded.
* **FilterCache.** `TypeCorrect`; `EntriesStayWhole`: an entry never raced for is
  whole while nobody changes it, is there while a lookup looks at its
  expiry, and is gone while its expiry is being deleted; `HitsAreFresh` follows.
* **FilterParser**, for expressions of any length. `TypeCorrect`. `ListsStayOut`: a list's
  call is the innermost one while its list is read, and when the list ends the current
  token is its closing parenthesis, at which no operand starts (`ListInv`), so that every
  such expression is refused. `AcceptedAreSentences` and `RefusalsAreFinal` compare the machine with
  the grammar, over *residuals*: `Remains` says which phrases (a text with
  the nodes it makes) complete the innermost function from the place `at`, `Closings` how the calls
  on `stack` go on after it.
  Soundness (`SoundInv`): what was read, followed by anything that remains, is in the
  grammar; when the parse accepts, the empty phrase remains. Completeness (`CompleteInv`):
  every expression of the grammar that begins with what was read goes on with something that
  remains, so where the next tokens fit nothing that remains the parse is lost (`Lost`), and no
  step from a live state refuses. Each is kept by a step because the grammar's alternatives
  for an operand begin with different tokens.

  `FilterGrammarProofs` has the facts about the grammar alone. `Operands` is a recursive function
  of a depth; it unfolds by an induction over `Nat` for which the module derives, from the minimum of
  a well-founded order (`WFMin`, `NatLessThanWellFounded`), a form with a set instead of
  an operator: no prover here instantiates the library's own. `Grammar` then drops the depths:
  an operand is at most half as deep as it is long (`Depths`), so the grammar of all depths, cut at
  `MaxLen` tokens, is the `Sentences` that TLC evaluates (`ExprAreSentences`). `SoundInv` and `CompleteInv` quantify over the
  infinite grammar, and are the only invariants here TLC does not evaluate; what they imply it does.

**Only model-checked:** liveness (`BuildsConclude`, `ReadersEnd`, `FullRingDrains`,
`SamplesGetIn`, `ParsesEnd`), which needs `ENABLED` and is out of the prover's reach.

## 6. Findings

Each is a run in which TLC finds a statement of the repository violated.

1. **A deleted plugin's object can stay in S3** (`PluginDeleted`). `DeletePlugin`
   does not stop a build; one that uploads after the delete leaves
   `plugins/<id>/ebpf.o` for good, and starts a program for a plugin that is gone.
   The acceptance table of the documentation says a deleted plugin is removed
   from the database and S3.
2. **Enabling starts a program nobody reads** (`PluginEnabledRead`). The reader's context
   derives from the HTTP request's, which ends when the handler returns.
   The plugins guide gives enabling as the cure for missing metrics.
3. **A range query removes samples from the store** (`FilterReadOnly`).
   `RangeSelectorNode.Evaluate` assigns the filtered points to the store's own
   series, under the read lock.
4. **A grouped aggregation is never parsed** (`FilterGrouping`). `sum by (interface)
   (bytes_sent)`, an example of the README, is refused at the parenthesis that closes
   the labels: `parseLabelList` leaves it as the current token, and the operand is parsed from it.

Noticed while modelling, and not given a run:

* A successful build leaves status `stopped` (service.go:185), where the log
  line and the documentation (`docs/tech-app.md:578`) say ready.
* Disabling clears a flag; the program stays loaded and attached, where the documentation
  says resources are released (`docs/tech-app.md:580`). `RemovePlugin` and
  `StopPlugin` leave the program loaded as well.
* `StartAllPlugins` stores `ready` after `StartPlugin`, which swallows the failures of the
  download and the load.
* A crash during a build leaves the row pending or building for good: boot skips it.
* `rate` needs two points and the store keeps one: it never returns a value.
* In the parser, label matchers and label functions are never accepted either, the
  closing parenthesis of `histogram_quantile` is not read, an operator and what follows it
  are ignored (`sum(a) + sum(b)`, `plugins/README.md:70`, is `sum(a)`), and a label list
  without `)` is a loop without end.
* A rebuild that changes a metric's help or labels loses the metric: the registry
  keeps a name's first description after `Unregister` (`shape`, `Accepts`), so the new
  registration is refused and skipped.
* A result can stay in the cache for ever: a fill between the two deletions of an expired
  entry (`raced`) leaves it without expiry, which is taken as valid and which `Cleanup`,
  ranging over the expiries, never visits.
* A clone's directory is named after the URL's path and cleaned up by the manifest's name, so
  unless the two agree `// Cleanup build directory` (service.go:208) removes another directory, or none,
  and the clone stays. Builds of `host1/org/tool` and `host2/org/tool` share a directory, and
  a checkout of `org` can write into it: overlapping, one can upload the other's object (the excuse of `RowNamesItsObject`, within
  what `BuiltFromItsDirectory` allows).
* `Loader.Close` unloads programs under the lock that `UnloadProgram` takes: with a program loaded it waits
  for itself for ever, and every later load and unload waits for it. The only caller is the runtime's `Close`, which nothing calls.
* `Ref` is "branch, tag, or commit" (loader.go:18), and is always cloned as a branch.
* A rebuild that changes the manifest's name leaves the old name's metrics registered: the
  registration under the new name drops nothing of the old.
* An enable that read its row before a rebuild finished registers and runs the old manifest.
* The declared metrics are registered and never counted: `GetCounter` and `GetGauge` have no caller.
* `PluginBuildFailure` is counted by a delete (service.go:276), which re-creates series of the name it just
  removed, and by an add that fails (handlers.go:162), under the URL; never by a build that fails.
* The build status gauge stays 1 for the old versions of a plugin. `EBPFProgramUnloaded` has no caller.
* An event handled after its plugin's removal re-creates the plugin's events counter.
* `GetDashboard` drops the error of its lookup by id (handlers.go:579, a shadowed `err`).
* `PluginRepo.List` with a status builds a `WHERE` after the `ORDER BY`.
* A `summary` metric passes validation and gets no collector.
* `BroadcastWS`, `Subscribe` and the metrics service's `AddMetric` have no caller.

## 7. What is not modelled

* **Manifest parsing, SQL and S3 clients, docker, git, logging, configuration**: I/O
  without protocol; their results enter as outcomes of a step.
* **The decoding of events** and the choice of the collector: an event is a token.
* **Values of samples, arithmetic of functions**: pure computations; in this version a series
  has one sample, `EvaluateWithMetrics` has no caller and the parser makes no binary operation.
  A long evaluation that overwrites a younger result (engine.go:88) is not told apart from
  others, for results have no identity in `FilterCache`.
* **The WebSocket subscribers**: `BroadcastWS` has no caller, so a channel never
  fills and `cleanupWS` never closes one; the double close cannot occur at this commit.
* **Dashboards, filters, metric definitions**: rows of their own that nothing else reads.
  `DashboardRepo.Save` reads and then writes; the primary key refuses what could go wrong.
* **The metrics service**: reads; what it could change has no caller.
* **The collector's counters and gauges, and WASM series**: nothing reads them but a scrape. The gauge of loaded programs
  counts loads (runtime.go:205-214), even one whose attaches all failed, which the loader only logs
  (loader.go:125-131), and is not lowered when a program is dropped: no simple relation
  between it and the kernel is true of the code.
* **The order of samples**: two handlers may take their times in one order and store their samples in
  the other (the time is taken before the lock), so that the older stays; `FilterEngine` has these behaviours
  and no property about them, since nothing in the code promises an order.
* **A program that a later load overwrote** (loader.go:160) stays open in `EbpfLoader` until its reader has ended; when
  the garbage collector then closes its links is left out.
* **A restart within `PluginMetrics` and a second process**: a restart empties the registry and the
  runtime; `PluginLifecycle` has it. The names Prometheus refuses as malformed are left out.
* **The insides of a container, the log it writes, partial checkouts, and what a checkout removes** (section 2).
* **Web UI and the plugins' own code**: the UI keeps no state the server depends on;
  the plugins' kernel code is the source of `KernelEvent`; the server loads no WASM.

## 8. What could follow

The order was: the lifecycle, since every hazard between durable state and memory
is there; the loader, the filter engine, its cache and its parser; then the files of builds and the
composition of runtime and metrics. Left, by value:

1. A refinement of the runtime's steps in `PluginLifecycle` from `EbpfLoader`'s.
2. The aggregations of `ast.go` as pure operators, when the store keeps more than one sample.
3. `WebSocketHub`, when something broadcasts.
