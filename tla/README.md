# Aspect CLI: verification project

TLA+ models of the Aspect CLI, the TLC configurations that check them on small
instances, and TLAPS proofs of what matters most for every instance. Paths below
are relative to the repository; `RT/` stands for `crates/axl-runtime/src/`, `BZ/`
for `RT/engine/bazel/` and `AX/` for `crates/aspect-cli/src/builtins/aspect/`.

    tlc -config MCGrpcSink.cfg MCGrpcSink      # one run
    tlapm GrpcSinkProofs.tla                   # one module of proofs

## 1. What the system is

The CLI (`crates/aspect-cli`) runs tasks written in AXL, a Starlark dialect,
on the runtime `crates/axl-runtime`. A small launcher (`crates/aspect-launcher`)
downloads and starts it; it fetches the AXL modules its project names, loads and
configures them, and runs one task. The task most of the program exists for is
one that runs Bazel: `ctx.bazel.build(...)` starts a Bazel client, reads what
the Bazel server writes (the Build Event Stream through a FIFO, the execution
log through a growing file, workspace events through another FIFO), hands every
event to a set of consumers, and lets the script iterate and wait.

    launcher --exec--> CLI: modules -> scripts, configs, command line, features -> task
                                                                                    |
    Bazel server --FIFO--> BES reader --> Broadcaster --+--> build_events() iterators
                              |                         +--> gRPC sink --> backend (BES)
                              |                         +--> tracing sink
                              +--> file sinks (raw copy)
    Bazel server --file--> execution log reader --ring--+--> execution_log.file sinks
                                                        +--> execution_logs() iterator
    Bazel client  <-- child.wait() -- task's thread --> join readers, then sink.wait()
         ^--- SIGINT, SIGKILL --- signal handler, Cancellation, health check

### Components

| component | state | operations | interacts through | correct when |
|---|---|---|---|---|
| **Broadcaster** `BZ/stream/broadcaster.rs` | subscriptions with filter and liveness token, closed flag, clones | subscribe, subscribe_filtered, send, close, recv, drops | one mutex; unbounded channels; weak references | a consumer gets exactly the accepted events sent since it joined, in order, then the end |
| **gRPC sink** `BZ/sink/grpc.rs`, `sink/retry.rs` | replay buffer with a byte budget, sequence numbers, acked position, retry budget, deadlines, a connection | lifecycle calls, connect, pre-load, replay, send, ack, half-close, reconnect, report | broadcaster subscription and forwarder queue; gRPC stream | what it reports is what the backend has; it ends |
| **BES reader** `BZ/stream/build_event.rs` over `crates/galvanize` | FIFO, `expecting_retry`, file sinks and their signals | open, read, look at descriptors, look at the client, truncate, flush, close | FIFO with Bazel; broadcaster; `FileSignal` condition variables | nothing lost or cut between build attempts; every waiter is told |
| **Execution log stream** `BZ/stream/execlog.rs`, `sink/execlog.rs`, `iter/execlog.rs` | reader over a growing file, bounded ring, receivers, sink threads | read, send or try_send, receive, join | spmc ring in which the slowest receiver bounds the sender | file sinks complete or an error; nobody waits for himself |
| **Clients and OS signals** `BZ/live.rs`, `BZ/process.rs`, `aspect-cli/src/main.rs` | registry of pids; the handler's ticks and bursts | spawn, register, reap, unregister, signal all, kill all | signal handler's runtime against the task's thread; processes | no client orphaned, no stranger signalled |
| **Cancellation** `BZ/cancel.rs`, `info.rs` | none of its own: pids and busy state of Bazel | cancel, wait, force | processes, signals, polling | ends; hits only the build it means |
| **Health check** `BZ/health_check.rs`, `sandbox_recovery.rs` | Bazel's lock, pid file, stranded sandbox | probe, kill, probe again, clean up | processes | a wedged server is replaced, and what its kill strands is removed or warned of |
| **Credentials** `RT/engine/aspect/auth.rs`, `credential_store.rs` | deployments in three layers, one map of sessions in keyring or file, token cache | login, logout, configure, use, remove, credentials, status, credential helper | files several processes rewrite whole; authorization servers | no session lost, a refresh token used once, a token sent to whom it is for |
| **Module store** `RT/module/disk_store.rs`, `aspect-cli/src/builtins/mod.rs` | markers, content store, expanded trees, the tree of built-in tasks | extract, download, check, expand, mark | file system, crash, second process | what a command uses is whole |
| **Launcher** `crates/aspect-launcher` | tool cache, release hint, the runner's restore | configure, wait, resolve, download, rename, exec | file system, second process, releases API | what is exec'd is whole, and not old |
| **Loading and evaluation** `RT/eval/*.rs`, `RT/engine/{trait_map,feature_map,task_map,task_info,task_context}.rs`, `aspect-cli/src/{main,cmd}.rs` | module cache, load stack, scopes, task and feature maps, trait instances, phase log, defers | load, register, configure, parse the command line, run features, the task, its defers | AXL code calls back into all of them | one identity per file; the last word wins; what was deferred runs |
| **Bazel rc** `crates/bazelrc`, `BZ/mod.rs` | options by section, sources, gates | discover, read, import, merge, expand, partition, announce | rc files; the running Bazel's version | what Bazel is given is what files and user say |
| **gRPC server** `RT/engine/grpc/*.rs`, `starbuf-derive/src/lib.rs` | services, socket, accept loop, a handler thread per call, response channels | add, serve, drain; push, complete, abort, cancelled; client calls and loops | clients, tonic, AXL handlers | a client is told what its handler did; a drain leaves nobody waiting |
| **Processes and streams** `RT/engine/std/process.rs`, `crates/axl-types/src/stream*.rs` | command, child, pipes, taken handles | spawn, status, wait, try_wait, kill, collect; read, write, close | pipes and files of the operating system | an output that ended is whole, a status true; the task is not what its child waits for |
| **HTTP and futures** `RT/engine/http.rs`, `RT/engine/async/*.rs` | lazy requests, transforms, an iterator, output files | derive, block, iterate, download, upload | the runtime's threads, network, shared file offsets | a request goes out once; what was checked is what is in the file |
| **Files** `RT/engine/std/fs.rs` | the tree, the registry of reads in flight | make, move, remove, write, append, poll | other processes that write; a reading thread per path | appended records are all there; a file that is still coming is not taken for whole |
| Workspace event stream `BZ/stream/workspace_event.rs` | as the execution log, over a FIFO, no sinks | read, send, join | the same ring | `wait()` returns |
| Build `BZ/build.rs` | child, three streams, sink handles (Idle, Live) | spawn, try_wait, wait; sink bind, wait; iterator bind, next, drain | owns the above in a fixed order | each join returns and reports, sinks can be bound again |
| Task orchestration `AX/private/lib/bazel_runner.axl`, `lifecycle.axl` | attempt counter, sinks | attempt, retry, recover | the components above | every attempt's sinks are waited for before they are bound again |
| Comments and checks `AX/feature/*.axl` | one comment per pull request, a state block inside it | contribute, post, fall back, deduplicate | GitHub or GitLab API, a coordinating service, sibling jobs | the last state of every job ends up in one comment |
| Delivery `AX/delivery.axl`, `deliveryd.axl` | marks in a daemon | record, query, deliver, mark, delete | concurrent jobs, crash | a changed target is delivered, once |
| the rest (environment, WASM, templates, results and formatting, code generation) | | | | see PROJECT.json |

### What is hard here

* **Interleaving**: threads of one process (reader, sinks, forwarder, task, signal
  handler), two processes of Bazel, and other commands of the same user move
  between any two looks at the world.
* **Unreliable delivery**: the backend may ack late, not at all, end or lose the
  stream at any await; what was written and not acked must come back, once and
  in order, out of a buffer that may have had to forget some of it.
* **Waiting**: every thread ends by being told by another. A way out that does
  not tell, or a receiver nobody reads, blocks `wait()` for good.
* **Attempts**: Bazel retries a build after a remote cache eviction on the same
  FIFO; each layer decides for itself what that means.
* **Files shared by processes** (credentials, module store, tool cache, comments)
  are read, changed and written back whole, and a process may die in between.
* **Order of evaluation**: what a file, a trait, an option or a flag means is
  decided by whoever comes first or last, across files that load one another.

`PROJECT.json` lists these hazards one by one at their lines.

## 2. The modules

| module | what it is |
|---|---|
| `Fanout` | abstract: one log, a cursor per reader |
| `Broadcaster` | `Broadcaster<T>`, `Subscriber`; refines `Fanout` |
| `RetryBuffer` | `RetryBuffer<T>` of `sink/retry.rs`: push, prune, evict, as operators on its three variables |
| `GrpcSink` | `work`, `retry_lifecycle`, `preload_first_event`, `drive_stream`, `send_bounded`, `drain_acks`; extends `RetryBuffer`; refines `Upload` |
| `Upload` | abstract: an in-order upload that answers Ok only when complete |
| `BesReader` | `BuildEventStream::spawn` over `galvanize::Pipe`, Bazel's two processes, the task's iteration and waits |
| `ExecLog` | `ExecLogStream::spawn_with_file` over `galvanize::StreamingFile`, the ring, the sinks, the iterator, `join` |
| `Bazel` | environment: pids, clients, the server, its lock, pid file and sandbox; `process.rs` |
| `Clients` | `live.rs`, the four steps of every subprocess, calls of a task, `run_shutdown_sequence`; extends `Bazel` |
| `Cancellation` | `cancel.rs`, `info.rs`, `health_check.rs`, `sandbox_recovery.rs`; extends `Clients` |
| `Deployments` | deployments of seed, repository and user as operators on lists |
| `Auth` | the keyring and the file of `credential_store.rs`, the commands of `auth.rs` and the credential helper by several processes; extends `Deployments` |
| `Launcher` | `aspect-launcher`: configuration, cache, hints, sources, download, exec |
| `ModuleStore` | `disk_store.rs`: expand_store; and `aspect-cli/src/builtins/mod.rs`: the embedded tree of tasks, extracted by whoever needs it first |
| `TaskNames` | `ci.rs`, `Cmd::dispatch`: the name of a command's task, and the claims for it |
| `Provision` | composes the three: launch, then extract, expand and name, by several processes |
| `Loader` | `AxlLoader` of `eval/load.rs`, and what a load may say (`load_path.rs`) |
| `Arguments` | declarations of arguments, aliases and override stores (`arg.rs`, `task.rs`, `feature.rs`, `arguments.rs`), as operators |
| `CommandLine` | `cmd.rs`: the command tree, the flags, the merge and what `describe` says; clap as far as the code uses it; extends `Arguments` |
| `Telemetry` | records and spans from the scripts to the exporters (`telemetry.rs`, both `trace.rs`, `trace_buffer.rs`), as operators |
| `Runtime` | a run of the CLI from scripts to exit code (`multi_phase.rs`, `main.rs`), with the maps of tasks, features and traits and the phase log of `task_info.rs`; extends the four before |
| `Discovery` | what a run consists of: from the working directory to scripts, configs and the statements of every `MODULE.aspect` (`helpers.rs`, `main.rs`, `module/eval.rs`) |
| `GrpcServer`, `Processes`, `Http`, `Builds`, `Files`, `TraitTypes` | what a task uses while it runs: `grpc/*.rs` with its generated dispatch and client; `std/process.rs` with `stream.rs`; `http.rs` with `async/*.rs`; the handles of `build.rs` and how `ctx.bazel.build` takes them; `std/fs.rs`; `trait.rs` with `ctx.traits` |
| `Session` | `Runtime` whose task uses one of the six, or whose program `Discovery` finds; extends all of them |
| `RunCommand` | `bazelrc`'s `RunCommand`: merge, options_for, expansion, partition, flag values, announce, as operators |
| `RcFiles` | discovery and parsing with imports; extends `RunCommand` |
| `Bazelrc` | parse_rc, new_rc, merge, invocations; the reference readings; extends `RcFiles` |
| `BroadcasterProofs`, `GrpcSinkProofs`, `ExecLogProofs`, `BesReaderProofs`, `ClientsProofs`, `AuthProofs`, `ProvisionProofs`, `RuntimeProofs` | theorems |
| `MC*` | constants for TLC; where a cfg can give them all, there is none |

### How a model's state and steps correspond to the code

**Broadcaster.** Every method holds the one mutex, so it is one action
(`Subscribe`, `Send`, `Close`, `DropHandle`). What happens outside of it is a
step of its own: `Recv`, and the two drops that make up the drop of a
`Subscriber`, receiver first and liveness token second, because `send` looks at
the token for a filtered-out event and at the channel for an accepted one.
Events are places in `log`, a history of what was accepted while open.

**GrpcSink.** One variable per field of `StreamState` and per local that lives
across an await. `phase` is where the task is suspended; each arm of the
`select!` is an action whose guard is the arm's precondition. The subscription
and the forwarder's unbounded queue are one FIFO, so event `n` is the `n`-th
event and, since the sink numbers what it takes, `n` is also its sequence
number. The request channel together with HTTP/2's windows is `wire`, with a
bounded capacity: a full one is what makes `send_bounded` wait (`"sending"`) and
a lost stream what makes it fail. Deadlines are flags: armed, they may fire at
any time, which covers every duration and every speed of the server.
`RetryBuffer` holds the byte accounting with a total that is subtracted from; the
constant `Upto` gives the sizes of the events 1 to n together, so that a run of
consecutive events has a size without a sum over a sequence (`BufferIsRun` in the
proofs says that the buffer is such a run).

**BesReader.** The reader's program counter separates the empty read
(`ReadEof`), the look at the server's descriptors (`CheckFd`), the look at the
client (`CheckPid`) and the final flush. The server opens the FIFO once per
attempt, blocks in `open` without a reader and in `write` when it is full, gets
`EPIPE` once the read end is gone; client and server may die. One file sink
stands for all: they are opened, written, truncated and flushed in one loop and
fail together.

**ExecLog.** `tail` has an entry for each live receiver, `"own"` for the one the
stream keeps. `Send` waits while any of them is `Cap` behind; without file sinks
`TrySend` drops instead. Where a clone starts is not determined by this
repository (the `fibre` crate is not part of it): `Subscribe` takes both.
`iteration` is what the script does with `execution_logs()`: nothing, drains it
before `wait()`, or holds it unread. Each sink of the instance is used or not,
so one run covers both send strategies.

**Bazel, Clients, Cancellation.** Every subprocess of a call (`Spawn`, `Register`,
`Collect`, `Released`) is four steps, because between `cmd.spawn()` and
`live::register`, and between `Child::wait` and the guard's drop, the registry
and the processes disagree; `at` says which call of the task is at work, `h`
where the handler of the signal is. A tick is any time longer than a
registration (`owed`): the handler's own claim, no more. The environment keeps
Bazel's rules as the code relies on them: one client holds the lock, others
queue or answer "busy", a SIGINT cancels, a third one kills the server, SIGKILL
orphans the command on the server, a killed server leaves its pid file and a
stranded sandbox. One kind of trouble (`fault`) is chosen per behaviour.

**Credentials.** A command is cut wherever it leaves the process: each read and
each half of a write (truncate, write) of each file, each request and the
browser. The map of sessions and the list of deployments are read whole into
`mem[p]` and written whole, as in the code. Authorization servers number
sessions, bearers and refresh tokens, and may rotate. `intended` is what the calls
would have stored one after the other, `overlap` whether two of them have held or
cleared the map at once, `cut` whether one died in a save.

**Downloads.** A file is an object of its own, as on a file system: names
(`tool`, `tmp`) come and go while a process goes on writing. It has two chunks.
There are twice as many files as URLs, one per process and one more, which is one
more than can have a name or a writer, so that a new file is always to be had.
Lookups of the configuration are operators on the directories of a world;
resolving (hint, releases API, touch), downloading (create, write, check,
rename, retry) and exec are steps, and so are the store's (link, remove, fetch,
land, expand entry by entry, mark). A name is a sequence of words: what `TaskNames`
depends on is where the words of a job, a shard and a counter meet.

**Runtime.** AXL code is the environment: a program is what files load, define
and do; `Evaluate` is the loader with its three structures as in `load.rs`
(`cache` with Loading and Loaded, `frames`, `scopes`), and each call back into
the runtime (setting an argument, reading a trait, adding a task, registering an
exporter, deferring, entering a phase, failing) is an action. Identity is what a
`made` number stands for: the frozen module a type or a feature came from.
An argument is the record of its variant of `Arg`; a value keeps its type and its
text, because clap sees config.axl's values as texts while the task gets them with
their type. A command line is a sequence of flags and words, and comes with what
it says of each argument (`says`) or that it is wrong: `LastWordWins` and
`UsageErrorsAreReal` compare the code's answer with that, never with clap's.
Telemetry is one record, `tel`, with the buffer of the file sinks and, for spans and
logs, the queue of the SDK's batch thread and the state of the buffering exporter.
`install_late` is two steps per signal, the lock and the replay after it, and the
batch threads may export (`BatchThread`) between any two steps from there on.

**Discovery.** A path is the sequence of its segments and a label that of a load
statement, so that `.`, `..`, doubled slashes and a path that leaves its module are
what they are. `DiscoveryStep` finds the project's root, the directories on the way to
the command's, their scripts and configs, and reads the `MODULE.aspect` of the project
and of each dependency; what it finds is the `program` the runtime then runs.

**Session.** The implementation of a task is AXL code again: `program.uses` says which
helper it may use, and its operations are interleaved with what runs beside them. Each
helper is one record variable (`net`, `proc`, `web`, `bld`, `fil`, `trt`), whose `thread` says what the task's
thread is blocked in; the implementation ends only while it is free, and an operation
that fails fails it. In `GrpcServer` a call has two halves that end separately: the
dispatch tonic awaits (and drops when the client goes), and the handler on its blocking
thread. In `Processes` the two ends of a pipe are `ends` (in the child object, taken,
closed) and the child's program, which blocks on a full pipe and an open stdin; it can be
killed by anyone and leave a process behind that holds the pipe. In `Http` a future is its
request, its transforms and whether it still has the request; the bodies of requests are
read through clones of one file, hence one `offset`. `Builds` follows the handles of sinks
and iterators from build to build: a handle has a phase and the build it is bound to; of
the reader, the uploads and the client of a build only the ends are left, since
`BesReader`, `GrpcSink` and `Clients` are about how they come (a client that a signal ended
has no exit code). A filter names kinds of events; what is compared are two tables of numbers,
one for the names and one for the payloads. The reader may have
broadcast any number of events before the handles are bound (`since`), all at one moment.
In `Files` a path leads to a number and a number to a file or a directory, so that a hard
link and a rename are what they are. Writing is two steps, opening and writing, and other
processes write and read between them; each `fs-read-probe` thread is one of `readers`,
and `probes` is the registry that says which of them a path has. In `TraitTypes` a value is
a number or a text or leads to a place of a heap of lists, dicts and instances; the text of
a module is evaluated and frozen first, then the task performs its operations in any order.

**Bazelrc.** Reading is a machine with a stack as in `parse_file`; everything after
it is a pure function of the run command, written as in the code and compared
with a second reading that walks the text.

## 3. What the runs check

| run | instance | shows |
|---|---|---|
| `broadcaster` | 2 consumers, 2 kinds, 2 clones, 3 sends | `ChannelsSound`: a channel holds exactly what its consumer is owed, in order. `EndIsInOrder` (`EndMeansDrained`, `NeverCutOff`): the end is not told early and nobody is left on a channel no one can feed. `SendPrunesTheDead`: no leak of a dropped subscription, filtered or not. `EveryConsumerEnds`. `ImplementsFanout`. |
| `grpc_sink` | 5 events of mixed size, budget of 3 bytes, one event larger than it, retries 0, 1 and 2, channel of 2 | `BufferSound`, `WireInOrder`: replay is complete and each connection carries each event once, ascending. `OkMeansConfirmed`, `LossIsKnown` (`BytesAccounted`, `NoSilentLoss`, `EverythingIsUploaded`): what Ok means, and what can be missing under it. `RetriesAreBudgeted` (`BudgetIsConsecutive`, `NoRetryMeansOneStream`, `NeverGivesUpEarly`): as many reconnects as asked for, no more and no fewer. `SinkReturns`: it ends whatever the server does. `ImplementsUpload`: until an event has to be evicted, no gap and no reordering at the backend across any number of connections. |
| `bes_reader` | 3 attempts, FIFO of 2, deaths, every fault of the sink or none | `StreamIsWhole` (`GapIsNotTheEnd`, `FirstAttemptDelivered`), `EndsAgree` (`SignalAgrees`: seven ways out, one answer; `OnlySinksFail`), `FileMirrorsStream`: a file is what was broadcast since the last eviction, all of it and nothing before. `TaskReturns` |
| `exec_log` | up to 2 sinks that may fail in three ways, three uses of the iterator, ring of 2, log of 3 | `SinksSound` (`NoSinkGap`): a successful `wait()` means every file sink has all that was read. `SendErrorIsSinks`: the reader never stops for want of a receiver still to come. `WaitReturns`. |
| `clients` | 2 pids, seven scripts, a signal at any moment of two, 7 kinds of trouble or none | `PidsSound` (`RegistryIsOurs`): a registered pid is our child's, but for one step. `SignalReachesAll`: nobody registered survives the handler untold. `ShutdownIsOrderly` (`OnCiGraceful`, `ShutdownExits`). `KilledMeansCleaned`: "healthy" after a kill means that the sandbox was cleaned or the user warned. `WaitReturns`, unless the server cannot be got at. |
| `credentials` | 2 processes of up to 3 commands, 7 groups of worlds, 5 kinds of trouble | `LoginsKept` (`LoginsSurvive`, `SpentOnce`): commands one after the other lose no session and present no rotated token twice. `DefaultIsOne`. `TokensFit` (`SessionsKeepKind`, `AnswersAreOwners`). `StepsKeepTheRest` (`KeyringKeepsOthers`, `DefaultKeeps`, `ApiTokenMatches`). `CommandsEnd`, unless a browser or a server never answers. |
| `downloads` | 2 processes, 2 launches together or 3 one at a time, 2 releases, 2 modules in 4 versions | `LaunchSound` (`ExecWhole`: what is exec'd is whole, or what a download of unannounced length had when it broke off; `FreshEnough`), `StoreSound` (`CasMatches`: an archive is the one its name says, and all of it but for a last chunk that is late or lost; `ExpandedWhole`; `BuiltinsWhole`, `ExtractedOnce`: the embedded tasks are there as a whole, whoever extracts them and whatever a crash left), `NamesSound` (`OwnNames`, `PlainFirst`): commands of a CI run never share a name, however they race, and are not numbered without need. `ProvisionEnds` |
| `runtime` | all graphs of 5 files with up to 2 loads in one, 1 elsewhere; four families of functions; colliding names; 90 declarations of arguments, with every kind of value a config writes and of line that is typed | `LoadsAreSound` (`ScopeIsHome`, `OneModulePerFile`, `MissingMeansUndeclared`), `ConfiguredAsWritten` (`CycleIsReal`; `LabelsLeadHome`: a load leads to the file it names, in the module it names, or is refused; `OneTaskPerCommand`, `LastWordWins`, `UsageErrorsAreReal`, `DescribedIsEffective`), `TaskIsCarriedThrough` (`ExportersInstalled`, `TraitsAreShared`, `DefersRun`, `PhasesCoverTheTask`), `Ends`. `HelpersSound`, which is `NothingUntraced` (an exporter that is installed late has every record once) and what the uses of helpers and the projects a run may be started in promise: `DiscoverySound` (`ConfigsInOrder`, `ScriptsFound`, `ModulesWhole`: a run consists of what its directories and its `MODULE.aspect` files say, or one of them is wrong); `CallsSound` (what a client is told, its stream and its upload are what the handler did, whoever left first), `DrainIsComplete`, `SocketSpared`; `ProcessesSound` (`StatusIsTheChilds`, `OutputIsWhole`, `WaitsForOthersOnly`, ...); `RequestsSound` (`SentOnce`, `ErrorsAreMapped`, `IteratorGivesAll`, `DownloadIsWhole`, `StreamIsSharedOut`); `BuildsSound` (`SinkSpeaksOfItsBuild`, `EveryUploadIsWaitedFor`: handles that go from build to build; `IteratorIsWhole`, `WaitMeansOver`); `FilesSound` (`RecordsSurvive`: no record appended to a file is lost; `WholeOrNothing`: a read gated by a length gives no beginning; `PollsAreFresh`, `OneReaderAPath`: a poll gives what is new, and leaves one thread behind at most; `TreeIsSound`); `TraitsSound` (`OwnContainers`, `DefaultsAreUsable`: instances share no list they did not ask to share, and can change what they got from a frozen default; `FieldsKeepTypes`, `EqualMeansAlike`, `SealedStays`, `OneInstanceATrait`) |
| `bazelrc` | imports among 3 files, one file with 6 optional sections, typed flags, overlays, versions 7, 8rc, 9, unset, failed probe | `ReadAsWritten` (`ImportFaultsAreReal`, `ImportsInPlace`, `ExpansionInPlace`, `GatesMeanThisBazel`, `AnnounceIsTrue`), `ArgumentsArrive` (`TypedWins`, `PairsStay`, `ReportedIsEffective`) |

Each property has a mutant in `PROJECT.json`: a plausible bug in the code under
which the property fails.

### Disagreements between the code and what it says of itself

Three runs expect a violation; each checks one statement of a comment.

* `exec_log_deadlock` (`BZ/stream/execlog.rs:236` against `:98`): `send` also waits
  for the receiver the stream keeps for itself. A script that drains
  `execution_logs()` before `wait()`, as `build.rs:1100` advises, beside a file
  sink, as `BZ/mod.rs:469` allows, hangs past 1000 entries.
* `clients_orphan` (`aspect-cli/src/main.rs:492` against `:486`): the second look at an
  empty registry can fall into the same gap between spawn and registration as the
  first; the client is left running without a SIGINT.
* `module_marker` (`RT/module/disk_store.rs:291` against `:302` and `:375`): a marker
  outlives the expansion it vouched for; back at its version, a half-expanded
  directory of another one is used.

### Noticed while modelling, and not shown by a run of their own

*Streams and sinks*

* `sink/grpc.rs:823`, `:827` against `:42` and `build_event.rs:655`: a non-retryable
  status that arrives while the sink is inside a failing send is swallowed by
  `drain_acks` and the sink reconnects; after a cache eviction the first attempt's
  `last_message` ends the upload, the second attempt is not uploaded and the sink
  answers Ok (`EverythingIsUploaded` is stated for one attempt).
* `build_event.rs:239` against `:236`: a retry that is opened, written and closed
  between the two looks is dropped.
* `build_event.rs:92` against `broadcaster.rs:453`: a file sink that cannot be opened
  leaves the broadcaster open and the FIFO unread. After the reader has failed a
  further attempt opens a FIFO nobody reads, and Bazel blocks (`Abandoned`).
* `crates/galvanize/src/lib.rs:242` against `execlog.rs:283`: the end is concluded from
  two looks, and what Bazel writes between them is lost under an Ok.
* `sink/retry.rs:253`: an event larger than the whole budget evicts everything
  before it is admitted; the comment at 245 speaks of the oldest.
* `sink/retry.rs:384`: `acked` counts sequence numbers up to the newest ack, the
  evicted ones the backend never stored included.
* `galvanize/src/lib.rs:169`: a retry that opens the FIFO between the empty read
  and the look at the descriptors makes the read return `Ok(0)`, which `read_exact`
  turns into `UnexpectedEof` (see `OnlySinksFail`, which holds for one attempt).
* `build_event.rs:180`: file sinks are truncated at the evicted `BuildFinished`,
  not when a retry starts, and so also when none follows (`:179`, `:749`).
* `build.rs:954`: iterators are bound after child and reader run; nothing makes
  them win the race the comment at 943 says they win.
* `build_event.rs:100`: a client that exits before the server opens the FIFO
  leaves the reader in `open()`; likewise `galvanize/src/lib.rs:218` and a log
  that is never created. `TaskReturns` and `WaitReturns` say what they assume.
* `build.rs:1104`: there is no replay buffer behind `build_events()` any more.
* `build.rs:850`: a file sink is bound before what else may fail in the spawn, and is then
  `Live` for a build that does not exist: `wait()` on it, in a deferred callable, blocks
  for good. `:160` says the counts are of the most recent bind, but a sink that is bound
  again keeps those of the last wait until the next.
* `execlog.rs:101`: without file sinks the stream's own receiver fills the ring;
  after 1000 entries an iterator gets nothing more, however fast it is.
* `sink/execlog.rs:66`: the `BufWriter` is dropped without a flush, so the error
  of the last write is lost (`SinkEnd` under the fault `"flush"`).
* `stream/workspace_event.rs:100`: the stream's own receiver lives through the
  join; past 1000 unread events `wait()` cannot return.

*Clients*

* `build.rs:938`: every `?` after the spawn drops the guard of a running client; a
  signal that follows no longer reaches it (`abandoned`).
* `cancel.rs:159`: a failing probe of the client's pid looks like no client, so a
  `force` has nobody to kill and `wait()` polls on; `is_server_busy` takes every
  failed probe for "free". The pid that `force_kill` found may be a stranger's by
  the time of its SIGKILL (`:167`).
* `health_check.rs:209` and `info.rs:191` disagree on whether `bazel info output_base`
  needs the lock. If it does (the fault `"locks"`), the pid of the server cannot be had
  while a command runs: `force` kills the client alone, the command runs on without it
  and `wait()` polls for as long as it does (`ServerOutOfReach`); no client has to be
  deaf for this.
* `health_check.rs:187`, `:303`: trash that cannot be removed is warned of and the answer
  is "healthy" all the same; a trash directory that cannot be looked at counts as none.
* `health_check.rs:300` kills the server of a healthy foreign build that holds the lock.
* `main.rs:414`: on CI an AXL cancel and the handler's two SIGINTs make three, which
  kills the server; `OnCiGraceful` excludes the clients the script cancelled.

*Credentials*

* `auth.rs:1067`: `ASPECT_API_TOKEN` is exchanged at the issuer of the default
  deployment, though `:1672` and `:2471` speak of the Aspect account.
* `auth.rs:176`: a default in the repository's file and one in the user's are both kept:
  `use` and `logout` cannot override the repository's.
* Bare `logout` is about the account, where `:2372` says the effective default.
* `configure --name aspect` shadows the seed and cannot be removed.
* A crash in `write_user_config` leaves a `config.json` every later command fails on;
  `credential_store.rs:170` torn leaves no credentials, silently.
* A name reused for another host sends the old session's token there; a crash
  between a refresh and its save loses a rotating session.

*Downloads*

* `disk_store.rs:151`: no flush before the rename: a lost last write leaves a short
  archive under its integrity for good (`Lose`). The store has no lock (`crowded`).
* `builtins/mod.rs:149` against `:77` ("a loser can never delete a winner's just-published
  tree"): two that have seen the same partial tree rename one after the other, and the
  second takes away what the first has published and is using, until it publishes its own
  (`both`; shown by `BuiltinsWhole` without this premise). With a third process the second
  can take away what the third is about to adopt, and the third fails (`ExtractedOnce`
  leaves it out; TLC finds it with three extractors).
* `main.rs:97`: one temporary file per tool. The second launcher truncates it even before
  its request is sent, and what the first then renames and execs may be partial: nothing
  prevents it, and `ExecWhole` excuses the files that two had open (`shared`).
* `main.rs:194`: the length of a body is checked only if it was announced: what broke off
  otherwise goes into the cache and is exec'd (`cutoff`), unless it is empty. A restore that
  names no marker is not waited for.
* `main.rs:582`: the hint is overwritten before the release it names is there, so in an
  outage the CLI that is cached is not used. A touch of the old hint may overwrite a newer
  one (`renewed`): what the hint named when the day began may then be run for a day more.
* `ci.rs:180`: a name given by hand is never claimed, so an automatic one may meet it;
  after a failed claim, or `MAX_NAME_PROBE` of them, two commands have the same name.
* `ci.rs:165`: where the host names no run, all runs share the directory `local`, and a
  second run on the machine is numbered from the first.

*Runtime*

* A task that a config adds whose traits no task of phase 1 declares fails with
  "Trait type not found" (`trait_map.rs:188`, `multi_phase.rs:350`).
* `multi_phase.rs:759`: an exit code is cut to 8 bits, so 256 passes.
* `telemetry.rs:557` enables tracing again when a hook adds an exporter after phase 3:
  nobody installs it, and `trace.enabled` is true against `RT/trace.rs:42`.
* An exporter that cannot be built fails the run after earlier files were opened: they
  get what comes, but not what was buffered (`aspect-cli/src/trace.rs:665`).
* What a deferred callable defers is lost; a failed implementation leaves its phase open.
* `cmd.rs:1314`: a *group* named `get` is accepted and unreachable.
* An instance first read by the task and later by a hook of a feature is two
  (`TraitsAreShared` is about those a config or a feature touched).
* `cmd.rs:671` layers what config.axl wrote as it is: clap has checked its text, so the
  string "5" passes for an int and reaches the task as a string, a list for a string
  is checked by its first element, and `args.custom(int)` takes anything.
* `.args.enabled = "false"`, a string, leaves a feature enabled (`multi_phase.rs:448`).
* A default outside `values`, or none at all, can be declared, and then every command
  line without the flag is refused, of *any* task if the argument is a feature's.
* An alias may give a required argument a default, which is then still required
  (`arg.rs:172`).
* `cmd.rs:565`: a `boolean_list` flag takes the next word for its value; booleans and
  bare strings have `require_equals` against that.
* `describe` gives of an override of trailing arguments the first only, and calls a
  positional with `minimum = 1` required, which clap does not demand.
* A file of a local module nested in the root can be loaded by two paths and then has
  two identities; a relative load inside `@std` would resolve in the importer's scope.
* A dependency without `auto_use_tasks` is expanded and cannot be loaded from
  (`disk_store.rs:268`, `load.rs:178`).

*Helpers of a task*

* `starbuf-derive/src/lib.rs:1566`: `try_next` of the generated client takes an error
  status for the end of the stream; `:2563`: an upload that breaks off is an end to the
  handler's loop (`UploadWhole` holds because such a client is told nothing any more).
* `grpc/context.rs:178`: `rpc.cancelled()` of a server stream does not look at the channel,
  though `grpc/stream.rs:126` calls it the same signal as `stream.cancelled()`.
* `http.rs:179`: a download opens its output without truncating it: the tail of a longer
  old file stays behind content whose checksum was right, and a failed download leaves
  what it wrote (`DownloadIsWhole` speaks of shorter files).
* `http.rs:713`: a clone of a file has its offset: a second request with the same stream
  uploads what is left, which is nothing. `:235`: no timeout watches a Unix socket.
* `async/future_stream.rs:43`: `futures.iter` drops the transforms of what it is given, and
  panics on a future that was awaited; a failed one ends the loop like the last one.
* `process.rs:255` says `status()` does not close stdin; `Child::wait` under it does.
* `fs.rs:217`: the length a poll gives counts only if that poll starts the read: one that
  takes the result of an earlier read without a length, or with another, gets what that
  read accepted (`WholeOrNothing` has all polls of a path agree).
* `fs.rs:721` says bytes that are no UTF-8 are replaced; the text ends at the first one.
* `process.rs:370`: `wait()` closes stdin only while the child object has it, and does not
  read: a child with a full pipe, or a script that took stdin, waits for good.
* `trait.rs:1037` says that mutable defaults are deep-copied; `copy_default_value` copies
  the container and shares what is in it. A frozen module's inner containers cannot be
  changed, so it matters for traits declared in the function that uses them
  (`OwnContainers` leaves these out).
* `trait_map.rs`: `ctx.traits[T] = v` takes any value, also one that is no instance of T; a
  container changed after it was assigned may no longer fit its field's type.

*Bazel rc*

* `expand.rs:228`, `parse.rs:104`: of nested gates only the innermost is kept.
* Options of a `common:<config>` that a typed `--config` reaches become defaults and
  lose to rc flags, though options_for's doc says the command line wins; `flag_value`
  (`lib.rs:915`) then reports what Bazel does not use.
* Gates compare the raw version, so a release candidate meets none, though
  `BZ/mod.rs:195` strips the suffix; a malformed one counts as the latest.
* An undefined or cyclic config is an error also where its `--config` is gated out.
* A typed `--config=linux` is dropped when platform configs are enabled, and
  `--noenable_platform_specific_config` is ignored; `--config x` in two tokens is not
  expanded.
* `new_rc` never asks Bazel, so gated flags laid over an ungated base are judged as for
  the latest.

### Bounds

* *Broadcaster*: three sends suffice for an event before a subscription, one
  buffered across another consumer's drop, and one after it; two consumers for
  one's pruning to disturb another; two clones for "last" and "not last".
* *gRPC sink*: five events in a budget of three bytes evict by count and by size,
  with one that evicts all and one that fits again; two reconnects let progress
  reset the budget between them. The queue of acks is bounded because one ack
  covers all that was read.
* *BES reader*: three attempts make a retry of a retry; each attempt has the
  events the reader looks at (started, finished or evicted, a tail) and either of
  the last two may carry `last_message`. A FIFO of two blocks the writer.
* *Execution log*: a log longer than the ring is what makes a send wait; the
  code's 1000 is scaled to 2. Two sinks make the order of the joins matter.
* *Clients*: two pids let one client queue behind another and one pid be reused;
  one kind of trouble at a time; others take no last pid, or nobody could spawn.
  SIGKILL acts at once, so the grace after it is not modelled; signals come in
  two of the scripts, the ones with a build.
* *Credentials*: two processes whose commands overlap anywhere, three sessions, two
  bearers in each, so that one refresh and one rotation happen.
* *Downloads*: two processes for each race on a file; three launches for a state
  left by the first to be built upon by the second and used by the third; one
  kill or bad body per behaviour; a day passes only while all rest. The tree of tasks has
  two files and is missing, empty, partial or whole at first. Names: three
  commands of one or two runs, with two probes, so that a third finds none.
* *Runtime*: five files make a cycle through two modules and a diamond; two
  operations per config, one per feature, four of the task. One argument under test
  at a time, beside a positional and a trailing one: arguments meet only in the
  order of words. Loads are written in 29 ways, from the root and from a directory of it.
  A project of three directories is entered at each of four, with and without the
  markers of its root; nineteen texts of `MODULE.aspect`, with each kind of wrong
  statement once. `BufferCap` of 2 against three records before the exporters.
* *Helpers*: two calls where one drains or leaves beside another, else one with three
  operations of its handler; a channel of one and two uploads, so that both ends can
  wait; a pipe of one against outputs of two, on which a child can block while the other
  pipe is empty; two requests that share a stream or an output of two chunks.
* *Builds*: two builds in a row with one or two handles; one event for sinks, three for an
  iterator, of which its filter takes two.
* *Files*: two chunks to come and a record each of two writers let a read or an append fall
  between; two polls of one path on a file system that blocks and on one that does not; five
  operations on five paths for the tree.
* *Traits*: two traits with the same fields, two instances, a list within a list; five
  operations, so that one makes, one reads out, one changes and two compare.
* *Bazel rc*: two lines a file for imports, six optional sections for configs.

The theorems hold for any value of the bounds of their modules.

### Fairness

`FairSpec` (or `Spec`, where it states fairness) asks only for what a scheduler
gives: a thread or process that can move does.

* Consumers keep receiving, and the producer closes: the reader's thread does on every way
  out of its loop (`build_event.rs:188` to 271). Nobody has to drop a clone: the stream's
  lives until the task joins, which it does after its own iteration, so that only `close`
  can end that iteration (`broadcaster.rs:76`).
* The gRPC sink is one task and each of its waits has a deadline or ends with the
  upstream; server and network owe nothing at all.
* The BES reader and the task run. Bazel, once it writes, goes on to its end, and
  its client exits; it need not start an attempt, and nothing must fail or die.
* The log reader, the sinks and the task run; Bazel closes a log it has opened
  and its client exits. Bazel need not create the log, and the server need not
  die: that a log exists (or the server is gone) is a premise of `WaitReturns`.
* Task and handler of `Cancellation` run, a subprocess that can end does, and so
  does a killed server. A command need not end, nor a deaf client.
* A credentials command runs on; nobody owes it a browser's or a server's answer, since no
  request of `auth.rs` has a timeout (`:579`, `:1134`, `:1307`, `:1364`).
* Launches run on and the restore completes. That every wait for the network ends is an
  assumption there: the launcher's client has no timeout either (`main.rs:379`).
* A run of the CLI always has a next step. In a session the handlers' operations are
  finite, clients read or leave, a peer on a Unix socket answers, and a child that hangs
  is terminated by somebody, a build's stream ends, and so do its client and its uploads, a poll times out:
  all are what `Ends` assumes of others.

`CHECK_DEADLOCK FALSE` is used where the system stops by design: all threads have
ended, or the bound on what Bazel publishes is reached.

## 4. What is proved

All proofs are for every value of the constants. Assumptions are the named ones
of the modules: `BroadcasterAssumption` (some clone exists),
`RetryBufferAssumption` (sizes are numbers and `Upto` their sums, the budget is positive),
`GrpcSinkAssumption` (the types of the constants), `ExecLogAssumption` (the
capacity is positive, the names of the receivers differ), `BesReaderAssumption`
(attempts and capacity are positive), `BazelAssumption` and
`CancellationAssumption` (types; `NoPid` is no pid), `DeploymentsAssumption` and
`AuthAssumption` (types; a file names a deployment once), and for `Provision`
`LauncherAssumption`, `BuiltinsAssumption`, `StoreAssumption`, `TaskNamesAssumption`
(types; the world a run begins in is one the program can leave behind; a version of a
module is a path or an archive) and `ProvisionAssumption` (launcher, extractor, store and
task are of one process), and for `Runtime` `ProgramsAssumption` (what a program declares is
a sequence, a module's files are its own, a task has a name) and `BufferCapAssumption` (a
buffer holds something). TLC evaluates each of them on the constants of its run.

**`BroadcasterProofs`**: `ChannelsHoldWhatIsOwed`, `EndIsNotEarly`, `SendsPruneTheDead`,
`Refinement`.
`BufferIsWhatIsOwed` is not inductive: that it
survives a send needs the sender to be there whenever an event can still be sent
(`SenderThere`), that it survives the end needs the log to be frozen once the
senders are gone (`NoSendersAtTheEnd`), and that a subscriber joins empty needs
closed receivers to have no buffer (`OnlyOpenBuffers`, `EndedHasNoSender`).
`IInv` is their conjunction; each action has a lemma. The refinement maps every
step to `Publish`, `Finish`, `Join`, `Serve`, `End`, `Leave` or a stutter
(`StepRefines`).

**`GrpcSinkProofs`**: `TypeCorrectness`, `NothingUnackedIsLost`, `BufferIsSound`,
`EachConnectionIsInOrder`, `OkIsConfirmed`, `BudgetCountsFruitlessDrives`,
`RetryCanBeDisabled`, `BudgetIsUsedUp`, `RetriesAreThoseAskedFor`, `BytesAreAccounted`,
`EverythingTakenIsUploaded`, `NothingIsLostSilently`, `LossesAreKnown`, `Refinement`.
The chain is: the buffer is
ascending (`Ascending`), so pruning by an ack removes exactly what is acked; what
is still to be replayed or sent is newer than anything on this connection
(`WireIsBehind`), so `WireInOrder` survives a replay step; the last two calls
begin with an empty buffer (`DoneMeansEmpty`), so Ok is confirmed. `TypeOK` is
split into `FlagsOK`, `ResultOK` and `RestOK` because the result is bounded by
counters that move. The buffer enters through `PushKeeps` and `PruneKeeps`, which
hold whatever the byte accounting decides to evict. The budget is bounded from both sides:
`fruitless` counts the drives since the last progress and never exceeds the one asked for,
and of all ways to return only those by a status that forbids a retry (`refused`) or by
spending the budget are failures (`BudgetIsUsedUp`).

The bytes (`Accounted`): the buffer is a run of consecutive events that ends at the last
one taken (`BufferIsRun`), because pushes add the next number and pruning and eviction
take from the front; so its size is a difference of two values of `Upto`, and each of
the three keeps the total right. Losses (`LossInv`) are followed along the way of an
event: what is below the newest ack, what the server has read and what is on the wire
has no gap that is not known (`AckedIsKnown`, `ReadIsKnown`, `WireHasNoGaps`), where an
event is known if it is stored, or was evicted and warned of, or will be warned of as
soon as a stream is open (`EvictionsCounted`). A replay begins at the oldest event in the
buffer (`ReplayedIsSent`) and what was sent before the half-close is all that was taken
(`AllSent`), so an Ok leaves nothing unknown. `AllTaken` is the other half: a sink only
half-closes once its queue is drained and closed. For `Refinement`, `PrefixStored`: as
long as nothing was evicted unconfirmed, what has landed is a prefix of the log, and each
step lands the next event, confirms, ends or stutters.

**`ExecLogProofs`**: `TypeCorrectness`, `NoFalseSendError`, `FileSinksMissNothing`,
`SinksAreSound`. `NoSinkGap` speaks of the moment `build.wait()` succeeds; to get
there the invariant follows every entry. With a file sink the ring is what was
read but for the entry in hand (`RingIsLog`: `send` waits where `try_send` would
drop), each file is the part of the ring its sink consumed (`FileIsTail`), and a
sink that ended had consumed the whole ring (`ReaderOK`, `SinksOK`).
`SendErrorIsSinks` needs that the stream's own receiver lives until the join
(`OwnHolds`) and that by then every sink is attached (`SinksOK`), so that an empty
ring of receivers means that all sinks failed. The proof does not depend on where
a cloned receiver starts.

**`BesReaderProofs`**: `EndsWithTheStream`, `EveryWayOutAgrees`, `FileIsTheStream`. What
was broadcast and what is in the FIFO are what Bazel wrote (`BazelOK`), and
`expecting_retry` is a function of the prefix the reader has seen: whether its last
attempt was evicted and not taken up again (`Unanswered`). From this follows that
the reader concludes the end only where the stream has one (`GapOK`), and that
every way out leaves signal, joiner and file in agreement (`EndOK`). The file is at any time
what was broadcast since the last eviction (`Since`; `MirrorsNext` is the step).

**`ClientsProofs`**: `RegistryIsSound`, `HandlerReachesAll`, `KillersClean`. Everything Bazel,
the operating system, strangers and signals do is `Gentle`: our children stay ours
until `Child::wait`, none comes to be, none forgets a SIGINT while it lives; one
lemma for each of their steps. So the registry names every unreaped child once
(`RegistryOK`; `UnregisteredRemoves` is about the vector's swap with the last). A
client the handler owes something lives, was registered when the signal came, and
was not given up; it is registered still (`StillThere`), hence in what each burst
takes of the registry, hence it has had as many SIGINTs as there were bursts
(`Told`), and the fourth kills it. `KillersClean` is about one call: after its kill the trash
is either gone when the answer is "healthy", or the answer carries the warning.

**`AuthProofs`**: `DefaultStaysOne`, `LoginsAreKept`, `StepsKeep`, `TokensAlwaysFit`. A step
either continues a call, with one of a few things it does to `at`, `mem` and the files
(`StepsAre`), or ends it. Three invariants, each on top of the one before:

* `Typed`: every list names a deployment once, every kept entry is of a session that was
  opened and of its kind, and a call is at a label its command comes to. The lists are
  positions with gaps, since an overlay keeps positions; `OverlaidIs` and `EffectiveIs`
  say what is in them, and from `EffectiveIs` alone follows that exactly one is the default.
* `Logins`: as long as no two calls overlap, one call holds the map (`Sole`), and it holds
  what is stored but for its own entry (`MapsHeld`), so that writing it back whole loses
  nothing (`StoreIntended`). That no refresh token is presented twice needs the sessions
  of the entries to be apart (`Apart`), or a refresh of one would make another's token old,
  and each entry to carry the newest token of its session (`Newest`) but while the call
  that has just refreshed it is still to save it.
* `Owning`: each list means the same hosts by a name (`HostsOf`), a session is of the hosts
  of the deployment it was opened at and stored under this name, and what the credential
  helper carries serves the host that was asked for. The premise `HostsAgree` is part of
  the property: the names in the files and in the calls do not change their hosts.
  Where they do, the code sends a token to the old ones (see above).

Two facts of the code shape these statements: a bare logout clears the store without
reading the map first, so `overlap` counts a call that clears as one that holds it; and a
call that dies before its answer answers nothing, whatever the cache holds
(`ApiTokenMatches`).

**`ProvisionProofs`**: `LaunchIsSound`, `StoreIsSound`, `NamesAreSound`. The four parts share
no variable, so a step of the whole is a move of each (`Parts`), and each has an
inductive invariant of its own, whatever the others do:

* *Names* (`NamesInv`). The claims are exactly the files of the names that were given and
  are sure (`Claims`), hence two of them are never alike (`Apart`); who tries a number has
  seen the plain name claimed (`PlainClaimed`), by somebody who was given it before
  (`Behind`). That a run shares no name then needs the premise `RunsAreTold`: each run has
  a directory of claims of its own, which is so wherever the host tells runs apart
  (`ci.rs:165`). All worlds of the run satisfy it; where `dedup_dir` forgets the attempt
  (a mutant), it fails, and so does the property.
* *Tree of tasks* (`TreeInv`). A process publishes only a whole tree (`TempWhole`) and none
  that is partial comes back once somebody has seen that there is none (`NeverPartial`). As
  long as no two saw the same partial tree one process takes it away (`OneStale`), and who
  adopts one has a whole one. Of two processes who saw the same, the one that can lose its
  tree is through (`TwoAdopt`, `TwoFind`), so that nobody fails; with three somebody may
  (`Excused`). At any time there is a whole tree or somebody at work
  on it (`SomebodyIsAtIt`), and only who was killed leaves anything (`LeavesNothing`).
* *Store* (`StoreInv`). As long as one command expands (`OneExpands`), a marker speaks the
  truth of its module (`Kept`) but for the one that is being worked on, and for each label
  there is what stands on the disk when a command is there (`Stands`): what precedes in the
  list is as pinned, what is being unpacked is a beginning of the one version. Archives need
  no such premise (`Archived`): who gives one its name checked it, and has its last chunk to
  write (`late`) until that is on the disk or is lost (`short`).
* *Launcher* (`LaunchInv`). For each label what holds of a launch (`Stand`, `Recent`): it is at
  a URL of its source, what it execs is there, it has waited for the restore, what it
  resolved is no older than the release of the day before. No two names are of one file
  (`NamesApart`); an unused file exists by counting. Unless two have met on a temporary file
  each is written by one (`Undisturbed`), who renames it when it has every chunk, or what
  came before the break where no length was announced; so the cache is whole but for that
  and for what the restore is still writing (`CacheWhole`).

**`RuntimeProofs`**: `LoadsSound`, `TaskCarried`, `CommandsAreUnique`. The program is any
program. Instead of one case for each action under each conjunct, three lemmas about all
actions say once who may change a variable (`Owners`), from which phase to which a run goes
(`Onward`) and that a module once in the cache stays there (`LoadedStays`); a conjunct is
then followed through its owners only. The invariants are, each on top of the one before:

* `LoaderInv`. Of `ScopeIsHome` only the innermost file speaks, which a return would leave
  unknown. Inductive is that *some* function of the depth of the load stack counts the
  scopes pushed so far, steps by one exactly where a frame pushed one, and finds at each
  frame the module of its file (`Depths`, `Aligned`). The frames are the files being
  loaded, each once and none of them in the cache (`StackSound`), so a module number is
  given once and a parent's is above those of what it loaded (`CacheSound`, `GotSound`).
* `FoundInv`. `Control` is where the run is: nothing loads after the configs, and what a
  phase counts through it counts within bounds. Tasks and features only grow (`TasksSound`,
  `FeaturesSound`, `Grown`), the traits of the tasks of phase 1 are in the trait map
  (`KnownTraits`), and what somebody has written to a type is in the one instance the map
  has (`Shared`), which the task takes over as it is (`MineSound`). From these follow
  `MissingMeansUndeclared` and `TraitsAreShared`.
* `TaskInv`. Until phase 3.5 the exporters that wait are all that were ever registered, from
  then on those installed are (`ExportSound`); while the task runs its stack is what was
  deferred, and while it is drained what ran and what is pending are together the reverse
  of that (`DefersSound`, a statement about reversed and joined sequences of ids); the log
  has no gap, ends where the open phase begins, and names no phase twice in a row
  (`LogSound`).
* `CommandsSound`. Once the tree stands it was accepted (`BuiltStep`), and of what is
  accepted no key begins with another one (`AcceptedAreApart`): of two equal keys the later
  finds its place taken, a shorter one would be a group and cannot be attached.

The run checks `SessionSpec`, whose further steps either leave the variables of `Runtime`
alone or are those of `Discovery`, which put the program together before the run begins;
the theorems are about `Spec` of `Runtime`.

Only model-checked:

* `ConfiguredAsWritten` (but for `OneTaskPerCommand`) and `HelpersSound` of the runtime and
  `ReadAsWritten`, `ArgumentsArrive` of rc files: what they say is computed by folds,
  recursive walks and parsers over sequences of any length, which need induction over
  data, and by RECURSIVE operators.
* `EveryConsumerEnds`, `SinkReturns`, `TaskReturns`, `WaitReturns`, `ShutdownIsOrderly`,
  `CommandsEnd`, `ProvisionEnds`, `Ends`: liveness under fairness is out of the
  prover's reach, as is `ENABLED`.

## 5. What is not modelled

* Contents: payloads, redaction, headers, TLS, the zstd frames and the compact
  copies of the execution log (only whether writing them fails). An event or an
  entry is read whole; one torn by a crash is met as the end before it.
* `Pipe::new` failing in the temporary directory, and a file sink that is itself a
  closed pipe (its `BrokenPipe` is taken for the end of the stream).
* The entries of a sandbox that `recover_poisoned_sandbox` tells apart; two builds of
  one task at the same time.
* OAuth's messages, `$ASPECT_AUTH_PROFILE`; files that name a deployment twice.
* Version expressions and platform names of the launcher, `ETXTBSY`.
* The tokenizer and the preprocessor of rc files; a task's active rc.
* Help, version and the feature commands of `main`; of `describe` all but defaults; short
  flags; clap's reading of a word that starts with a dash as a value.
* The components marked `not_modelled` in `PROJECT.json`, each with its reason:
  sequential text processing, third-party engines, scripts against services that
  are not in this repository, or generated code.

## 6. What is left

1. `Workspace` as an instance of the ring of `ExecLog`.
2. `Invocation`: the attempt loop of `bazel_runner.axl` over the handles of `Builds`.
3. `Pipeline`: Bazel, BES reader, Broadcaster and gRPC sink composed over the
   abstract fan-out, for what a retry means end to end.
4. `StatusComment` and `Delivery`: jobs converging through an eventually consistent
   API, and at-least-once delivery against the daemon.
5. Theorems: the state machines of `Session` that a single invariant can follow
   (`Processes`, `Files`, the dispatch of `GrpcServer`), in modules that reach no RECURSIVE
   operator.
