# Cruise resident-epoch decode: TLA+ development

Cruise extends vLLM 0.20.1 on Ascend so that the running batch decodes on the
Device for a whole *epoch* of 1, 2, 4 or 8 greedy steps, with the Paged-KV state
staying resident on the Device between epochs, and falls back to the stock model
where that is impossible. The hard part is ownership: once the Device has decoded
a request, the Host's KV cache no longer has its state, so that every scheduling
decision, failure and fallback has to respect who owns which request. Around the
decode path stand programs that share files, processes and NPUs: the supervisor,
the weight provisioning, the storage guard and the benchmark runner.

## 1. Inventory

| part | state | operations | talks to |
|---|---|---|---|
| Epoch scheduler (`scheduler.py`, `eligibility.py`, `config.py`) | rows, generations, Device-owned set, next generation; the base scheduler's queues and counters | `schedule`, `_host_isolation_reason`, `_assign_resident_rows`, `_make_resident_epoch_plan`, `update_from_output` | base scheduler (calls), worker (plan attached to the batch, result attached to the output) |
| Contract (`contract.py`) | plan, result, commit state | `validate`, `validate_against`, `host_replay_safe` | scheduler, plugin, backends |
| Plugin and dedicated worker (`plugin.py`, `worker.py`, `backend.py`) | loaded backend | `_execute_model_with_fallback`, `attach_host_fallback_result`, `execute_model` of the dedicated worker | stock `execute_model`, engine |
| Sidecar client (`sidecar_backend.py`), ctypes engine (`ctypes_backend.py`) | process, socket, transfer ids; a loaded library | start, warm up, execute, close | server over a Unix socket; the bridge in process |
| Sidecar server (`native/resident_epoch_server.cpp`) | one connection | accept, request loop, shutdown | bridge |
| Bridge (`native/resident_epoch_bridge.cpp`) | graph session, IPC imports, commit state | create, execute (Feed, Fetch), destroy | DataFlow graph |
| Device UDF (`controller/g4c_b4_resident_epoch.cpp`) | per row: generation, token, position, valid flag; KV cache | `Init`, `Proc` | decoder graph |
| KV transfer (`kv_transfer.py`) | exported IPC buffers | capture, snapshot, write, release | bridge |
| CLI supervisor (`cli.py`) | command's process group, run directory | `cruise run`: start, forward, escalate, clean up | operating system |
| Asset store (`materialize_runtime_weights.py`) | asset root and marker, staging directories, published bundle and manifest | prepare, validate and reuse, write, publish, clean up | other invocations, through the file system |
| Storage guard and bounded log (`storage_guard/`, drivers) | NPU locks, directories, monitored pipelines | preflight, wait, lock, run step, monitor, finalize, clean up | other experiments, through locks, directories and the NPU |
| Benchmark runner and metrics (`run_benchmark.py`, `benchmark_metrics.py`, `run_on_910b2.sh`) | server, engine and logger processes; counters and journal; profiler barrier | `run_service`, `_run_load`, record, flush, replay, `run_profile_route` | server, logger, profiler driver |
| Runtime config, doctor, compatibility, ABI tables, runners and verifiers | none between calls | validation, measurement | - |

What is hard here: an engine step is three calls with client events in between;
leases of requests that are gone linger until the next plan; a paused
Device-owned request must return unchanged; a failed epoch may or may not have
advanced the Device; the Host replays a plan only if nothing was advanced;
positions are counted on both sides and must never drift apart; three kinds of
process share a socket path, a transfer file and exported memory, and each of
them may die or time out at any moment. Provisioning and guarded experiments are
check-then-act programs that run side by side: what they found absent may be
there when they make it. The runner and the profiler driver wait for each other.
`PROJECT.json` lists the hazards line by line.

Correctness, part by part: the scheduler never aliases rows or generations, keeps
counters exact, never lets the Host advance a Device-owned request and serves
everybody; the plugin replays only what is provably not executed; the Device
decodes only over a complete KV prefix of the right request; the engine object has
one sidecar at a time and leaves nothing behind; together they give every request
exactly the tokens of stock greedy decoding. A published bundle is complete and
final. One guarded command runs per NPU and none outlives its budget unseen. A
benchmark that is reported as passed is complete, and always comes to an end.

## 2. Modules

| module | models |
|---|---|
| `EpochScheduler` | `scheduler.py` with the contract's checks, over an external base scheduler |
| `ResidentDevice` | the Device UDF: `Init` and every way `Proc` ends |
| `ResidentDeviceEnv` | the Device under a Host that only keeps generations honest |
| `ResidentSystem` | scheduler, plugin or dedicated worker, sidecar or ctypes engine, bridge and Device composed |
| `DecodeService` | abstract: what the decode path promises its clients |
| `SidecarLifecycle` | `cruise run`, the worker's engine object and the sidecar processes: start, calls, shutdown, death |
| `AssetStore` | concurrent invocations of `materialize_runtime_weights.py` |
| `StorageGuard` | experiments under `storage_guard.sh` on the NPUs of one host |
| `BoundedLog` | `bounded_log.py` |
| `MetricsJournal` | `benchmark_metrics.py`: counters, journal, replay |
| `BenchmarkRun` | `run_service` and `run_profile_route` with server, engine, logger and journal; extends the two above |
| `MC...` | instances for TLC |
| `..._proofs` | theorems about the module of that name (`EpochAdmission_proofs`: about `EpochScheduler`; `BenchmarkRun_proofs`: about `BoundedLog` and `MetricsJournal` too) |

### EpochScheduler

One variable per field of the scheduler (`rows`, `gens`, `owned`, `nextGen`) and
of the base scheduler (`waiting`, `running`, `outs` = `num_output_tokens`,
`computed` = `num_computed_tokens`), and the engine step in progress (`phase`,
`toks`, `planned`, `steps`, `res`). `Schedule` is all of `schedule()`: isolation,
the base scheduler's bookkeeping, row assignment, the plan or its rejection.
`UpdateFromOutput` is validation, accounting, ownership and the base update.
`fault` names an exception that left the scheduler or `execute_model`; vLLM's
engine core does not survive one, so nothing happens afterwards.

A request is abstracted to prompt length, `max_tokens`, eligibility (all reasons of
`request_rejection_reason` act alike) and whether it waits for a grammar. Queues
are sets: their order decides only who is admitted first and which free row a
request gets, and the model allows every choice. Facts fixed by the supported
configuration (no speculation, connectors, encoder inputs, one KV group, no
preemption) are left out. The vLLM base scheduler and model runner are external:
`AddRequest`, `GrammarReady`, `AbortRequest`, `Admissible`, `BaseSchedule`, `ExecuteHost`,
`Appended` and `Finishes` state what `scheduler.py` relies on.

### ResidentDevice

Tokens and KV entries are abstracted to the request they are right for, or
`Junk`. A decoder call on the right token over a complete prefix gives a right
token and KV entry, otherwise junk; `reply.wrong` are rows that sampled junk in an
epoch that reported success. The import is applied before the continuity
check and is not undone, as in `Proc`. The fallback codes before the import are
one (201), those of a failing decoder call another (207).

### ResidentSystem and DecodeService

`worker` is the plugin or the dedicated worker, `engine` the sidecar or the ctypes
engine. `wire` is how far the one epoch in flight has come, with the commit
state the bridge would report. `HostReplay`, `Die` and `ReplayOrDie` are the except
clauses of `_execute_model_with_fallback`; the dedicated worker has no
stock model to replay on and ends instead. The ctypes engine has no process that could die on its
own and no warm-up. Two history variables carry the specification: `hostLen`, how much of a
request the stock KV cache really holds, and `bad`, the requests that were given a
wrong token.

`DecodeService` knows only requests, how many tokens each was given and how many
it asked for. `ImplementsService` maps the system's queues and counters to it:
tokens come in order, never more than asked, never after the end, and right.

### SidecarLifecycle

`sup` is where `_run_supervised` stands (before the handlers are installed, in
`wait()`, in the `finally` clause), `w` where the worker stands in
`SidecarDataFlowEngine` (`connecting` is the connect loop, `startup` the wait for
the startup response, `shutting`, `reaping` and `terminating` the parts of
`close()`), `proc[i]` where the i-th sidecar stands in `main`. `after` is what
follows `_stop_process`, which has four callers. A call is its number: the number
stands for `transfer_id` in an import, and as a ghost it travels with the
response, which in the code carries no id. `mixed` records that a response was
taken for another call's. `conn` is the Host's end of each socket: `shut` after
`close()` or the death of the worker, and what a write by the sidecar then meets.

A send, a read and the death of a process are steps of their own; everything
between two of them is one step. Timeouts may expire whenever the answer is not
there. `__del__` runs when the exception of a failed start is dropped, after the
Host replay (CPython reference counting). The command and its worker are one
process, the `wait` after a `kill()` is taken to succeed, and the stock KV caches
do not move during a worker's life. `warm` is the call of the dedicated worker
(`worker.py`), which makes it first; the plugin does not make it.

### AssetStore

`pc` is the line an invocation has reached and `fate` how it ended there; the
file operations are the steps, and a file that is written with `write_text` is torn
in between. `dir` and `manifest` are the bundle directories and the manifest files
beside them: the published one, the one in `/dev/shm` and one staging directory
per process id. Ids are used again by later processes, so that what a killed
invocation left behind is met by another one. A bundle is how many tensors it has
and whether all of them are the qualified ones, which is what the pinned digest tells
apart. An exception before the exit handler is registered just ends the process;
after that it cleans up; SIGKILL and an unhandled SIGTERM do neither. A persistent
invocation whose manifest path is not the content-addressed one (`misnamed`) is
refused after it has prepared the root.

### StorageGuard

One experiment is a driver (`drv`), the pipeline of its current step (`cmd`, the
monitor `mon` with its audit `tick`, `logger`), a server that the command started
in a session of its own (`svc`), and files: the directories of a run id, its scratch and
its logs. The lock is held as long as any process that inherited the descriptor lives,
which is why it survives a killed driver and a server does not hold it. Sizes are
abstracted to whether a budget is broken (`over`). `looked`, `blind` and `age`
are history: who had looked before an experiment made its directories, which
servers were not yet visible when it started a step, how many checks a breach has passed.

With profiling the driver runs the benchmark (and msprof) in the background of its
own shell, with neither monitor nor logger: `StartProfile` to `ProfileEnds`, in the
state `profile`. Its exit trap can find that benchmark alive in two ways,
`Interrupt` and `ProfileTorn` (`jq` fails on a half-written ready file and `set -e`
ends the driver). `cut` records that an exit trap began in the middle of a step or profile.
A time-out of a command, `timeout 7200` of the benchmark included, is a disorderly `CmdExits`,
which may leave a server behind.

### BoundedLog, MetricsJournal, BenchmarkRun

In `BoundedLog` a byte is its place in the stream, so that the log shows which
bytes survived. In `MetricsJournal` counting an event and appending it are two
steps, because the engine may end in between; `Counted` is what the recording
functions add, `Replayed` what `replay_event_journal` adds, written separately as in
the code. `BenchmarkRun` puts them between a runner that waits with timeouts, a server and an
engine that crash, hang or ignore SIGTERM, and, with profiling, the driver at the other side of
the barrier of two files. `mode` is `cruise` or `graph` (which stands for eager too): only an
epoch mode is given a metrics journal and must show its epochs (`ModeIdentity`); the phrases
that `_mode_identity` looks for in the log are taken to be there. msprof is external: it is
launched in the background and ends at any moment, well or badly. Whether it attached is not
represented, because no step of the driver depends on it: after 8 seconds the barrier
opens, and msprof's status is only written to the status table.

## 3. Runs

| run | instance | shows |
|---|---|---|
| `sched_fit` | 3 requests, 2 rows, capacity 3, chunked prompts, aborts inside a step, 3 generations | leases, counters, isolation, no refusal while requests fit |
| `sched_live` | fair, grammar requests | everybody is served; the engine stops only on an invalid result or an empty isolated lane |
| `device_env` | 2 rows, 2 streams, depth 3, 3 generations | a successful epoch decoded right tokens, whatever the Host claimed |
| `sys_faulty` | all four deployments, failures everywhere | right outputs, Host and Device in step, no double advance, the dedicated worker serves what it accepts, `DecodeService` is implemented |
| `sys_live` | three deployments, no failures, prompts of two tokens or more, fair | the engine never dies and everybody is served |
| `life` | 2 sidecars, 3 calls, deaths and timeouts anywhere, fair | one sidecar, no mixed answers, snapshots and exports in place, clean and terminating shutdown |
| `guard` | 2 experiments that share an NPU, a run id or both, with monitored steps and unmonitored profiles | one command per NPU; breaches seen in time; what can be alive when a scratch is removed; which races a left-over server beside a command, or an overwritten directory, needs |
| `assets` | 3 invocations, 2 process ids, 2 tensors | a manifest means a complete bundle, success can be relied on, what is published is final, a late invocation reuses |
| `bench` | both kinds of mode, with and without profiling; head 1, tail 3, chunks of 3, 6 bytes, 2 events, fair | the log is exact, the journal replays to the counters, a pass is complete, a profile is measured only after msprof's launch and its end is recorded, everything ends |

Three further runs exhibit disagreements with what the repository states:
`sched_refusal` (a prompt longer than a row next to a Device-owned request),
`sched_midabort` (an abort during the epoch) and `sys_onetoken` (a one-token prompt
whose first step ran on the Host). `PROJECT.json` quotes the lines.
`sched_midabort` rests on the base scheduler's behaviour, which is external: aborts
are processed between the submission of a batch and `update_from_output`.

Smaller things the models show, which no run is devoted to: a grammar that is
still compiling leaves the isolated lane empty, which `schedule()` answers with an exception; the Device applies an
import before the continuity check that may reject the epoch; `cruise run` waits
without a timeout for a command that it has told to stop, the escalation being
reached only if `wait()` raises; an invocation that looked at the asset root before
the marker existed rewrites it later, and a reader in between is refused; a
driver of the storage guard that is interrupted, or that reads a torn ready file,
removes the scratch of a command that still runs, and one whose step failed may remove
it under the server that the step left; an msprof that failed or never attached does not
fail the profile route.

Bounds. Two rows and three requests are the least with which a row is reused
while another is held, a request waits for a slot and lanes alternate. Epochs of
one and two steps distinguish early EOS, full and short epochs; capacities of
three and four put epochs at the end of a row. `GenLimit` is small in
`sched_fit`, where running out is part of the run. Ids that clients use again
are not in a run: the proofs cover them (`ReuseIds` is free there). Two sidecars
are the least with which one can be left over when the next starts; three calls
let a late answer or unlink meet a later call after an ordinary one. Two
experiments are enough for the guard's properties, which are about pairs; two steps, samples and checks
between audits are the least with which each counter matters, and `MaxTrouble` = 2 allows an
interrupt or a kill and a second failure. Three invocations with two ids let one meet
what another left under its own id while a third is publishing. A head of one, a tail of three and
chunks of three make a chunk straddle the head, be as long as the tail, fill it exactly and
wrap it; a last chunk is shorter. Chunks longer than the tail are left to the proof. Deadlock checking is off
where clients may stop sending, an engine may die or all processes have ended.
Symmetry is used over requests, streams, experiments and invocations in runs
without liveness only: rows are chosen by quantification, never by comparing requests.

Fairness. Weak fairness of the engine's own calls (the engine core loop steps
while requests are unfinished), of the sidecar's and the Device's steps in
the failure-free instance, and of grammar compilation. None of clients,
aborts or failures. In `life`: of `cruise run`, of the worker while it is inside the
engine object (every wait there has a timeout), of the shutdown that follows a
failed epoch, and of a signal that was sent to a sidecar. Nothing is assumed of
the sidecar: `CloseEnds` holds for one that hangs. Only `SidecarFollows` has
`the sidecar keeps going' as its premise. In `bench`: of the runner and of the
profiler driver, whose waits have timeouts (the driver's last ones are for the runner and for
msprof), and of the end of msprof, which timeout(1) kills after 180 s; nothing of server,
engine and logger.

Every module states its type invariant. Those that a theorem proves (`TypeOK` of
the scheduler and of the asset store, `GuardTypeOK`, `SysTypeOK`, `DeviceTypeOK` as
part of `EnvInv`, `BenchTypeOK` as part of `BenchInv`) and those that a run's other invariants imply in practice are not repeated in the
runs, except the scheduler's.

## 4. Proofs

`EpochScheduler_proofs` proves, for every number of requests, rows, steps and
generations that `SchedulerAssumption` allows: `TypeCorrect`, `LeasesAreSafe`,
`AccountingIsExact`, `SanityChecksNeverFire`, `RowReuseSafe`, `LeasesAreStable`
and `DeviceOwnedSafe`. The inductive invariant is
`IndInv == TypeOK /\ StepInv /\ LeaseInv /\ SanityChecksHold`. `AccountingExact` speaks only
of the idle phase, so `StepInv` says what holds inside a step: how far each
request of the batch was when the step began (`InStep`), that a plan is the whole
batch with one token each (`Planned`), and what an answer may contain (`Answer`).
`LeaseInv` adds that a batch for the stock model has no Device-owned request. That the
allocator never runs out is a counting argument (`AllocatorNeverExhausted`): the
old members of a batch hold at most as many rows as they are. Generations are
pairwise different because `Rank` is injective on the free rows (`RankInjective`).
`PlanRequestsArePresent` is the counterpart of `sched_midabort`: where aborts are
processed between steps, no request of a plan is missing when its result is accounted.

`EpochAdmission_proofs` proves `IsolationSuffices`: if every eligible request
fits a row, the running limit is at most the graph's batch and ids are fresh, then
`schedule()` never refuses. `LaneInv` adds that Device-owned requests are eligible
and past their first token and that nobody waiting is owned. The proof follows
the lanes: an isolated batch has no owned request; a batch without owned requests
cannot be refused; a shared batch decodes one token each and passes every
test of the plan. `sched_refusal` shows that the first assumption is needed.

`ResidentDevice_proofs` proves `EpochsAreRight` and `ResidentKVAlwaysComplete` for
any number of rows and requests, any capacity and any epoch length. To
`ResidentKVComplete` the invariant `EnvInv` adds only that generations of a row
grow (`LeaseInv`); the heart is `PrefixIsRight`: a row that passes the continuity check was
imported, continues where its generation stopped, or starts at position zero, and
each of the three gives a complete prefix.

`SidecarLifecycle_proofs` proves, for any number of sidecars and calls,
`OneSidecarAlways`, `ShutdownIsClean` and `ExportsAreKept`. None of the three is
inductive. `LifeInv` says where a living sidecar can be: it is the one of the engine
object, and the worker is not in a state without one (`LivingIsOurs`); that every
way into such a state goes through the end of the process and the unlinks
(`NothingLeft`, `LinkedEngine`); and it follows an IPC request from the export
table through the socket to the mappings (`AskedIsExported`, `MappedIsExported`).
`AnswersAlwaysMatch` and `SnapshotAlwaysThere` need a second invariant on top of it,
`WireInv` (`WireInvariant`): at most one exchange is under way on a connection that is still
read, and it is that of the current call, so that a late response or unlink can only
meet a worker that makes no further call.

`ResidentSystem_proofs` is about the composition, for any number of requests, rows,
steps and generations, any deployments, and failures of the sidecar, the transfers
and the Device anywhere.

- `OutputsAlwaysRight` and `ReplayNeverDoubles` rest on `SysInv`. It takes over the
  scheduler's `IndInv` and adds what ties the parts together: which messages fit which
  phase (`LinkInv`), that a plan is for all leased requests (`PlanInv`), that the Device
  has seen no generation still to be handed out (`GenInv`), that what it keeps under a
  lease's generation is that request's stream (`KVInv`), that the stock model's cache has
  all that the Host computed for the requests of its own (`HostKV`), that a good answer left the rows
  where it says (`ReplyInv`, `DoneInv`), and that a lease without a committed epoch is
  not on the Device (`UntouchedInv`). `InputIsFed` describes what the bridge feeds, and the Device's
  lemmas say what `Proc` makes of it. Neither theorem needs ids to be fresh.
- `DeviceAlwaysInSync` adds `SyncInv` and assumes that ids are used once: a client
  that reuses the id of a Device-owned request inherits its ownership.
- `DedicatedAlwaysServes` adds `SlotInv` and `EnvelopeInv` and assumes that the
  running limit (`max_num_seqs`) is at most the batch of the graph, as in the benchmark's
  and the tests' deployments; the code does not check it.
- `SystemImplementsService` is the refinement of `DecodeService`: `ServiceStep` maps
  every step to a submission, a delivery, a cancellation or a stutter.
- `EngineAlwaysSurvives` assumes `NoFailures`: nothing fails, no abort inside a step,
  requests fit their rows, no grammars, a generation for every request and one for the
  warm-up, and no one-token prompt that the Host may decode first. These are the
  hypotheses of `sys_live` for any sizes; `sched_refusal`, `sched_midabort` and
  `sys_onetoken` show what happens without three of them. `CalmInv` carries the
  proof: generations last because each request draws at most one (`BudgetInv`), and
  the Device accepts what it is fed (`FedAccepted`). `EpochsAlwaysContinue` is the part of it that
  `sys_onetoken` is about.
- `SystemRunsScheduler` closes the gap between the two levels: `EpochScheduler` lets
  `execute_model()` answer anything well formed, and every step of the composition is a step of
  that specification, or `execute_model()` raises. `SchedulerHoldsInSystem` draws the
  conclusion: what is proved of the scheduler alone holds in the system.

`AssetStore_proofs` proves all five properties of `assets` and its types for any
number of invocations, process ids and tensors. `AssetInv` says that live
invocations never write to one place (`PidInv`, `ShmInv`; `OutApart`), how far the
output of a running one has come (`WorkInv`), that one invocation ever renames to
the target (`TargetInv`), and that a root once marked has a marker, perhaps torn,
for good (`StoreInv`).

`StorageGuard_proofs` proves all five properties of `guard` and its types for any
number of experiments, NPUs, run ids, steps and audit intervals. `GuardInv` consists of
what the parts of a pipeline imply of each other, and that a server whose command is
gone belongs to a driver that will report failure (`PipeInv`), that who has anything
running holds the lock alone (`LockInv`), how a breach ages with the audit tick
(`AgeInv`), what was visible before a step (`OrphanInv`), who had looked when
(`RaceInv`) and when scratch goes (`GoneInv`).

`BenchmarkRun_proofs` proves `LogsAreExact` for all limits and all ways of cutting
the stream (`TailKept` shows case by case that `update_tail` keeps exactly the last
bytes, from two lemmas about joining and cutting stretches of the stream), and that
inside a run too (`RunLogsAreExact`). `JournalReplaysExactly` holds for journals
of every length and any set of rejection reasons. What a fold computes is an
induction over the journal; the journal grows by one line at a time, so the state
invariant carries it: `Replayable` says that the table which defines the fold exists and
is unique, `ReplayAppend` extends it by a line, and `CountedIsReplayed` compares the two
functions of the code event by event. The reasons are kept apart from the other
counters (`JournalAssumption`) because the code has a `Counter` of its own for
them. `PassesAreComplete` follows with `EndInv` (the logger ended with the stream
read and nobody left to write, the result was collected after that), and
`ProfilesAreAccountedFor` with `BarrierInv` (who may have made the start file, and what the
route has waited for) and `PassStays`: a verdict, once given, is not changed by what
server, engine and msprof still do.

All inductive invariants were first checked by TLC on the instances of the runs (without
`Replayable`, which quantifies over all tables).

Every safety invariant, every action property and the refinement that a passing run
checks is now also a theorem. Only model-checked: the five liveness properties
(`EventuallyServed`, `EveryoneServed`, `CloseEnds`, `SidecarFollows`, `RunnerEnds`), since
fairness and ENABLED are beyond the prover, and the counterexamples of the three
disagreements. The proofs are of the models: sizes are arbitrary, but a plan that
the metrics journal records has fixed counts (two requests, three steps), and
the constants of `Events` are not generalised.

## 5. Not modelled

In modelled parts: tensor layouts, checksums and the format of the transfer file;
a KV export table that is made anew because the caches moved; the marshalling of
arrays in the ctypes engine; the marker files of the scratch root and the other
sub-commands of the CLI; the load generator, the statistics and the comparison of
routes of the benchmark; the timing and socket counters of the metrics (`wall_us`, `native_cpu_us`
and the like, with the renaming in the replay), which add up as the modelled ones do; the
phrases of the server's log; msprof's attachment to its target, which the driver does not observe either. Whole parts: ABI tables and versions (static), runtime
configuration (validation of one file, no state), doctor and compatibility
(read-only probes), the memcpy trace and path relocation tools, test helpers, the previous
native generation (not built), and the experiments, verifiers and analysis scripts.

Most of the repository's lines are in those: `history/` and `experiments/` archive
attempts with near copies of decoder graphs, kernels and runners of every
stage, which run once, keep no state and are superseded by the programs modelled here.
Modelling a copy again would say nothing new; decoder arithmetic is floating-point
tensor code that a model of this kind abstracts to right or wrong.

Four hazards have no property, because the code does not try to prevent them: a
stream of Host work that never ends starves Device-owned requests; a sidecar
whose worker dies before it connected waits in `accept()`; `cruise run` waits
for ever for a command that ignores its signal; a SIGTERM before its handlers are
installed leaves processes behind.

## 6. Plan

1. *Done*: scheduler, Device, composition, process lifecycle; `DecodeService` and
   the refinement; dedicated worker and ctypes engine; asset store, storage guard,
   bounded log, metrics journal and benchmark runner; proofs of all safety
   properties of the runs.
2. Proofs: journal events with arbitrary counts; `EngineAlwaysSurvives` with grammars, where
   the only further end is the empty isolated lane.
3. Models: the scratch root with concurrent `cruise run` and `cruise cleanup`.
