---------------------------- MODULE BenchmarkRun ----------------------------
(***************************************************************************)
(* run_service of experiments/m4a_performance/run_benchmark.py: one API    *)
(* server is started in a session of its own with its output piped to a    *)
(* bounded logger, loaded, stopped, and its log and route metrics are      *)
(* collected.  The server's engine process shares the pipe; server and     *)
(* engine crash, hang or ignore SIGTERM anywhere.  The logger is           *)
(* BoundedLog, the engine's metrics are MetricsJournal.  With profiling,   *)
(* run_profile_route of the driver runs beside it: the two meet at a       *)
(* barrier of two files, so that msprof is started before the measurement; *)
(* whether it has attached by then, or ever does, the driver cannot tell.  *)
(***************************************************************************)
EXTENDS BoundedLog, MetricsJournal

CONSTANT MaxBytes   \* bound on the bytes server and engine print

ASSUME BytesAssumption == MaxBytes \in Nat

VARIABLES runner,   \* where run_service is
          server, engine, termed,
          code,     \* the server's return code is 0
          held,     \* the runner still has the pipe's write end open
          sent,     \* bytes written to the pipe
          loaded,   \* every warm-up and scenario passed
          metrics,  \* resident_route_metrics of the result, <<>> for None
          mode,     \* "cruise", or "graph" for a route without the epochs
          route,    \* where run_profile_route is, "off" without profiling
          ready,    \* the profile-ready file: "none", "torn" or "full"
          start,    \* the profile-start file exists
          profiler, \* msprof: "none", "running", or how it ended
          reported  \* the route's line in the status table

runVars == <<runner, server, engine, termed, code, held, sent, loaded, metrics>>
routeVars == <<mode, route, ready, start, profiler, reported>>
benchVars == <<logVars, journalVars, runVars, routeVars>>

BenchTypeOK ==
    /\ runner \in {"start", "ready", "warmup", "announce", "barrier", "load",
                   "stop", "grace", "logger", "collect", "done"}
    /\ mode \in {"graph", "cruise"}
    /\ route \in {"off", "wait", "unready", "target", "let_go", "settle", "join",
                  "msprof", "passed", "failed", "gone"}
    /\ ready \in {"none", "torn", "full"} /\ start \in BOOLEAN
    /\ profiler \in {"none", "running", "ok", "failed"}
    /\ reported \in {"none", "unready", "let_go", "ok", "failed"}
    /\ server \in {"none", "starting", "up", "dead"}
    /\ engine \in {"none", "up", "dead"}
    /\ termed \in BOOLEAN /\ code \in BOOLEAN /\ held \in BOOLEAN
    /\ loaded \in BOOLEAN
    /\ sent \in 0..MaxBytes /\ total \in 0..sent
    /\ lphase \in {"off", "reading", "done", "killed"}
    /\ counters \in [Names -> Nat] /\ Len(pending) <= 1
    /\ opened \in BOOLEAN /\ Len(journal) <= MaxEvents

BenchInit ==
    /\ LogInit /\ JournalInit
    /\ runner = "start" /\ server = "none" /\ engine = "none"
    /\ termed = FALSE /\ code = FALSE /\ held = FALSE
    /\ sent = 0 /\ loaded = FALSE /\ metrics = <<>>
    /\ mode \in {"graph", "cruise"} /\ route \in {"off", "wait"}
    /\ ready = "none" /\ start = FALSE
    /\ profiler = "none" /\ reported = "none"
-----------------------------------------------------------------------------
SrvAlive == server \in {"starting", "up"}
GoTo(s) == runner' = s

(* The logger sees the end of the stream when nobody has the pipe open.    *)
Eof == ~SrvAlive /\ engine # "up" /\ ~held

(* Popen of the logger and of the server; the runner closes its end.       *)
Launch ==
    /\ runner = "start"
    /\ OpenLog
    /\ GoTo("ready") /\ server' = "starting"
    /\ UNCHANGED <<routeVars, journalVars, engine, termed, code, held, sent, loaded, metrics>>

(* The server cannot be started: the exception skips stdin.close().        *)
LaunchFails ==
    /\ runner = "start"
    /\ OpenLog
    /\ GoTo("stop") /\ held' = TRUE
    /\ UNCHANGED <<routeVars, journalVars, server, engine, termed, code, sent, loaded, metrics>>

(* _wait_ready: health answered; the process ended, or 1200 s are over.    *)
Ready ==
    /\ runner = "ready" /\ server = "up"
    /\ GoTo("warmup")
    /\ UNCHANGED <<routeVars, logVars, journalVars, server, engine, termed, code, held, sent,
                   loaded, metrics>>

NotReady ==
    /\ runner = "ready"
    /\ GoTo("stop")
    /\ UNCHANGED <<routeVars, logVars, journalVars, server, engine, termed, code, held, sent,
                   loaded, metrics>>

(* _run_load: the warm-ups; with profiling the ready file is written, in   *)
(* two steps as any file, and the start file waited for (612-634).         *)
WarmedUp ==
    /\ runner = "warmup"
    /\ GoTo(IF route = "off" THEN "load" ELSE "announce")
    /\ ready' = IF route = "off" THEN ready ELSE "torn"
    /\ UNCHANGED <<mode, route, start, profiler, reported, logVars, journalVars,
                   server, engine, termed, code, held, sent, loaded, metrics>>

Announce ==
    /\ runner = "announce"
    /\ GoTo("barrier")
    /\ ready' = "full"
    /\ UNCHANGED <<mode, route, start, profiler, reported, logVars, journalVars,
                   server, engine, termed, code, held, sent, loaded, metrics>>

BarrierOpens ==
    /\ runner = "barrier" /\ start
    /\ GoTo("load")
    /\ UNCHANGED <<routeVars, logVars, journalVars, server, engine, termed, code, held,
                   sent, loaded, metrics>>

MutantBarrierWithoutDeadline ==
    /\ runner \in {"warmup", "barrier"} /\ ~SrvAlive
    /\ GoTo("stop")
    /\ UNCHANGED <<routeVars, logVars, journalVars, server, engine, termed, code, held,
                   sent, loaded, metrics>>

(* A warm-up raises; the server ended, or 600 s are over, at the barrier.  *)
LoadRaises ==
    /\ runner \in {"warmup", "barrier"}
    /\ GoTo("stop")
    /\ UNCHANGED <<routeVars, logVars, journalVars, server, engine, termed, code, held,
                   sent, loaded, metrics>>

(* The scenarios: all requests answered, or some failed.                   *)
Loaded(ok) ==
    /\ runner = "load"
    /\ ok => server = "up" /\ engine = "up"
    /\ loaded' = ok
    /\ GoTo("stop")
    /\ UNCHANGED <<routeVars, logVars, journalVars, server, engine, termed, code, held, sent,
                   metrics>>

(* _stop_server: nothing to stop, or SIGTERM to the server process ...     *)
Stop ==
    /\ runner = "stop"
    /\ GoTo(IF SrvAlive THEN "grace" ELSE "logger")
    /\ termed' = SrvAlive
    /\ UNCHANGED <<routeVars, logVars, journalVars, server, engine, code, held, sent, loaded,
                   metrics>>

Stopped ==
    /\ runner = "grace" /\ ~SrvAlive
    /\ GoTo("logger")
    /\ UNCHANGED <<routeVars, logVars, journalVars, server, engine, termed, code, held, sent,
                   loaded, metrics>>

(* ... and SIGKILL to its group after 180 s.                               *)
GraceOver ==
    /\ runner = "grace" /\ SrvAlive
    /\ GoTo("logger")
    /\ server' = "dead" /\ code' = FALSE
    /\ engine' = IF engine = "up" THEN "dead" ELSE engine
    /\ UNCHANGED <<routeVars, logVars, journalVars, termed, held, sent, loaded, metrics>>

(* logger_process.wait: it has ended, or 60 s are over and it is killed.   *)
LoggerWaited ==
    /\ runner = "logger" /\ lphase = "done"
    /\ GoTo("collect")
    /\ UNCHANGED <<routeVars, logVars, journalVars, server, engine, termed, code, held, sent,
                   loaded, metrics>>

LoggerTimeout ==
    /\ runner = "logger"
    /\ KillLog
    /\ GoTo("collect")
    /\ UNCHANGED <<routeVars, journalVars, server, engine, termed, code, held, sent, loaded,
                   metrics>>

(* The metrics file, then the journal, which takes its place (816-825).    *)
Collect ==
    /\ runner = "collect"
    /\ metrics' = IF opened THEN <<ReplayEventJournal(journal)>>
                  ELSE flushed
    /\ GoTo("done")
    /\ UNCHANGED <<routeVars, logVars, journalVars, server, engine, termed, code, held, sent,
                   loaded>>

(* _mode_identity: an epoch mode must show its epochs, each with one feed  *)
(* and one fetch; the phrases every mode must have in its log are taken to *)
(* be there.                                                               *)
ModeIdentity ==
    mode = "cruise" =>
        /\ metrics # <<>>
        /\ metrics[1]["device_epochs"] > 0
        /\ metrics[1]["feed_calls"] = metrics[1]["device_epochs"]
        /\ metrics[1]["fetch_calls"] = metrics[1]["device_epochs"]

MutantPassWithoutLogger == runner = "done" /\ loaded /\ code /\ ModeIdentity

(* result["pass"]: loads, mode identity, server and logger exit (828-838). *)
Pass == runner = "done" /\ loaded /\ code /\ ModeIdentity /\ lphase = "done"
-----------------------------------------------------------------------------
(* The API server and its engine, external: the engine opens the journal   *)
(* if it was given a path (742-747), the server answers once it is there,  *)
EngineStarts ==
    /\ server = "starting" /\ engine = "none"
    /\ engine' = "up"
    /\ IF mode = "cruise" THEN OpenJournal ELSE UNCHANGED journalVars
    /\ UNCHANGED <<routeVars, logVars, runner, server, termed, code, held, sent, loaded, metrics>>

ServerUp ==
    /\ server = "starting" /\ engine = "up"
    /\ server' = "up"
    /\ UNCHANGED <<routeVars, logVars, journalVars, runner, engine, termed, code, held, sent,
                   loaded, metrics>>

(* ... both print; the pipe is theirs together ...                         *)
PrintBytes(n) ==
    /\ SrvAlive \/ engine = "up"
    /\ sent + n <= MaxBytes
    /\ sent' = sent + n
    /\ UNCHANGED <<routeVars, logVars, journalVars, runner, server, engine, termed, code, held,
                   loaded, metrics>>

(* ... the engine schedules, also for a late request after SIGTERM ...     *)
Schedule(e) ==
    /\ engine = "up" /\ server # "starting" /\ opened
    /\ Count(e)
    /\ UNCHANGED <<routeVars, logVars, runVars>>

Journal ==
    /\ engine = "up"
    /\ Append1
    /\ UNCHANGED <<routeVars, logVars, runVars>>

(* ... and stops in order on SIGTERM, running its exit handler, or any way *)
(* at any time, the server with it or not.                                 *)
EngineExits ==
    /\ engine = "up" /\ termed
    /\ IF opened THEN Flush ELSE UNCHANGED journalVars
    /\ engine' = "dead"
    /\ UNCHANGED <<routeVars, logVars, runner, server, termed, code, held, sent, loaded, metrics>>

EngineCrashes ==
    /\ engine = "up"
    /\ engine' = "dead"
    /\ UNCHANGED <<routeVars, logVars, journalVars, runner, server, termed, code, held, sent,
                   loaded, metrics>>

ServerEnds(ok) ==
    /\ SrvAlive
    /\ ok => termed
    /\ server' = "dead" /\ code' = ok
    /\ UNCHANGED <<routeVars, logVars, journalVars, runner, engine, termed, held, sent, loaded,
                   metrics>>

(* The logger reads whole chunks and a last short one at the end.          *)
LoggerReads ==
    /\ \/ sent - total >= ChunkLimit /\ ReadChunk(ChunkLimit)
       \/ Eof /\ sent > total /\ sent - total < ChunkLimit /\ ReadChunk(sent - total)
    /\ UNCHANGED <<routeVars, journalVars, runVars>>

LoggerEnds ==
    /\ Eof /\ sent = total
    /\ EndLog
    /\ UNCHANGED <<routeVars, journalVars, runVars>>

-----------------------------------------------------------------------------
RouteUnchanged == UNCHANGED <<logVars, journalVars, runVars>>

(* run_profile_route: the ready file is there and jq reads it; a torn one  *)
(* makes jq fail, which ends the driver (set -e).                          *)
SeesReady ==
    /\ route = "wait" /\ ready # "none"
    /\ route' = IF ready = "full" THEN "target" ELSE "gone"
    /\ UNCHANGED <<mode, ready, start, profiler, reported>> /\ RouteUnchanged

(* 1200 s are over, or the benchmark process has ended.                    *)
GivesUpWaiting ==
    /\ route = "wait" /\ ready = "none"
    /\ route' = "unready"
    /\ UNCHANGED <<mode, ready, start, profiler, reported>> /\ RouteUnchanged

MutantStartBeforeMsprof ==
    /\ route = "target"
    /\ route' = "settle" /\ start' = TRUE
    /\ UNCHANGED <<mode, ready, profiler, reported>> /\ RouteUnchanged

(* find_profile_target: msprof is launched in the background, or the       *)
(* benchmark let go without it.                                            *)
TargetFound ==
    /\ route = "target"
    /\ route' = "settle" /\ profiler' = "running"
    /\ UNCHANGED <<mode, ready, start, reported>> /\ RouteUnchanged

TargetMissed ==
    /\ route = "target"
    /\ route' = "let_go" /\ start' = TRUE
    /\ UNCHANGED <<mode, ready, profiler, reported>> /\ RouteUnchanged

(* After 8 s, whatever msprof has come to, the barrier is opened.          *)
OpensBarrier ==
    /\ route = "settle"
    /\ route' = "join" /\ start' = TRUE
    /\ UNCHANGED <<mode, ready, profiler, reported>> /\ RouteUnchanged

(* The wait for the benchmark; without a profile the route has failed.     *)
JoinsBenchmark ==
    /\ route \in {"unready", "let_go", "join"} /\ runner = "done"
    /\ route' = IF route = "join" THEN "msprof" ELSE "failed"
    /\ reported' = IF route = "join" THEN reported ELSE route
    /\ UNCHANGED <<mode, ready, start, profiler>> /\ RouteUnchanged

(* The wait for msprof, whose status is only written down: the route       *)
(* returns that of the benchmark.                                          *)
JoinsMsprof ==
    /\ route = "msprof" /\ profiler # "running"
    /\ route' = IF Pass THEN "passed" ELSE "failed"
    /\ reported' = profiler
    /\ UNCHANGED <<mode, ready, start, profiler>> /\ RouteUnchanged

RouteStep == \/ SeesReady \/ GivesUpWaiting \/ TargetFound \/ TargetMissed
             \/ OpensBarrier \/ JoinsBenchmark \/ JoinsMsprof

(* msprof, external: it ends at any moment, having attached or not.        *)
MsprofEnds(ok) ==
    /\ profiler = "running"
    /\ profiler' = IF ok THEN "ok" ELSE "failed"
    /\ UNCHANGED <<mode, route, ready, start, reported>> /\ RouteUnchanged

RunnerStep ==
    \/ Launch \/ LaunchFails \/ Ready \/ NotReady
    \/ WarmedUp \/ Announce \/ BarrierOpens \/ LoadRaises \/ Stop \/ Stopped \/ GraceOver
    \/ (\E ok \in BOOLEAN : Loaded(ok))
    \/ LoggerWaited \/ LoggerTimeout \/ Collect

BenchNext ==
    \/ RunnerStep \/ RouteStep
    \/ EngineStarts \/ ServerUp \/ Journal \/ EngineExits \/ EngineCrashes
    \/ (\E n \in 1..2 : PrintBytes(n)) \/ (\E e \in Events : Schedule(e))
    \/ (\E ok \in BOOLEAN : ServerEnds(ok)) \/ (\E ok \in BOOLEAN : MsprofEnds(ok))
    \/ LoggerReads \/ LoggerEnds

(* Every wait of the runner has a time-out, and so have the driver's but   *)
(* the last two, for the runner and for msprof: both always move on when   *)
(* they can.  timeout(1) ends msprof after 180 s.                          *)
BenchSpec == /\ BenchInit /\ [][BenchNext]_benchVars
             /\ WF_benchVars(RunnerStep) /\ WF_benchVars(RouteStep)
             /\ WF_benchVars(\E ok \in BOOLEAN : MsprofEnds(ok))
-----------------------------------------------------------------------------
(* The journal replayed is the counters of the engine, at any moment and   *)
(* after any death of it, but for the one event it had counted and not yet *)
(* appended (61-120 against 148-190).                                      *)
ReplayExact ==
    counters = FoldLeft(Counted, ReplayEventJournal(journal), pending)

(* A run that is reported as passed left no process of the server behind,  *)
(* has the whole output of server and engine accounted for in the log, and *)
(* the metrics of a cruise run are all the engine did, but for one event   *)
(* it was cut off from journalling (802-838).                              *)
PassIsComplete ==
    Pass => /\ ~SrvAlive /\ engine = "dead"
            /\ total = sent
            /\ mode = "cruise" => counters = FoldLeft(Counted, metrics[1], pending)

(* The measured scenarios of a profiled run begin only once msprof was     *)
(* launched, or no target was found; a driver that has given up never lets *)
(* the benchmark measure (626-634, 317-350).  A route that returns success *)
(* is of the first kind, its benchmark passed, msprof has ended, and how   *)
(* it ended is in the status table: a profile that failed or never started *)
(* is not taken for one (337-338, 352-358).  That msprof attached, no step *)
(* of the driver checks.                                                   *)
ProfileAccountedFor ==
    /\ runner = "load" /\ route # "off" => profiler # "none" \/ route = "let_go"
    /\ route = "passed" => Pass /\ profiler \in {"ok", "failed"} /\ reported = profiler

(* run_service and the driver beside it always come to their ends, whatever*)
(* server, engine and logger do, although each waits for the other: the    *)
(* server is signalled, then killed, the logger is killed when an engine   *)
(* left behind keeps the pipe open, and the barrier has a deadline.        *)
RunnerEnds == <>(runner = "done" /\ route \in {"off", "passed", "failed", "gone"})
=============================================================================
