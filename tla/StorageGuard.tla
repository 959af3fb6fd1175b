---------------------------- MODULE StorageGuard ----------------------------
(***************************************************************************)
(* storage_guard.sh and the drivers that source it: experiments that run   *)
(* on the NPUs of one host at the same time.  A driver checks its targets, *)
(* waits for an idle NPU, takes the NPU's lock, makes its directories and  *)
(* runs steps, each a pipeline of a monitored command and a bounded logger *)
(* or, for a profile, a benchmark in the background without either; then   *)
(* it finalizes the evidence and may remove its scratch.                   *)
(* Drivers are interrupted or killed, commands time out, start servers in  *)
(* a session of their own, or write too much.                              *)
(***************************************************************************)
EXTENDS Naturals, FiniteSets

CONSTANTS Experiments, Npus, Runs,
          Launches,    \* the NPU and run id each experiment is launched with
          Steps,       \* guarded steps of a driver
          Samples,     \* STORAGE_GUARD_NPU_STABLE_SAMPLES
          AuditEvery,  \* STORAGE_GUARD_PROJECT_AUDIT_INTERVAL_SECONDS, in checks
          MaxTrouble   \* bound: interrupts, kills, time-outs and overruns

ASSUME GuardAssumption ==
    /\ Steps \in Nat \ {0} /\ Samples \in Nat \ {0} /\ AuditEvery \in Nat \ {0}
    /\ MaxTrouble \in Nat
    /\ Launches \subseteq [Experiments -> [npu : Npus, run : Runs]]

VARIABLES npu, run,                 \* what a driver was launched with
          drv, step, samples, failed,
          cut,                      \* it went to its exit trap in mid-step
          cmd, svc, mon, tick, logger, over,
          locked,                   \* it opened and locked the NPU's lock file
          made, scratch, finalized, intact, logs,
          trouble,                  \* how much has gone wrong so far
          looked, blind, age        \* history, see the properties

config == <<npu, run>>
driver == <<drv, step, samples, failed, cut, locked>>
pipeline == <<cmd, svc, mon, tick, logger, over>>
files == <<made, scratch, finalized, intact, logs>>
past == <<looked, blind, age>>
history == <<past, trouble>>
vars == <<config, driver, pipeline, files, history>>

DriverStates == {"launch", "wait", "lock", "recheck", "mkdirs", "idle",
                 "step", "profile", "final", "clean", "ended"}
Budgets == {"none", "scratch", "project"}

GuardTypeOK ==
    /\ npu \in [Experiments -> Npus] /\ run \in [Experiments -> Runs]
    /\ drv \in [Experiments -> DriverStates]
    /\ step \in [Experiments -> 0..Steps]
    /\ samples \in [Experiments -> 0..(Samples - 1)]
    /\ failed \in [Experiments -> BOOLEAN] /\ cut \in [Experiments -> BOOLEAN]
    /\ cmd \in [Experiments -> {"none", "host", "npu"}]
    /\ svc \in [Experiments -> {"none", "starting", "npu"}]
    /\ mon \in [Experiments -> {"none", "watch", "kill", "reap"}]
    /\ tick \in [Experiments -> 0..(AuditEvery - 1)]
    /\ logger \in [Experiments -> {"none", "start", "open", "done", "refused"}]
    /\ over \in [Experiments -> Budgets]
    /\ locked \in [Experiments -> BOOLEAN]
    /\ made \subseteq Runs /\ scratch \subseteq Runs
    /\ finalized \subseteq Runs /\ intact \subseteq Runs
    /\ logs \subseteq Runs \X (0..Steps)
    /\ looked \in [Experiments -> SUBSET Experiments]
    /\ blind \in [Experiments -> SUBSET Experiments]
    /\ age \in [Experiments -> 0..AuditEvery]
    /\ trouble \in 0..MaxTrouble

GuardInit ==
    /\ \E l \in Launches : /\ npu = [e \in Experiments |-> l[e].npu]
                           /\ run = [e \in Experiments |-> l[e].run]
    /\ drv = [e \in Experiments |-> "launch"]
    /\ step = [e \in Experiments |-> 0] /\ samples = [e \in Experiments |-> 0]
    /\ failed = [e \in Experiments |-> FALSE]
    /\ cut = [e \in Experiments |-> FALSE]
    /\ cmd = [e \in Experiments |-> "none"] /\ svc = [e \in Experiments |-> "none"]
    /\ mon = [e \in Experiments |-> "none"] /\ tick = [e \in Experiments |-> 0]
    /\ logger = [e \in Experiments |-> "none"]
    /\ over = [e \in Experiments |-> "none"]
    /\ locked = [e \in Experiments |-> FALSE]
    /\ made = {} /\ scratch = {} /\ finalized = {} /\ intact = {}
    /\ logs = {}
    /\ looked = [e \in Experiments |-> {}] /\ blind = [e \in Experiments |-> {}]
    /\ age = [e \in Experiments |-> 0]
    /\ trouble = 0
-----------------------------------------------------------------------------
Trouble == trouble < MaxTrouble /\ trouble' = trouble + 1

Driving(e) == drv[e] \notin {"launch", "ended"}
Running(e) == cmd[e] # "none"

MutantLockOfDriver(e) == locked[e] /\ Driving(e)

(* flock belongs to the open file: everything the driver's shell starts    *)
(* inherits it.  A server that Python starts does not (close_fds).         *)
Holds(e) == locked[e] /\ (\/ Driving(e) \/ Running(e) \/ mon[e] # "none"
                          \/ logger[e] \in {"start", "open"})

MutantIdleWithoutServers(n) ==
    \A e \in Experiments : npu[e] = n => cmd[e] # "npu"

(* npu-smi lists no process on the NPU and its memory is free.  A job that *)
(* is not guarded can only make a wait longer or fail, which PreflightFails*)
(* and DriverGivesUp allow at any time.                                    *)
Idle(n) ==
    \A e \in Experiments : npu[e] = n => cmd[e] # "npu" /\ svc[e] # "npu"

Starting(e) == {f \in Experiments \ {e} : npu[f] = npu[e] /\ svc[f] = "starting"}

At(e, s) == drv[e] = s
GoTo(e, s) == drv' = [drv EXCEPT ![e] = s]

MutantPreflightUnchecked(e) ==
    /\ At(e, "launch")
    /\ GoTo(e, "wait")
    /\ looked' = [looked EXCEPT ![e] = {f \in Experiments :
                      run[f] = run[e] /\ drv[f] \in {"wait", "lock", "recheck", "mkdirs"}}]
    /\ UNCHANGED <<config, step, samples, failed, cut, locked, pipeline, files,
                   blind, age, trouble>>

(* storage_guard_preflight up to the wait.  looked: the experiments of the *)
(* same run that have looked already and made nothing yet.                 *)
Preflight(e) ==
    /\ At(e, "launch")
    /\ GoTo(e, IF run[e] \in made \cup scratch THEN "ended" ELSE "wait")
    /\ looked' = [looked EXCEPT ![e] = {f \in Experiments :
                      run[f] = run[e] /\ drv[f] \in {"wait", "lock", "recheck", "mkdirs"}}]
    /\ UNCHANGED <<config, step, samples, failed, cut, locked, pipeline, files,
                   blind, age, trouble>>

(* Space, the audit or the deadline: 90, 91, 92 or 95, and exit.           *)
PreflightFails(e) ==
    /\ drv[e] \in {"launch", "wait"}
    /\ GoTo(e, "ended")
    /\ UNCHANGED <<config, step, samples, failed, cut, locked, pipeline, files,
                   history>>

(* One round of storage_guard_wait_for_npu_idle.                           *)
Sample(e) ==
    /\ At(e, "wait")
    /\ samples' = [samples EXCEPT ![e] =
                      IF Idle(npu[e]) /\ @ + 1 < Samples THEN @ + 1 ELSE 0]
    /\ GoTo(e, IF Idle(npu[e]) /\ samples[e] + 1 >= Samples THEN "lock" ELSE "wait")
    /\ UNCHANGED <<config, step, failed, cut, locked, pipeline, files, history>>

TryLock(e) ==
    /\ At(e, "lock")
    /\ IF \E f \in Experiments \ {e} : npu[f] = npu[e] /\ Holds(f)
       THEN GoTo(e, "ended") /\ UNCHANGED locked
       ELSE GoTo(e, "recheck") /\ locked' = [locked EXCEPT ![e] = TRUE]
    /\ UNCHANGED <<config, step, samples, failed, cut, pipeline, files, history>>

(* storage_guard_require_npu_ready, under the lock.                        *)
Recheck(e) ==
    /\ At(e, "recheck")
    /\ GoTo(e, IF Idle(npu[e]) THEN "mkdirs" ELSE "ended")
    /\ UNCHANGED <<config, step, samples, failed, cut, locked, pipeline, files,
                   history>>

(* mkdir -p succeeds on directories that have appeared since Preflight;    *)
(* the preflight files are then written over.                              *)
MakeDirs(e) ==
    /\ At(e, "mkdirs")
    /\ GoTo(e, "idle")
    /\ made' = made \cup {run[e]} /\ scratch' = scratch \cup {run[e]}
    /\ intact' = intact \ {run[e]}
    /\ UNCHANGED <<config, step, samples, failed, cut, locked, pipeline,
                   finalized, logs, history>>
-----------------------------------------------------------------------------
Log(e) == <<run[e], step[e]>>

(* wait_npu_ready and run_step, for the steps that use the NPU; builds and *)
(* checks between them only use the host.  run_log refuses an existing     *)
(* log, otherwise command, monitor and logger start together.              *)
StartStep(e) ==
    /\ At(e, "idle") /\ step[e] < Steps /\ Idle(npu[e])
    /\ IF Log(e) \in logs
       THEN /\ GoTo(e, "final") /\ failed' = [failed EXCEPT ![e] = TRUE]
            /\ UNCHANGED pipeline
       ELSE /\ GoTo(e, "step")
            /\ cmd' = [cmd EXCEPT ![e] = "host"]
            /\ mon' = [mon EXCEPT ![e] = "watch"]
            /\ tick' = [tick EXCEPT ![e] = 0]
            /\ logger' = [logger EXCEPT ![e] = "start"]
            /\ UNCHANGED <<svc, over, failed>>
    /\ blind' = [blind EXCEPT ![e] = Starting(e)]
    /\ UNCHANGED <<config, step, samples, cut, locked, files, looked, age, trouble>>

(* run_profile_route of the m4a driver: wait_npu_ready, then the benchmark *)
(* (and later msprof, cmd stands for both) in the background, with neither *)
(* monitor nor logger.  It inherits the lock like everything else.         *)
StartProfile(e) ==
    /\ At(e, "idle") /\ step[e] < Steps /\ Idle(npu[e])
    /\ GoTo(e, "profile")
    /\ cmd' = [cmd EXCEPT ![e] = "host"]
    /\ blind' = [blind EXCEPT ![e] = Starting(e)]
    /\ UNCHANGED <<config, step, samples, failed, cut, locked, svc, mon, tick,
                   logger, over, files, looked, age, trouble>>

(* wait_npu_ready gives up, or a check of the driver fails: exit.          *)
DriverGivesUp(e) ==
    /\ At(e, "idle")
    /\ GoTo(e, "final") /\ failed' = [failed EXCEPT ![e] = TRUE]
    /\ UNCHANGED <<config, step, samples, cut, locked, pipeline, files, history>>

(* bounded_log.py opens its output exclusively ("xb").                     *)
LoggerOpens(e) ==
    /\ logger[e] = "start"
    /\ IF Log(e) \notin logs
       THEN /\ logger' = [logger EXCEPT ![e] = "open"]
            /\ logs' = logs \cup {Log(e)}
       ELSE logger' = [logger EXCEPT ![e] = "refused"] /\ UNCHANGED logs
    /\ UNCHANGED <<config, driver, cmd, svc, mon, tick, over, made, scratch,
                   finalized, intact, history>>

(* The command: it takes the NPU, starts a server in its own session       *)
(* (run_benchmark.py:778-784), writes too much, ...                        *)
CmdAttach(e) == /\ cmd[e] = "host" /\ cmd' = [cmd EXCEPT ![e] = "npu"]
                /\ UNCHANGED <<config, driver, svc, mon, tick, logger, over,
                               files, history>>

CmdSpawns(e) == /\ Running(e) /\ svc[e] = "none"
                /\ svc' = [svc EXCEPT ![e] = "starting"]
                /\ UNCHANGED <<config, driver, cmd, mon, tick, logger, over,
                               files, history>>

SvcAttach(e) == /\ svc[e] = "starting" /\ svc' = [svc EXCEPT ![e] = "npu"]
                /\ UNCHANGED <<config, driver, cmd, mon, tick, logger, over,
                               files, history>>

SvcEnds(e) == /\ svc[e] # "none" /\ svc' = [svc EXCEPT ![e] = "none"]
              /\ UNCHANGED <<config, driver, cmd, mon, tick, logger, over,
                             files, history>>

Overrun(e, what) == /\ Running(e) /\ over[e] = "none"
                    /\ over' = [over EXCEPT ![e] = what]
                    /\ Trouble
                    /\ UNCHANGED <<config, driver, cmd, svc, mon, tick, logger,
                                   files, past>>

(* ... ends after stopping its server, or is ended by timeout(1), by       *)
(* SIGTERM or by itself, with a failure and the server left behind.  It    *)
(* may have written results to the evidence.                               *)
CmdExits(e, orderly) ==
    /\ Running(e)
    /\ cmd' = [cmd EXCEPT ![e] = "none"]
    /\ svc' = IF orderly THEN [svc EXCEPT ![e] = "none"] ELSE svc
    /\ failed' = [failed EXCEPT ![e] = @ \/ ~orderly]
    /\ intact' \in {intact, intact \ {run[e]}}
    /\ IF orderly THEN UNCHANGED trouble ELSE Trouble
    /\ UNCHANGED <<config, drv, step, samples, cut, locked, mon, tick, logger,
                   over, made, scratch, finalized, logs, past>>

MutantAuditNeverDue(e) == run[e] \notin scratch \/ over[e] = "scratch"

InBreach(e) == run[e] \notin scratch \/ over[e] # "none"

(* storage_guard_runtime_budget_ok: du of a scratch that is gone fails too.*)
BudgetBroken(e) ==
    \/ run[e] \notin scratch
    \/ over[e] = "scratch"
    \/ over[e] = "project" /\ tick[e] = AuditEvery - 1

(* storage_guard_run_monitored: a check, SIGTERM to the group ...          *)
MonCheck(e) ==
    /\ mon[e] = "watch" /\ Running(e)
    /\ IF BudgetBroken(e)
       THEN mon' = [mon EXCEPT ![e] = "kill"] /\ UNCHANGED <<tick, age>>
       ELSE /\ tick' = [tick EXCEPT ![e] = IF @ + 1 = AuditEvery THEN 0 ELSE @ + 1]
            /\ age' = IF InBreach(e) /\ age[e] < AuditEvery
                      THEN [age EXCEPT ![e] = @ + 1] ELSE age
            /\ UNCHANGED mon
    /\ UNCHANGED <<config, driver, cmd, svc, logger, over, files, looked, blind,
                   trouble>>

(* ... a second later SIGKILL, whatever the command does ...               *)
MonKill(e) ==
    /\ mon[e] = "kill"
    /\ cmd' = [cmd EXCEPT ![e] = "none"]
    /\ mon' = [mon EXCEPT ![e] = "reap"]
    /\ failed' = [failed EXCEPT ![e] = TRUE]
    /\ Trouble
    /\ UNCHANGED <<config, drv, step, samples, cut, locked, svc, tick, logger,
                   over, files, past>>

(* ... and the wait for the command.                                       *)
MonReap(e) ==
    /\ mon[e] \in {"watch", "reap"} /\ ~Running(e)
    /\ mon' = [mon EXCEPT ![e] = "none"]
    /\ tick' = [tick EXCEPT ![e] = 0]
    /\ age' = [age EXCEPT ![e] = 0] /\ blind' = [blind EXCEPT ![e] = {}]
    /\ UNCHANGED <<config, driver, cmd, svc, logger, over, files, looked, trouble>>

(* End of the stream: command and monitor have closed the pipe.  The rest  *)
(* of the log and its metadata are written now.                            *)
LoggerEnds(e) ==
    /\ logger[e] = "open" /\ ~Running(e) /\ mon[e] = "none"
    /\ logger' = [logger EXCEPT ![e] = "done"]
    /\ intact' = intact \ {run[e]}
    /\ UNCHANGED <<config, driver, cmd, svc, mon, tick, over, made, scratch,
                   finalized, logs, history>>

MutantStepNotAwaited(e) == TRUE

StepOver(e) == mon[e] = "none" /\ logger[e] \in {"done", "refused"}

StepEnds(e) ==
    /\ At(e, "step") /\ StepOver(e)
    /\ LET bad == failed[e] \/ logger[e] = "refused" IN
        /\ failed' = [failed EXCEPT ![e] = bad]
        /\ step' = [step EXCEPT ![e] = @ + 1]
        /\ GoTo(e, IF bad \/ step[e] + 1 = Steps THEN "final" ELSE "idle")
    /\ logger' = [logger EXCEPT ![e] = "none"]
    /\ UNCHANGED <<config, samples, cut, locked, cmd, svc, mon, tick, over,
                   files, history>>

(* The profile is over: the wait for benchmark and msprof returns and the  *)
(* benchmark's output is retained in the evidence ("xb", set -e).  It is a *)
(* failure (~ok) when the benchmark failed, was never ready or had no      *)
(* target; what became of msprof does not count.                           *)
ProfileEnds(e, ok) ==
    /\ At(e, "profile") /\ ~Running(e)
    /\ LET bad == failed[e] \/ ~ok \/ Log(e) \in logs IN
        /\ failed' = [failed EXCEPT ![e] = bad]
        /\ step' = [step EXCEPT ![e] = @ + 1]
        /\ GoTo(e, IF bad \/ step[e] + 1 = Steps THEN "final" ELSE "idle")
    /\ logs' = logs \cup {Log(e)}
    /\ intact' = intact \ {run[e]}
    /\ blind' = [blind EXCEPT ![e] = {}]
    /\ UNCHANGED <<config, samples, cut, locked, pipeline, made, scratch,
                   finalized, looked, age, trouble>>

(* jq fails on a half-written ready file: set -e, and the exit trap runs   *)
(* while the benchmark goes on without its driver.                         *)
ProfileTorn(e) ==
    /\ At(e, "profile") /\ Running(e)
    /\ GoTo(e, "final")
    /\ failed' = [failed EXCEPT ![e] = TRUE]
    /\ cut' = [cut EXCEPT ![e] = TRUE]
    /\ Trouble
    /\ UNCHANGED <<config, step, samples, locked, pipeline, files, past>>
-----------------------------------------------------------------------------
(* storage_guard_finalize; the m1 and m4a drivers clean up after it, the   *)
(* attempt-74 driver (keeps) only after a run without a failure.  A driver *)
(* is one or the other; it finalizes once, so the choice is made here.     *)
Finalize(e, keeps) ==
    /\ At(e, "final") /\ run[e] \in scratch
    /\ finalized' = finalized \cup {run[e]}
    /\ intact' = intact \cup {run[e]}
    /\ GoTo(e, IF keeps /\ failed[e] THEN "ended" ELSE "clean")
    /\ UNCHANGED <<config, step, samples, failed, cut, locked, pipeline, made,
                   scratch, logs, history>>

(* Evidence or project are too large, or the scratch is gone and with it   *)
(* the place of the marker, the integrity log being written already.  Some *)
(* breaches of a runtime budget are not looked at again here.              *)
FinalizeFails(e) ==
    /\ At(e, "final") /\ InBreach(e)
    /\ intact' = IF over[e] = "none" THEN intact \cup {run[e]} ELSE intact
    /\ GoTo(e, "ended")
    /\ UNCHANGED <<config, step, samples, failed, cut, locked, pipeline, made,
                   scratch, finalized, logs, history>>

MayRemove(e) == run[e] \in scratch \cap finalized \cap intact

(* storage_guard_cleanup_scratch; an operator may have pinned the tree.    *)
CleanUp(e, pinned) ==
    /\ At(e, "clean")
    /\ LET gone == IF MayRemove(e) /\ ~pinned THEN {run[e]} ELSE {} IN
        scratch' = scratch \ gone /\ finalized' = finalized \ gone
    /\ GoTo(e, "ended")
    /\ UNCHANGED <<config, step, samples, failed, cut, locked, pipeline, made,
                   intact, logs, history>>

(* SIGTERM to the driver: the exit trap runs at once, while the commands   *)
(* of the current step go on without it.                                   *)
Interrupt(e) ==
    /\ drv[e] \in {"idle", "step", "profile"}
    /\ GoTo(e, "final")
    /\ failed' = [failed EXCEPT ![e] = TRUE]
    /\ cut' = [cut EXCEPT ![e] = TRUE]
    /\ Trouble
    /\ UNCHANGED <<config, step, samples, locked, pipeline, files, past>>

(* SIGKILL, or SIGTERM where no trap is set.                               *)
Kill(e) ==
    /\ Driving(e)
    /\ GoTo(e, "ended")
    /\ Trouble
    /\ UNCHANGED <<config, step, samples, failed, cut, locked, pipeline, files, past>>

Monitor(e) == MonCheck(e) \/ MonKill(e) \/ MonReap(e)

GuardNext ==
    \E e \in Experiments :
        \/ Preflight(e) \/ PreflightFails(e) \/ Sample(e) \/ TryLock(e)
        \/ Recheck(e) \/ MakeDirs(e) \/ StartStep(e) \/ StartProfile(e)
        \/ DriverGivesUp(e)
        \/ LoggerOpens(e) \/ CmdAttach(e) \/ CmdSpawns(e) \/ SvcAttach(e)
        \/ SvcEnds(e) \/ (\E what \in Budgets \ {"none"} : Overrun(e, what))
        \/ (\E orderly \in BOOLEAN : CmdExits(e, orderly))
        \/ Monitor(e) \/ LoggerEnds(e) \/ StepEnds(e)
        \/ (\E ok \in BOOLEAN : ProfileEnds(e, ok)) \/ ProfileTorn(e)
        \/ (\E keeps \in BOOLEAN : Finalize(e, keeps)) \/ FinalizeFails(e)
        \/ (\E pinned \in BOOLEAN : CleanUp(e, pinned))
        \/ Interrupt(e) \/ Kill(e)

GuardSpec == GuardInit /\ [][GuardNext]_vars
-----------------------------------------------------------------------------
(* Commands of two experiments never run on one NPU, also when a driver    *)
(* was interrupted or killed and left its command behind: the lock is      *)
(* released by the last process of the pipeline (300-307, 374).            *)
NpuExclusive ==
    \A e, f \in Experiments :
        e # f /\ npu[e] = npu[f] => ~(Running(e) /\ Running(f))

(* The server an earlier experiment left on the NPU is beside a command    *)
(* only if it had not attached yet when the driver looked before the step  *)
(* (308, wait_npu_ready): nothing that npu-smi could show is missed.       *)
OrphanWasInvisible ==
    \A e, f \in Experiments :
        e # f /\ npu[e] = npu[f] /\ Running(e) /\ svc[f] = "npu" => f \in blind[e]

(* "overwrite is forbidden": an experiment makes its directories where     *)
(* another one has made them only if one of the two had looked before the  *)
(* other made anything (276-279 against 311, with the NPU wait between).   *)
OverwriteNeedsRace ==
    [][\A e \in Experiments :
        drv[e] = "mkdirs" /\ drv'[e] = "idle" /\ run[e] \in made =>
            \E f \in Experiments \ {e} :
                run[f] = run[e] /\ (f \in looked[e] \/ e \in looked[f])]_vars

(* The scratch of a run nobody else has is removed only after the command, *)
(* the monitor and the logger of its last step, and, if the driver reports *)
(* success, after every server they started.  Two ways are left to remove  *)
(* it under a running command: an interrupt, and the exit on a torn ready  *)
(* file of a profile (cut); one to leave a server without it: a step that  *)
(* failed (101-120 and 332 of the m4a driver).                             *)
ScratchRemovedLast ==
    \A e \in Experiments :
        /\ run[e] \in made \ scratch /\ ~cut[e]
        /\ \A f \in Experiments \ {e} : run[f] # run[e]
        => /\ ~Running(e) /\ mon[e] = "none" /\ logger[e] \notin {"start", "open"}
           /\ svc[e] # "none" => failed[e]

(* A command that breaks a budget, or whose scratch was removed under it,  *)
(* passes fewer than AuditEvery checks before the monitor turns on it,     *)
(* whether or not the driver is still there (376-395).  Commands of a      *)
(* profile have no monitor and age with none.                              *)
BreachSeenInTime == \A e \in Experiments : age[e] < AuditEvery
=============================================================================
