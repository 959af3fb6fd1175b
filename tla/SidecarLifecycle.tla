-------------------------- MODULE SidecarLifecycle --------------------------
(***************************************************************************)
(* Who starts, talks to and stops whom: `cruise run' (cli.py), the command *)
(* it runs with the worker's engine object in it (plugin.py,               *)
(* sidecar_backend.py, kv_transfer.py), and the sidecar processes that     *)
(* engine starts one after the other (resident_epoch_server.cpp and the    *)
(* lifecycle half of resident_epoch_bridge.cpp).  What an epoch computes   *)
(* is the business of ResidentSystem; here a call is its number.           *)
(*                                                                         *)
(* Processes may die at any step, every timeout may expire at any time,    *)
(* and a write to a peer that is gone ends the writer or fails.  The       *)
(* command and its worker are one process.                                 *)
(***************************************************************************)
EXTENDS Naturals, Sequences, FiniteSets

CONSTANTS
  MaxSidecars,   \* bound: how many sidecars one worker may start
  MaxCalls       \* bound: how many calls it may make

ASSUME LifecycleAssumption == MaxSidecars \in Nat /\ MaxCalls \in Nat

VARIABLES
  sup,       \* cruise run: init, popen, waiting, escalating, done, killed
  sig,       \* has a signal been sent to the process group
  runDir,    \* does the per-run directory exist
  w,         \* where the worker is
  after,     \* where _stop_process returns to: init, raised, idle, releasing
  eng,       \* the sidecar of the engine object, 0 without one
  link,      \* the sidecar behind the open socket, 0 without one
  calls,     \* calls made so far
  op,        \* the operation of the latest call
  exports,   \* does the worker's table of IPC exports hold keys
  proc,      \* the sidecar processes
  job,       \* the request each works on
  imports,   \* the sidecars that mapped the worker's KV by IPC key
  conn,      \* the Host end of each connection: none, open, shut
  reqs,      \* requests each sidecar has yet to read
  resps,     \* responses the worker has yet to read
  sockPath,  \* the sidecar bound to the socket path, 0 when there is no file
  file,      \* the call whose snapshot is in the transfer file, 0 without one
  mixed      \* ghost: was a response taken for another call's

supVars == <<sup, sig, runDir>>
cliVars == <<w, after, eng, link, calls, op, exports>>
srvVars == <<proc, job, imports>>
netVars == <<conn, reqs, resps>>
pathVars == <<sockPath, file>>
lifeVars == <<supVars, cliVars, srvVars, netVars, pathVars, mixed>>

Sidecars == 1..MaxSidecars
Ops == {"warm", "exec", "import", "ipc"}
NoJob == [op |-> "none", id |-> 0]

Alive(i) == proc[i] \notin {"none", "dead"}
Ended == w \in {"exited", "crashed"}

LifeInit ==
  /\ sup = "init" /\ sig = FALSE /\ runDir = FALSE
  /\ w = "none" /\ after = "idle" /\ eng = 0 /\ link = 0
  /\ calls = 0 /\ op = "none" /\ exports = FALSE
  /\ proc = [i \in Sidecars |-> "none"]
  /\ job = [i \in Sidecars |-> NoJob] /\ imports = {}
  /\ conn = [i \in Sidecars |-> "none"]
  /\ reqs = [i \in Sidecars |-> <<>>] /\ resps = [i \in Sidecars |-> <<>>]
  /\ sockPath = 0 /\ file = 0 /\ mixed = FALSE

-----------------------------------------------------------------------------
(***************************************************************************)
(* cruise run: _run_supervised                                             *)
(***************************************************************************)

(* The run directory is made and the command started in a new session. *)
SupPopen ==
  /\ sup = "init"
  /\ sup' = "popen" /\ runDir' = TRUE /\ w' = "idle"
  /\ UNCHANGED <<sig, after, eng, link, calls, op, exports, srvVars, netVars,
                 pathVars, mixed>>

SupStep(from, to) ==
  /\ sup = from
  /\ sup' = to
  /\ UNCHANGED <<runDir, cliVars, srvVars, netVars, pathVars, mixed>>

InstallHandlers == SupStep("popen", "waiting") /\ UNCHANGED sig

(* The handler passes the signal on to the group while the child lives. *)
Forward == ~Ended /\ SupStep("waiting", "waiting") /\ sig' = TRUE

(* Ctrl-C before the handlers are in place: KeyboardInterrupt, and the     *)
(* finally clause signals the group itself.                                *)
InterruptEarly == SupStep("popen", "escalating") /\ sig' = (sig \/ ~Ended)

(* SIGTERM while its default action is in place ends cruise run. *)
TerminateUnhandled ==
  /\ SupStep("popen", "killed") \/ SupStep("escalating", "killed")
  /\ UNCHANGED sig

(* Sixty seconds after its SIGTERM: SIGKILL to the group. *)
GroupKill ==
  /\ sup = "escalating" /\ ~Ended
  /\ w' = "crashed" /\ link' = 0 /\ exports' = FALSE
  /\ proc' = [i \in Sidecars |-> IF Alive(i) THEN "dead" ELSE proc[i]]
  /\ conn' = [i \in Sidecars |-> IF conn[i] = "open" THEN "shut" ELSE conn[i]]
  /\ imports' = {}
  /\ UNCHANGED <<supVars, after, eng, calls, op, job, reqs, resps, pathVars,
                 mixed>>

(* The child has ended: the run directory goes, and the socket with it. *)
SupCleanup ==
  /\ sup \in {"waiting", "escalating"} /\ Ended
  /\ sup' = "done" /\ runDir' = FALSE
  /\ sockPath' = 0 /\ file' = 0
  /\ UNCHANGED <<sig, cliVars, srvVars, netVars, mixed>>

-----------------------------------------------------------------------------
(***************************************************************************)
(* The engine object: SidecarDataFlowEngine.__init__                       *)
(***************************************************************************)

Go(from, to) == w = from /\ w' = to

StartEngine ==
  \E i \in Sidecars :
    /\ proc[i] = "none" /\ \A j \in 1..(i-1) : proc[j] # "none"
    /\ Go("idle", "connecting")
    /\ eng' = i /\ proc' = [proc EXCEPT ![i] = "spawned"]
    /\ sockPath' = 0 /\ file' = 0
    /\ UNCHANGED <<supVars, after, link, calls, op, exports, job, imports,
                   netVars, mixed>>

Connect ==
  /\ sockPath # 0 /\ proc[sockPath] = "listening" /\ conn[sockPath] = "none"
  /\ Go("connecting", "startup")
  /\ link' = sockPath /\ conn' = [conn EXCEPT ![sockPath] = "open"]
  /\ UNCHANGED <<supVars, after, eng, calls, op, exports, srvVars, reqs, resps,
                 pathVars, mixed>>

(* poll() sees that the child has exited. *)
ExitedDuringStartup ==
  /\ Go("connecting", "raised") /\ proc[eng] = "dead"
  /\ UNCHANGED <<supVars, after, eng, link, calls, op, exports, srvVars,
                 netVars, pathVars, mixed>>

ConnectTimeout ==
  /\ Go("connecting", "terminating") /\ after' = "init"
  /\ UNCHANGED <<supVars, eng, link, calls, op, exports, srvVars, netVars,
                 pathVars, mixed>>

HangUp ==
  /\ link' = 0
  /\ conn' = [i \in Sidecars |-> IF i = link THEN "shut" ELSE conn[i]]

Answered == link # 0 /\ resps[link] # <<>>
Take == resps' = [resps EXCEPT ![link] = Tail(@)]

(* recv fails before a response is there: the sidecar is gone and the      *)
(* stream ends, or the socket times out.                                   *)
Broken == ~Answered

StartupResponse ==
  /\ w = "startup" /\ Answered /\ Take
  /\ IF Head(resps[link]).status = "ok"
     THEN w' = "ready" /\ UNCHANGED <<after, link, conn>>
     ELSE w' = "terminating" /\ after' = "raised" /\ HangUp
  /\ UNCHANGED <<supVars, eng, calls, op, exports, srvVars, reqs, pathVars,
                 mixed>>

(* _receive_response raises, and nothing in __init__ stops the process. *)
StartupBroken ==
  /\ Go("startup", "raised")
  /\ Broken
  /\ UNCHANGED <<supVars, after, eng, link, calls, op, exports, srvVars,
                 netVars, pathVars, mixed>>

(* The exception is dropped, after the Host replay of the plan, and        *)
(* __del__ closes the object by force.                                     *)
MutantDelKeepsProcess ==
  /\ Go("raised", "idle") /\ eng' = 0 /\ HangUp
  /\ UNCHANGED <<supVars, after, calls, op, exports, srvVars, reqs, resps,
                 pathVars, mixed>>

Del ==
  /\ Go("raised", "terminating") /\ after' = "idle" /\ HangUp
  /\ UNCHANGED <<supVars, eng, calls, op, exports, srvVars, reqs, resps,
                 pathVars, mixed>>

-----------------------------------------------------------------------------
(***************************************************************************)
(* Calls: warm_up, execute, execute_with_import,                           *)
(* execute_with_device_transfer and _execute                               *)
(***************************************************************************)

(* _get_device_kv_exports: the stock KV is exported once per worker. *)
Export(o) == exports' = (exports \/ o = "ipc")

(* write_kv_snapshot, and the finally clause of execute_with_import *)
WriteSnapshot(o, id) == file' = IF o = "import" THEN id ELSE file
DropSnapshot(o) == file' = IF o = "import" THEN 0 ELSE file

(* The snapshot is in place, and the IPC keys are exported, before the     *)
(* request is sent.  A send to a dead sidecar fails at once.               *)
Call(o) ==
  /\ w = "ready" /\ calls < MaxCalls /\ (o = "warm" => calls = 0)
  /\ calls' = calls + 1 /\ op' = o
  /\ Export(o)
  /\ IF Alive(link)
     THEN /\ w' = "calling"
          /\ reqs' = [reqs EXCEPT ![link] =
                        Append(@, [op |-> o, id |-> calls + 1])]
          /\ WriteSnapshot(o, calls + 1)
     ELSE /\ w' = "failed"
          /\ DropSnapshot(o)
          /\ UNCHANGED reqs
  /\ UNCHANGED <<supVars, after, eng, link, srvVars, conn, resps, sockPath,
                 mixed>>

(* The KV caches cannot be exported: what this attempt exported is closed  *)
(* again and the exception leaves execute_model.                           *)
CaptureFails ==
  /\ Go("ready", "failed") /\ calls < MaxCalls
  /\ UNCHANGED <<supVars, after, eng, link, calls, op, exports, srvVars,
                 netVars, pathVars, mixed>>

(* The worker goes on after a committed result that checks out, and after  *)
(* a prepared failure that it may replay on the Host; else the engine ends.*)
Return ==
  /\ w = "calling" /\ Answered /\ Take /\ DropSnapshot(op)
  /\ LET m == Head(resps[link]) IN
     /\ \/ w' = "failed"
        \/ w' = "ready" /\ m.status = "ok"
        \/ w' = "ready" /\ m.status = "prepared" /\ op # "warm"
     /\ mixed' = (mixed \/ m.id # calls)
  /\ UNCHANGED <<supVars, after, eng, link, calls, op, exports, srvVars, conn,
                 reqs, sockPath>>

(* No response: the outcome of the epoch is ambiguous. *)
MutantRetryAfterTimeout ==
  /\ Go("calling", "ready")
  /\ Broken
  /\ DropSnapshot(op)
  /\ UNCHANGED <<supVars, after, eng, link, calls, op, exports, srvVars,
                 netVars, sockPath, mixed>>

ReturnBroken ==
  /\ Go("calling", "failed")
  /\ Broken
  /\ DropSnapshot(op)
  /\ UNCHANGED <<supVars, after, eng, link, calls, op, exports, srvVars,
                 netVars, sockPath, mixed>>

-----------------------------------------------------------------------------
(***************************************************************************)
(* NPUWorker.shutdown, as patched: close() and release_kv_device_exports   *)
(***************************************************************************)

(* close(): a living sidecar is asked to shut down, a dead one is reaped. *)
MutantReleaseFirst ==
  /\ w \in {"ready", "failed"} /\ after' = "releasing"
  /\ exports' = FALSE
  /\ IF Alive(link)
     THEN /\ w' = "shutting"
          /\ reqs' = [reqs EXCEPT ![link] = Append(@, [op |-> "shutdown", id |-> 0])]
          /\ UNCHANGED <<link, conn>>
     ELSE w' = "reaping" /\ HangUp /\ UNCHANGED reqs
  /\ UNCHANGED <<supVars, eng, calls, op, srvVars, resps, pathVars, mixed>>

Close ==
  /\ w \in {"ready", "failed"} /\ after' = "releasing"
  /\ IF Alive(link)
     THEN /\ w' = "shutting"
          /\ reqs' = [reqs EXCEPT ![link] = Append(@, [op |-> "shutdown", id |-> 0])]
          /\ UNCHANGED <<link, conn>>
     ELSE w' = "reaping" /\ HangUp /\ UNCHANGED reqs
  /\ UNCHANGED <<supVars, eng, calls, op, exports, srvVars, resps, pathVars,
                 mixed>>

(* shutdown of a worker that has no backend *)
CloseNothing ==
  /\ Go("idle", "releasing")
  /\ UNCHANGED <<supVars, after, eng, link, calls, op, exports, srvVars,
                 netVars, pathVars, mixed>>

(* Whatever response comes first passes for the acknowledgement. *)
Acknowledged ==
  /\ Go("shutting", "reaping") /\ Answered /\ Take /\ HangUp
  /\ UNCHANGED <<supVars, after, eng, calls, op, exports, srvVars, reqs,
                 pathVars, mixed>>

ShutdownBroken ==
  /\ Go("shutting", "terminating") /\ Broken /\ HangUp
  /\ UNCHANGED <<supVars, after, eng, calls, op, exports, srvVars, reqs, resps,
                 pathVars, mixed>>

MutantReapWithoutTimeout ==
  /\ Go("reaping", "terminating") /\ proc[eng] = "dead"
  /\ UNCHANGED <<supVars, after, eng, link, calls, op, exports, srvVars,
                 netVars, pathVars, mixed>>

ReapTimeout ==
  /\ Go("reaping", "terminating")
  /\ UNCHANGED <<supVars, after, eng, link, calls, op, exports, srvVars,
                 netVars, pathVars, mixed>>

(* The process has ended.  close() removes the socket and the transfer     *)
(* file; the _stop_process of __init__ only lets it raise.                 *)
MutantStoppedEarly ==
  /\ w \in {"reaping", "terminating"}
  /\ IF after = "init"
     THEN w' = "raised" /\ UNCHANGED <<eng, pathVars>>
     ELSE /\ w' = after /\ sockPath' = 0 /\ file' = 0
          /\ eng' = IF after = "raised" THEN eng ELSE 0
  /\ UNCHANGED <<supVars, after, link, calls, op, exports, srvVars, netVars,
                 mixed>>

Stopped ==
  /\ w \in {"reaping", "terminating"} /\ proc[eng] = "dead"
  /\ IF after = "init"
     THEN w' = "raised" /\ UNCHANGED <<eng, pathVars>>
     ELSE /\ w' = after /\ sockPath' = 0 /\ file' = 0
          /\ eng' = IF after = "raised" THEN eng ELSE 0
  /\ UNCHANGED <<supVars, after, link, calls, op, exports, srvVars, netVars,
                 mixed>>

Release ==
  /\ Go("releasing", "exited")
  /\ exports' = FALSE
  /\ UNCHANGED <<supVars, after, eng, link, calls, op, srvVars, netVars,
                 pathVars, mixed>>

WorkerDies ==
  /\ w # "none" /\ ~Ended
  /\ w' = "crashed" /\ exports' = FALSE /\ HangUp
  /\ UNCHANGED <<supVars, after, eng, calls, op, srvVars, reqs, resps, pathVars,
                 mixed>>

-----------------------------------------------------------------------------
(***************************************************************************)
(* The sidecar process: main of resident_epoch_server.cpp                  *)
(***************************************************************************)

Proc(i, from, to) == proc[i] = from /\ proc' = [proc EXCEPT ![i] = to]

(* A write reaches the Host, or finds the other end closed: the process    *)
(* gets SIGPIPE, and where that is ignored WriteAll fails.                 *)
Respond(i, id, status, to, broken) ==
  \/ /\ conn[i] = "open"
     /\ resps' = [resps EXCEPT ![i] = Append(@, [id |-> id, status |-> status])]
     /\ proc' = [proc EXCEPT ![i] = to] /\ UNCHANGED imports
  \/ /\ conn[i] = "shut"
     /\ \/ proc' = [proc EXCEPT ![i] = broken] /\ UNCHANGED imports
        \/ proc' = [proc EXCEPT ![i] = "dead"] /\ imports' = imports \ {i}
     /\ UNCHANGED resps

(* CreateListener unlinks whatever is at the path and binds it. *)
Listen(i) ==
  /\ Proc(i, "spawned", "listening")
  /\ sockPath' = i
  /\ UNCHANGED <<supVars, cliVars, job, imports, netVars, file, mixed>>

Accept(i) ==
  /\ conn[i] # "none" /\ Proc(i, "listening", "creating")
  /\ UNCHANGED <<supVars, cliVars, job, imports, netVars, pathVars, mixed>>

(* resident_epoch_create: any of the runtime's calls may fail. *)
CreateStatus == {"ok", "failed"}

Create(i) ==
  /\ proc[i] = "creating"
  /\ \E status \in CreateStatus :
       Respond(i, 0, status,
               IF status = "ok" THEN "serving" ELSE "aborting", "aborting")
  /\ UNCHANGED <<supVars, cliVars, job, conn, reqs, pathVars, mixed>>

MutantUnlinkNextTurn(i) ==
  /\ proc[i] = "serving" /\ reqs[i] # <<>> /\ Head(reqs[i]).op # "shutdown"
  /\ proc' = [proc EXCEPT ![i] = "busy"]
  /\ job' = [job EXCEPT ![i] = Head(reqs[i])]
  /\ reqs' = [reqs EXCEPT ![i] = Tail(@)]
  /\ DropSnapshot(job[i].op)
  /\ UNCHANGED <<supVars, cliVars, imports, conn, resps, sockPath, mixed>>

ReadRequest(i) ==
  /\ proc[i] = "serving" /\ reqs[i] # <<>> /\ Head(reqs[i]).op # "shutdown"
  /\ proc' = [proc EXCEPT ![i] = "busy"]
  /\ job' = [job EXCEPT ![i] = Head(reqs[i])]
  /\ reqs' = [reqs EXCEPT ![i] = Tail(@)]
  /\ UNCHANGED <<supVars, cliVars, imports, conn, resps, pathVars, mixed>>

ReadShutdown(i) ==
  /\ proc[i] = "serving" /\ reqs[i] # <<>> /\ Head(reqs[i]).op = "shutdown"
  /\ reqs' = [reqs EXCEPT ![i] = Tail(@)]
  /\ Respond(i, 0, "ok", "leaving", "leaving")
  /\ UNCHANGED <<supVars, cliVars, job, conn, pathVars, mixed>>

(* ReadAll finds the end of the stream. *)
MutantReadForever(i) ==
  /\ proc[i] = "serving" /\ reqs[i] = <<>> /\ conn[i] = "shut"
  /\ UNCHANGED lifeVars

ReadEof(i) ==
  /\ proc[i] = "serving" /\ reqs[i] = <<>> /\ conn[i] = "shut"
  /\ proc' = [proc EXCEPT ![i] = "leaving"]
  /\ UNCHANGED <<supVars, cliVars, job, imports, netVars, pathVars, mixed>>

(* ReadTransfer takes only the snapshot of its own transfer. *)
Refused(i) == job[i].op = "import" /\ file # job[i].id

(* ImportIpcMemory keeps its mappings for the life of the engine. *)
MapKV(i) == imports' = IF job[i].op = "ipc" THEN imports \cup {i} ELSE imports

(* Input that does not check out is refused, IPC keys maybe after some of  *)
(* them were mapped.                                                       *)
Prepare(i) ==
  /\ \/ ~Refused(i) /\ Proc(i, "busy", "running") /\ MapKV(i)
     \/ /\ Refused(i) \/ job[i].op = "ipc"
        /\ Proc(i, "busy", "rejecting")
        /\ MapKV(i) \/ UNCHANGED imports
  /\ UNCHANGED <<supVars, cliVars, job, netVars, pathVars, mixed>>

(* The epoch ends, well or not, or its input is refused; the transfer file *)
(* is removed and the response written.                                    *)
Answer(i) ==
  /\ proc[i] \in {"running", "rejecting"}
  /\ DropSnapshot(job[i].op)
  /\ \E status \in IF proc[i] = "rejecting" THEN {"prepared"}
                   ELSE {"ok", "prepared", "executing"} :
       Respond(i, job[i].id, status, "serving", "leaving")
  /\ UNCHANGED <<supVars, cliVars, job, conn, reqs, sockPath, mixed>>

(* resident_epoch_destroy closes what it mapped. *)
Destroy(i) == imports' = imports \ {i}

(* The end of main: the engine is destroyed and the paths are unlinked,    *)
(* whoever they belong to by now.  A failed start leaves the file alone.   *)
Leave(i) ==
  /\ proc[i] \in {"leaving", "aborting"}
  /\ proc' = [proc EXCEPT ![i] = "dead"]
  /\ Destroy(i)
  /\ sockPath' = 0
  /\ file' = IF proc[i] = "leaving" THEN 0 ELSE file
  /\ UNCHANGED <<supVars, cliVars, job, netVars, mixed>>

(* A crash, the SIGTERM or SIGKILL of _stop_process or the signal of the   *)
(* process group: no handler runs.                                         *)
Die(i) ==
  /\ Alive(i)
  /\ proc' = [proc EXCEPT ![i] = "dead"]
  /\ imports' = imports \ {i}
  /\ UNCHANGED <<supVars, cliVars, job, netVars, pathVars, mixed>>

-----------------------------------------------------------------------------
Supervisor ==
  SupPopen \/ InstallHandlers \/ Forward \/ InterruptEarly
    \/ TerminateUnhandled \/ GroupKill \/ SupCleanup

Starting ==
  Connect \/ ExitedDuringStartup \/ ConnectTimeout \/ StartupResponse
    \/ StartupBroken \/ Del

Finishing ==
  \/ Return \/ ReturnBroken
  \/ Acknowledged \/ ShutdownBroken \/ ReapTimeout \/ Stopped \/ Release

Serve(i) ==
  \/ Listen(i) \/ Accept(i) \/ Create(i) \/ ReadRequest(i) \/ ReadShutdown(i)
  \/ ReadEof(i) \/ Prepare(i) \/ Answer(i) \/ Leave(i)

LifeNext ==
  \/ Supervisor
  \/ StartEngine \/ Starting
  \/ \E o \in Ops : Call(o)
  \/ CaptureFails \/ Finishing \/ Close \/ CloseNothing
  \/ WorkerDies
  \/ \E i \in Sidecars : Serve(i) \/ Die(i)

LifeSpec == LifeInit /\ [][LifeNext]_lifeVars

(* terminate() and then kill() end the process they are sent to. *)
Killed == w = "terminating" /\ Die(eng)

(* What goes on by itself: cruise run, the worker inside a call into the   *)
(* engine object (each wait there has a timeout), a worker that shuts down *)
(* after a failed epoch, and signals that take effect.  Nothing is assumed *)
(* of the sidecar.                                                         *)
LifeFairness ==
  /\ WF_lifeVars(SupPopen \/ InstallHandlers \/ GroupKill \/ SupCleanup)
  /\ WF_lifeVars(Starting) /\ WF_lifeVars(Finishing)
  /\ WF_lifeVars(w = "failed" /\ Close)
  /\ WF_lifeVars(Killed)

FairLifeSpec == LifeSpec /\ LifeFairness

-----------------------------------------------------------------------------
(* The state is well formed. *)
LifeTypeOK ==
  /\ sup \in {"init", "popen", "waiting", "escalating", "done", "killed"}
  /\ sig \in BOOLEAN /\ runDir \in BOOLEAN /\ exports \in BOOLEAN
  /\ w \in {"none", "idle", "connecting", "startup", "raised", "ready",
            "calling", "failed", "shutting", "reaping", "terminating",
            "releasing", "exited", "crashed"}
  /\ after \in {"init", "raised", "idle", "releasing"}
  /\ eng \in 0..MaxSidecars /\ link \in {0, eng} /\ sockPath \in 0..MaxSidecars
  /\ calls \in 0..MaxCalls /\ file \in 0..MaxCalls
  /\ op \in Ops \cup {"none"}
  /\ proc \in [Sidecars -> {"none", "spawned", "listening", "creating",
                            "serving", "busy", "running", "rejecting",
                            "leaving", "aborting", "dead"}]
  /\ imports \subseteq Sidecars /\ mixed \in BOOLEAN

(* A worker never has two sidecars: when the startup of one fails, even    *)
(* while it is still creating its engine, it is gone before the next plan  *)
(* starts another.  The path, the transfer file and the Device are each    *)
(* used by one process only (sidecar_backend.py, _stop_process).           *)
OneSidecar == Cardinality({i \in Sidecars : Alive(i)}) <= 1

(* A call is never completed by the response to an earlier call: a late    *)
(* response stays on the socket of a worker that makes no further call     *)
(* (sidecar_backend.py, _execute).                                         *)
AnswersMatch == ~mixed

(* As long as the Host waits for an import, its snapshot is in the         *)
(* transfer file until the sidecar has read it: neither end's unlink of an *)
(* earlier snapshot, nor a sidecar on its way out, removes it.             *)
SnapshotThere ==
  w = "calling" /\ op = "import" /\ link # 0 =>
    /\ \A k \in 1..Len(reqs[link]) : reqs[link][k].id = calls => file = calls
    /\ proc[link] = "busy" /\ job[link].id = calls => file = calls

(* After an orderly shutdown no sidecar is left, nor its socket or         *)
(* transfer file (sidecar_backend.py, close).                              *)
CleanShutdown ==
  w = "exited" => /\ \A i \in Sidecars : ~Alive(i)
                  /\ sockPath = 0 /\ file = 0

(* The worker's KV stays exported for as long as a sidecar has it mapped:  *)
(* the plugin's shutdown closes the backend before it closes the keys.     *)
ExportsOutliveImports == imports # {} /\ w # "crashed" => exports

(* Whatever state the sidecar is in, and even if it never moves again,     *)
(* close() comes to an end: each wait has a timeout and the last resort is *)
(* to kill (sidecar_backend.py, close and _stop_process).                  *)
CloseEnds ==
  w \in {"shutting", "reaping", "terminating"} ~>
    w \in {"raised", "idle", "exited", "crashed"}

(* A sidecar that has accepted its worker ends after the worker has ended, *)
(* however the worker ended, if the sidecar keeps going: it meets the end  *)
(* of the stream (resident_epoch_server.cpp, ReadAll and WriteAll).        *)
SidecarFollows ==
  (\A i \in Sidecars : WF_lifeVars(Serve(i))) =>
    \A i \in Sidecars :
      (Ended /\ Alive(i) /\ conn[i] # "none") ~> ~Alive(i)

=============================================================================
