---------------------- MODULE SidecarLifecycle_proofs ----------------------
(***************************************************************************)
(* Proofs about SidecarLifecycle, for any number of sidecars and calls.    *)
(*                                                                         *)
(* The inductive invariant says where a living sidecar can be found: it is *)
(* the one of the engine object, and the worker is not in a state without  *)
(* such an object.  All else follows the request from the worker's table   *)
(* of exports through the socket to the sidecar's mappings.                *)
(***************************************************************************)
EXTENDS SidecarLifecycle, FiniteSetTheorems, SequenceTheorems, TLAPS

(* The states of a worker that has no engine object. *)
NoEngine == {"none", "idle", "releasing", "exited"}

Requests == [op : Ops \cup {"none", "shutdown"}, id : Nat]

LifeShape ==
  /\ eng \in 0..MaxSidecars /\ link \in {0, eng}
  /\ after \in {"init", "raised", "idle", "releasing"}
  /\ proc \in [Sidecars -> {"none", "spawned", "listening", "creating",
                            "serving", "busy", "running", "rejecting",
                            "leaving", "aborting", "dead"}]
  /\ job \in [Sidecars -> Requests] /\ reqs \in [Sidecars -> Seq(Requests)]
  /\ imports \subseteq Sidecars /\ exports \in BOOLEAN
  /\ calls \in Nat /\ sockPath \in 0..MaxSidecars

LivingIsOurs ==
  \A i \in Sidecars : Alive(i) => i = eng /\ w \notin NoEngine

NothingLeft == w \in NoEngine => sockPath = 0 /\ file = 0

Asks(i) == \/ job[i].op = "ipc"
           \/ \E k \in 1..Len(reqs[i]) : reqs[i][k].op = "ipc"

AskedIsExported ==
  \A i \in Sidecars : Alive(i) /\ Asks(i) => exports \/ w = "crashed"

MappedIsExported ==
  /\ \A i \in imports : Alive(i)
  /\ imports # {} => exports \/ w = "crashed"

UnbornIsSilent ==
  \A i \in Sidecars : proc[i] = "none" => job[i] = NoJob /\ reqs[i] = <<>>

LinkedEngine ==
  /\ w \in NoEngine \cup {"connecting", "reaping", "terminating"} => link = 0
  /\ w \in {"startup", "ready", "calling", "failed", "shutting"} => link # 0

NotStarted == sup = "init" => w = "none"

LifeInv ==
  /\ LifeShape /\ NotStarted /\ LivingIsOurs /\ NothingLeft
  /\ AskedIsExported /\ MappedIsExported /\ UnbornIsSilent /\ LinkedEngine

-----------------------------------------------------------------------------
(* What the server has yet to read after a sendall: the request at the     *)
(* end, and before it what was there (sidecar_backend.py, _execute).       *)
LEMMA Sent ==
  ASSUME NEW q \in Seq(Requests), NEW m \in Requests
  PROVE  /\ Append(q, m) \in Seq(Requests)
         /\ \A k \in 1..Len(Append(q, m)) :
              \/ Append(q, m)[k] = m
              \/ k \in 1..Len(q) /\ Append(q, m)[k] = q[k]
OBVIOUS

(* What it has yet to read after a ReadAll: all but the first              *)
(* (resident_epoch_server.cpp, ReadAll).                                   *)
LEMMA Received ==
  ASSUME NEW q \in Seq(Requests), q # <<>>
  PROVE  /\ 1 \in 1..Len(q) /\ Head(q) = q[1] /\ Head(q) \in Requests
         /\ Tail(q) \in Seq(Requests)
         /\ \A k \in 1..Len(Tail(q)) :
              k+1 \in 1..Len(q) /\ Tail(q)[k] = q[k+1]
OBVIOUS

(* The initial state satisfies the inductive invariant: nothing has been   *)
(* started (SidecarDataFlowEngine.__init__).                               *)
LEMMA LifeInitInv == LifeInit => LifeInv
<1>. SUFFICES ASSUME LifeInit PROVE LifeInv
  OBVIOUS
<1>1. NoJob \in Requests /\ <<>> \in Seq(Requests)
  BY DEF NoJob, Requests
<1>a. reqs \in [Sidecars -> Seq(Requests)] /\ job \in [Sidecars -> Requests]
  BY <1>1 DEF LifeInit
<1>b. proc \in [Sidecars -> {"none", "spawned", "listening", "creating",
                            "serving", "busy", "running", "rejecting",
                            "leaving", "aborting", "dead"}]
  BY DEF LifeInit
<1>c. 0 \in 0..MaxSidecars /\ 0 \in Nat
  BY LifecycleAssumption
<1>2. LifeShape
  BY <1>a, <1>b, <1>c, Zenon DEF LifeInit, LifeShape
<1>3. \A i \in Sidecars : ~Alive(i)
  BY DEF LifeInit, Alive
<1>. QED
  BY <1>2, <1>3
  DEF LifeInit, LifeInv, LivingIsOurs, NothingLeft, AskedIsExported,
      MappedIsExported, UnbornIsSilent, NotStarted, LinkedEngine, NoEngine

(* No step of cruise run breaks it (cli.py, _run_supervised). *)
LEMMA SupervisorStep == LifeInv /\ Supervisor => LifeInv'
<1>. SUFFICES ASSUME LifeInv, Supervisor PROVE LifeInv'
  OBVIOUS
<1>1. CASE SupPopen
  BY <1>1 DEF SupPopen, Go, Ops, supVars, cliVars, srvVars, netVars, pathVars,
      LifeInv, LifeShape, LivingIsOurs, NothingLeft, AskedIsExported,
      MappedIsExported, UnbornIsSilent, NotStarted, LinkedEngine, Asks,
      NoEngine, Alive, Sidecars
<1>2. CASE InstallHandlers
  BY <1>2 DEF InstallHandlers, SupStep, Go, Ops, supVars, cliVars, srvVars, netVars, pathVars,
      LifeInv, LifeShape, LivingIsOurs, NothingLeft, AskedIsExported,
      MappedIsExported, UnbornIsSilent, NotStarted, LinkedEngine, Asks,
      NoEngine, Alive, Sidecars
<1>3. CASE Forward
  BY <1>3 DEF Forward, SupStep, Ended, Go, Ops, supVars, cliVars, srvVars, netVars, pathVars,
      LifeInv, LifeShape, LivingIsOurs, NothingLeft, AskedIsExported,
      MappedIsExported, UnbornIsSilent, NotStarted, LinkedEngine, Asks,
      NoEngine, Alive, Sidecars
<1>4. CASE InterruptEarly
  BY <1>4 DEF InterruptEarly, SupStep, Go, Ops, supVars, cliVars, srvVars, netVars, pathVars,
      LifeInv, LifeShape, LivingIsOurs, NothingLeft, AskedIsExported,
      MappedIsExported, UnbornIsSilent, NotStarted, LinkedEngine, Asks,
      NoEngine, Alive, Sidecars
<1>5. CASE TerminateUnhandled
  BY <1>5 DEF TerminateUnhandled, SupStep, Go, Ops, supVars, cliVars, srvVars, netVars, pathVars,
      LifeInv, LifeShape, LivingIsOurs, NothingLeft, AskedIsExported,
      MappedIsExported, UnbornIsSilent, NotStarted, LinkedEngine, Asks,
      NoEngine, Alive, Sidecars
<1>6. CASE GroupKill
  BY <1>6 DEF GroupKill, Ended, Go, Ops, supVars, cliVars, srvVars, netVars, pathVars,
      LifeInv, LifeShape, LivingIsOurs, NothingLeft, AskedIsExported,
      MappedIsExported, UnbornIsSilent, NotStarted, LinkedEngine, Asks,
      NoEngine, Alive, Sidecars
<1>7. CASE SupCleanup
  BY <1>7, LifecycleAssumption DEF SupCleanup, Ended, Go, Ops, supVars, cliVars, srvVars, netVars, pathVars,
      LifeInv, LifeShape, LivingIsOurs, NothingLeft, AskedIsExported,
      MappedIsExported, UnbornIsSilent, NotStarted, LinkedEngine, Asks,
      NoEngine, Alive, Sidecars
<1>. QED  BY <1>1, <1>2, <1>3, <1>4, <1>5, <1>6, <1>7 DEF Supervisor

(* No step of the worker but a call breaks it (sidecar_backend.py). *)
LEMMA WorkerStep ==
  ASSUME LifeInv,
         \/ StartEngine \/ Starting \/ CaptureFails \/ Finishing
         \/ Close \/ CloseNothing \/ WorkerDies
  PROVE LifeInv'
<1>1. CASE StartEngine
  <2>1. PICK i \in Sidecars :
          /\ proc[i] = "none" /\ eng' = i
          /\ proc' = [proc EXCEPT ![i] = "spawned"]
    BY <1>1 DEF StartEngine
  <2>2. \A j \in Sidecars : ~Alive(j)
    BY <1>1 DEF StartEngine, Go, LifeInv, LivingIsOurs, NoEngine
  <2>3. link = 0
    BY <1>1 DEF StartEngine, Go, LifeInv, LinkedEngine, NoEngine
  <2>. QED
    BY <1>1, <2>1, <2>2, <2>3
    DEF StartEngine, NoJob, Go, Ops, supVars, cliVars, srvVars, netVars, pathVars,
        LifeInv, LifeShape, LivingIsOurs, NothingLeft, AskedIsExported,
        MappedIsExported, UnbornIsSilent, NotStarted, LinkedEngine, Asks,
      NoEngine, Alive, Sidecars
<1>2. CASE Connect
  BY <1>2 DEF Connect, Go, Ops, supVars, cliVars, srvVars, netVars, pathVars,
      LifeInv, LifeShape, LivingIsOurs, NothingLeft, AskedIsExported,
      MappedIsExported, UnbornIsSilent, NotStarted, LinkedEngine, Asks,
      NoEngine, Alive, Sidecars
<1>3. CASE ExitedDuringStartup
  BY <1>3 DEF ExitedDuringStartup, Go, Ops, supVars, cliVars, srvVars, netVars, pathVars,
      LifeInv, LifeShape, LivingIsOurs, NothingLeft, AskedIsExported,
      MappedIsExported, UnbornIsSilent, NotStarted, LinkedEngine, Asks,
      NoEngine, Alive, Sidecars
<1>4. CASE ConnectTimeout
  BY <1>4 DEF ConnectTimeout, Go, Ops, supVars, cliVars, srvVars, netVars, pathVars,
      LifeInv, LifeShape, LivingIsOurs, NothingLeft, AskedIsExported,
      MappedIsExported, UnbornIsSilent, NotStarted, LinkedEngine, Asks,
      NoEngine, Alive, Sidecars
<1>5. CASE StartupResponse
  BY <1>5 DEF StartupResponse, HangUp, Take, Answered, Go, Ops, supVars, cliVars, srvVars, netVars, pathVars,
      LifeInv, LifeShape, LivingIsOurs, NothingLeft, AskedIsExported,
      MappedIsExported, UnbornIsSilent, NotStarted, LinkedEngine, Asks,
      NoEngine, Alive, Sidecars
<1>6. CASE StartupBroken
  BY <1>6 DEF StartupBroken, Go, Ops, supVars, cliVars, srvVars, netVars, pathVars,
      LifeInv, LifeShape, LivingIsOurs, NothingLeft, AskedIsExported,
      MappedIsExported, UnbornIsSilent, NotStarted, LinkedEngine, Asks,
      NoEngine, Alive, Sidecars
<1>7. CASE Del
  BY <1>7 DEF Del, HangUp, Go, Ops, supVars, cliVars, srvVars, netVars, pathVars,
      LifeInv, LifeShape, LivingIsOurs, NothingLeft, AskedIsExported,
      MappedIsExported, UnbornIsSilent, NotStarted, LinkedEngine, Asks,
      NoEngine, Alive, Sidecars
<1>8. CASE CaptureFails
  BY <1>8 DEF CaptureFails, Go, Ops, supVars, cliVars, srvVars, netVars, pathVars,
      LifeInv, LifeShape, LivingIsOurs, NothingLeft, AskedIsExported,
      MappedIsExported, UnbornIsSilent, NotStarted, LinkedEngine, Asks,
      NoEngine, Alive, Sidecars
<1>9. CASE Return
  BY <1>9 DEF Return, Take, Answered, DropSnapshot, Go, Ops, supVars, cliVars, srvVars, netVars, pathVars,
      LifeInv, LifeShape, LivingIsOurs, NothingLeft, AskedIsExported,
      MappedIsExported, UnbornIsSilent, NotStarted, LinkedEngine, Asks,
      NoEngine, Alive, Sidecars
<1>10. CASE ReturnBroken
  BY <1>10 DEF ReturnBroken, DropSnapshot, Go, Ops, supVars, cliVars, srvVars, netVars, pathVars,
      LifeInv, LifeShape, LivingIsOurs, NothingLeft, AskedIsExported,
      MappedIsExported, UnbornIsSilent, NotStarted, LinkedEngine, Asks,
      NoEngine, Alive, Sidecars
<1>11. CASE Close
  <2>. DEFINE m == [op |-> "shutdown", id |-> 0]
  <2>1. CASE ~Alive(link)
    BY <1>11, <2>1 DEF Close, HangUp, supVars, cliVars, srvVars, netVars, pathVars,
        LifeInv, LifeShape, LivingIsOurs, NothingLeft, AskedIsExported,
        MappedIsExported, UnbornIsSilent, NotStarted, LinkedEngine, Asks, NoEngine,
        Alive, Sidecars
  <2>2. CASE Alive(link) /\ link \in Sidecars
    <3>1. m \in Requests /\ m.op # "ipc"
      BY DEF Requests
    <3>2. reqs[link] \in Seq(Requests)
      BY <2>2 DEF LifeInv, LifeShape
    <3>3. reqs' = [reqs EXCEPT ![link] = Append(reqs[link], m)]
      BY <1>11, <2>2 DEF Close
    <3>. HIDE DEF m
    <3>. QED
      BY <1>11, <2>2, <3>1, <3>2, <3>3, Sent DEF Close, supVars, cliVars, srvVars, netVars, pathVars,
        LifeInv, LifeShape, LivingIsOurs, NothingLeft, AskedIsExported,
        MappedIsExported, UnbornIsSilent, NotStarted, LinkedEngine, Asks, NoEngine,
        Alive, Sidecars
  <2>3. link \in Sidecars
    BY <1>11 DEF Close, LifeInv, LifeShape, LinkedEngine, Sidecars
  <2>. QED  BY <2>1, <2>2, <2>3
<1>12. CASE CloseNothing
  BY <1>12 DEF CloseNothing, Go, Ops, supVars, cliVars, srvVars, netVars, pathVars,
      LifeInv, LifeShape, LivingIsOurs, NothingLeft, AskedIsExported,
      MappedIsExported, UnbornIsSilent, NotStarted, LinkedEngine, Asks,
      NoEngine, Alive, Sidecars
<1>13. CASE Acknowledged
  BY <1>13 DEF Acknowledged, HangUp, Take, Answered, Go, Ops, supVars, cliVars, srvVars, netVars, pathVars,
      LifeInv, LifeShape, LivingIsOurs, NothingLeft, AskedIsExported,
      MappedIsExported, UnbornIsSilent, NotStarted, LinkedEngine, Asks,
      NoEngine, Alive, Sidecars
<1>14. CASE ShutdownBroken
  BY <1>14 DEF ShutdownBroken, HangUp, Go, Ops, supVars, cliVars, srvVars, netVars, pathVars,
      LifeInv, LifeShape, LivingIsOurs, NothingLeft, AskedIsExported,
      MappedIsExported, UnbornIsSilent, NotStarted, LinkedEngine, Asks,
      NoEngine, Alive, Sidecars
<1>15. CASE ReapTimeout
  BY <1>15 DEF ReapTimeout, Go, Ops, supVars, cliVars, srvVars, netVars, pathVars,
      LifeInv, LifeShape, LivingIsOurs, NothingLeft, AskedIsExported,
      MappedIsExported, UnbornIsSilent, NotStarted, LinkedEngine, Asks,
      NoEngine, Alive, Sidecars
<1>16. CASE Stopped
  <2>1. \A i \in Sidecars : ~Alive(i)
    BY <1>16 DEF Stopped, LifeInv, LivingIsOurs, Alive
  <2>2. CASE after \in {"init", "raised"}
    BY <1>16, <2>1, <2>2, LifecycleAssumption DEF Stopped, supVars, cliVars, srvVars, netVars, pathVars,
        LifeInv, LifeShape, LivingIsOurs, NothingLeft, AskedIsExported,
        MappedIsExported, UnbornIsSilent, NotStarted, LinkedEngine, Asks, NoEngine,
        Alive, Sidecars
  <2>3. CASE after \in {"idle", "releasing"}
    BY <1>16, <2>1, <2>3, LifecycleAssumption DEF Stopped, supVars, cliVars, srvVars, netVars, pathVars,
        LifeInv, LifeShape, LivingIsOurs, NothingLeft, AskedIsExported,
        MappedIsExported, UnbornIsSilent, NotStarted, LinkedEngine, Asks, NoEngine,
        Alive, Sidecars
  <2>. QED  BY <2>2, <2>3 DEF LifeInv, LifeShape
<1>17. CASE Release
  BY <1>17 DEF Release, Go, Ops, supVars, cliVars, srvVars, netVars, pathVars,
      LifeInv, LifeShape, LivingIsOurs, NothingLeft, AskedIsExported,
      MappedIsExported, UnbornIsSilent, NotStarted, LinkedEngine, Asks,
      NoEngine, Alive, Sidecars
<1>18. CASE WorkerDies
  BY <1>18 DEF WorkerDies, HangUp, Ended, Go, Ops, supVars, cliVars, srvVars, netVars, pathVars,
      LifeInv, LifeShape, LivingIsOurs, NothingLeft, AskedIsExported,
      MappedIsExported, UnbornIsSilent, NotStarted, LinkedEngine, Asks,
      NoEngine, Alive, Sidecars
<1>. QED  BY <1>1, <1>2, <1>3, <1>4, <1>5, <1>6, <1>7, <1>8, <1>9, <1>10, <1>11, <1>12, <1>13, <1>14, <1>15, <1>16, <1>17, <1>18 DEF Starting, Finishing

(* No call breaks it: an operation that maps the KV has it exported first  *)
(* (sidecar_backend.py, execute_with_device_transfer).                     *)
LEMMA CallStep ==
  ASSUME LifeInv, NEW o \in Ops, Call(o)
  PROVE LifeInv'
<1>. DEFINE m == [op |-> o, id |-> calls + 1]
<1>1. link \in Sidecars
  BY DEF Call, LifeInv, LifeShape, LinkedEngine, Sidecars
<1>2. CASE ~Alive(link)
  BY <1>1, <1>2 DEF Call, Export, DropSnapshot, supVars, cliVars, srvVars, netVars, pathVars,
      LifeInv, LifeShape, LivingIsOurs, NothingLeft, AskedIsExported,
      MappedIsExported, UnbornIsSilent, NotStarted, LinkedEngine, Asks, NoEngine,
      Alive, Sidecars
<1>3. CASE Alive(link)
  <2>a. m \in Requests /\ m.op = o
    BY DEF Requests, LifeInv, LifeShape
  <2>b. o = "ipc" => exports'
    BY DEF Call, Export
  <2>1. m \in Requests /\ (m.op = "ipc" => exports')
    BY <2>a, <2>b
  <2>2. reqs[link] \in Seq(Requests)
    BY <1>1 DEF LifeInv, LifeShape
  <2>3. reqs' = [reqs EXCEPT ![link] = Append(reqs[link], m)]
    BY <1>3 DEF Call
  <2>4. exports => exports'
    BY DEF Call, Export
  <2>. HIDE DEF m
  <2>5. LifeShape'
    BY <1>1, <1>3, <2>2, <2>1, <2>3, Sent
    DEF Call, Export, supVars, cliVars, srvVars, netVars, pathVars, LifeInv, LifeShape
  <2>6. AskedIsExported'
    BY <1>1, <1>3, <2>1, <2>2, <2>3, <2>4, Sent
    DEF Call, Export, srvVars, LifeInv, LifeShape, AskedIsExported, Asks, Alive
  <2>. QED
    BY <1>1, <1>3, <2>3, <2>4, <2>5, <2>6
    DEF Call, WriteSnapshot, supVars, cliVars, srvVars, netVars, pathVars,
        LifeInv, LivingIsOurs, NothingLeft, AskedIsExported,
        MappedIsExported, UnbornIsSilent, NotStarted, LinkedEngine, Asks, NoEngine,
        Alive, Sidecars
<1>. QED  BY <1>2, <1>3

(* No step of a sidecar breaks it (resident_epoch_server.cpp, main). *)
LEMMA ServerStep ==
  ASSUME LifeInv, NEW i \in Sidecars, Serve(i) \/ Die(i)
  PROVE LifeInv'
<1>1. CASE Listen(i)
  BY <1>1 DEF Listen, Proc, Go, Ops, supVars, cliVars, srvVars, netVars, pathVars,
      LifeInv, LifeShape, LivingIsOurs, NothingLeft, AskedIsExported,
      MappedIsExported, UnbornIsSilent, NotStarted, LinkedEngine, Asks,
      NoEngine, Alive, Sidecars
<1>2. CASE Accept(i)
  BY <1>2 DEF Accept, Proc, Go, Ops, supVars, cliVars, srvVars, netVars, pathVars,
      LifeInv, LifeShape, LivingIsOurs, NothingLeft, AskedIsExported,
      MappedIsExported, UnbornIsSilent, NotStarted, LinkedEngine, Asks,
      NoEngine, Alive, Sidecars
<1>3. CASE Create(i)
  BY <1>3 DEF Create, CreateStatus, Respond, Go, Ops, supVars, cliVars, srvVars, netVars, pathVars,
      LifeInv, LifeShape, LivingIsOurs, NothingLeft, AskedIsExported,
      MappedIsExported, UnbornIsSilent, NotStarted, LinkedEngine, Asks,
      NoEngine, Alive, Sidecars
<1>4. CASE ReadRequest(i)
  <2>1. reqs[i] \in Seq(Requests) /\ reqs[i] # <<>>
    BY <1>4 DEF ReadRequest, LifeInv, LifeShape
  <2>2. reqs' = [reqs EXCEPT ![i] = Tail(reqs[i])]
    BY <1>4 DEF ReadRequest
  <2>3. LifeShape'
    BY <1>4, <2>1, <2>2, Received
    DEF ReadRequest, supVars, cliVars, pathVars, srvVars, netVars, LifeInv,
        LifeShape
  <2>4. AskedIsExported'
    BY <1>4, <2>1, <2>2, Received
    DEF ReadRequest, cliVars, LifeInv, LifeShape, AskedIsExported, Asks, Alive
  <2>. QED
    BY <1>4, <2>2, <2>3, <2>4 DEF ReadRequest, supVars, cliVars, srvVars, netVars, pathVars,
        LifeInv, LivingIsOurs, NothingLeft, AskedIsExported,
        MappedIsExported, UnbornIsSilent, NotStarted, LinkedEngine, Asks, NoEngine,
        Alive, Sidecars
<1>5. CASE ReadShutdown(i)
  <2>1. reqs[i] \in Seq(Requests) /\ reqs[i] # <<>>
    BY <1>5 DEF ReadShutdown, LifeInv, LifeShape
  <2>2. reqs' = [reqs EXCEPT ![i] = Tail(reqs[i])]
    BY <1>5 DEF ReadShutdown
  <2>a. reqs' \in [Sidecars -> Seq(Requests)]
    BY <2>1, <2>2, Received DEF LifeInv, LifeShape
  <2>c. /\ proc' \in [Sidecars -> {"none", "spawned", "listening", "creating",
                                   "serving", "busy", "running", "rejecting",
                                   "leaving", "aborting", "dead"}]
        /\ imports' \subseteq Sidecars
    BY <1>5 DEF ReadShutdown, Respond, LifeInv, LifeShape
  <2>3. LifeShape'
    BY <1>5, <2>a, <2>c DEF ReadShutdown, cliVars, pathVars, LifeInv, LifeShape
  <2>d. \A j \in Sidecars : Alive(j)' => Alive(j)
    BY <1>5 DEF ReadShutdown, Respond, Alive, LifeInv, LifeShape
  <2>b. \A j \in Sidecars : Asks(j)' => Asks(j)
    BY <1>5, <2>1, <2>2, Received DEF ReadShutdown, Asks, LifeInv, LifeShape
  <2>4. AskedIsExported'
    BY <1>5, <2>b, <2>d DEF ReadShutdown, cliVars, LifeInv, AskedIsExported
  <2>5. LivingIsOurs' /\ NothingLeft' /\ NotStarted' /\ LinkedEngine'
    BY <1>5, <2>d DEF ReadShutdown, supVars, cliVars, pathVars, LifeInv,
       LivingIsOurs, NothingLeft, NotStarted, LinkedEngine
  <2>6. MappedIsExported'
    BY <1>5 DEF ReadShutdown, Respond, cliVars, LifeInv, LifeShape,
       MappedIsExported, Alive
  <2>7. UnbornIsSilent'
    BY <1>5, <2>2 DEF ReadShutdown, Respond, LifeInv, LifeShape, UnbornIsSilent
  <2>. QED  BY <2>3, <2>4, <2>5, <2>6, <2>7 DEF LifeInv
<1>6. CASE ReadEof(i)
  BY <1>6 DEF ReadEof, Go, Ops, supVars, cliVars, srvVars, netVars, pathVars,
      LifeInv, LifeShape, LivingIsOurs, NothingLeft, AskedIsExported,
      MappedIsExported, UnbornIsSilent, NotStarted, LinkedEngine, Asks,
      NoEngine, Alive, Sidecars
<1>7. CASE Prepare(i)
  BY <1>7 DEF Prepare, MapKV, Proc, Go, Ops, supVars, cliVars, srvVars, netVars, pathVars,
      LifeInv, LifeShape, LivingIsOurs, NothingLeft, AskedIsExported,
      MappedIsExported, UnbornIsSilent, NotStarted, LinkedEngine, Asks,
      NoEngine, Alive, Sidecars
<1>8. CASE Answer(i)
  BY <1>8 DEF Answer, Respond, DropSnapshot, Go, Ops, supVars, cliVars, srvVars, netVars, pathVars,
      LifeInv, LifeShape, LivingIsOurs, NothingLeft, AskedIsExported,
      MappedIsExported, UnbornIsSilent, NotStarted, LinkedEngine, Asks,
      NoEngine, Alive, Sidecars
<1>9. CASE Leave(i)
  BY <1>9, LifecycleAssumption DEF Leave, Destroy, Go, Ops, supVars, cliVars, srvVars, netVars, pathVars,
      LifeInv, LifeShape, LivingIsOurs, NothingLeft, AskedIsExported,
      MappedIsExported, UnbornIsSilent, NotStarted, LinkedEngine, Asks,
      NoEngine, Alive, Sidecars
<1>10. CASE Die(i)
  BY <1>10 DEF Die, Go, Ops, supVars, cliVars, srvVars, netVars, pathVars,
      LifeInv, LifeShape, LivingIsOurs, NothingLeft, AskedIsExported,
      MappedIsExported, UnbornIsSilent, NotStarted, LinkedEngine, Asks,
      NoEngine, Alive, Sidecars
<1>. QED  BY <1>1, <1>2, <1>3, <1>4, <1>5, <1>6, <1>7, <1>8, <1>9, <1>10 DEF Serve

(* The inductive invariant holds in every reachable state of the processes *)
(* of cli.py, sidecar_backend.py and resident_epoch_server.cpp.            *)
THEOREM LifeInvariant == LifeSpec => []LifeInv
<1>1. LifeInv /\ [LifeNext]_lifeVars => LifeInv'
  <2>. SUFFICES ASSUME LifeInv, [LifeNext]_lifeVars PROVE LifeInv'
    OBVIOUS
  <2>1. CASE LifeNext
    BY <2>1, SupervisorStep, WorkerStep, CallStep, ServerStep DEF LifeNext
  <2>2. CASE UNCHANGED lifeVars
    BY <2>2 DEF lifeVars, supVars, cliVars, srvVars, netVars, pathVars,
      LifeInv, LifeShape, LivingIsOurs, NothingLeft, AskedIsExported,
      MappedIsExported, UnbornIsSilent, NotStarted, LinkedEngine, Asks,
      NoEngine, Alive, Sidecars
  <2>. QED  BY <2>1, <2>2
<1>. QED  BY LifeInitInv, <1>1, PTL DEF LifeSpec

(* Starting a sidecar never leaves two of them alive, however the earlier  *)
(* startups failed (sidecar_backend.py, __del__ and _stop_process).        *)
THEOREM OneSidecarAlways == LifeSpec => []OneSidecar
<1>1. LifeInv => OneSidecar
  <2>. SUFFICES ASSUME LifeInv PROVE OneSidecar
    OBVIOUS
  <2>. DEFINE A == {i \in Sidecars : Alive(i)}
  <2>1. A \subseteq {eng}
    BY DEF LifeInv, LivingIsOurs
  <2>2. IsFiniteSet({eng}) /\ Cardinality({eng}) = 1
    BY FS_Singleton
  <2>3. Cardinality(A) <= 1
    BY <2>1, <2>2, FS_Subset
  <2>. QED  BY <2>3 DEF OneSidecar
<1>. QED  BY LifeInvariant, <1>1, PTL

(* An orderly shutdown leaves no process, socket or transfer file behind   *)
(* (sidecar_backend.py, close).                                            *)
THEOREM ShutdownIsClean == LifeSpec => []CleanShutdown
<1>1. LifeInv => CleanShutdown
  BY DEF LifeInv, LivingIsOurs, NothingLeft, NoEngine, CleanShutdown
<1>. QED  BY LifeInvariant, <1>1, PTL

(* The worker's KV is exported for as long as a sidecar maps it            *)
(* (plugin.py, shutdown; resident_epoch_bridge.cpp, ImportIpcMemory).      *)
THEOREM ExportsAreKept == LifeSpec => []ExportsOutliveImports
<1>1. LifeInv => ExportsOutliveImports
  BY DEF LifeInv, MappedIsExported, ExportsOutliveImports
<1>. QED  BY LifeInvariant, <1>1, PTL

-----------------------------------------------------------------------------
(***************************************************************************)
(* What is on the wire.  A worker that may call has a connection with      *)
(* nothing on it; a worker that waits has its one request on the way, in   *)
(* the hands of the sidecar or answered, and an import has its snapshot    *)
(* until the sidecar has read it.  A worker whose wait ended without a     *)
(* response makes no further call, and nothing is said of its connection.  *)
(***************************************************************************)
Responses == [id : Nat, status : {"ok", "failed", "prepared", "executing"}]

WireShape ==
  /\ conn \in [Sidecars -> {"none", "open", "shut"}]
  /\ resps \in [Sidecars -> Seq(Responses)]

OpenIsLinked == \A i \in Sidecars : conn[i] = "open" <=> i = link

Quiet(i) == reqs[i] = <<>> /\ resps[i] = <<>>

UnconnectedIsQuiet == \A i \in Sidecars : conn[i] = "none" => Quiet(i)

(* The startup response is not there yet, or it is the only thing there. *)
Greeting ==
  /\ reqs[link] = <<>>
  /\ \/ resps[link] = <<>> /\ proc[link] \in {"listening", "creating", "dead"}
     \/ /\ Len(resps[link]) = 1
        /\ proc[link] \in {"serving", "aborting", "dead"}
        /\ resps[link][1].status = "ok" => proc[link] # "aborting"

Snapshot == op = "import" => file = calls

Pending ==
  /\ op \in Ops
  /\ reqs[link] = <<[op |-> op, id |-> calls]>> /\ resps[link] = <<>>
  /\ proc[link] \in {"serving", "dead"} /\ Snapshot

InHand ==
  /\ Quiet(link) /\ job[link] = [op |-> op, id |-> calls]
  /\ proc[link] \in {"busy", "running", "rejecting", "dead"}
  /\ proc[link] = "busy" => Snapshot

Done ==
  /\ reqs[link] = <<>> /\ proc[link] \in {"serving", "dead"}
  /\ Len(resps[link]) = 1 /\ resps[link][1].id = calls

Exchange ==
  /\ w = "startup" => Greeting
  /\ w = "ready" => Quiet(link) /\ proc[link] \in {"serving", "dead"}
  /\ w = "calling" => Pending \/ InHand \/ Done

WireInv ==
  WireShape /\ OpenIsLinked /\ UnconnectedIsQuiet /\ Exchange /\ ~mixed

(* The states of a worker that the exchange says something of. *)
Attentive == {"startup", "ready", "calling"}

(* A first message, and what is left when the only one is taken            *)
(* (sidecar_backend.py, _receive_response).                                *)
LEMMA OneMessage ==
  ASSUME NEW S, NEW m \in S
  PROVE  /\ Append(<<>>, m) = <<m>> /\ <<m>> \in Seq(S)
         /\ Len(<<m>>) = 1 /\ <<m>>[1] = m
         /\ <<m>> # <<>> /\ Head(<<m>>) = m /\ Tail(<<m>>) = <<>>
<1>1. Append(<<>>, m) = <<m>> /\ <<m>> \in Seq(S) /\ Len(<<m>>) = 1 /\ <<m>>[1] = m
  OBVIOUS
<1>2. <<m>> # <<>> /\ Head(<<m>>) = m /\ Tail(<<m>>) = <<>>
  OBVIOUS
<1>. QED  BY <1>1, <1>2

(* A channel with one message in it. *)
LEMMA OnlyMessage ==
  ASSUME NEW S, NEW q \in Seq(S), Len(q) = 1
  PROVE  q # <<>> /\ q[1] \in S /\ Head(q) = q[1] /\ Tail(q) = <<>>
<1>1. q # <<>> /\ q[1] \in S /\ Head(q) = q[1]
  OBVIOUS
<1>2. Tail(q) \in Seq(S) /\ Len(Tail(q)) = 0
  BY <1>1
<1>3. Tail(q) = <<>>
  BY <1>2, EmptySeq
<1>. QED  BY <1>1, <1>3

(* Responses are taken and written one at a time (sidecar_backend.py,      *)
(* _receive_response; resident_epoch_server.cpp, WriteAll).                *)
LEMMA ResponseQueue ==
  ASSUME NEW q \in Seq(Responses), NEW m \in Responses
  PROVE  /\ Append(q, m) \in Seq(Responses)
         /\ q # <<>> => Tail(q) \in Seq(Responses) /\ Head(q) \in Responses
OBVIOUS

(* Nothing is on any wire before the first sidecar (sidecar_backend.py,    *)
(* __init__).                                                              *)
LEMMA WireInitInv == LifeInit => WireInv
<1>. SUFFICES ASSUME LifeInit PROVE WireInv
  OBVIOUS
<1>1. conn \in [Sidecars -> {"none", "open", "shut"}]
  BY DEF LifeInit
<1>2. <<>> \in Seq(Responses)
  OBVIOUS
<1>3. resps \in [Sidecars -> Seq(Responses)]
  BY <1>2 DEF LifeInit
<1>4. OpenIsLinked
  BY LifecycleAssumption DEF LifeInit, OpenIsLinked, Sidecars
<1>5. UnconnectedIsQuiet /\ Exchange /\ ~mixed
  BY DEF LifeInit, UnconnectedIsQuiet, Quiet, Exchange
<1>. QED  BY <1>1, <1>3, <1>4, <1>5 DEF WireInv, WireShape

(* A step that leaves the connections alone and the worker outside an      *)
(* exchange (sidecar_backend.py, __init__ and close; cli.py).              *)
LEMMA WireAside ==
  ASSUME WireInv, UNCHANGED <<link, conn, reqs, resps, mixed>>,
         w' \notin Attentive
  PROVE  WireInv'
BY DEF WireInv, WireShape, OpenIsLinked, UnconnectedIsQuiet, Quiet, Exchange,
       Attentive

(* A step that leaves all of the exchange alone. *)
LEMMA WireStutter ==
  ASSUME WireInv, UNCHANGED <<w, link, calls, op, proc, job, conn, reqs, resps,
                              file, mixed>>
  PROVE  WireInv'
BY DEF WireInv, WireShape, OpenIsLinked, UnconnectedIsQuiet, Quiet, Exchange,
       Greeting, Snapshot, Pending, InHand, Done

(* A step that closes the Host end of the connection                       *)
(* (sidecar_backend.py, _close_connection).                                *)
LEMMA WireHangUp ==
  ASSUME LifeInv, WireInv, HangUp, UNCHANGED <<reqs, mixed>>,
         \/ UNCHANGED resps
         \/ Answered /\ Take,
         w' \notin Attentive
  PROVE  WireInv'
<1>1. link' = 0 /\ 0 \notin Sidecars
  BY LifecycleAssumption DEF HangUp, Sidecars
<1>2. conn' \in [Sidecars -> {"none", "open", "shut"}]
  BY DEF HangUp, WireInv, WireShape
<1>3. link # 0 => link \in Sidecars
  BY DEF LifeInv, LifeShape, Sidecars
<1>4. resps' \in [Sidecars -> Seq(Responses)]
  <2>1. CASE UNCHANGED resps
    BY <2>1 DEF WireInv, WireShape
  <2>2. CASE Answered /\ Take
    BY <2>2, <1>3, ResponseQueue DEF Answered, Take, WireInv, WireShape
  <2>. QED  BY <2>1, <2>2
<1>5. OpenIsLinked'
  BY <1>1 DEF HangUp, WireInv, WireShape, OpenIsLinked
<1>6. \A i \in Sidecars : conn'[i] = "none" => i # link /\ conn[i] = "none"
  BY DEF HangUp, WireInv, WireShape, OpenIsLinked
<1>7. \A i \in Sidecars : i # link => resps'[i] = resps[i]
  BY <1>3 DEF Answered, Take, WireInv, WireShape
<1>8. UnconnectedIsQuiet'
  BY <1>6, <1>7 DEF WireInv, UnconnectedIsQuiet, Quiet
<1>. QED
  BY <1>2, <1>4, <1>5, <1>8
  DEF WireInv, WireShape, Exchange, Attentive

(* No step of cruise run puts anything on a wire (cli.py).                 *)
LEMMA SupervisorWire == LifeInv /\ WireInv /\ Supervisor => WireInv'
<1>. SUFFICES ASSUME LifeInv, WireInv, Supervisor PROVE WireInv'
  OBVIOUS
<1>1. CASE SupPopen
  BY <1>1, WireAside DEF SupPopen, netVars, Attentive
<1>2. CASE InstallHandlers \/ Forward \/ InterruptEarly \/ TerminateUnhandled
  BY <1>2, WireStutter DEF InstallHandlers, Forward, InterruptEarly,
     TerminateUnhandled, SupStep, cliVars, srvVars, netVars, pathVars
<1>3. CASE GroupKill
  <2>1. HangUp
    BY <1>3 DEF GroupKill, HangUp, WireInv, OpenIsLinked
  <2>. QED
    BY <1>3, <2>1, WireHangUp DEF GroupKill, Attentive
<1>4. CASE SupCleanup
  BY <1>4, WireAside DEF SupCleanup, Ended, cliVars, netVars, Attentive
<1>. QED  BY <1>1, <1>2, <1>3, <1>4 DEF Supervisor

(* A worker that connects finds an empty connection (sidecar_backend.py,   *)
(* __init__).                                                              *)
LEMMA ConnectWire ==
  ASSUME LifeInv, WireInv, Connect
  PROVE  WireInv'
<1>1. /\ sockPath \in Sidecars /\ conn[sockPath] = "none"
      /\ proc[sockPath] = "listening" /\ link' = sockPath
      /\ conn' = [conn EXCEPT ![sockPath] = "open"]
      /\ w' = "startup" /\ link = 0
  BY DEF Connect, Go, LifeInv, LifeShape, LinkedEngine, Sidecars
<1>2. UNCHANGED <<reqs, resps, proc, mixed>>
  BY DEF Connect, srvVars
<1>3. WireShape'
  BY <1>1, <1>2 DEF WireInv, WireShape
<1>4. 0 \notin Sidecars
  BY LifecycleAssumption DEF Sidecars
<1>5. OpenIsLinked'
  BY <1>1, <1>4 DEF WireInv, WireShape, OpenIsLinked
<1>6. UnconnectedIsQuiet'
  BY <1>1, <1>2 DEF WireInv, WireShape, UnconnectedIsQuiet, Quiet
<1>7. Exchange'
  BY <1>1, <1>2 DEF WireInv, UnconnectedIsQuiet, Quiet, Exchange, Greeting
<1>. QED  BY <1>2, <1>3, <1>5, <1>6, <1>7 DEF WireInv

(* The linked sidecar, when the worker is in an exchange. *)
LEMMA LinkIsSidecar ==
  ASSUME LifeInv, WireInv
  PROVE  /\ w \in {"startup", "ready", "calling", "failed", "shutting"} =>
              link \in Sidecars /\ conn[link] = "open"
         /\ link # 0 => link \in Sidecars
<1>1. link # 0 => link \in Sidecars
  BY DEF LifeInv, LifeShape, Sidecars
<1>2. link \in Sidecars => conn[link] = "open"
  BY DEF WireInv, OpenIsLinked
<1>. QED  BY <1>1, <1>2 DEF LifeInv, LinkedEngine

(* The one response of an exchange is taken, and nothing is left on the    *)
(* connection (sidecar_backend.py, _receive_response).                     *)
LEMMA TakenOnly ==
  ASSUME LifeInv, WireInv, Answered, Take,
         Len(resps[link]) = 1, reqs[link] = <<>>,
         UNCHANGED <<link, reqs, conn>>
  PROVE  /\ WireShape' /\ OpenIsLinked' /\ UnconnectedIsQuiet' /\ Quiet(link)'
         /\ Head(resps[link]) = resps[link][1]
<1>1. link \in Sidecars
  BY LinkIsSidecar DEF Answered
<1>2. resps[link] \in Seq(Responses)
  BY <1>1 DEF WireInv, WireShape
<1>3. Tail(resps[link]) = <<>> /\ Head(resps[link]) = resps[link][1]
  BY <1>2, OnlyMessage
<1>4. <<>> \in Seq(Responses)
  OBVIOUS
<1>5. resps' = [resps EXCEPT ![link] = <<>>]
  BY <1>3 DEF Take
<1>6. WireShape'
  BY <1>1, <1>4, <1>5 DEF WireInv, WireShape
<1>7. Quiet(link)'
  BY <1>1, <1>5 DEF Quiet, WireInv, WireShape
<1>8. UnconnectedIsQuiet'
  BY <1>1, <1>5 DEF WireInv, WireShape, UnconnectedIsQuiet, Quiet
<1>. QED  BY <1>3, <1>6, <1>7, <1>8 DEF WireInv, OpenIsLinked

(* A worker is ready after a startup response that says so                 *)
(* (sidecar_backend.py, __init__).                                         *)
LEMMA StartupResponseWire ==
  ASSUME LifeInv, WireInv, StartupResponse
  PROVE  WireInv'
<1>1. Answered /\ Take /\ w = "startup" /\ UNCHANGED <<reqs, proc, mixed>>
  BY DEF StartupResponse, srvVars
<1>2. CASE Head(resps[link]).status = "ok"
  <2>1. w' = "ready" /\ UNCHANGED <<link, conn>>
    BY <1>2 DEF StartupResponse
  <2>2. /\ Len(resps[link]) = 1 /\ reqs[link] = <<>>
        /\ proc[link] \in {"serving", "aborting", "dead"}
        /\ resps[link][1].status = "ok" => proc[link] # "aborting"
    BY <1>1 DEF WireInv, Exchange, Greeting, Answered
  <2>3. /\ WireShape' /\ OpenIsLinked' /\ UnconnectedIsQuiet' /\ Quiet(link)'
        /\ Head(resps[link]) = resps[link][1]
    BY <1>1, <2>1, <2>2, TakenOnly
  <2>4. proc[link] \in {"serving", "dead"}
    BY <1>2, <2>2, <2>3
  <2>5. Exchange'
    BY <1>1, <2>1, <2>3, <2>4 DEF Exchange, Quiet
  <2>. QED  BY <1>1, <2>3, <2>5 DEF WireInv
<1>3. CASE Head(resps[link]).status # "ok"
  <2>1. w' = "terminating" /\ HangUp
    BY <1>3 DEF StartupResponse
  <2>. QED  BY <1>1, <2>1, WireHangUp DEF Attentive
<1>. QED  BY <1>2, <1>3

(* The response a call takes is its own, and after it the connection is    *)
(* quiet again (sidecar_backend.py, _execute).                             *)
LEMMA ReturnWire ==
  ASSUME LifeInv, WireInv, Return
  PROVE  WireInv'
<1>1. Answered /\ Take /\ w = "calling" /\ UNCHANGED <<link, calls, reqs, conn, proc>>
  BY DEF Return, srvVars
<1>2. Done
  BY <1>1 DEF WireInv, Exchange, Pending, InHand, Quiet, Answered
<1>3. /\ WireShape' /\ OpenIsLinked' /\ UnconnectedIsQuiet' /\ Quiet(link)'
      /\ Head(resps[link]) = resps[link][1]
  BY <1>1, <1>2, TakenOnly DEF Done
<1>4. ~mixed'
  BY <1>2, <1>3 DEF Return, Done, WireInv
<1>5. w' \in {"failed", "ready"}
  BY DEF Return
<1>6. Exchange'
  BY <1>1, <1>2, <1>3, <1>5 DEF Exchange, Quiet, Done
<1>. QED  BY <1>3, <1>4, <1>6 DEF WireInv

(* A request is appended to what the sidecar has yet to read               *)
(* (sidecar_backend.py, _send).                                            *)
LEMMA SendWire ==
  ASSUME LifeInv, WireInv, link \in Sidecars, NEW m,
         reqs' = [reqs EXCEPT ![link] = Append(reqs[link], m)],
         UNCHANGED <<link, conn, resps, mixed>>
  PROVE  WireShape' /\ OpenIsLinked' /\ UnconnectedIsQuiet' /\ ~mixed'
<1>1. conn[link] = "open"
  BY DEF WireInv, OpenIsLinked
<1>2. \A i \in Sidecars : i # link => reqs'[i] = reqs[i]
  BY DEF LifeInv, LifeShape
<1>3. UnconnectedIsQuiet'
  BY <1>1, <1>2 DEF WireInv, UnconnectedIsQuiet, Quiet
<1>. QED  BY <1>3 DEF WireInv, WireShape, OpenIsLinked

(* The only request on the connection is the one of this call, and its     *)
(* snapshot is written before it is sent (sidecar_backend.py,              *)
(* execute_with_import and _execute).                                      *)
LEMMA CallWire ==
  ASSUME LifeInv, WireInv, NEW o \in Ops, Call(o)
  PROVE  WireInv'
<1>. DEFINE m == [op |-> o, id |-> calls + 1]
<1>1. link \in Sidecars
  BY LinkIsSidecar DEF Call
<1>2. CASE ~Alive(link)
  BY <1>2, WireAside DEF Call, Attentive
<1>3. CASE Alive(link)
  <2>1. /\ w = "ready" /\ w' = "calling" /\ op' = o /\ calls' = calls + 1
        /\ reqs' = [reqs EXCEPT ![link] = Append(reqs[link], m)]
        /\ UNCHANGED <<link, conn, resps, mixed, proc>>
    BY <1>3 DEF Call, srvVars
  <2>2. Snapshot'
    BY <1>3, <2>1 DEF Call, WriteSnapshot, Snapshot
  <2>3. Quiet(link) /\ proc[link] \in {"serving", "dead"}
    BY <2>1 DEF WireInv, Exchange
  <2>a. m = [op |-> op', id |-> calls']
    BY <2>1
  <2>. HIDE DEF m
  <2>4. Append(reqs[link], m) = <<m>>
    BY <2>3, OneMessage DEF Quiet
  <2>5. reqs'[link] = <<m>>
    BY <1>1, <2>1, <2>4 DEF LifeInv, LifeShape
  <2>6. Pending'
    BY <2>1, <2>2, <2>3, <2>5, <2>a DEF Pending, Quiet
  <2>7. Exchange'
    BY <2>1, <2>6 DEF Exchange
  <2>8. WireShape' /\ OpenIsLinked' /\ UnconnectedIsQuiet' /\ ~mixed'
    BY <1>1, <2>1, SendWire
  <2>. QED  BY <2>7, <2>8 DEF WireInv
<1>. QED  BY <1>2, <1>3

(* close() ends the exchange (sidecar_backend.py, close). *)
LEMMA CloseWire ==
  ASSUME LifeInv, WireInv, Close
  PROVE  WireInv'
<1>. DEFINE m == [op |-> "shutdown", id |-> 0]
<1>1. link \in Sidecars
  BY LinkIsSidecar DEF Close
<1>2. CASE ~Alive(link)
  BY <1>2, WireHangUp DEF Close, Attentive
<1>3. CASE Alive(link)
  <2>1. /\ w' = "shutting"
        /\ reqs' = [reqs EXCEPT ![link] = Append(reqs[link], m)]
        /\ UNCHANGED <<link, conn, resps, mixed>>
    BY <1>3 DEF Close
  <2>. HIDE DEF m
  <2>2. WireShape' /\ OpenIsLinked' /\ UnconnectedIsQuiet' /\ ~mixed'
    BY <1>1, <2>1, SendWire
  <2>. QED  BY <2>1, <2>2 DEF WireInv, Exchange
<1>. QED  BY <1>2, <1>3

(* No other step of the worker breaks it (sidecar_backend.py, plugin.py).  *)
LEMMA WorkerWire ==
  ASSUME LifeInv, WireInv,
         \/ StartEngine \/ Starting \/ CaptureFails \/ Finishing
         \/ CloseNothing \/ WorkerDies
  PROVE  WireInv'
<1>1. CASE StartEngine
  BY <1>1, WireAside DEF StartEngine, Go, netVars, Attentive
<1>2. CASE ExitedDuringStartup \/ ConnectTimeout \/ StartupBroken
  BY <1>2, WireAside
  DEF ExitedDuringStartup, ConnectTimeout, StartupBroken, Go, netVars, Attentive
<1>3. CASE Del \/ WorkerDies \/ ShutdownBroken \/ Acknowledged
  BY <1>3, WireHangUp
  DEF Del, WorkerDies, ShutdownBroken, Acknowledged, Go, Attentive
<1>4. CASE CaptureFails \/ ReturnBroken \/ CloseNothing \/ ReapTimeout \/ Release
  BY <1>4, WireAside
  DEF CaptureFails, ReturnBroken, CloseNothing, ReapTimeout, Release, Go,
      netVars, Attentive
<1>5. CASE Stopped
  <2>1. w' \notin Attentive
    BY <1>5 DEF Stopped, Attentive, LifeInv, LifeShape
  <2>. QED  BY <1>5, <2>1, WireAside DEF Stopped, netVars
<1>. QED
  BY <1>1, <1>2, <1>3, <1>4, <1>5, ConnectWire, StartupResponseWire, ReturnWire
  DEF Starting, Finishing

-----------------------------------------------------------------------------
(* A sidecar that acts while the worker is in an exchange is the one the   *)
(* worker is connected to (sidecar_backend.py, _stop_process).             *)
LEMMA ActorIsLinked ==
  ASSUME LifeInv, WireInv, NEW i \in Sidecars, Alive(i)
  PROVE  w \in Attentive => i = link
<1>1. i = eng
  BY DEF LifeInv, LivingIsOurs
<1>2. w \in Attentive => link # 0 /\ link = eng
  BY DEF Attentive, LifeInv, LifeShape, LinkedEngine
<1>. QED  BY <1>1, <1>2

(* What a sidecar writes reaches an open connection only                   *)
(* (resident_epoch_server.cpp, WriteAll).                                  *)
LEMMA RespondWire ==
  ASSUME WireInv, NEW i \in Sidecars, NEW id \in Nat,
         NEW status \in {"ok", "failed", "prepared", "executing"},
         NEW to, NEW broken, Respond(i, id, status, to, broken),
         UNCHANGED <<link, conn, mixed>>,
         \A j \in Sidecars : j # i => reqs'[j] = reqs[j]
  PROVE  WireShape' /\ OpenIsLinked' /\ UnconnectedIsQuiet' /\ ~mixed'
<1>. DEFINE m == [id |-> id, status |-> status]
<1>1. m \in Responses
  BY DEF Responses
<1>2. conn[i] # "none"
  BY DEF Respond
<1>3. resps' = resps \/ resps' = [resps EXCEPT ![i] = Append(resps[i], m)]
  BY DEF Respond
<1>. HIDE DEF m
<1>a. resps[i] \in Seq(Responses)
  BY DEF WireInv, WireShape
<1>b. Append(resps[i], m) \in Seq(Responses)
  BY <1>1, <1>a, ResponseQueue, Zenon
<1>4. WireShape'
  BY <1>b, <1>3 DEF WireInv, WireShape
<1>5. \A j \in Sidecars : j # i => resps'[j] = resps[j]
  BY <1>3 DEF WireInv, WireShape
<1>6. UnconnectedIsQuiet'
  BY <1>2, <1>5 DEF WireInv, UnconnectedIsQuiet, Quiet
<1>. QED  BY <1>4, <1>6 DEF WireInv, OpenIsLinked

(* On the open connection the response is at the end, and the sidecar goes *)
(* on (resident_epoch_server.cpp, WriteAll).                               *)
LEMMA RespondOpen ==
  ASSUME WireInv, LifeInv, NEW i \in Sidecars, NEW id, NEW status,
         NEW to, NEW broken, Respond(i, id, status, to, broken),
         conn[i] = "open", resps[i] = <<>>
  PROVE  /\ Len(resps'[i]) = 1 /\ proc'[i] = to
         /\ resps'[i][1].id = id /\ resps'[i][1].status = status
<1>. DEFINE m == [id |-> id, status |-> status]
<1>1. resps' = [resps EXCEPT ![i] = Append(resps[i], m)] /\ proc'[i] = to
  BY DEF Respond, LifeInv, LifeShape
<1>. HIDE DEF m
<1>2. resps'[i] = Append(resps[i], m)
  BY <1>1 DEF WireInv, WireShape
<1>3. Append(resps[i], m) = <<m>> /\ Len(<<m>>) = 1 /\ <<m>>[1] = m
  BY OneMessage
<1>. QED  BY <1>1, <1>2, <1>3 DEF m

(* The steps of a sidecar that neither read nor write a message: starting, *)
(* checking its input, finding the end of the stream, leaving and dying.   *)
LEMMA SilentServerWire ==
  ASSUME LifeInv, WireInv, NEW i \in Sidecars,
         \/ Listen(i) \/ Accept(i) \/ ReadEof(i) \/ Prepare(i) \/ Leave(i)
         \/ Die(i)
  PROVE  WireInv'
<1>1. Alive(i) /\ UNCHANGED <<cliVars, netVars, job, mixed>>
  BY DEF Listen, Accept, ReadEof, Prepare, Leave, Die, Proc, Alive, LifeInv,
     LifeShape
<1>2. WireShape' /\ OpenIsLinked' /\ UnconnectedIsQuiet' /\ ~mixed'
  BY <1>1 DEF cliVars, netVars, WireInv, WireShape, OpenIsLinked,
     UnconnectedIsQuiet, Quiet
<1>3. CASE w \notin Attentive
  BY <1>1, <1>2, <1>3 DEF cliVars, WireInv, Exchange, Attentive
<1>4. CASE w \in Attentive
  <2>1. i = link /\ conn[i] = "open"
    BY <1>1, <1>4, ActorIsLinked DEF WireInv, OpenIsLinked
  <2>2. UNCHANGED <<w, link, calls, op, reqs, resps>>
    BY <1>1 DEF cliVars, netVars
  <2>3. CASE Die(i)
    <3>1. proc'[link] = "dead" /\ UNCHANGED file
      BY <2>1, <2>3 DEF Die, pathVars, LifeInv, LifeShape
    <3>2. Exchange'
      BY <1>1, <2>2, <3>1 DEF WireInv, Exchange, Greeting, Pending, InHand, Done,
         Snapshot, Quiet
    <3>. QED  BY <1>2, <3>2 DEF WireInv
  <2>4. CASE Listen(i) \/ Leave(i)
    <3>1. proc[link] \in {"spawned", "leaving", "aborting"}
      BY <2>1, <2>4 DEF Listen, Leave, Proc
    <3>2. w = "startup" /\ proc[link] = "aborting"
      BY <1>4, <3>1 DEF Attentive, WireInv, Exchange, Greeting, Pending, InHand, Done
    <3>3. proc'[link] = "dead"
      BY <2>1, <2>4, <3>2 DEF Listen, Leave, Proc, LifeInv, LifeShape
    <3>4. Exchange'
      BY <1>1, <2>2, <3>2, <3>3 DEF WireInv, Exchange, Greeting
    <3>. QED  BY <1>2, <3>4 DEF WireInv
  <2>5. CASE Accept(i)
    <3>1. proc[link] = "listening" /\ proc'[link] = "creating"
      BY <2>1, <2>5 DEF Accept, Proc, LifeInv, LifeShape
    <3>2. Exchange'
      BY <1>1, <1>4, <2>2, <3>1 DEF Attentive, WireInv, Exchange, Greeting,
         Pending, InHand, Done
    <3>. QED  BY <1>2, <3>2 DEF WireInv
  <2>6. CASE ReadEof(i)
    BY <2>1, <2>6 DEF ReadEof
  <2>7. CASE Prepare(i)
    <3>1. proc[link] = "busy" /\ proc'[link] \in {"running", "rejecting"}
      BY <2>1, <2>7 DEF Prepare, Proc, LifeInv, LifeShape
    <3>2. w = "calling" /\ InHand
      BY <1>4, <3>1 DEF Attentive, WireInv, Exchange, Greeting, Pending, Done
    <3>3. Exchange'
      BY <1>1, <2>2, <3>1, <3>2 DEF Exchange, InHand, Quiet
    <3>. QED  BY <1>2, <3>3 DEF WireInv
  <2>. QED  BY <2>3, <2>4, <2>5, <2>6, <2>7
<1>. QED  BY <1>3, <1>4

(* The startup response goes out once, on a connection without requests    *)
(* (resident_epoch_server.cpp, main).                                      *)
LEMMA CreateWire ==
  ASSUME LifeInv, WireInv, NEW i \in Sidecars, Create(i)
  PROVE  WireInv'
<1>1. PICK status \in CreateStatus :
        Respond(i, 0, status,
                IF status = "ok" THEN "serving" ELSE "aborting", "aborting")
  BY DEF Create
<1>2. Alive(i) /\ proc[i] = "creating" /\ UNCHANGED <<cliVars, conn, reqs, mixed>>
  BY DEF Create, Alive
<1>3. status \in {"ok", "failed", "prepared", "executing"} /\ 0 \in Nat
  BY DEF CreateStatus
<1>a. DEFINE to == IF status = "ok" THEN "serving" ELSE "aborting"
<1>b. Respond(i, 0, status, to, "aborting")
  BY <1>1
<1>. HIDE DEF to
<1>4. WireShape' /\ OpenIsLinked' /\ UnconnectedIsQuiet' /\ ~mixed'
  BY <1>b, <1>2, <1>3, RespondWire DEF cliVars
<1>5. CASE w \notin Attentive
  BY <1>2, <1>4, <1>5 DEF cliVars, WireInv, Exchange, Attentive
<1>6. CASE w \in Attentive
  <2>1. i = link /\ conn[i] = "open"
    BY <1>2, <1>6, ActorIsLinked DEF WireInv, OpenIsLinked
  <2>2. w = "startup" /\ Quiet(link)
    BY <1>2, <1>6, <2>1 DEF Attentive, WireInv, Exchange, Greeting, Pending,
       InHand, Done, Quiet
  <2>3. Len(resps'[i]) = 1 /\ proc'[i] = to /\ resps'[i][1].status = status
    <3>1. resps[i] = <<>>
      BY <2>1, <2>2 DEF Quiet
    <3>. QED  BY <1>b, <2>1, <3>1, RespondOpen
  <2>4. Exchange'
    BY <1>2, <2>1, <2>2, <2>3 DEF cliVars, Exchange, Greeting, Quiet, to
  <2>. QED  BY <1>4, <2>4 DEF WireInv
<1>. QED  BY <1>5, <1>6

(* The sidecar takes the request in hand (resident_epoch_server.cpp,       *)
(* ReadAll).                                                               *)
LEMMA ReadRequestWire ==
  ASSUME LifeInv, WireInv, NEW i \in Sidecars, ReadRequest(i)
  PROVE  WireInv'
<1>1. /\ Alive(i) /\ proc[i] = "serving" /\ reqs[i] # <<>>
      /\ UNCHANGED <<cliVars, conn, resps, file, mixed>>
      /\ reqs' = [reqs EXCEPT ![i] = Tail(reqs[i])]
      /\ job' = [job EXCEPT ![i] = Head(reqs[i])]
      /\ proc' = [proc EXCEPT ![i] = "busy"]
  BY DEF ReadRequest, Alive, pathVars
<1>2. WireShape' /\ OpenIsLinked' /\ ~mixed'
  BY <1>1 DEF cliVars, WireInv, WireShape, OpenIsLinked
<1>3. UnconnectedIsQuiet'
  BY <1>1 DEF WireInv, UnconnectedIsQuiet, Quiet, LifeInv, LifeShape
<1>4. CASE w \notin Attentive
  BY <1>1, <1>2, <1>3, <1>4 DEF cliVars, WireInv, Exchange, Attentive
<1>5. CASE w \in Attentive
  <2>. DEFINE m == [op |-> op, id |-> calls]
  <2>1. i = link
    BY <1>1, <1>5, ActorIsLinked
  <2>2. /\ w = "calling" /\ reqs[i] = <<m>> /\ resps[i] = <<>> /\ Snapshot
    BY <1>1, <1>5, <2>1 DEF Attentive, WireInv, Exchange, Greeting, Pending,
       InHand, Done, Quiet
  <2>3. m' = m
    BY <1>1 DEF cliVars
  <2>4. Tail(<<m>>) = <<>> /\ Head(<<m>>) = m
    BY OneMessage, Zenon
  <2>5. reqs'[i] = <<>> /\ job'[i] = m /\ proc'[i] = "busy"
    BY <1>1, <2>2, <2>4 DEF LifeInv, LifeShape
  <2>6. UNCHANGED <<w, link, op, calls, file, resps>>
    BY <1>1 DEF cliVars
  <2>7. InHand'
    BY <2>1, <2>2, <2>5, <2>6 DEF InHand, Quiet, Snapshot
  <2>8. Exchange'
    BY <2>2, <2>6, <2>7 DEF Exchange
  <2>. QED  BY <1>2, <1>3, <2>8 DEF WireInv
<1>. QED  BY <1>4, <1>5

(* A shutdown request is only read outside an exchange                     *)
(* (resident_epoch_server.cpp, main).                                      *)
LEMMA ReadShutdownWire ==
  ASSUME LifeInv, WireInv, NEW i \in Sidecars, ReadShutdown(i)
  PROVE  WireInv'
<1>1. /\ Alive(i) /\ proc[i] = "serving" /\ reqs[i] # <<>>
      /\ Head(reqs[i]).op = "shutdown"
      /\ UNCHANGED <<cliVars, conn, mixed>>
      /\ reqs' = [reqs EXCEPT ![i] = Tail(reqs[i])]
      /\ Respond(i, 0, "ok", "leaving", "leaving")
  BY DEF ReadShutdown, Alive
<1>2. \A j \in Sidecars : j # i => reqs'[j] = reqs[j]
  BY <1>1 DEF LifeInv, LifeShape
<1>3. WireShape' /\ OpenIsLinked' /\ UnconnectedIsQuiet' /\ ~mixed'
  BY <1>1, <1>2, RespondWire DEF cliVars
<1>4. w \notin Attentive
  <2>. SUFFICES ASSUME w \in Attentive PROVE FALSE
    OBVIOUS
  <2>. DEFINE m == [op |-> op, id |-> calls]
  <2>1. i = link
    BY <1>1, ActorIsLinked
  <2>2. reqs[i] = <<m>> /\ op # "shutdown"
    BY <1>1, <2>1 DEF Attentive, WireInv, Exchange, Greeting, Pending, InHand,
       Done, Quiet, Ops
  <2>3. Head(<<m>>) = m
    BY OneMessage, Zenon
  <2>. QED  BY <1>1, <2>2, <2>3
<1>. QED
  BY <1>1, <1>3, <1>4 DEF cliVars, WireInv, Exchange, Attentive

(* The response to the request in hand carries its number                  *)
(* (resident_epoch_server.cpp, main).                                      *)
LEMMA AnswerWire ==
  ASSUME LifeInv, WireInv, NEW i \in Sidecars, Answer(i)
  PROVE  WireInv'
<1>1. /\ Alive(i) /\ proc[i] \in {"running", "rejecting"}
      /\ UNCHANGED <<cliVars, conn, reqs, mixed>>
  BY DEF Answer, Alive
<1>2. PICK status \in {"ok", "failed", "prepared", "executing"} :
        Respond(i, job[i].id, status, "serving", "leaving")
  BY DEF Answer
<1>3. job[i].id \in Nat
  BY DEF LifeInv, LifeShape, Requests
<1>4. WireShape' /\ OpenIsLinked' /\ UnconnectedIsQuiet' /\ ~mixed'
  BY <1>1, <1>2, <1>3, RespondWire DEF cliVars
<1>5. CASE w \notin Attentive
  BY <1>1, <1>4, <1>5 DEF cliVars, WireInv, Exchange, Attentive
<1>6. CASE w \in Attentive
  <2>1. i = link /\ conn[i] = "open"
    BY <1>1, <1>6, ActorIsLinked DEF WireInv, OpenIsLinked
  <2>2. w = "calling" /\ InHand
    BY <1>1, <1>6, <2>1 DEF Attentive, WireInv, Exchange, Greeting, Pending, Done
  <2>3. job[i].id = calls /\ resps[i] = <<>> /\ reqs[i] = <<>>
    BY <2>1, <2>2 DEF InHand, Quiet
  <2>4. /\ Len(resps'[i]) = 1 /\ proc'[i] = "serving"
        /\ resps'[i][1].id = job[i].id
    BY <1>2, <1>3, <2>1, <2>3, RespondOpen, Zenon
  <2>5. resps'[i][1].id = calls
    BY <2>3, <2>4
  <2>6. Exchange'
    BY <1>1, <2>1, <2>2, <2>3, <2>4, <2>5 DEF cliVars, Exchange, Done
  <2>. QED  BY <1>4, <2>6 DEF WireInv
<1>. QED  BY <1>5, <1>6

(* The wire invariant holds in every reachable state: at any moment at     *)
(* most one exchange is under way (sidecar_backend.py, _execute;           *)
(* resident_epoch_server.cpp, main).                                       *)
THEOREM WireInvariant == LifeSpec => []WireInv
<1>1. LifeInv /\ WireInv /\ [LifeNext]_lifeVars => WireInv'
  <2>. SUFFICES ASSUME LifeInv, WireInv, [LifeNext]_lifeVars PROVE WireInv'
    OBVIOUS
  <2>1. CASE LifeNext
    BY <2>1, SupervisorWire, WorkerWire, CallWire, CloseWire, SilentServerWire,
       CreateWire, ReadRequestWire, ReadShutdownWire, AnswerWire
    DEF LifeNext, Serve
  <2>2. CASE UNCHANGED lifeVars
    BY <2>2, WireStutter DEF lifeVars, cliVars, srvVars, netVars, pathVars
  <2>. QED  BY <2>1, <2>2
<1>. QED  BY WireInitInv, LifeInvariant, <1>1, PTL DEF LifeSpec

(* A call is completed by its own response only: a late response stays on  *)
(* the socket of a worker that makes no further call (sidecar_backend.py,  *)
(* _execute).                                                              *)
THEOREM AnswersAlwaysMatch == LifeSpec => []AnswersMatch
<1>1. WireInv => AnswersMatch
  BY DEF WireInv, AnswersMatch
<1>. QED  BY WireInvariant, <1>1, PTL

(* While the Host waits for an import, its snapshot is in the transfer     *)
(* file until the sidecar has read it (sidecar_backend.py,                 *)
(* execute_with_import; resident_epoch_server.cpp, the unlinks of main).   *)
THEOREM SnapshotAlwaysThere == LifeSpec => []SnapshotThere
<1>1. WireInv => SnapshotThere
  <2>. SUFFICES ASSUME WireInv, w = "calling", op = "import", link # 0
                PROVE  /\ \A k \in 1..Len(reqs[link]) :
                            reqs[link][k].id = calls => file = calls
                       /\ proc[link] = "busy" /\ job[link].id = calls => file = calls
    BY DEF SnapshotThere
  <2>1. CASE Pending
    BY <2>1 DEF Pending, Snapshot
  <2>2. CASE InHand \/ Done
    <3>1. reqs[link] = <<>>
      BY <2>2 DEF InHand, Quiet, Done
    <3>2. Len(reqs[link]) = 0
      BY <3>1
    <3>. QED  BY <2>2, <3>2 DEF InHand, Done, Snapshot
  <2>. QED  BY <2>1, <2>2 DEF WireInv, Exchange
<1>. QED  BY WireInvariant, <1>1, PTL

=============================================================================
