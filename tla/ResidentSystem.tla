--------------------------- MODULE ResidentSystem ---------------------------
(***************************************************************************)
(* The whole decode path: the scheduler, the worker (the plugin's          *)
(* execute_model with its Host fallback in plugin.py, or the dedicated     *)
(* worker of worker.py, which has no stock model), the native engine (a    *)
(* sidecar behind a socket, sidecar_backend.py and                         *)
(* resident_epoch_server.cpp, or the bridge loaded into the worker,        *)
(* ctypes_backend.py), the bridge around Feed and Fetch                    *)
(* (resident_epoch_bridge.cpp) and the Device UDF.                         *)
(*                                                                         *)
(* One epoch is in flight at a time.  `wire' is how far it has come:       *)
(*   idle       nothing has been sent                                      *)
(*   request    the bridge has the request and is PREPARED                 *)
(*   fed        FeedDataFlowGraph was called, the bridge is EXECUTING      *)
(*   ran        the Device has finished Proc()                             *)
(*   prepared, executing, committed                                        *)
(*              the response is on its way with this commit state          *)
(*   closed     the connection is gone (sidecar only)                      *)
(*                                                                         *)
(* hostLen and bad do not exist in the code.  hostLen[r] is how many       *)
(* leading positions of r the stock model's own KV cache really holds: an  *)
(* epoch on the Device does not fill it.  bad collects the requests that   *)
(* were given a token the greedy decoding of their prompt does not have.   *)
(***************************************************************************)
EXTENDS EpochScheduler

CONSTANTS
  Junk,        \* see ResidentDevice
  Faulty,      \* may the sidecar, the transfers and the Device fail
  Deployments  \* the pairs of a worker and an engine that are deployed

ASSUME SystemAssumption ==
  /\ Junk \notin Req /\ Faulty \in BOOLEAN
  /\ Deployments \subseteq {"plugin", "dedicated"} \X {"sidecar", "ctypes"}

VARIABLES
  resGen, resTok, resPos, resValid, kv, reply,   \* the Device
  worker,    \* "plugin" or "dedicated"
  engine,    \* "sidecar" or "ctypes", from the backend factory
  backend,   \* has the worker loaded its backend
  sidecar,   \* is the process that holds the bridge alive
  wire,
  hostLen,
  bad

Dev == INSTANCE ResidentDevice
         WITH Rows <- Row, Streams <- Req, Depth <- Capacity, EpochMax <- 8

keptVars == <<resGen, resTok, resPos, resValid, kv>>
devVars == <<keptVars, reply>>
deployVars == <<worker, engine>>
linkVars == <<deployVars, backend, sidecar, wire>>
ghostVars == <<hostLen, bad>>
sysVars == <<schedVars, devVars, linkVars, ghostVars>>

SysInit ==
  /\ Init
  /\ Dev!DeviceInit
  /\ \E d \in Deployments : worker = d[1] /\ engine = d[2]
  /\ backend = FALSE /\ sidecar = FALSE /\ wire = "idle"
  /\ hostLen = NoTokens /\ bad = {}

-----------------------------------------------------------------------------
(***************************************************************************)
(* The stock model.  A token it samples for r is right when its KV cache   *)
(* holds every position before the ones it computes now.                   *)
(***************************************************************************)

Before(r) == computed[r] - toks[r]
StockRun ==
  /\ hostLen' = [r \in Req |->
                   IF toks[r] > 0 /\ hostLen[r] >= Before(r) THEN computed[r]
                   ELSE hostLen[r]]
  /\ bad' = bad \cup {r \in Req : StockTokens[r] = 1 /\ hostLen[r] < Before(r)}

SysAdd(r, s) ==
  /\ AddRequest(r, s)
  /\ hostLen' = [hostLen EXCEPT ![r] = 0]
  /\ bad' = bad \ {r}
  /\ UNCHANGED <<devVars, linkVars>>

SysClient(r) ==
  /\ GrammarReady(r) \/ AbortRequest(r)
  /\ UNCHANGED <<devVars, linkVars, ghostVars>>

(* The dedicated worker has loaded and warmed up before the first step. *)
SysSchedule ==
  /\ worker = "dedicated" => backend
  /\ ScheduleNext
  /\ UNCHANGED <<devVars, linkVars, ghostVars>>

SysStock ==
  /\ worker = "plugin"
  /\ ExecuteHost /\ StockRun
  /\ UNCHANGED <<devVars, linkVars>>

SysUpdate == UpdateFromOutput /\ UNCHANGED <<devVars, linkVars, ghostVars>>

-----------------------------------------------------------------------------
(***************************************************************************)
(* _execute_model_with_fallback                                            *)
(***************************************************************************)

Executing == fault = "none" /\ phase = "exec" /\ planned # {}

(* kv_import_required, and the rows of the import mask *)
MutantImportFromThree(r) == Prompt(r) > 2 /\ r \notin owned
ImportRequired(r) == Prompt(r) > 1 /\ r \notin owned
Importing == {r \in planned : ImportRequired(r)}

(* The exception leaves execute_model and ends the engine. *)
Die(f) ==
  /\ fault' = f
  /\ UNCHANGED <<clientVars, baseVars, leaseVars, stepVars, ghostVars>>

(* original_execute_model and attach_host_fallback_result *)
HostReplay ==
  /\ \E E \in SUBSET planned :
       res' = [route |-> "host_fallback", got |-> StockTokens,
               eos |-> [r \in Req |-> IF r \in E THEN 1 ELSE 0]]
  /\ phase' = "done"
  /\ StockRun
  /\ UNCHANGED <<clientVars, baseVars, leaseVars, toks, planned, steps, fault>>

MutantReplayDeviceOwned(f) == HostReplay

(* Even a replay that is allowed may raise: in the stock execution, or for *)
(* an output that is no ModelRunnerOutput; what it computed dies with it.  *)
ReplayOrDie(f) ==
  \/ worker = "plugin" /\ HostReplaySafe /\ HostReplay
  \/ Die(f)

(* load_backend_from_env starts the sidecar and waits for its engine. *)
LoadBackend ==
  /\ worker = "plugin" /\ Executing /\ ~backend
  /\ backend' = TRUE /\ sidecar' = TRUE
  /\ UNCHANGED <<schedVars, devVars, deployVars, wire, ghostVars>>

LoadBackendFails ==
  /\ Faulty /\ worker = "plugin" /\ Executing /\ ~backend
  /\ ReplayOrDie("backend-load")
  /\ UNCHANGED <<devVars, linkVars>>

(* load_model and compile_or_warm_up_model of the dedicated worker: one    *)
(* decoder step in row 0, under the last generation there is.              *)
WarmUpInput ==
  [active |-> {0},
   gen |-> [x \in Row |-> IF x = 0 THEN GenLimit - 1 ELSE 0],
   tok |-> [x \in Row |-> Junk],
   pos |-> [x \in Row |-> 0],
   steps |-> 1,
   import |-> {},
   payload |-> [x \in Row |-> Dev!Empty]]

LoadAndWarmUp ==
  /\ worker = "dedicated" /\ engine = "sidecar" /\ fault = "none" /\ ~backend
  /\ backend' = TRUE /\ sidecar' = TRUE
  /\ \E E \in SUBSET {0} : Dev!ProcOk(WarmUpInput, [x \in {0} |-> 1], E)
  /\ UNCHANGED <<schedVars, deployVars, wire, ghostVars>>

(* CtypesDataFlowEngine has no warm_up: with it this always happens. *)
LoadOrWarmUpFails ==
  /\ worker = "dedicated" /\ fault = "none" /\ ~backend
  /\ Faulty \/ engine = "ctypes"
  /\ Die("backend-load")
  /\ UNCHANGED <<devVars, linkVars>>

(* The dedicated worker has no model for a batch without a plan. *)
OutsideEnvelope ==
  /\ worker = "dedicated" /\ fault = "none" /\ phase = "exec" /\ planned = {}
  /\ Die("outside-envelope")
  /\ UNCHANGED <<devVars, linkVars>>

(* capture_kv_device_transfer raises, and no Host snapshot replaces it. *)
CaptureFails ==
  /\ Faulty /\ worker = "plugin"
  /\ Executing /\ backend /\ wire = "idle" /\ Importing # {}
  /\ Die("kv-capture")
  /\ UNCHANGED <<devVars, linkVars>>

Send ==
  /\ Executing /\ backend /\ wire = "idle"
  /\ wire' = IF sidecar THEN "request" ELSE "closed"
  /\ UNCHANGED <<schedVars, devVars, deployVars, backend, sidecar, ghostVars>>

-----------------------------------------------------------------------------
(***************************************************************************)
(* The process of the bridge: the server loop and resident_epoch_execute.  *)
(***************************************************************************)

Wire(from, to) ==
  /\ sidecar /\ wire = from
  /\ wire' = to
  /\ UNCHANGED <<schedVars, deployVars, backend, sidecar, ghostVars>>

(* The transfer file or the IPC metadata does not check out. *)
BridgeRejects == Faulty /\ Wire("request", "prepared") /\ UNCHANGED devVars

Feed == Wire("request", "fed") /\ UNCHANGED devVars

FeedFails == Faulty /\ Wire("request", "executing") /\ UNCHANGED devVars

Occupant(x) == CHOOSE r \in planned : rows[r] = x

(* The dedicated worker hands the plan over without any KV. *)
Imports == IF worker = "plugin" THEN Importing ELSE {}

EpochInput ==
  LET A == {rows[r] : r \in planned} IN
  [active |-> A,
   gen |-> [x \in Row |-> IF x \in A THEN gens[Occupant(x)] ELSE 0],
   tok |-> [x \in Row |-> IF x \in A /\ Occupant(x) \notin bad
                          THEN Occupant(x) ELSE Junk],
   pos |-> [x \in Row |-> IF x \in A THEN computed[Occupant(x)] - 1 ELSE 0],
   steps |-> steps,
   import |-> {rows[r] : r \in Imports},
   payload |-> [x \in Row |-> [p \in Dev!Positions |->
                  IF x \in A /\ p < Min2(hostLen[Occupant(x)],
                                         computed[Occupant(x)] - 1)
                  THEN Occupant(x) ELSE Junk]]]

DeviceRuns == Wire("fed", "ran") /\ Dev!Proc(EpochInput, Faulty)

Fetch == Wire("ran", "committed") /\ UNCHANGED devVars

(* Fetch times out or returns tensors that do not check out; the Device    *)
(* may or may not have run.                                                *)
FetchFails ==
  /\ Faulty
  /\ Wire("fed", "executing") \/ Wire("ran", "executing")
  /\ UNCHANGED devVars

SidecarDies ==
  /\ Faulty /\ engine = "sidecar" /\ sidecar
  /\ sidecar' = FALSE
  /\ wire' = IF wire = "idle" THEN "idle" ELSE "closed"
  /\ UNCHANGED <<schedVars, devVars, deployVars, backend, ghostVars>>

-----------------------------------------------------------------------------
(***************************************************************************)
(* The Host end of the socket: _execute, ResidentEpochBackend.execute and  *)
(* the except clause of _execute_model_with_fallback.                      *)
(***************************************************************************)

DeviceResult ==
  [route |-> "device",
   got |-> [r \in Req |-> IF r \in planned THEN reply.got[rows[r]] ELSE 0],
   eos |-> [r \in Req |-> IF r \in planned /\ rows[r] \in reply.eos
                          THEN reply.got[rows[r]] ELSE 0]]

ReceiveCommitted ==
  /\ Executing /\ wire = "committed"
  /\ IF reply.status # 0
     THEN /\ Die(IF reply.status = 212 THEN "discontinuous" ELSE "device-error")
     ELSE /\ res' = DeviceResult
          /\ phase' = "done"
          /\ bad' = bad \cup {r \in planned : rows[r] \in reply.wrong}
          /\ UNCHANGED <<clientVars, baseVars, leaseVars, toks, planned, steps,
                         fault, hostLen>>
  /\ wire' = "idle"
  /\ UNCHANGED <<devVars, deployVars, backend, sidecar>>

ReceivePrepared ==
  /\ Executing /\ wire = "prepared"
  /\ ReplayOrDie("prepared")
  /\ wire' = "idle"
  /\ UNCHANGED <<devVars, deployVars, backend, sidecar>>

MutantReplayAmbiguous ==
  /\ Executing /\ wire \in {"executing", "closed"}
  /\ ReplayOrDie("ambiguous")
  /\ wire' = "idle"
  /\ UNCHANGED <<devVars, deployVars, backend, sidecar>>

ReceiveAmbiguous ==
  /\ Executing /\ wire \in {"executing", "closed"}
  /\ Die("ambiguous")
  /\ UNCHANGED <<devVars, linkVars>>

(* The socket timeout, while the sidecar may still be working. *)
ReceiveTimeout ==
  /\ Faulty /\ engine = "sidecar"
  /\ Executing /\ wire \in {"request", "fed", "ran"}
  /\ Die("ambiguous")
  /\ UNCHANGED <<devVars, linkVars>>

-----------------------------------------------------------------------------
HostSide ==
  \/ LoadBackend \/ LoadBackendFails \/ LoadAndWarmUp \/ LoadOrWarmUpFails
  \/ OutsideEnvelope \/ CaptureFails \/ Send
  \/ ReceiveCommitted \/ ReceivePrepared \/ ReceiveAmbiguous \/ ReceiveTimeout

SidecarSide ==
  BridgeRejects \/ Feed \/ FeedFails \/ DeviceRuns \/ Fetch \/ FetchFails
    \/ SidecarDies

SysNext ==
  \/ \E r \in Req, s \in Shapes : SysAdd(r, s)
  \/ \E r \in Req : SysClient(r)
  \/ SysSchedule \/ SysStock \/ SysUpdate
  \/ HostSide
  \/ SidecarSide

SysSpec == SysInit /\ [][SysNext]_sysVars

(* The engine thread, the sidecar and the Device keep going. *)
SysFairness ==
  /\ WF_sysVars(SysSchedule) /\ WF_sysVars(SysStock) /\ WF_sysVars(SysUpdate)
  /\ WF_sysVars(LoadBackend \/ LoadAndWarmUp \/ LoadOrWarmUpFails)
  /\ WF_sysVars(OutsideEnvelope \/ Send \/ ReceiveCommitted)
  /\ WF_sysVars(Feed \/ DeviceRuns \/ Fetch)

FairSysSpec == SysSpec /\ SysFairness

-----------------------------------------------------------------------------
Service == INSTANCE DecodeService
  WITH Burst <- MaxSteps,
       live <- waiting \cup running,
       given <- outs,
       limit <- [r \in Req |-> shape[r].max],
       right <- bad = {}

(* README_EN.md promises the decoding of the stock path at epoch speed:    *)
(* behind rows, leases, lanes, imports, replays and failures the system    *)
(* only ever does what DecodeService allows.                               *)
ImplementsService == Service!ServiceSpec

(* The state of the composition is well formed. *)
SysTypeOK ==
  /\ TypeOK /\ Dev!DeviceTypeOK
  /\ worker \in {"plugin", "dedicated"} /\ engine \in {"sidecar", "ctypes"}
  /\ backend \in BOOLEAN /\ sidecar \in BOOLEAN
  /\ wire \in {"idle", "request", "fed", "ran", "prepared", "executing",
               "committed", "closed"}
  /\ hostLen \in [Req -> Nat] /\ bad \subseteq Req

(* The system promise of docs/PROJECT_HISTORY.md M1, "exact token IDs": no *)
(* request is ever given a token that stock greedy decoding would not have *)
(* given it, through imports, isolated lanes, replays, row reuse and every *)
(* failure of the sidecar or the Device.                                   *)
OutputsRight == bad = {}

(* Host and Device agree: before an epoch starts, the row of a running     *)
(* Device-owned request is resident under the request's generation,        *)
(* waits at its next position and holds the KV of all earlier ones.        *)
DeviceInSync ==
  fault = "none" /\ (phase = "idle" \/ wire = "idle") /\ phase # "done" =>
    \A r \in running \cap owned :
      LET x == rows[r]
          last == IF phase = "exec" /\ toks[r] > 0 THEN computed[r] - 1
                                                   ELSE computed[r]
      IN  /\ x \in resValid /\ resGen[x] = gens[r] /\ resTok[x] = r
          /\ resPos[x] = last
          /\ \A p \in Dev!Positions : p < resPos[x] => kv[x][p] = r

(* docs/OPERATIONS.md: no failure may "duplicate token or KV advancement". *)
(* A Host replay is in progress only when no row of the plan has been      *)
(* advanced past the position the plan started from.                       *)
NoDoubleAdvance ==
  phase = "done" /\ res.route = "host_fallback" =>
    \A r \in planned :
      ~(rows[r] \in resValid /\ resGen[rows[r]] = gens[r]
          /\ resPos[rows[r]] >= computed[r])

InEnvelope(r) ==
  Prompt(r) = 1 /\ shape[r].eligible /\ shape[r].max <= Capacity

(* worker.py hands a plan over without KV and has no stock model.  No plan *)
(* that needs an import ever reaches it, and as long as every request it   *)
(* was given is in the envelope (one prompt token, greedy, within the row) *)
(* it never meets a batch "outside the native support envelope".           *)
DedicatedServesEnvelope ==
  worker = "dedicated" =>
    /\ Importing = {}
    /\ fault = "outside-envelope" => \E r \in seen : ~InEnvelope(r)

(* Failures aside, no step of the scheduler and no combination of          *)
(* arrivals, aborts and lanes makes the Device reject an epoch or ends the *)
(* engine in any other way; the dedicated worker ends on a batch outside   *)
(* its envelope, and with the in-process engine it cannot start.           *)
EngineSurvives ==
  \/ fault = "none"
  \/ worker = "dedicated" /\ fault = "outside-envelope"
  \/ worker = "dedicated" /\ engine = "ctypes" /\ fault = "backend-load"

(* A plan the scheduler may send always continues the resident rows: the   *)
(* Device never answers 212.                                               *)
NeverDiscontinuous == fault # "discontinuous"

(* Without failures every request that arrives is served, unless the       *)
(* dedicated worker gives up.                                              *)
EveryoneServed ==
  \A r \in Req :
    r \in waiting ~>
      \/ r \notin waiting \cup running
      \/ worker = "dedicated" /\ fault # "none"

=============================================================================
