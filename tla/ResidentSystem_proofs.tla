----------------------- MODULE ResidentSystem_proofs ------------------------
(***************************************************************************)
(* Theorems about the whole decode path, for every set of requests, every  *)
(* shape of request, every deployment, every configuration that the        *)
(* assumptions allow, and with every failure.                              *)
(*                                                                         *)
(* The scheduler's own invariant carries over from EpochScheduler_proofs:  *)
(* what the worker and the Device return is one of the answers that module *)
(* lets come back.  What is new here follows a generation from the lease   *)
(* to the row of the Device and back.                                      *)
(***************************************************************************)
EXTENDS ResidentSystem, EpochAdmission_proofs

(***************************************************************************)
(* The inductive invariant of the composition.                             *)
(***************************************************************************)

(* The row of r holds r's state under r's generation, and waits at pos. *)
Held(r, pos) ==
  LET x == rows[r] IN
  x \in resValid /\ resGen[x] = gens[r] /\ resTok[x] = r /\ resPos[x] = pos

(* Where the worker, the bridge and the plan are with respect to each      *)
(* other: nothing is on the wire outside an epoch, and the dedicated       *)
(* worker has done nothing before it is warm.                              *)
LinkInv ==
  /\ ~backend => wire = "idle"
  /\ wire # "idle" => phase = "exec" /\ planned # {}
  /\ worker = "dedicated" /\ ~backend => phase = "idle" /\ Leased = {}
  /\ phase = "done" /\ res.route # "device" => worker = "plugin"

(* A plan is for all leased requests and for all running ones. *)
PlanInv ==
  planned # {} =>
    /\ steps \in 1 .. MaxSteps /\ Leased \subseteq planned
    /\ \A r \in planned : computed[r] > 0
    /\ fault = "none" => running \subseteq planned

(* The Device has seen no generation that is still to be handed out; the   *)
(* warm-up takes the last one, with a token that is no request's.          *)
GenInv ==
  \A x \in Row : \/ resGen[x] < nextGen
                 \/ worker = "dedicated" /\ resTok[x] = Junk

(* What the Device keeps under the generation of a lease is the stream of  *)
(* the request that has it, complete up to where it stopped.               *)
KVInv ==
  fault = "none" =>
    \A r \in Leased :
      LET x == rows[r] IN
      resGen[x] = gens[r] =>
        /\ resTok[x] \in {r, Junk}
        /\ resTok[x] = r =>
             \A p \in Dev!Positions : p < resPos[x] => kv[x][p] = r

(* The stock model's cache holds all that a request of its own has         *)
(* computed before this step, and after the step this step's part too.     *)
HostKV ==
  fault = "none" =>
    \A r \in Req \ owned :
      /\ r \in running \/ toks[r] > 0 => hostLen[r] >= Before(r)
      /\ phase = "done" /\ res.route # "device" /\ toks[r] > 0 =>
           hostLen[r] >= computed[r]

(* The answer of an epoch that went well is right, and the rows stand      *)
(* where it says.                                                          *)
ReplyInv ==
  fault = "none" /\ wire \in {"ran", "committed"} /\ reply.status = 0 =>
    /\ reply.wrong = {}
    /\ \A r \in planned :
         /\ reply.got[rows[r]] \in 1 .. steps
         /\ Held(r, computed[r] - 1 + reply.got[rows[r]])

DoneInv ==
  phase = "done" /\ res.route = "device" =>
    \A r \in planned : Held(r, computed[r] - 1 + res.got[r])

(* Nothing of a lease without a committed epoch is on the Device. *)
Untouched == \A r \in Leased \ owned : resGen[rows[r]] # gens[r]

UntouchedInv ==
  worker = "plugin" =>
    /\ (/\ fault = "none" /\ phase # "done"
        /\ wire \in {"idle", "request", "fed", "prepared"}) => Untouched
    /\ phase = "done" /\ res.route # "device" => Untouched

SysInv ==
  /\ IndInv /\ SysTypeOK /\ LinkInv /\ PlanInv /\ GenInv /\ KVInv
  /\ HostKV /\ ReplyInv /\ DoneInv /\ UntouchedInv
  /\ phase = "done" /\ res.route = "host_fallback" => planned \cap owned = {}
  /\ OutputsRight

(* With ids that are used once: the rows of the Device-owned requests.     *)
SyncInv ==
  /\ waiting \cup running \cup Leased \subseteq seen /\ waiting \cap owned = {}
  /\ fault = "none" =>
       \A r \in running \cap owned :
         /\ r \notin planned => Held(r, Before(r))
         /\ (/\ r \in planned /\ phase = "exec"
             /\ wire \in {"idle", "request", "fed", "prepared"}) =>
               Held(r, computed[r] - 1)

-----------------------------------------------------------------------------
(* The engine before its first step, and a Device that has never run       *)
(* (g4c_b4_resident_epoch.cpp, Init).                                      *)
LEMMA SysInitInv == SysInit => SysInv /\ SyncInv
<1>. SUFFICES ASSUME SysInit PROVE SysInv /\ SyncInv
  OBVIOUS
<1>. USE SchedulerAssumption, SystemAssumption
<1>1. Init /\ IndInv
  BY InitInd DEF SysInit
<1>2. Leased = {} /\ owned = {} /\ running = {} /\ waiting = {}
  BY <1>1 DEF Init, Leased
<1>3. /\ resGen = [x \in Row |-> 0] /\ resTok = [x \in Row |-> Junk]
      /\ resPos = [x \in Row |-> 0] /\ resValid = {}
      /\ kv = [x \in Row |-> [p \in Dev!Positions |-> Junk]]
      /\ reply = [status |-> 0, got |-> [x \in Row |-> 0], eos |-> {}, wrong |-> {}]
  BY DEF SysInit, Dev!DeviceInit, Dev!Empty, Dev!NoReply
<1>4. Dev!DeviceTypeOK
  BY <1>3 DEF Dev!DeviceTypeOK, Dev!Data
<1>5. worker \in {"plugin", "dedicated"} /\ engine \in {"sidecar", "ctypes"}
  BY DEF SysInit
<1>6. SysTypeOK
  BY <1>1, <1>4, <1>5 DEF SysInit, SysTypeOK, IndInv, NoTokens
<1>7. LinkInv /\ PlanInv /\ ReplyInv /\ DoneInv
  BY <1>1, <1>2 DEF Init, SysInit, LinkInv, PlanInv, ReplyInv, DoneInv
<1>8. GenInv
  BY <1>1, <1>3 DEF Init, GenInv
<1>9. KVInv /\ UntouchedInv /\ Untouched
  BY <1>2 DEF KVInv, UntouchedInv, Untouched
<1>10. HostKV
  <2>1. \A r \in Req : toks[r] = 0
    BY <1>1 DEF Init, NoTokens
  <2>. QED  BY <1>1, <1>2, <2>1 DEF Init, HostKV
<1>11. SyncInv
  BY <1>2 DEF SyncInv
<1>. QED
  BY <1>1, <1>6, <1>7, <1>8, <1>9, <1>10, <1>11
  DEF Init, SysInit, SysInv, OutputsRight

-----------------------------------------------------------------------------
(***************************************************************************)
(* Steps that leave most of the state alone.                               *)
(***************************************************************************)

(* An exception that ends the engine leaves everything as it was; the      *)
(* connection may be gone (plugin.py, scheduler.py).                       *)
LEMMA FaultStep ==
  ASSUME SysInv, IndInv', fault' # "none",
         UNCHANGED <<clientVars, baseVars, leaseVars, stepVars, ghostVars,
                     devVars, deployVars, backend, sidecar>>,
         wire' \in {wire, "idle"}
  PROVE  SysInv'
<1>. USE DEF SysInv, clientVars, baseVars, leaseVars, stepVars, ghostVars,
         devVars, keptVars, deployVars
<1>1. SysTypeOK'
  BY DEF SysTypeOK, Dev!DeviceTypeOK, IndInv
<1>2. Leased' = Leased /\ Untouched' = Untouched
  BY DEF Leased, Untouched
<1>4. LinkInv' /\ PlanInv' /\ GenInv' /\ HostKV'
  BY <1>2 DEF LinkInv, PlanInv, GenInv, HostKV
<1>5. KVInv'
  BY <1>2 DEF KVInv
<1>6. ReplyInv' /\ DoneInv'
  BY DEF ReplyInv, DoneInv, Held
<1>7. UntouchedInv' /\ OutputsRight'
  BY <1>2 DEF UntouchedInv, OutputsRight
<1>. QED  BY <1>1, <1>4, <1>5, <1>6, <1>7

(* Die is such an exception. *)
LEMMA DieInd ==
  ASSUME IndInv, NEW f \in Faults \ {"none", "allocator-exhausted", "over-advance"},
         Die(f)
  PROVE  IndInv'
<1>. USE DEF IndInv, Die, clientVars, baseVars, leaseVars, stepVars
<1>1. TypeOK'
  BY DEF TypeOK
<1>2. StepInv'
  BY DEF StepInv
<1>3. LeaseInv' /\ SanityChecksHold'
  BY DEF LeaseInv, LeaseSafety, Leased, HostBatch, SanityChecksHold
<1>. QED  BY <1>1, <1>2, <1>3

(* So the invariant of the composition survives it. *)
LEMMA DieStep ==
  ASSUME SysInv, NEW f \in Faults \ {"none", "allocator-exhausted", "over-advance"},
         Die(f), UNCHANGED <<devVars, deployVars, backend, sidecar>>,
         wire' \in {wire, "idle"}
  PROVE  SysInv'
<1>1. IndInv'
  BY DieInd DEF SysInv
<1>. QED  BY <1>1, FaultStep DEF Die, Faults

(* A message moves: the scheduler, the Device and the ghosts do not. *)
LEMMA WireStep ==
  ASSUME SysInv, UNCHANGED <<schedVars, devVars, deployVars, ghostVars>>,
         backend' \in BOOLEAN, sidecar' \in BOOLEAN, backend => backend',
         wire' \in {"idle", "request", "fed", "ran", "prepared", "executing",
                    "committed", "closed"},
         wire' # "idle" => phase = "exec" /\ planned # {},
         ~backend' => wire' = "idle",
         wire' \in {"ran", "committed"} => wire \in {"ran", "committed"},
         wire' \in {"idle", "request", "fed", "prepared"} =>
           wire \in {"idle", "request", "fed", "prepared"}
  PROVE  SysInv'
<1>1. IndInv'
  BY NextInd DEF SysInv
<1>. USE DEF SysInv, schedVars, clientVars, baseVars, leaseVars, stepVars,
         ghostVars, devVars, keptVars, deployVars
<1>2. SysTypeOK'
  BY <1>1 DEF SysTypeOK, Dev!DeviceTypeOK, IndInv
<1>3. Leased' = Leased /\ Untouched' = Untouched
  BY DEF Leased, Untouched
<1>4. LinkInv' /\ PlanInv' /\ GenInv'
  BY <1>3 DEF LinkInv, PlanInv, GenInv
<1>5. HostKV'
  BY DEF HostKV, Before
<1>6. KVInv'
  BY <1>3 DEF KVInv
<1>7. ReplyInv' /\ DoneInv'
  BY DEF ReplyInv, DoneInv, Held
<1>8. UntouchedInv' /\ OutputsRight'
  BY <1>3 DEF UntouchedInv, OutputsRight
<1>. QED  BY <1>1, <1>2, <1>4, <1>5, <1>6, <1>7, <1>8

-----------------------------------------------------------------------------
(***************************************************************************)
(* Clients                                                                 *)
(***************************************************************************)

(* A request that arrives, is aborted or gets its grammar changes nothing  *)
(* that the Device or a cache holds (scheduler.py, add_request and         *)
(* finish_requests of the base scheduler).                                 *)
LEMMA ClientStep ==
  ASSUME SysInv, IndInv', fault = "none",
         UNCHANGED <<leaseVars, stepVars, fault, devVars, linkVars>>,
         running' \subseteq running, hostLen' \in [Req -> Nat], bad' = {},
         \A r \in planned : computed'[r] = computed[r],
         \A r \in Req : \/ computed'[r] = computed[r] /\ hostLen'[r] = hostLen[r]
                        \/ computed'[r] = 0 /\ hostLen'[r] = 0 /\ phase = "idle"
  PROVE  SysInv'
<1>. USE DEF leaseVars, stepVars, devVars, keptVars, linkVars, deployVars
<1>1. SysTypeOK'
  BY DEF SysInv, SysTypeOK, Dev!DeviceTypeOK, IndInv
<1>2. Leased' = Leased /\ Untouched' = Untouched
  BY DEF Leased, Untouched
<1>3. LinkInv' /\ PlanInv' /\ GenInv'
  BY <1>2 DEF SysInv, LinkInv, PlanInv, GenInv
<1>4. KVInv'
  BY <1>2 DEF SysInv, KVInv
<1>5. HostKV'
  <2>. SUFFICES ASSUME NEW r \in Req, r \notin owned
                PROVE  /\ r \in running' \/ toks[r] > 0 =>
                            hostLen'[r] >= computed'[r] - toks[r]
                       /\ phase = "done" /\ res.route # "device" /\ toks[r] > 0 =>
                            hostLen'[r] >= computed'[r]
    BY DEF HostKV, Before
  <2>1. CASE computed'[r] = computed[r] /\ hostLen'[r] = hostLen[r]
    BY <2>1 DEF SysInv, HostKV, Before
  <2>2. CASE computed'[r] = 0 /\ hostLen'[r] = 0 /\ phase = "idle"
    <3>1. toks[r] = 0
      BY <2>2 DEF SysInv, IndInv, StepInv
    <3>. QED  BY <2>2, <3>1
  <2>. QED  BY <2>1, <2>2
<1>6. ReplyInv' /\ DoneInv'
  BY DEF SysInv, ReplyInv, DoneInv, Held
<1>7. UntouchedInv' /\ OutputsRight'
  BY <1>2 DEF SysInv, UntouchedInv, OutputsRight
<1>. QED  BY <1>1, <1>3, <1>4, <1>5, <1>6, <1>7 DEF SysInv

(* A new request starts with nothing in the stock model's cache. *)
LEMMA SysAddStep ==
  ASSUME SysInv, NEW r \in Req, NEW s \in Shapes, SysAdd(r, s)
  PROVE  SysInv'
<1>1. AddRequest(r, s) /\ fault = "none" /\ phase = "idle"
  BY DEF SysAdd, AddRequest
<1>2. IndInv'
  BY <1>1, AddRequestInd DEF SysInv
<1>3. planned = {}
  BY <1>1 DEF SysInv, IndInv, StepInv
<1>4. /\ hostLen' \in [Req -> Nat] /\ bad' = {} /\ running' = running
      /\ \A q \in Req : \/ computed'[q] = computed[q] /\ hostLen'[q] = hostLen[q]
                        \/ computed'[q] = 0 /\ hostLen'[q] = 0 /\ phase = "idle"
  BY <1>1 DEF SysAdd, AddRequest, SysInv, IndInv, TypeOK, SysTypeOK, OutputsRight
<1>. QED
  BY <1>1, <1>2, <1>3, <1>4, ClientStep DEF SysAdd, AddRequest

(* An abort or a grammar that is ready leaves every cache alone. *)
LEMMA SysClientStep ==
  ASSUME SysInv, NEW r \in Req, SysClient(r)
  PROVE  SysInv'
<1>1. IndInv'
  BY GrammarReadyInd, AbortRequestInd DEF SysClient, SysInv
<1>2. /\ fault = "none" /\ running' \subseteq running
      /\ UNCHANGED <<computed, hostLen, bad, leaseVars, stepVars, fault, devVars,
                     linkVars>>
  BY DEF SysClient, GrammarReady, AbortRequest, ghostVars
<1>3. hostLen' \in [Req -> Nat] /\ bad' = {}
  BY <1>2 DEF SysInv, SysTypeOK, OutputsRight
<1>. QED  BY <1>1, <1>2, <1>3, ClientStep

-----------------------------------------------------------------------------
(***************************************************************************)
(* schedule()                                                              *)
(***************************************************************************)

(* A plan has an epoch length that the configuration allows, and the rows  *)
(* that are leased after it are its own (scheduler.py,                     *)
(* _make_resident_epoch_plan).                                             *)
LEMMA PlanMade ==
  ASSUME IndInv, NEW adm \in SUBSET (waiting \ held), NEW chunk \in Chunks,
         Schedule(adm, chunk), planned' # {}
  PROVE  /\ planned' = running' /\ steps' \in 1 .. MaxSteps /\ fault' = "none"
         /\ \A r \in planned' : ~(Prompt(r) > 1 /\ outs[r] = 0)
<1>. DEFINE S == (running \ Paused) \cup adm
<1>1. PlanCandidate(S) /\ MakePlan(S)
  BY DEF Schedule, HostStep, Raise
<1>2. PICK k \in EpochLadder : EpochSteps(k, S) /\ DeviceEpoch(S, k)
  BY <1>1 DEF MakePlan, Raise, HostStep
<1>3. ~ \E r \in S : RequestRejected(r)
  BY <1>1 DEF MakePlan, Raise, HostStep
<1>4. k \in 1 .. MaxSteps
  BY <1>2, SchedulerAssumption DEF EpochLadder, EpochSteps, EpochFits
<1>5. planned' = S /\ steps' = k /\ S = running' /\ fault' = "none"
  BY <1>1, <1>2 DEF DeviceEpoch, PlanCandidate
<1>. QED  BY <1>3, <1>4, <1>5 DEF RequestRejected

(* What schedule() does to the leases and counters, in one place           *)
(* (scheduler.py, schedule and _assign_resident_rows).                     *)
LEMMA ScheduleEffects ==
  ASSUME IndInv, NEW adm \in SUBSET (waiting \ held), NEW chunk \in Chunks,
         Schedule(adm, chunk)
  PROVE  /\ fault = "none" /\ phase = "idle" /\ phase' \in {"idle", "exec"}
         /\ res' = res /\ outs' = outs /\ shape' = shape /\ seen' = seen
         /\ owned' \subseteq owned /\ nextGen' >= nextGen
         /\ \A r \in Leased' : \/ r \in Leased /\ rows'[r] = rows[r] /\ gens'[r] = gens[r]
                               \/ r \notin Leased /\ gens'[r] >= nextGen
         /\ \A r \in Leased' \cap owned : r \in owned'
         /\ running' = running \cup adm /\ waiting' = waiting \ adm
         /\ \A r \in Req : computed'[r] - toks'[r] = computed[r]
         /\ \A r \in Req : toks'[r] > 0 => r \in running'
         /\ planned' # {} => Leased' = planned'
         /\ \A r \in Leased' : r \in Leased \/ r \in running'
         /\ \A r \in running' : r \in Leased => r \in Leased'
<1>. DEFINE S == (running \ Paused) \cup adm
<1>1. /\ S \in SUBSET Req
      /\ \/ UNCHANGED leaseVars /\ (RaisedEnd \/ HostEnd(S))
         \/ /\ S = running' /\ Cardinality(New(S)) \in Nat
            /\ \E f \in RowChoices(S) : AssignResidentRows(S, f)
      /\ RaisedEnd \/ HostEnd(S) \/ PlanEnd(S)
  BY ScheduleFacts
<1>2. /\ fault = "none" /\ phase = "idle" /\ BaseSchedule(S, adm, chunk)
      /\ UNCHANGED clientVars /\ res' = res
  BY DEF Schedule
<1>3. phase' \in {"idle", "exec"} /\ (planned' # {} => planned' = S)
  BY <1>1 DEF RaisedEnd, HostEnd, PlanEnd
<1>4. outs' = outs /\ shape' = shape /\ seen' = seen
      /\ running' = running \cup adm /\ waiting' = waiting \ adm
  BY <1>2 DEF BaseSchedule, clientVars
<1>a. adm \subseteq S /\ S \subseteq running \cup adm
  OBVIOUS
<1>. HIDE DEF S
<1>b. /\ toks' \in [Req -> Nat] /\ computed' \in [Req -> Nat]
      /\ \A r \in Req : r \in S <=> toks'[r] > 0
  BY <1>1, <1>2, <1>a, BaseScheduleFacts
<1>5. \A r \in Req : computed'[r] - toks'[r] = computed[r]
  BY <1>2, <1>b DEF BaseSchedule, IndInv, TypeOK
<1>6. \A r \in Req : toks'[r] > 0 => r \in running'
  BY <1>4, <1>a, <1>b
<1>7. nextGen \in Nat
  BY DEF IndInv, TypeOK
<1>8. CASE UNCHANGED leaseVars
  <2>1. Leased' = Leased
    BY <1>8 DEF leaseVars, Leased
  <2>2. planned' = {} \/ S = running'
    BY <1>1 DEF RaisedEnd, HostEnd
  <2>3. planned' # {} => Leased' = planned'
    <3>. SUFFICES ASSUME planned' # {} PROVE Leased' = planned'
      OBVIOUS
    <3>1. \E f \in RowChoices(S) : AssignResidentRows(S, f)
      BY <1>1 DEF RaisedEnd, HostEnd
    <3>2. Leased' = S
      BY <1>1, <3>1, AssignFacts DEF IndInv, LeaseInv, RaisedEnd, HostEnd
    <3>. QED  BY <1>3, <3>2
  <2>. QED
    BY <1>2, <1>3, <1>4, <1>5, <1>6, <1>7, <1>8, <2>1, <2>3 DEF leaseVars
<1>9. CASE /\ S = running' /\ Cardinality(New(S)) \in Nat
           /\ \E f \in RowChoices(S) : AssignResidentRows(S, f)
  <2>1. PICK f \in RowChoices(S) : AssignResidentRows(S, f)
    BY <1>9
  <2>2. /\ owned' \subseteq owned /\ Leased' = S
        /\ \A r \in New(S) : gens'[r] >= nextGen
        /\ \A r \in S \ New(S) : /\ rows'[r] = rows[r] /\ gens'[r] = gens[r]
                                 /\ r \in owned => r \in owned'
    BY <1>1, <1>9, <2>1, AssignFacts DEF IndInv, LeaseInv
  <2>3. nextGen' >= nextGen
    BY <1>7, <1>9, <2>1 DEF AssignResidentRows
  <2>4. \A r \in S : r \in New(S) <=> r \notin Leased
    BY <1>1 DEF New, Leased
  <2>5. owned \subseteq Leased
    BY DEF IndInv, LeaseInv, LeaseSafety
  <2>. QED
    BY <1>2, <1>3, <1>4, <1>5, <1>6, <1>9, <2>2, <2>3, <2>4, <2>5
<1>. QED  BY <1>1, <1>8, <1>9

(* A new lease has a generation the Device has not seen, and the requests  *)
(* of the batch are where the caches left them (scheduler.py, schedule).   *)
LEMMA SysScheduleStep ==
  ASSUME SysInv, SysSchedule
  PROVE  SysInv'
<1>1. UNCHANGED <<devVars, linkVars, ghostVars>> /\ (worker = "dedicated" => backend)
  BY DEF SysSchedule
<1>2. CASE ScheduleIsolatedEmpty
  <2>1. IndInv'
    BY <1>2, ScheduleIsolatedEmptyInd DEF SysInv
  <2>. QED
    BY <1>1, <1>2, <2>1, FaultStep DEF ScheduleIsolatedEmpty, linkVars
<1>3. CASE \E adm \in SUBSET (waiting \ held), chunk \in Chunks :
             Schedule(adm, chunk)
  <2>1. PICK adm \in SUBSET (waiting \ held), chunk \in Chunks : Schedule(adm, chunk)
    BY <1>3
  <2>2. IndInv'
    BY <2>1, ScheduleInd DEF SysInv
  <2>3. /\ fault = "none" /\ phase = "idle" /\ phase' \in {"idle", "exec"}
        /\ res' = res /\ outs' = outs /\ shape' = shape /\ seen' = seen
        /\ owned' \subseteq owned /\ nextGen' >= nextGen
        /\ \A r \in Leased' : \/ r \in Leased /\ rows'[r] = rows[r] /\ gens'[r] = gens[r]
                              \/ r \notin Leased /\ gens'[r] >= nextGen
        /\ \A r \in Leased' \cap owned : r \in owned'
        /\ running' = running \cup adm /\ waiting' = waiting \ adm
        /\ \A r \in Req : computed'[r] - toks'[r] = computed[r]
        /\ \A r \in Req : toks'[r] > 0 => r \in running'
        /\ planned' # {} => Leased' = planned'
        /\ \A r \in Leased' : r \in Leased \/ r \in running'
        /\ \A r \in running' : r \in Leased => r \in Leased'
    BY <2>1, ScheduleEffects DEF SysInv
  <2>4. planned' # {} => /\ planned' = running' /\ steps' \in 1 .. MaxSteps
                         /\ \A r \in planned' : computed'[r] > 0
    <3>. SUFFICES ASSUME planned' # {}
                  PROVE  /\ planned' = running' /\ steps' \in 1 .. MaxSteps
                         /\ \A r \in planned' : computed'[r] > 0
      OBVIOUS
    <3>1. planned' = running' /\ steps' \in 1 .. MaxSteps /\ fault' = "none"
      BY <2>1, PlanMade DEF SysInv
    <3>2. \A r \in planned' : /\ r \in Req /\ computed'[r] \in Nat
                              /\ toks'[r] = 1 /\ toks'[r] <= computed'[r]
      BY <2>2, <3>1 DEF IndInv, StepInv, TypeOK, Planned
    <3>. QED  BY <3>1, <3>2
  <2>5. wire' = "idle" /\ wire = "idle"
    BY <1>1, <2>3 DEF SysInv, LinkInv, linkVars
  <2>6. SysTypeOK'
    BY <1>1, <2>2 DEF SysInv, SysTypeOK, IndInv, Dev!DeviceTypeOK, devVars, keptVars,
       linkVars, deployVars, ghostVars
  <2>7. LinkInv' /\ PlanInv' /\ ReplyInv' /\ DoneInv'
    BY <1>1, <2>3, <2>4, <2>5
    DEF LinkInv, PlanInv, ReplyInv, DoneInv, linkVars, deployVars
  <2>8. /\ nextGen \in Nat /\ nextGen' \in Nat /\ resGen \in [Row -> Nat]
        /\ UNCHANGED <<resGen, resTok, resPos, kv, worker, hostLen>>
    BY <1>1, <2>2 DEF SysInv, SysTypeOK, TypeOK, IndInv, Dev!DeviceTypeOK,
       devVars, keptVars, linkVars, deployVars, ghostVars
  <2>9. GenInv'
    <3>. SUFFICES ASSUME NEW x \in Row
                  PROVE  \/ resGen[x] < nextGen'
                         \/ worker = "dedicated" /\ resTok[x] = Junk
      BY <2>8 DEF GenInv
    <3>1. CASE resGen[x] < nextGen
      BY <2>3, <2>8, <3>1
    <3>. QED  BY <3>1 DEF SysInv, GenInv
  <2>a. \A r \in Leased' : r \in Req /\ rows'[r] \in Row /\ gens'[r] \in Nat
    BY <2>2 DEF IndInv, TypeOK, Leased
  <2>b. \A r \in Leased' : r \notin Leased /\ resGen[rows'[r]] = gens'[r] =>
          worker = "dedicated" /\ resTok[rows'[r]] = Junk
    BY <2>3, <2>8, <2>a DEF SysInv, GenInv
  <2>10. KVInv'
    <3>. SUFFICES ASSUME NEW r \in Leased', resGen[rows'[r]] = gens'[r]
                  PROVE  /\ resTok[rows'[r]] \in {r, Junk}
                         /\ resTok[rows'[r]] = r =>
                              \A p \in Dev!Positions :
                                p < resPos[rows'[r]] => kv[rows'[r]][p] = r
      BY <2>8 DEF KVInv
    <3>1. CASE r \in Leased /\ rows'[r] = rows[r] /\ gens'[r] = gens[r]
      BY <2>3, <3>1 DEF SysInv, KVInv
    <3>2. CASE r \notin Leased
      BY <2>a, <2>b, <3>2, SystemAssumption
    <3>. QED  BY <2>3, <3>1, <3>2
  <2>11. HostKV'
    <3>. SUFFICES ASSUME NEW r \in Req, r \notin owned', r \in running'
                  PROVE  hostLen[r] >= computed[r]
      BY <2>3, <2>8 DEF HostKV, Before
    <3>0. hostLen[r] \in Nat /\ computed[r] \in Nat /\ toks[r] = 0
      BY <2>3 DEF SysInv, SysTypeOK, TypeOK, IndInv, StepInv
    <3>1. r \notin owned
      BY <2>3 DEF SysInv, IndInv, LeaseInv, LeaseSafety
    <3>2. CASE r \in running
      BY <2>3, <3>0, <3>1, <3>2 DEF SysInv, HostKV, Before
    <3>3. CASE r \in adm
      <4>1. Fresh(r)
        BY <2>3, <3>3 DEF SysInv, IndInv, StepInv
      <4>. QED  BY <3>0, <4>1 DEF Fresh
    <3>. QED  BY <2>3, <3>2, <3>3
  <2>12. UntouchedInv'
    <3>. SUFFICES ASSUME worker = "plugin", NEW r \in Leased', r \notin owned'
                  PROVE  resGen[rows'[r]] # gens'[r]
      BY <2>3, <2>8 DEF UntouchedInv, Untouched
    <3>1. Untouched
      BY <2>3, <2>5 DEF SysInv, UntouchedInv
    <3>2. CASE r \in Leased /\ rows'[r] = rows[r] /\ gens'[r] = gens[r]
      BY <2>3, <3>1, <3>2 DEF Untouched
    <3>3. CASE r \notin Leased
      BY <2>b, <3>3
    <3>. QED  BY <2>3, <3>2, <3>3
  <2>13. OutputsRight'
    BY <1>1 DEF SysInv, OutputsRight, ghostVars
  <2>. QED
    BY <2>2, <2>3, <2>6, <2>7, <2>9, <2>10, <2>11, <2>12, <2>13 DEF SysInv
<1>. QED  BY <1>2, <1>3 DEF SysSchedule, ScheduleNext

-----------------------------------------------------------------------------
(***************************************************************************)
(* execute_model()                                                         *)
(***************************************************************************)

(* The stock model runs the batch, with or without a plan: no Device-owned *)
(* request is in it, so that its own cache holds all it needs (plugin.py,  *)
(* original_execute_model and attach_host_fallback_result).                *)
LEMMA StockStep ==
  ASSUME SysInv, IndInv', fault = "none", phase = "exec", phase' = "done",
         planned \cap owned = {}, worker = "plugin",
         wire \in {"idle", "prepared"}, wire' = "idle",
         res'.route \in {"host", "host_fallback"}, StockRun,
         UNCHANGED <<clientVars, baseVars, leaseVars, toks, planned, steps, fault,
                     devVars, deployVars, backend, sidecar>>
  PROVE  SysInv'
<1>. USE DEF clientVars, baseVars, leaseVars, devVars, keptVars, deployVars
<1>1. \A r \in Req : /\ hostLen[r] \in Nat /\ computed[r] \in Nat /\ toks[r] \in Nat
                     /\ toks[r] <= computed[r]
  BY DEF SysInv, SysTypeOK, TypeOK, IndInv, StepInv
<1>2. \A r \in Req : toks[r] > 0 => r \notin owned
  <2>. SUFFICES ASSUME NEW r \in Req, toks[r] > 0, r \in owned PROVE FALSE
    OBVIOUS
  <2>1. CASE planned = {}
    BY <2>1 DEF SysInv, IndInv, LeaseInv, HostBatch
  <2>2. CASE planned # {}
    BY <2>2 DEF SysInv, IndInv, StepInv, Scheduled
  <2>. QED  BY <2>1, <2>2
<1>3. \A r \in Req : toks[r] > 0 => hostLen[r] >= Before(r)
  BY <1>2 DEF SysInv, HostKV
<1>4. bad' = {}
  BY <1>1, <1>3 DEF StockRun, StockTokens, SysInv, OutputsRight, Before
<1>5. \A r \in Req : hostLen'[r] = IF toks[r] > 0 THEN computed[r] ELSE hostLen[r]
  BY <1>3 DEF StockRun
<1>6. hostLen' \in [Req -> Nat]
  BY <1>1 DEF StockRun
<1>7. SysTypeOK'
  BY <1>4, <1>6 DEF SysInv, SysTypeOK, IndInv, Dev!DeviceTypeOK
<1>8. Leased' = Leased /\ Untouched' = Untouched
  BY DEF Leased, Untouched
<1>9. LinkInv' /\ PlanInv' /\ GenInv' /\ ReplyInv' /\ DoneInv'
  BY <1>8 DEF SysInv, LinkInv, PlanInv, GenInv, ReplyInv, DoneInv
<1>10. KVInv'
  BY <1>8 DEF SysInv, KVInv
<1>11. HostKV'
  <2>. SUFFICES ASSUME NEW r \in Req, r \notin owned
                PROVE  /\ r \in running \/ toks[r] > 0 =>
                            hostLen'[r] >= computed[r] - toks[r]
                       /\ toks[r] > 0 => hostLen'[r] >= computed[r]
    BY DEF HostKV, Before
  <2>1. r \in running \/ toks[r] > 0 => hostLen[r] >= computed[r] - toks[r]
    BY DEF SysInv, HostKV, Before
  <2>. QED  BY <1>1, <1>5, <2>1
<1>12. UntouchedInv'
  BY <1>8 DEF SysInv, UntouchedInv
<1>. QED
  BY <1>4, <1>7, <1>9, <1>10, <1>11, <1>12 DEF SysInv, OutputsRight

(* A step of the stock model without a plan (plugin.py, execute_model). *)
LEMMA SysStockStep ==
  ASSUME SysInv, SysStock
  PROVE  SysInv'
<1>1. ExecuteHost /\ worker = "plugin" /\ StockRun /\ UNCHANGED <<devVars, linkVars>>
  BY DEF SysStock
<1>2. IndInv'
  BY <1>1, ExecuteHostInd DEF SysInv
<1>3. /\ fault = "none" /\ phase = "exec" /\ planned = {} /\ phase' = "done"
      /\ res'.route = "host"
      /\ UNCHANGED <<clientVars, baseVars, leaseVars, toks, planned, steps, fault>>
  BY <1>1 DEF ExecuteHost
<1>4. wire = "idle" /\ wire' = "idle" /\ UNCHANGED <<deployVars, backend, sidecar>>
  BY <1>1, <1>3 DEF SysInv, LinkInv, linkVars
<1>. QED  BY <1>1, <1>2, <1>3, <1>4, StockStep

(* The Host replay of a plan (plugin.py, _execute_model_with_fallback). *)
LEMMA HostReplayStep ==
  ASSUME SysInv, Executing, HostReplay, HostReplaySafe, worker = "plugin",
         wire \in {"idle", "prepared"}, wire' = "idle",
         UNCHANGED <<devVars, deployVars, backend, sidecar>>
  PROVE  SysInv'
<1>1. PICK E \in SUBSET planned :
        res' = [route |-> "host_fallback", got |-> StockTokens,
                eos |-> [r \in Req |-> IF r \in E THEN 1 ELSE 0]]
  BY DEF HostReplay
<1>2. /\ fault = "none" /\ phase = "exec" /\ planned # {} /\ phase' = "done"
      /\ planned \subseteq Req
      /\ UNCHANGED <<clientVars, baseVars, leaseVars, toks, planned, steps, fault>>
  BY DEF HostReplay, Executing, SysInv, IndInv, TypeOK
<1>3. StockTokens \in [Req -> {0, 1}]
  BY DEF StockTokens
<1>4. \A r \in planned : StockTokens[r] = 1
  BY <1>2 DEF StockTokens, SysInv, IndInv, StepInv, Planned
<1>5. \A r \in Req \ planned : StockTokens[r] = 0
  BY <1>2 DEF StockTokens, SysInv, IndInv, StepInv, Scheduled
<1>6. res' \in [route : {"none", "host", "device", "host_fallback"},
                got : [Req -> Nat], eos : [Req -> Nat]]
  BY <1>1, <1>3
<1>7. /\ \A r \in Req \ planned : res'.got[r] = 0 /\ res'.eos[r] = 0
      /\ \A r \in planned : res'.eos[r] <= res'.got[r]
  BY <1>1, <1>2, <1>4, <1>5
<1>8. Answer'
  BY <1>1, <1>2, <1>7 DEF Answer
<1>9. IndInv'
  BY <1>2, <1>6, <1>8, ExecuteKeeps DEF SysInv
<1>10. res'.route = "host_fallback" /\ StockRun /\ planned \cap owned = {}
  BY <1>1 DEF HostReplay, HostReplaySafe
<1>. QED  BY <1>2, <1>9, <1>10, StockStep

-----------------------------------------------------------------------------
(***************************************************************************)
(* update_from_output()                                                    *)
(***************************************************************************)

(* Committing a validated result: after a Device epoch all running         *)
(* requests are owned by the Device, and after a stock step or a replay    *)
(* the stock model's cache has all that was computed (scheduler.py,        *)
(* update_from_output and _apply_resident_epoch_accounting).               *)
LEMMA SysUpdateStep ==
  ASSUME SysInv, SysUpdate
  PROVE  SysInv'
<1>1. UpdateFromOutput /\ UNCHANGED <<devVars, linkVars, ghostVars>>
  BY DEF SysUpdate
<1>2. IndInv' /\ fault = "none" /\ phase = "done"
  BY <1>1, UpdateFromOutputInd DEF SysInv, UpdateFromOutput
<1>3. ASSUME NEW f \in {"invalid-result", "missing-request", "over-advance"},
             UpdateFault(f)
      PROVE  SysInv'
  <2>1. fault' # "none" /\ UNCHANGED <<clientVars, baseVars, leaseVars, stepVars>>
    BY <1>3 DEF UpdateFault
  <2>2. /\ UNCHANGED <<ghostVars, devVars, deployVars, backend, sidecar>>
        /\ wire' \in {wire, "idle"}
    BY <1>1 DEF linkVars
  <2>. QED  BY <1>2, <2>1, <2>2, FaultStep
<1>4. CASE ValidResult /\ Commit
  <2>1. /\ phase' = "idle" /\ planned' = {} /\ rows' = rows /\ gens' = gens
        /\ nextGen' = nextGen /\ fault' = fault
        /\ toks' = NoTokens
        /\ running' \subseteq running
        /\ owned' = IF res.route = "device" THEN owned \cup planned ELSE owned
        /\ computed' = [r \in Req |-> Advanced(r)]
    BY <1>4 DEF Commit
  <2>2. UNCHANGED <<devVars, keptVars, linkVars, deployVars, ghostVars, resGen,
                    resTok, resPos, resValid, kv, reply, worker, backend, wire,
                    hostLen, bad>>
    BY <1>1 DEF devVars, keptVars, linkVars, deployVars, ghostVars
  <2>3. wire = "idle" /\ (worker = "dedicated" => backend)
    BY <1>2 DEF SysInv, LinkInv
  <2>4. /\ res.route = "device" => planned # {}
        /\ res.route \in {"device", "host", "host_fallback"}
        /\ res.route = "host" => planned = {}
    BY <1>2 DEF SysInv, IndInv, StepInv, Answer
  <2>5. Leased' = Leased
    BY <2>1 DEF Leased
  <2>6. SysTypeOK'
    BY <1>2, <2>2 DEF SysInv, SysTypeOK, IndInv, Dev!DeviceTypeOK, devVars, keptVars,
       linkVars, deployVars, ghostVars
  <2>7. LinkInv' /\ PlanInv' /\ GenInv' /\ ReplyInv' /\ DoneInv'
    BY <2>1, <2>2, <2>3 DEF SysInv, LinkInv, PlanInv, GenInv, ReplyInv, DoneInv
  <2>8. KVInv'
    BY <2>1, <2>2, <2>5 DEF SysInv, KVInv
  <2>9. HostKV'
    <3>. SUFFICES ASSUME NEW r \in Req, r \notin owned', r \in running'
                  PROVE  hostLen[r] >= Advanced(r)
      <4>1. \A r \in Req : computed'[r] = Advanced(r) /\ toks'[r] = 0
        BY <2>1 DEF NoTokens
      <4>2. \A r \in Req : Advanced(r) \in Nat
        BY <1>2, <4>1 DEF IndInv, TypeOK
      <4>. QED  BY <2>1, <2>2, <4>1, <4>2 DEF HostKV, Before
    <3>1. res.route # "device"
      BY <1>2, <2>1, <2>4 DEF SysInv, PlanInv
    <3>2. hostLen[r] \in Nat /\ computed[r] \in Nat /\ toks[r] \in Nat
      BY DEF SysInv, SysTypeOK, TypeOK
    <3>3. hostLen[r] >= computed[r]
      <4>1. r \notin owned /\ r \in running
        BY <2>1
      <4>2. CASE toks[r] > 0
        BY <1>2, <3>1, <4>1, <4>2 DEF SysInv, HostKV
      <4>3. CASE toks[r] = 0
        BY <1>2, <3>2, <4>1, <4>3 DEF SysInv, HostKV, Before
      <4>. QED  BY <3>2, <4>2, <4>3
    <3>4. r \in planned => res.got[r] = 1 /\ toks[r] = 1
      BY <1>2, <1>4, <2>4, <3>1 DEF ValidResult, SysInv, IndInv, StepInv, Planned
    <3>5. Advanced(r) = computed[r]
      BY <3>2, <3>4 DEF Advanced
    <3>. QED  BY <3>3, <3>5
  <2>10. UntouchedInv'
    <3>. SUFFICES ASSUME worker = "plugin", NEW r \in Leased, r \notin owned'
                  PROVE  resGen[rows[r]] # gens[r]
      BY <2>1, <2>2, <2>5 DEF UntouchedInv, Untouched
    <3>1. res.route # "device"
      BY <2>1, <2>4 DEF SysInv, PlanInv
    <3>. QED  BY <1>2, <2>1, <3>1 DEF SysInv, UntouchedInv, Untouched
  <2>. QED
    BY <1>2, <2>1, <2>2, <2>6, <2>7, <2>8, <2>9, <2>10 DEF SysInv, OutputsRight
<1>. QED  BY <1>1, <1>3, <1>4 DEF UpdateFromOutput

-----------------------------------------------------------------------------
(***************************************************************************)
(* The Host end of the connection                                          *)
(***************************************************************************)

(* The result of a committed epoch is what the Device did to the rows      *)
(* (sidecar_backend.py, ResidentEpochBackend.execute).                     *)
LEMMA ReceiveCommittedStep ==
  ASSUME SysInv, ReceiveCommitted
  PROVE  SysInv'
<1>1. /\ fault = "none" /\ phase = "exec" /\ planned # {} /\ wire = "committed"
      /\ wire' = "idle"
      /\ UNCHANGED <<devVars, deployVars, backend, sidecar>>
  BY DEF ReceiveCommitted, Executing
<1>2. CASE reply.status # 0
  <2>1. PICK f \in {"discontinuous", "device-error"} : Die(f)
    BY <1>2 DEF ReceiveCommitted
  <2>2. f \in Faults \ {"none", "allocator-exhausted", "over-advance"}
    BY DEF Faults
  <2>. QED  BY <1>1, <2>1, <2>2, DieStep
<1>3. CASE reply.status = 0
  <2>1. /\ res' = DeviceResult /\ phase' = "done"
        /\ bad' = bad \cup {r \in planned : rows[r] \in reply.wrong}
        /\ UNCHANGED <<clientVars, baseVars, leaseVars, toks, planned, steps,
                       fault, hostLen>>
    BY <1>3 DEF ReceiveCommitted
  <2>2. /\ reply.wrong = {}
        /\ \A r \in planned :
             /\ reply.got[rows[r]] \in 1 .. steps
             /\ Held(r, computed[r] - 1 + reply.got[rows[r]])
    BY <1>1, <1>3 DEF SysInv, ReplyInv
  <2>3. planned \subseteq Req /\ steps \in Nat
    BY DEF SysInv, IndInv, TypeOK
  <2>4. /\ res'.route = "device"
        /\ \A r \in Req : /\ res'.got[r] = IF r \in planned THEN reply.got[rows[r]]
                                           ELSE 0
                          /\ res'.eos[r] = IF r \in planned /\ rows[r] \in reply.eos
                                           THEN reply.got[rows[r]] ELSE 0
        /\ res' = [route |-> res'.route, got |-> res'.got, eos |-> res'.eos]
        /\ res'.got = [r \in Req |-> res'.got[r]]
        /\ res'.eos = [r \in Req |-> res'.eos[r]]
    BY <2>1 DEF DeviceResult
  <2>5. \A r \in Req : res'.got[r] \in Nat /\ res'.eos[r] \in Nat
    BY <2>2, <2>3, <2>4
  <2>6. res' \in [route : {"none", "host", "device", "host_fallback"},
                  got : [Req -> Nat], eos : [Req -> Nat]]
    <3>1. res'.got \in [Req -> Nat] /\ res'.eos \in [Req -> Nat]
      BY <2>4, <2>5
    <3>. QED  BY <2>4, <3>1
  <2>7. Answer'
    <3>1. \A r \in planned : res'.eos[r] <= res'.got[r]
      BY <2>2, <2>3, <2>4
    <3>. QED  BY <1>1, <2>1, <2>4, <3>1 DEF Answer
  <2>8. IndInv'
    BY <1>1, <2>1, <2>6, <2>7, ExecuteKeeps DEF SysInv
  <2>9. bad' = {}
    BY <2>1, <2>2 DEF SysInv, OutputsRight
  <2>. USE <1>1, <2>1 DEF clientVars, baseVars, leaseVars, devVars, keptVars, deployVars
  <2>10. SysTypeOK'
    BY <2>8, <2>9 DEF SysInv, SysTypeOK, IndInv, Dev!DeviceTypeOK
  <2>11. Leased' = Leased
    BY DEF Leased
  <2>12. LinkInv' /\ PlanInv' /\ GenInv' /\ ReplyInv' /\ UntouchedInv'
    BY <2>4, <2>11 DEF SysInv, LinkInv, PlanInv, GenInv, ReplyInv, UntouchedInv
  <2>13. KVInv'
    BY <2>11 DEF SysInv, KVInv
  <2>14. HostKV'
    BY <2>4 DEF SysInv, HostKV, Before
  <2>15. DoneInv'
    BY <2>2, <2>3, <2>4 DEF DoneInv, Held
  <2>. QED
    BY <2>4, <2>8, <2>9, <2>10, <2>12, <2>13, <2>14, <2>15 DEF SysInv, OutputsRight
<1>. QED  BY <1>2, <1>3, <1>1 DEF SysInv, SysTypeOK, Dev!DeviceTypeOK

(* A failure before the Device could have been reached: replay if no       *)
(* request of the plan is owned by the Device, end the engine otherwise    *)
(* (plugin.py, _execute_model_with_fallback).                              *)
LEMMA ReplayOrDieStep ==
  ASSUME SysInv, Executing, NEW f \in {"backend-load", "prepared"}, ReplayOrDie(f),
         wire \in {"idle", "prepared"}, wire' = "idle",
         UNCHANGED <<devVars, deployVars, backend, sidecar>>
  PROVE  SysInv'
<1>1. CASE worker = "plugin" /\ HostReplaySafe /\ HostReplay
  BY <1>1, HostReplayStep
<1>2. CASE Die(f)
  <2>1. f \in Faults \ {"none", "allocator-exhausted", "over-advance"}
    BY DEF Faults
  <2>. QED  BY <1>2, <2>1, DieStep
<1>. QED  BY <1>1, <1>2 DEF ReplayOrDie

(* The steps of the Host end that load, send, give up or replay. *)
LEMMA HostEndStep ==
  ASSUME SysInv,
         \/ LoadBackend \/ LoadBackendFails \/ LoadOrWarmUpFails
         \/ OutsideEnvelope \/ CaptureFails \/ Send
         \/ ReceivePrepared \/ ReceiveAmbiguous \/ ReceiveTimeout
  PROVE  SysInv'
<1>. USE DEF linkVars
<1>0. backend \in BOOLEAN /\ sidecar \in BOOLEAN
  BY DEF SysInv, SysTypeOK
<1>1. CASE LoadBackend
  <2>1. /\ backend' = TRUE /\ sidecar' = TRUE /\ wire' = wire
        /\ UNCHANGED <<schedVars, devVars, deployVars, ghostVars>>
    BY <1>1 DEF LoadBackend
  <2>2. /\ wire \in {"idle", "request", "fed", "ran", "prepared", "executing",
                     "committed", "closed"}
        /\ wire # "idle" => phase = "exec" /\ planned # {}
    BY DEF SysInv, SysTypeOK, LinkInv
  <2>. QED  BY <2>1, <2>2, WireStep
<1>2. CASE Send
  <2>1. /\ phase = "exec" /\ planned # {} /\ backend /\ wire = "idle"
        /\ wire' \in {"request", "closed"} /\ backend' = backend /\ sidecar' = sidecar
        /\ UNCHANGED <<schedVars, devVars, deployVars, ghostVars>>
    BY <1>2 DEF Send, Executing
  <2>. QED  BY <1>0, <2>1, WireStep
<1>3. CASE LoadBackendFails
  <2>1. Executing /\ ~backend /\ ReplayOrDie("backend-load") /\ UNCHANGED <<devVars, linkVars>>
    BY <1>3 DEF LoadBackendFails
  <2>2. wire = "idle"
    BY <2>1 DEF SysInv, LinkInv
  <2>. QED  BY <2>1, <2>2, ReplayOrDieStep
<1>4. CASE ReceivePrepared
  BY <1>4, ReplayOrDieStep DEF ReceivePrepared
<1>5. CASE \/ LoadOrWarmUpFails \/ OutsideEnvelope \/ CaptureFails
           \/ ReceiveAmbiguous \/ ReceiveTimeout
  <2>1. PICK f \in {"backend-load", "outside-envelope", "kv-capture", "ambiguous"} :
          Die(f)
    BY <1>5 DEF LoadOrWarmUpFails, OutsideEnvelope, CaptureFails, ReceiveAmbiguous,
       ReceiveTimeout
  <2>2. f \in Faults \ {"none", "allocator-exhausted", "over-advance"}
    BY DEF Faults
  <2>3. UNCHANGED <<devVars, linkVars>>
    BY <1>5 DEF LoadOrWarmUpFails, OutsideEnvelope, CaptureFails, ReceiveAmbiguous,
       ReceiveTimeout
  <2>. QED  BY <2>1, <2>2, <2>3, DieStep
<1>. QED  BY <1>1, <1>2, <1>3, <1>4, <1>5

(* The steps of the bridge around the Device (resident_epoch_bridge.cpp,   *)
(* resident_epoch_server.cpp).                                             *)
LEMMA BridgeStep ==
  ASSUME SysInv,
         BridgeRejects \/ Feed \/ FeedFails \/ Fetch \/ FetchFails \/ SidecarDies
  PROVE  SysInv'
<1>0. /\ backend \in BOOLEAN /\ sidecar \in BOOLEAN
      /\ wire # "idle" => phase = "exec" /\ planned # {} /\ backend
  BY DEF SysInv, SysTypeOK, LinkInv
<1>1. CASE SidecarDies
  <2>1. /\ sidecar' = FALSE /\ backend' = backend
        /\ wire' = IF wire = "idle" THEN "idle" ELSE "closed"
        /\ UNCHANGED <<schedVars, devVars, deployVars, ghostVars>>
    BY <1>1 DEF SidecarDies
  <2>2. wire = "idle" \/ wire' = "closed"
    BY <2>1
  <2>. QED  BY <1>0, <2>1, <2>2, WireStep
<1>2. CASE BridgeRejects \/ Feed \/ FeedFails \/ Fetch \/ FetchFails
  <2>1. /\ \/ wire = "request" /\ wire' \in {"prepared", "fed", "executing"}
           \/ wire = "ran" /\ wire' = "committed"
           \/ wire' = "executing" /\ wire # "idle"
        /\ sidecar' = sidecar /\ backend' = backend
        /\ UNCHANGED <<schedVars, devVars, deployVars, ghostVars>>
    BY <1>2 DEF BridgeRejects, Feed, FeedFails, Fetch, FetchFails, Wire
  <2>. QED  BY <1>0, <2>1, WireStep
<1>. QED  BY <1>1, <1>2

-----------------------------------------------------------------------------
(***************************************************************************)
(* The Device                                                              *)
(***************************************************************************)

(* What the plan puts into the input tensors of an epoch. *)
Fed(i) ==
  /\ i \in Dev!EpochInputs
  /\ i.active = {rows[r] : r \in planned} /\ i.import = {rows[r] : r \in Imports}
  /\ i.import \subseteq i.active /\ i.steps = steps
  /\ \A r \in planned :
       /\ rows[r] \in Row /\ computed[r] - 1 \in Nat
       /\ i.gen[rows[r]] = gens[r] /\ i.tok[rows[r]] = r
       /\ i.pos[rows[r]] = computed[r] - 1
       /\ rows[r] \in i.import => r \in Imports
  /\ fault = "none" =>
       \A r \in Imports, p \in Dev!Positions :
         p < computed[r] - 1 => i.payload[rows[r]][p] = r

(* The bridge copies the plan, row by row, and the KV of the stock model   *)
(* for the rows that are new to the Device (resident_epoch_bridge.cpp,     *)
(* resident_epoch_execute).                                                *)
LEMMA InputIsFed ==
  ASSUME SysInv, planned # {}
  PROVE  Fed(EpochInput)
<1>1. \A r \in planned : /\ r \in Req /\ rows[r] \in Row /\ gens[r] \in Nat
                         /\ computed[r] \in Nat /\ hostLen[r] \in Nat
                         /\ computed[r] - 1 \in Nat
  <2>1. \A r \in planned : r \in Req /\ rows[r] # NoRow /\ computed[r] > 0
    BY DEF SysInv, IndInv, LeaseInv, Leased, TypeOK, PlanInv
  <2>. QED  BY <2>1 DEF SysInv, IndInv, SysTypeOK, TypeOK
<1>2. \A r \in planned : Occupant(rows[r]) = r
  <2>. SUFFICES ASSUME NEW r \in planned PROVE Occupant(rows[r]) = r
    OBVIOUS
  <2>1. \A q \in planned : rows[q] = rows[r] => q = r
    BY DEF SysInv, IndInv, LeaseInv, LeaseSafety
  <2>. QED  BY <2>1 DEF Occupant
<1>. DEFINE i == EpochInput
            A == {rows[r] : r \in planned}
<1>3. /\ i.active = A /\ i.steps = steps /\ i.import = {rows[r] : r \in Imports}
      /\ Imports \subseteq planned
  BY DEF EpochInput, Imports, Importing
<1>4. A \subseteq Row /\ \A x \in A : /\ Occupant(x) \in planned
                                      /\ rows[Occupant(x)] = x
  BY <1>1, <1>2
<1>5. \A x \in Row : /\ i.gen[x] = IF x \in A THEN gens[Occupant(x)] ELSE 0
                     /\ i.tok[x] = IF x \in A /\ Occupant(x) \notin bad
                                   THEN Occupant(x) ELSE Junk
                     /\ i.pos[x] = IF x \in A THEN computed[Occupant(x)] - 1 ELSE 0
  BY DEF EpochInput
<1>6. \A x \in Row, p \in Dev!Positions : i.payload[x][p] =
        IF x \in A /\ p < Min2(hostLen[Occupant(x)], computed[Occupant(x)] - 1)
        THEN Occupant(x) ELSE Junk
  BY DEF EpochInput
<1>7. bad = {}
  BY DEF SysInv, OutputsRight
<1>8. i \in Dev!EpochInputs
  <2>1. [x \in Row |-> IF x \in A THEN gens[Occupant(x)] ELSE 0] \in [Row -> Nat]
    BY <1>1, <1>4
  <2>2. [x \in Row |-> IF x \in A /\ Occupant(x) \notin bad
                       THEN Occupant(x) ELSE Junk] \in [Row -> Dev!Data]
    BY <1>1, <1>4 DEF Dev!Data
  <2>3. [x \in Row |-> IF x \in A THEN computed[Occupant(x)] - 1 ELSE 0] \in [Row -> Nat]
    BY <1>1, <1>4
  <2>4. [x \in Row |-> [p \in Dev!Positions |->
           IF x \in A /\ p < Min2(hostLen[Occupant(x)], computed[Occupant(x)] - 1)
           THEN Occupant(x) ELSE Junk]] \in [Row -> [Dev!Positions -> Dev!Data]]
    BY <1>1, <1>4 DEF Dev!Data
  <2>5. steps \in Nat /\ {rows[r] : r \in Imports} \subseteq Row
    BY <1>1, <1>3 DEF SysInv, IndInv, TypeOK
  <2>6. i = [active |-> A, gen |-> i.gen, tok |-> i.tok, pos |-> i.pos, steps |-> steps,
             import |-> {rows[r] : r \in Imports}, payload |-> i.payload]
    BY DEF EpochInput
  <2>7. /\ i.gen \in [Row -> Nat] /\ i.tok \in [Row -> Dev!Data] /\ i.pos \in [Row -> Nat]
        /\ i.payload \in [Row -> [Dev!Positions -> Dev!Data]]
    BY <2>1, <2>2, <2>3, <2>4 DEF EpochInput
  <2>. HIDE DEF i
  <2>. QED  BY <1>4, <2>5, <2>6, <2>7 DEF Dev!EpochInputs
<1>9. \A r \in planned : /\ i.gen[rows[r]] = gens[r] /\ i.tok[rows[r]] = r
                         /\ i.pos[rows[r]] = computed[r] - 1
  BY <1>1, <1>2, <1>5, <1>7
<1>10. \A r \in planned : rows[r] \in i.import => r \in Imports
  BY <1>2, <1>3
<1>11. ASSUME fault = "none", NEW r \in Imports, NEW p \in Dev!Positions,
              p < computed[r] - 1
       PROVE  i.payload[rows[r]][p] = r
  <2>1. r \in planned /\ r \notin owned
    BY <1>3 DEF Imports, Importing, ImportRequired
  <2>2. toks[r] = 1
    BY <1>11, <2>1 DEF SysInv, IndInv, StepInv, Planned
  <2>3. hostLen[r] >= computed[r] - 1
    BY <1>1, <1>11, <2>1, <2>2 DEF SysInv, HostKV, Before
  <2>4. p < Min2(hostLen[r], computed[r] - 1)
    BY <1>1, <1>11, <2>1, <2>3 DEF Min2
  <2>. QED  BY <1>1, <1>2, <1>6, <2>1, <2>4
<1>12. i.import \subseteq i.active
  BY <1>3
<1>13. Fed(i)
  <2>. HIDE DEF i
  <2>. QED  BY <1>1, <1>3, <1>8, <1>9, <1>10, <1>11, <1>12 DEF Fed
<1>. QED  BY <1>13

(* The types of the cache a decoder starts from. *)
LEMMA StartTypes ==
  ASSUME Dev!DeviceTypeOK, NEW i \in Dev!EpochInputs
  PROVE  /\ Dev!ImportedKV(i) \in [Row -> [Dev!Positions -> Dev!Data]]
         /\ Dev!StartKV(i) \in [Row -> [Dev!Positions -> Dev!Data]]
<1>1. Dev!ImportedKV(i) \in [Row -> [Dev!Positions -> Dev!Data]]
  BY DEF Dev!ImportedKV, Dev!DeviceTypeOK, Dev!EpochInputs
<1>2. Dev!Empty \in [Dev!Positions -> Dev!Data]
  BY DEF Dev!Empty, Dev!Data
<1>. QED  BY <1>1, <1>2 DEF Dev!StartKV

(* The state of the Device stays well formed, whatever a Proc() does. *)
LEMMA ProcTypes ==
  ASSUME Dev!DeviceTypeOK, NEW i \in Dev!EpochInputs, NEW b, Dev!Proc(i, b)
  PROVE  Dev!DeviceTypeOK'
<1>. USE SystemAssumption
<1>0. /\ Dev!ImportedKV(i) \in [Row -> [Dev!Positions -> Dev!Data]]
      /\ Dev!StartKV(i) \in [Row -> [Dev!Positions -> Dev!Data]]
  BY StartTypes
<1>1. ASSUME NEW s \in Nat, Dev!Fallback(s)
      PROVE  reply' \in [status : Nat, got : [Row -> Nat], eos : SUBSET Row,
                         wrong : SUBSET Row]
  BY <1>1 DEF Dev!Fallback, Dev!NoReply
<1>2. ASSUME Dev!Import(i)
      PROVE  /\ resGen' \in [Row -> Nat] /\ resTok' \in [Row -> Dev!Data]
             /\ resPos' \in [Row -> Nat] /\ resValid' \subseteq Row
  BY <1>2 DEF Dev!Import, Dev!Overlay, Dev!DeviceTypeOK, Dev!EpochInputs
<1>3. CASE Dev!ProcInvalid(i)
  BY <1>1, <1>3 DEF Dev!ProcInvalid, Dev!residentVars, Dev!DeviceTypeOK
<1>4. CASE Dev!ProcDiscontinuous(i)
  BY <1>0, <1>1, <1>2, <1>4 DEF Dev!ProcDiscontinuous, Dev!DeviceTypeOK
<1>5. ASSUME NEW D \in SUBSET i.active, Dev!ProcModelError(i, D)
      PROVE  Dev!DeviceTypeOK'
  <2>1. Dev!Import(i) /\ Dev!Fallback(207)
    BY <1>5 DEF Dev!ProcModelError
  <2>2. kv' \in [Row -> [Dev!Positions -> Dev!Data]]
    BY <1>0, <1>5 DEF Dev!ProcModelError, Dev!Data
  <2>. QED  BY <1>1, <1>2, <2>1, <2>2 DEF Dev!DeviceTypeOK
<1>6. ASSUME NEW n \in [i.active -> 1 .. i.steps], NEW E \in SUBSET i.active,
             Dev!ProcOk(i, n, E)
      PROVE  Dev!DeviceTypeOK'
  <2>1. /\ i.active \subseteq Row /\ i.gen \in [Row -> Nat]
        /\ i.tok \in [Row -> Dev!Data] /\ i.pos \in [Row -> Nat] /\ i.steps \in Nat
        /\ \A x \in i.active : n[x] \in Nat
    BY DEF Dev!EpochInputs
  <2>2. /\ resGen \in [Row -> Nat] /\ resTok \in [Row -> Dev!Data]
        /\ resPos \in [Row -> Nat] /\ resValid \subseteq Row
        /\ kv \in [Row -> [Dev!Positions -> Dev!Data]]
    BY DEF Dev!DeviceTypeOK
  <2>3. Junk \in Dev!Data
    BY DEF Dev!Data
  <2>4. /\ resGen' \in [Row -> Nat] /\ resPos' \in [Row -> Nat] /\ resValid' \subseteq Row
    BY <1>6, <2>1, <2>2 DEF Dev!ProcOk
  <2>5. resTok' \in [Row -> Dev!Data]
    BY <1>6, <2>1, <2>2, <2>3 DEF Dev!ProcOk
  <2>6. kv' \in [Row -> [Dev!Positions -> Dev!Data]]
    <3>1. \A x \in Row, p \in Dev!Positions : Dev!StartKV(i)[x][p] \in Dev!Data
      BY <1>0
    <3>2. kv' = [x \in Row |-> kv'[x]]
      BY <1>6 DEF Dev!ProcOk
    <3>3. ASSUME NEW x \in Row PROVE kv'[x] \in [Dev!Positions -> Dev!Data]
      <4>1. CASE x \in i.active
        <5>1. kv'[x] = [p \in Dev!Positions |->
                IF p \in i.pos[x] .. i.pos[x] + n[x] - 1
                THEN IF Dev!PrefixRight(i, x) THEN i.tok[x] ELSE Junk
                ELSE Dev!StartKV(i)[x][p]]
          BY <1>6, <4>1 DEF Dev!ProcOk
        <5>2. i.tok[x] \in Dev!Data
          BY <2>1
        <5>. QED  BY <2>3, <3>1, <5>1, <5>2
      <4>2. CASE x \notin i.active
        BY <1>6, <2>2, <4>2 DEF Dev!ProcOk
      <4>. QED  BY <4>1, <4>2
    <3>. QED  BY <3>2, <3>3
  <2>7. reply' \in [status : Nat, got : [Row -> Nat], eos : SUBSET Row,
                    wrong : SUBSET Row]
    <3>1. [x \in Row |-> IF x \in i.active THEN n[x] ELSE 0] \in [Row -> Nat]
      BY <2>1
    <3>2. {x \in i.active : ~Dev!PrefixRight(i, x)} \in SUBSET Row /\ E \in SUBSET Row
      BY <2>1
    <3>. QED  BY <1>6, <3>1, <3>2 DEF Dev!ProcOk
  <2>. QED  BY <2>4, <2>5, <2>6, <2>7 DEF Dev!DeviceTypeOK
<1>. QED  BY <1>3, <1>4, <1>5, <1>6 DEF Dev!Proc

(* A row that the Device lets pass decodes its own request over the        *)
(* complete KV of that request: imported, kept since the last epoch, or    *)
(* not needed yet (g4c_b4_resident_epoch.cpp, Proc).                       *)
LEMMA FedPrefixRight ==
  ASSUME SysInv, fault = "none", planned # {}, NEW i, Fed(i), Dev!Continuous(i),
         NEW r \in planned
  PROVE  Dev!PrefixRight(i, rows[r])
<1>. DEFINE x == rows[r]
<1>1. /\ r \in Req /\ r # Junk /\ x \in Row /\ x \in i.active /\ r \in Leased
      /\ i.tok[x] = r /\ i.gen[x] = gens[r] /\ i.pos[x] = computed[r] - 1
      /\ computed[r] - 1 \in Nat
  BY SystemAssumption DEF Fed, SysInv, IndInv, TypeOK, LeaseInv
<1>2. CASE x \in i.import
  <2>1. Dev!StartKV(i)[x] = i.payload[x]
    BY <1>1, <1>2 DEF Dev!StartKV, Dev!ImportedKV, Dev!Continues
  <2>. QED  BY <1>1, <1>2, <2>1 DEF Fed, Dev!PrefixRight
<1>3. CASE x \notin i.import /\ resGen[x] = gens[r]
  <2>1. x \in resValid /\ resTok[x] = r /\ resPos[x] = computed[r] - 1
    BY <1>1, <1>3 DEF Dev!Continuous, Dev!Continues
  <2>2. Dev!StartKV(i)[x] = kv[x]
    BY <1>1, <1>3 DEF Dev!StartKV, Dev!ImportedKV, Dev!Continues
  <2>3. \A p \in Dev!Positions : p < resPos[x] => kv[x][p] = r
    BY <1>1, <1>3, <2>1 DEF SysInv, KVInv
  <2>. QED  BY <1>1, <2>1, <2>2, <2>3 DEF Dev!PrefixRight
<1>4. CASE x \notin i.import /\ resGen[x] # gens[r]
  <2>1. i.pos[x] = 0
    BY <1>1, <1>4 DEF Dev!Continuous, Dev!Continues
  <2>. QED  BY <1>1, <2>1 DEF Dev!PrefixRight, Dev!Positions
<1>. QED  BY <1>2, <1>3, <1>4

(* What a Proc() that decodes nothing leaves of a row. *)
LEMMA FedImport ==
  ASSUME SysInv, fault = "none", planned # {}, NEW i, Fed(i), Dev!Import(i),
         NEW r \in planned, resGen'[rows[r]] = gens[r]
  PROVE  /\ resTok'[rows[r]] \in {r, Junk}
         /\ resTok'[rows[r]] = r =>
              \A p \in Dev!Positions :
                p < resPos'[rows[r]] => Dev!ImportedKV(i)[rows[r]][p] = r
<1>. DEFINE x == rows[r]
<1>1. x \in Row /\ r \in Leased
  BY DEF Fed, SysInv, IndInv, LeaseInv
<1>2. CASE x \in i.import
  <2>1. resTok'[x] = r /\ resPos'[x] = computed[r] - 1 /\ r \in Imports
    BY <1>1, <1>2 DEF Fed, Dev!Import, Dev!Overlay
  <2>2. Dev!ImportedKV(i)[x] = i.payload[x]
    BY <1>1, <1>2 DEF Dev!ImportedKV
  <2>. QED  BY <2>1, <2>2 DEF Fed
<1>3. CASE x \notin i.import
  <2>1. /\ resTok'[x] = resTok[x] /\ resPos'[x] = resPos[x] /\ resGen'[x] = resGen[x]
        /\ Dev!ImportedKV(i)[x] = kv[x]
    BY <1>1, <1>3 DEF Dev!Import, Dev!Overlay, Dev!ImportedKV
  <2>. QED  BY <1>1, <2>1 DEF SysInv, KVInv
<1>. QED  BY <1>2, <1>3

(* An epoch writes only the generations of the plan's leases into rows. *)
LEMMA FedGenerations ==
  ASSUME SysInv, planned # {}, NEW i, Fed(i), NEW b, Dev!Proc(i, b)
  PROVE  \A x \in Row : \/ resGen'[x] = resGen[x] /\ resTok'[x] = resTok[x]
                        \/ x \in i.active /\ resGen'[x] = i.gen[x]
<1>0. i.import \subseteq i.active
  BY DEF Fed
<1>1. CASE Dev!ProcInvalid(i)
  BY <1>1 DEF Dev!ProcInvalid, Dev!residentVars
<1>2. CASE Dev!Import(i)
  BY <1>0, <1>2 DEF Dev!Import, Dev!Overlay
<1>3. ASSUME NEW n, NEW E, Dev!ProcOk(i, n, E)
      PROVE  \A x \in Row : \/ resGen'[x] = resGen[x] /\ resTok'[x] = resTok[x]
                            \/ x \in i.active /\ resGen'[x] = i.gen[x]
  BY <1>3 DEF Dev!ProcOk
<1>. QED
  BY <1>1, <1>2, <1>3 DEF Dev!Proc, Dev!ProcDiscontinuous, Dev!ProcModelError

(* What the Device keeps after an epoch, however it ended. *)
LEMMA FedKeepsKV ==
  ASSUME SysInv, fault = "none", planned # {}, NEW i, Fed(i), NEW b, Dev!Proc(i, b),
         NEW r \in planned, resGen'[rows[r]] = gens[r]
  PROVE  /\ resTok'[rows[r]] \in {r, Junk}
         /\ resTok'[rows[r]] = r =>
              \A p \in Dev!Positions : p < resPos'[rows[r]] => kv'[rows[r]][p] = r
<1>. DEFINE x == rows[r]
<1>1. /\ r \in Req /\ x \in Row /\ x \in i.active /\ r \in Leased
      /\ i.tok[x] = r /\ i.gen[x] = gens[r] /\ i.pos[x] = computed[r] - 1
      /\ computed[r] - 1 \in Nat
  BY DEF Fed, SysInv, IndInv, TypeOK, LeaseInv
<1>2. CASE Dev!ProcInvalid(i)
  BY <1>1, <1>2 DEF SysInv, KVInv, Dev!ProcInvalid, Dev!residentVars
<1>3. CASE Dev!ProcDiscontinuous(i)
  BY <1>3, FedImport DEF Dev!ProcDiscontinuous
<1>4. ASSUME NEW D \in SUBSET i.active, Dev!ProcModelError(i, D)
      PROVE  /\ resTok'[x] \in {r, Junk}
             /\ resTok'[x] = r =>
                  \A p \in Dev!Positions : p < resPos'[x] => kv'[x][p] = r
  <2>1. Dev!Import(i) /\ Dev!Continuous(i)
    BY <1>4 DEF Dev!ProcModelError
  <2>2. Dev!Continues(i, x) /\ resPos'[x] = computed[r] - 1
    BY <1>1, <2>1 DEF Dev!Import, Dev!Overlay, Dev!Continuous, Dev!Continues
  <2>3. Dev!StartKV(i)[x] = Dev!ImportedKV(i)[x]
    BY <1>1, <2>2 DEF Dev!StartKV
  <2>4. \A p \in Dev!Positions :
          p < resPos'[x] => kv'[x][p] = Dev!ImportedKV(i)[x][p]
    <3>1. \A p \in Dev!Positions : p \in Int /\ (p < resPos'[x] => ~(p >= i.pos[x]))
      BY <1>1, <2>2, SchedulerAssumption DEF Dev!Positions
    <3>2. Dev!StartKV(i)[x] = [p \in Dev!Positions |-> Dev!StartKV(i)[x][p]]
      BY StartTypes DEF SysInv, SysTypeOK, Fed
    <3>. QED  BY <1>1, <1>4, <2>3, <3>1, <3>2 DEF Dev!ProcModelError
  <2>. QED  BY <2>1, <2>4, FedImport
<1>5. ASSUME NEW n \in [i.active -> 1 .. i.steps], NEW E \in SUBSET i.active,
             Dev!ProcOk(i, n, E)
      PROVE  /\ resTok'[x] \in {r, Junk}
             /\ resTok'[x] = r =>
                  \A p \in Dev!Positions : p < resPos'[x] => kv'[x][p] = r
  <2>1. Dev!PrefixRight(i, x)
    BY <1>5, FedPrefixRight DEF Dev!ProcOk
  <2>2. resTok'[x] = r /\ resPos'[x] = computed[r] - 1 + n[x]
    BY <1>1, <1>5, <2>1 DEF Dev!ProcOk
  <2>3. n[x] \in Nat
    BY <1>1 DEF Fed, Dev!EpochInputs
  <2>4. \A p \in Dev!Positions :
          kv'[x][p] = IF p \in i.pos[x] .. i.pos[x] + n[x] - 1 THEN r
                      ELSE Dev!StartKV(i)[x][p]
    BY <1>1, <1>5, <2>1 DEF Dev!ProcOk
  <2>5. \A p \in Dev!Positions : p < i.pos[x] => Dev!StartKV(i)[x][p] = r
    BY <1>1, <2>1 DEF Dev!PrefixRight
  <2>. QED
    BY <1>1, <2>2, <2>3, <2>4, <2>5, SchedulerAssumption DEF Dev!Positions
<1>. QED  BY <1>2, <1>3, <1>4, <1>5 DEF Dev!Proc

(* What the Device says of an epoch that went well. *)
LEMMA FedReply ==
  ASSUME SysInv, fault = "none", planned # {}, NEW i, Fed(i), NEW b, Dev!Proc(i, b),
         reply'.status = 0
  PROVE  /\ reply'.wrong = {}
         /\ \A r \in planned :
              LET x == rows[r] IN
              /\ reply'.got[x] \in 1 .. steps /\ x \in resValid' /\ resGen'[x] = gens[r]
              /\ resTok'[x] = r /\ resPos'[x] = computed[r] - 1 + reply'.got[x]
<1>1. ASSUME NEW s \in {201, 207, 212}, Dev!Fallback(s) PROVE FALSE
  BY <1>1 DEF Dev!Fallback, Dev!NoReply
<1>2. PICK n \in [i.active -> 1 .. i.steps], E \in SUBSET i.active : Dev!ProcOk(i, n, E)
  BY <1>1 DEF Dev!Proc, Dev!ProcInvalid, Dev!ProcDiscontinuous, Dev!ProcModelError
<1>3. \A r \in planned : Dev!PrefixRight(i, rows[r])
  BY <1>2, FedPrefixRight DEF Dev!ProcOk
<1>4. /\ i.active = {rows[r] : r \in planned} /\ i.steps = steps
      /\ \A r \in planned : /\ rows[r] \in Row /\ i.gen[rows[r]] = gens[r]
                            /\ i.tok[rows[r]] = r /\ i.pos[rows[r]] = computed[r] - 1
  BY DEF Fed
<1>5. reply'.wrong = {}
  BY <1>2, <1>3, <1>4 DEF Dev!ProcOk
<1>6. \A r \in planned : reply'.got[rows[r]] = n[rows[r]] /\ n[rows[r]] \in 1 .. steps
  BY <1>2, <1>4 DEF Dev!ProcOk
<1>7. \A r \in planned :
        LET x == rows[r] IN
        /\ x \in resValid' /\ resGen'[x] = gens[r]
        /\ resTok'[x] = r /\ resPos'[x] = computed[r] - 1 + n[x]
  BY <1>2, <1>3, <1>4 DEF Dev!ProcOk
<1>. QED  BY <1>5, <1>6, <1>7

(* The Device runs the epoch that was fed to it. *)
LEMMA DeviceRunsStep ==
  ASSUME SysInv, DeviceRuns
  PROVE  SysInv'
<1>1. /\ wire = "fed" /\ wire' = "ran" /\ Dev!Proc(EpochInput, Faulty)
      /\ UNCHANGED <<schedVars, deployVars, backend, sidecar, ghostVars>>
  BY DEF DeviceRuns, Wire
<1>2. phase = "exec" /\ planned # {}
  BY <1>1 DEF SysInv, LinkInv
<1>3. PICK i : i = EpochInput
  OBVIOUS
<1>4. Fed(i) /\ Dev!Proc(i, Faulty)
  BY <1>1, <1>2, <1>3, InputIsFed
<1>5. IndInv'
  BY <1>1, NextInd DEF SysInv
<1>6. Dev!DeviceTypeOK'
  BY <1>4, ProcTypes DEF Fed, SysInv, SysTypeOK
<1>. USE DEF schedVars, clientVars, baseVars, leaseVars, stepVars, ghostVars, deployVars
<1>7. SysTypeOK'
  BY <1>1, <1>5, <1>6 DEF SysInv, SysTypeOK, IndInv
<1>8. Leased' = Leased /\ Leased \subseteq planned
  BY <1>1, <1>2 DEF Leased, SysInv, PlanInv
<1>9. LinkInv' /\ PlanInv'
  BY <1>1, <1>2, <1>8 DEF SysInv, LinkInv, PlanInv
<1>10. HostKV' /\ DoneInv' /\ UntouchedInv' /\ OutputsRight'
  BY <1>1, <1>2 DEF SysInv, HostKV, Before, DoneInv, UntouchedInv, OutputsRight
<1>11. GenInv'
  <2>1. \A r \in planned : gens[r] < nextGen /\ nextGen \in Nat /\ gens[r] \in Nat
    BY DEF SysInv, IndInv, LeaseInv, LeaseSafety, TypeOK
  <2>2. \A x \in i.active : i.gen[x] < nextGen
    BY <1>4, <2>1 DEF Fed
  <2>3. \A x \in Row : \/ resGen'[x] = resGen[x] /\ resTok'[x] = resTok[x]
                       \/ resGen'[x] < nextGen
    BY <1>2, <1>4, <2>2, FedGenerations
  <2>. QED  BY <1>1, <2>3 DEF SysInv, GenInv
<1>12. KVInv'
  <2>1. ASSUME fault = "none", NEW r \in planned, resGen'[rows[r]] = gens[r]
        PROVE  /\ resTok'[rows[r]] \in {r, Junk}
               /\ resTok'[rows[r]] = r =>
                    \A p \in Dev!Positions : p < resPos'[rows[r]] => kv'[rows[r]][p] = r
    BY <1>2, <1>4, <2>1, FedKeepsKV
  <2>. QED  BY <1>1, <1>8, <2>1 DEF KVInv
<1>13. ReplyInv'
  <2>1. ASSUME fault = "none", reply'.status = 0
        PROVE  /\ reply'.wrong = {}
               /\ \A r \in planned :
                    LET x == rows[r] IN
                    /\ reply'.got[x] \in 1 .. steps /\ x \in resValid' /\ resGen'[x] = gens[r]
                    /\ resTok'[x] = r /\ resPos'[x] = computed[r] - 1 + reply'.got[x]
    BY <1>2, <1>4, <2>1, FedReply
  <2>. QED  BY <1>1, <2>1 DEF ReplyInv, Held
<1>. QED
  BY <1>1, <1>2, <1>5, <1>7, <1>9, <1>10, <1>11, <1>12, <1>13 DEF SysInv

(* The warm-up of the dedicated worker leaves a row that no request's      *)
(* lease is taken for (worker.py, compile_or_warm_up_model).               *)
LEMMA WarmUpStep ==
  ASSUME SysInv, LoadAndWarmUp
  PROVE  SysInv'
<1>1. /\ worker = "dedicated" /\ fault = "none" /\ ~backend
      /\ backend' = TRUE /\ sidecar' = TRUE
      /\ UNCHANGED <<schedVars, deployVars, wire, ghostVars>>
  BY DEF LoadAndWarmUp
<1>2. PICK E \in SUBSET {0} : Dev!ProcOk(WarmUpInput, [x \in {0} |-> 1], E)
  BY DEF LoadAndWarmUp
<1>3. PICK i : i = WarmUpInput
  OBVIOUS
<1>. DEFINE n == [x \in {0} |-> 1]
<1>4. /\ i.active = {0} /\ i.steps = 1 /\ i.import = {}
      /\ \A x \in Row : i.tok[x] = Junk
  BY <1>3 DEF WarmUpInput
<1>5. 0 \in Row /\ GenLimit - 1 \in Nat
  BY SchedulerAssumption DEF Row
<1>6. i \in Dev!EpochInputs
  BY <1>3, <1>5 DEF WarmUpInput, Dev!EpochInputs, Dev!Data, Dev!Empty
<1>7. Dev!Proc(i, Faulty)
  <2>1. n \in [i.active -> 1 .. i.steps] /\ E \in SUBSET i.active
    BY <1>4
  <2>. QED  BY <1>2, <1>3, <2>1 DEF Dev!Proc
<1>8. Dev!DeviceTypeOK'
  BY <1>6, <1>7, ProcTypes DEF SysInv, SysTypeOK
<1>9. IndInv'
  BY <1>1, NextInd DEF SysInv
<1>. USE DEF schedVars, clientVars, baseVars, leaseVars, stepVars, ghostVars, deployVars
<1>10. SysTypeOK'
  BY <1>1, <1>8, <1>9 DEF SysInv, SysTypeOK, IndInv
<1>11. phase = "idle" /\ Leased = {} /\ Leased' = {} /\ wire = "idle" /\ planned = {}
  BY <1>1 DEF SysInv, LinkInv, Leased, IndInv, StepInv
<1>12. LinkInv' /\ PlanInv' /\ KVInv' /\ ReplyInv' /\ DoneInv' /\ UntouchedInv'
  BY <1>1, <1>11 DEF LinkInv, PlanInv, KVInv, ReplyInv, DoneInv, UntouchedInv
<1>13. HostKV' /\ OutputsRight'
  BY <1>1 DEF SysInv, HostKV, Before, OutputsRight
<1>14. GenInv'
  <2>1. \A x \in Row : ~Dev!PrefixRight(i, x)
    BY <1>4 DEF Dev!PrefixRight
  <2>2. \A x \in Row : \/ resGen'[x] = resGen[x] /\ resTok'[x] = resTok[x]
                       \/ resTok'[x] = Junk
    BY <1>2, <1>3, <2>1 DEF Dev!ProcOk
  <2>. QED  BY <1>1, <2>2 DEF SysInv, GenInv
<1>. QED  BY <1>1, <1>9, <1>10, <1>11, <1>12, <1>13, <1>14 DEF SysInv

-----------------------------------------------------------------------------
(* Every step of the composition preserves the invariant. *)
LEMMA SysNextInv == SysInv /\ [SysNext]_sysVars => SysInv'
<1>. SUFFICES ASSUME SysInv, [SysNext]_sysVars PROVE SysInv'
  OBVIOUS
<1>1. CASE \E r \in Req, s \in Shapes : SysAdd(r, s)
  BY <1>1, SysAddStep
<1>2. CASE \E r \in Req : SysClient(r)
  BY <1>2, SysClientStep
<1>3. CASE SysSchedule \/ SysStock \/ SysUpdate
  BY <1>3, SysScheduleStep, SysStockStep, SysUpdateStep
<1>4. CASE HostSide
  BY <1>4, HostEndStep, WarmUpStep, ReceiveCommittedStep DEF HostSide
<1>5. CASE SidecarSide
  BY <1>5, BridgeStep, DeviceRunsStep DEF SidecarSide
<1>6. CASE UNCHANGED sysVars
  <2>1. /\ UNCHANGED <<schedVars, devVars, deployVars, ghostVars>>
        /\ backend' = backend /\ sidecar' = sidecar /\ wire' = wire
    BY <1>6 DEF sysVars, linkVars
  <2>2. /\ backend \in BOOLEAN /\ sidecar \in BOOLEAN
        /\ wire \in {"idle", "request", "fed", "ran", "prepared", "executing",
                     "committed", "closed"}
        /\ wire # "idle" => phase = "exec" /\ planned # {}
        /\ ~backend => wire = "idle"
    BY DEF SysInv, SysTypeOK, LinkInv
  <2>. QED  BY <2>1, <2>2, WireStep
<1>. QED  BY <1>1, <1>2, <1>3, <1>4, <1>5, <1>6 DEF SysNext

(* The invariant holds throughout every behaviour of the composition. *)
LEMMA AlwaysSysInv == SysSpec => []SysInv
<1>1. SysInit => SysInv
  BY SysInitInv
<1>. QED  BY <1>1, SysNextInv, PTL DEF SysSpec

(* The state of the scheduler, the worker, the link and the Device stays   *)
(* well formed (scheduler.py, plugin.py, worker.py, sidecar_backend.py,    *)
(* g4c_b4_resident_epoch.cpp).                                             *)
THEOREM SystemTypeCorrect == SysSpec => []SysTypeOK
  BY AlwaysSysInv, PTL DEF SysInv

(* The promise "exact token IDs" of docs/PROJECT_HISTORY.md M1: no request *)
(* is ever given a token that stock greedy decoding would not have given   *)
(* it, for any mix of requests, any deployment, any abort and any failure  *)
(* of the sidecar, the transfers or the Device, and even when ids are used *)
(* again.                                                                  *)
THEOREM OutputsAlwaysRight == SysSpec => []OutputsRight
  BY AlwaysSysInv, PTL DEF SysInv

(* docs/OPERATIONS.md, "duplicate token or KV advancement": the Host       *)
(* replays a plan only when the Device has not advanced any of its rows.   *)
THEOREM ReplayNeverDoubles == SysSpec => []NoDoubleAdvance
<1>1. SysInv => NoDoubleAdvance
  <2>. SUFFICES ASSUME SysInv, phase = "done", res.route = "host_fallback",
                       NEW r \in planned
                PROVE  resGen[rows[r]] # gens[r]
    BY DEF NoDoubleAdvance
  <2>1. r \in Leased \ owned
    BY DEF SysInv, IndInv, LeaseInv
  <2>2. worker = "plugin"
    BY DEF SysInv, LinkInv
  <2>. QED  BY <2>1, <2>2 DEF SysInv, UntouchedInv, Untouched
<1>. QED  BY <1>1, AlwaysSysInv, PTL

-----------------------------------------------------------------------------
(***************************************************************************)
(* Host and Device agree.                                                  *)
(***************************************************************************)

(* Steps that move no request into a row and run no epoch. *)
LEMMA SyncSame ==
  ASSUME SyncInv, UNCHANGED <<leaseVars, keptVars, seen, computed, toks, planned>>,
         running' \subseteq running, waiting' \subseteq waiting,
         fault' = "none" => fault = "none",
         phase' = "exec" => phase = "exec",
         wire' \in {"idle", "request", "fed", "prepared"} /\ phase' = "exec" =>
           wire \in {"idle", "request", "fed", "prepared"}
  PROVE  SyncInv'
<1>. USE DEF leaseVars, keptVars
<1>1. Leased' = Leased
  BY DEF Leased
<1>2. fault' = "none" =>
        \A r \in running' \cap owned :
          /\ r \notin planned => Held(r, Before(r))'
          /\ (/\ r \in planned /\ phase' = "exec"
              /\ wire' \in {"idle", "request", "fed", "prepared"}) =>
                Held(r, computed[r] - 1)'
  BY DEF SyncInv, Held, Before
<1>. QED  BY <1>1, <1>2 DEF SyncInv

(* A new id has no lease. *)
LEMMA SyncAdd ==
  ASSUME SysInv, SyncInv, ~ReuseIds, NEW r \in Req, NEW s \in Shapes, SysAdd(r, s)
  PROVE  SyncInv'
<1>1. /\ r \notin seen /\ seen' = seen \cup {r} /\ waiting' = waiting \cup {r}
      /\ running' = running /\ computed' = [computed EXCEPT ![r] = 0]
      /\ UNCHANGED <<leaseVars, stepVars, fault, devVars, linkVars>>
  BY DEF SysAdd, AddRequest
<1>. USE DEF leaseVars, stepVars, devVars, keptVars, linkVars
<1>2. Leased' = Leased /\ owned \subseteq Leased
  BY <1>1 DEF Leased, SysInv, IndInv, LeaseInv, LeaseSafety
<1>3. \A q \in running : computed'[q] = computed[q]
  BY <1>1 DEF SysInv, IndInv, TypeOK, SyncInv
<1>4. fault' = "none" =>
        \A q \in running \cap owned :
          /\ q \notin planned => Held(q, Before(q))'
          /\ (/\ q \in planned /\ phase' = "exec"
              /\ wire' \in {"idle", "request", "fed", "prepared"}) =>
                Held(q, computed[q] - 1)'
  BY <1>1, <1>3 DEF SyncInv, Held, Before
<1>5. waiting' \cup running' \cup Leased' \subseteq seen' /\ waiting' \cap owned' = {}
  BY <1>1, <1>2 DEF SyncInv
<1>. QED  BY <1>1, <1>4, <1>5 DEF SyncInv

(* schedule() gives no token to a Device-owned request that it leaves out  *)
(* of a plan, and one to each of the plan's.                               *)
LEMMA SyncSchedule ==
  ASSUME SysInv, SysInv', SyncInv, SysSchedule
  PROVE  SyncInv'
<1>1. UNCHANGED <<devVars, linkVars, ghostVars>>
  BY DEF SysSchedule
<1>2. CASE ScheduleIsolatedEmpty
  <2>1. /\ UNCHANGED <<leaseVars, keptVars, seen, computed, toks, planned, running,
                       waiting, phase, wire>>
        /\ fault' # "none"
    BY <1>1, <1>2 DEF ScheduleIsolatedEmpty, clientVars, baseVars, stepVars, devVars, linkVars
  <2>. QED  BY <2>1, SyncSame
<1>3. CASE \E adm \in SUBSET (waiting \ held), chunk \in Chunks :
             Schedule(adm, chunk)
  <2>1. PICK adm \in SUBSET (waiting \ held), chunk \in Chunks : Schedule(adm, chunk)
    BY <1>3
  <2>2. /\ fault = "none" /\ phase = "idle" /\ seen' = seen
        /\ owned' \subseteq owned
        /\ running' = running \cup adm /\ waiting' = waiting \ adm
        /\ \A r \in Req : computed'[r] - toks'[r] = computed[r]
        /\ \A r \in Leased' : r \in Leased \/ r \in running'
    BY <2>1, ScheduleEffects DEF SysInv
  <2>3. KeptLease
    BY <2>1, ScheduleKeepsLeases DEF SysInv
  <2>4. planned = {} /\ \A r \in Req : toks[r] = 0 /\ computed[r] \in Nat
    BY <2>2 DEF SysInv, IndInv, StepInv, TypeOK
  <2>5. waiting' \cup running' \cup Leased' \subseteq seen' /\ waiting' \cap owned' = {}
    BY <2>2 DEF SyncInv
  <2>6. ASSUME fault' = "none", NEW r \in running' \cap owned'
        PROVE  /\ rows'[r] \in resValid' /\ resGen'[rows'[r]] = gens'[r]
               /\ resTok'[rows'[r]] = r
               /\ resPos'[rows'[r]] = computed'[r] - toks'[r]
               /\ r \in planned' => resPos'[rows'[r]] = computed'[r] - 1
    <3>1. r \in running \cap owned /\ r \in Req
      BY <2>2, <2>6 DEF SyncInv, SysInv, IndInv, TypeOK
    <3>2. Held(r, computed[r])
      BY <2>2, <2>4, <3>1 DEF SyncInv, Before
    <3>3. rows'[r] = rows[r] /\ gens'[r] = gens[r]
      BY <2>3, <2>6, <3>1 DEF KeptLease
    <3>4. r \in planned' => toks'[r] = 1
      BY <2>6 DEF SysInv, IndInv, StepInv, Planned
    <3>5. rows'[r] \in resValid' /\ resGen'[rows'[r]] = gens'[r] /\ resTok'[rows'[r]] = r
          /\ resPos'[rows'[r]] = computed[r]
      BY <1>1, <3>2, <3>3 DEF Held, devVars, keptVars
    <3>6. computed'[r] - toks'[r] = computed[r]
      BY <2>2, <3>1
    <3>. QED  BY <3>4, <3>5, <3>6
  <2>. QED  BY <2>5, <2>6 DEF SyncInv, Held, Before
<1>. QED  BY <1>2, <1>3 DEF SysSchedule, ScheduleNext

(* A committed epoch moves the request's count to where its row waits. *)
LEMMA SyncUpdate ==
  ASSUME SysInv, SyncInv, SysUpdate
  PROVE  SyncInv'
<1>1. /\ UpdateFromOutput /\ fault = "none" /\ phase = "done"
      /\ UNCHANGED <<devVars, linkVars, ghostVars>>
  BY DEF SysUpdate, UpdateFromOutput
<1>2. ASSUME NEW f \in {"invalid-result", "missing-request", "over-advance"},
             UpdateFault(f)
      PROVE  SyncInv'
  <2>1. /\ UNCHANGED <<leaseVars, keptVars, seen, computed, toks, planned, running,
                       waiting, phase, wire>>
        /\ fault' # "none"
    BY <1>1, <1>2 DEF UpdateFault, clientVars, baseVars, stepVars, devVars, linkVars
  <2>. QED  BY <2>1, SyncSame
<1>3. CASE ValidResult /\ planned \subseteq running /\ Commit
  <2>1. /\ phase' = "idle" /\ planned' = {} /\ rows' = rows /\ gens' = gens
        /\ toks' = NoTokens /\ seen' = seen /\ waiting' = waiting
        /\ running' \subseteq running
        /\ owned' = IF res.route = "device" THEN owned \cup planned ELSE owned
        /\ computed' = [r \in Req |-> Advanced(r)]
    BY <1>3 DEF Commit, clientVars
  <2>2. Leased' = Leased /\ waiting \cap running = {}
    BY <2>1 DEF Leased, SysInv, IndInv, StepInv
  <2>3. waiting' \cup running' \cup Leased' \subseteq seen' /\ waiting' \cap owned' = {}
    BY <1>3, <2>1, <2>2 DEF SyncInv
  <2>4. ASSUME NEW r \in running' \cap owned'
        PROVE  Held(r, Advanced(r)) /\ r \in Req
    <3>1. /\ r \in running /\ r \in Req /\ computed[r] \in Nat /\ toks[r] \in Nat
          /\ res.got[r] \in Nat
      BY <2>1 DEF SysInv, IndInv, TypeOK
    <3>2. CASE r \in planned
      <4>1. res.route = "device"
        BY <1>1, <1>3, <2>1, <2>4, <3>2
        DEF SysInv, IndInv, StepInv, Answer, ValidResult, HostReplaySafe
      <4>2. Held(r, computed[r] - 1 + res.got[r]) /\ toks[r] = 1
        BY <1>1, <3>2, <4>1 DEF SysInv, DoneInv, IndInv, StepInv, Planned
      <4>3. Advanced(r) = computed[r] - 1 + res.got[r]
        BY <3>1, <3>2, <4>2 DEF Advanced
      <4>. QED  BY <3>1, <4>2, <4>3
    <3>3. CASE r \notin planned
      <4>1. planned = {} /\ r \in owned
        BY <1>1, <2>1, <2>4, <3>1, <3>3 DEF SysInv, PlanInv
      <4>2. toks[r] = 0
        BY <1>1, <4>1 DEF SysInv, IndInv, LeaseInv, HostBatch
      <4>3. Held(r, Before(r))
        BY <1>1, <3>1, <3>3, <4>1 DEF SyncInv
      <4>4. Advanced(r) = Before(r)
        BY <3>1, <3>3, <4>2 DEF Advanced, Before
      <4>. QED  BY <3>1, <4>3, <4>4
    <3>. QED  BY <3>2, <3>3
  <2>5. ASSUME NEW r \in running' \cap owned'
        PROVE  Held(r, Before(r))'
    <3>1. Held(r, Advanced(r)) /\ r \in Req
      BY <2>4
    <3>2. computed'[r] = Advanced(r) /\ toks'[r] = 0
      BY <2>1, <3>1 DEF NoTokens
    <3>3. computed'[r] \in Nat
      BY <1>1, <1>3, <3>1, <3>2, CommitFacts DEF SysInv
    <3>4. Before(r)' = Advanced(r)
      BY <3>2, <3>3 DEF Before
    <3>. QED  BY <1>1, <2>1, <3>1, <3>4 DEF Held, devVars, keptVars
  <2>. QED  BY <2>1, <2>3, <2>5 DEF SyncInv
<1>. QED  BY <1>1, <1>2, <1>3 DEF UpdateFromOutput

(* The steps of the worker, the bridge and the Device. *)
LEMMA SyncExecute ==
  ASSUME SysInv, SyncInv, SysStock \/ HostSide \/ SidecarSide
  PROVE  SyncInv'
<1>1. CASE SysStock
  <2>1. /\ phase' = "done"
        /\ UNCHANGED <<leaseVars, keptVars, seen, computed, toks, planned, running,
                       waiting, fault>>
    BY <1>1 DEF SysStock, ExecuteHost, clientVars, baseVars, devVars
  <2>. QED  BY <2>1, SyncSame
<1>2. CASE \/ LoadBackend \/ LoadBackendFails \/ LoadOrWarmUpFails
           \/ OutsideEnvelope \/ CaptureFails \/ Send
           \/ ReceiveCommitted \/ ReceivePrepared \/ ReceiveAmbiguous
           \/ ReceiveTimeout
  <2>. USE DEF schedVars, clientVars, baseVars, stepVars, devVars, linkVars
  <2>1. /\ UNCHANGED <<leaseVars, keptVars, seen, computed, toks, planned, running,
                       waiting>>
        /\ phase' \in {phase, "done"}
        /\ fault' = "none" => fault = "none"
    <3>1. CASE LoadBackend \/ Send
      BY <3>1 DEF LoadBackend, Send
    <3>2. CASE LoadBackendFails \/ ReceivePrepared
      BY <3>2 DEF LoadBackendFails, ReceivePrepared, ReplayOrDie, Die, HostReplay, Executing
    <3>3. CASE LoadOrWarmUpFails \/ OutsideEnvelope \/ CaptureFails
               \/ ReceiveAmbiguous \/ ReceiveTimeout
      BY <3>3 DEF LoadOrWarmUpFails, OutsideEnvelope, CaptureFails,
         ReceiveAmbiguous, ReceiveTimeout, Die, Executing
    <3>4. CASE ReceiveCommitted
      BY <3>4 DEF ReceiveCommitted, Die, Executing
    <3>. QED  BY <1>2, <3>1, <3>2, <3>3, <3>4
  <2>2. \/ wire' = wire \/ wire \in {"idle", "prepared"}
        \/ phase' = "done" \/ fault' # "none"
    BY <1>2 DEF LoadBackend, LoadBackendFails, LoadOrWarmUpFails,
       OutsideEnvelope, CaptureFails, Send, ReceiveCommitted, ReceivePrepared,
       ReceiveAmbiguous, ReceiveTimeout, Die
  <2>3. CASE fault' # "none"
    <3>1. Leased' = Leased
      BY <2>1 DEF Leased, leaseVars
    <3>. QED  BY <2>1, <2>3, <3>1 DEF SyncInv, leaseVars
  <2>4. CASE fault' = "none"
    BY <2>1, <2>2, <2>4, SyncSame
  <2>. QED  BY <2>3, <2>4
<1>3. CASE LoadAndWarmUp
  <2>1. /\ worker = "dedicated" /\ ~backend /\ UNCHANGED schedVars
    BY <1>3 DEF LoadAndWarmUp
  <2>2. owned = {} /\ Leased = {}
    BY <2>1 DEF SysInv, LinkInv, IndInv, LeaseInv, LeaseSafety
  <2>. QED
    BY <2>1, <2>2 DEF SyncInv, Leased, schedVars, clientVars, baseVars, leaseVars
<1>4. CASE BridgeRejects \/ Feed \/ FeedFails \/ Fetch \/ FetchFails \/ SidecarDies
  <2>1. /\ UNCHANGED <<schedVars, devVars>>
        /\ wire' \in {"idle", "request", "fed", "prepared"} =>
             wire \in {"idle", "request", "fed", "prepared"}
    BY <1>4 DEF BridgeRejects, Feed, FeedFails, Fetch, FetchFails, SidecarDies, Wire
  <2>2. UNCHANGED <<leaseVars, keptVars, seen, computed, toks, planned, running,
                    waiting, phase, fault>>
    BY <2>1 DEF schedVars, clientVars, baseVars, stepVars, devVars
  <2>. QED  BY <2>1, <2>2, SyncSame
<1>5. CASE DeviceRuns
  <2>1. wire = "fed" /\ wire' = "ran" /\ UNCHANGED schedVars
    BY <1>5 DEF DeviceRuns, Wire
  <2>2. planned # {}
    BY <2>1 DEF SysInv, LinkInv
  <2>3. fault = "none" => running \subseteq planned
    BY <2>2 DEF SysInv, PlanInv
  <2>. QED
    BY <2>1, <2>3 DEF SyncInv, Leased, schedVars, clientVars, baseVars, leaseVars, stepVars
<1>. QED  BY <1>1, <1>2, <1>3, <1>4, <1>5 DEF HostSide, SidecarSide

(* Every step keeps Host and Device in step. *)
LEMMA SyncNext ==
  ASSUME ~ReuseIds
  PROVE  SysInv /\ SysInv' /\ SyncInv /\ [SysNext]_sysVars => SyncInv'
<1>. SUFFICES ASSUME SysInv, SysInv', SyncInv, [SysNext]_sysVars PROVE SyncInv'
  OBVIOUS
<1>1. CASE \E r \in Req, s \in Shapes : SysAdd(r, s)
  BY <1>1, SyncAdd
<1>2. CASE \E r \in Req : SysClient(r)
  <2>1. /\ UNCHANGED <<leaseVars, keptVars, seen, computed, toks, planned, phase, fault,
                       wire>>
        /\ running' \subseteq running /\ waiting' \subseteq waiting
    BY <1>2 DEF SysClient, GrammarReady, AbortRequest, clientVars, stepVars, devVars, linkVars
  <2>. QED  BY <2>1, SyncSame
<1>3. CASE UNCHANGED sysVars
  <2>1. UNCHANGED <<leaseVars, keptVars, seen, computed, toks, planned, phase, fault,
                    wire, running, waiting>>
    BY <1>3 DEF sysVars, schedVars, clientVars, baseVars, stepVars, devVars, linkVars
  <2>. QED  BY <2>1, SyncSame
<1>. QED
  BY <1>1, <1>2, <1>3, SyncSchedule, SyncUpdate, SyncExecute DEF SysNext

(* Host and Device agree on every running Device-owned request before each *)
(* epoch, whatever was aborted, paused or replayed in between and whatever *)
(* failed (scheduler.py, _resident_epoch_device_owned;                     *)
(* g4c_b4_resident_epoch.cpp, resident_position_).                         *)
THEOREM DeviceAlwaysInSync ==
  ASSUME ~ReuseIds
  PROVE  SysSpec => []DeviceInSync
<1>1. SysInv /\ SyncInv => DeviceInSync
  <2>. SUFFICES ASSUME SysInv, SyncInv, fault = "none",
                       phase = "idle" \/ wire = "idle", phase # "done",
                       NEW r \in running \cap owned,
                       NEW last, last = IF phase = "exec" /\ toks[r] > 0
                                        THEN computed[r] - 1 ELSE computed[r]
                PROVE  /\ Held(r, last)
                       /\ \A p \in Dev!Positions :
                            p < resPos[rows[r]] => kv[rows[r]][p] = r
    BY DEF DeviceInSync, Held
  <2>1. /\ r \in Req /\ r \in Leased /\ computed[r] \in Nat /\ toks[r] \in Nat
        /\ phase \in {"idle", "exec"}
    BY DEF SysInv, IndInv, TypeOK, LeaseInv, LeaseSafety
  <2>2. CASE r \in planned
    <3>1. phase = "exec" /\ wire = "idle" /\ toks[r] = 1
      BY <2>1, <2>2 DEF SysInv, IndInv, StepInv, Planned
    <3>. QED  BY <2>1, <2>2, <3>1 DEF SyncInv, SysInv, KVInv, Held
  <2>3. CASE r \notin planned
    <3>1. planned = {}
      BY <2>3 DEF SysInv, PlanInv
    <3>2. toks[r] = 0
      BY <3>1 DEF SysInv, IndInv, LeaseInv, HostBatch
    <3>3. Held(r, Before(r)) /\ Before(r) = computed[r] /\ last = computed[r]
      BY <2>1, <2>3, <3>2 DEF SyncInv, Before
    <3>. QED  BY <2>1, <3>3 DEF SysInv, KVInv, Held
  <2>. QED  BY <2>2, <2>3
<1>2. SysInit => SyncInv
  BY SysInitInv
<1>. QED  BY <1>1, <1>2, AlwaysSysInv, SyncNext, PTL DEF SysSpec

-----------------------------------------------------------------------------
(***************************************************************************)
(* The dedicated worker                                                    *)
(***************************************************************************)

(* What is running and waiting was submitted, and there is a slot for all  *)
(* that runs.                                                              *)
SlotInv == waiting \cup running \subseteq seen /\ Cardinality(running) <= MaxRunning

(* On the dedicated worker a token comes from an epoch only, and only      *)
(* one-token prompts get there; a batch without a plan means that somebody *)
(* is outside the envelope.                                                *)
EnvelopeInv ==
  worker = "dedicated" =>
    /\ \A r \in Req : outs[r] > 0 \/ r \in planned => Prompt(r) = 1
    /\ fault = "none" /\ phase = "idle" => \A r \in running : outs[r] > 0
    /\ \/ fault = "outside-envelope"
       \/ fault = "none" /\ phase = "exec" /\ planned = {}
       => \E r \in seen : ~InEnvelope(r)

(* Before the first request nobody is outside the envelope. *)
LEMMA EnvelopeInit == SysInit => SlotInv /\ EnvelopeInv
<1>. SUFFICES ASSUME SysInit PROVE SlotInv /\ EnvelopeInv
  OBVIOUS
<1>1. SlotInv
  BY FS_EmptySet, SchedulerAssumption DEF SysInit, Init, SlotInv
<1>2. \A r \in Req : outs[r] = 0
  BY DEF SysInit, Init, NoTokens
<1>. QED  BY <1>1, <1>2 DEF SysInit, Init, EnvelopeInv

(* Steps that neither plan a batch nor commit one. *)
LEMMA EnvelopeSame ==
  ASSUME SysInv, SlotInv, EnvelopeInv,
         UNCHANGED <<worker, shape, seen, outs, planned>>,
         running' \subseteq running, waiting' \subseteq waiting,
         phase' \in {phase, "done"},
         \/ fault' = fault
         \/ fault' \notin {"none", "outside-envelope"}
         \/ fault = "none" /\ phase = "exec" /\ planned = {} /\ fault' # "none"
  PROVE  SlotInv' /\ EnvelopeInv'
<1>1. Cardinality(running') <= MaxRunning
  BY FewerRunning DEF SysInv, SlotInv
<1>2. SlotInv'
  BY <1>1 DEF SlotInv
<1>3. EnvelopeInv'
  BY DEF EnvelopeInv, Prompt, InEnvelope
<1>. QED  BY <1>2, <1>3

(* A request that arrives has been given nothing. *)
LEMMA EnvelopeAdd ==
  ASSUME SysInv, SlotInv, EnvelopeInv, NEW r \in Req, NEW s \in Shapes, SysAdd(r, s)
  PROVE  SlotInv' /\ EnvelopeInv'
<1>1. /\ seen' = seen \cup {r} /\ waiting' = waiting \cup {r} /\ running' = running
      /\ shape' = [shape EXCEPT ![r] = s] /\ outs' = [outs EXCEPT ![r] = 0]
      /\ fault = "none" /\ phase = "idle" /\ r \notin running
      /\ fault' = "none" /\ phase' = "idle" /\ planned' = planned /\ worker' = worker
  BY DEF SysAdd, AddRequest, stepVars, linkVars, deployVars
<1>2. SlotInv'
  BY <1>1 DEF SlotInv
<1>3. planned = {} /\ running \subseteq Req
  BY <1>1 DEF SysInv, IndInv, StepInv, TypeOK
<1>4. \A q \in Req : /\ q # r => outs'[q] = outs[q] /\ shape'[q] = shape[q]
                     /\ q = r => outs'[q] = 0
  BY <1>1 DEF SysInv, IndInv, TypeOK
<1>. QED  BY <1>1, <1>2, <1>3, <1>4 DEF EnvelopeInv, Prompt

(* When every request is in the envelope, schedule() plans for them all    *)
(* (scheduler.py, _make_resident_epoch_plan).                              *)
LEMMA EnvelopePlanned ==
  ASSUME SysInv, SlotInv, EnvelopeInv, MaxRunning <= MaxBatch, worker = "dedicated",
         NEW adm \in SUBSET (waiting \ held), NEW chunk \in Chunks,
         Schedule(adm, chunk), \A r \in seen : InEnvelope(r), fault' = "none"
  PROVE  planned' # {}
<1>. DEFINE S == (running \ Paused) \cup adm
<1>1. /\ fault = "none" /\ phase = "idle" /\ running' = running \cup adm
      /\ Admissible(adm) /\ BaseSchedule(S, adm, chunk) /\ S # {}
      /\ \/ ~PlanCandidate(S) /\ UNCHANGED leaseVars /\ HostStep(S)
         \/ PlanCandidate(S) /\ MakePlan(S)
  BY DEF Schedule, BaseSchedule
<1>2. /\ running \subseteq Req /\ waiting \subseteq Req
      /\ \A r \in running \cup waiting :
           /\ Prompt(r) = 1 /\ shape[r].eligible /\ shape[r].max <= Capacity
      /\ \A r \in running : outs[r] > 0
  BY <1>1 DEF SlotInv, EnvelopeInv, InEnvelope, SysInv, IndInv, TypeOK
<1>3. ~HostIsolation
  <2>1. ASSUME NEW r \in running PROVE ~(computed[r] < Prompt(r))
    <3>1. Settled(r) /\ outs[r] \in Nat /\ computed[r] \in Nat /\ r \in Req
      BY <1>1, <1>2 DEF SysInv, IndInv, StepInv, TypeOK
    <3>2. computed[r] = (1 + outs[r]) - 1
      BY <1>2, <3>1 DEF Settled, NumTokens
    <3>. QED  BY <1>2, <3>1, <3>2
  <2>2. \A r \in waiting : ~(Prompt(r) > 1)
    BY <1>2
  <2>. QED  BY <1>2, <2>1, <2>2 DEF HostIsolation, HostRunning
<1>4. S = running \cup adm
  BY <1>3 DEF Paused
<1>. HIDE DEF S
<1>5. /\ IsFiniteSet(S) /\ Cardinality(S) <= MaxRunning
  BY <1>1, <1>4, Slots DEF SysInv, SlotInv
<1>6. \A r \in S : /\ r \in Req /\ Prompt(r) = 1 /\ shape[r].eligible
                   /\ shape[r].max <= Capacity
                   /\ toks'[r] = 1 /\ computed'[r] = NumTokens(r)
                   /\ Remaining(r) >= 1 /\ Remaining(r) \in Nat /\ outs[r] \in Nat
  <2>. SUFFICES ASSUME NEW r \in S
                PROVE  /\ r \in Req /\ Prompt(r) = 1 /\ shape[r].eligible
                       /\ shape[r].max <= Capacity
                       /\ toks'[r] = 1 /\ computed'[r] = NumTokens(r)
                       /\ Remaining(r) >= 1 /\ Remaining(r) \in Nat /\ outs[r] \in Nat
    OBVIOUS
  <2>1. /\ S \in SUBSET (running \cup adm) /\ r \in running \cup waiting
        /\ r \in adm => Prompt(r) = 1
        /\ r \in running => outs[r] > 0 \/ computed[r] >= Prompt(r)
    BY <1>2, <1>4
  <2>2. /\ toks'[r] = 1 /\ computed'[r] = NumTokens(r)
        /\ Remaining(r) >= 1 /\ Remaining(r) \in Nat /\ outs[r] \in Nat
    BY <1>1, <2>1, OneToken DEF SysInv
  <2>. QED  BY <1>2, <2>1, <2>2
<1>7. PlanCandidate(S)
  <2>1. Cardinality(S) \in Nat /\ MaxRunning \in Nat /\ MaxBatch \in Nat
    BY <1>5, FS_CardinalityType, SchedulerAssumption
  <2>2. Cardinality(S) <= MaxBatch
    BY <1>5, <2>1
  <2>. QED  BY <1>1, <1>4, <1>6, <2>2 DEF PlanCandidate
<1>8. \A r \in S : ~RequestRejected(r)
  <2>1. Capacity \in Nat /\ Capacity >= 1
    BY SchedulerAssumption DEF EpochLadder
  <2>2. \A r \in S : ~(Prompt(r) > 1) /\ ~(Prompt(r) > Capacity) /\ ~(Remaining(r) < 1)
    BY <1>6, <2>1
  <2>. QED  BY <1>6, <2>2 DEF RequestRejected
<1>9. ASSUME NEW k \in EpochLadder, EpochSteps(k, S) PROVE ~OverCapacity(S, k)
  <2>. SUFFICES ASSUME NEW r \in S PROVE ~((computed'[r] - 1) + k > Capacity)
    BY DEF OverCapacity
  <2>1. k <= Remaining(r) /\ k \in Nat
    BY <1>9 DEF EpochSteps, EpochFits, EpochLadder
  <2>2. /\ computed'[r] = 1 + outs[r] /\ Remaining(r) = shape[r].max - outs[r]
        /\ outs[r] \in Nat /\ shape[r].max <= Capacity
    BY <1>6 DEF NumTokens, Remaining
  <2>3. shape[r].max \in Nat /\ Capacity \in Nat
    BY <1>6, SchedulerAssumption DEF SysInv, IndInv, TypeOK, ShapeType
  <2>. QED  BY <2>1, <2>2, <2>3
<1>10. MakePlan(S)
  BY <1>1, <1>7
<1>11. ~(AllocatorExhausted(S) \/ GenerationsExhausted(S))
  BY <1>10 DEF MakePlan, Raise
<1>12. \E k \in EpochLadder : DeviceEpoch(S, k)
  BY <1>8, <1>9, <1>10, <1>11 DEF MakePlan
<1>. QED  BY <1>1, <1>12 DEF DeviceEpoch

(* schedule() on the dedicated worker. *)
LEMMA EnvelopeSchedule ==
  ASSUME SysInv, SlotInv, EnvelopeInv, MaxRunning <= MaxBatch, SysSchedule
  PROVE  SlotInv' /\ EnvelopeInv'
<1>1. worker' = worker
  BY DEF SysSchedule, linkVars, deployVars
<1>2. CASE ScheduleIsolatedEmpty
  <2>1. /\ UNCHANGED <<shape, seen, outs, planned, running, waiting, phase>>
        /\ fault' = "isolated-lane-empty"
    BY <1>2 DEF ScheduleIsolatedEmpty, clientVars, baseVars, stepVars
  <2>. QED  BY <1>1, <2>1, EnvelopeSame
<1>3. CASE \E adm \in SUBSET (waiting \ held), chunk \in Chunks :
             Schedule(adm, chunk)
  <2>1. PICK adm \in SUBSET (waiting \ held), chunk \in Chunks : Schedule(adm, chunk)
    BY <1>3
  <2>2. /\ fault = "none" /\ phase = "idle" /\ phase' \in {"idle", "exec"}
        /\ outs' = outs /\ shape' = shape /\ seen' = seen
        /\ running' = running \cup adm /\ waiting' = waiting \ adm
    BY <2>1, ScheduleEffects DEF SysInv
  <2>3. Admissible(adm)
    BY <2>1 DEF Schedule
  <2>4. SlotInv'
    BY <2>2, <2>3, Slots DEF SysInv, SlotInv
  <2>5. \A r \in planned' : ~(Prompt(r) > 1 /\ outs[r] = 0)
    BY <2>1, PlanMade DEF SysInv
  <2>6. IndInv' /\ fault' # "outside-envelope" /\ (phase' = "idle" => fault' # "none")
    <3>. DEFINE S == (running \ Paused) \cup adm
    <3>1. RaisedEnd \/ HostEnd(S) \/ PlanEnd(S)
      BY <2>1, ScheduleFacts DEF SysInv
    <3>. QED
      BY <2>1, <3>1, ScheduleInd DEF SysInv, RaisedEnd, HostEnd, PlanEnd
  <2>7. ASSUME worker = "dedicated"
        PROVE  \A r \in Req : outs[r] > 0 \/ r \in planned' => Prompt(r) = 1
    <3>1. \A r \in Req : Prompt(r) \in Nat \ {0} /\ outs[r] \in Nat
      BY DEF SysInv, IndInv, TypeOK, ShapeType, Prompt
    <3>2. \A r \in Req : outs[r] > 0 => Prompt(r) = 1
      BY <2>7 DEF EnvelopeInv
    <3>. QED  BY <2>5, <3>1, <3>2
  <2>8. ASSUME worker = "dedicated", fault' = "none", planned' = {}
        PROVE  \E r \in seen : ~InEnvelope(r)
    BY <2>1, <2>8, EnvelopePlanned
  <2>9. \A r \in Req : Prompt(r)' = Prompt(r) /\ InEnvelope(r)' = InEnvelope(r)
    BY <2>2 DEF Prompt, InEnvelope
  <2>10. seen \subseteq Req
    BY DEF SysInv, IndInv, TypeOK
  <2>11. EnvelopeInv'
    BY <1>1, <2>2, <2>6, <2>7, <2>8, <2>9, <2>10 DEF EnvelopeInv
  <2>. QED  BY <2>4, <2>11
<1>. QED  BY <1>2, <1>3 DEF SysSchedule, ScheduleNext

(* A commit on the dedicated worker is that of an epoch. *)
LEMMA EnvelopeUpdate ==
  ASSUME SysInv, SlotInv, EnvelopeInv, SysUpdate
  PROVE  SlotInv' /\ EnvelopeInv'
<1>1. /\ UpdateFromOutput /\ fault = "none" /\ phase = "done" /\ worker' = worker
  BY DEF SysUpdate, UpdateFromOutput, linkVars, deployVars
<1>2. ASSUME NEW f \in {"invalid-result", "missing-request", "over-advance"},
             UpdateFault(f)
      PROVE  SlotInv' /\ EnvelopeInv'
  <2>1. /\ UNCHANGED <<shape, seen, outs, planned, running, waiting, phase>>
        /\ fault' \notin {"none", "outside-envelope"}
    BY <1>2 DEF UpdateFault, clientVars, baseVars, stepVars
  <2>. QED  BY <1>1, <2>1, EnvelopeSame
<1>3. CASE ValidResult /\ planned \subseteq running /\ Commit
  <2>1. /\ phase' = "idle" /\ planned' = {} /\ fault' = fault
        /\ seen' = seen /\ shape' = shape /\ waiting' = waiting
        /\ running' \subseteq running
        /\ outs' = [r \in Req |-> IF r \in Scheduled \cap running
                                  THEN outs[r] + Appended(r) ELSE outs[r]]
    BY <1>3 DEF Commit, clientVars
  <2>2. SlotInv'
    BY <2>1, FewerRunning DEF SysInv, SlotInv
  <2>3. ASSUME worker = "dedicated"
        PROVE  /\ planned = Scheduled /\ running \subseteq planned
               /\ \A r \in Req \ planned : outs'[r] = outs[r]
               /\ \A r \in planned : Prompt(r) = 1 /\ outs'[r] > 0
    <3>1. res.route = "device" /\ planned # {}
      BY <1>1, <2>3 DEF SysInv, LinkInv, IndInv, StepInv, Answer
    <3>2. planned = Scheduled /\ running \subseteq planned /\ planned \subseteq Req
      BY <1>1, <3>1 DEF SysInv, IndInv, StepInv, PlanInv, TypeOK
    <3>3. \A r \in planned : /\ Appended(r) >= 1 /\ outs[r] \in Nat
                             /\ outs[r] + Appended(r) \in Nat
      BY <1>1, <1>3, <3>2, PlannedAppends, CommitFacts DEF SysInv, IndInv, TypeOK
    <3>4. \A r \in planned : Appended(r) \in Int
      BY <3>2 DEF Appended, Min2, Remaining, SysInv, IndInv, TypeOK, ShapeType
    <3>5. \A r \in planned : outs'[r] > 0
      BY <1>3, <2>1, <3>2, <3>3, <3>4
    <3>6. \A r \in planned : Prompt(r) = 1
      BY <2>3, <3>2 DEF EnvelopeInv
    <3>. QED  BY <2>1, <3>2, <3>5, <3>6
  <2>4. \A r \in Req : Prompt(r)' = Prompt(r)
    BY <2>1 DEF Prompt
  <2>5. running \subseteq Req
    BY DEF SysInv, IndInv, TypeOK
  <2>6. EnvelopeInv'
    BY <1>1, <2>1, <2>3, <2>4, <2>5 DEF EnvelopeInv
  <2>. QED  BY <2>2, <2>6
<1>. QED  BY <1>1, <1>2, <1>3 DEF UpdateFromOutput

(* Every step keeps the dedicated worker within its envelope. *)
LEMMA EnvelopeNext ==
  ASSUME MaxRunning <= MaxBatch
  PROVE  SysInv /\ SlotInv /\ EnvelopeInv /\ [SysNext]_sysVars =>
           SlotInv' /\ EnvelopeInv'
<1>. SUFFICES ASSUME SysInv, SlotInv, EnvelopeInv, [SysNext]_sysVars
              PROVE  SlotInv' /\ EnvelopeInv'
  OBVIOUS
<1>. USE DEF linkVars, deployVars
<1>1. CASE \E r \in Req, s \in Shapes : SysAdd(r, s)
  BY <1>1, EnvelopeAdd
<1>2. CASE \E r \in Req : SysClient(r)
  <2>1. /\ UNCHANGED <<worker, shape, seen, outs, planned, phase, fault>>
        /\ running' \subseteq running /\ waiting' \subseteq waiting
    BY <1>2 DEF SysClient, GrammarReady, AbortRequest, clientVars, stepVars
  <2>. QED  BY <2>1, EnvelopeSame
<1>3. CASE SysStock
  <2>1. /\ UNCHANGED <<worker, shape, seen, outs, planned, running, waiting, fault>>
        /\ phase' = "done"
    BY <1>3 DEF SysStock, ExecuteHost, clientVars, baseVars
  <2>. QED  BY <2>1, EnvelopeSame
<1>4. CASE HostSide
  <2>. USE DEF schedVars, clientVars, baseVars, stepVars
  <2>1. UNCHANGED <<worker, shape, seen, outs, planned, running, waiting>>
    <3>1. CASE LoadBackend \/ Send \/ LoadAndWarmUp
      BY <3>1 DEF LoadBackend, Send, LoadAndWarmUp
    <3>2. CASE LoadBackendFails \/ ReceivePrepared
      BY <3>2 DEF LoadBackendFails, ReceivePrepared, ReplayOrDie, Die, HostReplay
    <3>3. CASE \/ LoadOrWarmUpFails \/ OutsideEnvelope \/ CaptureFails
               \/ ReceiveAmbiguous \/ ReceiveTimeout \/ ReceiveCommitted
      BY <3>3 DEF LoadOrWarmUpFails, OutsideEnvelope, CaptureFails,
         ReceiveAmbiguous, ReceiveTimeout, ReceiveCommitted, Die
    <3>. QED  BY <1>4, <3>1, <3>2, <3>3 DEF HostSide
  <2>2. /\ phase' \in {phase, "done"}
        /\ \/ fault' = fault
           \/ fault' \notin {"none", "outside-envelope"}
           \/ fault = "none" /\ phase = "exec" /\ planned = {} /\ fault' # "none"
    <3>1. CASE LoadBackend \/ Send \/ LoadAndWarmUp
      BY <3>1 DEF LoadBackend, Send, LoadAndWarmUp
    <3>2. CASE LoadBackendFails \/ ReceivePrepared
      BY <3>2 DEF LoadBackendFails, ReceivePrepared, ReplayOrDie, Die, HostReplay
    <3>3. CASE OutsideEnvelope
      BY <3>3 DEF OutsideEnvelope, Die
    <3>4. CASE \/ LoadOrWarmUpFails \/ CaptureFails
               \/ ReceiveAmbiguous \/ ReceiveTimeout
      BY <3>4 DEF LoadOrWarmUpFails, CaptureFails, ReceiveAmbiguous, ReceiveTimeout, Die
    <3>5. CASE ReceiveCommitted
      BY <3>5 DEF ReceiveCommitted, Die
    <3>. QED  BY <1>4, <3>1, <3>2, <3>3, <3>4, <3>5 DEF HostSide
  <2>. QED  BY <2>1, <2>2, EnvelopeSame
<1>5. CASE SidecarSide \/ UNCHANGED sysVars
  <2>1. UNCHANGED <<worker, shape, seen, outs, planned, running, waiting, phase, fault>>
    BY <1>5 DEF SidecarSide, BridgeRejects, Feed, FeedFails, DeviceRuns, Fetch,
       FetchFails, SidecarDies, Wire, sysVars, schedVars, clientVars, baseVars, stepVars
  <2>. QED  BY <2>1, EnvelopeSame
<1>. QED
  BY <1>1, <1>2, <1>3, <1>4, <1>5, EnvelopeSchedule, EnvelopeUpdate DEF SysNext

(* worker.py: no plan that needs an import reaches the dedicated worker,   *)
(* and it ends "outside the native support envelope" only when a request   *)
(* it was given is outside it, for any number of requests as long as no    *)
(* more of them run at once than the resident graph has rows.              *)
THEOREM DedicatedAlwaysServes ==
  ASSUME MaxRunning <= MaxBatch
  PROVE  SysSpec => []DedicatedServesEnvelope
<1>1. SysInv /\ EnvelopeInv => DedicatedServesEnvelope
  <2>. SUFFICES ASSUME SysInv, EnvelopeInv, worker = "dedicated"
                PROVE  /\ Importing = {}
                       /\ fault = "outside-envelope" => \E r \in seen : ~InEnvelope(r)
    BY DEF DedicatedServesEnvelope
  <2>1. \A r \in planned : r \in Req /\ Prompt(r) = 1
    BY DEF SysInv, IndInv, TypeOK, EnvelopeInv
  <2>2. Importing = {}
    BY <2>1 DEF Importing, ImportRequired
  <2>. QED  BY <2>2 DEF EnvelopeInv
<1>2. SysInit => SlotInv /\ EnvelopeInv
  BY EnvelopeInit
<1>. QED  BY <1>1, <1>2, AlwaysSysInv, EnvelopeNext, PTL DEF SysSpec

-----------------------------------------------------------------------------
(***************************************************************************)
(* The decode path implements DecodeService.                               *)
(***************************************************************************)

(* A step in which no client and no commit takes part is none of the       *)
(* service.                                                                *)
LEMMA ServiceStutter ==
  ASSUME SysInv, SysInv', UNCHANGED <<shape, outs>>,
         waiting' \cup running' = waiting \cup running
  PROVE  UNCHANGED Service!serviceVars
<1>1. bad = {} /\ bad' = {}
  BY DEF SysInv, OutputsRight
<1>2. [r \in Req |-> shape[r].max]' = [r \in Req |-> shape[r].max]
  OBVIOUS
<1>. QED  BY <1>1, <1>2 DEF Service!serviceVars

(* add_request is a Submit. *)
LEMMA ServiceSubmit ==
  ASSUME SysInv, SysInv', NEW r \in Req, NEW s \in Shapes, SysAdd(r, s)
  PROVE  Service!Submit(r)
<1>1. /\ r \notin waiting \cup running /\ shape' = [shape EXCEPT ![r] = s]
      /\ waiting' = waiting \cup {r} /\ running' = running
      /\ outs' = [outs EXCEPT ![r] = 0]
  BY DEF SysAdd, AddRequest
<1>2. bad = {} /\ bad' = {}
  BY DEF SysInv, OutputsRight
<1>3. s.max \in Nat \ {0}
  BY SchedulerAssumption DEF ShapeType
<1>4. shape'[r] = s /\ \A q \in Req \ {r} : shape'[q] = shape[q]
  BY <1>1 DEF SysInv, IndInv, TypeOK
<1>5. /\ [q \in Req |-> shape'[q].max][r] > 0
      /\ \A q \in Req \ {r} : [p \in Req |-> shape'[p].max][q]
                                = [p \in Req |-> shape[p].max][q]
  BY <1>3, <1>4
<1>6. waiting' \cup running' = (waiting \cup running) \cup {r}
  BY <1>1
<1>. QED  BY <1>1, <1>2, <1>5, <1>6 DEF Service!Submit

(* How much a commit gives to a request (scheduler.py, update_from_output).*)
LEMMA Delivery ==
  ASSUME SysInv, fault = "none", phase = "done", ValidResult, NEW r \in running
  PROVE  /\ Appended(r) \in 0 .. MaxSteps /\ Appended(r) <= Remaining(r)
         /\ Remaining(r) \in Nat /\ outs[r] \in Nat /\ shape[r].max \in Nat
         /\ r \in Scheduled /\ Finishes(r) => Appended(r) > 0
<1>1. /\ r \in Req /\ outs[r] \in Nat /\ shape[r].max \in Nat
      /\ res.got[r] \in Nat /\ res.eos[r] \in Nat /\ steps \in Nat
      /\ MaxSteps \in Nat /\ MaxSteps >= 1
  BY SchedulerAssumption DEF SysInv, IndInv, TypeOK, ShapeType, EpochLadder
<1>2. outs[r] < shape[r].max
  BY DEF SysInv, IndInv, StepInv, Settled, InStep
<1>3. Remaining(r) \in Nat \ {0}
  BY <1>1, <1>2 DEF Remaining
<1>4. res.eos[r] <= res.got[r] /\ res.got[r] <= MaxSteps
  <2>1. CASE r \in planned
    <3>1. /\ res.got[r] \in 1 .. steps /\ steps \in 1 .. MaxSteps
          /\ res.eos[r] <= res.got[r]
      BY <2>1 DEF ValidResult, SysInv, PlanInv, IndInv, StepInv, Answer
    <3>. QED  BY <1>1, <3>1
  <2>2. CASE r \notin planned /\ planned # {}
    BY <1>1, <2>2 DEF SysInv, IndInv, StepInv, Answer
  <2>3. CASE planned = {}
    <3>1. res.got[r] = StockTokens[r] /\ res.eos[r] <= res.got[r]
      BY <1>1, <2>3 DEF SysInv, IndInv, StepInv, Answer
    <3>2. StockTokens[r] \in {0, 1}
      BY <1>1 DEF StockTokens
    <3>. QED  BY <1>1, <3>1, <3>2
  <2>. QED  BY <2>1, <2>2, <2>3
<1>. DEFINE n == IF res.eos[r] = 0 THEN res.got[r] ELSE res.eos[r]
<1>5. n \in Nat /\ n <= MaxSteps /\ (res.got[r] > 0 => n > 0)
  BY <1>1, <1>4
<1>6. Appended(r) = IF n <= Remaining(r) THEN n ELSE Remaining(r)
  BY DEF Appended, Min2
<1>. HIDE DEF n
<1>7. /\ Appended(r) \in 0 .. MaxSteps /\ Appended(r) <= Remaining(r)
      /\ res.got[r] > 0 => Appended(r) > 0
  BY <1>1, <1>3, <1>5, <1>6
<1>. QED  BY <1>1, <1>3, <1>7 DEF Finishes

(* A commit is a Deliver. *)
LEMMA ServiceDeliver ==
  ASSUME SysInv, SysInv', fault = "none", phase = "done", ValidResult, Commit
  PROVE  Service!Deliver
<1>1. /\ phase' = "idle" /\ fault' = "none" /\ shape' = shape /\ waiting' = waiting
      /\ toks' = NoTokens
      /\ running' = running \ {r \in Scheduled : Finishes(r)}
      /\ outs' = [r \in Req |-> IF r \in Scheduled \cap running
                                THEN outs[r] + Appended(r) ELSE outs[r]]
  BY DEF Commit, clientVars
<1>2. bad = {} /\ bad' = {} /\ running \subseteq Req /\ waiting \subseteq Req
      /\ waiting \cap running = {}
  BY DEF SysInv, OutputsRight, IndInv, TypeOK, StepInv
<1>3. [r \in Req |-> shape[r].max]' = [r \in Req |-> shape[r].max]
  BY <1>1
<1>4. ASSUME NEW r \in Req, outs'[r] # outs[r]
      PROVE  /\ r \in waiting \cup running
             /\ outs'[r] \in outs[r] + 1 .. outs[r] + MaxSteps
             /\ outs'[r] <= [q \in Req |-> shape[q].max][r]
  <2>1. r \in Scheduled \cap running /\ outs'[r] = outs[r] + Appended(r)
    BY <1>1, <1>4
  <2>2. /\ Appended(r) \in 0 .. MaxSteps /\ Appended(r) <= Remaining(r)
        /\ Remaining(r) \in Nat /\ outs[r] \in Nat /\ shape[r].max \in Nat
    BY <2>1, Delivery
  <2>3. Remaining(r) = shape[r].max - outs[r] /\ MaxSteps \in Nat
    BY SchedulerAssumption DEF Remaining, EpochLadder
  <2>. QED  BY <1>4, <2>1, <2>2, <2>3
<1>5. ASSUME NEW r \in (waiting \cup running) \ (waiting' \cup running')
      PROVE  outs'[r] > outs[r]
  <2>1. r \in running /\ r \in Scheduled /\ Finishes(r) /\ r \in Req
    BY <1>1, <1>2
  <2>2. Appended(r) > 0 /\ outs[r] \in Nat /\ Appended(r) \in 0 .. MaxSteps
    BY <2>1, Delivery
  <2>3. outs'[r] = outs[r] + Appended(r)
    BY <1>1, <2>1
  <2>. QED  BY <2>2, <2>3, SchedulerAssumption DEF EpochLadder
<1>6. ASSUME NEW r \in waiting' \cup running'
      PROVE  outs'[r] < [q \in Req |-> shape[q].max][r]
  <2>1. r \in Req
    BY <1>1, <1>2
  <2>2. CASE r \in running'
    <3>1. Settled(r)'
      BY <1>1, <2>1, <2>2 DEF SysInv, IndInv, StepInv, NoTokens
    <3>. QED  BY <1>1, <2>1, <3>1 DEF Settled
  <2>3. CASE r \in waiting'
    <3>1. Fresh(r)' /\ shape[r].max \in Nat \ {0}
      BY <1>1, <2>1, <2>3 DEF SysInv, IndInv, StepInv, TypeOK, ShapeType
    <3>. QED  BY <1>1, <2>1, <3>1 DEF Fresh
  <2>. QED  BY <2>2, <2>3
<1>7. waiting' \cup running' \subseteq waiting \cup running
  BY <1>1
<1>. QED  BY <1>2, <1>3, <1>4, <1>5, <1>6, <1>7 DEF Service!Deliver

(* Every step of the decode path is a step of the service or none. *)
LEMMA ServiceStep ==
  SysInv /\ SysInv' /\ [SysNext]_sysVars =>
    [Service!ServiceNext]_Service!serviceVars
<1>. SUFFICES ASSUME SysInv, SysInv', [SysNext]_sysVars
              PROVE  Service!ServiceNext \/ UNCHANGED Service!serviceVars
  OBVIOUS
<1>1. ASSUME NEW r \in Req, NEW s \in Shapes, SysAdd(r, s) PROVE Service!ServiceNext
  BY <1>1, ServiceSubmit DEF Service!ServiceNext
<1>2. ASSUME NEW r \in Req, GrammarReady(r) PROVE UNCHANGED Service!serviceVars
  BY <1>2, ServiceStutter DEF GrammarReady, clientVars
<1>3. ASSUME NEW r \in Req, AbortRequest(r) PROVE Service!ServiceNext
  <2>1. /\ r \in waiting \cup running /\ UNCHANGED <<shape, outs>>
        /\ waiting' \cup running' = (waiting \cup running) \ {r}
    BY <1>3 DEF AbortRequest, clientVars
  <2>2. bad = {} /\ bad' = {}
    BY DEF SysInv, OutputsRight
  <2>3. [q \in Req |-> shape[q].max]' = [q \in Req |-> shape[q].max]
    BY <2>1
  <2>4. Service!Cancel(r)
    BY <2>1, <2>2, <2>3 DEF Service!Cancel
  <2>. QED  BY <2>4 DEF Service!ServiceNext
<1>4. CASE SysSchedule
  <2>1. CASE ScheduleIsolatedEmpty
    BY <2>1, ServiceStutter DEF ScheduleIsolatedEmpty, clientVars, baseVars
  <2>2. ASSUME NEW adm \in SUBSET (waiting \ held), NEW chunk \in Chunks,
               Schedule(adm, chunk)
        PROVE  UNCHANGED Service!serviceVars
    <3>1. /\ UNCHANGED <<shape, outs>> /\ waiting' = waiting \ adm
          /\ running' = running \cup adm
      BY <2>2 DEF Schedule, BaseSchedule, clientVars
    <3>2. waiting' \cup running' = waiting \cup running
      BY <3>1
    <3>. QED  BY <3>1, <3>2, ServiceStutter
  <2>. QED  BY <1>4, <2>1, <2>2 DEF SysSchedule, ScheduleNext
<1>5. CASE SysUpdate
  <2>1. UpdateFromOutput /\ fault = "none" /\ phase = "done"
    BY <1>5 DEF SysUpdate, UpdateFromOutput
  <2>2. ASSUME NEW f, UpdateFault(f) PROVE UNCHANGED Service!serviceVars
    BY <2>2, ServiceStutter DEF UpdateFault, clientVars, baseVars
  <2>3. CASE ValidResult /\ Commit
    BY <2>1, <2>3, ServiceDeliver DEF Service!ServiceNext
  <2>. QED  BY <2>1, <2>2, <2>3 DEF UpdateFromOutput
<1>6. CASE SysStock
  BY <1>6, ServiceStutter DEF SysStock, ExecuteHost, clientVars, baseVars
<1>7. CASE HostSide
  <2>. USE DEF schedVars, clientVars, baseVars
  <2>1. UNCHANGED <<shape, outs, running, waiting>>
    <3>1. CASE LoadBackend \/ Send \/ LoadAndWarmUp
      BY <3>1 DEF LoadBackend, Send, LoadAndWarmUp
    <3>2. CASE LoadBackendFails \/ ReceivePrepared
      BY <3>2 DEF LoadBackendFails, ReceivePrepared, ReplayOrDie, Die, HostReplay
    <3>3. CASE \/ LoadOrWarmUpFails \/ OutsideEnvelope \/ CaptureFails
               \/ ReceiveAmbiguous \/ ReceiveTimeout \/ ReceiveCommitted
      BY <3>3 DEF LoadOrWarmUpFails, OutsideEnvelope, CaptureFails,
         ReceiveAmbiguous, ReceiveTimeout, ReceiveCommitted, Die
    <3>. QED  BY <1>7, <3>1, <3>2, <3>3 DEF HostSide
  <2>. QED  BY <2>1, ServiceStutter
<1>8. CASE SidecarSide \/ UNCHANGED sysVars
  <2>1. UNCHANGED <<shape, outs, running, waiting>>
    BY <1>8 DEF SidecarSide, BridgeRejects, Feed, FeedFails, DeviceRuns, Fetch,
       FetchFails, SidecarDies, Wire, sysVars, schedVars, clientVars, baseVars
  <2>. QED  BY <2>1, ServiceStutter
<1>. QED
  BY <1>1, <1>2, <1>3, <1>4, <1>5, <1>6, <1>7, <1>8 DEF SysNext, SysClient

(* README_EN.md, the decoding of the stock path at epoch speed: behind     *)
(* rows, leases, lanes, imports, replays and failures the decode path only *)
(* ever does what DecodeService allows.                                    *)
THEOREM SystemImplementsService == SysSpec => ImplementsService
<1>1. SysInit => Service!ServiceInit
  <2>. SUFFICES ASSUME SysInit PROVE Service!ServiceInit
    OBVIOUS
  <2>1. IndInv
    BY InitInd DEF SysInit
  <2>2. [r \in Req |-> shape[r].max] \in [Req -> Nat]
    BY <2>1 DEF IndInv, TypeOK, ShapeType
  <2>. QED  BY <2>2 DEF SysInit, Init, NoTokens, Service!ServiceInit
<1>. QED
  BY <1>1, AlwaysSysInv, ServiceStep, PTL
  DEF SysSpec, ImplementsService, Service!ServiceSpec

-----------------------------------------------------------------------------
(***************************************************************************)
(* Without failures the engine survives.                                   *)
(***************************************************************************)

(* Nothing fails, aborts are processed between steps, requests fit, no     *)
(* grammar is compiled, generations last for all requests, and a one-token *)
(* prompt is not sent to a worker that may decode it on the Host first.    *)
NoFailures ==
  /\ ~Faulty /\ ~MidStepAbort /\ RequestsFit
  /\ \A s \in Shapes : ~s.grammar
  /\ Cardinality(Req) + 1 < GenLimit
  /\ \/ \A s \in Shapes : s.eligible => s.prompt > 1
     \/ \A d \in Deployments : d[1] = "dedicated"

(* Who may still be given a generation: one each is enough. *)
Unleased == Req \ (seen \ (waiting \cup (running \ Leased)))
BudgetInv == nextGen + Cardinality(Unleased) <= Cardinality(Req) + 1

(* Who there is, and what the link can be doing. *)
CalmDeployment ==
  /\ shape \in [Req -> Shapes] /\ held = {}
  /\ worker = "plugin" => \A s \in Shapes : s.eligible => s.prompt > 1
  /\ backend => sidecar
  /\ wire \in {"idle", "request", "fed", "ran", "committed"}

(* A plan is for running requests and fits their rows, and on the          *)
(* dedicated worker whoever has been given a token is owned by the Device. *)
CalmPlan ==
  fault = "none" =>
    /\ planned \subseteq running
    /\ \A r \in planned : computed[r] - 1 + steps <= Capacity
    /\ worker = "dedicated" => \A r \in running : outs[r] > 0 => r \in owned

(* No generation of a lease is on the Device before the lease's first      *)
(* epoch.                                                                  *)
CalmRows ==
  /\ \A x \in Row : resGen[x] < nextGen \/ resGen[x] = GenLimit - 1
  /\ (/\ fault = "none" /\ (phase = "done" => res.route = "host")
      /\ wire \in {"idle", "request", "fed"}) => Untouched

(* Every epoch goes well, and its result is valid. *)
CalmResult ==
  fault = "none" =>
    /\ wire \in {"ran", "committed"} =>
         /\ reply.status = 0
         /\ \A r \in planned : reply.got[rows[r]] < steps => rows[r] \in reply.eos
    /\ phase = "done" => ValidResult /\ res.route # "host_fallback"

CalmInv ==
  /\ LaneInv /\ BudgetInv /\ CalmDeployment /\ CalmPlan /\ CalmRows /\ CalmResult
  /\ EngineSurvives

-----------------------------------------------------------------------------
(* No request is in need of a second generation. *)
LEMMA BudgetSame ==
  ASSUME IndInv, BudgetInv, nextGen' = nextGen, Unleased' \subseteq Unleased
  PROVE  BudgetInv'
<1>1. IsFiniteSet(Unleased)
  BY FS_Subset, SchedulerAssumption DEF Unleased
<1>2. /\ Cardinality(Unleased') <= Cardinality(Unleased)
      /\ Cardinality(Unleased') \in Nat /\ Cardinality(Unleased) \in Nat
  BY <1>1, FS_Subset, FS_CardinalityType
<1>3. nextGen \in Nat /\ Cardinality(Req) \in Nat
  BY FS_CardinalityType, SchedulerAssumption DEF IndInv, TypeOK
<1>. QED  BY <1>2, <1>3 DEF BudgetInv

(* The engine and the Device before the first request. *)
LEMMA CalmInit ==
  ASSUME NoFailures, SysInit
  PROVE  CalmInv
<1>. USE DEF SysInit, Init
<1>1. LaneInv
  BY InitLane
<1>2. Leased = {}
  BY DEF Leased
<1>3. BudgetInv
  <2>1. Unleased = Req
    BY DEF Unleased
  <2>2. Cardinality(Req) \in Nat
    BY FS_CardinalityType, SchedulerAssumption
  <2>. QED  BY <2>1, <2>2 DEF BudgetInv
<1>4. CalmDeployment
  <2>1. shape \in [Req -> Shapes]
    <3>1. (CHOOSE s \in Shapes : TRUE) \in Shapes
      BY SchedulerAssumption
    <3>. QED  BY <3>1
  <2>. QED  BY <2>1 DEF CalmDeployment, NoFailures
<1>5. CalmPlan /\ CalmResult
  BY DEF CalmPlan, CalmResult
<1>6. CalmRows
  BY <1>2 DEF CalmRows, Untouched, Dev!DeviceInit
<1>. QED  BY <1>1, <1>3, <1>4, <1>5, <1>6 DEF CalmInv, EngineSurvives

(* A step of the link, in which neither the scheduler nor the Device moves. *)
LEMMA CalmLink ==
  ASSUME CalmInv, UNCHANGED <<schedVars, devVars, deployVars>>,
         backend' => sidecar',
         wire' \in {"idle", "request", "fed", "ran", "committed"},
         wire' \in {"idle", "request", "fed"} => wire \in {"idle", "request", "fed"},
         wire' \in {"ran", "committed"} => wire \in {"ran", "committed"}
  PROVE  CalmInv'
<1>. USE DEF schedVars, clientVars, baseVars, leaseVars, stepVars, devVars, keptVars,
         deployVars
<1>1. LaneInv'
  BY SameLanes DEF CalmInv, LaneInv, NeverRefuses
<1>2. Leased' = Leased /\ Untouched' = Untouched
  BY DEF Leased, Untouched
<1>3. BudgetInv'
  BY <1>2 DEF CalmInv, BudgetInv, Unleased
<1>4. CalmDeployment' /\ CalmPlan'
  BY DEF CalmInv, CalmDeployment, CalmPlan
<1>5. CalmRows'
  BY <1>2 DEF CalmInv, CalmRows
<1>6. CalmResult'
  BY DEF CalmInv, CalmResult, ValidResult, HostReplaySafe
<1>. QED  BY <1>1, <1>3, <1>4, <1>5, <1>6 DEF CalmInv, EngineSurvives

(* The dedicated worker gives up. *)
LEMMA CalmEnd ==
  ASSUME CalmInv, EngineSurvives', fault' # "none",
         UNCHANGED <<clientVars, baseVars, leaseVars, stepVars, devVars, linkVars>>,
         fault = "none"
  PROVE  CalmInv'
<1>. USE DEF clientVars, baseVars, leaseVars, stepVars, devVars, keptVars, linkVars,
         deployVars
<1>1. LaneInv'
  <2>1. NeverRefuses'
    BY DEF EngineSurvives, NeverRefuses
  <2>. QED  BY <2>1, SameLanes DEF CalmInv
<1>2. Leased' = Leased
  BY DEF Leased
<1>3. BudgetInv'
  BY <1>2 DEF CalmInv, BudgetInv, Unleased
<1>4. CalmDeployment' /\ CalmPlan' /\ CalmRows' /\ CalmResult'
  BY DEF CalmInv, CalmDeployment, CalmPlan, CalmRows, CalmResult
<1>. QED  BY <1>1, <1>3, <1>4 DEF CalmInv

(* A request that arrives is new and has no grammar to wait for. *)
LEMMA CalmAdd ==
  ASSUME NoFailures, SysInv, CalmInv, NEW r \in Req, NEW s \in Shapes, SysAdd(r, s)
  PROVE  CalmInv'
<1>1. /\ AddRequest(r, s) /\ fault = "none" /\ phase = "idle" /\ r \notin seen
      /\ shape' = [shape EXCEPT ![r] = s] /\ seen' = seen \cup {r}
      /\ waiting' = waiting \cup {r} /\ running' = running
      /\ outs' = [outs EXCEPT ![r] = 0]
      /\ r \notin running
      /\ UNCHANGED <<leaseVars, stepVars, fault, devVars, linkVars>>
  BY DEF SysAdd, AddRequest, NoFailures, RequestsFit
<1>. USE <1>1 DEF leaseVars, stepVars, devVars, keptVars, linkVars, deployVars
<1>2. LaneInv'
  BY AddRequestLane DEF SysInv, CalmInv, NoFailures
<1>3. Leased' = Leased /\ Untouched' = Untouched
  BY DEF Leased, Untouched
<1>4. BudgetInv'
  <2>1. Unleased' \subseteq Unleased
    BY <1>3 DEF Unleased
  <2>. QED  BY <2>1, BudgetSame DEF SysInv, CalmInv
<1>5. CalmDeployment'
  <2>1. held' = {}
    BY DEF AddRequest, NoFailures, CalmInv, CalmDeployment
  <2>. QED  BY <2>1 DEF CalmInv, CalmDeployment
<1>6. CalmPlan'
  <2>1. planned = {} /\ \A q \in running : outs'[q] = outs[q]
    BY DEF SysInv, IndInv, StepInv, TypeOK
  <2>. QED  BY <2>1 DEF CalmInv, CalmPlan
<1>7. CalmRows'
  BY <1>3 DEF CalmInv, CalmRows
<1>8. CalmResult'
  <2>1. wire = "idle"
    BY DEF SysInv, LinkInv
  <2>. QED  BY <2>1 DEF CalmResult
<1>. QED  BY <1>2, <1>4, <1>5, <1>6, <1>7, <1>8 DEF CalmInv, EngineSurvives

(* Aborts are processed between steps, when there is no plan. *)
LEMMA CalmAbort ==
  ASSUME NoFailures, SysInv, CalmInv, NEW r \in Req, SysClient(r)
  PROVE  CalmInv'
<1>1. AbortRequest(r) /\ UNCHANGED <<devVars, linkVars, ghostVars>>
  BY DEF SysClient, GrammarReady, CalmInv, CalmDeployment
<1>2. /\ fault = "none" /\ phase = "idle"
      /\ waiting' \subseteq waiting /\ running' \subseteq running /\ held' \subseteq held
      /\ UNCHANGED <<clientVars, outs, computed, leaseVars, stepVars, fault>>
  BY <1>1 DEF AbortRequest, NoFailures
<1>. USE <1>1, <1>2 DEF clientVars, leaseVars, stepVars, devVars, keptVars, linkVars,
         deployVars
<1>3. LaneInv'
  BY AbortRequestLane DEF SysInv, CalmInv
<1>4. Leased' = Leased /\ Untouched' = Untouched
  BY DEF Leased, Untouched
<1>5. BudgetInv'
  <2>1. Unleased' \subseteq Unleased
    BY <1>4 DEF Unleased
  <2>. QED  BY <2>1, BudgetSame DEF SysInv, CalmInv
<1>6. CalmDeployment' /\ CalmRows'
  BY <1>4 DEF CalmInv, CalmDeployment, CalmRows
<1>7. CalmPlan' /\ CalmResult'
  <2>1. planned = {} /\ wire = "idle"
    BY DEF SysInv, IndInv, StepInv, LinkInv
  <2>. QED  BY <2>1 DEF CalmInv, CalmPlan, CalmResult
<1>. QED  BY <1>3, <1>5, <1>6, <1>7 DEF CalmInv, EngineSurvives

-----------------------------------------------------------------------------
(* An isolated lane has somebody to schedule: it was opened for a waiting  *)
(* request, there is a slot, and no grammar holds the request back         *)
(* (scheduler.py, _schedule_with_host_isolation).                          *)
LEMMA NeverIsolatedEmpty ==
  ASSUME IndInv, held = {}, ScheduleIsolatedEmpty
  PROVE  FALSE
<1>1. Cardinality(running) < MaxRunning /\ waiting # {}
  BY DEF ScheduleIsolatedEmpty, HostIsolation
<1>2. /\ IsFiniteSet(waiting) /\ IsFiniteSet(running) /\ IsFiniteSet({})
      /\ Cardinality({}) = 0
  BY FS_Subset, FS_EmptySet, SchedulerAssumption DEF IndInv, TypeOK
<1>3. /\ Cardinality(waiting) \in Nat /\ Cardinality(running) \in Nat
      /\ Cardinality(waiting) # 0 /\ MaxRunning \in Nat
  BY <1>1, <1>2, FS_CardinalityType, FS_EmptySet, SchedulerAssumption
<1>4. waiting \ held = waiting
  OBVIOUS
<1>5. 0 = Min2(MaxRunning - Cardinality(running), Cardinality(waiting))
  BY <1>2, <1>4 DEF ScheduleIsolatedEmpty, Admissible
<1>. QED  BY <1>1, <1>3, <1>5 DEF Min2

(* The new leases of a batch are for requests that never had one. *)
LEMMA BudgetNew ==
  ASSUME IndInv, SlotInv, BudgetInv, NEW adm \in SUBSET (waiting \ held),
         NEW S, S = running \cup adm
  PROVE  /\ New(S) \subseteq Unleased /\ IsFiniteSet(Unleased)
         /\ nextGen + Cardinality(New(S)) <= Cardinality(Req) + 1
         /\ nextGen \in Nat /\ Cardinality(New(S)) \in Nat
         /\ Cardinality(Req) \in Nat /\ Cardinality(Unleased) \in Nat
<1>1. New(S) \subseteq Unleased
  BY DEF New, Unleased, Leased, IndInv, TypeOK
<1>2. IsFiniteSet(Unleased)
  BY FS_Subset, SchedulerAssumption DEF Unleased
<1>3. /\ Cardinality(New(S)) <= Cardinality(Unleased)
      /\ Cardinality(New(S)) \in Nat /\ Cardinality(Unleased) \in Nat
  BY <1>1, <1>2, FS_Subset, FS_CardinalityType
<1>4. nextGen \in Nat /\ Cardinality(Req) \in Nat
  BY FS_CardinalityType, SchedulerAssumption DEF IndInv, TypeOK
<1>. QED  BY <1>1, <1>2, <1>3, <1>4 DEF BudgetInv

(* schedule() does not run out of generations and does not refuse. *)
LEMMA CalmScheduleEnds ==
  ASSUME NoFailures, IndInv, IndInv', SlotInv, BudgetInv, LaneInv',
         NEW adm \in SUBSET (waiting \ held), NEW chunk \in Chunks,
         Schedule(adm, chunk)
  PROVE  /\ fault' = "none" /\ phase' = "exec" /\ BudgetInv'
         /\ \A r \in planned' : computed'[r] - 1 + steps' <= Capacity
<1>. DEFINE S == (running \ Paused) \cup adm
<1>1. /\ running' = running \cup adm /\ waiting' = waiting \ adm /\ seen' = seen
      /\ \/ ~PlanCandidate(S) /\ UNCHANGED leaseVars /\ HostStep(S)
         \/ PlanCandidate(S) /\ MakePlan(S)
  BY DEF Schedule, BaseSchedule, clientVars
<1>2. ASSUME HostStep(S) PROVE fault' = "none" /\ phase' = "exec" /\ planned' = {}
  BY <1>2 DEF HostStep, Raise, LaneInv, NeverRefuses
<1>3. CASE ~PlanCandidate(S) /\ UNCHANGED leaseVars /\ HostStep(S)
  <2>1. Leased' = Leased /\ nextGen' = nextGen
    BY <1>3 DEF Leased, leaseVars
  <2>2. Unleased' \subseteq Unleased
    BY <1>1, <2>1 DEF Unleased
  <2>. QED  BY <1>2, <1>3, <2>1, <2>2, BudgetSame
<1>4. CASE PlanCandidate(S) /\ MakePlan(S)
  <2>1. S = running \cup adm /\ S \in SUBSET Req
    BY <1>1, <1>4 DEF PlanCandidate, IndInv, TypeOK
  <2>2. /\ New(S) \subseteq Unleased /\ IsFiniteSet(Unleased)
        /\ nextGen + Cardinality(New(S)) <= Cardinality(Req) + 1
        /\ nextGen \in Nat /\ Cardinality(New(S)) \in Nat
        /\ Cardinality(Req) \in Nat /\ Cardinality(Unleased) \in Nat
    BY <2>1, BudgetNew
  <2>. HIDE DEF S
  <2>3. ~GenerationsExhausted(S)
    <3>1. GenLimit \in Nat /\ Cardinality(Req) + 1 < GenLimit
      BY SchedulerAssumption DEF NoFailures
    <3>. QED  BY <2>2, <3>1 DEF GenerationsExhausted
  <2>4. ~AllocatorExhausted(S)
    BY <1>4, <2>1, AllocatorNeverExhausted DEF PlanCandidate, IndInv
  <2>5. PICK f \in RowChoices(S) : AssignResidentRows(S, f)
    BY <1>4, <2>3, <2>4 DEF MakePlan
  <2>6. /\ Leased' = S /\ nextGen' = nextGen + Cardinality(New(S))
    BY <2>1, <2>2, <2>5, AssignFacts DEF IndInv, LeaseInv, AssignResidentRows
  <2>7. BudgetInv'
    <3>1. Unleased' \subseteq Unleased \ New(S)
      <4>1. waiting' \cap running' = {} /\ running' = S /\ waiting' \subseteq waiting
        BY <1>1, <2>1 DEF IndInv, StepInv
      <4>2. running \cup waiting \subseteq seen
        BY DEF SlotInv
      <4>3. S \subseteq seen
        BY <2>1, <4>2
      <4>. QED  BY <1>1, <2>6, <4>1, <4>3 DEF Unleased, New
    <3>2. /\ IsFiniteSet(Unleased \ New(S)) /\ IsFiniteSet(New(S))
          /\ Cardinality(Unleased \ New(S)) = Cardinality(Unleased) - Cardinality(New(S))
      <4>1. IsFiniteSet(New(S)) /\ Unleased \cap New(S) = New(S)
        BY <2>2, FS_Subset
      <4>2. /\ IsFiniteSet(Unleased \ New(S))
            /\ Cardinality(Unleased \ New(S)) =
                 Cardinality(Unleased) - Cardinality(Unleased \cap New(S))
        BY <2>2, FS_Difference
      <4>. QED  BY <4>1, <4>2
    <3>3. /\ Cardinality(Unleased') <= Cardinality(Unleased \ New(S))
          /\ Cardinality(Unleased') \in Nat
      BY <3>1, <3>2, FS_Subset, FS_CardinalityType
    <3>. QED  BY <2>2, <2>6, <3>2, <3>3 DEF BudgetInv
  <2>8. CASE HostStep(S)
    BY <1>2, <2>7, <2>8 DEF S
  <2>9. CASE ~HostStep(S)
    <3>1. PICK k \in EpochLadder : ~OverCapacity(S, k) /\ DeviceEpoch(S, k)
      BY <1>4, <2>3, <2>4, <2>9 DEF MakePlan
    <3>2. \A r \in S : computed'[r] - 1 + k <= Capacity
      <4>1. \A r \in S : ~(computed'[r] - 1 + k > Capacity)
        BY <3>1 DEF OverCapacity
      <4>2. \A r \in S : computed'[r] \in Nat
        BY <2>1 DEF IndInv, TypeOK
      <4>3. k \in Nat /\ Capacity \in Nat
        BY SchedulerAssumption DEF EpochLadder
      <4>. QED  BY <4>1, <4>2, <4>3
    <3>. QED  BY <2>7, <3>1, <3>2 DEF DeviceEpoch
  <2>. QED  BY <2>8, <2>9
<1>. QED  BY <1>1, <1>3, <1>4

(* schedule() hands out generations the Device has not seen, the one of    *)
(* the warm-up included, and a plan fits the rows of its requests.         *)
LEMMA CalmSchedule ==
  ASSUME NoFailures, SysInv, SysInv', SlotInv, CalmInv, SysSchedule
  PROVE  CalmInv'
<1>0. UNCHANGED <<devVars, linkVars, ghostVars>>
  BY DEF SysSchedule
<1>1. ~ScheduleIsolatedEmpty
  BY NeverIsolatedEmpty DEF SysInv, CalmInv, CalmDeployment
<1>2. PICK adm \in SUBSET (waiting \ held), chunk \in Chunks : Schedule(adm, chunk)
  BY <1>1 DEF SysSchedule, ScheduleNext
<1>3. /\ fault = "none" /\ phase = "idle" /\ res' = res /\ outs' = outs /\ shape' = shape
      /\ owned' \subseteq owned /\ nextGen' >= nextGen
      /\ \A r \in Leased' : \/ r \in Leased /\ rows'[r] = rows[r] /\ gens'[r] = gens[r]
                            \/ r \notin Leased /\ gens'[r] >= nextGen
      /\ \A r \in Leased' \cap owned : r \in owned'
      /\ running' = running \cup adm /\ waiting' = waiting \ adm
      /\ \A r \in running' : r \in Leased => r \in Leased'
  BY <1>2, ScheduleEffects DEF SysInv
<1>4. LaneInv'
  BY <1>2, ScheduleLane DEF SysInv, CalmInv, NoFailures
<1>5. /\ fault' = "none" /\ phase' = "exec" /\ BudgetInv'
      /\ \A r \in planned' : computed'[r] - 1 + steps' <= Capacity
  BY <1>2, <1>4, CalmScheduleEnds DEF SysInv, CalmInv
<1>6. /\ wire = "idle" /\ wire' = "idle"
      /\ UNCHANGED <<resGen, worker, engine, backend, sidecar>>
  BY <1>0, <1>3 DEF SysInv, LinkInv, devVars, keptVars, linkVars, deployVars
<1>7. CalmDeployment'
  <2>1. held' = held
    BY <1>2 DEF Schedule, BaseSchedule
  <2>. QED  BY <1>3, <1>6, <2>1 DEF CalmInv, CalmDeployment
<1>8. CalmPlan'
  <2>1. planned' \subseteq running'
    BY <1>2, PlanMade DEF SysInv
  <2>2. ASSUME worker = "dedicated", NEW r \in running', outs[r] > 0
        PROVE  r \in owned'
    <3>1. r \notin adm
      BY <1>3, <2>2 DEF SysInv, IndInv, StepInv, Fresh
    <3>2. r \in owned
      BY <1>3, <2>2, <3>1 DEF CalmInv, CalmPlan
    <3>3. r \in Leased
      BY <3>2 DEF SysInv, IndInv, LeaseInv, LeaseSafety
    <3>. QED  BY <1>3, <3>2, <3>3
  <2>. QED  BY <1>3, <1>5, <1>6, <2>1, <2>2 DEF CalmPlan
<1>9. /\ nextGen \in Nat /\ nextGen' \in Nat /\ resGen \in [Row -> Nat]
      /\ GenLimit \in Nat
  BY SchedulerAssumption DEF SysInv, SysTypeOK, TypeOK, Dev!DeviceTypeOK
<1>10. CalmRows'
  <2>1. \A x \in Row : resGen[x] < nextGen' \/ resGen[x] = GenLimit - 1
    BY <1>3, <1>9 DEF CalmInv, CalmRows
  <2>2. nextGen' < GenLimit
    <3>1. /\ Cardinality(Unleased') \in Nat /\ Cardinality(Req) \in Nat
          /\ Cardinality(Req) + 1 < GenLimit
      BY FS_Subset, FS_CardinalityType, SchedulerAssumption DEF NoFailures, Unleased
    <3>2. nextGen' + Cardinality(Unleased') <= Cardinality(Req) + 1
      BY <1>5 DEF BudgetInv
    <3>. QED  BY <1>9, <3>1, <3>2
  <2>3. Untouched
    BY <1>3, <1>6 DEF CalmInv, CalmRows
  <2>4. ASSUME NEW r \in Leased', r \notin owned' PROVE resGen[rows'[r]] # gens'[r]
    <3>1. rows'[r] \in Row /\ gens'[r] \in Nat /\ gens'[r] < nextGen'
      BY <1>9 DEF SysInv, IndInv, TypeOK, Leased, LeaseInv, LeaseSafety
    <3>2. CASE r \in Leased /\ rows'[r] = rows[r] /\ gens'[r] = gens[r]
      BY <1>3, <2>3, <2>4, <3>2 DEF Untouched
    <3>3. CASE r \notin Leased /\ gens'[r] >= nextGen
      <4>1. resGen[rows'[r]] < nextGen \/ resGen[rows'[r]] = GenLimit - 1
        BY <3>1 DEF CalmInv, CalmRows
      <4>. QED  BY <1>9, <2>2, <3>1, <3>3, <4>1
    <3>. QED  BY <1>3, <3>2, <3>3
  <2>5. Untouched'
    BY <1>6, <2>4 DEF Untouched
  <2>. QED  BY <1>6, <2>1, <2>5 DEF CalmRows
<1>11. CalmResult'
  BY <1>5, <1>6 DEF CalmResult
<1>. QED
  BY <1>4, <1>5, <1>7, <1>8, <1>10, <1>11 DEF CalmInv, EngineSurvives

(* A stock step: there is no plan to validate. *)
LEMMA CalmStock ==
  ASSUME SysInv, CalmInv, SysStock
  PROVE  CalmInv'
<1>1. /\ fault = "none" /\ phase = "exec" /\ planned = {} /\ phase' = "done"
      /\ res'.route = "host"
      /\ UNCHANGED <<clientVars, baseVars, leaseVars, toks, planned, steps, fault,
                     devVars, linkVars>>
  BY DEF SysStock, ExecuteHost
<1>. USE <1>1 DEF clientVars, baseVars, leaseVars, devVars, keptVars, linkVars, deployVars
<1>2. wire = "idle"
  BY DEF SysInv, LinkInv
<1>3. LaneInv'
  BY SameLanes DEF CalmInv, LaneInv, NeverRefuses
<1>4. Leased' = Leased /\ Untouched' = Untouched
  BY DEF Leased, Untouched
<1>5. BudgetInv'
  BY <1>4 DEF CalmInv, BudgetInv, Unleased
<1>6. CalmDeployment' /\ CalmPlan' /\ CalmRows'
  BY <1>2, <1>4 DEF CalmInv, CalmDeployment, CalmPlan, CalmRows
<1>7. CalmResult'
  BY <1>2 DEF CalmResult, ValidResult
<1>. QED  BY <1>3, <1>5, <1>6, <1>7 DEF CalmInv, EngineSurvives

(* update_from_output() has a valid result for requests that are there. *)
LEMMA CalmUpdate ==
  ASSUME SysInv, SysInv', CalmInv, SysUpdate
  PROVE  CalmInv'
<1>1. /\ fault = "none" /\ phase = "done"
      /\ UNCHANGED <<devVars, linkVars, ghostVars>>
  BY DEF SysUpdate, UpdateFromOutput
<1>2. ValidResult /\ res.route # "host_fallback" /\ planned \subseteq running
  BY <1>1 DEF CalmInv, CalmResult, CalmPlan
<1>3. Commit
  <2>1. ~OverAdvanced
    <3>1. ASSUME OverAdvanced PROVE fault' = "over-advance"
      BY <1>2, <3>1 DEF SysUpdate, UpdateFromOutput, UpdateFault
    <3>. QED  BY <3>1 DEF SysInv, IndInv, SanityChecksHold
  <2>. QED  BY <1>2, <2>1 DEF SysUpdate, UpdateFromOutput
<1>4. LaneInv'
  BY <1>1, <1>2, <1>3, CommitLane DEF SysInv, CalmInv
<1>5. /\ phase' = "idle" /\ planned' = {} /\ rows' = rows /\ gens' = gens
      /\ nextGen' = nextGen /\ fault' = fault /\ seen' = seen /\ shape' = shape
      /\ waiting' = waiting /\ held' = held /\ running' \subseteq running
      /\ owned' = IF res.route = "device" THEN owned \cup planned ELSE owned
  BY <1>3 DEF Commit, clientVars
<1>6. /\ wire = "idle" /\ wire' = "idle"
      /\ UNCHANGED <<resGen, worker, engine, backend, sidecar>>
  BY <1>1 DEF SysInv, LinkInv, devVars, keptVars, linkVars, deployVars
<1>7. Leased' = Leased
  BY <1>5 DEF Leased
<1>8. BudgetInv'
  <2>1. Unleased' \subseteq Unleased
    BY <1>5, <1>7 DEF Unleased
  <2>. QED  BY <1>5, <2>1, BudgetSame DEF SysInv, CalmInv
<1>9. CalmDeployment'
  BY <1>5, <1>6 DEF CalmInv, CalmDeployment
<1>10. /\ res.route \in {"device", "host"}
       /\ res.route = "device" => planned # {}
       /\ res.route = "host" => planned = {}
  BY <1>1, <1>2 DEF SysInv, IndInv, StepInv, Answer
<1>11. CalmPlan'
  <2>1. worker = "dedicated" => running \subseteq owned'
    BY <1>1, <1>5, <1>10 DEF SysInv, LinkInv, PlanInv
  <2>. QED  BY <1>5, <1>6, <2>1 DEF CalmPlan
<1>12. CalmRows'
  <2>1. CASE res.route = "device"
    <3>1. Leased' \subseteq owned'
      BY <1>5, <1>7, <1>10, <2>1 DEF SysInv, PlanInv
    <3>. QED  BY <1>5, <1>6, <3>1 DEF CalmInv, CalmRows, Untouched
  <2>2. CASE res.route = "host"
    <3>1. Untouched /\ owned' = owned
      BY <1>1, <1>5, <1>6, <2>2 DEF CalmInv, CalmRows
    <3>. QED  BY <1>5, <1>6, <1>7, <3>1 DEF CalmInv, CalmRows, Untouched
  <2>. QED  BY <1>10, <2>1, <2>2
<1>13. CalmResult'
  BY <1>5, <1>6 DEF CalmResult
<1>. QED
  BY <1>1, <1>4, <1>5, <1>8, <1>9, <1>11, <1>12, <1>13 DEF CalmInv, EngineSurvives

-----------------------------------------------------------------------------
(* The Device accepts what it is fed: the lengths are within its limits,   *)
(* and every row continues where it stopped, is imported or starts at      *)
(* position zero (g4c_b4_resident_epoch.cpp, Proc).                        *)
LEMMA FedAccepted ==
  ASSUME SysInv, SyncInv, EnvelopeInv, CalmInv, fault = "none", wire = "fed",
         NEW i, Fed(i)
  PROVE  ~Dev!InvalidMetadata(i) /\ Dev!Continuous(i)
<1>1. phase = "exec" /\ planned # {}
  BY DEF SysInv, LinkInv
<1>2. /\ i.active = {rows[r] : r \in planned} /\ i.import = {rows[r] : r \in Imports}
      /\ i.steps = steps
      /\ \A r \in planned :
           /\ rows[r] \in Row /\ i.gen[rows[r]] = gens[r] /\ i.tok[rows[r]] = r
           /\ i.pos[rows[r]] = computed[r] - 1
  BY DEF Fed
<1>3. ~Dev!InvalidMetadata(i)
  <2>1. steps \in 1 .. 8
    BY <1>1, SchedulerAssumption DEF SysInv, PlanInv, EpochLadder
  <2>2. \A r \in planned : /\ gens[r] # 0 /\ computed[r] \in Nat /\ Capacity \in Nat
                           /\ computed[r] - 1 + steps <= Capacity
    BY SchedulerAssumption
    DEF SysInv, IndInv, LeaseInv, LeaseSafety, TypeOK, CalmInv, CalmPlan
  <2>3. \A r \in planned : ~(computed[r] - 1 + steps > Capacity)
    BY <2>1, <2>2
  <2>. QED  BY <1>2, <2>1, <2>2, <2>3 DEF Dev!InvalidMetadata
<1>4. ASSUME NEW r \in planned, rows[r] \notin i.import
      PROVE  IF resGen[rows[r]] = gens[r]
             THEN rows[r] \in resValid /\ resTok[rows[r]] = r
                    /\ resPos[rows[r]] = computed[r] - 1
             ELSE computed[r] - 1 = 0
  <2>1. r \in running /\ r \in Req /\ r \in Leased
    BY DEF CalmInv, CalmPlan, SysInv, IndInv, TypeOK, LeaseInv
  <2>2. CASE r \in owned
    <3>1. Held(r, computed[r] - 1)
      BY <1>1, <2>1, <2>2 DEF SyncInv
    <3>. QED  BY <3>1 DEF Held
  <2>3. CASE r \notin owned
    <3>1. resGen[rows[r]] # gens[r]
      BY <1>1, <2>1, <2>3 DEF CalmInv, CalmRows, Untouched
    <3>2. CASE worker = "plugin"
      <4>1. shape[r] \in Shapes /\ shape[r].eligible
        BY <2>1 DEF CalmInv, CalmDeployment, LaneInv
      <4>2. Prompt(r) > 1
        BY <3>2, <4>1 DEF CalmInv, CalmDeployment, Prompt
      <4>3. r \in Imports
        BY <2>3, <3>2, <4>2 DEF Imports, Importing, ImportRequired
      <4>. QED  BY <1>2, <1>4, <4>3
    <3>3. CASE worker = "dedicated"
      <4>1. ~(outs[r] > 0) /\ outs[r] \in Nat
        BY <2>1, <2>3, <3>3 DEF CalmInv, CalmPlan, SysInv, IndInv, TypeOK
      <4>2. Prompt(r) = 1
        BY <2>1, <3>3 DEF EnvelopeInv
      <4>3. computed[r] = 1
        BY <4>1, <4>2 DEF SysInv, IndInv, StepInv, Planned, NumTokens
      <4>. QED  BY <3>1, <4>3
    <3>. QED  BY <3>2, <3>3 DEF SysInv, SysTypeOK
  <2>. QED  BY <2>2, <2>3
<1>5. Dev!Continuous(i)
  BY <1>2, <1>4 DEF Dev!Continuous, Dev!Continues
<1>. QED  BY <1>3, <1>5

(* So an epoch goes well. *)
LEMMA CalmDevice ==
  ASSUME NoFailures, SysInv, SyncInv, EnvelopeInv, CalmInv, DeviceRuns
  PROVE  CalmInv'
<1>1. /\ wire = "fed" /\ wire' = "ran" /\ Dev!Proc(EpochInput, Faulty)
      /\ UNCHANGED <<schedVars, deployVars, backend, sidecar, ghostVars>>
  BY DEF DeviceRuns, Wire
<1>2. phase = "exec" /\ planned # {}
  BY <1>1 DEF SysInv, LinkInv
<1>3. PICK i : i = EpochInput
  OBVIOUS
<1>4. Fed(i) /\ Dev!Proc(i, Faulty)
  BY <1>1, <1>2, <1>3, InputIsFed
<1>. USE DEF schedVars, clientVars, baseVars, leaseVars, stepVars, deployVars
<1>5. LaneInv'
  BY <1>1, SameLanes DEF CalmInv, LaneInv, NeverRefuses
<1>6. Leased' = Leased
  BY <1>1 DEF Leased
<1>7. BudgetInv' /\ CalmDeployment' /\ CalmPlan'
  BY <1>1, <1>6 DEF CalmInv, BudgetInv, Unleased, CalmDeployment, CalmPlan
<1>8. CalmRows'
  <2>1. \A r \in planned : gens[r] < nextGen
    BY DEF SysInv, IndInv, LeaseInv, LeaseSafety, TypeOK
  <2>2. \A x \in i.active : i.gen[x] < nextGen
    BY <1>4, <2>1 DEF Fed
  <2>3. \A x \in Row : resGen'[x] = resGen[x] \/ resGen'[x] < nextGen
    BY <1>2, <1>4, <2>2, FedGenerations
  <2>. QED  BY <1>1, <2>3 DEF CalmInv, CalmRows
<1>9. CalmResult'
  <2>. SUFFICES ASSUME fault = "none"
                PROVE  /\ reply'.status = 0
                       /\ \A r \in planned :
                            reply'.got[rows[r]] < steps => rows[r] \in reply'.eos
    BY <1>1, <1>2 DEF CalmResult
  <2>1. ~Dev!InvalidMetadata(i) /\ Dev!Continuous(i)
    BY <1>1, <1>4, FedAccepted
  <2>2. PICK n \in [i.active -> 1 .. i.steps], E \in SUBSET i.active : Dev!ProcOk(i, n, E)
    BY <1>4, <2>1 DEF NoFailures, Dev!Proc, Dev!ProcInvalid, Dev!ProcDiscontinuous
  <2>3. /\ reply'.status = 0 /\ reply'.eos = E
        /\ \A x \in Row : reply'.got[x] = IF x \in i.active THEN n[x] ELSE 0
        /\ \A x \in i.active : n[x] < i.steps => x \in E
    BY <2>2 DEF Dev!ProcOk
  <2>4. i.steps = steps /\ \A r \in planned : rows[r] \in Row /\ rows[r] \in i.active
    BY <1>4 DEF Fed
  <2>. QED  BY <2>3, <2>4
<1>. QED  BY <1>1, <1>5, <1>7, <1>8, <1>9 DEF CalmInv, EngineSurvives

(* The warm-up comes before the first lease. *)
LEMMA CalmWarmUp ==
  ASSUME SysInv, CalmInv, LoadAndWarmUp
  PROVE  CalmInv'
<1>1. /\ worker = "dedicated" /\ fault = "none" /\ ~backend
      /\ backend' = TRUE /\ sidecar' = TRUE
      /\ UNCHANGED <<schedVars, deployVars, wire, ghostVars>>
  BY DEF LoadAndWarmUp
<1>2. phase = "idle" /\ Leased = {} /\ wire = "idle"
  BY <1>1 DEF SysInv, LinkInv
<1>. USE <1>1 DEF schedVars, clientVars, baseVars, leaseVars, stepVars, deployVars
<1>3. LaneInv'
  BY SameLanes DEF CalmInv, LaneInv, NeverRefuses
<1>4. Leased' = Leased
  BY DEF Leased
<1>5. BudgetInv' /\ CalmDeployment' /\ CalmPlan' /\ CalmResult'
  BY <1>2, <1>4 DEF CalmInv, BudgetInv, Unleased, CalmDeployment, CalmPlan, CalmResult
<1>6. CalmRows'
  <2>1. PICK E \in SUBSET {0} : Dev!ProcOk(WarmUpInput, [x \in {0} |-> 1], E)
    BY DEF LoadAndWarmUp
  <2>2. PICK i : i = WarmUpInput
    OBVIOUS
  <2>3. i.active = {0} /\ \A x \in Row : x = 0 => i.gen[x] = GenLimit - 1
    BY <2>2 DEF WarmUpInput
  <2>4. \A x \in Row : resGen'[x] = IF x \in i.active THEN i.gen[x] ELSE resGen[x]
    BY <2>1, <2>2 DEF Dev!ProcOk
  <2>5. \A x \in Row : resGen'[x] = resGen[x] \/ resGen'[x] = GenLimit - 1
    BY <2>3, <2>4
  <2>6. Untouched'
    BY <1>2, <1>4 DEF Untouched
  <2>. QED  BY <2>5, <2>6 DEF CalmInv, CalmRows
<1>. QED  BY <1>3, <1>5, <1>6 DEF CalmInv, EngineSurvives

(* The answer of an epoch that went well passes validate_against. *)
LEMMA CalmReceive ==
  ASSUME SysInv, CalmInv, ReceiveCommitted
  PROVE  CalmInv'
<1>1. /\ fault = "none" /\ phase = "exec" /\ planned # {} /\ wire = "committed"
      /\ wire' = "idle" /\ UNCHANGED <<devVars, deployVars, backend, sidecar>>
  BY DEF ReceiveCommitted, Executing
<1>2. /\ reply.status = 0
      /\ \A r \in planned : reply.got[rows[r]] < steps => rows[r] \in reply.eos
  BY <1>1 DEF CalmInv, CalmResult
<1>3. /\ res' = DeviceResult /\ phase' = "done"
      /\ UNCHANGED <<clientVars, baseVars, leaseVars, toks, planned, steps, fault>>
  BY <1>2 DEF ReceiveCommitted
<1>4. \A r \in planned : r \in Req /\ reply.got[rows[r]] \in 1 .. steps
  BY <1>1, <1>2 DEF SysInv, ReplyInv, IndInv, TypeOK
<1>5. /\ res'.route = "device"
      /\ \A r \in planned : /\ res'.got[r] = reply.got[rows[r]]
                            /\ rows[r] \in reply.eos => res'.eos[r] = reply.got[rows[r]]
  BY <1>3, <1>4 DEF DeviceResult
<1>. USE <1>1, <1>3 DEF clientVars, baseVars, leaseVars, devVars, keptVars, deployVars
<1>6. ValidResult'
  BY <1>2, <1>4, <1>5 DEF ValidResult
<1>7. LaneInv'
  BY SameLanes DEF CalmInv, LaneInv, NeverRefuses
<1>8. Leased' = Leased
  BY DEF Leased
<1>9. BudgetInv' /\ CalmDeployment' /\ CalmPlan'
  BY <1>8 DEF CalmInv, BudgetInv, Unleased, CalmDeployment, CalmPlan
<1>10. CalmRows' /\ CalmResult'
  BY <1>5, <1>6 DEF CalmInv, CalmRows, CalmResult
<1>. QED  BY <1>7, <1>9, <1>10 DEF CalmInv, EngineSurvives

(* The rest of the link: nothing of it fails. *)
LEMMA CalmRest ==
  ASSUME NoFailures, SysInv, CalmInv,
         \/ LoadBackend \/ LoadBackendFails \/ LoadOrWarmUpFails
         \/ OutsideEnvelope \/ CaptureFails \/ Send
         \/ ReceivePrepared \/ ReceiveAmbiguous \/ ReceiveTimeout
         \/ BridgeRejects \/ Feed \/ FeedFails \/ Fetch \/ FetchFails \/ SidecarDies
         \/ UNCHANGED sysVars
  PROVE  CalmInv'
<1>1. /\ wire \in {"idle", "request", "fed", "ran", "committed"}
      /\ (backend => sidecar) /\ ~Faulty
  BY DEF CalmInv, CalmDeployment, NoFailures
<1>2. CASE LoadBackend \/ Send \/ Feed \/ Fetch \/ UNCHANGED sysVars
  <2>1. /\ UNCHANGED <<schedVars, devVars, deployVars>> /\ (backend' => sidecar')
        /\ \/ wire' = wire
           \/ wire \in {"idle", "request", "fed"} /\ wire' \in {"request", "fed"}
           \/ wire = "ran" /\ wire' = "committed"
    BY <1>1, <1>2 DEF LoadBackend, Send, Feed, Fetch, Wire, sysVars, linkVars
  <2>. QED  BY <1>1, <2>1, CalmLink
<1>3. CASE LoadOrWarmUpFails \/ OutsideEnvelope
  <2>1. /\ fault = "none" /\ worker = "dedicated" /\ UNCHANGED <<devVars, linkVars>>
        /\ \/ Die("backend-load") /\ engine = "ctypes"
           \/ Die("outside-envelope")
    BY <1>1, <1>3 DEF LoadOrWarmUpFails, OutsideEnvelope
  <2>2. /\ EngineSurvives' /\ fault' # "none"
        /\ UNCHANGED <<clientVars, baseVars, leaseVars, stepVars>>
    BY <2>1 DEF EngineSurvives, Die, linkVars, deployVars
  <2>. QED  BY <2>1, <2>2, CalmEnd
<1>4. CASE ReceivePrepared \/ ReceiveAmbiguous
  BY <1>1, <1>4 DEF ReceivePrepared, ReceiveAmbiguous
<1>5. CASE \/ LoadBackendFails \/ CaptureFails \/ ReceiveTimeout \/ BridgeRejects
           \/ FeedFails \/ FetchFails \/ SidecarDies
  BY <1>1, <1>5, Zenon
  DEF LoadBackendFails, CaptureFails, ReceiveTimeout, BridgeRejects, FeedFails,
      FetchFails, SidecarDies
<1>. QED  BY <1>2, <1>3, <1>4, <1>5

(* Every step keeps the engine alive. *)
LEMMA CalmNext ==
  ASSUME NoFailures
  PROVE  /\ SysInv /\ SysInv' /\ SyncInv /\ SlotInv /\ EnvelopeInv
         /\ CalmInv /\ [SysNext]_sysVars
         => CalmInv'
  BY CalmAdd, CalmAbort, CalmSchedule, CalmStock, CalmUpdate, CalmDevice,
     CalmWarmUp, CalmReceive, CalmRest
  DEF SysNext, HostSide, SidecarSide

(* Without failures nothing ends the engine: no interleaving of arrivals,  *)
(* aborts, isolated lanes and epochs makes schedule() raise, the Device    *)
(* reject an epoch, or update_from_output() find a result invalid or a     *)
(* request missing.  Only the dedicated worker may give up, on a batch     *)
(* outside its envelope or on an engine that has no warm_up                *)
(* (scheduler.py, plugin.py, worker.py, g4c_b4_resident_epoch.cpp).        *)
THEOREM EngineAlwaysSurvives ==
  ASSUME NoFailures
  PROVE  SysSpec => []EngineSurvives
<1>1. ~ReuseIds /\ MaxRunning <= MaxBatch
  BY DEF NoFailures, RequestsFit
<1>2. SysInit => SysInv /\ SyncInv /\ SlotInv /\ EnvelopeInv /\ CalmInv
  BY SysInitInv, EnvelopeInit, CalmInit
<1>3. SysInv /\ SyncInv /\ SlotInv /\ EnvelopeInv /\ CalmInv /\ [SysNext]_sysVars =>
        SysInv' /\ SyncInv' /\ SlotInv' /\ EnvelopeInv' /\ CalmInv'
  BY <1>1, SysNextInv, SyncNext, EnvelopeNext, CalmNext
<1>4. CalmInv => EngineSurvives
  BY DEF CalmInv
<1>. QED  BY <1>2, <1>3, <1>4, PTL DEF SysSpec


-----------------------------------------------------------------------------
(***************************************************************************)
(* The scheduler inside the system.  EpochScheduler lets execute_model()   *)
(* answer a plan with anything well formed; here the answer is what the    *)
(* worker, the bridge and the Device make of it.                           *)
(***************************************************************************)

(* execute_model() raises: the only thing the system does to the scheduler *)
(* that EpochScheduler's worker does not.                                  *)
WorkerRaises ==
  /\ fault = "none"
  /\ fault' \in {"backend-load", "kv-capture", "prepared", "ambiguous",
                 "discontinuous", "device-error", "outside-envelope"}
  /\ UNCHANGED <<clientVars, baseVars, leaseVars, stepVars>>

(* A result for a plan. *)
LEMMA ResultForPlan ==
  ASSUME NEW S, NEW R, NEW w \in R,
         NEW g \in {f \in [Req -> 0 .. MaxSteps] : \A r \in Req \ S : f[r] = 0},
         NEW e \in {f \in [Req -> 0 .. MaxSteps] : \A r \in Req \ S : f[r] = 0}
  PROVE  [route |-> w, got |-> g, eos |-> e] \in Results(S, R)
<1>. DEFINE Rec(a, b, c) == [route |-> a, got |-> b, eos |-> c]
            F == {f \in [Req -> 0 .. MaxSteps] : \A r \in Req \ S : f[r] = 0}
<1>1. Results(S, R) = {Rec(a, b, c) : a \in R, b \in F, c \in F}
  BY DEF Results
<1>2. g \in F /\ e \in F
  OBVIOUS
<1>. HIDE DEF Rec, F
<1>3. Rec(w, g, e) \in Results(S, R)
  BY <1>1, <1>2
<1>. QED  BY <1>3 DEF Rec

(* A Host replay is one of the answers. *)
LEMMA ReplayIsAnswer ==
  ASSUME SysInv, Executing, HostReplay
  PROVE  ExecutePlan
<1>1. PICK E \in SUBSET planned :
        res' = [route |-> "host_fallback", got |-> StockTokens,
                eos |-> [r \in Req |-> IF r \in E THEN 1 ELSE 0]]
  BY DEF HostReplay
<1>2. /\ fault = "none" /\ phase = "exec" /\ planned # {} /\ phase' = "done"
      /\ planned \subseteq Req
      /\ UNCHANGED <<clientVars, baseVars, leaseVars, toks, planned, steps, fault>>
  BY DEF HostReplay, Executing, SysInv, IndInv, TypeOK
<1>3. \A r \in planned : StockTokens[r] = 1
  BY <1>2 DEF StockTokens, SysInv, IndInv, StepInv, Planned
<1>4. \A r \in Req \ planned : StockTokens[r] = 0
  BY <1>2 DEF StockTokens, SysInv, IndInv, StepInv, Scheduled
<1>. DEFINE e == [r \in Req |-> IF r \in E THEN 1 ELSE 0]
            F == {f \in [Req -> 0 .. MaxSteps] : \A r \in Req \ planned : f[r] = 0}
<1>5. StockTokens \in F /\ e \in F
  <2>1. 0 \in 0 .. MaxSteps /\ 1 \in 0 .. MaxSteps
    BY SchedulerAssumption DEF EpochLadder
  <2>2. StockTokens \in [Req -> 0 .. MaxSteps]
    BY <2>1 DEF StockTokens
  <2>3. e \in [Req -> 0 .. MaxSteps]
    BY <2>1
  <2>. QED  BY <1>4, <2>2, <2>3
<1>6. res' \in Results(planned, {"device", "host_fallback"})
  <2>1. res' = [route |-> "host_fallback", got |-> StockTokens, eos |-> e]
    BY <1>1
  <2>2. "host_fallback" \in {"device", "host_fallback"}
    OBVIOUS
  <2>. HIDE DEF e
  <2>. QED  BY <1>5, <2>1, <2>2, ResultForPlan, Zenon
<1>7. \A r \in planned : res'.eos[r] <= res'.got[r]
  BY <1>1, <1>2, <1>3
<1>. QED  BY <1>2, <1>6, <1>7 DEF ExecutePlan

(* So is what the Device commits. *)
LEMMA CommittedIsAnswer ==
  ASSUME SysInv, ReceiveCommitted, reply.status = 0
  PROVE  ExecutePlan
<1>1. /\ fault = "none" /\ phase = "exec" /\ planned # {} /\ wire = "committed"
      /\ res' = DeviceResult /\ phase' = "done"
      /\ UNCHANGED <<clientVars, baseVars, leaseVars, toks, planned, steps, fault>>
  BY DEF ReceiveCommitted, Executing
<1>2. /\ planned \subseteq Req /\ steps \in 1 .. MaxSteps /\ MaxSteps \in Nat
      /\ \A r \in planned : reply.got[rows[r]] \in 1 .. steps
  <2>1. planned \subseteq Req /\ MaxSteps \in Nat
    BY SchedulerAssumption DEF SysInv, IndInv, TypeOK, EpochLadder
  <2>2. steps \in 1 .. MaxSteps
    BY <1>1 DEF SysInv, PlanInv
  <2>3. \A r \in planned : reply.got[rows[r]] \in 1 .. steps
    BY <1>1 DEF SysInv, ReplyInv
  <2>. QED  BY <2>1, <2>2, <2>3
<1>. DEFINE g == [r \in Req |-> IF r \in planned THEN reply.got[rows[r]] ELSE 0]
            e == [r \in Req |-> IF r \in planned /\ rows[r] \in reply.eos
                                THEN reply.got[rows[r]] ELSE 0]
            F == {f \in [Req -> 0 .. MaxSteps] : \A r \in Req \ planned : f[r] = 0}
<1>3. \A r \in planned : reply.got[rows[r]] \in 0 .. MaxSteps
  BY <1>2
<1>4. g \in F /\ e \in F
  BY <1>2, <1>3
<1>5. res' = [route |-> "device", got |-> g, eos |-> e]
  BY <1>1 DEF DeviceResult
<1>6. res' \in Results(planned, {"device", "host_fallback"})
  <2>1. "device" \in {"device", "host_fallback"}
    OBVIOUS
  <2>. HIDE DEF g, e
  <2>. QED  BY <1>4, <1>5, <2>1, ResultForPlan, Zenon
<1>7. \A r \in planned : res'.eos[r] <= res'.got[r]
  BY <1>2, <1>5
<1>. QED  BY <1>1, <1>6, <1>7 DEF ExecutePlan

(* Every step of the system is one of the scheduler, or execute_model()    *)
(* raises.                                                                 *)
LEMMA SystemStepsScheduler ==
  SysInv /\ [SysNext]_sysVars => [Next \/ WorkerRaises]_schedVars
<1>. SUFFICES ASSUME SysInv, [SysNext]_sysVars
              PROVE  Next \/ WorkerRaises \/ UNCHANGED schedVars
  OBVIOUS
<1>0. ASSUME fault = "none",
             NEW f \in {"backend-load", "kv-capture", "prepared", "ambiguous",
                        "discontinuous", "device-error", "outside-envelope"},
             Die(f)
      PROVE  WorkerRaises
  BY <1>0 DEF Die, WorkerRaises
<1>1. CASE \E r \in Req, s \in Shapes : SysAdd(r, s)
  BY <1>1 DEF SysAdd, Next, ClientNext
<1>2. CASE \E r \in Req : SysClient(r)
  BY <1>2 DEF SysClient, Next, ClientNext
<1>3. CASE SysSchedule \/ SysStock \/ SysUpdate
  BY <1>3 DEF SysSchedule, SysStock, SysUpdate, Next
<1>4. CASE LoadBackend \/ LoadAndWarmUp \/ Send
  BY <1>4 DEF LoadBackend, LoadAndWarmUp, Send
<1>5. CASE LoadBackendFails \/ ReceivePrepared
  <2>1. PICK f \in {"backend-load", "prepared"} : Executing /\ ReplayOrDie(f)
    BY <1>5 DEF LoadBackendFails, ReceivePrepared
  <2>. QED  BY <1>0, <2>1, ReplayIsAnswer DEF ReplayOrDie, Executing, Next
<1>6. CASE \/ LoadOrWarmUpFails \/ OutsideEnvelope \/ CaptureFails
           \/ ReceiveAmbiguous \/ ReceiveTimeout
  BY <1>0, <1>6 DEF LoadOrWarmUpFails, OutsideEnvelope, CaptureFails,
     ReceiveAmbiguous, ReceiveTimeout, Executing
<1>7. CASE ReceiveCommitted
  <2>1. CASE reply.status = 0
    BY <1>7, <2>1, CommittedIsAnswer DEF Next
  <2>2. CASE reply.status # 0
    BY <1>0, <1>7, <2>2 DEF ReceiveCommitted, Executing
  <2>. QED  BY <2>1, <2>2
<1>8. CASE SidecarSide
  BY <1>8 DEF SidecarSide, BridgeRejects, Feed, FeedFails, DeviceRuns, Fetch,
     FetchFails, SidecarDies, Wire
<1>9. CASE UNCHANGED sysVars
  BY <1>9 DEF sysVars
<1>. QED
  BY <1>1, <1>2, <1>3, <1>4, <1>5, <1>6, <1>7, <1>8, <1>9 DEF SysNext, HostSide

(* What worker, bridge and Device do is what EpochScheduler assumes of     *)
(* them: the composed system is a run of the scheduler's specification in  *)
(* which execute_model() may also raise (scheduler.py, plugin.py).         *)
THEOREM SystemRunsScheduler ==
  SysSpec => Init /\ [][Next \/ WorkerRaises]_schedVars
<1>1. SysInit => Init
  BY DEF SysInit
<1>. QED  BY <1>1, AlwaysSysInv, SystemStepsScheduler, PTL DEF SysSpec

(* So the scheduler's promises hold in the composed system, across Host    *)
(* replays, failures and restarts of the step: rows and generations are    *)
(* exclusive, the token counters settle between steps, a lease is kept     *)
(* while the request runs, a row is reused only under a newer generation   *)
(* and only a Device result advances a Device-owned request (scheduler.py).*)
THEOREM SchedulerHoldsInSystem ==
  SysSpec => /\ [](LeaseSafety /\ SanityChecksHold /\ AccountingExact)
             /\ RowReuseIsNewer /\ LeaseStable /\ DeviceOwnedAdvancesOnDevice
<1>1. SysInv => LeaseSafety /\ SanityChecksHold /\ AccountingExact
  <2>. SUFFICES ASSUME IndInv PROVE AccountingExact
    BY DEF SysInv, IndInv, LeaseInv
  <2>1. \A r \in running : r \in Req
    BY DEF IndInv, TypeOK
  <2>. QED  BY <2>1 DEF IndInv, StepInv, AccountingExact
<1>2. SysInv /\ [SysNext]_sysVars =>
        /\ [NewerLease]_schedVars /\ [KeptLease]_schedVars
        /\ [AdvanceByDevice]_schedVars
  <2>. SUFFICES ASSUME SysInv, [SysNext]_sysVars
                PROVE  /\ [NewerLease]_schedVars /\ [KeptLease]_schedVars
                       /\ [AdvanceByDevice]_schedVars
    OBVIOUS
  <2>1. CASE [Next]_schedVars
    BY <2>1, StepKeepsLeases, StepAdvances DEF SysInv
  <2>2. CASE WorkerRaises
    <3>1. UNCHANGED <<rows, gens, owned, outs>>
      BY <2>2 DEF WorkerRaises, leaseVars, baseVars
    <3>2. NewerLease /\ KeptLease
      BY <3>1 DEF NewerLease, KeptLease
    <3>3. AdvanceByDevice
      <4>1. \A r \in owned : outs[r] \in Nat
        BY DEF SysInv, IndInv, TypeOK
      <4>. QED  BY <3>1, <4>1 DEF AdvanceByDevice
    <3>. QED  BY <3>2, <3>3
  <2>. QED  BY <2>1, <2>2, SystemStepsScheduler
<1>. QED
  BY <1>1, <1>2, AlwaysSysInv, PTL
  DEF SysSpec, RowReuseIsNewer, LeaseStable, DeviceOwnedAdvancesOnDevice

(* Under the same hypotheses every plan that the scheduler sends continues *)
(* the resident rows, and the Device never answers 212.  A prompt of one   *)
(* token that is decoded on the Host first, which they exclude, is one     *)
(* that does not (scheduler.py 289, g4c_b4_resident_epoch.cpp 73).         *)
THEOREM EpochsAlwaysContinue ==
  ASSUME NoFailures
  PROVE  SysSpec => []NeverDiscontinuous
<1>1. EngineSurvives => NeverDiscontinuous
  BY DEF EngineSurvives, NeverDiscontinuous
<1>. QED  BY <1>1, EngineAlwaysSurvives, PTL
=============================================================================
