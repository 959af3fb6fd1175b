--------------------------- MODULE EpochScheduler ---------------------------
(***************************************************************************)
(* ResidentEpochScheduler (scheduler.py), the extension of vLLM's V1       *)
(* scheduler that decides, once per engine step, whether the running batch *)
(* decodes on the Device for a whole epoch or on the Host for one token.   *)
(*                                                                         *)
(* An engine step is schedule(), execute_model(), update_from_output(), in *)
(* that order and on one thread; requests arrive and are aborted between   *)
(* the calls.  `phase' is where the step is: "idle" before schedule(),     *)
(* "exec" between it and execute_model(), "done" when a result waits for   *)
(* update_from_output().  An exception that leaves schedule() or           *)
(* update_from_output() ends the engine: `fault' names it and nothing      *)
(* happens afterwards.                                                     *)
(*                                                                         *)
(* The waiting queue and the running list are sets: their order decides    *)
(* only which request is admitted first and which row of the free ones a   *)
(* request gets, and both are left open here.                              *)
(***************************************************************************)
EXTENDS Integers, FiniteSets

CONSTANTS
  Req,         \* request ids
  Shapes,      \* what a request may ask for, see ShapeType
  Chunks,      \* how many prompt tokens the base scheduler takes in one step
  MaxBatch,    \* config.max_batch_size: rows of the resident graph
  MaxRunning,  \* max_num_running_reqs of the base scheduler
  MaxSteps,    \* config.max_steps
  Capacity,    \* config.logical_capacity: positions of a resident row
  GenLimit,    \* end of the generation space, 2^31 in the code
  ReuseIds,    \* may a client use the id of an ended request again
  MidStepAbort \* may an abort be processed while the model executes

ShapeType ==
  [prompt : Nat \ {0}, max : Nat \ {0}, eligible : BOOLEAN, grammar : BOOLEAN]

EpochLadder == {1, 2, 4, 8}
Row == 0 .. MaxBatch - 1
NoRow == -1

ASSUME SchedulerAssumption ==
  /\ IsFiniteSet(Req)
  /\ Shapes \subseteq ShapeType /\ Shapes # {}
  /\ Chunks \subseteq Nat \ {0}
  /\ MaxBatch \in Nat \ {0}
  /\ MaxRunning \in Nat \ {0}
  /\ MaxSteps \in EpochLadder
  /\ Capacity \in Nat
  /\ MaxSteps <= Capacity
  /\ GenLimit \in Nat \ {0}
  /\ ReuseIds \in BOOLEAN
  /\ MidStepAbort \in BOOLEAN

VARIABLES
  \* the base scheduler
  shape,       \* the request's parameters, from the client
  waiting,     \* waiting and skipped_waiting
  held,        \* the waiting requests whose grammar is not compiled yet
  running,
  outs,        \* num_output_tokens
  computed,    \* num_computed_tokens
  seen,        \* ids that have been used
  \* the resident extension
  rows,        \* _resident_epoch_rows, NoRow for an absent key
  gens,        \* _resident_epoch_generations, 0 for an absent key
  owned,       \* _resident_epoch_device_owned
  nextGen,     \* _resident_epoch_next_generation
  \* the engine step in progress
  phase,
  toks,        \* num_scheduled_tokens, 0 for a request not scheduled
  planned,     \* the requests of the attached plan, {} without a plan
  steps,       \* max_steps of the plan
  res,         \* what execute_model returned
  fault        \* the exception that ended the engine, "none" while it lives

clientVars == <<shape, seen>>
baseVars == <<waiting, held, running, outs, computed>>
leaseVars == <<rows, gens, owned, nextGen>>
stepVars == <<phase, toks, planned, steps, res>>
schedVars == <<clientVars, baseVars, leaseVars, stepVars, fault>>

(* The exceptions of the scheduler, and those of execute_model.            *)
Faults ==
  {"none", "refused-host-execution", "isolated-lane-empty",
   "allocator-exhausted", "generations-exhausted", "invalid-result",
   "missing-request", "over-advance", "backend-load", "kv-capture",
   "prepared", "ambiguous", "discontinuous", "device-error",
   "outside-envelope"}

NoTokens == [r \in Req |-> 0]
NoResult == [route |-> "none", got |-> NoTokens, eos |-> NoTokens]

Min2(a, b) == IF a <= b THEN a ELSE b

(* A result carries the route, the number of tokens sampled for each       *)
(* request and the place of the first EOS among them, 0 when there is none.*)
Results(S, routes) ==
  {[route |-> w, got |-> g, eos |-> e] :
      w \in routes,
      g \in {f \in [Req -> 0 .. MaxSteps] : \A r \in Req \ S : f[r] = 0},
      e \in {f \in [Req -> 0 .. MaxSteps] : \A r \in Req \ S : f[r] = 0}}

Init ==
  /\ shape = [r \in Req |-> CHOOSE s \in Shapes : TRUE]
  /\ seen = {}
  /\ waiting = {} /\ held = {} /\ running = {}
  /\ outs = NoTokens /\ computed = NoTokens
  /\ rows = [r \in Req |-> NoRow] /\ gens = NoTokens
  /\ owned = {} /\ nextGen = 1
  /\ phase = "idle" /\ toks = NoTokens
  /\ planned = {} /\ steps = 0 /\ res = NoResult
  /\ fault = "none"

Prompt(r) == shape[r].prompt
Remaining(r) == shape[r].max - outs[r]
NumTokens(r) == Prompt(r) + outs[r]
Scheduled == {r \in Req : toks[r] > 0}

-----------------------------------------------------------------------------
(***************************************************************************)
(* The client side of the base scheduler.                                  *)
(***************************************************************************)

AddRequest(r, s) ==
  /\ fault = "none" /\ phase = "idle"
  /\ r \notin waiting \cup running
  /\ r \notin seen \/ ReuseIds
  /\ shape' = [shape EXCEPT ![r] = s]
  /\ seen' = seen \cup {r}
  /\ waiting' = waiting \cup {r}
  /\ held' = IF s.grammar THEN held \cup {r} ELSE held
  /\ outs' = [outs EXCEPT ![r] = 0]
  /\ computed' = [computed EXCEPT ![r] = 0]
  /\ UNCHANGED <<running, leaseVars, stepVars, fault>>

(* The grammar of a structured-output request is ready. *)
GrammarReady(r) ==
  /\ fault = "none"
  /\ r \in held
  /\ held' = held \ {r}
  /\ UNCHANGED <<clientVars, waiting, running, outs, computed, leaseVars,
                 stepVars, fault>>

(* finish_requests: the lease and the ownership of r stay behind. *)
AbortRequest(r) ==
  /\ fault = "none"
  /\ phase = "idle" \/ MidStepAbort
  /\ r \in waiting \cup running
  /\ waiting' = waiting \ {r}
  /\ held' = held \ {r}
  /\ running' = running \ {r}
  /\ UNCHANGED <<clientVars, outs, computed, leaseVars, stepVars, fault>>

-----------------------------------------------------------------------------
(***************************************************************************)
(* schedule()                                                              *)
(***************************************************************************)

DeviceRunning == running \cap owned
HostRunning == running \ owned

(* _host_isolation_reason is not None: the Device-owned requests have to   *)
(* sit this step out.                                                      *)
MutantNoAdmissionIsolation ==
  /\ DeviceRunning # {}
  /\ \E r \in HostRunning : ~shape[r].eligible \/ computed[r] < Prompt(r)

MutantIsolationWithoutSlot ==
  /\ DeviceRunning # {}
  /\ \/ \E r \in HostRunning :
          ~shape[r].eligible \/ computed[r] < Prompt(r)
     \/ \E r \in waiting : Prompt(r) > 1 \/ ~shape[r].eligible

MutantIsolateAnyArrival ==
  /\ DeviceRunning # {}
  /\ \/ \E r \in HostRunning :
          ~shape[r].eligible \/ computed[r] < Prompt(r)
     \/ Cardinality(running) < MaxRunning /\ waiting # {}

HostIsolation ==
  /\ DeviceRunning # {}
  /\ \/ \E r \in HostRunning :
          ~shape[r].eligible \/ computed[r] < Prompt(r)
     \/ /\ Cardinality(running) < MaxRunning
        /\ \E r \in waiting : Prompt(r) > 1 \/ ~shape[r].eligible

Paused == IF HostIsolation THEN DeviceRunning ELSE {}

(* What the base scheduler admits: as many ready requests as there are     *)
(* slots.  Pausing lowers the running list and its limit by the same       *)
(* number, so the slots are the same in both lanes.                        *)
Admissible(adm) ==
  /\ adm \subseteq waiting \ held
  /\ Cardinality(adm) =
       Min2(MaxRunning - Cardinality(running), Cardinality(waiting \ held))

(* One token for a decoding request, at most `chunk' of the missing prompt *)
(* tokens for the others.                                                  *)
Need(r) == NumTokens(r) - computed[r]

(* super().schedule() with the requests of S: the bookkeeping of the base  *)
(* scheduler, num_computed_tokens included.                                *)
BaseSchedule(S, adm, chunk) ==
  /\ waiting' = waiting \ adm
  /\ running' = running \cup adm
  /\ toks' = [r \in Req |-> IF r \in S THEN Min2(chunk, Need(r)) ELSE 0]
  /\ computed' = [r \in Req |-> computed[r] + toks'[r]]
  /\ UNCHANGED <<held, outs>>

(* The tests of _make_resident_epoch_plan before rows are assigned.        *)
(* Speculation, encoder inputs, connectors and the block size are fixed by *)
(* the configuration; preemption does not occur while every request fits   *)
(* the KV block it was admitted with.                                      *)
MutantPartialRunningSet(S) ==
  Cardinality(S) <= MaxBatch /\ \A r \in S : toks'[r] = 1

PlanCandidate(S) ==
  /\ Cardinality(S) <= MaxBatch
  /\ \A r \in S : toks'[r] = 1
  /\ S = running'

(* _assign_resident_rows: rows of requests that are not in S are given     *)
(* back, the new requests take the lowest free rows, and generations are   *)
(* handed out in the order of the rows.                                    *)
New(S) == {r \in S : rows[r] = NoRow}
MutantRowsFromOne(S) == (1 .. MaxBatch) \ {rows[r] : r \in S}
MutantFreeIgnoresLeases(S) == Row
MutantFreeBeforeRelease(S) == Row \ {rows[r] : r \in Req}
FreeRows(S) == Row \ {rows[r] : r \in S}
Rank(x, T) == Cardinality({y \in T : y < x})

AllocatorExhausted(S) == Cardinality(New(S)) > Cardinality(FreeRows(S))
GenerationsExhausted(S) ==
  /\ New(S) # {}
  /\ nextGen + Cardinality(New(S)) > GenLimit

RowChoices(S) ==
  {f \in [New(S) -> FreeRows(S)] :
     /\ \A q, r \in New(S) : q # r => f[q] # f[r]
     /\ \A r \in New(S) : Rank(f[r], FreeRows(S)) < Cardinality(New(S))}

MutantGenerationNotConsumed(S, f) ==
  /\ rows' = [r \in Req |-> IF r \in New(S) THEN f[r]
                            ELSE IF r \in S THEN rows[r] ELSE NoRow]
  /\ gens' = [r \in Req |->
                IF r \in New(S) THEN nextGen + Rank(f[r], FreeRows(S))
                ELSE IF r \in S THEN gens[r] ELSE 0]
  /\ owned' = owned \ {r \in Req \ S : rows[r] # NoRow}
  /\ nextGen' = nextGen

AssignResidentRows(S, f) ==
  /\ rows' = [r \in Req |-> IF r \in New(S) THEN f[r]
                            ELSE IF r \in S THEN rows[r] ELSE NoRow]
  /\ gens' = [r \in Req |->
                IF r \in New(S) THEN nextGen + Rank(f[r], FreeRows(S))
                ELSE IF r \in S THEN gens[r] ELSE 0]
  /\ owned' = owned \ {r \in Req \ S : rows[r] # NoRow}
  /\ nextGen' = nextGen + Cardinality(New(S))

(* The tests of _make_resident_epoch_plan on every request, after rows are *)
(* assigned; the reasons end in the same way.                              *)
RequestRejected(r) ==
  \/ ~shape[r].eligible
  \/ Prompt(r) > Capacity
  \/ Prompt(r) > 1 /\ outs[r] = 0
  \/ computed'[r] # NumTokens(r)
  \/ Remaining(r) < 1

(* The longest epoch of the ladder within every budget. *)
EpochFits(k, S) == k <= MaxSteps /\ \A r \in S : k <= Remaining(r)
EpochSteps(k, S) ==
  EpochFits(k, S) /\ \A j \in EpochLadder : EpochFits(j, S) => j <= k

(* position + epoch_steps > logical_capacity, position = computed - 1 *)
OverCapacity(S, k) == \E r \in S : computed'[r] - 1 + k > Capacity

(* How schedule() ends: with an exception, with a batch for the stock      *)
(* model, or with a plan attached to the batch.                            *)
Raise(f) ==
  /\ fault' = f
  /\ planned' = {} /\ steps' = 0 /\ phase' = "idle"

HostStep(S) ==
  IF S \cap owned' # {}
  THEN Raise("refused-host-execution")
  ELSE planned' = {} /\ steps' = 0 /\ phase' = "exec" /\ fault' = "none"

DeviceEpoch(S, k) ==
  planned' = S /\ steps' = k /\ phase' = "exec" /\ fault' = "none"

(* _make_resident_epoch_plan from _assign_resident_rows on.  A raise there *)
(* ends the engine, so that the leases it has already dropped are not      *)
(* tracked.                                                                *)
MakePlan(S) ==
  IF AllocatorExhausted(S)
  THEN Raise("allocator-exhausted") /\ UNCHANGED leaseVars
  ELSE IF GenerationsExhausted(S)
  THEN Raise("generations-exhausted") /\ UNCHANGED leaseVars
  ELSE /\ \E f \in RowChoices(S) : AssignResidentRows(S, f)
       /\ IF \E r \in S : RequestRejected(r)
          THEN HostStep(S)
          ELSE \E k \in EpochLadder :
                 /\ EpochSteps(k, S)
                 /\ IF OverCapacity(S, k) THEN HostStep(S)
                                          ELSE DeviceEpoch(S, k)

(* An empty batch changes nothing (S # {}).  While requests are paused S   *)
(* is not the running set, so that the isolated lane never makes a plan    *)
(* and never schedules a paused request: the two assertions of the code    *)
(* that say so have no action.                                             *)
Schedule(adm, chunk) ==
  LET S == (running \ Paused) \cup adm IN
  /\ fault = "none" /\ phase = "idle"
  /\ Admissible(adm)
  /\ S # {}
  /\ BaseSchedule(S, adm, chunk)
  /\ UNCHANGED <<clientVars, res>>
  /\ \/ ~PlanCandidate(S) /\ UNCHANGED leaseVars /\ HostStep(S)
     \/ PlanCandidate(S) /\ MakePlan(S)

(* The isolated lane must schedule somebody. *)
ScheduleIsolatedEmpty ==
  /\ fault = "none" /\ phase = "idle"
  /\ HostIsolation
  /\ HostRunning = {} /\ Admissible({})
  /\ fault' = "isolated-lane-empty"
  /\ UNCHANGED <<clientVars, baseVars, leaseVars, stepVars>>

-----------------------------------------------------------------------------
(***************************************************************************)
(* execute_model(), seen from the scheduler: the stock model samples one   *)
(* token for every request whose known tokens are all computed; for a plan *)
(* anything may come back.                                                 *)
(***************************************************************************)

StockTokens == [r \in Req |->
  IF toks[r] > 0 /\ computed[r] = NumTokens(r) THEN 1 ELSE 0]

ExecuteHost ==
  /\ fault = "none" /\ phase = "exec" /\ planned = {}
  /\ \E E \in SUBSET {r \in Req : StockTokens[r] = 1} :
       res' = [route |-> "host", got |-> StockTokens,
               eos |-> [r \in Req |-> IF r \in E THEN 1 ELSE 0]]
  /\ phase' = "done"
  /\ UNCHANGED <<clientVars, baseVars, leaseVars, toks, planned, steps, fault>>

ExecutePlan ==
  /\ fault = "none" /\ phase = "exec" /\ planned # {}
  /\ res' \in Results(planned, {"device", "host_fallback"})
  /\ \A r \in planned : res'.eos[r] <= res'.got[r]
  /\ phase' = "done"
  /\ UNCHANGED <<clientVars, baseVars, leaseVars, toks, planned, steps, fault>>

-----------------------------------------------------------------------------
(***************************************************************************)
(* update_from_output()                                                    *)
(***************************************************************************)

HostReplaySafe == planned \cap owned = {}

(* ResidentEpochResult.validate_against, on what a result carries here. *)
MutantReplayOfAnyOwner ==
  \A r \in planned :
    /\ res.got[r] \in 1 .. steps
    /\ res.route = "host_fallback" => res.got[r] = 1
    /\ (res.route = "device" /\ res.got[r] < steps) => res.eos[r] = res.got[r]

ValidResult ==
  /\ res.route = "host_fallback" => HostReplaySafe
  /\ \A r \in planned :
       /\ res.got[r] \in 1 .. steps
       /\ res.route = "host_fallback" => res.got[r] = 1
       /\ (res.route = "device" /\ res.got[r] < steps)
             => res.eos[r] = res.got[r]

(* num_computed_tokens after _apply_resident_epoch_accounting *)
MutantScheduledTokenTwice(r) ==
  IF r \in planned THEN computed[r] + res.got[r] ELSE computed[r]

MutantNoExtraSteps(r) == computed[r]

Advanced(r) ==
  IF r \in planned THEN computed[r] + (res.got[r] - toks[r]) ELSE computed[r]

OverAdvanced == \E r \in planned : Advanced(r) > NumTokens(r) + res.got[r]

UpdateFault(f) ==
  /\ fault' = f
  /\ UNCHANGED <<clientVars, baseVars, leaseVars, stepVars>>

(* What the base scheduler appends: tokens up to the first EOS and no more *)
(* than max_tokens.                                                        *)
Appended(r) ==
  Min2(IF res.eos[r] = 0 THEN res.got[r] ELSE res.eos[r], Remaining(r))

Finishes(r) ==
  /\ res.got[r] > 0
  /\ \/ Appended(r) = Remaining(r)
     \/ res.eos[r] # 0

MutantCommitToAborted ==
  /\ computed' = [r \in Req |-> Advanced(r)]
  /\ owned' = IF res.route = "device" THEN owned \cup planned ELSE owned
  /\ outs' = [r \in Req |-> IF r \in Scheduled
                            THEN outs[r] + Appended(r) ELSE outs[r]]
  /\ running' = running \ {r \in Scheduled : Finishes(r)}
  /\ phase' = "idle" /\ toks' = NoTokens
  /\ planned' = {} /\ steps' = 0 /\ res' = NoResult
  /\ UNCHANGED <<clientVars, waiting, held, rows, gens, nextGen, fault>>

Commit ==
  /\ computed' = [r \in Req |-> Advanced(r)]
  /\ owned' = IF res.route = "device" THEN owned \cup planned ELSE owned
  /\ outs' = [r \in Req |-> IF r \in Scheduled \cap running
                            THEN outs[r] + Appended(r) ELSE outs[r]]
  /\ running' = running \ {r \in Scheduled : Finishes(r)}
  /\ phase' = "idle" /\ toks' = NoTokens
  /\ planned' = {} /\ steps' = 0 /\ res' = NoResult
  /\ UNCHANGED <<clientVars, waiting, held, rows, gens, nextGen, fault>>

UpdateFromOutput ==
  /\ fault = "none" /\ phase = "done"
  /\ IF ~ValidResult THEN UpdateFault("invalid-result")
     ELSE IF ~(planned \subseteq running) THEN UpdateFault("missing-request")
     ELSE IF OverAdvanced THEN UpdateFault("over-advance")
     ELSE Commit

-----------------------------------------------------------------------------
ClientNext == \E r \in Req :
  \/ \E s \in Shapes : AddRequest(r, s)
  \/ GrammarReady(r)
  \/ AbortRequest(r)

ScheduleNext ==
  \/ \E adm \in SUBSET (waiting \ held), chunk \in Chunks : Schedule(adm, chunk)
  \/ ScheduleIsolatedEmpty

Next == ClientNext \/ ScheduleNext \/ ExecuteHost \/ ExecutePlan
          \/ UpdateFromOutput

Spec == Init /\ [][Next]_schedVars
-----------------------------------------------------------------------------
(* The state of the scheduler is well formed. *)
TypeOK ==
  /\ shape \in [Req -> ShapeType] /\ seen \subseteq Req
  /\ waiting \subseteq Req /\ held \subseteq waiting /\ running \subseteq Req
  /\ outs \in [Req -> Nat] /\ computed \in [Req -> Nat]
  /\ rows \in [Req -> Row \cup {NoRow}] /\ gens \in [Req -> Nat]
  /\ owned \subseteq Req /\ nextGen \in Nat \ {0}
  /\ phase \in {"idle", "exec", "done"}
  /\ toks \in [Req -> Nat] /\ planned \subseteq Req /\ steps \in Nat
  /\ res \in [route : {"none", "host", "device", "host_fallback"},
               got : [Req -> Nat], eos : [Req -> Nat]]
  /\ fault \in Faults

Leased == {r \in Req : rows[r] # NoRow}

(* _assign_resident_rows: two requests never hold the same row or the same *)
(* generation, a generation is never handed out before its turn, and only  *)
(* a request with a row can be owned by the Device.                        *)
LeaseSafety ==
  /\ owned \subseteq Leased
  /\ \A r \in Leased : gens[r] \in 1 .. nextGen - 1
  /\ \A q, r \in Leased : q # r => rows[q] # rows[r] /\ gens[q] # gens[r]

(* The exceptions the code keeps as sanity checks are never raised: the    *)
(* row allocator has a row for every request of a batch, and the           *)
(* accounting of a validated result never over-advances a request.         *)
SanityChecksHold ==
  fault \notin {"allocator-exhausted", "over-advance"}

Settled(r) ==
  /\ outs[r] < shape[r].max
  /\ IF outs[r] = 0 THEN computed[r] < Prompt(r)
                    ELSE computed[r] = NumTokens(r) - 1

(* _apply_resident_epoch_accounting followed by the base update: between   *)
(* steps a decoding request has computed all its tokens but the last,      *)
(* whatever validated result came back, and no request outlives its        *)
(* max_tokens.                                                             *)
AccountingExact ==
  fault = "none" /\ phase = "idle" => \A r \in running : Settled(r)

(* An eligible request fits a resident row. *)
Fits(s) == s.eligible => s.prompt + s.max - 1 <= Capacity

(* schedule() never raises "refusing Host execution for Device-owned       *)
(* requests".                                                              *)
NeverRefuses == fault # "refused-host-execution"

(* _apply_resident_epoch_accounting looks every request of the plan up in  *)
(* self.requests and expects to find it.                                   *)
PlanRequestsPresent == fault # "missing-request"

NewerLease ==
  \A q, r \in Req :
    q # r /\ rows[q] # NoRow /\ rows'[r] = rows[q] /\ rows[r] # rows'[r]
      => gens'[r] > gens[q]

(* _assign_resident_rows: a row passes to another request only under a     *)
(* newer generation, which is what the Device tells a fresh lease from a   *)
(* continued one by.                                                       *)
RowReuseIsNewer == [][NewerLease]_schedVars

KeptLease ==
  \A r \in running \cap owned :
    r \in running' => r \in owned' /\ rows'[r] = rows[r] /\ gens'[r] = gens[r]

(* A Device-owned request that keeps running keeps its row, its generation *)
(* and its owner, also through the steps that _schedule_with_host_isolation*)
(* makes it sit out.                                                       *)
LeaseStable == [][KeptLease]_schedVars

AdvanceByDevice == \A r \in owned : outs'[r] > outs[r] => res.route = "device"

(* Only the result of a Device epoch advances a request whose state the    *)
(* Device owns: neither a stock step nor a Host replay does.               *)
DeviceOwnedAdvancesOnDevice == [][AdvanceByDevice]_schedVars

(* The engine thread keeps stepping and grammars get compiled. *)
Fairness ==
  /\ WF_schedVars(ScheduleNext)
  /\ WF_schedVars(ExecuteHost)
  /\ WF_schedVars(ExecutePlan)
  /\ WF_schedVars(UpdateFromOutput)
  /\ \A r \in Req : WF_schedVars(GrammarReady(r))

FairSpec == Spec /\ Fairness

(* Every request is served in the end: neither the isolated lane nor the   *)
(* row allocator leaves anybody behind, and schedule() does not refuse a   *)
(* batch.  What may end the service is a Device result that does not       *)
(* validate, and an isolated lane that a compiling grammar leaves empty.   *)
EventuallyServed ==
  \A r \in Req :
    r \in waiting ~>
      \/ r \notin waiting \cup running
      \/ fault \in {"invalid-result", "isolated-lane-empty"}

=============================================================================
