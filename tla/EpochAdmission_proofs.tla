------------------------ MODULE EpochAdmission_proofs -----------------------
(***************************************************************************)
(* Why _host_isolation_reason is enough: when every eligible request fits  *)
(* a resident row, no more requests run than the graph has rows and ids    *)
(* are not used twice, schedule() never has to refuse Host execution for a *)
(* Device-owned request.                                                   *)
(***************************************************************************)
EXTENDS EpochScheduler_proofs

RequestsFit ==
  /\ \A s \in Shapes : Fits(s)
  /\ MaxRunning <= MaxBatch
  /\ ~ReuseIds

(* What the lanes keep true about the requests the Device owns. *)
LaneInv ==
  /\ waiting \cup running \cup owned \subseteq seen
  /\ \A r \in seen : Fits(shape[r])
  /\ Cardinality(running) <= MaxRunning
  /\ \A r \in owned \cup planned : shape[r].eligible
  /\ fault = "none" =>
       /\ waiting \cap owned = {}
       /\ \A r \in running \cap owned : outs[r] > 0
  /\ NeverRefuses

(* The state the scheduler is constructed in has empty lanes. *)
LEMMA InitLane == Init => LaneInv
  BY FS_EmptySet, SchedulerAssumption DEF Init, LaneInv, NeverRefuses

-----------------------------------------------------------------------------
(* A decoding request and a one-token prompt both need one token. *)
LEMMA OneToken ==
  ASSUME IndInv, fault = "none", phase = "idle",
         NEW adm \in SUBSET (waiting \ held), NEW chunk \in Chunks,
         NEW S \in SUBSET (running \cup adm), BaseSchedule(S, adm, chunk),
         NEW r \in S,
         r \in adm => Prompt(r) = 1,
         r \in running => outs[r] > 0 \/ computed[r] >= Prompt(r)
  PROVE  /\ toks'[r] = 1 /\ computed'[r] = NumTokens(r)
         /\ Remaining(r) >= 1 /\ Remaining(r) \in Nat
         /\ ~(Prompt(r) > 1 /\ outs[r] = 0)
         /\ Prompt(r) \in Nat /\ outs[r] \in Nat
<1>1. /\ r \in Req /\ outs[r] \in Nat /\ computed[r] \in Nat
      /\ Prompt(r) \in Nat \ {0} /\ shape[r].max \in Nat \ {0}
      /\ chunk \in Nat \ {0} /\ toks[r] = 0
  BY SchedulerAssumption DEF IndInv, TypeOK, ShapeType, Prompt, StepInv
<1>2. /\ Need(r) = (Prompt(r) + outs[r]) - computed[r]
      /\ NumTokens(r) = Prompt(r) + outs[r]
      /\ Remaining(r) = shape[r].max - outs[r]
  BY DEF Need, NumTokens, Remaining
<1>3. /\ outs[r] < shape[r].max
      /\ computed[r] = NumTokens(r) - 1
      /\ ~(Prompt(r) > 1 /\ outs[r] = 0)
  <2>1. CASE r \in adm
    <3>1. outs[r] = 0 /\ computed[r] = 0
      BY <2>1 DEF IndInv, StepInv, Fresh
    <3> QED
      BY <1>1, <1>2, <2>1, <3>1
  <2>2. CASE r \in running
    <3>1. Settled(r)
      BY <1>1, <2>2 DEF IndInv, StepInv
    <3>2. outs[r] # 0
      <4>1. CASE outs[r] > 0
        BY <1>1, <4>1
      <4>2. CASE computed[r] >= Prompt(r)
        BY <1>1, <3>1, <4>2 DEF Settled
      <4> QED
        BY <2>2, <4>1, <4>2
    <3> QED
      BY <1>1, <3>1, <3>2 DEF Settled
  <2> QED
    BY <2>1, <2>2
<1>4. Need(r) = 1
  BY <1>1, <1>2, <1>3
<1>5. toks'[r] = 1
  <2>1. Min2(chunk, Need(r)) = 1
    BY <1>1, <1>4 DEF Min2
  <2> QED
    BY <1>1, <2>1 DEF BaseSchedule
<1>6. computed'[r] = computed[r] + toks'[r]
  BY <1>1 DEF BaseSchedule
<1>7. Remaining(r) >= 1 /\ Remaining(r) \in Nat
  <2>1. outs[r] \in Nat /\ shape[r].max \in Nat /\ outs[r] < shape[r].max
    BY <1>1, <1>3
  <2> QED
    BY <2>1 DEF Remaining
<1>8. NumTokens(r) \in Nat
  BY <1>1, <1>2
<1>9. computed'[r] = NumTokens(r)
  BY <1>1, <1>3, <1>5, <1>6, <1>8
<1> QED
  BY <1>1, <1>3, <1>5, <1>7, <1>9

(* Admission never exceeds the slots. *)
LEMMA Slots ==
  ASSUME IndInv, Cardinality(running) <= MaxRunning,
         NEW adm \in SUBSET (waiting \ held), Admissible(adm)
  PROVE  /\ IsFiniteSet(running \cup adm)
         /\ Cardinality(running \cup adm) <= MaxRunning
         /\ adm # {} => Cardinality(running) < MaxRunning
<1>1. /\ IsFiniteSet(running) /\ IsFiniteSet(adm) /\ IsFiniteSet(waiting \ held)
      /\ Cardinality(running) \in Nat /\ Cardinality(adm) \in Nat
      /\ Cardinality(waiting \ held) \in Nat
  <2>1. /\ running \in SUBSET Req /\ adm \in SUBSET Req
        /\ waiting \ held \in SUBSET Req /\ IsFiniteSet(Req)
    BY SchedulerAssumption DEF IndInv, TypeOK
  <2> QED
    BY <2>1, FS_Subset, FS_CardinalityType
<1>2. running \cap adm = {}
  BY DEF IndInv, StepInv
<1>3. /\ IsFiniteSet(running \cup adm)
      /\ Cardinality(running \cup adm) = Cardinality(running) + Cardinality(adm)
  BY <1>1, <1>2, FS_Union, FS_EmptySet
<1>4. /\ Cardinality(adm) <= MaxRunning - Cardinality(running)
      /\ MaxRunning \in Nat
  <2>1. Cardinality(running) <= MaxRunning /\ MaxRunning \in Nat
    BY SchedulerAssumption
  <2> QED
    BY <1>1, <2>1 DEF Admissible, Min2
<1>5. adm # {} => Cardinality(adm) # 0
  BY <1>1, FS_EmptySet
<1> QED
  BY <1>1, <1>3, <1>4, <1>5

-----------------------------------------------------------------------------
(* In the isolated lane the batch has no Device-owned request and is not   *)
(* the whole running set, so that it becomes a plain stock step.           *)
LEMMA IsolatedStep ==
  ASSUME LaneInv, NEW adm \in SUBSET (waiting \ held), NEW chunk \in Chunks,
         Schedule(adm, chunk), HostIsolation
  PROVE  fault' = "none" /\ planned' = {} /\ owned' = owned
<1> DEFINE S == (running \ Paused) \cup adm
<1>1. /\ fault = "none" /\ running' = running \cup adm
      /\ \/ ~PlanCandidate(S) /\ UNCHANGED leaseVars /\ HostStep(S)
         \/ PlanCandidate(S) /\ MakePlan(S)
  BY DEF Schedule, BaseSchedule
<1>2. Paused = running \cap owned /\ running \cap owned # {}
  BY DEF Paused, HostIsolation, DeviceRunning
<1>3. waiting \cap owned = {}
  BY <1>1 DEF LaneInv
<1>4. S \cap owned = {}
  BY <1>2, <1>3
<1>5. S # running'
  BY <1>1, <1>2, <1>4
<1>6. owned' = owned /\ HostStep(S)
  BY <1>1, <1>5 DEF PlanCandidate, leaseVars
<1> QED
  BY <1>4, <1>6 DEF HostStep

(* A batch without a Device-owned request is never refused. *)
LEMMA HostBatchStep ==
  ASSUME NEW S, S \cap owned = {},
         \/ ~PlanCandidate(S) /\ UNCHANGED leaseVars /\ HostStep(S)
         \/ PlanCandidate(S) /\ MakePlan(S)
  PROVE  /\ NeverRefuses'
         /\ owned' \subseteq owned
         /\ \/ planned' = {}
            \/ planned' = S /\ \A r \in S : ~RequestRejected(r)
<1>1. ASSUME owned' \subseteq owned, HostStep(S)
      PROVE  NeverRefuses' /\ planned' = {}
  BY <1>1 DEF HostStep, NeverRefuses
<1>2. CASE ~PlanCandidate(S) /\ UNCHANGED leaseVars /\ HostStep(S)
  <2>1. owned' = owned
    BY <1>2 DEF leaseVars
  <2> QED
    BY <1>1, <1>2, <2>1
<1>3. CASE MakePlan(S)
  <2>1. CASE AllocatorExhausted(S) \/ GenerationsExhausted(S)
    <3>1. /\ Raise("allocator-exhausted") \/ Raise("generations-exhausted")
          /\ UNCHANGED leaseVars
      BY <1>3, <2>1 DEF MakePlan
    <3>2. owned' = owned
      BY <3>1 DEF leaseVars
    <3> QED
      BY <3>1, <3>2 DEF Raise, NeverRefuses
  <2>2. CASE ~(AllocatorExhausted(S) \/ GenerationsExhausted(S))
    <3>1. owned' \subseteq owned
      BY <1>3, <2>2 DEF MakePlan, AssignResidentRows
    <3>2. CASE HostStep(S)
      BY <1>1, <3>1, <3>2
    <3>3. CASE ~HostStep(S)
      <4>1. /\ \A r \in S : ~RequestRejected(r)
            /\ \E k \in EpochLadder : DeviceEpoch(S, k)
        BY <1>3, <2>2, <3>3 DEF MakePlan
      <4> QED
        BY <3>1, <4>1 DEF DeviceEpoch, NeverRefuses
    <3> QED
      BY <3>2, <3>3
  <2> QED
    BY <2>1, <2>2
<1> QED
  BY <1>2, <1>3

(* Without isolation next to a Device-owned request, the whole running set *)
(* decodes one token each and fits its rows, so that a plan is made.       *)
LEMMA SharedStep ==
  ASSUME IndInv, LaneInv, RequestsFit,
         NEW adm \in SUBSET (waiting \ held), NEW chunk \in Chunks,
         Schedule(adm, chunk), ~HostIsolation, DeviceRunning # {}
  PROVE  /\ NeverRefuses'
         /\ owned' \subseteq owned
         /\ planned' \subseteq running'
         /\ \A r \in running' : shape[r].eligible
<1> DEFINE S == (running \ Paused) \cup adm
<1>1. /\ fault = "none" /\ phase = "idle" /\ running' = running \cup adm
      /\ Admissible(adm) /\ BaseSchedule(S, adm, chunk)
      /\ \/ ~PlanCandidate(S) /\ UNCHANGED leaseVars /\ HostStep(S)
         \/ PlanCandidate(S) /\ MakePlan(S)
  BY DEF Schedule, BaseSchedule
<1>2. S = running \cup adm
  BY DEF Paused
<1>3. /\ IsFiniteSet(S) /\ Cardinality(S) <= MaxRunning
      /\ adm # {} => Cardinality(running) < MaxRunning
  BY <1>1, <1>2, Slots DEF LaneInv
<1>4. S \subseteq Req
  BY <1>2 DEF IndInv, TypeOK
<1>5. \A r \in adm : Prompt(r) = 1 /\ shape[r].eligible
  <2> SUFFICES ASSUME NEW r \in adm PROVE Prompt(r) = 1 /\ shape[r].eligible
    OBVIOUS
  <2>1. Prompt(r) \in Nat \ {0} /\ shape[r].eligible \in BOOLEAN
    BY <1>2, <1>4 DEF IndInv, TypeOK, ShapeType, Prompt
  <2>2. ~(Prompt(r) > 1 \/ ~shape[r].eligible)
    BY <1>3 DEF HostIsolation
  <2> QED
    BY <2>1, <2>2
<1>6. \A r \in running \ owned : shape[r].eligible /\ computed[r] >= Prompt(r)
  <2> SUFFICES ASSUME NEW r \in running \ owned
               PROVE  shape[r].eligible /\ computed[r] >= Prompt(r)
    OBVIOUS
  <2>1. Prompt(r) \in Nat /\ computed[r] \in Nat /\ r \in HostRunning
    BY <1>2, <1>4 DEF IndInv, TypeOK, ShapeType, Prompt, HostRunning
  <2>2. ~(~shape[r].eligible \/ computed[r] < Prompt(r))
    BY <2>1 DEF HostIsolation
  <2> QED
    BY <2>1, <2>2
<1>7. \A r \in S : /\ toks'[r] = 1 /\ computed'[r] = NumTokens(r)
                   /\ Remaining(r) >= 1 /\ Remaining(r) \in Nat
                   /\ ~(Prompt(r) > 1 /\ outs[r] = 0)
                   /\ Prompt(r) \in Nat /\ outs[r] \in Nat
  <2> SUFFICES ASSUME NEW r \in S
               PROVE  /\ toks'[r] = 1 /\ computed'[r] = NumTokens(r)
                      /\ Remaining(r) >= 1 /\ Remaining(r) \in Nat
                      /\ ~(Prompt(r) > 1 /\ outs[r] = 0)
                      /\ Prompt(r) \in Nat /\ outs[r] \in Nat
    OBVIOUS
  <2>1. /\ r \in adm => Prompt(r) = 1
        /\ r \in running => outs[r] > 0 \/ computed[r] >= Prompt(r)
    BY <1>1, <1>5, <1>6 DEF LaneInv
  <2>2. S \in SUBSET (running \cup adm)
    BY <1>2
  <2> HIDE DEF S
  <2> QED
    BY <1>1, <2>1, <2>2, OneToken
<1>8. \A r \in S : shape[r].eligible /\ r \in seen
  <2> SUFFICES ASSUME NEW r \in S PROVE shape[r].eligible /\ r \in seen
    OBVIOUS
  <2>1. r \in adm \/ r \in running \cap owned \/ r \in running \ owned
    BY <1>2
  <2> QED
    BY <1>5, <1>6, <2>1 DEF LaneInv
<1>9. PlanCandidate(S)
  <2>1. Cardinality(S) <= MaxBatch
    <3>1. /\ Cardinality(S) \in Nat /\ MaxRunning \in Nat /\ MaxBatch \in Nat
          /\ MaxRunning <= MaxBatch
      BY <1>3, FS_CardinalityType, SchedulerAssumption DEF RequestsFit
    <3> HIDE DEF S
    <3> QED
      BY <1>3, <3>1
  <2> QED
    BY <1>1, <1>2, <1>7, <2>1 DEF PlanCandidate
<1>10. MakePlan(S)
  BY <1>1, <1>9
<1>11. \A r \in S : /\ shape[r].max \in Nat \ {0} /\ Prompt(r) \in Nat
                    /\ (Prompt(r) + shape[r].max) - 1 <= Capacity
                    /\ Capacity \in Nat
  <2> SUFFICES ASSUME NEW r \in S
               PROVE  /\ shape[r].max \in Nat \ {0} /\ Prompt(r) \in Nat
                      /\ (Prompt(r) + shape[r].max) - 1 <= Capacity
                      /\ Capacity \in Nat
    OBVIOUS
  <2>1. /\ shape[r].max \in Nat \ {0} /\ shape[r].prompt \in Nat
        /\ Capacity \in Nat
    BY <1>4, SchedulerAssumption DEF IndInv, TypeOK, ShapeType
  <2>2. Fits(shape[r])
    BY <1>8 DEF LaneInv
  <2>3. shape[r].prompt + shape[r].max - 1 <= Capacity
    BY <1>8, <2>2 DEF Fits
  <2> QED
    BY <2>1, <2>3 DEF Prompt
<1>12. \A r \in S : ~RequestRejected(r)
  <2> SUFFICES ASSUME NEW r \in S PROVE ~RequestRejected(r)
    OBVIOUS
  <2>1. Prompt(r) <= Capacity
    BY <1>11
  <2>2. /\ shape[r].eligible /\ ~(Prompt(r) > Capacity)
        /\ ~(Remaining(r) < 1)
    BY <1>7, <1>8, <1>11, <2>1
  <2> QED
    BY <1>7, <2>2 DEF RequestRejected
<1>13. ASSUME NEW k \in EpochLadder, EpochSteps(k, S) PROVE ~OverCapacity(S, k)
  <2> SUFFICES ASSUME NEW r \in S PROVE ~((computed'[r] - 1) + k > Capacity)
    BY DEF OverCapacity
  <2>1. k <= Remaining(r) /\ k \in Nat
    BY <1>13 DEF EpochSteps, EpochFits, EpochLadder
  <2>2. /\ computed'[r] = Prompt(r) + outs[r]
        /\ Remaining(r) = shape[r].max - outs[r]
    BY <1>7 DEF NumTokens, Remaining
  <2>3. outs[r] \in Nat
    BY <1>7
  <2>4. /\ shape[r].max \in Nat \ {0} /\ Prompt(r) \in Nat
        /\ (Prompt(r) + shape[r].max) - 1 <= Capacity
        /\ Capacity \in Nat
    BY <1>11
  <2> QED
    BY <2>1, <2>2, <2>3, <2>4
<1>14. owned' \subseteq owned
  BY <1>10 DEF MakePlan, AssignResidentRows, leaseVars
<1>15. NeverRefuses' /\ planned' \subseteq S
  <2>1. CASE AllocatorExhausted(S) \/ GenerationsExhausted(S)
    BY <1>10, <2>1 DEF MakePlan, Raise, NeverRefuses
  <2>2. CASE ~(AllocatorExhausted(S) \/ GenerationsExhausted(S))
    <3>1. \E k \in EpochLadder : DeviceEpoch(S, k)
      BY <1>10, <1>12, <1>13, <2>2 DEF MakePlan
    <3> QED
      BY <3>1 DEF DeviceEpoch, NeverRefuses
  <2> QED
    BY <2>1, <2>2
<1> QED
  BY <1>1, <1>2, <1>8, <1>14, <1>15

-----------------------------------------------------------------------------
(* schedule() never refuses, and what it hands to the Device is eligible. *)
LEMMA ScheduleLane ==
  ASSUME IndInv, LaneInv, RequestsFit,
         NEW adm \in SUBSET (waiting \ held), NEW chunk \in Chunks,
         Schedule(adm, chunk)
  PROVE  LaneInv'
<1> DEFINE S == (running \ Paused) \cup adm
<1>1. /\ fault = "none" /\ Admissible(adm)
      /\ waiting' = waiting \ adm /\ running' = running \cup adm
      /\ outs' = outs /\ shape' = shape /\ seen' = seen
      /\ \/ ~PlanCandidate(S) /\ UNCHANGED leaseVars /\ HostStep(S)
         \/ PlanCandidate(S) /\ MakePlan(S)
  BY DEF Schedule, BaseSchedule, clientVars
<1>2. /\ NeverRefuses' /\ owned' \subseteq owned
      /\ \A r \in planned' : shape[r].eligible
  <2>1. CASE HostIsolation
    BY <2>1, IsolatedStep DEF NeverRefuses
  <2>2. CASE ~HostIsolation /\ DeviceRunning # {}
    BY <2>2, SharedStep
  <2>3. CASE DeviceRunning = {}
    <3>1. S \cap owned = {}
      BY <1>1, <2>3 DEF DeviceRunning, LaneInv
    <3> HIDE DEF S
    <3>2. /\ NeverRefuses' /\ owned' \subseteq owned
          /\ \/ planned' = {}
             \/ planned' = S /\ \A r \in S : ~RequestRejected(r)
      BY <1>1, <3>1, HostBatchStep
    <3>3. \A r \in S : ~RequestRejected(r) => shape[r].eligible
      BY DEF RequestRejected
    <3> QED
      BY <3>2, <3>3
  <2> QED
    BY <2>1, <2>2, <2>3
<1>3. Cardinality(running') <= MaxRunning
  BY <1>1, Slots DEF LaneInv
<1>4. waiting' \cup running' \cup owned' \subseteq seen'
  BY <1>1, <1>2 DEF LaneInv
<1>5. waiting' \cap owned' = {} /\ \A r \in running' \cap owned' : outs'[r] > 0
  BY <1>1, <1>2 DEF LaneInv
<1>6. \A r \in seen' : Fits(shape[r])'
  BY <1>1 DEF LaneInv, Fits
<1>7. \A r \in owned' \cup planned' : shape'[r].eligible
  BY <1>1, <1>2 DEF LaneInv
<1> QED
  BY <1>2, <1>3, <1>4, <1>5, <1>6, <1>7 DEF LaneInv

(* A fresh id is not owned by the Device. *)
LEMMA AddRequestLane ==
  ASSUME IndInv, LaneInv, RequestsFit,
         NEW r \in Req, NEW s \in Shapes, AddRequest(r, s)
  PROVE  LaneInv'
<1>1. /\ fault = "none" /\ phase = "idle" /\ r \notin seen
      /\ shape' = [shape EXCEPT ![r] = s] /\ seen' = seen \cup {r}
      /\ waiting' = waiting \cup {r} /\ running' = running
      /\ outs' = [outs EXCEPT ![r] = 0]
      /\ owned' = owned /\ planned' = planned /\ fault' = fault
  BY DEF AddRequest, RequestsFit, leaseVars, stepVars
<1>2. planned = {}
  BY <1>1 DEF IndInv, StepInv
<1>3. r \notin owned /\ r \notin running
  BY <1>1 DEF LaneInv
<1>4. \A q \in Req : /\ q # r => shape'[q] = shape[q] /\ outs'[q] = outs[q]
                     /\ q = r => shape'[q] = s
  BY <1>1 DEF IndInv, TypeOK
<1>5. running \subseteq Req /\ owned \subseteq Req /\ seen \subseteq Req
  BY DEF IndInv, TypeOK
<1>6. \A q \in seen' : Fits(shape[q])'
  <2> SUFFICES ASSUME NEW q \in seen' PROVE Fits(shape'[q])
    BY DEF Fits
  <2>1. CASE q = r
    BY <1>4, <2>1 DEF RequestsFit
  <2>2. CASE q # r
    <3>1. q \in seen /\ shape'[q] = shape[q]
      BY <1>1, <1>4, <1>5, <2>2
    <3> QED
      BY <3>1 DEF LaneInv
  <2> QED
    BY <2>1, <2>2
<1>7. \A q \in owned' \cup planned' : shape'[q].eligible
  BY <1>1, <1>2, <1>3, <1>4, <1>5 DEF LaneInv
<1>8. waiting' \cap owned' = {} /\ \A q \in running' \cap owned' : outs'[q] > 0
  BY <1>1, <1>3, <1>4, <1>5 DEF LaneInv
<1>9. /\ waiting' \cup running' \cup owned' \subseteq seen'
      /\ Cardinality(running') <= MaxRunning /\ NeverRefuses'
  BY <1>1 DEF LaneInv, NeverRefuses
<1> QED
  BY <1>6, <1>7, <1>8, <1>9 DEF LaneInv

(* A smaller running set stays within the slots. *)
LEMMA FewerRunning ==
  ASSUME IndInv, Cardinality(running) <= MaxRunning, running' \subseteq running
  PROVE  Cardinality(running') <= MaxRunning
<1>1. IsFiniteSet(running)
  BY FS_Subset, SchedulerAssumption DEF IndInv, TypeOK
<1>2. /\ IsFiniteSet(running') /\ Cardinality(running') <= Cardinality(running)
      /\ Cardinality(running) \in Nat /\ Cardinality(running') \in Nat
  BY <1>1, FS_Subset, FS_CardinalityType
<1>3. Cardinality(running) <= MaxRunning /\ MaxRunning \in Nat
  BY SchedulerAssumption
<1> QED
  BY <1>2, <1>3

(* An aborted request leaves only its lease behind. *)
LEMMA AbortRequestLane ==
  ASSUME IndInv, LaneInv, NEW r \in Req, AbortRequest(r)
  PROVE  LaneInv'
<1>1. /\ fault = "none" /\ fault' = fault /\ shape' = shape /\ seen' = seen
      /\ waiting' \subseteq waiting /\ running' \subseteq running
      /\ outs' = outs /\ owned' = owned /\ planned' = planned
  BY DEF AbortRequest, clientVars, leaseVars, stepVars
<1>2. Cardinality(running') <= MaxRunning
  BY <1>1, FewerRunning DEF LaneInv
<1>3. \A q \in seen' : Fits(shape[q])'
  BY <1>1 DEF LaneInv, Fits
<1>4. waiting' \cap owned' = {} /\ \A q \in running' \cap owned' : outs'[q] > 0
  BY <1>1 DEF LaneInv
<1> QED
  BY <1>1, <1>2, <1>3, <1>4 DEF LaneInv, NeverRefuses

(* A validated plan has at least one token for each of its requests. *)
LEMMA PlannedAppends ==
  ASSUME IndInv, fault = "none", phase = "done", ValidResult, NEW r \in planned
  PROVE  Appended(r) >= 1 /\ r \in Scheduled
<1>1. /\ r \in Req /\ outs[r] \in Nat /\ shape[r].max \in Nat
      /\ res.got[r] \in Nat /\ res.eos[r] \in Nat /\ steps \in Nat
  BY DEF IndInv, TypeOK, ShapeType
<1>2. steps <= Remaining(r) /\ r \in Scheduled
  BY DEF IndInv, StepInv, Planned
<1>3. res.got[r] >= 1 /\ res.got[r] <= steps
  BY <1>1 DEF ValidResult
<1>4. Remaining(r) \in Int
  BY <1>1 DEF Remaining
<1> QED
  BY <1>1, <1>2, <1>3, <1>4 DEF Appended, Min2

(* A plan that is committed has decoded at least one token of each of its  *)
(* requests, all of which are running.                                     *)
LEMMA CommitLane ==
  ASSUME IndInv, LaneInv, fault = "none", phase = "done", ValidResult,
         planned \subseteq running, Commit
  PROVE  LaneInv'
<1>1. /\ fault' = fault /\ shape' = shape /\ seen' = seen /\ waiting' = waiting
      /\ running' \subseteq running /\ planned' = {}
      /\ owned' \subseteq owned \cup planned
      /\ outs' = [r \in Req |-> IF r \in Scheduled \cap running
                                THEN outs[r] + Appended(r) ELSE outs[r]]
  BY DEF Commit, clientVars
<1>2. running \subseteq Req /\ waiting \cap running = {}
  BY DEF IndInv, TypeOK, StepInv
<1>3. \A r \in running : outs[r] \in Nat /\ outs[r] + Appended(r) \in Nat
  BY <1>2, CommitFacts DEF IndInv, TypeOK
<1>4. ASSUME NEW r \in running PROVE Appended(r) \in Nat
  <2>1. /\ r \in Req /\ outs[r] \in Nat /\ shape[r].max \in Nat
        /\ res.got[r] \in Nat /\ res.eos[r] \in Nat
    BY <1>2 DEF IndInv, TypeOK, ShapeType
  <2>2. outs[r] < shape[r].max
    BY <1>2, <2>1 DEF IndInv, StepInv, Settled, InStep
  <2>3. Remaining(r) \in Nat
    BY <2>1, <2>2 DEF Remaining
  <2> QED
    BY <2>1, <2>3 DEF Appended, Min2
<1>5. \A r \in planned : Appended(r) >= 1 /\ r \in Scheduled
  BY PlannedAppends
<1>6. waiting' \cap owned' = {}
  BY <1>1, <1>2 DEF LaneInv
<1>7. ASSUME NEW r \in running' \cap owned' PROVE outs'[r] > 0
  <2>1. r \in running /\ r \in Req
    BY <1>1, <1>2
  <2>2. outs[r] \in Nat /\ Appended(r) \in Nat
    BY <1>3, <1>4, <2>1
  <2>3. CASE r \in planned
    <3>1. outs'[r] = outs[r] + Appended(r)
      BY <1>1, <1>5, <2>1, <2>3
    <3> QED
      BY <1>5, <2>2, <2>3, <3>1
  <2>4. CASE r \in owned
    <3>1. outs[r] > 0
      BY <2>1, <2>4 DEF LaneInv
    <3>2. outs'[r] = outs[r] + Appended(r) \/ outs'[r] = outs[r]
      BY <1>1, <2>1
    <3> QED
      BY <2>2, <3>1, <3>2
  <2> QED
    BY <1>1, <2>3, <2>4
<1>8. Cardinality(running') <= MaxRunning
  BY <1>1, FewerRunning DEF LaneInv
<1>9. \A r \in seen' : Fits(shape[r])'
  BY <1>1 DEF LaneInv, Fits
<1>10. waiting' \cup running' \cup owned' \subseteq seen'
  BY <1>1 DEF LaneInv
<1>11. \A r \in owned' \cup planned' : shape'[r].eligible
  BY <1>1 DEF LaneInv
<1> QED
  BY <1>1, <1>6, <1>7, <1>8, <1>9, <1>10, <1>11 DEF LaneInv, NeverRefuses

(* The steps that leave the lanes alone and do not refuse. *)
LEMMA SameLanes ==
  ASSUME LaneInv, NeverRefuses', fault = "none" \/ fault' = fault,
         UNCHANGED <<clientVars, waiting, running, outs, owned, planned>>
  PROVE  LaneInv'
  BY DEF LaneInv, Fits, clientVars

(* Every step preserves the lane invariant. *)
LEMMA NextLane ==
  ASSUME RequestsFit, IndInv, LaneInv, [Next]_schedVars
  PROVE  LaneInv'
<1>1. ASSUME NEW r \in Req, NEW s \in Shapes, AddRequest(r, s) PROVE LaneInv'
  BY <1>1, AddRequestLane
<1>2. ASSUME NEW r \in Req, GrammarReady(r) PROVE LaneInv'
  <2>1. /\ fault' = fault
        /\ UNCHANGED <<clientVars, waiting, running, outs, owned, planned>>
    BY <1>2 DEF GrammarReady, leaseVars, stepVars
  <2> QED
    BY <2>1, SameLanes DEF LaneInv, NeverRefuses
<1>3. ASSUME NEW r \in Req, AbortRequest(r) PROVE LaneInv'
  BY <1>3, AbortRequestLane
<1>4. ASSUME NEW adm \in SUBSET (waiting \ held), NEW chunk \in Chunks,
             Schedule(adm, chunk)
      PROVE  LaneInv'
  BY <1>4, ScheduleLane
<1>5. CASE ScheduleIsolatedEmpty
  BY <1>5, SameLanes
     DEF ScheduleIsolatedEmpty, baseVars, leaseVars, stepVars, NeverRefuses
<1>6. CASE ExecuteHost \/ ExecutePlan
  <2>1. /\ fault' = fault
        /\ UNCHANGED <<clientVars, waiting, running, outs, owned, planned>>
    BY <1>6 DEF ExecuteHost, ExecutePlan, baseVars, leaseVars
  <2> QED
    BY <2>1, SameLanes DEF LaneInv, NeverRefuses
<1>7. CASE UpdateFromOutput
  <2>1. fault = "none" /\ phase = "done"
    BY <1>7 DEF UpdateFromOutput
  <2>2. \/ UpdateFault("invalid-result") \/ UpdateFault("missing-request")
        \/ UpdateFault("over-advance")
        \/ ValidResult /\ planned \subseteq running /\ Commit
    BY <1>7 DEF UpdateFromOutput
  <2>3. ASSUME NEW f \in {"invalid-result", "missing-request", "over-advance"},
               UpdateFault(f)
        PROVE  LaneInv'
    BY <2>1, <2>3, SameLanes
       DEF UpdateFault, baseVars, leaseVars, stepVars, NeverRefuses
  <2>4. CASE ValidResult /\ planned \subseteq running /\ Commit
    BY <2>1, <2>4, CommitLane
  <2> QED
    BY <2>2, <2>3, <2>4
<1>8. CASE UNCHANGED schedVars
  <2>1. /\ fault' = fault
        /\ UNCHANGED <<clientVars, waiting, running, outs, owned, planned>>
    BY <1>8 DEF schedVars, baseVars, leaseVars, stepVars
  <2> QED
    BY <2>1, SameLanes DEF LaneInv, NeverRefuses
<1> QED
  BY <1>1, <1>2, <1>3, <1>4, <1>5, <1>6, <1>7, <1>8
     DEF Next, ClientNext, ScheduleNext

(* _host_isolation_reason is sufficient: when every eligible request fits  *)
(* a resident row, a batch fits the graph and ids are not used twice,      *)
(* schedule() never raises "refusing Host execution for Device-owned       *)
(* requests", for any number of requests, rows and steps.                  *)
THEOREM IsolationSuffices ==
  ASSUME RequestsFit
  PROVE  Spec => []NeverRefuses
<1>1. IndInv /\ LaneInv /\ [Next]_schedVars => IndInv' /\ LaneInv'
  BY NextInd, NextLane
<1>2. LaneInv => NeverRefuses
  BY DEF LaneInv
<1> QED
  BY <1>1, <1>2, InitInd, InitLane, PTL DEF Spec
=============================================================================
