----------------------- MODULE EpochScheduler_proofs ------------------------
(***************************************************************************)
(* Theorems about EpochScheduler, for every set of requests, every shape   *)
(* of request and every configuration that SchedulerAssumption allows.     *)
(***************************************************************************)
EXTENDS EpochScheduler, FiniteSetTheorems, TLAPS

(***************************************************************************)
(* The strengthening of AccountingExact: what holds between the three      *)
(* calls of an engine step as well.                                        *)
(***************************************************************************)

(* r is in the batch of this step and was settled before it. *)
InStep(r) ==
  /\ outs[r] < shape[r].max
  /\ computed[r] <= NumTokens(r)
  /\ IF outs[r] = 0 THEN computed[r] - toks[r] < Prompt(r)
                    ELSE computed[r] - toks[r] = NumTokens(r) - 1

Fresh(r) == outs[r] = 0 /\ computed[r] = 0

(* What a plan says of a request of its own. *)
Planned(r) ==
  /\ toks[r] = 1
  /\ computed[r] = NumTokens(r)
  /\ steps <= Remaining(r)

(* What may come back for the batch. *)
Answer ==
  IF planned = {}
  THEN /\ res.route = "host"
       /\ \A r \in Req : res.got[r] = StockTokens[r] /\ res.eos[r] <= res.got[r]
  ELSE /\ res.route \in {"device", "host_fallback"}
       /\ \A r \in Req \ planned : res.got[r] = 0 /\ res.eos[r] = 0
       /\ \A r \in planned : res.eos[r] <= res.got[r]

StepInv ==
  /\ \A r \in Req : toks[r] <= computed[r]
  /\ waiting \cap running = {}
  /\ fault = "none" =>
       /\ \A r \in waiting : Fresh(r) /\ toks[r] = 0
       /\ phase = "idle" => planned = {} /\ \A r \in Req : toks[r] = 0
       /\ \A r \in running : IF toks[r] = 0 THEN Settled(r) ELSE InStep(r)
       /\ planned # {} => planned = Scheduled
       /\ \A r \in planned : Planned(r)
       /\ phase = "done" => Answer

(* LeaseSafety, and a batch for the stock model has no Device-owned        *)
(* request in it.                                                          *)
HostBatch ==
  fault = "none" /\ planned = {} => \A r \in owned : toks[r] = 0

LeaseInv == LeaseSafety /\ HostBatch /\ planned \subseteq Leased

IndInv == TypeOK /\ StepInv /\ LeaseInv /\ SanityChecksHold

-----------------------------------------------------------------------------
(* The state the scheduler is constructed in satisfies the invariant. *)
LEMMA InitInd == Init => IndInv
<1> SUFFICES ASSUME Init PROVE IndInv
  OBVIOUS
<1> USE SchedulerAssumption DEF Init, NoTokens, NoResult, NoRow
<1>1. TypeOK
  <2>1. (CHOOSE s \in Shapes : TRUE) \in ShapeType
    OBVIOUS
  <2> QED
    BY <2>1 DEF TypeOK, Faults
<1>2. StepInv
  BY DEF StepInv
<1>3. LeaseInv /\ SanityChecksHold
  BY DEF LeaseInv, LeaseSafety, Leased, HostBatch, SanityChecksHold
<1> QED
  BY <1>1, <1>2, <1>3 DEF IndInv

(* A new request starts with nothing computed. *)
LEMMA AddRequestInd ==
  ASSUME NEW r \in Req, NEW s \in Shapes, IndInv, AddRequest(r, s)
  PROVE  IndInv'
<1> USE DEF IndInv, AddRequest, leaseVars, stepVars
<1>1. TypeOK'
  BY SchedulerAssumption DEF TypeOK
<1>2. StepInv'
  <2> USE DEF TypeOK, StepInv
  <2>1. \A q \in Req : toks'[q] = 0 /\ computed'[q] >= 0
    OBVIOUS
  <2>2. \A q \in waiting' : outs'[q] = 0 /\ computed'[q] = 0
    BY DEF Fresh
  <2>3. \A q \in running' :
          /\ q # r
          /\ shape'[q] = shape[q] /\ outs'[q] = outs[q]
          /\ computed'[q] = computed[q] /\ toks'[q] = toks[q]
    OBVIOUS
  <2>4. \A q \in running' : Settled(q)'
    BY <2>3 DEF Settled, Prompt, NumTokens
  <2> QED
    BY <2>1, <2>2, <2>4 DEF Fresh, Scheduled, Planned
<1>3. LeaseInv' /\ SanityChecksHold'
  BY DEF LeaseInv, LeaseSafety, Leased, HostBatch, SanityChecksHold
<1> QED
  BY <1>1, <1>2, <1>3

(* The lease and the accounting do not look at grammars. *)
LEMMA GrammarReadyInd ==
  ASSUME NEW r \in Req, IndInv, GrammarReady(r)
  PROVE  IndInv'
<1> USE DEF IndInv, GrammarReady, leaseVars, stepVars, clientVars
<1>1. TypeOK'
  BY DEF TypeOK
<1>2. StepInv'
  BY DEF StepInv, Fresh, Settled, InStep, Prompt, NumTokens, Scheduled,
         Planned, Remaining, Answer, StockTokens
<1>3. LeaseInv' /\ SanityChecksHold'
  BY DEF LeaseInv, LeaseSafety, Leased, HostBatch, SanityChecksHold
<1> QED
  BY <1>1, <1>2, <1>3

(* An abort, in the middle of a step too, leaves the counters alone. *)
LEMMA AbortRequestInd ==
  ASSUME NEW r \in Req, IndInv, AbortRequest(r)
  PROVE  IndInv'
<1> USE DEF IndInv, AbortRequest, leaseVars, stepVars, clientVars
<1>1. TypeOK'
  BY DEF TypeOK
<1>2. StepInv'
  BY DEF StepInv, Fresh, Settled, InStep, Prompt, NumTokens, Scheduled,
         Planned, Remaining, Answer, StockTokens
<1>3. LeaseInv' /\ SanityChecksHold'
  BY DEF LeaseInv, LeaseSafety, Leased, HostBatch, SanityChecksHold
<1> QED
  BY <1>1, <1>2, <1>3

-----------------------------------------------------------------------------
(***************************************************************************)
(* schedule()                                                              *)
(***************************************************************************)

(* The base scheduler gives every request of the batch at least one token  *)
(* and never more than it has.                                             *)
LEMMA BaseScheduleFacts ==
  ASSUME NEW S, NEW adm, NEW chunk \in Chunks,
         IndInv, fault = "none", phase = "idle",
         adm \subseteq waiting \ held, adm \subseteq S,
         S \subseteq running \cup adm,
         BaseSchedule(S, adm, chunk), UNCHANGED clientVars
  PROVE  /\ waiting' \subseteq Req /\ held' \subseteq waiting'
         /\ running' \subseteq Req /\ waiting' \cap running' = {}
         /\ outs' = outs
         /\ toks' \in [Req -> Nat] /\ computed' \in [Req -> Nat]
         /\ \A r \in Req : toks'[r] <= computed'[r]
         /\ \A r \in Req : r \in S <=> toks'[r] > 0
         /\ \A r \in S : InStep(r)'
         /\ \A r \in running' \ S : Settled(r)'
         /\ \A r \in waiting' : Fresh(r)' /\ toks'[r] = 0
<1> USE DEF IndInv, BaseSchedule, clientVars
<1>1. chunk \in Nat \ {0}
  BY SchedulerAssumption
<1>2. \A r \in S : /\ r \in Req /\ Need(r) \in Nat \ {0}
                   /\ outs[r] < shape[r].max
                   /\ IF outs[r] = 0 THEN computed[r] < Prompt(r)
                                     ELSE computed[r] = NumTokens(r) - 1
  <2> SUFFICES ASSUME NEW r \in S
               PROVE  /\ r \in Req /\ Need(r) \in Nat \ {0}
                      /\ Settled(r)
    BY DEF Settled
  <2>1. /\ r \in Req /\ outs[r] \in Nat /\ computed[r] \in Nat
        /\ Prompt(r) \in Nat \ {0} /\ shape[r].max \in Nat \ {0}
    BY DEF TypeOK, ShapeType, Prompt
  <2>2. Settled(r)
    <3>1. CASE r \in adm
      <4>1. outs[r] = 0 /\ computed[r] = 0
        BY <3>1 DEF StepInv, Fresh
      <4> QED
        BY <2>1, <4>1 DEF Settled
    <3>2. CASE r \in running
      <4>1. toks[r] = 0
        BY <2>1 DEF StepInv
      <4> QED
        BY <4>1, <3>2 DEF StepInv
    <3> QED
      BY <3>1, <3>2
  <2> QED
    <3>1. Need(r) = (Prompt(r) + outs[r]) - computed[r]
      BY DEF Need, NumTokens
    <3>2. IF outs[r] = 0 THEN computed[r] < Prompt(r)
                         ELSE computed[r] = (Prompt(r) + outs[r]) - 1
      BY <2>2 DEF Settled, NumTokens
    <3> QED
      BY <2>1, <2>2, <3>1, <3>2
<1>3. \A r \in Req : Min2(chunk, Need(r)) = IF chunk <= Need(r) THEN chunk ELSE Need(r)
  BY DEF Min2
<1>4. \A r \in S : toks'[r] \in 1 .. Need(r)
  BY <1>1, <1>2, <1>3
<1>5. \A r \in Req \ S : toks'[r] = 0
  OBVIOUS
<1>6. toks' \in [Req -> Nat]
  <2> HIDE DEF BaseSchedule
  <2>1. \A r \in Req : toks'[r] \in Nat
    BY <1>2, <1>4, <1>5
  <2>2. toks' = [r \in Req |-> toks'[r]]
    BY DEF BaseSchedule
  <2> QED
    BY <2>1, <2>2
<1>7. \A r \in Req : computed'[r] = computed[r] + toks'[r]
  OBVIOUS
<1>8. computed' \in [Req -> Nat]
  BY <1>6 DEF TypeOK
<1>9. /\ waiting' \subseteq Req /\ held' \subseteq waiting'
      /\ running' \subseteq Req /\ waiting' \cap running' = {}
      /\ outs' = outs
  BY DEF TypeOK, StepInv
<1>10. /\ shape' = shape
       /\ waiting' \subseteq waiting \ S
       /\ running' \ S \subseteq running
  <2>1. waiting \cap running = {}
    BY DEF StepInv
  <2> QED
    BY <2>1
<1> HIDE DEF BaseSchedule
<1>11. \A r \in S : InStep(r)'
  <2> SUFFICES ASSUME NEW r \in S PROVE InStep(r)'
    OBVIOUS
  <2>1. /\ outs[r] \in Nat /\ computed[r] \in Nat /\ Prompt(r) \in Nat
        /\ toks'[r] \in Nat
    BY <1>2, <1>6 DEF TypeOK, ShapeType, Prompt
  <2> QED
    BY <2>1, <1>2, <1>4, <1>7, <1>9, <1>10
    DEF InStep, Need, NumTokens, Prompt
<1>12. \A r \in running' \ S : Settled(r)'
  <2> SUFFICES ASSUME NEW r \in running' \ S PROVE Settled(r)'
    OBVIOUS
  <2>1. r \in running /\ r \in Req /\ toks'[r] = 0 /\ computed[r] \in Nat
    BY <1>5, <1>9, <1>10 DEF TypeOK
  <2>2. Settled(r)
    BY <2>1 DEF StepInv
  <2> QED
    BY <2>1, <2>2, <1>7, <1>9, <1>10 DEF Settled, NumTokens, Prompt
<1>13. \A r \in waiting' : Fresh(r)' /\ toks'[r] = 0
  <2> SUFFICES ASSUME NEW r \in waiting' PROVE Fresh(r)' /\ toks'[r] = 0
    OBVIOUS
  <2>1. r \in Req /\ r \in waiting /\ toks'[r] = 0
    BY <1>5, <1>9, <1>10
  <2> QED
    BY <2>1, <1>7, <1>9 DEF StepInv, Fresh
<1> QED
  BY <1>2, <1>4, <1>5, <1>6, <1>7, <1>8, <1>9, <1>11, <1>12, <1>13 DEF TypeOK

(* Generations are handed out in the order of the rows, so different rows  *)
(* get different ones.                                                     *)
LEMMA RankInjective ==
  ASSUME NEW T \in SUBSET Int, IsFiniteSet(T), NEW x \in T, NEW y \in T, x < y
  PROVE  Rank(x, T) \in Nat /\ Rank(y, T) \in Nat /\ Rank(x, T) < Rank(y, T)
<1> DEFINE X == {z \in T : z < x}
           Y == {z \in T : z < y}
<1>1. IsFiniteSet(Y) /\ Cardinality(Y) \in Nat
  BY FS_Subset, FS_CardinalityType
<1>2. X \subseteq Y /\ X # Y
  <2>1. x \in Y /\ x \notin X
    OBVIOUS
  <2>2. X \subseteq Y
    <3> SUFFICES ASSUME NEW z \in X PROVE z \in Y
      OBVIOUS
    <3>1. z \in T /\ z \in Int /\ x \in Int /\ y \in Int /\ z < x
      OBVIOUS
    <3> QED
      BY <3>1
  <2> HIDE DEF X, Y
  <2> QED
    BY <2>1, <2>2
<1>3. /\ IsFiniteSet(X) /\ Cardinality(X) \in Nat
      /\ Cardinality(X) <= Cardinality(Y) /\ Cardinality(X) # Cardinality(Y)
  BY <1>1, <1>2, FS_Subset, FS_CardinalityType
<1> QED
  BY <1>1, <1>3 DEF Rank

(* The rows a batch leaves free are finitely many integers. *)
LEMMA FreeRowsFinite ==
  ASSUME NEW S
  PROVE  FreeRows(S) \subseteq Row /\ Row \subseteq Int /\ IsFiniteSet(FreeRows(S))
<1>1. IsFiniteSet(Row)
  BY FS_Interval, SchedulerAssumption DEF Row
<1> QED
  BY <1>1, FS_Subset, SchedulerAssumption DEF FreeRows, Row

(* The allocator has a row for every new request of a batch that fits the  *)
(* graph: the others of the batch hold as many rows as they are.           *)
LEMMA AllocatorNeverExhausted ==
  ASSUME NEW S \in SUBSET Req, TypeOK, Cardinality(S) <= MaxBatch
  PROVE  ~AllocatorExhausted(S) /\ Cardinality(New(S)) \in Nat
<1> DEFINE K == S \ New(S)
           Used == {rows[r] : r \in K}
           f == [r \in K |-> rows[r]]
<1>1. /\ IsFiniteSet(S) /\ IsFiniteSet(New(S)) /\ IsFiniteSet(K)
      /\ Cardinality(S) \in Nat /\ Cardinality(New(S)) \in Nat
      /\ Cardinality(K) \in Nat
  BY SchedulerAssumption, FS_Subset, FS_CardinalityType DEF New
<1>2. Cardinality(K) = Cardinality(S) - Cardinality(New(S))
  <2>1. S \cap New(S) = New(S)
    BY DEF New
  <2> QED
    BY <1>1, <2>1, FS_Difference
<1>3. f \in Surjection(K, Used)
  BY DEF Surjection
<1>4. IsFiniteSet(Used) /\ Cardinality(Used) <= Cardinality(K)
      /\ Cardinality(Used) \in Nat
  BY <1>1, <1>3, FS_Surjection, FS_CardinalityType
<1>5. FreeRows(S) = Row \ Used
  BY DEF FreeRows, New, NoRow, Row, TypeOK
<1>6. Row \cap Used = Used
  BY DEF New, TypeOK
<1>7. IsFiniteSet(Row) /\ Cardinality(Row) = MaxBatch
  BY FS_Interval, SchedulerAssumption DEF Row
<1>8. Cardinality(FreeRows(S)) = MaxBatch - Cardinality(Used)
  BY <1>5, <1>6, <1>7, FS_Difference
<1> QED
  BY <1>1, <1>2, <1>4, <1>8, SchedulerAssumption DEF AllocatorExhausted

(* _assign_resident_rows keeps the leases safe and touches no lease of a   *)
(* request that stays in the batch.                                        *)
LEMMA AssignFacts ==
  ASSUME NEW S \in SUBSET Req, TypeOK, LeaseSafety,
         Cardinality(New(S)) \in Nat,
         NEW f \in RowChoices(S), AssignResidentRows(S, f)
  PROVE  /\ rows' \in [Req -> Row \cup {NoRow}] /\ gens' \in [Req -> Nat]
         /\ owned' \subseteq owned /\ nextGen' \in Nat \ {0}
         /\ LeaseSafety' /\ Leased' = S
         /\ \A r \in New(S) : gens'[r] >= nextGen
         /\ \A r \in S \ New(S) : /\ rows'[r] = rows[r] /\ gens'[r] = gens[r]
                                  /\ r \in owned => r \in owned'
         /\ \A r \in Req \ S : rows'[r] = NoRow
<1> DEFINE T == FreeRows(S)
           N == New(S)
<1>1. T \subseteq Row /\ T \subseteq Int /\ IsFiniteSet(T)
  BY FreeRowsFinite
<1>2. \A r \in N : r \in S /\ r \in Req /\ f[r] \in T /\ Rank(f[r], T) < Cardinality(N)
  BY DEF RowChoices, New
<1>3. \A q, r \in N : q # r => f[q] # f[r]
  BY DEF RowChoices
<1>4. \A r \in N : Rank(f[r], T) \in Nat
  <2> SUFFICES ASSUME NEW r \in N PROVE Rank(f[r], T) \in Nat
    OBVIOUS
  <2>1. {y \in T : y < f[r]} \in SUBSET T
    OBVIOUS
  <2> QED
    BY <1>1, <2>1, FS_Subset, FS_CardinalityType DEF Rank
<1>5. \A q, r \in N : q # r => Rank(f[q], T) # Rank(f[r], T)
  <2> SUFFICES ASSUME NEW q \in N, NEW r \in N, q # r
               PROVE  Rank(f[q], T) # Rank(f[r], T)
    OBVIOUS
  <2>1. f[q] \in T /\ f[r] \in T /\ f[q] # f[r] /\ f[q] \in Int /\ f[r] \in Int
    BY <1>1, <1>2, <1>3
  <2>2. f[q] < f[r] \/ f[r] < f[q]
    BY <2>1
  <2> QED
    BY <1>1, <2>1, <2>2, RankInjective
<1>6. /\ nextGen \in Nat \ {0}
      /\ nextGen' = nextGen + Cardinality(N)
  BY DEF TypeOK, AssignResidentRows
<1>7. \A r \in N : rows'[r] = f[r] /\ gens'[r] = nextGen + Rank(f[r], T)
  BY <1>2 DEF AssignResidentRows
<1>8. \A r \in S \ N : /\ r \in Req /\ rows'[r] = rows[r] /\ gens'[r] = gens[r]
                       /\ rows[r] \in Row /\ rows[r] # NoRow /\ rows[r] \notin T
                       /\ gens[r] \in Nat /\ (r \in owned => r \in owned')
  BY DEF AssignResidentRows, New, FreeRows, TypeOK
<1>9. \A r \in Req \ S : rows'[r] = NoRow /\ gens'[r] = 0
  BY <1>2 DEF AssignResidentRows
<1>10. \A x \in Row : x # NoRow
  BY DEF Row, NoRow
<1>11. rows' \in [Req -> Row \cup {NoRow}]
  <2>1. \A r \in Req : rows'[r] \in Row \cup {NoRow}
    BY <1>1, <1>2, <1>7, <1>8, <1>9
  <2>2. rows' = [r \in Req |-> rows'[r]]
    BY DEF AssignResidentRows
  <2> QED
    BY <2>1, <2>2
<1>12. gens' \in [Req -> Nat]
  <2>1. \A r \in Req : gens'[r] \in Nat
    BY <1>4, <1>6, <1>7, <1>8, <1>9
  <2>2. gens' = [r \in Req |-> gens'[r]]
    BY DEF AssignResidentRows
  <2> QED
    BY <2>1, <2>2
<1>13. owned' \subseteq owned /\ owned' \subseteq S
  <2>1. owned' = owned \ {r \in Req \ S : rows[r] # NoRow}
    BY DEF AssignResidentRows
  <2>2. \A r \in owned : r \in Req /\ rows[r] # NoRow
    BY DEF LeaseSafety, Leased, TypeOK
  <2> QED
    BY <2>1, <2>2
<1>14. nextGen' \in Nat \ {0} /\ nextGen' >= nextGen
  BY <1>6
<1>15. \A r \in N : gens'[r] \in nextGen .. nextGen' - 1
  BY <1>2, <1>4, <1>6, <1>7
<1>16. \A r \in S \ N : gens'[r] \in 1 .. nextGen - 1
  BY <1>8 DEF LeaseSafety, Leased
<1>17. Leased' = S
  BY <1>1, <1>2, <1>7, <1>8, <1>9, <1>10 DEF Leased
<1>18. LeaseSafety'
  <2>1. owned' \subseteq Leased'
    BY <1>13, <1>17
  <2>2. \A r \in S : gens'[r] \in 1 .. nextGen' - 1
    BY <1>6, <1>14, <1>15, <1>16
  <2>3. ASSUME NEW q \in S, NEW r \in S, q # r
        PROVE  rows'[q] # rows'[r] /\ gens'[q] # gens'[r]
    <3>1. CASE q \in N /\ r \in N
      <4>1. rows'[q] # rows'[r]
        BY <3>1, <2>3, <1>3, <1>7
      <4>2. gens'[q] # gens'[r]
        BY <3>1, <2>3, <1>4, <1>5, <1>6, <1>7
      <4> QED
        BY <4>1, <4>2
    <3>2. CASE q \in N /\ r \notin N
      BY <3>2, <1>2, <1>6, <1>7, <1>8, <1>15, <1>16
    <3>3. CASE q \notin N /\ r \in N
      BY <3>3, <1>2, <1>6, <1>7, <1>8, <1>15, <1>16
    <3>4. CASE q \notin N /\ r \notin N
      BY <3>4, <2>3, <1>8 DEF LeaseSafety, Leased
    <3> QED
      BY <3>1, <3>2, <3>3, <3>4
  <2> QED
    BY <1>17, <2>1, <2>2, <2>3 DEF LeaseSafety
<1>19. \A r \in N : gens'[r] >= nextGen
  BY <1>6, <1>14, <1>15
<1> QED
  BY <1>8, <1>9, <1>11, <1>12, <1>13, <1>14, <1>17, <1>18, <1>19

(* The three ways schedule() ends. *)
RaisedEnd ==
  /\ fault' \in {"refused-host-execution", "generations-exhausted"}
  /\ planned' = {} /\ steps' = 0 /\ phase' = "idle"

HostEnd(S) ==
  /\ fault' = "none" /\ phase' = "exec"
  /\ planned' = {} /\ steps' = 0 /\ S \cap owned' = {}

PlanEnd(S) ==
  /\ fault' = "none" /\ phase' = "exec"
  /\ planned' = S /\ steps' \in Nat /\ \A r \in S : Planned(r)'

(* A step for the stock model ends as one, or refuses. *)
LEMMA HostStepEnds ==
  ASSUME NEW S, HostStep(S)
  PROVE  RaisedEnd \/ HostEnd(S)
  BY DEF HostStep, Raise, RaisedEnd, HostEnd

(* Rows are there, and a plan is made only for requests that are all       *)
(* decoding and have room for the epoch.                                   *)
LEMMA MakePlanEnds ==
  ASSUME NEW S \in SUBSET Req, TypeOK, LeaseSafety,
         shape' = shape, outs' = outs, PlanCandidate(S), MakePlan(S)
  PROVE  /\ \/ RaisedEnd /\ UNCHANGED leaseVars
            \/ /\ \E f \in RowChoices(S) : AssignResidentRows(S, f)
               /\ RaisedEnd \/ HostEnd(S) \/ PlanEnd(S)
         /\ Cardinality(New(S)) \in Nat
<1>1. ~AllocatorExhausted(S) /\ Cardinality(New(S)) \in Nat
  BY AllocatorNeverExhausted DEF PlanCandidate
<1>2. CASE GenerationsExhausted(S)
  BY <1>1, <1>2 DEF MakePlan, Raise, RaisedEnd
<1>3. CASE ~GenerationsExhausted(S)
  <2>1. \E f \in RowChoices(S) : AssignResidentRows(S, f)
    BY <1>1, <1>3 DEF MakePlan
  <2>2. CASE \E r \in S : RequestRejected(r)
    <3>1. HostStep(S)
      BY <1>1, <1>3, <2>2 DEF MakePlan
    <3> QED
      BY <1>1, <2>1, <3>1, HostStepEnds
  <2>3. CASE ~ \E r \in S : RequestRejected(r)
    <3>1. PICK k \in EpochLadder :
            /\ EpochSteps(k, S)
            /\ IF OverCapacity(S, k) THEN HostStep(S) ELSE DeviceEpoch(S, k)
      BY <1>1, <1>3, <2>3 DEF MakePlan
    <3>2. CASE OverCapacity(S, k)
      BY <1>1, <2>1, <3>1, <3>2, HostStepEnds
    <3>3. CASE ~OverCapacity(S, k)
      <4>1. DeviceEpoch(S, k)
        BY <3>1, <3>3
      <4>2. k \in Nat
        BY DEF EpochLadder
      <4>3. \A r \in S : toks'[r] = 1
        BY DEF PlanCandidate
      <4>4. \A r \in S : computed'[r] = NumTokens(r) /\ k <= Remaining(r)
        BY <2>3, <3>1 DEF RequestRejected, EpochSteps, EpochFits
      <4>5. planned' = S /\ steps' = k /\ phase' = "exec" /\ fault' = "none"
        BY <4>1 DEF DeviceEpoch
      <4>6. \A r \in S : Planned(r)'
        BY <4>3, <4>4, <4>5 DEF Planned, NumTokens, Remaining, Prompt
      <4> QED
        BY <1>1, <2>1, <4>2, <4>5, <4>6 DEF PlanEnd
    <3> QED
      BY <3>2, <3>3
  <2> QED
    BY <2>2, <2>3
<1> QED
  BY <1>2, <1>3

(* Everything the later steps need to know about a schedule(). *)
LEMMA ScheduleFacts ==
  ASSUME IndInv, NEW adm \in SUBSET (waiting \ held), NEW chunk \in Chunks,
         Schedule(adm, chunk),
         NEW S, S = (running \ Paused) \cup adm
  PROVE  /\ S \in SUBSET Req
         /\ \/ UNCHANGED leaseVars /\ (RaisedEnd \/ HostEnd(S))
            \/ /\ S = running' /\ Cardinality(New(S)) \in Nat
               /\ \E f \in RowChoices(S) : AssignResidentRows(S, f)
         /\ RaisedEnd \/ HostEnd(S) \/ PlanEnd(S)
<1>1. S \in SUBSET Req
  BY DEF IndInv, TypeOK
<1>2. shape' = shape /\ outs' = outs
  BY DEF Schedule, BaseSchedule, clientVars
<1>3. CASE UNCHANGED leaseVars /\ HostStep(S)
  BY <1>1, <1>3, HostStepEnds
<1>4. CASE PlanCandidate(S) /\ MakePlan(S)
  <2>1. S = running'
    BY <1>4 DEF PlanCandidate
  <2> QED
    BY <1>1, <1>2, <1>4, <2>1, MakePlanEnds DEF IndInv, LeaseInv
<1> QED
  BY <1>3, <1>4 DEF Schedule

(* schedule() preserves the invariant in each of its outcomes. *)
LEMMA ScheduleInd ==
  ASSUME IndInv, NEW adm \in SUBSET (waiting \ held), NEW chunk \in Chunks,
         Schedule(adm, chunk)
  PROVE  IndInv'
<1> DEFINE S == (running \ Paused) \cup adm
<1>1. /\ S \in SUBSET Req
      /\ \/ UNCHANGED leaseVars /\ (RaisedEnd \/ HostEnd(S))
         \/ /\ S = running' /\ Cardinality(New(S)) \in Nat
            /\ \E f \in RowChoices(S) : AssignResidentRows(S, f)
      /\ RaisedEnd \/ HostEnd(S) \/ PlanEnd(S)
  BY ScheduleFacts
<1>2. /\ fault = "none" /\ phase = "idle"
      /\ BaseSchedule(S, adm, chunk)
      /\ UNCHANGED clientVars /\ res' = res
  BY DEF Schedule
<1>3. adm \subseteq S /\ S \subseteq running \cup adm
  OBVIOUS
<1> HIDE DEF S
<1>4. /\ waiting' \subseteq Req /\ held' \subseteq waiting'
      /\ running' \subseteq Req /\ waiting' \cap running' = {}
      /\ outs' = outs
      /\ toks' \in [Req -> Nat] /\ computed' \in [Req -> Nat]
      /\ \A r \in Req : toks'[r] <= computed'[r]
      /\ \A r \in Req : r \in S <=> toks'[r] > 0
      /\ \A r \in S : InStep(r)'
      /\ \A r \in running' \ S : Settled(r)'
      /\ \A r \in waiting' : Fresh(r)' /\ toks'[r] = 0
  BY <1>2, <1>3, BaseScheduleFacts
<1>5. /\ rows' \in [Req -> Row \cup {NoRow}] /\ gens' \in [Req -> Nat]
      /\ owned' \subseteq Req /\ nextGen' \in Nat \ {0}
      /\ LeaseSafety' /\ planned' \subseteq Leased'
  <2>1. CASE UNCHANGED leaseVars /\ (RaisedEnd \/ HostEnd(S))
    <3>1. planned' = {}
      BY <2>1 DEF RaisedEnd, HostEnd
    <3> QED
      BY <2>1, <3>1 DEF leaseVars, IndInv, TypeOK, LeaseInv, LeaseSafety, Leased
  <2>2. CASE /\ Cardinality(New(S)) \in Nat
             /\ \E f \in RowChoices(S) : AssignResidentRows(S, f)
    <3>1. owned \subseteq Req
      BY DEF IndInv, TypeOK
    <3>2. planned' \subseteq S
      BY <1>1 DEF RaisedEnd, HostEnd, PlanEnd
    <3> QED
      BY <1>1, <2>2, <3>1, <3>2, AssignFacts DEF IndInv, LeaseInv
  <2> QED
    BY <1>1, <2>1, <2>2
<1>6. /\ phase' \in {"idle", "exec", "done"} /\ planned' \subseteq Req
      /\ steps' \in Nat /\ fault' \in Faults /\ SanityChecksHold'
  BY <1>1 DEF RaisedEnd, HostEnd, PlanEnd, Faults, SanityChecksHold
<1>7. TypeOK'
  BY <1>2, <1>4, <1>5, <1>6 DEF IndInv, TypeOK, clientVars
<1>8. StepInv'
  <2>1. CASE fault' # "none"
    BY <1>4, <2>1 DEF StepInv
  <2>2. CASE fault' = "none"
    <3>1. phase' = "exec" /\ (planned' = {} \/ planned' = S)
      BY <1>1, <2>2 DEF RaisedEnd, HostEnd, PlanEnd
    <3>2. S = Scheduled'
      BY <1>1, <1>4 DEF Scheduled
    <3>3. \A r \in planned' : Planned(r)'
      BY <1>1, <2>2 DEF RaisedEnd, HostEnd, PlanEnd
    <3>4. \A r \in running' : IF toks'[r] = 0 THEN Settled(r)' ELSE InStep(r)'
      <4> SUFFICES ASSUME NEW r \in running'
                   PROVE  IF toks'[r] = 0 THEN Settled(r)' ELSE InStep(r)'
        OBVIOUS
      <4>1. r \in Req /\ toks'[r] \in Nat
        BY <1>4
      <4> QED
        BY <1>4, <4>1
    <3> QED
      BY <1>4, <2>2, <3>1, <3>2, <3>3, <3>4 DEF StepInv
  <2> QED
    BY <2>1, <2>2
<1>9. HostBatch'
  <2> SUFFICES ASSUME fault' = "none", planned' = {}, NEW r \in owned'
               PROVE  toks'[r] = 0
    BY DEF HostBatch
  <2>1. r \in Req /\ toks'[r] \in Nat
    BY <1>4, <1>5
  <2>2. S \cap owned' = {}
    BY <1>1 DEF RaisedEnd, HostEnd, PlanEnd
  <2> QED
    BY <1>4, <2>1, <2>2
<1> QED
  BY <1>5, <1>6, <1>7, <1>8, <1>9 DEF IndInv, LeaseInv

(* So does the exception of an empty isolated lane. *)
LEMMA ScheduleIsolatedEmptyInd ==
  ASSUME IndInv, ScheduleIsolatedEmpty
  PROVE  IndInv'
<1> USE DEF IndInv, ScheduleIsolatedEmpty, clientVars, baseVars, leaseVars,
            stepVars
<1>1. TypeOK'
  BY DEF TypeOK, Faults
<1>2. StepInv'
  BY DEF StepInv
<1>3. LeaseInv' /\ SanityChecksHold'
  BY DEF LeaseInv, LeaseSafety, Leased, HostBatch, SanityChecksHold
<1> QED
  BY <1>1, <1>2, <1>3

-----------------------------------------------------------------------------
(***************************************************************************)
(* execute_model()                                                         *)
(***************************************************************************)

(* The part of the invariant that a result does not touch. *)
LEMMA ExecuteKeeps ==
  ASSUME IndInv, fault = "none", phase = "exec", phase' = "done",
         UNCHANGED <<clientVars, baseVars, leaseVars, toks, planned, steps, fault>>,
         res' \in [route : {"none", "host", "device", "host_fallback"},
                   got : [Req -> Nat], eos : [Req -> Nat]],
         Answer'
  PROVE  IndInv'
<1> USE DEF IndInv, clientVars, baseVars, leaseVars
<1>1. TypeOK'
  BY DEF TypeOK
<1>2. StepInv'
  BY DEF StepInv, Fresh, Settled, InStep, Prompt, NumTokens, Scheduled,
         Planned, Remaining
<1>3. LeaseInv' /\ SanityChecksHold'
  BY DEF LeaseInv, LeaseSafety, Leased, HostBatch, SanityChecksHold
<1> QED
  BY <1>1, <1>2, <1>3

(* The stock model samples a token exactly where all are computed. *)
LEMMA ExecuteHostInd ==
  ASSUME IndInv, ExecuteHost
  PROVE  IndInv'
<1>1. PICK E \in SUBSET {r \in Req : StockTokens[r] = 1} :
        res' = [route |-> "host", got |-> StockTokens,
                eos |-> [r \in Req |-> IF r \in E THEN 1 ELSE 0]]
  BY DEF ExecuteHost
<1>2. /\ fault = "none" /\ phase = "exec" /\ planned = {} /\ phase' = "done"
      /\ UNCHANGED <<clientVars, baseVars, leaseVars, toks, planned, steps, fault>>
  BY DEF ExecuteHost
<1>3. StockTokens \in [Req -> {0, 1}]
  BY DEF StockTokens
<1>4. StockTokens' = StockTokens
  BY <1>2 DEF StockTokens, NumTokens, Prompt, clientVars, baseVars
<1>5. res' \in [route : {"none", "host", "device", "host_fallback"},
                got : [Req -> Nat], eos : [Req -> Nat]]
  BY <1>1, <1>3
<1>6. \A r \in Req : /\ res'.got[r] = StockTokens[r]
                     /\ res'.eos[r] <= res'.got[r]
  <2> SUFFICES ASSUME NEW r \in Req
               PROVE  (IF r \in E THEN 1 ELSE 0) <= StockTokens[r]
    BY <1>1
  <2>1. r \in E => StockTokens[r] = 1
    OBVIOUS
  <2> QED
    BY <1>3, <2>1
<1>7. Answer'
  <2>1. planned' = {} /\ res'.route = "host"
    BY <1>1, <1>2
  <2> QED
    BY <1>4, <1>6, <2>1 DEF Answer
<1> QED
  BY <1>2, <1>5, <1>7, ExecuteKeeps

(* Whatever answers a plan concerns its own requests only. *)
LEMMA ExecutePlanInd ==
  ASSUME IndInv, ExecutePlan
  PROVE  IndInv'
<1>1. PICK w \in {"device", "host_fallback"},
           g \in {f \in [Req -> 0 .. MaxSteps] : \A r \in Req \ planned : f[r] = 0},
           e \in {f \in [Req -> 0 .. MaxSteps] : \A r \in Req \ planned : f[r] = 0} :
        res' = [route |-> w, got |-> g, eos |-> e]
  BY DEF ExecutePlan, Results
<1>2. /\ fault = "none" /\ phase = "exec" /\ planned # {} /\ phase' = "done"
      /\ UNCHANGED <<clientVars, baseVars, leaseVars, toks, planned, steps, fault>>
      /\ \A r \in planned : res'.eos[r] <= res'.got[r]
  BY DEF ExecutePlan
<1>3. g \in [Req -> Nat] /\ e \in [Req -> Nat]
  BY SchedulerAssumption
<1>4. res' \in [route : {"none", "host", "device", "host_fallback"},
                got : [Req -> Nat], eos : [Req -> Nat]]
  BY <1>1, <1>3
<1>5. Answer'
  BY <1>1, <1>2 DEF Answer
<1> QED
  BY <1>2, <1>4, <1>5, ExecuteKeeps

-----------------------------------------------------------------------------
(***************************************************************************)
(* update_from_output()                                                    *)
(***************************************************************************)

(* A validated result never over-advances a request, and a request that    *)
(* stays has computed all its tokens but the last.                         *)
LEMMA CommitFacts ==
  ASSUME IndInv, fault = "none", phase = "done", ValidResult, NEW r \in Req
  PROVE  /\ Advanced(r) \in Nat
         /\ outs[r] + Appended(r) \in Nat
         /\ r \in planned => Advanced(r) <= NumTokens(r) + res.got[r]
         /\ r \in running /\ r \in Scheduled /\ ~Finishes(r) =>
              /\ outs[r] + Appended(r) < shape[r].max
              /\ IF outs[r] + Appended(r) = 0
                 THEN Advanced(r) < Prompt(r)
                 ELSE Advanced(r) = NumTokens(r) + Appended(r) - 1
<1>1. /\ outs[r] \in Nat /\ computed[r] \in Nat /\ toks[r] \in Nat
      /\ Prompt(r) \in Nat \ {0} /\ shape[r].max \in Nat \ {0}
      /\ res.got[r] \in Nat /\ res.eos[r] \in Nat
      /\ NumTokens(r) = Prompt(r) + outs[r]
      /\ Remaining(r) = shape[r].max - outs[r]
      /\ toks[r] <= computed[r]
  BY DEF IndInv, TypeOK, StepInv, ShapeType, Prompt, NumTokens, Remaining
<1>2. r \in planned => /\ toks[r] = 1 /\ computed[r] = NumTokens(r)
                       /\ steps <= Remaining(r) /\ steps \in Nat
                       /\ res.got[r] \in 1 .. steps /\ res.eos[r] <= res.got[r]
  BY DEF IndInv, StepInv, TypeOK, Planned, ValidResult, Answer
<1>3. r \in Scheduled /\ r \notin planned =>
        /\ res.eos[r] <= res.got[r]
        /\ res.got[r] = IF computed[r] = NumTokens(r) THEN 1 ELSE 0
  <2> SUFFICES ASSUME r \in Scheduled, r \notin planned
               PROVE  /\ res.eos[r] <= res.got[r]
                      /\ res.got[r] = IF computed[r] = NumTokens(r) THEN 1 ELSE 0
    OBVIOUS
  <2>1. planned = {} /\ Answer
    BY DEF IndInv, StepInv
  <2> QED
    BY <2>1 DEF Answer, StockTokens, Scheduled
<1>4. Advanced(r) = IF r \in planned THEN computed[r] + (res.got[r] - toks[r])
                    ELSE computed[r]
  BY DEF Advanced
<1>5. Advanced(r) \in Nat
  BY <1>1, <1>4
<1>6. r \in planned => Advanced(r) <= NumTokens(r) + res.got[r]
  BY <1>1, <1>2, <1>4
<1>7. /\ Appended(r) \in Int
      /\ Appended(r) =
           LET n == IF res.eos[r] = 0 THEN res.got[r] ELSE res.eos[r]
           IN  IF n <= Remaining(r) THEN n ELSE Remaining(r)
  BY <1>1 DEF Appended, Min2
<1>8. outs[r] + Appended(r) \in Nat
  BY <1>1, <1>7
<1>9. ASSUME r \in running, r \in Scheduled, ~Finishes(r)
      PROVE  /\ outs[r] + Appended(r) < shape[r].max
             /\ IF outs[r] + Appended(r) = 0
                THEN Advanced(r) < Prompt(r)
                ELSE Advanced(r) = NumTokens(r) + Appended(r) - 1
  <2>1. InStep(r) /\ toks[r] > 0
    BY <1>1, <1>9 DEF IndInv, StepInv, Scheduled
  <2>2. res.got[r] = 0 \/ (Appended(r) # Remaining(r) /\ res.eos[r] = 0)
    BY <1>1, <1>9 DEF Finishes
  <2>3. Appended(r) = res.got[r] /\ Appended(r) < Remaining(r)
    <3>1. outs[r] < shape[r].max
      BY <2>1 DEF InStep
    <3>2. res.eos[r] = 0
      BY <1>1, <1>2, <1>3, <1>9, <2>2
    <3> QED
      BY <1>1, <1>7, <2>2, <3>1, <3>2
  <2>4. CASE r \in planned
    BY <1>1, <1>2, <1>4, <2>3, <2>4
  <2>5. CASE r \notin planned
    BY <1>1, <1>3, <1>4, <1>9, <2>1, <2>3, <2>5 DEF InStep
  <2> QED
    BY <2>4, <2>5
<1> QED
  BY <1>5, <1>6, <1>8, <1>9

(* An exception of update_from_output changes nothing else. *)
LEMMA UpdateFaultInd ==
  ASSUME IndInv, NEW f \in {"invalid-result", "missing-request"}, UpdateFault(f)
  PROVE  IndInv'
<1> USE DEF IndInv, UpdateFault, clientVars, baseVars, leaseVars, stepVars
<1>1. TypeOK'
  BY DEF TypeOK, Faults
<1>2. StepInv'
  BY DEF StepInv
<1>3. LeaseInv' /\ SanityChecksHold'
  BY DEF LeaseInv, LeaseSafety, Leased, HostBatch, SanityChecksHold
<1> QED
  BY <1>1, <1>2, <1>3

(* Accounting and the base update preserve the invariant. *)
LEMMA CommitInd ==
  ASSUME IndInv, fault = "none", phase = "done", ValidResult, Commit
  PROVE  IndInv'
<1>1. /\ shape' = shape /\ seen' = seen /\ waiting' = waiting /\ held' = held
      /\ rows' = rows /\ gens' = gens /\ nextGen' = nextGen /\ fault' = "none"
      /\ phase' = "idle" /\ planned' = {} /\ steps' = 0
      /\ toks' = NoTokens /\ res' = NoResult
      /\ running' = running \ {r \in Scheduled : Finishes(r)}
      /\ owned' = (IF res.route = "device" THEN owned \cup planned ELSE owned)
      /\ computed' = [r \in Req |-> Advanced(r)]
      /\ outs' = [r \in Req |-> IF r \in Scheduled \cap running
                                THEN outs[r] + Appended(r) ELSE outs[r]]
  BY DEF Commit, clientVars
<1>2. \A r \in Req : toks'[r] = 0
  BY <1>1 DEF NoTokens
<1>3. TypeOK'
  <2>1. computed' \in [Req -> Nat]
    BY <1>1, CommitFacts
  <2>2. outs' \in [Req -> Nat]
    <3>1. \A r \in Req : outs[r] \in Nat /\ outs[r] + Appended(r) \in Nat
      BY CommitFacts DEF IndInv, TypeOK
    <3> QED
      BY <1>1, <3>1
  <2> QED
    BY <1>1, <2>1, <2>2 DEF IndInv, TypeOK, NoTokens, NoResult, Faults
<1>4. ASSUME NEW r \in running' PROVE Settled(r)'
  <2>1. r \in Req /\ r \in running
    BY <1>1, <1>4 DEF IndInv, TypeOK
  <2>2. CASE r \in Scheduled
    <3>1. ~Finishes(r)
      BY <1>1, <1>4, <2>2
    <3>2. /\ outs'[r] = outs[r] + Appended(r) /\ computed'[r] = Advanced(r)
          /\ outs[r] + Appended(r) < shape[r].max
          /\ IF outs[r] + Appended(r) = 0
             THEN Advanced(r) < Prompt(r)
             ELSE Advanced(r) = NumTokens(r) + Appended(r) - 1
      BY <1>1, <2>1, <2>2, <3>1, CommitFacts
    <3>3. Prompt(r) \in Nat /\ outs[r] \in Nat /\ Appended(r) \in Int
      <4>1. Prompt(r) \in Nat /\ outs[r] \in Nat /\ shape[r].max \in Nat
            /\ res.got[r] \in Nat /\ res.eos[r] \in Nat
        BY <2>1 DEF IndInv, TypeOK, ShapeType, Prompt
      <4> QED
        BY <4>1 DEF Appended, Min2, Remaining
    <3> QED
      BY <1>1, <3>2, <3>3 DEF Settled, NumTokens, Prompt
  <2>3. CASE r \notin Scheduled
    <3>1. toks[r] = 0 /\ r \notin planned
      BY <2>1, <2>3 DEF IndInv, StepInv, TypeOK, Scheduled
    <3>2. Settled(r)
      BY <2>1, <3>1 DEF IndInv, StepInv
    <3>3. outs'[r] = outs[r] /\ computed'[r] = computed[r]
      BY <1>1, <2>1, <2>3, <3>1 DEF Advanced
    <3> QED
      BY <1>1, <3>2, <3>3 DEF Settled, NumTokens, Prompt
  <2> QED
    BY <2>2, <2>3
<1>5. ASSUME NEW r \in waiting' PROVE Fresh(r)'
  <2>1. r \in Req /\ r \notin running /\ Fresh(r) /\ toks[r] = 0
    BY <1>1, <1>5 DEF IndInv, TypeOK, StepInv
  <2>2. r \notin planned
    BY <2>1 DEF IndInv, StepInv, Scheduled
  <2> QED
    BY <1>1, <2>1, <2>2 DEF Fresh, Advanced
<1>6. StepInv'
  <2>1. \A r \in Req : toks'[r] <= computed'[r]
    BY <1>2, <1>3 DEF TypeOK
  <2>2. waiting' \cap running' = {}
    BY <1>1 DEF IndInv, StepInv
  <2>3. running' \subseteq Req /\ waiting' \subseteq Req
    BY <1>3 DEF TypeOK
  <2> QED
    BY <1>1, <1>2, <1>4, <1>5, <2>1, <2>2, <2>3 DEF StepInv
<1>7. LeaseInv'
  <2>1. owned' \subseteq Leased
    BY <1>1 DEF IndInv, LeaseInv, LeaseSafety
  <2>2. LeaseSafety'
    BY <1>1, <2>1 DEF IndInv, LeaseInv, LeaseSafety, Leased
  <2>3. HostBatch'
    BY <1>2, <1>3 DEF HostBatch, TypeOK
  <2> QED
    BY <1>1, <2>2, <2>3 DEF LeaseInv
<1>8. SanityChecksHold'
  BY <1>1 DEF SanityChecksHold
<1> QED
  BY <1>3, <1>6, <1>7, <1>8 DEF IndInv

(* update_from_output() preserves the invariant and never over-advances. *)
LEMMA UpdateFromOutputInd ==
  ASSUME IndInv, UpdateFromOutput
  PROVE  IndInv'
<1>1. fault = "none" /\ phase = "done"
  BY DEF UpdateFromOutput
<1>2. CASE ~ValidResult
  BY <1>2, UpdateFaultInd DEF UpdateFromOutput
<1>3. CASE ValidResult /\ ~(planned \subseteq running)
  BY <1>3, UpdateFaultInd DEF UpdateFromOutput
<1>4. CASE ValidResult /\ planned \subseteq running
  <2>1. \A r \in planned : r \in Req /\ Advanced(r) <= NumTokens(r) + res.got[r]
    BY <1>1, <1>4, CommitFacts DEF IndInv, TypeOK
  <2>2. \A r \in planned : /\ Advanced(r) \in Nat /\ NumTokens(r) \in Nat
                           /\ res.got[r] \in Nat
    BY <1>1, <1>4, <2>1, CommitFacts
    DEF IndInv, TypeOK, ShapeType, NumTokens, Prompt
  <2>3. ~OverAdvanced
    BY <2>1, <2>2 DEF OverAdvanced
  <2> QED
    BY <1>1, <1>4, <2>3, CommitInd DEF UpdateFromOutput
<1> QED
  BY <1>2, <1>3, <1>4

-----------------------------------------------------------------------------
(* Every step of the scheduler and of its environment keeps the invariant. *)
LEMMA NextInd == IndInv /\ [Next]_schedVars => IndInv'
<1> SUFFICES ASSUME IndInv, [Next]_schedVars PROVE IndInv'
  OBVIOUS
<1>1. ASSUME NEW r \in Req, NEW s \in Shapes, AddRequest(r, s) PROVE IndInv'
  BY <1>1, AddRequestInd
<1>2. ASSUME NEW r \in Req, GrammarReady(r) PROVE IndInv'
  BY <1>2, GrammarReadyInd
<1>3. ASSUME NEW r \in Req, AbortRequest(r) PROVE IndInv'
  BY <1>3, AbortRequestInd
<1>4. ASSUME NEW adm \in SUBSET (waiting \ held), NEW chunk \in Chunks,
             Schedule(adm, chunk)
      PROVE  IndInv'
  BY <1>4, ScheduleInd
<1>5. CASE ScheduleIsolatedEmpty
  BY <1>5, ScheduleIsolatedEmptyInd
<1>6. CASE ExecuteHost
  BY <1>6, ExecuteHostInd
<1>7. CASE ExecutePlan
  BY <1>7, ExecutePlanInd
<1>8. CASE UpdateFromOutput
  BY <1>8, UpdateFromOutputInd
<1>9. CASE UNCHANGED schedVars
  <2> USE <1>9 DEF IndInv, schedVars, clientVars, baseVars, leaseVars, stepVars
  <2>1. TypeOK'
    BY DEF TypeOK
  <2>2. StepInv'
    BY DEF StepInv, Fresh, Settled, InStep, Prompt, NumTokens, Scheduled,
           Planned, Remaining, Answer, StockTokens
  <2>3. LeaseInv' /\ SanityChecksHold'
    BY DEF LeaseInv, LeaseSafety, Leased, HostBatch, SanityChecksHold
  <2> QED
    BY <2>1, <2>2, <2>3
<1> QED
  BY <1>1, <1>2, <1>3, <1>4, <1>5, <1>6, <1>7, <1>8, <1>9
  DEF Next, ClientNext, ScheduleNext

(* The invariant holds throughout. *)
LEMMA AlwaysIndInv == Spec => []IndInv
  BY InitInd, NextInd, PTL DEF Spec

(* The state of the scheduler stays well formed. *)
THEOREM TypeCorrect == Spec => []TypeOK
<1>1. IndInv => TypeOK
  BY DEF IndInv
<1> QED
  BY <1>1, AlwaysIndInv, PTL

(* _assign_resident_rows: no two requests ever share a row or a            *)
(* generation, and the Device owns only requests that hold a row.          *)
THEOREM LeasesAreSafe == Spec => []LeaseSafety
<1>1. IndInv => LeaseSafety
  BY DEF IndInv, LeaseInv
<1> QED
  BY <1>1, AlwaysIndInv, PTL

(* _apply_resident_epoch_accounting: between steps the counters of every   *)
(* running request agree, whatever validated results came back.            *)
THEOREM AccountingIsExact == Spec => []AccountingExact
<1>1. IndInv => AccountingExact
  <2> SUFFICES ASSUME IndInv, fault = "none", phase = "idle", NEW r \in running
               PROVE  Settled(r)
    BY DEF AccountingExact
  <2>1. r \in Req
    BY DEF IndInv, TypeOK
  <2> QED
    BY <2>1 DEF IndInv, StepInv
<1> QED
  BY <1>1, AlwaysIndInv, PTL

(* "resident row allocator exhausted" and "resident epoch would            *)
(* over-advance computed tokens" are never raised.                         *)
THEOREM SanityChecksNeverFire == Spec => []SanityChecksHold
<1>1. IndInv => SanityChecksHold
  BY DEF IndInv
<1> QED
  BY <1>1, AlwaysIndInv, PTL

-----------------------------------------------------------------------------
(***************************************************************************)
(* What a step may never do.                                               *)
(***************************************************************************)

(* Only schedule() moves leases, and only a commit moves ownership to the  *)
(* Device.                                                                 *)
LEMMA LeasesMoveInSchedule ==
  ASSUME IndInv, [Next]_schedVars,
         ~ \E adm \in SUBSET (waiting \ held), chunk \in Chunks :
             Schedule(adm, chunk)
  PROVE  rows' = rows /\ gens' = gens /\ owned \subseteq owned'
<1> USE DEF leaseVars
<1>1. ASSUME NEW r \in Req, NEW s \in Shapes, AddRequest(r, s)
      PROVE  rows' = rows /\ gens' = gens /\ owned \subseteq owned'
  BY <1>1 DEF AddRequest
<1>2. ASSUME NEW r \in Req, GrammarReady(r) \/ AbortRequest(r)
      PROVE  rows' = rows /\ gens' = gens /\ owned \subseteq owned'
  BY <1>2 DEF GrammarReady, AbortRequest
<1>3. CASE ScheduleIsolatedEmpty
  BY <1>3 DEF ScheduleIsolatedEmpty
<1>4. CASE ExecuteHost \/ ExecutePlan
  BY <1>4 DEF ExecuteHost, ExecutePlan
<1>5. CASE UpdateFromOutput
  BY <1>5 DEF UpdateFromOutput, UpdateFault, Commit
<1>6. CASE UNCHANGED schedVars
  BY <1>6 DEF schedVars
<1> QED
  BY <1>1, <1>2, <1>3, <1>4, <1>5, <1>6 DEF Next, ClientNext, ScheduleNext

(* schedule() keeps the lease of a Device-owned request that goes on. *)
LEMMA ScheduleKeepsLeases ==
  ASSUME IndInv, NEW adm \in SUBSET (waiting \ held), NEW chunk \in Chunks,
         Schedule(adm, chunk)
  PROVE  NewerLease /\ KeptLease
<1> DEFINE S == (running \ Paused) \cup adm
<1>1. /\ S \in SUBSET Req
      /\ \/ UNCHANGED leaseVars
         \/ /\ S = running' /\ Cardinality(New(S)) \in Nat
            /\ \E f \in RowChoices(S) : AssignResidentRows(S, f)
  BY ScheduleFacts
<1> HIDE DEF S
<1>2. CASE UNCHANGED leaseVars
  BY <1>2 DEF leaseVars, NewerLease, KeptLease
<1>3. CASE /\ S = running' /\ Cardinality(New(S)) \in Nat
           /\ \E f \in RowChoices(S) : AssignResidentRows(S, f)
  <2>1. /\ gens' \in [Req -> Nat]
        /\ \A r \in New(S) : gens'[r] >= nextGen
        /\ \A r \in S \ New(S) : /\ rows'[r] = rows[r] /\ gens'[r] = gens[r]
                                 /\ r \in owned => r \in owned'
        /\ \A r \in Req \ S : rows'[r] = NoRow
    BY <1>1, <1>3, AssignFacts DEF IndInv, LeaseInv
  <2>2. NewerLease
    <3> SUFFICES ASSUME NEW q \in Req, NEW r \in Req, rows[q] # NoRow,
                        rows'[r] = rows[q], rows[r] # rows'[r]
                 PROVE  gens'[r] > gens[q]
      BY DEF NewerLease
    <3>1. r \in New(S)
      BY <2>1
    <3>2. gens[q] \in 1 .. nextGen - 1 /\ nextGen \in Nat
      BY DEF IndInv, LeaseInv, LeaseSafety, Leased, TypeOK
    <3> QED
      BY <2>1, <3>1, <3>2
  <2>3. KeptLease
    <3> SUFFICES ASSUME NEW r \in running \cap owned, r \in running'
                 PROVE  r \in owned' /\ rows'[r] = rows[r] /\ gens'[r] = gens[r]
      BY DEF KeptLease
    <3>1. r \in S \ New(S)
      BY <1>3 DEF IndInv, LeaseInv, LeaseSafety, Leased, New
    <3> QED
      BY <2>1, <3>1
  <2> QED
    BY <2>2, <2>3
<1> QED
  BY <1>1, <1>2, <1>3

(* Every step does. *)
LEMMA StepKeepsLeases ==
  IndInv /\ [Next]_schedVars => [NewerLease]_schedVars /\ [KeptLease]_schedVars
<1> SUFFICES ASSUME IndInv, [Next]_schedVars PROVE NewerLease /\ KeptLease
  OBVIOUS
<1>1. CASE \E adm \in SUBSET (waiting \ held), chunk \in Chunks :
             Schedule(adm, chunk)
  BY <1>1, ScheduleKeepsLeases
<1>2. CASE ~ \E adm \in SUBSET (waiting \ held), chunk \in Chunks :
             Schedule(adm, chunk)
  <2>1. rows' = rows /\ gens' = gens /\ owned \subseteq owned'
    BY <1>2, LeasesMoveInSchedule
  <2> QED
    BY <2>1 DEF NewerLease, KeptLease
<1> QED
  BY <1>1, <1>2

(* A row is reused only under a newer generation. *)
THEOREM RowReuseSafe == Spec => RowReuseIsNewer
  BY AlwaysIndInv, StepKeepsLeases, PTL DEF Spec, RowReuseIsNewer

(* A running Device-owned request keeps its row, generation and owner. *)
THEOREM LeasesAreStable == Spec => LeaseStable
  BY AlwaysIndInv, StepKeepsLeases, PTL DEF Spec, LeaseStable

(* Only a Device result advances a Device-owned request. *)
LEMMA StepAdvances ==
  IndInv /\ [Next]_schedVars => [AdvanceByDevice]_schedVars
<1> SUFFICES ASSUME IndInv, [Next]_schedVars, NEW r \in owned,
                    outs'[r] > outs[r]
             PROVE  res.route = "device"
  BY DEF AdvanceByDevice
<1>1. r \in Req /\ outs[r] \in Nat /\ outs \in [Req -> Nat]
  BY DEF IndInv, TypeOK
<1>2. ASSUME NEW q \in Req, NEW s \in Shapes, AddRequest(q, s) PROVE FALSE
  BY <1>1, <1>2 DEF AddRequest
<1>3. outs' # outs
  BY <1>1
<1>4. UpdateFromOutput
  BY <1>2, <1>3 DEF Next, ClientNext, ScheduleNext, GrammarReady, AbortRequest,
       Schedule, BaseSchedule, ScheduleIsolatedEmpty, ExecuteHost, ExecutePlan,
       schedVars, baseVars
<1>5. fault = "none" /\ phase = "done" /\ ValidResult /\ Commit
  BY <1>3, <1>4 DEF UpdateFromOutput, UpdateFault, baseVars
<1>6. r \in Scheduled
  BY <1>1, <1>5 DEF Commit
<1>7. planned # {}
  <2>1. toks[r] # 0
    BY <1>6 DEF Scheduled
  <2> QED
    BY <1>5, <2>1 DEF IndInv, LeaseInv, HostBatch
<1>8. r \in planned /\ res.route \in {"device", "host_fallback"}
  BY <1>5, <1>6, <1>7 DEF IndInv, StepInv, Answer
<1> QED
  BY <1>5, <1>8 DEF ValidResult, HostReplaySafe

(* Neither a stock step nor a Host replay advances a Device-owned request. *)
THEOREM DeviceOwnedSafe == Spec => DeviceOwnedAdvancesOnDevice
  BY AlwaysIndInv, StepAdvances, PTL DEF Spec, DeviceOwnedAdvancesOnDevice

-----------------------------------------------------------------------------
(* Every request of a plan is still running while the plan is under way.   *)
PlanRuns == fault = "none" => planned \subseteq running

LEMMA StepKeepsPlan ==
  ASSUME ~MidStepAbort, IndInv, PlanRuns /\ PlanRequestsPresent,
         [Next]_schedVars
  PROVE  PlanRuns' /\ PlanRequestsPresent'
<1> USE DEF PlanRuns, PlanRequestsPresent
<1>1. ASSUME NEW r \in Req, NEW s \in Shapes, AddRequest(r, s)
      PROVE  PlanRuns' /\ PlanRequestsPresent'
  BY <1>1 DEF AddRequest, stepVars
<1>2. ASSUME NEW r \in Req, GrammarReady(r) PROVE PlanRuns' /\ PlanRequestsPresent'
  BY <1>2 DEF GrammarReady, stepVars
<1>3. ASSUME NEW r \in Req, AbortRequest(r) PROVE PlanRuns' /\ PlanRequestsPresent'
  <2>1. fault = "none" /\ phase = "idle" /\ planned' = planned /\ fault' = fault
    BY <1>3 DEF AbortRequest, stepVars
  <2>2. planned = {}
    BY <2>1 DEF IndInv, StepInv
  <2> QED
    BY <2>1, <2>2
<1>4. ASSUME NEW adm \in SUBSET (waiting \ held), NEW chunk \in Chunks,
             Schedule(adm, chunk)
      PROVE  PlanRuns' /\ PlanRequestsPresent'
  <2> DEFINE S == (running \ Paused) \cup adm
  <2>1. /\ \/ UNCHANGED leaseVars /\ (RaisedEnd \/ HostEnd(S))
           \/ S = running'
        /\ RaisedEnd \/ HostEnd(S) \/ PlanEnd(S)
    BY <1>4, ScheduleFacts
  <2> HIDE DEF S
  <2> QED
    BY <2>1 DEF RaisedEnd, HostEnd, PlanEnd
<1>5. CASE ScheduleIsolatedEmpty
  BY <1>5 DEF ScheduleIsolatedEmpty
<1>6. CASE ExecuteHost \/ ExecutePlan
  BY <1>6 DEF ExecuteHost, ExecutePlan, baseVars
<1>7. CASE UpdateFromOutput
  <2>1. fault = "none" /\ planned \subseteq running
    BY <1>7 DEF UpdateFromOutput
  <2> QED
    BY <1>7, <2>1 DEF UpdateFromOutput, UpdateFault, Commit
<1>8. CASE UNCHANGED schedVars
  BY <1>8 DEF schedVars, baseVars, stepVars
<1> QED
  BY <1>1, <1>2, <1>3, <1>4, <1>5, <1>6, <1>7, <1>8
  DEF Next, ClientNext, ScheduleNext

(* The engine that processes aborts only between steps always finds the    *)
(* requests of the plan in _apply_resident_epoch_accounting: an abort in   *)
(* the middle of a step is the only way to lose one.                       *)
THEOREM PlanRequestsArePresent ==
  ASSUME ~MidStepAbort
  PROVE  Spec => []PlanRequestsPresent
<1>1. Init => PlanRuns /\ PlanRequestsPresent
  BY DEF Init, PlanRuns, PlanRequestsPresent
<1>2. IndInv /\ (PlanRuns /\ PlanRequestsPresent) /\ [Next]_schedVars
        => (PlanRuns /\ PlanRequestsPresent)'
  BY StepKeepsPlan
<1> QED
  BY <1>1, <1>2, AlwaysIndInv, PTL DEF Spec
=============================================================================
