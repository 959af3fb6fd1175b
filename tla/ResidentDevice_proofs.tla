----------------------- MODULE ResidentDevice_proofs ------------------------
(***************************************************************************)
(* What the Device defends by itself, for any number of rows, requests and *)
(* generations, any capacity and any epoch length.                         *)
(***************************************************************************)
EXTENDS ResidentDeviceEnv, TLAPS

(* Generations of a row only grow, and the Device never has a newer one    *)
(* than the row was leased under.                                          *)
LeaseInv ==
  /\ leaseGen \in [Rows -> Nat] /\ leaseStream \in [Rows -> Data]
  /\ lastGen \in Nat
  /\ \A x \in Rows : /\ resGen[x] <= leaseGen[x] /\ leaseGen[x] <= lastGen
                     /\ leaseGen[x] > 0 => leaseStream[x] \in Streams

(* The inductive invariant.                                                *)
EnvInv == DeviceTypeOK /\ LeaseInv /\ ResidentKVComplete /\ AnswersAreRight

(* What Submit promises of the inputs it sends.                            *)
Honest(i) ==
  /\ i \in EpochInputs
  /\ i.import \subseteq i.active
  /\ \A x \in i.active :
       /\ i.gen[x] = leaseGen[x] /\ leaseGen[x] > 0
       /\ i.tok[x] = leaseStream[x] \/ (x \notin i.import /\ i.pos[x] > 0)
       /\ \A p \in Positions : p < i.pos[x] => i.payload[x][p] = leaseStream[x]

(* Submit keeps that promise.                                              *)
LEMMA RequestHonest ==
  ASSUME EnvInv, NEW A \in SUBSET Rows, NEW pos \in [Rows -> Positions],
         NEW k \in 1 .. EpochMax, NEW imp \in SUBSET A, NEW odd \in SUBSET A,
         Submit(A, pos, k, imp, odd)
  PROVE  Honest(Request(A, pos, k, imp, odd))
<1> DEFINE i == Request(A, pos, k, imp, odd)
<1> USE DeviceAssumption
<1>1. i.active = A /\ i.import = imp /\ i.pos = pos /\ i.steps = k
  BY DEF Request
<1>2. \A x \in Rows : /\ i.gen[x] = IF x \in A THEN leaseGen[x] ELSE 0
                      /\ i.tok[x] = IF x \in odd THEN Junk ELSE leaseStream[x]
  BY DEF Request
<1>3. \A x \in Rows, p \in Positions :
        i.payload[x][p] = IF p < pos[x] THEN leaseStream[x] ELSE Junk
  BY DEF Request
<1>4. i \in EpochInputs
  <2>1. [x \in Rows |-> IF x \in A THEN leaseGen[x] ELSE 0] \in [Rows -> Nat]
    BY DEF EnvInv, LeaseInv
  <2>2. [x \in Rows |-> IF x \in odd THEN Junk ELSE leaseStream[x]] \in [Rows -> Data]
    BY DEF EnvInv, LeaseInv, Data
  <2>3. [x \in Rows |-> [p \in Positions |->
           IF p < pos[x] THEN leaseStream[x] ELSE Junk]]
          \in [Rows -> [Positions -> Data]]
    BY DEF EnvInv, LeaseInv, Data
  <2>4. pos \in [Rows -> Nat] /\ k \in Nat
    BY DEF Positions
  <2> QED
    BY <2>1, <2>2, <2>3, <2>4 DEF Request, EpochInputs
<1> QED
  BY <1>1, <1>2, <1>3, <1>4 DEF Honest, Submit

(* A row that passed the continuity check decodes over a right prefix.     *)
LEMMA PrefixIsRight ==
  ASSUME EnvInv, NEW i, Honest(i), Continuous(i), NEW x \in i.active
  PROVE  PrefixRight(i, x) /\ i.tok[x] = leaseStream[x]
<1> USE DeviceAssumption DEF EnvInv, Honest, EpochInputs
<1>1. x \in Rows /\ leaseStream[x] \in Streams /\ leaseStream[x] # Junk
  BY DEF LeaseInv
<1>2. CASE x \in i.import
  BY <1>1, <1>2 DEF PrefixRight, StartKV, ImportedKV, Continues
<1>3. CASE x \notin i.import /\ resGen[x] = i.gen[x]
  <2>1. x \in resValid /\ resTok[x] = i.tok[x] /\ resPos[x] = i.pos[x]
    BY <1>3 DEF Continuous, Continues
  <2>2. /\ resTok[x] = leaseStream[x]
        /\ \A p \in Positions : p < resPos[x] => kv[x][p] = leaseStream[x]
    BY <1>3, <2>1 DEF ResidentKVComplete
  <2>3. StartKV(i)[x] = kv[x]
    BY <1>1, <1>3 DEF StartKV, ImportedKV, Continues
  <2> QED
    BY <1>1, <2>1, <2>2, <2>3 DEF PrefixRight
<1>4. CASE x \notin i.import /\ resGen[x] # i.gen[x]
  <2>1. i.pos[x] = 0
    BY <1>4 DEF Continuous, Continues
  <2>2. i.tok[x] = leaseStream[x]
    BY <2>1
  <2> QED
    BY <1>1, <2>1, <2>2 DEF PrefixRight, Positions
<1> QED
  BY <1>2, <1>3, <1>4

(* What an import leaves in the resident state.                            *)
LEMMA ImportKeeps ==
  ASSUME EnvInv, NEW i, Honest(i), Import(i), ~InvalidMetadata(i),
         NEW x \in Rows, x \in resValid', resGen'[x] = leaseGen[x]
  PROVE  /\ resTok'[x] = leaseStream[x]
         /\ \A p \in Positions : p < resPos'[x] => ImportedKV(i)[x][p] = leaseStream[x]
<1> USE DEF EnvInv, Honest, EpochInputs
<1>1. CASE x \in i.import
  BY <1>1 DEF Import, Overlay, ImportedKV
<1>2. CASE x \notin i.import
  BY <1>2 DEF Import, Overlay, ImportedKV, ResidentKVComplete
<1> QED
  BY <1>1, <1>2

(* The types of an imported state.                                         *)
LEMMA ImportTypes ==
  ASSUME EnvInv, NEW i, Honest(i), Import(i)
  PROVE  /\ resGen' \in [Rows -> Nat] /\ resTok' \in [Rows -> Data]
         /\ resPos' \in [Rows -> Nat] /\ resValid' \subseteq Rows
         /\ ImportedKV(i) \in [Rows -> [Positions -> Data]]
         /\ StartKV(i) \in [Rows -> [Positions -> Data]]
         /\ \A x \in Rows : resGen'[x] <= leaseGen[x]
<1> USE DEF EnvInv, Honest, EpochInputs
<1>1. ImportedKV(i) \in [Rows -> [Positions -> Data]]
  BY DEF ImportedKV, DeviceTypeOK
<1>2. Empty \in [Positions -> Data]
  BY DEF Empty, Data
<1>3. StartKV(i) \in [Rows -> [Positions -> Data]]
  BY <1>1, <1>2 DEF StartKV
<1>4. resGen' \in [Rows -> Nat] /\ resTok' \in [Rows -> Data] /\ resPos' \in [Rows -> Nat]
  BY DEF Import, Overlay, DeviceTypeOK
<1>5. resValid' \subseteq Rows
  BY DEF Import, DeviceTypeOK
<1>6. \A x \in Rows : resGen'[x] <= leaseGen[x]
  BY DEF Import, Overlay, LeaseInv
<1> QED
  BY <1>1, <1>3, <1>4, <1>5, <1>6

(* A reply without tokens.                                                 *)
LEMMA FallbackReply ==
  ASSUME NEW s \in Nat, Fallback(s)
  PROVE  /\ reply' \in [status : Nat, got : [Rows -> Nat], eos : SUBSET Rows,
                        wrong : SUBSET Rows]
         /\ reply'.wrong = {}
  BY DEF Fallback, NoReply

(* One epoch, however it ends.                                             *)
LEMMA ProcStep ==
  ASSUME EnvInv, NEW i, Honest(i), Proc(i, TRUE),
         UNCHANGED <<leaseGen, leaseStream, lastGen>>
  PROVE  EnvInv'
<1> USE DeviceAssumption
<1>1. CASE ProcInvalid(i)
  <2>1. /\ reply' \in [status : Nat, got : [Rows -> Nat], eos : SUBSET Rows,
                       wrong : SUBSET Rows]
        /\ reply'.wrong = {}
    BY <1>1, FallbackReply DEF ProcInvalid
  <2> QED
    BY <1>1, <2>1 DEF ProcInvalid, residentVars, EnvInv, DeviceTypeOK, LeaseInv,
                      ResidentKVComplete, AnswersAreRight
<1>2. CASE ProcDiscontinuous(i)
  <2>1. Import(i) /\ ~InvalidMetadata(i) /\ kv' = ImportedKV(i) /\ Fallback(212)
    BY <1>2 DEF ProcDiscontinuous
  <2>2. /\ reply' \in [status : Nat, got : [Rows -> Nat], eos : SUBSET Rows,
                       wrong : SUBSET Rows]
        /\ reply'.wrong = {}
    BY <2>1, FallbackReply
  <2>3. DeviceTypeOK'
    BY <2>1, <2>2, ImportTypes DEF DeviceTypeOK
  <2>4. LeaseInv'
    BY <2>1, ImportTypes DEF LeaseInv, EnvInv
  <2>5. ResidentKVComplete'
    BY <2>1, <2>3, ImportKeeps DEF ResidentKVComplete, DeviceTypeOK
  <2> QED
    BY <2>2, <2>3, <2>4, <2>5 DEF EnvInv, AnswersAreRight
<1>3. CASE \E D \in SUBSET i.active : ProcModelError(i, D)
  <2>0. PICK D \in SUBSET i.active : ProcModelError(i, D)
    BY <1>3
  <2>1. Import(i) /\ ~InvalidMetadata(i) /\ Continuous(i) /\ Fallback(207)
    BY <2>0 DEF ProcModelError
  <2>2. /\ reply' \in [status : Nat, got : [Rows -> Nat], eos : SUBSET Rows,
                       wrong : SUBSET Rows]
        /\ reply'.wrong = {}
    BY <2>1, FallbackReply
  <2>3. kv' \in [Rows -> [Positions -> Data]]
    BY <2>0, <2>1, ImportTypes DEF ProcModelError, Data
  <2>4. DeviceTypeOK'
    BY <2>1, <2>2, <2>3, ImportTypes DEF DeviceTypeOK
  <2>5. LeaseInv'
    BY <2>1, ImportTypes DEF LeaseInv, EnvInv
  <2>6. ASSUME NEW x \in Rows, x \in resValid', resGen'[x] = leaseGen[x]
        PROVE  /\ resTok'[x] = leaseStream[x]
               /\ \A p \in Positions : p < resPos'[x] => kv'[x][p] = leaseStream[x]
    <3>1. /\ resTok'[x] = leaseStream[x]
          /\ \A p \in Positions : p < resPos'[x] => ImportedKV(i)[x][p] = leaseStream[x]
      BY <2>1, <2>6, ImportKeeps
    <3>2. x \in i.active => Continues(i, x) /\ resPos'[x] = i.pos[x]
      BY <2>1, <2>6 DEF Import, Overlay, Continuous, Continues, Honest
    <3>3. StartKV(i)[x] = ImportedKV(i)[x]
      BY <3>2 DEF StartKV
    <3>4. x \in i.active => i.pos[x] \in Nat
      BY DEF Honest, EpochInputs
    <3>5. \A p \in Positions : p < resPos'[x] => kv'[x][p] = StartKV(i)[x][p]
      BY <2>0, <3>2, <3>4 DEF ProcModelError, Positions
    <3> QED
      BY <3>1, <3>3, <3>5
  <2>7. ResidentKVComplete'
    BY <2>4, <2>6 DEF ResidentKVComplete, DeviceTypeOK
  <2> QED
    BY <2>2, <2>4, <2>5, <2>7 DEF EnvInv, AnswersAreRight
<1>4. CASE \E n \in [i.active -> 1 .. i.steps], E \in SUBSET i.active : ProcOk(i, n, E)
  <2>0. PICK n \in [i.active -> 1 .. i.steps], E \in SUBSET i.active : ProcOk(i, n, E)
    BY <1>4
  <2>1. /\ Continuous(i) /\ i.steps \in Nat /\ i.active \subseteq Rows
        /\ \A x \in i.active : PrefixRight(i, x) /\ i.tok[x] = leaseStream[x]
        /\ \A x \in i.active : n[x] \in Nat /\ i.pos[x] \in Nat
    <3>1. Continuous(i)
      BY <2>0 DEF ProcOk
    <3>2. \A x \in i.active : PrefixRight(i, x) /\ i.tok[x] = leaseStream[x]
      BY <3>1, PrefixIsRight
    <3>3. i.steps \in Nat /\ i.active \subseteq Rows
      BY DEF Honest, EpochInputs
    <3>4. \A x \in i.active : n[x] \in 1 .. i.steps /\ i.pos[x] \in Nat
      BY <3>3 DEF Honest, EpochInputs
    <3> QED
      BY <3>1, <3>2, <3>3, <3>4
  <2>2. /\ resGen' = [x \in Rows |-> IF x \in i.active THEN leaseGen[x] ELSE resGen[x]]
        /\ resTok' = [x \in Rows |-> IF x \in i.active THEN leaseStream[x] ELSE resTok[x]]
        /\ resPos' = [x \in Rows |-> IF x \in i.active THEN i.pos[x] + n[x] ELSE resPos[x]]
        /\ resValid' = resValid \cup i.active
    BY <2>0, <2>1 DEF ProcOk, Honest
  <2>3. StartKV(i) \in [Rows -> [Positions -> Data]]
    <3>1. ImportedKV(i) \in [Rows -> [Positions -> Data]]
      BY DEF ImportedKV, EnvInv, DeviceTypeOK, Honest, EpochInputs
    <3>2. Empty \in [Positions -> Data]
      BY DEF Empty, Data
    <3> QED
      BY <3>1, <3>2 DEF StartKV
  <2>4. \A x \in Rows : kv'[x] =
           IF x \in i.active
           THEN [p \in Positions |->
                   IF p \in i.pos[x] .. i.pos[x] + n[x] - 1 THEN leaseStream[x]
                   ELSE StartKV(i)[x][p]]
           ELSE kv[x]
    BY <2>0, <2>1 DEF ProcOk
  <2>5. kv' \in [Rows -> [Positions -> Data]]
    <3>1. kv' = [x \in Rows |-> kv'[x]]
      BY <2>0 DEF ProcOk
    <3>2. \A x \in Rows : kv'[x] \in [Positions -> Data]
      <4> SUFFICES ASSUME NEW x \in Rows PROVE kv'[x] \in [Positions -> Data]
        OBVIOUS
      <4>1. leaseStream[x] \in Data /\ kv[x] \in [Positions -> Data]
        BY DEF EnvInv, DeviceTypeOK, LeaseInv
      <4>2. CASE x \in i.active
        <5>1. kv'[x] = [p \in Positions |->
                          IF p \in i.pos[x] .. i.pos[x] + n[x] - 1
                          THEN leaseStream[x] ELSE StartKV(i)[x][p]]
          BY <2>4, <4>2
        <5>2. \A p \in Positions : StartKV(i)[x][p] \in Data
          BY <2>3
        <5> QED
          BY <4>1, <5>1, <5>2
      <4>3. CASE x \notin i.active
        BY <2>4, <4>1, <4>3
      <4> QED
        BY <4>2, <4>3
    <3> QED
      BY <3>1, <3>2
  <2>6. reply'.wrong = {}
    BY <2>0, <2>1 DEF ProcOk
  <2>7. reply' \in [status : Nat, got : [Rows -> Nat], eos : SUBSET Rows,
                    wrong : SUBSET Rows]
    <3>1. [x \in Rows |-> IF x \in i.active THEN n[x] ELSE 0] \in [Rows -> Nat]
      BY <2>1
    <3>2. {x \in i.active : ~PrefixRight(i, x)} \in SUBSET Rows /\ E \in SUBSET Rows
      BY <2>1
    <3> QED
      BY <2>0, <3>1, <3>2 DEF ProcOk
  <2>8. DeviceTypeOK'
    BY <2>1, <2>2, <2>5, <2>7 DEF DeviceTypeOK, EnvInv, LeaseInv
  <2>9. LeaseInv'
    BY <2>1, <2>2 DEF LeaseInv, EnvInv, DeviceTypeOK
  <2>10. ASSUME NEW x \in Rows, x \in resValid', resGen'[x] = leaseGen[x]
         PROVE  /\ resTok'[x] = leaseStream[x]
                /\ \A p \in Positions : p < resPos'[x] => kv'[x][p] = leaseStream[x]
    <3>1. CASE x \in i.active
      <4>1. \A p \in Positions : p < i.pos[x] => StartKV(i)[x][p] = leaseStream[x]
        BY <2>1, <3>1 DEF PrefixRight
      <4>2. resTok'[x] = leaseStream[x] /\ resPos'[x] = i.pos[x] + n[x]
        BY <2>2, <3>1
      <4>3. \A p \in Positions :
              kv'[x][p] = IF p \in i.pos[x] .. i.pos[x] + n[x] - 1
                          THEN leaseStream[x] ELSE StartKV(i)[x][p]
        BY <2>4, <3>1
      <4>4. i.pos[x] \in Nat /\ n[x] \in Nat
        BY <2>1, <3>1
      <4> QED
        BY <4>1, <4>2, <4>3, <4>4 DEF Positions
    <3>2. CASE x \notin i.active
      <4>1. /\ x \in resValid /\ resGen[x] = leaseGen[x] /\ kv'[x] = kv[x]
            /\ resTok'[x] = resTok[x] /\ resPos'[x] = resPos[x]
        BY <2>2, <2>4, <2>10, <3>2
      <4> QED
        BY <4>1 DEF EnvInv, ResidentKVComplete
    <3> QED
      BY <3>1, <3>2
  <2>11. ResidentKVComplete'
    BY <2>8, <2>10 DEF ResidentKVComplete, DeviceTypeOK
  <2> QED
    BY <2>6, <2>8, <2>9, <2>11 DEF EnvInv, AnswersAreRight
<1> QED
  BY <1>1, <1>2, <1>3, <1>4 DEF Proc

(* A new lease makes whatever the row holds a matter of the past.          *)
LEMMA LeaseStep ==
  ASSUME EnvInv, NEW x \in Rows, NEW r \in Streams, Lease(x, r)
  PROVE  EnvInv'
<1>1. DeviceTypeOK' /\ AnswersAreRight'
  BY DEF EnvInv, Lease, deviceVars, residentVars, DeviceTypeOK, AnswersAreRight
<1>2. LeaseInv'
  BY DEF EnvInv, Lease, deviceVars, residentVars, DeviceTypeOK, LeaseInv, Data
<1>3. ResidentKVComplete'
  BY DEF EnvInv, Lease, deviceVars, residentVars, DeviceTypeOK, LeaseInv,
         ResidentKVComplete
<1> QED
  BY <1>1, <1>2, <1>3 DEF EnvInv

(* The invariant of the Device holds throughout every behaviour.           *)
LEMMA EnvInvAlways == EnvSpec => []EnvInv
<1>1. EnvInit => EnvInv
  <2> SUFFICES ASSUME EnvInit PROVE EnvInv
    OBVIOUS
  <2>1. DeviceTypeOK
    BY DEF EnvInit, DeviceInit, DeviceTypeOK, NoReply, Empty, Data
  <2> QED
    BY <2>1 DEF EnvInit, DeviceInit, EnvInv, LeaseInv, ResidentKVComplete,
                AnswersAreRight, NoReply, Data
<1>2. EnvInv /\ [EnvNext]_envVars => EnvInv'
  <2> SUFFICES ASSUME EnvInv, [EnvNext]_envVars PROVE EnvInv'
    OBVIOUS
  <2>1. CASE UNCHANGED envVars
    BY <2>1 DEF envVars, deviceVars, residentVars, EnvInv, DeviceTypeOK, LeaseInv,
                ResidentKVComplete, AnswersAreRight
  <2>2. CASE \E x \in Rows, r \in Streams : Lease(x, r)
    BY <2>2, LeaseStep
  <2>3. ASSUME NEW A \in SUBSET Rows, NEW pos \in [Rows -> Positions],
               NEW k \in 1 .. EpochMax, NEW imp \in SUBSET A, NEW odd \in SUBSET A,
               Submit(A, pos, k, imp, odd)
        PROVE  EnvInv'
    BY <2>3, RequestHonest, ProcStep DEF Submit
  <2> QED
    BY <2>1, <2>2, <2>3 DEF EnvNext
<1> QED
  BY <1>1, <1>2, PTL DEF EnvSpec

(* Whatever positions, tokens and kinds of start the Host claims, an epoch *)
(* that returns status 0 sampled only right tokens (g4c_b4_resident_epoch. *)
(* cpp: the generation and continuity checks of Proc).                     *)
THEOREM EpochsAreRight == EnvSpec => []AnswersAreRight
<1>1. EnvInv => AnswersAreRight
  BY DEF EnvInv
<1> QED
  BY <1>1, EnvInvAlways, PTL

(* A row that is resident under its current lease holds the KV of every    *)
(* position before its next one, also after imports that a failed check    *)
(* did not undo and after decoder calls that failed half way.              *)
THEOREM ResidentKVAlwaysComplete == EnvSpec => []ResidentKVComplete
<1>1. EnvInv => ResidentKVComplete
  BY DEF EnvInv
<1> QED
  BY <1>1, EnvInvAlways, PTL
=============================================================================
