------------------------- MODULE AssetStore_proofs --------------------------
(***************************************************************************)
(* Theorems about AssetStore, for any number of invocations, process ids   *)
(* and tensors.                                                            *)
(***************************************************************************)
EXTENDS AssetStore, TLAPS

(* Next, for one invocation.                                               *)
StepOf(p) == Start(p) \/ Step(p) \/ RaiseError(p) \/ Kill(p)

(* Live processes differ in their ids, bundles in /dev/shm are written     *)
(* without an asset root, a misnamed manifest is refused before anything   *)
(* is staged, and only a late step leads to the exit handler.              *)
PidInv ==
    /\ \A p, q \in Invocations : p # q /\ Live(p) /\ Live(q) => pid[p] # pid[q]
    /\ \A p \in Invocations :
          /\ mode[p] = "shm" =>
                pc[p] \in {"idle", "stage", "write", "manifest", "check"}
          /\ mode[p] = "misnamed" =>
                /\ pc[p] \in {"idle", "root", "mkroot", "list", "mark", "markw", "look"}
                /\ fate[p] \notin {"created", "reused"}
          /\ fate[p] = "none" => pc[p] = "idle"
          /\ fate[p] = "failing" => pc[p] \in LateSteps

(* Who has passed prepare_asset_store leaves a root with a marker behind.  *)
StoreInv ==
    \A p \in Invocations :
        mode[p] = "target" /\ pc[p] \in {"look", "validate"} \cup LateSteps
            => store \in {"torn", "marked"}

(* How far the output of a running invocation has come.                    *)
WorkOf(p) ==
    /\ pc[p] = "write" => dir[Out(p)].exists /\ dir[Out(p)].files < Files
    /\ pc[p] \in {"manifest", "check"} =>
          dir[Out(p)].exists /\ dir[Out(p)].files = Files
    /\ pc[p] = "publish" => dir[Out(p)] = Complete
    /\ pc[p] \in {"publish", "commit"} => manifest[Out(p)] = "valid"

WorkInv == \A p \in Invocations : fate[p] = "running" => WorkOf(p)

(* /dev/shm: one invocation ever gets past mkdir.                          *)
Past == {"write", "manifest", "check"}

ShmInv ==
    /\ \A p \in Invocations :
          mode[p] = "shm" /\ pc[p] \in Past => dir["shm"].exists
    /\ \A p, q \in Invocations :
          p # q /\ mode[p] = "shm" /\ mode[q] = "shm"
            => ~(pc[p] \in Past /\ pc[q] \in Past)
    /\ manifest["shm"] # "none" =>
          \E p \in Invocations : mode[p] = "shm" /\ pc[p] = "check"
    /\ manifest["shm"] = "valid" => dir["shm"] = Complete
    /\ \A p \in Invocations :
          mode[p] = "shm" /\ fate[p] = "created"
            => pc[p] = "check" /\ manifest["shm"] = "valid"

(* The content-addressed path: one invocation ever renames to it.          *)
TargetInv ==
    /\ \A p \in Invocations :
          pc[p] = "commit" => mode[p] = "target" /\ dir["target"] = Complete
    /\ \A p, q \in Invocations : pc[p] = "commit" /\ pc[q] = "commit" => p = q
    /\ dir["target"].exists => \E p \in Invocations : pc[p] = "commit"
    /\ manifest["target"] \in {"none", "valid"}
    /\ manifest["target"] = "valid" => dir["target"].exists
    /\ \A p \in Invocations :
          mode[p] = "target" /\ fate[p] = "created"
            => pc[p] = "commit" /\ manifest["target"] = "valid"
    /\ \A p \in Invocations :
          fate[p] = "reused" => mode[p] = "target" /\ Published

(* An invocation that found the bundle published takes the way of reuse.   *)
LateInv ==
    \A p \in Invocations : late[p] =>
        /\ Published
        /\ mode[p] = "target" =>
              /\ pc[p] \in {"root", "look", "validate"}
              /\ fate[p] = "failed" => pc[p] = "root"

(* Every step keeps the types.                                             *)
LEMMA TypeStep ==
  ASSUME TypeOK, [Next]_vars
  PROVE  TypeOK'
<1> USE AssetAssumption DEF At, GoTo, Finish, Fail, LateSteps
<1>0. CASE UNCHANGED vars
  BY <1>0
     DEF vars, TypeOK, Places, EarlySteps, Out
<1>1. ASSUME NEW p \in Invocations
      PROVE  StepOf(p) => TypeOK'
  <2>1. CASE Start(p)
    <3>1. Published \in BOOLEAN
      BY DEF Published
    <3> QED
      BY <2>1, <3>1 DEF Start, TypeOK, EarlySteps
  <2>2. CASE LookAtRoot(p)
    BY <2>2
       DEF LookAtRoot, TypeOK, Places, EarlySteps, Out
  <2>3. CASE ListRoot(p)
    BY <2>3
       DEF ListRoot, TypeOK, Places, EarlySteps, Out
  <2>4. CASE MakeRoot(p)
    BY <2>4
       DEF MakeRoot, TypeOK, Places, EarlySteps, Out
  <2>5. CASE TruncateMarker(p)
    BY <2>5
       DEF TruncateMarker, TypeOK, Places, EarlySteps, Out
  <2>6. CASE WriteMarker(p)
    BY <2>6
       DEF WriteMarker, TypeOK, Places, EarlySteps, Out
  <2>7. CASE LookForTarget(p)
    BY <2>7
       DEF LookForTarget, TypeOK, Places, EarlySteps, Out
  <2>8. CASE ValidateExisting(p)
    BY <2>8
       DEF ValidateExisting, TypeOK, Places, EarlySteps, Out
  <2>9. CASE MakeOutput(p)
    <3>1. Made \in [files : 0..Files, good : BOOLEAN, exists : BOOLEAN]
      BY DEF Made
    <3>2. dir' = dir \/ dir' = [dir EXCEPT ![Out(p)] = Made]
      BY <2>9 DEF MakeOutput
    <3>3. dir' \in [Places -> [files : 0..Files, good : BOOLEAN, exists : BOOLEAN]]
      BY <3>1, <3>2 DEF TypeOK
    <3>4. pc' \in [Invocations -> {"idle"} \cup EarlySteps \cup LateSteps]
      BY <2>9 DEF MakeOutput, TypeOK
    <3>5. fate' \in [Invocations -> {"none", "running", "failing", "failed",
                                     "killed", "created", "reused"}]
      BY <2>9 DEF MakeOutput, TypeOK
    <3> QED
      BY <2>9, <3>3, <3>4, <3>5 DEF MakeOutput, TypeOK
  <2>10. CASE \E ok \in BOOLEAN : WriteTensor(p, ok)
    <3> DEFINE out == Out(p)
    <3>0. PICK ok \in BOOLEAN : WriteTensor(p, ok)
      BY <2>10
    <3>1. out \in Places
      BY DEF Out, Places, TypeOK
    <3>2. dir' = [dir EXCEPT ![out] = [files |-> dir[out].files + 1,
                                       good |-> dir[out].good /\ ok,
                                       exists |-> dir[out].exists]]
      BY <3>0, <3>1 DEF WriteTensor, TypeOK
    <3>3. dir[out].files + 1 \in 0..Files
      BY <3>0, <3>1 DEF WriteTensor, TypeOK
    <3>4. dir' \in [Places -> [files : 0..Files, good : BOOLEAN, exists : BOOLEAN]]
      BY <3>1, <3>2, <3>3 DEF TypeOK
    <3> QED
      BY <3>0, <3>4 DEF WriteTensor, TypeOK, EarlySteps
  <2>11. CASE OpenManifest(p)
    BY <2>11
       DEF OpenManifest, TypeOK, Places, EarlySteps, Out
  <2>12. CASE WriteManifest(p)
    BY <2>12
       DEF WriteManifest, TypeOK, Places, EarlySteps, Out
  <2>13. CASE Publish(p)
    <3>0. Absent \in [files : 0..Files, good : BOOLEAN, exists : BOOLEAN]
      BY DEF Absent
    <3>1. Out(p) \in Places /\ "target" \in Places
      BY DEF Out, Places, TypeOK
    <3>2. \/ dir' = dir
          \/ dir' = [dir EXCEPT !["target"] = dir[Out(p)], ![Out(p)] = Absent]
      BY <2>13 DEF Publish
    <3>3. dir' \in [Places -> [files : 0..Files, good : BOOLEAN, exists : BOOLEAN]]
      BY <3>0, <3>1, <3>2 DEF TypeOK
    <3>4. /\ pc' \in [Invocations -> {"idle"} \cup EarlySteps \cup LateSteps]
          /\ fate' \in [Invocations -> {"none", "running", "failing", "failed",
                                        "killed", "created", "reused"}]
      BY <2>13 DEF Publish, TypeOK
    <3> QED
      BY <2>13, <3>3, <3>4 DEF Publish, TypeOK
  <2>14. CASE Commit(p)
    BY <2>14
       DEF Commit, TypeOK, Places, EarlySteps, Out
  <2>15. CASE CleanUp(p)
    <3>0. Absent \in [files : 0..Files, good : BOOLEAN, exists : BOOLEAN]
      BY DEF Absent
    <3>1. dir' = dir \/ dir' = [dir EXCEPT ![pid[p]] = Absent]
      BY <2>15 DEF CleanUp
    <3>2. dir' \in [Places -> [files : 0..Files, good : BOOLEAN, exists : BOOLEAN]]
      BY <3>0, <3>1 DEF TypeOK
    <3>3. manifest' \in [Places -> {"none", "bad", "valid"}]
      BY <2>15 DEF CleanUp, TypeOK
    <3> QED
      BY <2>15, <3>2, <3>3 DEF CleanUp, TypeOK
  <2>16. CASE RaiseError(p)
    BY <2>16
       DEF RaiseError, TypeOK, Places, EarlySteps, Out
  <2>17. CASE Kill(p)
    BY <2>17
       DEF Kill, TypeOK, Places, EarlySteps, Out
  <2> QED
    BY <2>1, <2>2, <2>3, <2>4, <2>5, <2>6, <2>7, <2>8, <2>9, <2>10, <2>11,
       <2>12, <2>13, <2>14, <2>15, <2>16, <2>17
       DEF StepOf, Step
<1> QED
  BY <1>0, <1>1 DEF Next, StepOf

(* Every step keeps live process ids apart.                                *)
LEMMA PidStep ==
  ASSUME TypeOK, PidInv, [Next]_vars
  PROVE  PidInv'
<1> USE AssetAssumption DEF At, GoTo, Finish, Fail, LateSteps
<1>0. CASE UNCHANGED vars
  BY <1>0
     DEF vars, PidInv, TypeOK, Live
<1>1. ASSUME NEW p \in Invocations
      PROVE  StepOf(p) => PidInv'
  <2>1. CASE Start(p)
    BY <2>1
       DEF Start, PidInv, TypeOK, Live
  <2>2. CASE LookAtRoot(p)
    BY <2>2
       DEF LookAtRoot, PidInv, TypeOK, Live
  <2>3. CASE ListRoot(p)
    BY <2>3
       DEF ListRoot, PidInv, TypeOK, Live
  <2>4. CASE MakeRoot(p)
    BY <2>4
       DEF MakeRoot, PidInv, TypeOK, Live
  <2>5. CASE TruncateMarker(p)
    BY <2>5
       DEF TruncateMarker, PidInv, TypeOK, Live
  <2>6. CASE WriteMarker(p)
    BY <2>6
       DEF WriteMarker, PidInv, TypeOK, Live
  <2>7. CASE LookForTarget(p)
    BY <2>7
       DEF LookForTarget, PidInv, TypeOK, Live
  <2>8. CASE ValidateExisting(p)
    BY <2>8
       DEF ValidateExisting, PidInv, TypeOK, Live
  <2>9. CASE MakeOutput(p)
    <3>1. /\ pc[p] = "stage" /\ fate[p] = "running"
          /\ \/ pc' = [pc EXCEPT ![p] = "write"] /\ UNCHANGED fate
             \/ fate' = [fate EXCEPT ![p] = "failing"] /\ UNCHANGED pc
          /\ UNCHANGED <<pid, mode>>
      BY <2>9 DEF MakeOutput
    <3> QED
      BY <3>1 DEF PidInv, TypeOK, Live
  <2>10. CASE \E ok \in BOOLEAN : WriteTensor(p, ok)
    BY <2>10
       DEF WriteTensor, PidInv, TypeOK, Live
  <2>11. CASE OpenManifest(p)
    BY <2>11
       DEF OpenManifest, PidInv, TypeOK, Live
  <2>12. CASE WriteManifest(p)
    BY <2>12
       DEF WriteManifest, PidInv, TypeOK, Live
  <2>13. CASE Publish(p)
    <3>1. /\ pc[p] = "publish" /\ fate[p] = "running"
          /\ \/ pc' = [pc EXCEPT ![p] = "commit"] /\ UNCHANGED fate
             \/ fate' = [fate EXCEPT ![p] = "failing"] /\ UNCHANGED pc
          /\ UNCHANGED <<pid, mode>>
      BY <2>13 DEF Publish
    <3> QED
      BY <3>1 DEF PidInv, TypeOK, Live
  <2>14. CASE Commit(p)
    BY <2>14
       DEF Commit, PidInv, TypeOK, Live
  <2>15. CASE CleanUp(p)
    BY <2>15
       DEF CleanUp, PidInv, TypeOK, Live
  <2>16. CASE RaiseError(p)
    BY <2>16
       DEF RaiseError, PidInv, TypeOK, Live
  <2>17. CASE Kill(p)
    BY <2>17
       DEF Kill, PidInv, TypeOK, Live
  <2> QED
    BY <2>1, <2>2, <2>3, <2>4, <2>5, <2>6, <2>7, <2>8, <2>9, <2>10, <2>11,
       <2>12, <2>13, <2>14, <2>15, <2>16, <2>17
       DEF StepOf, Step
<1> QED
  BY <1>0, <1>1 DEF Next, StepOf

(* Every step keeps a root that was prepared.                              *)
LEMMA StoreStep ==
  ASSUME TypeOK, StoreInv, [Next]_vars
  PROVE  StoreInv'
<1> USE AssetAssumption DEF At, GoTo, Finish, Fail, LateSteps
<1>0. CASE UNCHANGED vars
  BY <1>0
     DEF vars, StoreInv, TypeOK
<1>1. ASSUME NEW p \in Invocations
      PROVE  StepOf(p) => StoreInv'
  <2>1. CASE Start(p)
    BY <2>1
       DEF Start, StoreInv, TypeOK
  <2>2. CASE LookAtRoot(p)
    BY <2>2
       DEF LookAtRoot, StoreInv, TypeOK
  <2>3. CASE ListRoot(p)
    BY <2>3
       DEF ListRoot, StoreInv, TypeOK
  <2>4. CASE MakeRoot(p)
    BY <2>4
       DEF MakeRoot, StoreInv, TypeOK
  <2>5. CASE TruncateMarker(p)
    BY <2>5
       DEF TruncateMarker, StoreInv, TypeOK
  <2>6. CASE WriteMarker(p)
    BY <2>6
       DEF WriteMarker, StoreInv, TypeOK
  <2>7. CASE LookForTarget(p)
    BY <2>7
       DEF LookForTarget, StoreInv, TypeOK
  <2>8. CASE ValidateExisting(p)
    BY <2>8
       DEF ValidateExisting, StoreInv, TypeOK
  <2>9. CASE MakeOutput(p)
    BY <2>9
       DEF MakeOutput, StoreInv, TypeOK
  <2>10. CASE \E ok \in BOOLEAN : WriteTensor(p, ok)
    BY <2>10
       DEF WriteTensor, StoreInv, TypeOK
  <2>11. CASE OpenManifest(p)
    BY <2>11
       DEF OpenManifest, StoreInv, TypeOK
  <2>12. CASE WriteManifest(p)
    BY <2>12
       DEF WriteManifest, StoreInv, TypeOK
  <2>13. CASE Publish(p)
    BY <2>13
       DEF Publish, StoreInv, TypeOK
  <2>14. CASE Commit(p)
    BY <2>14
       DEF Commit, StoreInv, TypeOK
  <2>15. CASE CleanUp(p)
    BY <2>15
       DEF CleanUp, StoreInv, TypeOK
  <2>16. CASE RaiseError(p)
    BY <2>16
       DEF RaiseError, StoreInv, TypeOK
  <2>17. CASE Kill(p)
    BY <2>17
       DEF Kill, StoreInv, TypeOK
  <2> QED
    BY <2>1, <2>2, <2>3, <2>4, <2>5, <2>6, <2>7, <2>8, <2>9, <2>10, <2>11,
       <2>12, <2>13, <2>14, <2>15, <2>16, <2>17
       DEF StepOf, Step
<1> QED
  BY <1>0, <1>1 DEF Next, StepOf

(* Two live invocations that are past the look at the store never write to *)
(* the same place, except both to /dev/shm, where one is still at mkdir.   *)
LEMMA OutApart ==
  ASSUME TypeOK, PidInv, ShmInv,
         NEW p \in Invocations, NEW q \in Invocations, p # q,
         Live(p), Live(q), pc[q] \in Past \cup {"publish", "commit"}
  PROVE  /\ Out(p) # Out(q) \/ (mode[p] = "shm" /\ mode[q] = "shm")
         /\ pc[p] \in Past \cup {"publish", "commit"} => Out(p) # Out(q)
         /\ Out(p) = Out(q) => dir[Out(p)].exists
  BY AssetAssumption DEF TypeOK, PidInv, ShmInv, Out, Past

(* An output is a staging directory or /dev/shm, never the target.         *)
LEMMA OutPlace ==
  ASSUME TypeOK, NEW p \in Invocations
  PROVE  /\ Out(p) \in Places /\ "target" \in Places /\ "shm" \in Places
         /\ Out(p) # "target" /\ pid[p] \in Places
         /\ pid[p] # "target" /\ pid[p] # "shm"
         /\ mode[p] = "shm" <=> Out(p) = "shm"
         /\ mode[p] # "shm" <=> Out(p) = pid[p]
         /\ mode[p] \in {"shm", "target", "misnamed"}
  BY AssetAssumption DEF TypeOK, Out, Places

(* Every step keeps the progress of a running invocation.                  *)
LEMMA WorkStep ==
  ASSUME TypeOK, PidInv, ShmInv, WorkInv, [Next]_vars
  PROVE  WorkInv'
<1> USE AssetAssumption DEF At, GoTo, Finish, Fail, LateSteps
<1>0. CASE UNCHANGED vars
  BY <1>0
     DEF vars, WorkInv, WorkOf, TypeOK, Out, Live, Places
<1>1. ASSUME NEW p \in Invocations
      PROVE  StepOf(p) => WorkInv'
  <2>1. CASE Start(p)
    BY <2>1
       DEF Start, WorkInv, WorkOf, TypeOK, Out, Live, Places
  <2>2. CASE LookAtRoot(p)
    BY <2>2
       DEF LookAtRoot, WorkInv, WorkOf, TypeOK, Out, Live, Places
  <2>3. CASE ListRoot(p)
    BY <2>3
       DEF ListRoot, WorkInv, WorkOf, TypeOK, Out, Live, Places
  <2>4. CASE MakeRoot(p)
    BY <2>4
       DEF MakeRoot, WorkInv, WorkOf, TypeOK, Out, Live, Places
  <2>5. CASE TruncateMarker(p)
    BY <2>5
       DEF TruncateMarker, WorkInv, WorkOf, TypeOK, Out, Live, Places
  <2>6. CASE WriteMarker(p)
    BY <2>6
       DEF WriteMarker, WorkInv, WorkOf, TypeOK, Out, Live, Places
  <2>7. CASE LookForTarget(p)
    BY <2>7
       DEF LookForTarget, WorkInv, WorkOf, TypeOK, Out, Live, Places
  <2>8. CASE ValidateExisting(p)
    BY <2>8
       DEF ValidateExisting, WorkInv, WorkOf, TypeOK, Out, Live, Places
  <2>9. CASE MakeOutput(p)
    <3>1. ASSUME NEW q \in Invocations, q # p, fate'[q] = "running"
          PROVE  WorkOf(q)'
      <4>1. /\ fate[q] = "running" /\ pc'[q] = pc[q] /\ Out(q)' = Out(q)
            /\ Out(q) \in Places /\ Out(q) # "target"
        BY <2>9, <3>1, OutPlace DEF MakeOutput, TypeOK, Out
      <4>2. WorkOf(q)
        BY <3>1, <4>1 DEF WorkInv
      <4>3. pc[q] \in Past \cup {"publish", "commit"} =>
              dir'[Out(q)] = dir[Out(q)] /\ manifest'[Out(q)] = manifest[Out(q)]
        BY <2>9, <3>1, <4>1, OutApart, OutPlace
           DEF MakeOutput, TypeOK, Live, Past, EarlySteps
      <4> QED
        BY <4>1, <4>2, <4>3 DEF WorkOf, Past
    <3>2. fate'[p] = "running" => WorkOf(p)'
      <4>1. Out(p)' = Out(p) /\ Out(p) \in Places /\ fate[p] \in {"running", "failing"}
        BY <2>9, OutPlace DEF MakeOutput, TypeOK, Out
      <4>2. fate[p] = "running" => WorkOf(p)
        BY DEF WorkInv
      <4> QED
        BY <2>9, <4>1, <4>2, OutPlace DEF MakeOutput, WorkOf, TypeOK, DigestMatches, Made
    <3> QED
      BY <3>1, <3>2 DEF WorkInv
  <2>10. CASE \E ok \in BOOLEAN : WriteTensor(p, ok)
    <3>0. PICK ok \in BOOLEAN : WriteTensor(p, ok)
      BY <2>10
    <3>1. ASSUME NEW q \in Invocations, q # p, fate'[q] = "running"
          PROVE  WorkOf(q)'
      <4>1. /\ fate[q] = "running" /\ pc'[q] = pc[q] /\ Out(q)' = Out(q)
            /\ Out(q) \in Places /\ Out(q) # "target"
        BY <3>0, <3>1, OutPlace DEF WriteTensor, TypeOK, Out
      <4>2. WorkOf(q)
        BY <3>1, <4>1 DEF WorkInv
      <4>3. pc[q] \in Past \cup {"publish", "commit"} =>
              dir'[Out(q)] = dir[Out(q)] /\ manifest'[Out(q)] = manifest[Out(q)]
        BY <3>0, <3>1, <4>1, OutApart, OutPlace
           DEF WriteTensor, TypeOK, Live, Past, EarlySteps
      <4> QED
        BY <4>1, <4>2, <4>3 DEF WorkOf, Past
    <3>2. fate'[p] = "running" => WorkOf(p)'
      <4>1. Out(p)' = Out(p) /\ Out(p) \in Places /\ fate[p] \in {"running", "failing"}
        BY <3>0, OutPlace DEF WriteTensor, TypeOK, Out
      <4>2. fate[p] = "running" => WorkOf(p)
        BY DEF WorkInv
      <4> QED
        BY <3>0, <4>1, <4>2, OutPlace DEF WriteTensor, WorkOf, TypeOK, DigestMatches, Made
    <3> QED
      BY <3>1, <3>2 DEF WorkInv
  <2>11. CASE OpenManifest(p)
    <3>1. ASSUME NEW q \in Invocations, q # p, fate'[q] = "running"
          PROVE  WorkOf(q)'
      <4>1. /\ fate[q] = "running" /\ pc'[q] = pc[q] /\ Out(q)' = Out(q)
            /\ Out(q) \in Places /\ Out(q) # "target"
        BY <2>11, <3>1, OutPlace DEF OpenManifest, TypeOK, Out
      <4>2. WorkOf(q)
        BY <3>1, <4>1 DEF WorkInv
      <4>3. pc[q] \in Past \cup {"publish", "commit"} =>
              dir'[Out(q)] = dir[Out(q)] /\ manifest'[Out(q)] = manifest[Out(q)]
        BY <2>11, <3>1, <4>1, OutApart, OutPlace
           DEF OpenManifest, TypeOK, Live, Past, EarlySteps
      <4> QED
        BY <4>1, <4>2, <4>3 DEF WorkOf, Past
    <3>2. fate'[p] = "running" => WorkOf(p)'
      <4>1. Out(p)' = Out(p) /\ Out(p) \in Places /\ fate[p] \in {"running", "failing"}
        BY <2>11, OutPlace DEF OpenManifest, TypeOK, Out
      <4>2. fate[p] = "running" => WorkOf(p)
        BY DEF WorkInv
      <4> QED
        BY <2>11, <4>1, <4>2, OutPlace DEF OpenManifest, WorkOf, TypeOK, DigestMatches, Made
    <3> QED
      BY <3>1, <3>2 DEF WorkInv
  <2>12. CASE WriteManifest(p)
    <3>1. ASSUME NEW q \in Invocations, q # p, fate'[q] = "running"
          PROVE  WorkOf(q)'
      <4>1. /\ fate[q] = "running" /\ pc'[q] = pc[q] /\ Out(q)' = Out(q)
            /\ Out(q) \in Places /\ Out(q) # "target"
        BY <2>12, <3>1, OutPlace DEF WriteManifest, TypeOK, Out
      <4>2. WorkOf(q)
        BY <3>1, <4>1 DEF WorkInv
      <4>3. pc[q] \in Past \cup {"publish", "commit"} =>
              dir'[Out(q)] = dir[Out(q)] /\ manifest'[Out(q)] = manifest[Out(q)]
        BY <2>12, <3>1, <4>1, OutApart, OutPlace
           DEF WriteManifest, TypeOK, Live, Past, EarlySteps
      <4> QED
        BY <4>1, <4>2, <4>3 DEF WorkOf, Past
    <3>2. fate'[p] = "running" => WorkOf(p)'
      <4>1. /\ Out(p)' = Out(p) /\ Out(p) \in Places /\ dir' = dir
            /\ fate[p] = "running" /\ pc[p] = "check"
        BY <2>12, OutPlace DEF WriteManifest, TypeOK, Out
      <4>2. dir[Out(p)].exists /\ dir[Out(p)].files = Files
        BY <4>1 DEF WorkInv, WorkOf
      <4>3. dir[Out(p)].good => dir[Out(p)] = Complete
        BY <4>1, <4>2 DEF TypeOK, Complete
      <4>4. fate'[p] = "running" =>
              /\ pc'[p] = "publish" /\ DigestMatches(p)
              /\ manifest'[Out(p)] = "valid"
        BY <2>12, <4>1 DEF WriteManifest, TypeOK
      <4> QED
        BY <4>1, <4>3, <4>4 DEF WorkOf, DigestMatches
    <3> QED
      BY <3>1, <3>2 DEF WorkInv
  <2>13. CASE Publish(p)
    <3>1. ASSUME NEW q \in Invocations, q # p, fate'[q] = "running"
          PROVE  WorkOf(q)'
      <4>1. /\ fate[q] = "running" /\ pc'[q] = pc[q] /\ Out(q)' = Out(q)
            /\ Out(q) \in Places /\ Out(q) # "target"
        BY <2>13, <3>1, OutPlace DEF Publish, TypeOK, Out
      <4>2. WorkOf(q)
        BY <3>1, <4>1 DEF WorkInv
      <4>3. pc[q] \in Past \cup {"publish", "commit"} =>
              dir'[Out(q)] = dir[Out(q)] /\ manifest'[Out(q)] = manifest[Out(q)]
        BY <2>13, <3>1, <4>1, OutApart, OutPlace
           DEF Publish, TypeOK, Live, Past, EarlySteps
      <4> QED
        BY <4>1, <4>2, <4>3 DEF WorkOf, Past
    <3>2. fate'[p] = "running" => WorkOf(p)'
      <4>1. Out(p)' = Out(p) /\ Out(p) \in Places /\ fate[p] \in {"running", "failing"}
        BY <2>13, OutPlace DEF Publish, TypeOK, Out
      <4>2. fate[p] = "running" => WorkOf(p)
        BY DEF WorkInv
      <4> QED
        BY <2>13, <4>1, <4>2, OutPlace DEF Publish, WorkOf, TypeOK, DigestMatches, Made
    <3> QED
      BY <3>1, <3>2 DEF WorkInv
  <2>14. CASE Commit(p)
    <3>1. ASSUME NEW q \in Invocations, q # p, fate'[q] = "running"
          PROVE  WorkOf(q)'
      <4>1. /\ fate[q] = "running" /\ pc'[q] = pc[q] /\ Out(q)' = Out(q)
            /\ Out(q) \in Places /\ Out(q) # "target"
        BY <2>14, <3>1, OutPlace DEF Commit, TypeOK, Out
      <4>2. WorkOf(q)
        BY <3>1, <4>1 DEF WorkInv
      <4>3. pc[q] \in Past \cup {"publish", "commit"} =>
              dir'[Out(q)] = dir[Out(q)] /\ manifest'[Out(q)] = manifest[Out(q)]
        BY <2>14, <3>1, <4>1, OutApart, OutPlace
           DEF Commit, TypeOK, Live, Past, EarlySteps
      <4> QED
        BY <4>1, <4>2, <4>3 DEF WorkOf, Past
    <3>2. fate'[p] = "running" => WorkOf(p)'
      <4>1. Out(p)' = Out(p) /\ Out(p) \in Places /\ fate[p] \in {"running", "failing"}
        BY <2>14, OutPlace DEF Commit, TypeOK, Out
      <4>2. fate[p] = "running" => WorkOf(p)
        BY DEF WorkInv
      <4> QED
        BY <2>14, <4>1, <4>2, OutPlace DEF Commit, WorkOf, TypeOK, DigestMatches, Made
    <3> QED
      BY <3>1, <3>2 DEF WorkInv
  <2>15. CASE CleanUp(p)
    <3>1. ASSUME NEW q \in Invocations, q # p, fate'[q] = "running"
          PROVE  WorkOf(q)'
      <4>1. /\ fate[q] = "running" /\ pc'[q] = pc[q] /\ Out(q)' = Out(q)
            /\ Out(q) \in Places /\ Out(q) # "target"
        BY <2>15, <3>1, OutPlace DEF CleanUp, TypeOK, Out
      <4>2. WorkOf(q)
        BY <3>1, <4>1 DEF WorkInv
      <4>3. pc[q] \in Past \cup {"publish", "commit"} =>
              dir'[Out(q)] = dir[Out(q)] /\ manifest'[Out(q)] = manifest[Out(q)]
        BY <2>15, <3>1, <4>1, OutApart, OutPlace
           DEF CleanUp, TypeOK, Live, Past, EarlySteps
      <4> QED
        BY <4>1, <4>2, <4>3 DEF WorkOf, Past
    <3>2. fate'[p] = "running" => WorkOf(p)'
      <4>1. Out(p)' = Out(p) /\ Out(p) \in Places /\ fate[p] \in {"running", "failing"}
        BY <2>15, OutPlace DEF CleanUp, TypeOK, Out
      <4>2. fate[p] = "running" => WorkOf(p)
        BY DEF WorkInv
      <4> QED
        BY <2>15, <4>1, <4>2, OutPlace DEF CleanUp, WorkOf, TypeOK, DigestMatches, Made
    <3> QED
      BY <3>1, <3>2 DEF WorkInv
  <2>16. CASE RaiseError(p)
    BY <2>16
       DEF RaiseError, WorkInv, WorkOf, TypeOK, Out, Live, Places
  <2>17. CASE Kill(p)
    BY <2>17
       DEF Kill, WorkInv, WorkOf, TypeOK, Out, Live, Places
  <2> QED
    BY <2>1, <2>2, <2>3, <2>4, <2>5, <2>6, <2>7, <2>8, <2>9, <2>10, <2>11,
       <2>12, <2>13, <2>14, <2>15, <2>16, <2>17
       DEF StepOf, Step
<1> QED
  BY <1>0, <1>1 DEF Next, StepOf

(* Every step keeps /dev/shm to one writer.                                *)
LEMMA ShmStep ==
  ASSUME TypeOK, PidInv, WorkInv, ShmInv, [Next]_vars
  PROVE  ShmInv'
<1> USE AssetAssumption DEF At, GoTo, Finish, Fail, LateSteps
<1>0. CASE UNCHANGED vars
  BY <1>0
     DEF vars, ShmInv, TypeOK, Past, Places, Out
<1>1. ASSUME NEW p \in Invocations
      PROVE  StepOf(p) => ShmInv'
  <2>1. CASE Start(p)
    <3>1. /\ \A q \in Invocations : mode'[q] = "shm" /\ pc'[q] \in Past <=>
                                       mode[q] = "shm" /\ pc[q] \in Past
          /\ \A q \in Invocations : mode'[q] = "shm" /\ pc'[q] = "check" <=>
                                       mode[q] = "shm" /\ pc[q] = "check"
          /\ \A q \in Invocations : fate'[q] = "created" <=> fate[q] = "created"
      BY <2>1 DEF Start, TypeOK, PidInv, Past
    <3> QED
      BY <2>1, <3>1 DEF Start, ShmInv
  <2>2. CASE LookAtRoot(p)
    BY <2>2
       DEF LookAtRoot, ShmInv, TypeOK, Past, Places, Out
  <2>3. CASE ListRoot(p)
    BY <2>3
       DEF ListRoot, ShmInv, TypeOK, Past, Places, Out
  <2>4. CASE MakeRoot(p)
    BY <2>4
       DEF MakeRoot, ShmInv, TypeOK, Past, Places, Out
  <2>5. CASE TruncateMarker(p)
    BY <2>5
       DEF TruncateMarker, ShmInv, TypeOK, Past, Places, Out
  <2>6. CASE WriteMarker(p)
    BY <2>6
       DEF WriteMarker, ShmInv, TypeOK, Past, Places, Out
  <2>7. CASE LookForTarget(p)
    BY <2>7
       DEF LookForTarget, ShmInv, TypeOK, Past, Places, Out
  <2>8. CASE ValidateExisting(p)
    BY <2>8
       DEF ValidateExisting, ShmInv, TypeOK, Past, Places, Out
  <2>9. CASE MakeOutput(p)
    <3>1. CASE mode[p] = "shm" /\ ~dir["shm"].exists
      <4>1. /\ dir'["shm"] = Made /\ UNCHANGED <<manifest, mode, fate>>
            /\ pc' = [pc EXCEPT ![p] = "write"]
        BY <2>9, <3>1, OutPlace DEF MakeOutput, TypeOK
      <4>2. \A q \in Invocations : mode[q] = "shm" => pc[q] \notin Past
        BY <3>1 DEF ShmInv
      <4>3. manifest["shm"] = "none"
        BY <4>2 DEF ShmInv, Past
      <4> QED
        BY <4>1, <4>2, <4>3 DEF ShmInv, Past, TypeOK, Made
    <3>2. CASE ~(mode[p] = "shm" /\ ~dir["shm"].exists)
      <4>1. UNCHANGED <<manifest, mode>> /\ dir'["shm"] = dir["shm"]
        BY <2>9, <3>2, OutPlace DEF MakeOutput, TypeOK
      <4>2. \A q \in Invocations : mode'[q] = "shm" => pc'[q] = pc[q]
        BY <2>9, <3>2, OutPlace DEF MakeOutput, TypeOK
      <4>3. \A q \in Invocations : fate'[q] = "created" => fate[q] = "created"
        BY <2>9 DEF MakeOutput, TypeOK
      <4> QED
        BY <4>1, <4>2, <4>3 DEF ShmInv
    <3> QED
      BY <3>1, <3>2
  <2>10. CASE \E ok \in BOOLEAN : WriteTensor(p, ok)
    BY <2>10
       DEF WriteTensor, ShmInv, TypeOK, Past, Places, Out
  <2>11. CASE OpenManifest(p)
    BY <2>11
       DEF OpenManifest, ShmInv, TypeOK, Past, Places, Out
  <2>12. CASE WriteManifest(p)
    <3>1. /\ dir' = dir /\ UNCHANGED mode
          /\ \A q \in Invocations : mode[q] = "shm" => pc'[q] = pc[q]
          /\ \A q \in Invocations \ {p} : fate'[q] = fate[q]
          /\ pc[p] = "check" /\ fate[p] = "running"
      BY <2>12 DEF WriteManifest, TypeOK
    <3>2. dir[Out(p)].good => dir[Out(p)] = Complete
      BY <3>1, OutPlace DEF WorkInv, WorkOf, TypeOK, Complete
    <3>3. CASE mode[p] = "shm"
      <4>1. /\ manifest'["shm"] = "valid" => dir["shm"] = Complete
            /\ fate'[p] = "created" => manifest'["shm"] = "valid"
            /\ manifest'["shm"] # "none"
        BY <2>12, <3>1, <3>2, <3>3, OutPlace DEF WriteManifest, TypeOK, DigestMatches
      <4>2. \A q \in Invocations \ {p} : mode[q] = "shm" => fate[q] # "created"
        BY <3>1, <3>3 DEF ShmInv, Past
      <4> QED
        BY <3>1, <3>3, <4>1, <4>2 DEF ShmInv
    <3>4. CASE mode[p] # "shm"
      <4>1. manifest'["shm"] = manifest["shm"]
        BY <2>12, <3>4, OutPlace DEF WriteManifest, TypeOK
      <4> QED
        BY <3>1, <3>4, <4>1 DEF ShmInv
    <3> QED
      BY <3>3, <3>4
  <2>13. CASE Publish(p)
    <3>1. mode[p] # "shm"
      BY <2>13 DEF Publish, PidInv
    <3>2. /\ dir'["shm"] = dir["shm"] /\ manifest'["shm"] = manifest["shm"]
          /\ UNCHANGED mode
          /\ \A q \in Invocations : mode[q] = "shm" => pc'[q] = pc[q] /\ fate'[q] = fate[q]
      BY <2>13, <3>1, OutPlace DEF Publish, TypeOK
    <3> QED
      BY <3>2 DEF ShmInv
  <2>14. CASE Commit(p)
    <3>1. mode[p] # "shm"
      BY <2>14 DEF Commit, PidInv
    <3>2. /\ dir'["shm"] = dir["shm"] /\ manifest'["shm"] = manifest["shm"]
          /\ UNCHANGED mode
          /\ \A q \in Invocations : mode[q] = "shm" => pc'[q] = pc[q] /\ fate'[q] = fate[q]
      BY <2>14, <3>1, OutPlace DEF Commit, TypeOK
    <3> QED
      BY <3>2 DEF ShmInv
  <2>15. CASE CleanUp(p)
    BY <2>15
       DEF CleanUp, ShmInv, TypeOK, Past, Places, Out
  <2>16. CASE RaiseError(p)
    BY <2>16
       DEF RaiseError, ShmInv, TypeOK, Past, Places, Out
  <2>17. CASE Kill(p)
    BY <2>17
       DEF Kill, ShmInv, TypeOK, Past, Places, Out
  <2> QED
    BY <2>1, <2>2, <2>3, <2>4, <2>5, <2>6, <2>7, <2>8, <2>9, <2>10, <2>11,
       <2>12, <2>13, <2>14, <2>15, <2>16, <2>17
       DEF StepOf, Step
<1> QED
  BY <1>0, <1>1 DEF Next, StepOf

(* Every step keeps the target to one publisher.                           *)
LEMMA TargetStep ==
  ASSUME TypeOK, PidInv, WorkInv, TargetInv, [Next]_vars
  PROVE  TargetInv'
<1> USE AssetAssumption DEF At, GoTo, Finish, Fail, LateSteps
<1>0. CASE UNCHANGED vars
  BY <1>0
     DEF vars, TargetInv, TypeOK, Places, Out, Published
<1>1. ASSUME NEW p \in Invocations
      PROVE  StepOf(p) => TargetInv'
  <2>1. CASE Start(p)
    <3>1. /\ UNCHANGED <<dir, manifest, mode>>
          /\ \A q \in Invocations : pc'[q] = "commit" <=> pc[q] = "commit"
          /\ \A q \in Invocations : fate'[q] = "created" => fate[q] = "created"
      BY <2>1 DEF Start, TypeOK, PidInv
    <3>2. \A q \in Invocations : fate'[q] = "reused" =>
             fate[q] = "reused"
      BY <2>1 DEF Start, TypeOK
    <3> QED
      BY <3>1, <3>2 DEF TargetInv, Published
  <2>2. CASE LookAtRoot(p)
    <3>1. /\ UNCHANGED <<dir, manifest, mode>>
          /\ \A q \in Invocations : pc'[q] = "commit" <=> pc[q] = "commit"
          /\ \A q \in Invocations : fate'[q] = "created" => fate[q] = "created"
      BY <2>2 DEF LookAtRoot, TypeOK, PidInv
    <3>2. \A q \in Invocations : fate'[q] = "reused" =>
             fate[q] = "reused"
      BY <2>2 DEF LookAtRoot, TypeOK
    <3> QED
      BY <3>1, <3>2 DEF TargetInv, Published
  <2>3. CASE ListRoot(p)
    BY <2>3
       DEF ListRoot, TargetInv, TypeOK, Places, Out, Published
  <2>4. CASE MakeRoot(p)
    BY <2>4
       DEF MakeRoot, TargetInv, TypeOK, Places, Out, Published
  <2>5. CASE TruncateMarker(p)
    BY <2>5
       DEF TruncateMarker, TargetInv, TypeOK, Places, Out, Published
  <2>6. CASE WriteMarker(p)
    BY <2>6
       DEF WriteMarker, TargetInv, TypeOK, Places, Out, Published
  <2>7. CASE LookForTarget(p)
    BY <2>7
       DEF LookForTarget, TargetInv, TypeOK, Places, Out, Published
  <2>8. CASE ValidateExisting(p)
    <3>1. /\ UNCHANGED <<dir, manifest, mode>>
          /\ \A q \in Invocations : pc'[q] = "commit" <=> pc[q] = "commit"
          /\ \A q \in Invocations : fate'[q] = "created" => fate[q] = "created"
      BY <2>8 DEF ValidateExisting, TypeOK, PidInv
    <3>2. \A q \in Invocations : fate'[q] = "reused" =>
             fate[q] = "reused" \/ (q = p /\ Published)
      BY <2>8 DEF ValidateExisting, TypeOK, ExistingBundleValid
    <3>3. mode[p] = "target"
      BY <2>8 DEF ValidateExisting, PidInv, TypeOK
    <3> QED
      BY <3>1, <3>2, <3>3 DEF TargetInv, Published
  <2>9. CASE MakeOutput(p)
    BY <2>9
       DEF MakeOutput, TargetInv, TypeOK, Places, Out, Published
  <2>10. CASE \E ok \in BOOLEAN : WriteTensor(p, ok)
    BY <2>10
       DEF WriteTensor, TargetInv, TypeOK, Places, Out, Published
  <2>11. CASE OpenManifest(p)
    BY <2>11
       DEF OpenManifest, TargetInv, TypeOK, Places, Out, Published
  <2>12. CASE WriteManifest(p)
    BY <2>12
       DEF WriteManifest, TargetInv, TypeOK, Places, Out, Published
  <2>13. CASE Publish(p)
    <3>0. pc[p] = "publish" /\ fate[p] = "running" /\ mode[p] = "target"
      BY <2>13 DEF Publish, PidInv, TypeOK
    <3>1. CASE dir["target"].exists
      <4>1. /\ UNCHANGED <<dir, manifest, mode, pc>>
            /\ \A q \in Invocations : fate'[q] \in {"created", "reused"} => fate'[q] = fate[q]
        BY <2>13, <3>1 DEF Publish, TypeOK
      <4> QED
        BY <4>1 DEF TargetInv, Published
    <3>2. CASE ~dir["target"].exists
      <4>1. dir[Out(p)] = Complete
        BY <3>0 DEF WorkInv, WorkOf
      <4>2. /\ dir'["target"] = Complete /\ UNCHANGED <<manifest, mode, fate>>
            /\ pc' = [pc EXCEPT ![p] = "commit"]
        BY <2>13, <3>2, <4>1, OutPlace DEF Publish, TypeOK
      <4>3. \A q \in Invocations : pc[q] # "commit"
        BY <3>2 DEF TargetInv, Complete
      <4>4. manifest["target"] = "none"
        BY <3>2 DEF TargetInv
      <4>5. \A q \in Invocations :
              fate[q] # "reused" /\ ~(mode[q] = "target" /\ fate[q] = "created")
        BY <3>2 DEF TargetInv, Published
      <4> QED
        BY <3>0, <4>2, <4>3, <4>4, <4>5 DEF TargetInv, TypeOK, Complete
    <3> QED
      BY <3>1, <3>2
  <2>14. CASE Commit(p)
    <3>1. pc[p] = "commit" /\ fate[p] = "running"
      BY <2>14 DEF Commit
    <3>2. manifest[Out(p)] = "valid" /\ mode[p] = "target" /\ dir["target"] = Complete
      BY <3>1 DEF WorkInv, WorkOf, TargetInv
    <3>3. /\ manifest'["target"] = "valid" /\ UNCHANGED <<dir, mode, pc>>
          /\ fate' = [fate EXCEPT ![p] = "created"]
      BY <2>14, <3>2, OutPlace DEF Commit, TypeOK
    <3> QED
      BY <3>1, <3>2, <3>3 DEF TargetInv, Published, TypeOK, Complete
  <2>15. CASE CleanUp(p)
    BY <2>15
       DEF CleanUp, TargetInv, TypeOK, Places, Out, Published
  <2>16. CASE RaiseError(p)
    BY <2>16
       DEF RaiseError, TargetInv, TypeOK, Places, Out, Published
  <2>17. CASE Kill(p)
    BY <2>17
       DEF Kill, TargetInv, TypeOK, Places, Out, Published
  <2> QED
    BY <2>1, <2>2, <2>3, <2>4, <2>5, <2>6, <2>7, <2>8, <2>9, <2>10, <2>11,
       <2>12, <2>13, <2>14, <2>15, <2>16, <2>17
       DEF StepOf, Step
<1> QED
  BY <1>0, <1>1 DEF Next, StepOf

(* Once a bundle is published the root has a marker and the bundle is      *)
(* complete.                                                               *)
LEMMA Reusable ==
  ASSUME TypeOK, StoreInv, TargetInv, Published
  PROVE  store \in {"torn", "marked"} /\ ExistingBundleValid
<1>1. PICK q \in Invocations : pc[q] = "commit"
  BY DEF Published, TargetInv
<1>2. mode[q] = "target" /\ dir["target"] = Complete
  BY <1>1 DEF TargetInv
<1> QED
  BY <1>1, <1>2 DEF StoreInv, LateSteps, ExistingBundleValid

(* Every step keeps late invocations on the way of reuse.                  *)
LEMMA LateStep ==
  ASSUME TypeOK, PidInv, WorkInv, StoreInv, TargetInv, LateInv, [Next]_vars
  PROVE  LateInv'
<1> USE AssetAssumption DEF At, GoTo, Finish, Fail, LateSteps
<1>0. CASE UNCHANGED vars
  BY <1>0
     DEF vars, LateInv, TypeOK, Published
<1>1. ASSUME NEW p \in Invocations
      PROVE  StepOf(p) => LateInv'
  <2>1. CASE Start(p)
    <3>1. Published => Published'
      BY <2>1 DEF Start, Published
    <3>2. \A q \in Invocations : late'[q] => Published
      BY <2>1 DEF Start, LateInv, TypeOK
    <3>3. ASSUME NEW q \in Invocations, late'[q], mode'[q] = "target"
          PROVE  /\ pc'[q] \in {"root", "look", "validate"}
                 /\ fate'[q] = "failed" => pc'[q] = "root"
      BY <2>1, <3>3 DEF Start, LateInv, TypeOK
    <3> QED
      BY <3>1, <3>2, <3>3 DEF LateInv
  <2>2. CASE LookAtRoot(p)
    <3>1. Published => Published'
      BY <2>2, OutPlace DEF LookAtRoot, Published, TypeOK
    <3>2. ASSUME NEW q \in Invocations, late'[q], mode'[q] = "target"
          PROVE  /\ pc'[q] \in {"root", "look", "validate"}
                 /\ fate'[q] = "failed" => pc'[q] = "root"
      BY <2>2, <3>2, Reusable DEF LookAtRoot, LateInv, TypeOK, StoreInv
    <3>3. \A q \in Invocations : late'[q] => Published
      BY <2>2 DEF LookAtRoot, LateInv, TypeOK
    <3> QED
      BY <3>1, <3>2, <3>3 DEF LateInv
  <2>3. CASE ListRoot(p)
    BY <2>3
       DEF ListRoot, LateInv, TypeOK, Published
  <2>4. CASE MakeRoot(p)
    BY <2>4
       DEF MakeRoot, LateInv, TypeOK, Published
  <2>5. CASE TruncateMarker(p)
    BY <2>5
       DEF TruncateMarker, LateInv, TypeOK, Published
  <2>6. CASE WriteMarker(p)
    BY <2>6
       DEF WriteMarker, LateInv, TypeOK, Published
  <2>7. CASE LookForTarget(p)
    BY <2>7
       DEF LookForTarget, LateInv, TypeOK, Published
  <2>8. CASE ValidateExisting(p)
    <3>1. Published => Published'
      BY <2>8, OutPlace DEF ValidateExisting, Published, TypeOK
    <3>2. ASSUME NEW q \in Invocations, late'[q], mode'[q] = "target"
          PROVE  /\ pc'[q] \in {"root", "look", "validate"}
                 /\ fate'[q] = "failed" => pc'[q] = "root"
      BY <2>8, <3>2, Reusable DEF ValidateExisting, LateInv, TypeOK, StoreInv, ExistingBundleValid
    <3>3. \A q \in Invocations : late'[q] => Published
      BY <2>8 DEF ValidateExisting, LateInv, TypeOK
    <3> QED
      BY <3>1, <3>2, <3>3 DEF LateInv
  <2>9. CASE MakeOutput(p)
    <3>1. Published => Published'
      BY <2>9, OutPlace DEF MakeOutput, Published, TypeOK
    <3>2. ASSUME NEW q \in Invocations, late'[q], mode'[q] = "target"
          PROVE  /\ pc'[q] \in {"root", "look", "validate"}
                 /\ fate'[q] = "failed" => pc'[q] = "root"
      BY <2>9, <3>2, Reusable DEF MakeOutput, LateInv, TypeOK, StoreInv
    <3>3. \A q \in Invocations : late'[q] => Published
      BY <2>9 DEF MakeOutput, LateInv, TypeOK
    <3> QED
      BY <3>1, <3>2, <3>3 DEF LateInv
  <2>10. CASE \E ok \in BOOLEAN : WriteTensor(p, ok)
    <3>0. PICK ok \in BOOLEAN : WriteTensor(p, ok)
      BY <2>10
    <3>1. Published => Published'
      BY <3>0, OutPlace DEF WriteTensor, Published, TypeOK
    <3>2. ASSUME NEW q \in Invocations, late'[q], mode'[q] = "target"
          PROVE  /\ pc'[q] \in {"root", "look", "validate"}
                 /\ fate'[q] = "failed" => pc'[q] = "root"
      BY <3>0, <3>2, Reusable DEF WriteTensor, LateInv, TypeOK, StoreInv
    <3>3. \A q \in Invocations : late'[q] => Published
      BY <3>0 DEF WriteTensor, LateInv, TypeOK
    <3> QED
      BY <3>1, <3>2, <3>3 DEF LateInv
  <2>11. CASE OpenManifest(p)
    <3>1. Published => Published'
      BY <2>11, OutPlace DEF OpenManifest, Published, TypeOK
    <3>2. ASSUME NEW q \in Invocations, late'[q], mode'[q] = "target"
          PROVE  /\ pc'[q] \in {"root", "look", "validate"}
                 /\ fate'[q] = "failed" => pc'[q] = "root"
      BY <2>11, <3>2, Reusable DEF OpenManifest, LateInv, TypeOK, StoreInv
    <3>3. \A q \in Invocations : late'[q] => Published
      BY <2>11 DEF OpenManifest, LateInv, TypeOK
    <3> QED
      BY <3>1, <3>2, <3>3 DEF LateInv
  <2>12. CASE WriteManifest(p)
    <3>1. Published => Published'
      BY <2>12, OutPlace DEF WriteManifest, Published, TypeOK
    <3>2. ASSUME NEW q \in Invocations, late'[q], mode'[q] = "target"
          PROVE  /\ pc'[q] \in {"root", "look", "validate"}
                 /\ fate'[q] = "failed" => pc'[q] = "root"
      BY <2>12, <3>2, Reusable DEF WriteManifest, LateInv, TypeOK, StoreInv
    <3>3. \A q \in Invocations : late'[q] => Published
      BY <2>12 DEF WriteManifest, LateInv, TypeOK
    <3> QED
      BY <3>1, <3>2, <3>3 DEF LateInv
  <2>13. CASE Publish(p)
    <3>1. Published => Published'
      BY <2>13, OutPlace DEF Publish, Published, TypeOK, TargetInv, WorkInv, WorkOf
    <3>2. ASSUME NEW q \in Invocations, late'[q], mode'[q] = "target"
          PROVE  /\ pc'[q] \in {"root", "look", "validate"}
                 /\ fate'[q] = "failed" => pc'[q] = "root"
      BY <2>13, <3>2, Reusable DEF Publish, LateInv, TypeOK, StoreInv
    <3>3. \A q \in Invocations : late'[q] => Published
      BY <2>13 DEF Publish, LateInv, TypeOK
    <3> QED
      BY <3>1, <3>2, <3>3 DEF LateInv
  <2>14. CASE Commit(p)
    <3>1. Published => Published'
      BY <2>14, OutPlace DEF Commit, Published, TypeOK, TargetInv, WorkInv, WorkOf
    <3>2. ASSUME NEW q \in Invocations, late'[q], mode'[q] = "target"
          PROVE  /\ pc'[q] \in {"root", "look", "validate"}
                 /\ fate'[q] = "failed" => pc'[q] = "root"
      BY <2>14, <3>2, Reusable DEF Commit, LateInv, TypeOK, StoreInv
    <3>3. \A q \in Invocations : late'[q] => Published
      BY <2>14 DEF Commit, LateInv, TypeOK
    <3> QED
      BY <3>1, <3>2, <3>3 DEF LateInv
  <2>15. CASE CleanUp(p)
    <3>1. Published => Published'
      BY <2>15, OutPlace DEF CleanUp, Published, TypeOK
    <3>2. ASSUME NEW q \in Invocations, late'[q], mode'[q] = "target"
          PROVE  /\ pc'[q] \in {"root", "look", "validate"}
                 /\ fate'[q] = "failed" => pc'[q] = "root"
      BY <2>15, <3>2, Reusable DEF CleanUp, LateInv, TypeOK, StoreInv, PidInv
    <3>3. \A q \in Invocations : late'[q] => Published
      BY <2>15 DEF CleanUp, LateInv, TypeOK
    <3> QED
      BY <3>1, <3>2, <3>3 DEF LateInv
  <2>16. CASE RaiseError(p)
    BY <2>16
       DEF RaiseError, LateInv, TypeOK, Published
  <2>17. CASE Kill(p)
    BY <2>17
       DEF Kill, LateInv, TypeOK, Published
  <2> QED
    BY <2>1, <2>2, <2>3, <2>4, <2>5, <2>6, <2>7, <2>8, <2>9, <2>10, <2>11,
       <2>12, <2>13, <2>14, <2>15, <2>16, <2>17
       DEF StepOf, Step
<1> QED
  BY <1>0, <1>1 DEF Next, StepOf

(* The inductive invariant.                                                *)
AssetInv ==
    TypeOK /\ PidInv /\ StoreInv /\ WorkInv /\ ShmInv /\ TargetInv /\ LateInv

(* It holds when no invocation has started.                                *)
LEMMA AssetInvInit == Init => AssetInv
<1> SUFFICES ASSUME Init PROVE AssetInv
  OBVIOUS
<1> USE AssetAssumption DEF Init
<1>1. TypeOK
  <2>1. Absent \in [files : 0..Files, good : BOOLEAN, exists : BOOLEAN]
    BY DEF Absent
  <2> QED
    BY <2>1 DEF TypeOK, EarlySteps, LateSteps
<1>2. PidInv /\ StoreInv /\ WorkInv
  BY DEF PidInv, StoreInv, WorkInv, Live, LateSteps
<1>3. "target" \in Places /\ "shm" \in Places
  BY DEF Places
<1>4. ShmInv
  BY <1>3 DEF ShmInv, Past
<1>5. TargetInv
  BY <1>3 DEF TargetInv, Absent
<1>6. LateInv
  BY DEF LateInv
<1> QED
  BY <1>1, <1>2, <1>4, <1>5, <1>6 DEF AssetInv

(* Every step keeps it.                                                    *)
LEMMA AssetInvStep == AssetInv /\ [Next]_vars => AssetInv'
  BY TypeStep, PidStep, StoreStep, WorkStep, ShmStep, TargetStep, LateStep
     DEF AssetInv

(* It holds throughout every behaviour.                                    *)
LEMMA AssetInvAlways == Spec => []AssetInv
  BY AssetInvInit, AssetInvStep, PTL DEF Spec

(* The types, whatever the invocations do.                                 *)
THEOREM AssetTypeCorrect == Spec => []TypeOK
<1>1. AssetInv => TypeOK
  BY DEF AssetInv
<1> QED
  BY <1>1, AssetInvAlways, PTL

(* Whatever is killed, and whenever: a reader that finds a valid manifest  *)
(* finds all the weights (materialize_runtime_weights.py 292-403).         *)
THEOREM ManifestsMeanComplete == Spec => []ManifestMeansComplete
<1>1. AssetInv => ManifestMeansComplete
  BY DEF AssetInv, TargetInv, ShmInv, ManifestMeansComplete
<1> QED
  BY <1>1, AssetInvAlways, PTL

(* Success, created or reused, leaves the caller a complete bundle         *)
(* whatever the other invocations do afterwards (252-266, 401-418).        *)
THEOREM SuccessesAreUsable == Spec => []SuccessMeansUsable
<1>1. ASSUME AssetInv PROVE SuccessMeansUsable
  <2> USE <1>1 DEF AssetInv
  <2> SUFFICES ASSUME NEW p \in Invocations, fate[p] \in {"created", "reused"}
               PROVE  dir[mode[p]] = Complete /\ manifest[mode[p]] = "valid"
    BY DEF SuccessMeansUsable
  <2>1. CASE mode[p] = "shm"
    BY <2>1 DEF ShmInv, TargetInv
  <2>2. CASE mode[p] = "target"
    <3>1. manifest["target"] = "valid"
      BY <2>2 DEF TargetInv, Published
    <3>2. dir["target"] = Complete
      BY <3>1 DEF TargetInv
    <3> QED
      BY <2>2, <3>1, <3>2
  <2> QED
    BY <2>1, <2>2, OutPlace DEF PidInv
<1> QED
  BY <1>1, AssetInvAlways, PTL

(* A directory without its manifest is in the hands of an invocation that  *)
(* is between rename and replace, or was lost there (402-403).             *)
THEOREM UnfinishedWasLost == Spec => []UnfinishedNeedsLostPublisher
<1>1. AssetInv => UnfinishedNeedsLostPublisher
  BY DEF AssetInv, TargetInv, UnfinishedNeedsLostPublisher
<1> QED
  BY <1>1, AssetInvAlways, PTL

(* An invocation that starts after publication reuses the bundle, unless   *)
(* it meets a marker that is being rewritten (190-196, 252-266).           *)
THEOREM LateInvocationsReuse == Spec => []LateInvocationReuses
<1>1. AssetInv => LateInvocationReuses
  BY DEF AssetInv, LateInv, LateInvocationReuses
<1> QED
  BY <1>1, AssetInvAlways, PTL

(* The published bundle is never written, replaced or removed.             *)
THEOREM PublishedIsFinal == Spec => PublishedNeverChanges
<1>1. ASSUME AssetInv, [Next]_vars, dir["target"].exists
      PROVE  dir'["target"] = dir["target"]
  <2> USE <1>1 DEF AssetInv
  <2>0. CASE UNCHANGED vars
    BY <2>0 DEF vars
  <2>1. ASSUME NEW p \in Invocations, StepOf(p)
        PROVE  dir'["target"] = dir["target"]
    <3>1. CASE MakeOutput(p)
      BY <3>1, OutPlace DEF MakeOutput, TypeOK
    <3>2. CASE \E ok \in BOOLEAN : WriteTensor(p, ok)
      BY <3>2, OutPlace DEF WriteTensor, TypeOK
    <3>3. CASE Publish(p)
      BY <3>3 DEF Publish
    <3>4. CASE CleanUp(p)
      BY <3>4, OutPlace DEF CleanUp, TypeOK
    <3> QED
      BY <2>1, <3>1, <3>2, <3>3, <3>4
         DEF StepOf, Step, Start, LookAtRoot, ListRoot, MakeRoot, TruncateMarker,
             WriteMarker, LookForTarget, ValidateExisting, OpenManifest,
             WriteManifest, Commit, RaiseError, Kill
  <2> QED
    BY <1>1, <2>0, <2>1 DEF Next, StepOf
<1>2. AssetInv /\ [Next]_vars =>
        [dir["target"].exists => dir'["target"] = dir["target"]]_vars
  BY <1>1
<1> QED
  BY <1>2, AssetInvAlways, PTL DEF Spec, PublishedNeverChanges
=============================================================================
