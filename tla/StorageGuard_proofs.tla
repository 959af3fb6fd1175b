------------------------ MODULE StorageGuard_proofs -------------------------
(***************************************************************************)
(* Theorems about StorageGuard, for any number of experiments, NPUs, run   *)
(* ids and steps and any amount of trouble.                                *)
(***************************************************************************)
EXTENDS StorageGuard, TLAPS

(* GuardNext, for one experiment.                                          *)
StepOf(e) ==
    \/ Preflight(e) \/ PreflightFails(e) \/ Sample(e) \/ TryLock(e)
    \/ Recheck(e) \/ MakeDirs(e) \/ StartStep(e) \/ StartProfile(e)
    \/ DriverGivesUp(e)
    \/ LoggerOpens(e) \/ CmdAttach(e) \/ CmdSpawns(e) \/ SvcAttach(e)
    \/ SvcEnds(e) \/ (\E what \in Budgets \ {"none"} : Overrun(e, what))
    \/ (\E orderly \in BOOLEAN : CmdExits(e, orderly))
    \/ Monitor(e) \/ LoggerEnds(e) \/ StepEnds(e)
    \/ (\E ok \in BOOLEAN : ProfileEnds(e, ok)) \/ ProfileTorn(e)
    \/ (\E keeps \in BOOLEAN : Finalize(e, keeps)) \/ FinalizeFails(e)
    \/ (\E pinned \in BOOLEAN : CleanUp(e, pinned))
    \/ Interrupt(e) \/ Kill(e)

StepBound == \A e \in Experiments : drv[e] \in {"step", "profile"} => step[e] < Steps

(* Every step keeps the types.                                             *)
LEMMA TypeStep ==
  ASSUME GuardTypeOK, StepBound,
         [GuardNext]_vars
  PROVE  GuardTypeOK' /\ StepBound'
<1> USE GuardAssumption DEF At, GoTo, config, driver, pipeline, files, past,
        history
<1>0. CASE UNCHANGED vars
  BY <1>0
     DEF vars, GuardTypeOK, StepBound
<1>1. ASSUME NEW e \in Experiments
      PROVE  StepOf(e) => GuardTypeOK' /\ StepBound'
  <2>1. CASE Preflight(e)
    BY <2>1
       DEF Preflight, DriverStates, GuardTypeOK, StepBound
  <2>2. CASE PreflightFails(e)
    BY <2>2
       DEF PreflightFails, DriverStates, Trouble, Log, Running, Budgets,
           GuardTypeOK, StepBound
  <2>3. CASE Sample(e)
    BY <2>3
       DEF Sample, DriverStates, Trouble, Log, Running, Budgets, GuardTypeOK,
           StepBound
  <2>4. CASE TryLock(e)
    <3>1. \/ drv' = [drv EXCEPT ![e] = "ended"] /\ locked' = locked
          \/ drv' = [drv EXCEPT ![e] = "recheck"]
             /\ locked' = [locked EXCEPT ![e] = TRUE]
      BY <2>4, Zenon DEF TryLock
    <3> QED
      BY <2>4, <3>1 DEF TryLock, DriverStates, GuardTypeOK, StepBound
  <2>5. CASE Recheck(e)
    BY <2>5
       DEF Recheck, DriverStates, Trouble, Log, Running, Budgets,
           GuardTypeOK, StepBound
  <2>6. CASE MakeDirs(e)
    BY <2>6
       DEF MakeDirs, DriverStates, Trouble, Log, Running, Budgets,
           GuardTypeOK, StepBound
  <2>7. CASE StartStep(e)
    <3>0. Starting(e) \in SUBSET Experiments
      BY DEF Starting
    <3>1. CASE Log(e) \in logs
      BY <2>7, <3>0, <3>1 DEF StartStep, DriverStates, GuardTypeOK, StepBound
    <3>2. CASE Log(e) \notin logs
      <4>1. tick' \in [Experiments -> 0..(AuditEvery - 1)]
        BY <2>7, <3>2 DEF StartStep, GuardTypeOK
      <4>2. blind' \in [Experiments -> SUBSET Experiments]
        BY <2>7, <3>0 DEF StartStep, GuardTypeOK
      <4>3. StepBound'
        BY <2>7, <3>2 DEF StartStep, GuardTypeOK, StepBound
      <4>4. /\ drv' \in [Experiments -> DriverStates]
            /\ cmd' \in [Experiments -> {"none", "host", "npu"}]
            /\ mon' \in [Experiments -> {"none", "watch", "kill", "reap"}]
            /\ logger' \in [Experiments ->
                              {"none", "start", "open", "done", "refused"}]
        <5>1. /\ drv' = [drv EXCEPT ![e] = "step"]
              /\ cmd' = [cmd EXCEPT ![e] = "host"]
              /\ mon' = [mon EXCEPT ![e] = "watch"]
              /\ logger' = [logger EXCEPT ![e] = "start"]
          BY <2>7, <3>2 DEF StartStep
        <5> QED
          BY <5>1 DEF DriverStates, GuardTypeOK
      <4>5. UNCHANGED <<npu, run, step, samples, failed, cut, svc, over, locked,
                        made, scratch, finalized, intact, logs, looked, age,
                        trouble>>
        BY <2>7, <3>2 DEF StartStep
      <4> QED
        BY <4>1, <4>2, <4>3, <4>4, <4>5 DEF GuardTypeOK
    <3> QED
      BY <3>1, <3>2
  <2>8. CASE DriverGivesUp(e)
    BY <2>8
       DEF DriverGivesUp, DriverStates, Trouble, Log, Running, Budgets,
           GuardTypeOK, StepBound
  <2>9. CASE LoggerOpens(e)
    <3>1. CASE Log(e) \notin logs
      <4>1. Log(e) \in Runs \X (0..Steps)
        BY DEF Log, GuardTypeOK
      <4>2. logs' \subseteq Runs \X (0..Steps)
        BY <2>9, <3>1, <4>1 DEF LoggerOpens, GuardTypeOK
      <4> QED
        BY <2>9, <3>1, <4>2 DEF LoggerOpens, GuardTypeOK, StepBound
    <3>2. CASE Log(e) \in logs
      BY <2>9, <3>2 DEF LoggerOpens, GuardTypeOK, StepBound
    <3> QED
      BY <3>1, <3>2
  <2>10. CASE CmdAttach(e)
    BY <2>10
       DEF CmdAttach, DriverStates, Trouble, Log, Running, Budgets,
           GuardTypeOK, StepBound
  <2>11. CASE CmdSpawns(e)
    BY <2>11
       DEF CmdSpawns, DriverStates, Trouble, Log, Running, Budgets,
           GuardTypeOK, StepBound
  <2>12. CASE SvcAttach(e)
    BY <2>12
       DEF SvcAttach, DriverStates, Trouble, Log, Running, Budgets,
           GuardTypeOK, StepBound
  <2>13. CASE SvcEnds(e)
    BY <2>13
       DEF SvcEnds, DriverStates, Trouble, Log, Running, Budgets,
           GuardTypeOK, StepBound
  <2>14. CASE \E what \in Budgets \ {"none"} : Overrun(e, what)
    BY <2>14
       DEF Overrun, DriverStates, Trouble, Log, Running, Budgets,
           GuardTypeOK, StepBound
  <2>15. CASE \E orderly \in BOOLEAN : CmdExits(e, orderly)
    BY <2>15
       DEF CmdExits, DriverStates, Trouble, Log, Running, Budgets,
           GuardTypeOK, StepBound
  <2>16. CASE MonCheck(e)
    <3>1. CASE BudgetBroken(e)
      BY <2>16, <3>1 DEF MonCheck, GuardTypeOK, StepBound
    <3>2. CASE ~BudgetBroken(e)
      <4>1. tick' = [tick EXCEPT ![e] = IF @ + 1 = AuditEvery THEN 0 ELSE @ + 1]
        BY <2>16, <3>2 DEF MonCheck
      <4>2. \/ age' = age
            \/ age[e] < AuditEvery /\ age' = [age EXCEPT ![e] = @ + 1]
        BY <2>16, <3>2 DEF MonCheck
      <4>3. tick' \in [Experiments -> 0..(AuditEvery - 1)]
        BY <4>1 DEF GuardTypeOK
      <4>4. age' \in [Experiments -> 0..AuditEvery]
        BY <4>2 DEF GuardTypeOK
      <4> QED
        BY <2>16, <3>2, <4>3, <4>4 DEF MonCheck, GuardTypeOK, StepBound
    <3> QED
      BY <3>1, <3>2
  <2>17. CASE MonKill(e)
    BY <2>17
       DEF MonKill, DriverStates, Trouble, Log, Running, Budgets,
           GuardTypeOK, StepBound
  <2>18. CASE MonReap(e)
    BY <2>18
       DEF MonReap, DriverStates, Trouble, Log, Running, Budgets,
           GuardTypeOK, StepBound
  <2>19. CASE LoggerEnds(e)
    BY <2>19
       DEF LoggerEnds, DriverStates, Trouble, Log, Running, Budgets,
           GuardTypeOK, StepBound
  <2>20. CASE StepEnds(e)
    BY <2>20
       DEF StepEnds, DriverStates, Trouble, Log, Running, Budgets,
           GuardTypeOK, StepBound
  <2>21. CASE \E keeps \in BOOLEAN : Finalize(e, keeps)
    BY <2>21
       DEF Finalize, DriverStates, Trouble, Log, Running, Budgets,
           GuardTypeOK, StepBound
  <2>22. CASE FinalizeFails(e)
    BY <2>22
       DEF FinalizeFails, DriverStates, Trouble, Log, Running, Budgets,
           GuardTypeOK, StepBound
  <2>23. CASE \E pinned \in BOOLEAN : CleanUp(e, pinned)
    BY <2>23
       DEF CleanUp, DriverStates, Trouble, Log, Running, Budgets,
           GuardTypeOK, StepBound
  <2>24. CASE Interrupt(e)
    BY <2>24
       DEF Interrupt, DriverStates, Trouble, Log, Running, Budgets,
           GuardTypeOK, StepBound
  <2>25. CASE Kill(e)
    BY <2>25
       DEF Kill, DriverStates, Trouble, Log, Running, Budgets, GuardTypeOK,
           StepBound
  <2>26. CASE StartProfile(e)
    <3>1. Starting(e) \in SUBSET Experiments
      BY DEF Starting
    <3> QED
      BY <2>26, <3>1 DEF StartProfile, GuardTypeOK, StepBound, DriverStates
  <2>27. CASE \E ok \in BOOLEAN : ProfileEnds(e, ok)
    BY <2>27
       DEF ProfileEnds, GuardTypeOK, StepBound, DriverStates, Log, Running
  <2>28. CASE ProfileTorn(e)
    BY <2>28
       DEF ProfileTorn, Trouble, GuardTypeOK, StepBound, DriverStates, Log, Running
  <2> QED
    BY <2>1, <2>2, <2>3, <2>4, <2>5, <2>6, <2>7, <2>8, <2>9, <2>10, <2>11,
       <2>12, <2>13, <2>14, <2>15, <2>16, <2>17, <2>18, <2>19, <2>20, <2>21,
       <2>22, <2>23, <2>24, <2>25, <2>26, <2>27, <2>28
       DEF StepOf, Monitor
<1> QED
  BY <1>0, <1>1 DEF GuardNext, StepOf
(* Where a pipeline can be: its monitor outlives its command, a driver     *)
(* between steps has none, a profile has a command only; a server without  *)
(* its command is one of a step that failed.                               *)
Ahead == {"launch", "wait", "lock", "recheck", "mkdirs", "idle"}

PipeInv ==
    \A e \in Experiments :
        /\ mon[e] = "none" => age[e] = 0
        /\ drv[e] = "step" /\ mon[e] = "none" => cmd[e] = "none"
        /\ drv[e] \in Ahead => cmd[e] = "none"
        /\ drv[e] \in Ahead \cup {"profile"} => mon[e] = "none" /\ logger[e] = "none"
        /\ svc[e] # "none" => cmd[e] # "none" \/ failed[e]

(* The lock: not taken before TryLock, then kept by whatever is left, and  *)
(* held by one experiment per NPU.                                         *)
Quiet(e) == ~Running(e) /\ mon[e] = "none" /\ logger[e] \notin {"start", "open"}

LockInv ==
    /\ \A e \in Experiments : drv[e] \in {"launch", "wait", "lock"} => ~locked[e]
    /\ \A e \in Experiments :
          drv[e] \in {"recheck", "mkdirs", "idle", "step", "profile"} \/ ~Quiet(e)
            => locked[e]
    /\ \A e, f \in Experiments :
          e # f /\ npu[e] = npu[f] => ~(Holds(e) /\ Holds(f))

(* The checks passed in breach are those since the last audit.             *)
AgeInv ==
    \A e \in Experiments :
        age[e] <= tick[e] /\ (age[e] > 0 => over[e] = "project")

(* Every step keeps the pipelines in order.                               *)
LEMMA PipeStep ==
  ASSUME GuardTypeOK, PipeInv,
         [GuardNext]_vars
  PROVE  PipeInv'
<1> USE GuardAssumption DEF At, GoTo, config, driver, pipeline, files, past,
        history
<1>0. CASE UNCHANGED vars
  BY <1>0
     DEF vars, PipeInv, GuardTypeOK, Ahead
<1>1. ASSUME NEW e \in Experiments
      PROVE  StepOf(e) => PipeInv'
  <2>1. CASE Preflight(e)
    BY <2>1
       DEF Preflight, Trouble, Running, PipeInv, GuardTypeOK, Ahead
  <2>2. CASE PreflightFails(e)
    BY <2>2
       DEF PreflightFails, Trouble, Running, PipeInv, GuardTypeOK, Ahead
  <2>3. CASE Sample(e)
    BY <2>3
       DEF Sample, Trouble, Running, PipeInv, GuardTypeOK, Ahead
  <2>4. CASE TryLock(e)
    BY <2>4
       DEF TryLock, Trouble, Running, PipeInv, GuardTypeOK, Ahead
  <2>5. CASE Recheck(e)
    BY <2>5
       DEF Recheck, Trouble, Running, PipeInv, GuardTypeOK, Ahead
  <2>6. CASE MakeDirs(e)
    BY <2>6
       DEF MakeDirs, Trouble, Running, PipeInv, GuardTypeOK, Ahead
  <2>7. CASE StartStep(e)
    BY <2>7
       DEF StartStep, Trouble, Running, PipeInv, GuardTypeOK, Ahead
  <2>8. CASE DriverGivesUp(e)
    BY <2>8
       DEF DriverGivesUp, Trouble, Running, PipeInv, GuardTypeOK, Ahead
  <2>9. CASE LoggerOpens(e)
    BY <2>9
       DEF LoggerOpens, Trouble, Running, PipeInv, GuardTypeOK, Ahead
  <2>10. CASE CmdAttach(e)
    BY <2>10
       DEF CmdAttach, Trouble, Running, PipeInv, GuardTypeOK, Ahead
  <2>11. CASE CmdSpawns(e)
    BY <2>11
       DEF CmdSpawns, Trouble, Running, PipeInv, GuardTypeOK, Ahead
  <2>12. CASE SvcAttach(e)
    BY <2>12
       DEF SvcAttach, Trouble, Running, PipeInv, GuardTypeOK, Ahead
  <2>13. CASE SvcEnds(e)
    BY <2>13
       DEF SvcEnds, Trouble, Running, PipeInv, GuardTypeOK, Ahead
  <2>14. CASE \E what \in Budgets \ {"none"} : Overrun(e, what)
    BY <2>14
       DEF Overrun, Budgets, Trouble, PipeInv, GuardTypeOK, Ahead
  <2>15. CASE \E orderly \in BOOLEAN : CmdExits(e, orderly)
    <3>1. PICK orderly \in BOOLEAN : CmdExits(e, orderly)
      BY <2>15
    <3>2. CASE orderly
      BY <3>1, <3>2 DEF CmdExits, PipeInv, GuardTypeOK, Ahead
    <3>3. CASE ~orderly
      BY <3>1, <3>3 DEF CmdExits, PipeInv, GuardTypeOK, Ahead
    <3> QED
      BY <3>2, <3>3
  <2>16. CASE MonCheck(e)
    BY <2>16
       DEF MonCheck, Trouble, Running, PipeInv, GuardTypeOK, Ahead
  <2>17. CASE MonKill(e)
    BY <2>17
       DEF MonKill, Trouble, Running, PipeInv, GuardTypeOK, Ahead
  <2>18. CASE MonReap(e)
    BY <2>18
       DEF MonReap, Trouble, Running, PipeInv, GuardTypeOK, Ahead
  <2>19. CASE LoggerEnds(e)
    BY <2>19
       DEF LoggerEnds, Trouble, Running, PipeInv, GuardTypeOK, Ahead
  <2>20. CASE StepEnds(e)
    BY <2>20 DEF StepEnds, StepOver, Running, PipeInv, GuardTypeOK, Ahead
  <2>21. CASE \E keeps \in BOOLEAN : Finalize(e, keeps)
    BY <2>21
       DEF Finalize, Trouble, Running, PipeInv, GuardTypeOK, Ahead
  <2>22. CASE FinalizeFails(e)
    BY <2>22
       DEF FinalizeFails, Trouble, Running, PipeInv, GuardTypeOK, Ahead
  <2>23. CASE \E pinned \in BOOLEAN : CleanUp(e, pinned)
    BY <2>23
       DEF CleanUp, Trouble, Running, PipeInv, GuardTypeOK, Ahead
  <2>24. CASE Interrupt(e)
    BY <2>24
       DEF Interrupt, Trouble, Running, PipeInv, GuardTypeOK, Ahead
  <2>25. CASE Kill(e)
    BY <2>25
       DEF Kill, Trouble, Running, PipeInv, GuardTypeOK, Ahead
  <2>26. CASE StartProfile(e)
    BY <2>26
       DEF StartProfile, Running, PipeInv, GuardTypeOK, Ahead
  <2>27. CASE \E ok \in BOOLEAN : ProfileEnds(e, ok)
    BY <2>27
       DEF ProfileEnds, Running, PipeInv, GuardTypeOK, Ahead
  <2>28. CASE ProfileTorn(e)
    BY <2>28
       DEF ProfileTorn, Trouble, Running, PipeInv, GuardTypeOK, Ahead
  <2> QED
    BY <2>1, <2>2, <2>3, <2>4, <2>5, <2>6, <2>7, <2>8, <2>9, <2>10, <2>11,
       <2>12, <2>13, <2>14, <2>15, <2>16, <2>17, <2>18, <2>19, <2>20, <2>21,
       <2>22, <2>23, <2>24, <2>25, <2>26, <2>27, <2>28
       DEF StepOf, Monitor
<1> QED
  BY <1>0, <1>1 DEF GuardNext, StepOf

(* Every step keeps the locks in order.                                   *)
LEMMA LockStep ==
  ASSUME GuardTypeOK, PipeInv, LockInv,
         [GuardNext]_vars
  PROVE  LockInv'
<1> USE GuardAssumption DEF At, GoTo, config, driver, pipeline, files, past,
        history
<1>0. CASE UNCHANGED vars
  BY <1>0
     DEF vars, LockInv, Quiet, Holds, Driving, Running, GuardTypeOK
<1>1. ASSUME NEW e \in Experiments
      PROVE  StepOf(e) => LockInv'
  <2>1. CASE Preflight(e)
    BY <2>1
       DEF Preflight, Trouble, LockInv, Quiet, Holds, Driving, Running,
           GuardTypeOK
  <2>2. CASE PreflightFails(e)
    BY <2>2
       DEF PreflightFails, Trouble, LockInv, Quiet, Holds, Driving, Running,
           GuardTypeOK
  <2>3. CASE Sample(e)
    BY <2>3
       DEF Sample, Trouble, LockInv, Quiet, Holds, Driving, Running,
           GuardTypeOK
  <2>4. CASE TryLock(e)
    <3> DEFINE Taken == \E g \in Experiments \ {e} : npu[g] = npu[e] /\ Holds(g)
    <3>0. UNCHANGED <<npu, cmd, mon, logger>>
      BY <2>4 DEF TryLock
    <3>1. CASE Taken
      <4>1. drv' = [drv EXCEPT ![e] = "ended"] /\ locked' = locked
        BY <2>4, <3>1, Zenon DEF TryLock
      <4> QED
        BY <2>4, <3>0, <4>1
           DEF TryLock, LockInv, Quiet, Holds, Driving, Running, GuardTypeOK
    <3>2. CASE ~Taken
      <4>1. /\ drv' = [drv EXCEPT ![e] = "recheck"]
            /\ locked' = [locked EXCEPT ![e] = TRUE]
        BY <2>4, <3>2, Zenon DEF TryLock
      <4>2. \A g \in Experiments \ {e} : Holds(g)' = Holds(g)
        BY <3>0, <4>1 DEF Holds, Driving, Running, GuardTypeOK
      <4>3. \A g \in Experiments \ {e} : npu[g] = npu[e] => ~Holds(g)
        BY <3>2
      <4>4. \A g, h \in Experiments :
              g # h /\ npu[g] = npu[h] => ~(Holds(g)' /\ Holds(h)')
        BY <4>2, <4>3 DEF LockInv
      <4> QED
        BY <2>4, <3>0, <4>1, <4>4 DEF TryLock, LockInv, Quiet, Running, GuardTypeOK
    <3> QED
      BY <3>1, <3>2
  <2>5. CASE Recheck(e)
    BY <2>5
       DEF Recheck, Trouble, LockInv, Quiet, Holds, Driving, Running,
           GuardTypeOK
  <2>6. CASE MakeDirs(e)
    BY <2>6
       DEF MakeDirs, Trouble, LockInv, Quiet, Holds, Driving, Running,
           GuardTypeOK
  <2>7. CASE StartStep(e)
    <3>1. CASE Log(e) \in logs
      BY <2>7, <3>1
         DEF StartStep, PipeInv, Ahead, LockInv, Quiet, Holds, Driving, Running,
             GuardTypeOK
    <3>2. CASE Log(e) \notin logs
      BY <2>7, <3>2
         DEF StartStep, PipeInv, Ahead, LockInv, Quiet, Holds, Driving, Running,
             GuardTypeOK
    <3> QED
      BY <3>1, <3>2
  <2>8. CASE DriverGivesUp(e)
    BY <2>8
       DEF DriverGivesUp, Trouble, LockInv, Quiet, Holds, Driving, Running,
           GuardTypeOK
  <2>9. CASE LoggerOpens(e)
    BY <2>9
       DEF LoggerOpens, Trouble, LockInv, Quiet, Holds, Driving, Running,
           GuardTypeOK
  <2>10. CASE CmdAttach(e)
    BY <2>10
       DEF CmdAttach, Trouble, LockInv, Quiet, Holds, Driving, Running,
           GuardTypeOK
  <2>11. CASE CmdSpawns(e)
    BY <2>11
       DEF CmdSpawns, Trouble, LockInv, Quiet, Holds, Driving, Running,
           GuardTypeOK
  <2>12. CASE SvcAttach(e)
    BY <2>12
       DEF SvcAttach, Trouble, LockInv, Quiet, Holds, Driving, Running,
           GuardTypeOK
  <2>13. CASE SvcEnds(e)
    BY <2>13
       DEF SvcEnds, Trouble, LockInv, Quiet, Holds, Driving, Running,
           GuardTypeOK
  <2>14. CASE \E what \in Budgets \ {"none"} : Overrun(e, what)
    BY <2>14
       DEF Overrun, Trouble, LockInv, Quiet, Holds, Driving, Running,
           GuardTypeOK
  <2>15. CASE \E orderly \in BOOLEAN : CmdExits(e, orderly)
    BY <2>15
       DEF CmdExits, Trouble, LockInv, Quiet, Holds, Driving, Running,
           GuardTypeOK
  <2>16. CASE MonCheck(e)
    BY <2>16
       DEF MonCheck, Trouble, LockInv, Quiet, Holds, Driving, Running,
           GuardTypeOK
  <2>17. CASE MonKill(e)
    BY <2>17
       DEF MonKill, Trouble, LockInv, Quiet, Holds, Driving, Running,
           GuardTypeOK
  <2>18. CASE MonReap(e)
    BY <2>18
       DEF MonReap, Trouble, LockInv, Quiet, Holds, Driving, Running,
           GuardTypeOK
  <2>19. CASE LoggerEnds(e)
    BY <2>19
       DEF LoggerEnds, Trouble, LockInv, Quiet, Holds, Driving, Running,
           GuardTypeOK
  <2>20. CASE StepEnds(e)
    BY <2>20
       DEF StepEnds, Trouble, LockInv, Quiet, Holds, Driving, Running,
           GuardTypeOK
  <2>21. CASE \E keeps \in BOOLEAN : Finalize(e, keeps)
    BY <2>21
       DEF Finalize, Trouble, LockInv, Quiet, Holds, Driving, Running,
           GuardTypeOK
  <2>22. CASE FinalizeFails(e)
    BY <2>22
       DEF FinalizeFails, Trouble, LockInv, Quiet, Holds, Driving, Running,
           GuardTypeOK
  <2>23. CASE \E pinned \in BOOLEAN : CleanUp(e, pinned)
    BY <2>23
       DEF CleanUp, Trouble, LockInv, Quiet, Holds, Driving, Running,
           GuardTypeOK
  <2>24. CASE Interrupt(e)
    BY <2>24
       DEF Interrupt, Trouble, LockInv, Quiet, Holds, Driving, Running,
           GuardTypeOK
  <2>25. CASE Kill(e)
    BY <2>25
       DEF Kill, Trouble, LockInv, Quiet, Holds, Driving, Running, GuardTypeOK
  <2>26. CASE StartProfile(e)
    BY <2>26
       DEF StartProfile, PipeInv, Ahead, LockInv, Quiet, Holds, Driving, Running,
           GuardTypeOK
  <2>27. CASE \E ok \in BOOLEAN : ProfileEnds(e, ok)
    BY <2>27
       DEF ProfileEnds, PipeInv, Ahead, LockInv, Quiet, Holds, Driving, Running,
           GuardTypeOK
  <2>28. CASE ProfileTorn(e)
    BY <2>28
       DEF ProfileTorn, Trouble, PipeInv, Ahead, LockInv, Quiet, Holds, Driving,
           Running, GuardTypeOK
  <2> QED
    BY <2>1, <2>2, <2>3, <2>4, <2>5, <2>6, <2>7, <2>8, <2>9, <2>10, <2>11,
       <2>12, <2>13, <2>14, <2>15, <2>16, <2>17, <2>18, <2>19, <2>20, <2>21,
       <2>22, <2>23, <2>24, <2>25, <2>26, <2>27, <2>28
       DEF StepOf, Monitor
<1> QED
  BY <1>0, <1>1 DEF GuardNext, StepOf

(* Every step keeps the count of checks below the next audit.              *)
LEMMA AgeStep ==
  ASSUME GuardTypeOK, PipeInv, AgeInv,
         [GuardNext]_vars
  PROVE  AgeInv'
<1> USE GuardAssumption DEF At, GoTo, config, driver, pipeline, files, past,
        history
<1>0. CASE UNCHANGED vars
  BY <1>0
     DEF vars, AgeInv, GuardTypeOK
<1>1. ASSUME NEW e \in Experiments
      PROVE  StepOf(e) => AgeInv'
  <2>1. CASE Preflight(e)
    BY <2>1
       DEF Preflight, Trouble, AgeInv, GuardTypeOK
  <2>2. CASE PreflightFails(e)
    BY <2>2
       DEF PreflightFails, Trouble, AgeInv, GuardTypeOK
  <2>3. CASE Sample(e)
    BY <2>3
       DEF Sample, Trouble, AgeInv, GuardTypeOK
  <2>4. CASE TryLock(e)
    BY <2>4
       DEF TryLock, Trouble, AgeInv, GuardTypeOK
  <2>5. CASE Recheck(e)
    BY <2>5
       DEF Recheck, Trouble, AgeInv, GuardTypeOK
  <2>6. CASE MakeDirs(e)
    BY <2>6
       DEF MakeDirs, Trouble, AgeInv, GuardTypeOK
  <2>7. CASE StartStep(e)
    <3>1. age[e] = 0
      BY <2>7 DEF StartStep, PipeInv, Ahead
    <3>2. age' = age /\ over' = over
      BY <2>7 DEF StartStep
    <3>3. tick' = tick \/ tick' = [tick EXCEPT ![e] = 0]
      BY <2>7 DEF StartStep
    <3> QED
      BY <3>1, <3>2, <3>3 DEF AgeInv, GuardTypeOK
  <2>8. CASE DriverGivesUp(e)
    BY <2>8
       DEF DriverGivesUp, Trouble, AgeInv, GuardTypeOK
  <2>9. CASE LoggerOpens(e)
    BY <2>9
       DEF LoggerOpens, Trouble, AgeInv, GuardTypeOK
  <2>10. CASE CmdAttach(e)
    BY <2>10
       DEF CmdAttach, Trouble, AgeInv, GuardTypeOK
  <2>11. CASE CmdSpawns(e)
    BY <2>11
       DEF CmdSpawns, Trouble, AgeInv, GuardTypeOK
  <2>12. CASE SvcAttach(e)
    BY <2>12
       DEF SvcAttach, Trouble, AgeInv, GuardTypeOK
  <2>13. CASE SvcEnds(e)
    BY <2>13
       DEF SvcEnds, Trouble, AgeInv, GuardTypeOK
  <2>14. CASE \E what \in Budgets \ {"none"} : Overrun(e, what)
    BY <2>14
       DEF Overrun, Budgets, Trouble, AgeInv, GuardTypeOK
  <2>15. CASE \E orderly \in BOOLEAN : CmdExits(e, orderly)
    BY <2>15
       DEF CmdExits, Trouble, AgeInv, GuardTypeOK
  <2>16. CASE MonCheck(e)
    <3>1. CASE BudgetBroken(e)
      BY <2>16, <3>1 DEF MonCheck, AgeInv, GuardTypeOK
    <3>2. CASE ~BudgetBroken(e)
      <4>1. tick' = [tick EXCEPT ![e] = IF @ + 1 = AuditEvery THEN 0 ELSE @ + 1]
        BY <2>16, <3>2 DEF MonCheck
      <4>2. \/ age' = age /\ ~InBreach(e)
            \/ InBreach(e) /\ age' = [age EXCEPT ![e] = @ + 1]
        <5>1. age[e] < AuditEvery
          BY DEF AgeInv, GuardTypeOK
        <5> QED
          BY <2>16, <3>2, <5>1 DEF MonCheck
      <4>3. InBreach(e) => over[e] = "project" /\ tick[e] # AuditEvery - 1
        BY <3>2 DEF BudgetBroken, InBreach, GuardTypeOK, Budgets
      <4>4. ~InBreach(e) => age[e] = 0
        <5>1. ~InBreach(e) => over[e] = "none"
          BY DEF InBreach
        <5>2. age[e] \in Nat /\ (age[e] > 0 => over[e] = "project")
          BY DEF AgeInv, GuardTypeOK
        <5> QED
          BY <5>1, <5>2
      <4>5. over' = over
        BY <2>16 DEF MonCheck
      <4>6. CASE InBreach(e)
        BY <4>1, <4>2, <4>3, <4>5, <4>6 DEF AgeInv, GuardTypeOK
      <4>7. CASE ~InBreach(e)
        BY <4>1, <4>2, <4>4, <4>5, <4>7 DEF AgeInv, GuardTypeOK
      <4> QED
        BY <4>6, <4>7
    <3> QED
      BY <3>1, <3>2
  <2>17. CASE MonKill(e)
    BY <2>17
       DEF MonKill, Trouble, AgeInv, GuardTypeOK
  <2>18. CASE MonReap(e)
    BY <2>18
       DEF MonReap, Trouble, AgeInv, GuardTypeOK
  <2>19. CASE LoggerEnds(e)
    BY <2>19
       DEF LoggerEnds, Trouble, AgeInv, GuardTypeOK
  <2>20. CASE StepEnds(e)
    BY <2>20
       DEF StepEnds, Trouble, AgeInv, GuardTypeOK
  <2>21. CASE \E keeps \in BOOLEAN : Finalize(e, keeps)
    BY <2>21
       DEF Finalize, Trouble, AgeInv, GuardTypeOK
  <2>22. CASE FinalizeFails(e)
    BY <2>22
       DEF FinalizeFails, Trouble, AgeInv, GuardTypeOK
  <2>23. CASE \E pinned \in BOOLEAN : CleanUp(e, pinned)
    BY <2>23
       DEF CleanUp, Trouble, AgeInv, GuardTypeOK
  <2>24. CASE Interrupt(e)
    BY <2>24
       DEF Interrupt, Trouble, AgeInv, GuardTypeOK
  <2>25. CASE Kill(e)
    BY <2>25
       DEF Kill, Trouble, AgeInv, GuardTypeOK
  <2>26. CASE StartProfile(e)
    BY <2>26
       DEF StartProfile, AgeInv, GuardTypeOK
  <2>27. CASE \E ok \in BOOLEAN : ProfileEnds(e, ok)
    BY <2>27
       DEF ProfileEnds, AgeInv, GuardTypeOK
  <2>28. CASE ProfileTorn(e)
    BY <2>28
       DEF ProfileTorn, Trouble, AgeInv, GuardTypeOK
  <2> QED
    BY <2>1, <2>2, <2>3, <2>4, <2>5, <2>6, <2>7, <2>8, <2>9, <2>10, <2>11,
       <2>12, <2>13, <2>14, <2>15, <2>16, <2>17, <2>18, <2>19, <2>20, <2>21,
       <2>22, <2>23, <2>24, <2>25, <2>26, <2>27, <2>28
       DEF StepOf, Monitor
<1> QED
  BY <1>0, <1>1 DEF GuardNext, StepOf

(* A server beside a command was starting when the step began.             *)
OrphanInv ==
    \A e, f \in Experiments :
        e # f /\ npu[e] = npu[f] /\ Running(e) /\ svc[f] # "none" => f \in blind[e]

(* Of two drivers that have looked for one run and made nothing yet, one   *)
(* saw the other; so a driver that finds its run made has raced.           *)
Looked == {"wait", "lock", "recheck", "mkdirs"}

Raced(e, f) == run[f] = run[e] /\ (f \in looked[e] \/ e \in looked[f])

RaceInv ==
    /\ \A e, f \in Experiments :
          e # f /\ run[e] = run[f] /\ drv[e] \in Looked /\ drv[f] \in Looked
            => Raced(e, f)
    /\ \A e \in Experiments :
          drv[e] \in Looked /\ run[e] \in made
            => \E f \in Experiments \ {e} : Raced(e, f)

(* A driver that was not cut off finalizes with its commands over, and     *)
(* a scratch that nobody shares is removed by its own driver.              *)
Alone(e) == \A f \in Experiments \ {e} : run[f] # run[e]

GoneInv ==
    \A e \in Experiments : ~cut[e] =>
        /\ drv[e] \in {"final", "clean"} => Quiet(e)
        /\ Alone(e) /\ run[e] \in made \ scratch => drv[e] = "ended" /\ Quiet(e)

(* Every step keeps left-over servers known.                               *)
LEMMA OrphanStep ==
  ASSUME GuardTypeOK, PipeInv, LockInv, OrphanInv,
         [GuardNext]_vars
  PROVE  OrphanInv'
<1> USE GuardAssumption DEF At, GoTo, config, driver, pipeline, files, past,
        history
<1>0. CASE UNCHANGED vars
  BY <1>0
     DEF vars, OrphanInv, Running, GuardTypeOK
<1>1. ASSUME NEW e \in Experiments
      PROVE  StepOf(e) => OrphanInv'
  <2>1. CASE Preflight(e)
    BY <2>1
       DEF Preflight, Trouble, OrphanInv, Running, GuardTypeOK
  <2>2. CASE PreflightFails(e)
    BY <2>2
       DEF PreflightFails, Trouble, OrphanInv, Running, GuardTypeOK
  <2>3. CASE Sample(e)
    BY <2>3
       DEF Sample, Trouble, OrphanInv, Running, GuardTypeOK
  <2>4. CASE TryLock(e)
    BY <2>4
       DEF TryLock, Trouble, OrphanInv, Running, GuardTypeOK
  <2>5. CASE Recheck(e)
    BY <2>5
       DEF Recheck, Trouble, OrphanInv, Running, GuardTypeOK
  <2>6. CASE MakeDirs(e)
    BY <2>6
       DEF MakeDirs, Trouble, OrphanInv, Running, GuardTypeOK
  <2>7. CASE StartStep(e)
    BY <2>7
       DEF StartStep, Idle, Starting, OrphanInv, Running, GuardTypeOK
  <2>8. CASE DriverGivesUp(e)
    BY <2>8
       DEF DriverGivesUp, Trouble, OrphanInv, Running, GuardTypeOK
  <2>9. CASE LoggerOpens(e)
    BY <2>9
       DEF LoggerOpens, Trouble, OrphanInv, Running, GuardTypeOK
  <2>10. CASE CmdAttach(e)
    BY <2>10
       DEF CmdAttach, Trouble, OrphanInv, Running, GuardTypeOK
  <2>11. CASE CmdSpawns(e)
    BY <2>11
       DEF CmdSpawns, LockInv, Quiet, Holds, OrphanInv, Running, GuardTypeOK
  <2>12. CASE SvcAttach(e)
    BY <2>12
       DEF SvcAttach, Trouble, OrphanInv, Running, GuardTypeOK
  <2>13. CASE SvcEnds(e)
    BY <2>13
       DEF SvcEnds, Trouble, OrphanInv, Running, GuardTypeOK
  <2>14. CASE \E what \in Budgets \ {"none"} : Overrun(e, what)
    BY <2>14
       DEF Overrun, Trouble, OrphanInv, Running, GuardTypeOK
  <2>15. CASE \E orderly \in BOOLEAN : CmdExits(e, orderly)
    BY <2>15
       DEF CmdExits, Trouble, OrphanInv, Running, GuardTypeOK
  <2>16. CASE MonCheck(e)
    BY <2>16
       DEF MonCheck, Trouble, OrphanInv, Running, GuardTypeOK
  <2>17. CASE MonKill(e)
    BY <2>17
       DEF MonKill, Trouble, OrphanInv, Running, GuardTypeOK
  <2>18. CASE MonReap(e)
    BY <2>18
       DEF MonReap, OrphanInv, Running, GuardTypeOK
  <2>19. CASE LoggerEnds(e)
    BY <2>19
       DEF LoggerEnds, Trouble, OrphanInv, Running, GuardTypeOK
  <2>20. CASE StepEnds(e)
    BY <2>20
       DEF StepEnds, Trouble, OrphanInv, Running, GuardTypeOK
  <2>21. CASE \E keeps \in BOOLEAN : Finalize(e, keeps)
    BY <2>21
       DEF Finalize, Trouble, OrphanInv, Running, GuardTypeOK
  <2>22. CASE FinalizeFails(e)
    BY <2>22
       DEF FinalizeFails, Trouble, OrphanInv, Running, GuardTypeOK
  <2>23. CASE \E pinned \in BOOLEAN : CleanUp(e, pinned)
    BY <2>23
       DEF CleanUp, Trouble, OrphanInv, Running, GuardTypeOK
  <2>24. CASE Interrupt(e)
    BY <2>24
       DEF Interrupt, Trouble, OrphanInv, Running, GuardTypeOK
  <2>25. CASE Kill(e)
    BY <2>25
       DEF Kill, Trouble, OrphanInv, Running, GuardTypeOK
  <2>26. CASE StartProfile(e)
    BY <2>26
       DEF StartProfile, OrphanInv, Running, GuardTypeOK, Idle, Starting
  <2>27. CASE \E ok \in BOOLEAN : ProfileEnds(e, ok)
    BY <2>27
       DEF ProfileEnds, OrphanInv, Running, GuardTypeOK, Idle, Starting
  <2>28. CASE ProfileTorn(e)
    BY <2>28
       DEF ProfileTorn, Trouble, OrphanInv, Running, GuardTypeOK, Idle, Starting
  <2> QED
    BY <2>1, <2>2, <2>3, <2>4, <2>5, <2>6, <2>7, <2>8, <2>9, <2>10, <2>11,
       <2>12, <2>13, <2>14, <2>15, <2>16, <2>17, <2>18, <2>19, <2>20, <2>21,
       <2>22, <2>23, <2>24, <2>25, <2>26, <2>27, <2>28
       DEF StepOf, Monitor
<1> QED
  BY <1>0, <1>1 DEF GuardNext, StepOf

(* Every step keeps the order in which runs were looked for.               *)
LEMMA RaceStep ==
  ASSUME GuardTypeOK, RaceInv,
         [GuardNext]_vars
  PROVE  RaceInv'
<1> USE GuardAssumption DEF At, GoTo, config, driver, pipeline, files, past,
        history
<1>0. CASE UNCHANGED vars
  BY <1>0
     DEF vars, RaceInv, Raced, Looked, GuardTypeOK
<1>1. ASSUME NEW e \in Experiments
      PROVE  StepOf(e) => RaceInv'
  <2>1. CASE Preflight(e)
    BY <2>1
       DEF Preflight, Trouble, RaceInv, Raced, Looked, GuardTypeOK
  <2>2. CASE PreflightFails(e)
    BY <2>2
       DEF PreflightFails, Trouble, RaceInv, Raced, Looked, GuardTypeOK
  <2>3. CASE Sample(e)
    BY <2>3
       DEF Sample, Trouble, RaceInv, Raced, Looked, GuardTypeOK
  <2>4. CASE TryLock(e)
    <3>1. drv' = [drv EXCEPT ![e] = "ended"] \/ drv' = [drv EXCEPT ![e] = "recheck"]
      BY <2>4, Zenon DEF TryLock
    <3>2. UNCHANGED <<run, made, looked>> /\ drv[e] = "lock"
      BY <2>4 DEF TryLock
    <3>3. \A g \in Experiments : drv'[g] \in Looked => drv[g] \in Looked
      BY <3>1, <3>2 DEF Looked, GuardTypeOK
    <3> QED
      BY <3>2, <3>3 DEF RaceInv, Raced
  <2>5. CASE Recheck(e)
    BY <2>5
       DEF Recheck, Trouble, RaceInv, Raced, Looked, GuardTypeOK
  <2>6. CASE MakeDirs(e)
    BY <2>6
       DEF MakeDirs, Trouble, RaceInv, Raced, Looked, GuardTypeOK
  <2>7. CASE StartStep(e)
    <3>1. drv' = [drv EXCEPT ![e] = "final"] \/ drv' = [drv EXCEPT ![e] = "step"]
      BY <2>7 DEF StartStep
    <3>2. UNCHANGED <<run, made, looked>>
      BY <2>7 DEF StartStep
    <3>3. \A g \in Experiments : drv'[g] \in Looked => drv[g] \in Looked
      BY <3>1, <3>2 DEF Looked, GuardTypeOK
    <3> QED
      BY <3>2, <3>3 DEF RaceInv, Raced
  <2>8. CASE DriverGivesUp(e)
    BY <2>8
       DEF DriverGivesUp, Trouble, RaceInv, Raced, Looked, GuardTypeOK
  <2>9. CASE LoggerOpens(e)
    BY <2>9
       DEF LoggerOpens, Trouble, RaceInv, Raced, Looked, GuardTypeOK
  <2>10. CASE CmdAttach(e)
    BY <2>10
       DEF CmdAttach, Trouble, RaceInv, Raced, Looked, GuardTypeOK
  <2>11. CASE CmdSpawns(e)
    BY <2>11
       DEF CmdSpawns, Trouble, RaceInv, Raced, Looked, GuardTypeOK
  <2>12. CASE SvcAttach(e)
    BY <2>12
       DEF SvcAttach, Trouble, RaceInv, Raced, Looked, GuardTypeOK
  <2>13. CASE SvcEnds(e)
    BY <2>13
       DEF SvcEnds, Trouble, RaceInv, Raced, Looked, GuardTypeOK
  <2>14. CASE \E what \in Budgets \ {"none"} : Overrun(e, what)
    BY <2>14
       DEF Overrun, Trouble, RaceInv, Raced, Looked, GuardTypeOK
  <2>15. CASE \E orderly \in BOOLEAN : CmdExits(e, orderly)
    BY <2>15
       DEF CmdExits, Trouble, RaceInv, Raced, Looked, GuardTypeOK
  <2>16. CASE MonCheck(e)
    BY <2>16
       DEF MonCheck, Trouble, RaceInv, Raced, Looked, GuardTypeOK
  <2>17. CASE MonKill(e)
    BY <2>17
       DEF MonKill, Trouble, RaceInv, Raced, Looked, GuardTypeOK
  <2>18. CASE MonReap(e)
    BY <2>18
       DEF MonReap, Trouble, RaceInv, Raced, Looked, GuardTypeOK
  <2>19. CASE LoggerEnds(e)
    BY <2>19
       DEF LoggerEnds, Trouble, RaceInv, Raced, Looked, GuardTypeOK
  <2>20. CASE StepEnds(e)
    BY <2>20
       DEF StepEnds, Trouble, RaceInv, Raced, Looked, GuardTypeOK
  <2>21. CASE \E keeps \in BOOLEAN : Finalize(e, keeps)
    BY <2>21
       DEF Finalize, Trouble, RaceInv, Raced, Looked, GuardTypeOK
  <2>22. CASE FinalizeFails(e)
    BY <2>22
       DEF FinalizeFails, Trouble, RaceInv, Raced, Looked, GuardTypeOK
  <2>23. CASE \E pinned \in BOOLEAN : CleanUp(e, pinned)
    BY <2>23
       DEF CleanUp, Trouble, RaceInv, Raced, Looked, GuardTypeOK
  <2>24. CASE Interrupt(e)
    BY <2>24
       DEF Interrupt, Trouble, RaceInv, Raced, Looked, GuardTypeOK
  <2>25. CASE Kill(e)
    BY <2>25
       DEF Kill, Trouble, RaceInv, Raced, Looked, GuardTypeOK
  <2>26. CASE StartProfile(e)
    BY <2>26
       DEF StartProfile, RaceInv, Raced, Looked, GuardTypeOK
  <2>27. CASE \E ok \in BOOLEAN : ProfileEnds(e, ok)
    BY <2>27
       DEF ProfileEnds, RaceInv, Raced, Looked, GuardTypeOK
  <2>28. CASE ProfileTorn(e)
    BY <2>28
       DEF ProfileTorn, Trouble, RaceInv, Raced, Looked, GuardTypeOK
  <2> QED
    BY <2>1, <2>2, <2>3, <2>4, <2>5, <2>6, <2>7, <2>8, <2>9, <2>10, <2>11,
       <2>12, <2>13, <2>14, <2>15, <2>16, <2>17, <2>18, <2>19, <2>20, <2>21,
       <2>22, <2>23, <2>24, <2>25, <2>26, <2>27, <2>28
       DEF StepOf, Monitor
<1> QED
  BY <1>0, <1>1 DEF GuardNext, StepOf

(* Every step keeps the order of the end.                                  *)
LEMMA GoneStep ==
  ASSUME GuardTypeOK, PipeInv, GoneInv,
         [GuardNext]_vars
  PROVE  GoneInv'
<1> USE GuardAssumption DEF At, GoTo, config, driver, pipeline, files, past,
        history
<1>0. CASE UNCHANGED vars
  BY <1>0
     DEF vars, GoneInv, Alone, Quiet, Running, GuardTypeOK
<1>1. ASSUME NEW e \in Experiments
      PROVE  StepOf(e) => GoneInv'
  <2>1. CASE Preflight(e)
    BY <2>1
       DEF Preflight, Trouble, GoneInv, Alone, Quiet, Running, GuardTypeOK
  <2>2. CASE PreflightFails(e)
    BY <2>2
       DEF PreflightFails, Trouble, GoneInv, Alone, Quiet, Running,
           GuardTypeOK
  <2>3. CASE Sample(e)
    BY <2>3
       DEF Sample, Trouble, GoneInv, Alone, Quiet, Running, GuardTypeOK
  <2>4. CASE TryLock(e)
    <3>1. drv' = [drv EXCEPT ![e] = "ended"] \/ drv' = [drv EXCEPT ![e] = "recheck"]
      BY <2>4, Zenon DEF TryLock
    <3> QED
      BY <2>4, <3>1 DEF TryLock, GoneInv, Alone, Quiet, Running, GuardTypeOK
  <2>5. CASE Recheck(e)
    BY <2>5
       DEF Recheck, Trouble, GoneInv, Alone, Quiet, Running, GuardTypeOK
  <2>6. CASE MakeDirs(e)
    BY <2>6
       DEF MakeDirs, Trouble, GoneInv, Alone, Quiet, Running, GuardTypeOK
  <2>7. CASE StartStep(e)
    <3>0. Quiet(e)
      BY <2>7 DEF StartStep, PipeInv, Ahead, Quiet, Running
    <3>1. UNCHANGED <<run, made, scratch, cut>> /\ drv[e] = "idle"
      BY <2>7 DEF StartStep
    <3>2. CASE Log(e) \in logs
      <4>1. drv' = [drv EXCEPT ![e] = "final"] /\ UNCHANGED <<cmd, mon, logger>>
        BY <2>7, <3>2 DEF StartStep
      <4> QED
        BY <3>0, <3>1, <4>1 DEF GoneInv, Alone, Quiet, Running, GuardTypeOK
    <3>3. CASE Log(e) \notin logs
      <4>1. /\ drv' = [drv EXCEPT ![e] = "step"]
            /\ cmd' = [cmd EXCEPT ![e] = "host"]
            /\ mon' = [mon EXCEPT ![e] = "watch"]
            /\ logger' = [logger EXCEPT ![e] = "start"]
        BY <2>7, <3>3 DEF StartStep
      <4> QED
        BY <3>1, <4>1 DEF GoneInv, Alone, Quiet, Running, GuardTypeOK
    <3> QED
      BY <3>2, <3>3
  <2>8. CASE DriverGivesUp(e)
    BY <2>8
       DEF DriverGivesUp, PipeInv, Ahead, GoneInv, Alone, Quiet, Running,
           GuardTypeOK
  <2>9. CASE LoggerOpens(e)
    BY <2>9
       DEF LoggerOpens, Trouble, GoneInv, Alone, Quiet, Running, GuardTypeOK
  <2>10. CASE CmdAttach(e)
    BY <2>10
       DEF CmdAttach, Trouble, GoneInv, Alone, Quiet, Running, GuardTypeOK
  <2>11. CASE CmdSpawns(e)
    BY <2>11
       DEF CmdSpawns, Trouble, GoneInv, Alone, Quiet, Running, GuardTypeOK
  <2>12. CASE SvcAttach(e)
    BY <2>12
       DEF SvcAttach, Trouble, GoneInv, Alone, Quiet, Running, GuardTypeOK
  <2>13. CASE SvcEnds(e)
    BY <2>13
       DEF SvcEnds, Trouble, GoneInv, Alone, Quiet, Running, GuardTypeOK
  <2>14. CASE \E what \in Budgets \ {"none"} : Overrun(e, what)
    BY <2>14
       DEF Overrun, Trouble, GoneInv, Alone, Quiet, Running, GuardTypeOK
  <2>15. CASE \E orderly \in BOOLEAN : CmdExits(e, orderly)
    BY <2>15
       DEF CmdExits, Trouble, GoneInv, Alone, Quiet, Running, GuardTypeOK
  <2>16. CASE MonCheck(e)
    BY <2>16
       DEF MonCheck, Trouble, GoneInv, Alone, Quiet, Running, GuardTypeOK
  <2>17. CASE MonKill(e)
    BY <2>17
       DEF MonKill, Trouble, GoneInv, Alone, Quiet, Running, GuardTypeOK
  <2>18. CASE MonReap(e)
    BY <2>18
       DEF MonReap, Trouble, GoneInv, Alone, Quiet, Running, GuardTypeOK
  <2>19. CASE LoggerEnds(e)
    BY <2>19
       DEF LoggerEnds, Trouble, GoneInv, Alone, Quiet, Running, GuardTypeOK
  <2>20. CASE StepEnds(e)
    BY <2>20
       DEF StepEnds, PipeInv, StepOver, GoneInv, Alone, Quiet, Running,
           GuardTypeOK
  <2>21. CASE \E keeps \in BOOLEAN : Finalize(e, keeps)
    BY <2>21
       DEF Finalize, GoneInv, Alone, Quiet, Running, GuardTypeOK
  <2>22. CASE FinalizeFails(e)
    BY <2>22
       DEF FinalizeFails, GoneInv, Alone, Quiet, Running, GuardTypeOK
  <2>23. CASE \E pinned \in BOOLEAN : CleanUp(e, pinned)
    BY <2>23
       DEF CleanUp, Trouble, GoneInv, Alone, Quiet, Running, GuardTypeOK
  <2>24. CASE Interrupt(e)
    BY <2>24
       DEF Interrupt, Trouble, GoneInv, Alone, Quiet, Running, GuardTypeOK
  <2>25. CASE Kill(e)
    BY <2>25
       DEF Kill, Trouble, GoneInv, Alone, Quiet, Running, GuardTypeOK
  <2>26. CASE StartProfile(e)
    BY <2>26
       DEF StartProfile, PipeInv, Ahead, GoneInv, Alone, Quiet, Running,
           GuardTypeOK
  <2>27. CASE \E ok \in BOOLEAN : ProfileEnds(e, ok)
    BY <2>27
       DEF ProfileEnds, PipeInv, Ahead, GoneInv, Alone, Quiet, Running,
           GuardTypeOK
  <2>28. CASE ProfileTorn(e)
    BY <2>28
       DEF ProfileTorn, Trouble, PipeInv, Ahead, GoneInv, Alone, Quiet, Running,
           GuardTypeOK
  <2> QED
    BY <2>1, <2>2, <2>3, <2>4, <2>5, <2>6, <2>7, <2>8, <2>9, <2>10, <2>11,
       <2>12, <2>13, <2>14, <2>15, <2>16, <2>17, <2>18, <2>19, <2>20, <2>21,
       <2>22, <2>23, <2>24, <2>25, <2>26, <2>27, <2>28
       DEF StepOf, Monitor
<1> QED
  BY <1>0, <1>1 DEF GuardNext, StepOf

(* The inductive invariant.                                                *)
GuardInv ==
    /\ GuardTypeOK /\ StepBound /\ PipeInv /\ LockInv /\ AgeInv
    /\ OrphanInv /\ RaceInv /\ GoneInv

(* It holds before an experiment starts.                                   *)
LEMMA GuardInvInit == GuardInit => GuardInv
<1> SUFFICES ASSUME GuardInit
             PROVE  GuardInv
  OBVIOUS
<1> USE GuardAssumption
<1>1. GuardTypeOK
  BY DEF GuardInit, GuardTypeOK, DriverStates, Budgets
<1>2. StepBound /\ PipeInv /\ AgeInv
  BY DEF GuardInit, StepBound, PipeInv, AgeInv, Ahead
<1>3. LockInv
  BY DEF GuardInit, LockInv, Quiet, Holds, Running
<1>4. OrphanInv /\ RaceInv
  BY DEF GuardInit, OrphanInv, RaceInv, Looked, Running
<1>5. GoneInv
  BY DEF GuardInit, GoneInv
<1> QED
  BY <1>1, <1>2, <1>3, <1>4, <1>5 DEF GuardInv

(* Every step keeps it.                                                    *)
LEMMA GuardInvStep == GuardInv /\ [GuardNext]_vars => GuardInv'
  BY TypeStep, PipeStep, LockStep, AgeStep, OrphanStep, RaceStep, GoneStep
     DEF GuardInv

(* It holds throughout every behaviour.                                    *)
LEMMA GuardInvAlways == GuardSpec => []GuardInv
  BY GuardInvInit, GuardInvStep, PTL DEF GuardSpec

(* The state of drivers, pipelines and files stays well formed.            *)
THEOREM GuardTypeCorrect == GuardSpec => []GuardTypeOK
<1>1. GuardInv => GuardTypeOK
  BY DEF GuardInv
<1> QED
  BY <1>1, GuardInvAlways, PTL

(* The inherited lock keeps commands of two experiments off one NPU        *)
(* whatever happens to their drivers (storage_guard.sh, 300-307, 374).     *)
THEOREM OneCommandPerNpu == GuardSpec => []NpuExclusive
<1>1. GuardInv => NpuExclusive
  BY DEF GuardInv, LockInv, NpuExclusive, Quiet, Holds
<1> QED
  BY <1>1, GuardInvAlways, PTL

(* A server next to another experiment's command was not yet visible when  *)
(* that experiment looked (308, wait_npu_ready).                           *)
THEOREM OrphansWereInvisible == GuardSpec => []OrphanWasInvisible
<1>1. GuardInv => OrphanWasInvisible
  BY DEF GuardInv, OrphanInv, OrphanWasInvisible
<1> QED
  BY <1>1, GuardInvAlways, PTL

(* Between two audits the monitor passes fewer checks than the interval    *)
(* (376-395), for any interval.                                            *)
THEOREM BreachesAreSeen == GuardSpec => []BreachSeenInTime
<1>1. GuardInv => BreachSeenInTime
  BY GuardAssumption DEF GuardInv, GuardTypeOK, AgeInv, BreachSeenInTime
<1> QED
  BY <1>1, GuardInvAlways, PTL

(* Only an interrupt or a torn ready file takes the scratch from under a   *)
(* command, its monitor or its logger, and only a driver that reports a    *)
(* failure from under a server (101-120 and 332 of the m4a driver).        *)
THEOREM ScratchGoesLast == GuardSpec => []ScratchRemovedLast
<1>1. GuardInv => ScratchRemovedLast
  BY DEF GuardInv, PipeInv, GoneInv, Alone, Quiet, Running, ScratchRemovedLast
<1> QED
  BY <1>1, GuardInvAlways, PTL

(* Directories are made twice only after a race of the two looks (276-279  *)
(* against 311).                                                           *)
THEOREM OverwritesWereRaces == GuardSpec => OverwriteNeedsRace
<1> DEFINE Act == \A e \in Experiments :
        drv[e] = "mkdirs" /\ drv'[e] = "idle" /\ run[e] \in made =>
            \E f \in Experiments \ {e} :
                run[f] = run[e] /\ (f \in looked[e] \/ e \in looked[f])
<1>1. GuardInv => Act
  BY DEF GuardInv, RaceInv, Looked, Raced
<1>2. GuardInv /\ [GuardNext]_vars => [Act]_vars
  BY <1>1
<1> QED
  BY <1>2, GuardInvAlways, PTL DEF GuardSpec, OverwriteNeedsRace
=============================================================================
