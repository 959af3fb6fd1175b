--------------------------- MODULE MCStorageGuard ---------------------------
(* Two experiments, on one NPU or two, launched with one run id or two.    *)
EXTENDS StorageGuard, TLC
CONSTANTS e1, e2, n1, n2, r1, r2
TwoExperiments == {e1, e2}
TwoNpus == {n1, n2}
TwoRuns == {r1, r2}
(* Experiments that share neither an NPU nor a run id do not interact.     *)
SharingSomething ==
    {l \in [TwoExperiments -> [npu : TwoNpus, run : TwoRuns]] :
        l[e1].npu = l[e2].npu \/ l[e1].run = l[e2].run}
Sym == Permutations(TwoExperiments) \cup Permutations(TwoNpus) \cup Permutations(TwoRuns)
=============================================================================
