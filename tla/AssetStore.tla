----------------------------- MODULE AssetStore -----------------------------
(***************************************************************************)
(* materialize_runtime_weights.py: invocations that run at the same time,  *)
(* fail or are killed at any step, and provision one content-addressed     *)
(* runtime-weight bundle below a persistent asset root (or a plain bundle  *)
(* in /dev/shm).  File operations are the atomic steps; a bundle is the    *)
(* number of tensors written and whether all of them are the qualified     *)
(* ones, which is what the pinned manifest digest tells apart.             *)
(***************************************************************************)
EXTENDS Naturals, FiniteSets

CONSTANTS Invocations,   \* runs of the program, each one process
          Pids,          \* process ids; one host, so live processes differ
          Files          \* EXPECTED_EXTERNAL_FILES

ASSUME AssetAssumption ==
    /\ Files \in Nat \ {0}
    /\ Pids \cap {"target", "shm"} = {}

VARIABLES store,     \* the asset root and its marker file
          dir,       \* bundle directories: published, /dev/shm, one per pid
          manifest,  \* the manifest that goes with each of them
          pc, fate,  \* where an invocation is, and how it ended there
          pid, mode, \* its process id; "target" (persistent), "shm", or
                     \* "misnamed": persistent, with another manifest path
          late       \* it started after the bundle was published

vars == <<store, dir, manifest, pc, fate, pid, mode, late>>

Places == Pids \cup {"target", "shm"}
Absent == [files |-> 0, good |-> TRUE, exists |-> FALSE]
Made == [files |-> 0, good |-> TRUE, exists |-> TRUE]
Complete == [files |-> Files, good |-> TRUE, exists |-> TRUE]

(* main registers the atexit handler at line 289, before the directory of  *)
(* step "stage" is made: an error from there on cleans up first.           *)
EarlySteps == {"root", "mkroot", "list", "mark", "markw", "look", "validate"}
LateSteps == {"stage", "write", "manifest", "check", "publish", "commit"}

Live(p) == fate[p] \in {"running", "failing"}
At(p, step) == pc[p] = step /\ fate[p] = "running"

MutantNoStaging(p) == mode[p]

Out(p) == IF mode[p] = "shm" THEN "shm" ELSE pid[p]

TypeOK ==
    /\ store \in {"absent", "empty", "foreign", "torn", "marked"}
    /\ dir \in [Places -> [files : 0..Files, good : BOOLEAN, exists : BOOLEAN]]
    /\ manifest \in [Places -> {"none", "bad", "valid"}]
    /\ pc \in [Invocations -> {"idle"} \cup EarlySteps \cup LateSteps]
    /\ fate \in [Invocations -> {"none", "running", "failing", "failed",
                                 "killed", "created", "reused"}]
    /\ pid \in [Invocations -> Pids]
    /\ mode \in [Invocations -> {"target", "shm", "misnamed"}]
    /\ late \in [Invocations -> BOOLEAN]

Published == dir["target"].exists /\ manifest["target"] = "valid"

Init ==
    /\ store \in {"absent", "empty", "foreign"}
    /\ dir = [d \in Places |-> Absent]
    /\ manifest = [d \in Places |-> "none"]
    /\ pc = [p \in Invocations |-> "idle"]
    /\ fate = [p \in Invocations |-> "none"]
    /\ pid \in [Invocations -> Pids]
    /\ mode \in [Invocations -> {"target", "shm", "misnamed"}]
    /\ late = [p \in Invocations |-> FALSE]
-----------------------------------------------------------------------------
GoTo(p, step) == pc' = [pc EXCEPT ![p] = step] /\ UNCHANGED fate
Finish(p, how) == fate' = [fate EXCEPT ![p] = how] /\ UNCHANGED pc

(* An exception: before line 289 the process just ends, afterwards it runs *)
(* the exit handler.                                                       *)
Fail(p) == Finish(p, IF pc[p] \in LateSteps THEN "failing" ELSE "failed")

(* A process that starts has a pid no live process has; /dev/shm output    *)
(* skips the asset store (163, 275-277).                                   *)
Start(p) ==
    /\ fate[p] = "none"
    /\ \A q \in Invocations : Live(q) => pid[q] # pid[p]
    /\ pc' = [pc EXCEPT ![p] = IF mode[p] = "shm" THEN "stage" ELSE "root"]
    /\ fate' = [fate EXCEPT ![p] = "running"]
    /\ late' = [late EXCEPT ![p] = Published]
    /\ UNCHANGED <<store, dir, manifest, pid, mode>>

(* prepare_asset_store: what the root looks like ...                       *)
LookAtRoot(p) ==
    /\ At(p, "root")
    /\ \/ store = "absent" /\ GoTo(p, "mkroot")
       \/ store = "marked" /\ GoTo(p, "look")
       \/ store \in {"empty", "foreign"} /\ GoTo(p, "list")
       \/ store = "torn" /\ Fail(p)
    /\ UNCHANGED <<store, dir, manifest, pid, mode, late>>

(* ... iterdir() of a root whose marker was not there a moment ago ...     *)
ListRoot(p) ==
    /\ At(p, "list")
    /\ IF store = "empty" THEN GoTo(p, "mark") ELSE Fail(p)
    /\ UNCHANGED <<store, dir, manifest, pid, mode, late>>

(* ... mkdir without exist_ok ...                                          *)
MakeRoot(p) ==
    /\ At(p, "mkroot")
    /\ IF store = "absent" THEN store' = "empty" /\ GoTo(p, "mark")
                           ELSE UNCHANGED store /\ Fail(p)
    /\ UNCHANGED <<dir, manifest, pid, mode, late>>

(* ... and write_text, which truncates the marker before it writes it.     *)
TruncateMarker(p) ==
    /\ At(p, "mark")
    /\ store' = "torn"
    /\ GoTo(p, "markw")
    /\ UNCHANGED <<dir, manifest, pid, mode, late>>

WriteMarker(p) ==
    /\ At(p, "markw")
    /\ store' = "marked"
    /\ GoTo(p, "look")
    /\ UNCHANGED <<dir, manifest, pid, mode, late>>

MutantAlwaysStage(p) ==
    /\ At(p, "look")
    /\ IF mode[p] = "misnamed" THEN Fail(p) ELSE GoTo(p, "stage")
    /\ UNCHANGED <<store, dir, manifest, pid, mode, late>>

(* The manifest must be at its content-addressed path; then a bundle that  *)
(* is there is validated, another staged.                                  *)
LookForTarget(p) ==
    /\ At(p, "look")
    /\ IF mode[p] = "misnamed" THEN Fail(p)
       ELSE GoTo(p, IF dir["target"].exists THEN "validate" ELSE "stage")
    /\ UNCHANGED <<store, dir, manifest, pid, mode, late>>

MutantManifestNotRequired == dir["target"].exists

ExistingBundleValid == Published /\ dir["target"] = Complete

(* validate_existing_bundle; nothing is written, so the check is one step. *)
ValidateExisting(p) ==
    /\ At(p, "validate")
    /\ IF ExistingBundleValid THEN Finish(p, "reused") ELSE Fail(p)
    /\ UNCHANGED <<store, dir, manifest, pid, mode, late>>

(* mkdir(exist_ok=False) of the output directory: a leftover of a killed   *)
(* process with this pid makes it fail.                                    *)
MakeOutput(p) ==
    /\ At(p, "stage")
    /\ IF dir[Out(p)].exists
       THEN Fail(p) /\ UNCHANGED dir
       ELSE dir' = [dir EXCEPT ![Out(p)] = Made] /\ GoTo(p, "write")
    /\ UNCHANGED <<store, manifest, pid, mode, late>>

(* One tensor is read, checked, written and hashed; ok says whether it is  *)
(* the qualified one.  After the last one come the counts (368-375).       *)
WriteTensor(p, ok) ==
    /\ At(p, "write")
    /\ dir[Out(p)].files < Files
    /\ dir' = [dir EXCEPT ![Out(p)] = [files |-> @.files + 1,
                                       good |-> @.good /\ ok,
                                       exists |-> @.exists]]
    /\ GoTo(p, IF dir[Out(p)].files + 1 = Files THEN "manifest" ELSE "write")
    /\ UNCHANGED <<store, manifest, pid, mode, late>>

(* temporary_manifest.write_text: a reader in between finds a torn file.   *)
OpenManifest(p) ==
    /\ At(p, "manifest")
    /\ manifest' = [manifest EXCEPT ![Out(p)] = "bad"]
    /\ GoTo(p, "check")
    /\ UNCHANGED <<store, dir, pid, mode, late>>

MutantDigestIgnored(p) == TRUE

DigestMatches(p) == dir[Out(p)].good

(* The rest of the write, and the digest check of line 395; a bundle in    *)
(* /dev/shm is then done.                                                  *)
WriteManifest(p) ==
    /\ At(p, "check")
    /\ manifest' = [manifest EXCEPT ![Out(p)] =
                       IF DigestMatches(p) THEN "valid" ELSE "bad"]
    /\ IF ~DigestMatches(p) THEN Fail(p)
       ELSE IF mode[p] = "shm" THEN Finish(p, "created")
       ELSE GoTo(p, "publish")
    /\ UNCHANGED <<store, dir, pid, mode, late>>

(* rename() onto a directory that has files fails.                         *)
Publish(p) ==
    /\ At(p, "publish")
    /\ IF dir["target"].exists
       THEN Fail(p) /\ UNCHANGED dir
       ELSE /\ dir' = [dir EXCEPT !["target"] = dir[Out(p)], ![Out(p)] = Absent]
            /\ GoTo(p, "commit")
    /\ UNCHANGED <<store, manifest, pid, mode, late>>

Commit(p) ==
    /\ At(p, "commit")
    /\ manifest' = [manifest EXCEPT !["target"] = manifest[Out(p)],
                                    ![Out(p)] = "none"]
    /\ Finish(p, "created")
    /\ UNCHANGED <<store, dir, pid, mode, late>>

(* The file system or an input check raises at any late step (disk full,   *)
(* wrong model identity, dtype or shape, or an interrupt).                 *)
RaiseError(p) ==
    /\ fate[p] = "running" /\ pc[p] \in LateSteps
    /\ Fail(p)
    /\ UNCHANGED <<store, dir, manifest, pid, mode, late>>

MutantUndoRename(p) ==
    /\ fate[p] = "failing"
    /\ dir' = IF mode[p] = "shm" THEN dir
              ELSE IF pc[p] = "commit" THEN [dir EXCEPT !["target"] = Absent]
              ELSE [dir EXCEPT ![pid[p]] = Absent]
    /\ manifest' = [manifest EXCEPT ![pid[p]] = "none"]
    /\ Finish(p, "failed")
    /\ UNCHANGED <<store, pid, mode, late>>

(* cleanup_partial_output: only a staging directory and its manifest go.   *)
CleanUp(p) ==
    /\ fate[p] = "failing"
    /\ IF mode[p] = "shm" THEN UNCHANGED <<dir, manifest>>
       ELSE /\ dir' = [dir EXCEPT ![pid[p]] = Absent]
            /\ manifest' = [manifest EXCEPT ![pid[p]] = "none"]
    /\ Finish(p, "failed")
    /\ UNCHANGED <<store, pid, mode, late>>

(* SIGKILL, SIGTERM or a crash of the host: no exit handler runs.          *)
Kill(p) ==
    /\ Live(p)
    /\ Finish(p, "killed")
    /\ UNCHANGED <<store, dir, manifest, pid, mode, late>>

Step(p) ==
    \/ LookAtRoot(p) \/ ListRoot(p) \/ MakeRoot(p)
    \/ TruncateMarker(p) \/ WriteMarker(p)
    \/ LookForTarget(p) \/ ValidateExisting(p) \/ MakeOutput(p)
    \/ \E ok \in BOOLEAN : WriteTensor(p, ok)
    \/ OpenManifest(p) \/ WriteManifest(p) \/ Publish(p) \/ Commit(p)
    \/ CleanUp(p)

Next == \E p \in Invocations : Start(p) \/ Step(p) \/ RaiseError(p) \/ Kill(p)

Spec == Init /\ [][Next]_vars
-----------------------------------------------------------------------------
(* A valid manifest never stands for a bundle that is not there in full:   *)
(* whatever is killed, a reader that finds the manifest finds the weights  *)
(* (lines 292-403: write, digest, rename, replace).                        *)
ManifestMeansComplete ==
    \A d \in {"target", "shm"} : manifest[d] = "valid" => dir[d] = Complete

(* An invocation that reported success, created or reused, leaves its      *)
(* caller a complete bundle with its manifest, whatever the others do      *)
(* afterwards (252-266, 401-418).                                          *)
SuccessMeansUsable ==
    \A p \in Invocations : fate[p] \in {"created", "reused"} =>
        dir[mode[p]] = Complete /\ manifest[mode[p]] = "valid"

(* What stands under the content-addressed path is never written, replaced *)
(* or removed again: workers map these files while others are provisioning *)
(* (rename fails on an existing bundle, clean up spares the target).       *)
PublishedNeverChanges ==
    [][dir["target"].exists => dir'["target"] = dir["target"]]_vars

(* A published directory lacks its manifest only in the hands of the       *)
(* invocation that is between rename (402) and replace (403), or was lost  *)
(* there; every later invocation then refuses the bundle as incomplete.    *)
UnfinishedNeedsLostPublisher ==
    dir["target"].exists /\ manifest["target"] = "none" =>
        \E p \in Invocations : pc[p] = "commit" /\ fate[p] # "created"

(* "a second invocation deep-checks and reuses the same bundle": one that  *)
(* names the content-addressed paths and starts after the bundle was       *)
(* published makes no copy and is refused only at the marker, while or     *)
(* after another invocation that looked at the root before the marker      *)
(* existed rewrites it (190-196).                                          *)
LateInvocationReuses ==
    \A p \in Invocations : late[p] /\ mode[p] = "target" =>
        /\ pc[p] \in {"root", "look", "validate"}
        /\ fate[p] = "failed" => pc[p] = "root"
=============================================================================
