------------------------------ MODULE Inference ------------------------------
(***************************************************************************)
(* The inference runner of an official48 run:                              *)
(* run_innercc_infer_official48.py and the two functions of                *)
(* custom_cli_case/run_custom_cli_case.py it calls (run_cli and            *)
(* write_patch_outputs).                                                   *)
(*                                                                         *)
(* One process runs at a time: its main thread boots, submits the pending  *)
(* instances to a ThreadPoolExecutor and collects the futures; the pool's  *)
(* threads run process_instance.  The process may be killed at any point   *)
(* and started again with --resume, which is what the supervisor does.     *)
(* What survives a crash is the output directory, the workspaces and, when *)
(* only the process is killed, the CLI sessions it had started.            *)
(***************************************************************************)
EXTENDS Integers, FiniteSets

CONSTANTS
    Instances,      \* the instances, numbered in the order of load_instances
    MaxConcurrency, \* --max-concurrency
    Patches,        \* what `git diff` can print, EmptyPatch included
    EmptyPatch,     \* the empty diff
    NoPatch,        \* no prediction
    CachedRepos,    \* instances whose base commit is in a sibling cache clone
    ForceOnResume,  \* --force-workspace is given together with --resume
    CrashKinds,     \* how the process can be killed: "process", "host"
    MaxStarts       \* bound: how often the process is started

ASSUME InstancesAssumption ==
    Instances \subseteq Nat /\ Instances # {} /\ IsFiniteSet(Instances)
ASSUME ConcurrencyAssumption == MaxConcurrency \in Nat \ {0}
ASSUME PatchesAssumption == EmptyPatch \in Patches /\ NoPatch \notin Patches
ASSUME OptionsAssumption ==
    /\ CachedRepos \subseteq Instances
    /\ ForceOnResume \in BOOLEAN
    /\ CrashKinds \subseteq {"process", "host"}
    /\ MaxStarts \in Nat

VARIABLES
    \* the process
    proc,       \* "new", "up", or how it ended: "ok", "failures", "crashed"
    starts,     \* how often it was started
    force,      \* args.force_workspace
    main,       \* the main thread: "collect", or the file it writes next
    phase,      \* per instance: where its process_instance call is
    \* its memory, guarded by state_lock
    completed, failed, active,  \* completed_ids, failed_ids, active_ids
    allPreds,                   \* all_preds
    rows,                       \* the keys of summary_by_id
    \* the output directory
    preds, summary,  \* preds.json; the rows of inference_summary.json
    status,          \* inference_status.json
    runPreds,        \* runs/<instance>/preds.json
    bundles,         \* instances with runs/<instance>/router_trace_bundle.json
    ws,              \* workspaces/<instance>: what is checked out, git diff
    orphans          \* CLI sessions whose runner was killed

memory == <<completed, failed, active, allPreds, rows>>
outputs == <<preds, summary, status>>
artefacts == <<runPreds, bundles, ws, orphans>>
vars == <<proc, starts, force, main, phase, memory, outputs, artefacts>>

\* The stages of process_instance that occupy a thread of the pool.
Busy == {"prep", "create", "checkout", "router", "cli", "patch", "export"}
Phases == Busy \cup {"idle", "queued", "returned", "raised"}

\* A workspace: "none" has no .git, "init" is an empty repository, "head" a
\* fresh clone still at the cache's commit, "base" is at the base commit.
Workspaces == [rev : {"none", "init", "head", "base"}, diff : Patches]
NoWorkspace == [rev |-> "none", diff |-> EmptyPatch]
BaseWorkspace == [rev |-> "base", diff |-> EmptyPatch]

Statuses == [written : BOOLEAN, active : SUBSET Instances,
             completed : SUBSET Instances, failed : SUBSET Instances]

\* The "done" field of an inference_status.json payload.
StatusDone(s) == Cardinality(s.completed) >= Cardinality(Instances)

TypeOK ==
    /\ proc \in {"new", "up", "ok", "failures", "crashed"}
    /\ starts \in 0..MaxStarts
    /\ force \in BOOLEAN
    /\ main \in {"collect", "preds", "summary", "status"}
    /\ phase \in [Instances -> Phases]
    /\ completed \subseteq Instances
    /\ failed \subseteq Instances
    /\ active \subseteq Instances
    /\ rows \subseteq Instances
    /\ allPreds \in [Instances -> Patches \cup {NoPatch}]
    /\ preds \in [Instances -> Patches \cup {NoPatch}]
    /\ summary \subseteq Instances
    /\ status \in Statuses
    /\ runPreds \in [Instances -> Patches \cup {NoPatch}]
    /\ bundles \subseteq Instances
    /\ ws \in [Instances -> Workspaces]
    /\ orphans \subseteq Instances

-----------------------------------------------------------------------------
(* The process: boot, finish, crash.                                       *)

Init ==
    /\ proc = "new" /\ starts = 0 /\ force = TRUE /\ main = "collect"
    /\ phase = [i \in Instances |-> "idle"]
    /\ completed = {} /\ failed = {} /\ active = {} /\ rows = {}
    /\ allPreds = [i \in Instances |-> NoPatch]
    /\ preds = [i \in Instances |-> NoPatch]
    /\ summary = {}
    /\ status = [written |-> FALSE, active |-> {}, completed |-> {}, failed |-> {}]
    /\ runPreds = [i \in Instances |-> NoPatch]
    /\ bundles = {}
    /\ ws = [i \in Instances |-> NoWorkspace]
    /\ orphans = {}

\* Mutant: no row of the summary is taken over.
NothingResumed == {}

\* load_resume_state: the instances whose row names an existing preds file
\* count as completed, and the aggregate is filled up from those files.
ResumedIds == {i \in summary : runPreds[i] # NoPatch}
ResumedPreds ==
    [i \in Instances |-> IF preds[i] = NoPatch /\ i \in ResumedIds
                         THEN runPreds[i] ELSE preds[i]]

\* The first start is run_official48_pipeline.sh on a fresh directory, with
\* --force-workspace; the later ones resume.  The pending instances are
\* queued; the three files are then written in the order of the stages of
\* main (WritePreds, WriteSummary, WriteStatus) before any thread runs.
Start ==
    /\ proc # "up"
    /\ starts < MaxStarts
    /\ proc' = "up"
    /\ starts' = starts + 1
    /\ force' = (starts = 0 \/ ForceOnResume)
    /\ main' = "preds"
    /\ completed' = ResumedIds
    /\ allPreds' = ResumedPreds
    /\ rows' = summary
    /\ phase' = [i \in Instances |-> IF i \in ResumedIds THEN "idle" ELSE "queued"]
    /\ failed' = {} /\ active' = {}
    /\ UNCHANGED <<outputs, artefacts>>

\* The executor is drained: run_batch returns, or raises RuntimeError for
\* the errors it collected.  With nothing pending it writes the status again.
FinishBatch ==
    /\ proc = "up" /\ main = "collect"
    /\ \A i \in Instances : phase[i] = "idle"
    /\ proc' = IF failed = {} THEN "ok" ELSE "failures"
    /\ UNCHANGED <<starts, force, main, phase, memory, outputs, artefacts>>

\* The runner is killed.  run_cli starts the CLI in a session of its own, so
\* it outlives the runner unless the host itself goes down.
Crash(kind) ==
    /\ proc = "up"
    /\ proc' = "crashed"
    /\ main' = "collect"
    /\ orphans' = IF kind = "host" THEN {}
                  ELSE orphans \cup {i \in Instances : phase[i] = "cli"}
    /\ phase' = [i \in Instances |-> "idle"]
    /\ completed' = {} /\ failed' = {} /\ active' = {} /\ rows' = {}
    /\ allPreds' = [i \in Instances |-> NoPatch]
    /\ UNCHANGED <<starts, force, outputs, runPreds, bundles, ws>>

-----------------------------------------------------------------------------
(* A thread of the pool: process_instance.                                 *)

\* Mutant: mark_active does not take state_lock.
NoLock == TRUE

\* main holds state_lock from the update of its memory to the status write.
LockFree == main = "collect"

InPool == {i \in Instances : phase[i] \in Busy}

Goto(i, p) == phase' = [phase EXCEPT ![i] = p]

\* Mutant: failed instances are counted as completed.
StatusCountsFailed(a, c, f) ==
    [written |-> TRUE, active |-> a, completed |-> c \cup f, failed |-> f]

\* write_inference_status
StatusOf(a, c, f) == [written |-> TRUE, active |-> a, completed |-> c, failed |-> f]

\* A free thread takes the oldest queued instance and calls mark_active.
StartInstance(i) ==
    /\ proc = "up" /\ LockFree
    /\ phase[i] = "queued"
    /\ \A j \in Instances : phase[j] = "queued" => i <= j
    /\ Cardinality(InPool) < MaxConcurrency
    /\ Goto(i, "prep")
    /\ active' = active \cup {i}
    /\ status' = StatusOf(active', completed, failed)
    /\ UNCHANGED <<proc, starts, force, main, completed, failed, allPreds, rows,
                   preds, summary, artefacts>>

\* A step of instance i's thread that touches only its run and workspace.
InstanceStep(i, from, to) ==
    /\ proc = "up"
    /\ phase[i] = from
    /\ Goto(i, to)
    /\ UNCHANGED <<proc, starts, force, main, memory, outputs>>

\* Mutant: --force-workspace does not remove the old directory.
PrepareKeepsWorkspace(i) ==
    /\ ws' = ws
    /\ InstanceStep(i, "prep", IF ws[i].rev = "none" THEN "create" ELSE "router")
    /\ UNCHANGED <<runPreds, bundles, orphans>>

\* prepare_workspace_ssh: --force-workspace removes the directory; a
\* directory that still has a .git is taken as it is.
PrepareWorkspace(i) ==
    /\ ws' = IF force THEN [ws EXCEPT ![i] = NoWorkspace] ELSE ws
    /\ InstanceStep(i, "prep", IF ws'[i].rev = "none" THEN "create" ELSE "router")
    /\ UNCHANGED <<runPreds, bundles, orphans>>

\* git clone of the cache, or git init
CreateWorkspace(i) ==
    /\ InstanceStep(i, "create", "checkout")
    /\ ws' = [ws EXCEPT ![i].rev = IF i \in CachedRepos THEN "head" ELSE "init"]
    /\ UNCHANGED <<runPreds, bundles, orphans>>

\* git fetch where needed, git checkout, git config
CheckoutBase(i) ==
    /\ InstanceStep(i, "checkout", "router")
    /\ ws' = [ws EXCEPT ![i].rev = "base"]
    /\ UNCHANGED <<runPreds, bundles, orphans>>

\* wait_for_router returns; run_cli starts the CLI in the workspace.
RouterReady(i) ==
    /\ InstanceStep(i, "router", "cli")
    /\ UNCHANGED artefacts

\* A CLI session, the runner's or an orphan, edits files.  `git diff` shows
\* edits of tracked files only, and an "init" repository tracks none.
CliEdit(i) ==
    /\ phase[i] = "cli" \/ i \in orphans
    /\ ws[i].rev \in {"head", "base"}
    /\ \E p \in Patches \ {ws[i].diff} : ws' = [ws EXCEPT ![i].diff = p]
    /\ UNCHANGED <<proc, starts, force, main, phase, memory, outputs,
                   runPreds, bundles, orphans>>

\* The CLI ends by itself or is terminated at --cli-timeout-seconds.
CliExit(i) ==
    /\ InstanceStep(i, "cli", "patch")
    /\ UNCHANGED artefacts

\* An orphan has no runner left to time it out.
OrphanExit(i) ==
    /\ i \in orphans
    /\ orphans' = orphans \ {i}
    /\ UNCHANGED <<proc, starts, force, main, phase, memory, outputs,
                   runPreds, bundles, ws>>

\* Mutant: the output of git diff is not captured.
WritePatchUncaptured(i) ==
    /\ InstanceStep(i, "patch", "export")
    /\ runPreds' = [runPreds EXCEPT ![i] = "None"]
    /\ UNCHANGED <<bundles, ws, orphans>>

\* write_patch_outputs: git diff into runs/<instance>/preds.json
WritePatch(i) ==
    /\ InstanceStep(i, "patch", "export")
    /\ runPreds' = [runPreds EXCEPT ![i] = ws[i].diff]
    /\ UNCHANGED <<bundles, ws, orphans>>

\* export_router_bundle succeeds; process_instance returns.
ExportBundle(i) ==
    /\ InstanceStep(i, "export", "returned")
    /\ bundles' = bundles \cup {i}
    /\ UNCHANGED <<runPreds, ws, orphans>>

\* A git command fails, the router does not come up, the CLI cannot be
\* started, or the export times out: process_instance raises.
Raise(i) ==
    /\ phase[i] \in Busy \ {"cli"}
    /\ InstanceStep(i, phase[i], "raised")
    /\ UNCHANGED artefacts

-----------------------------------------------------------------------------
(* The main thread: as_completed, and the three file writes.               *)

\* A future returned: the memory is updated under state_lock.
CollectOk(i) ==
    /\ proc = "up" /\ LockFree
    /\ phase[i] = "returned"
    /\ Goto(i, "idle")
    /\ active' = active \ {i}
    /\ failed' = failed \ {i}
    /\ completed' = completed \cup {i}
    /\ allPreds' = [allPreds EXCEPT ![i] = runPreds[i]]
    /\ rows' = rows \cup {i}
    /\ main' = "preds"
    /\ UNCHANGED <<proc, starts, force, outputs, artefacts>>

\* Mutant: a failed instance is not discarded from active_ids.
FailureStaysActive(i) ==
    /\ proc = "up" /\ LockFree
    /\ phase[i] = "raised"
    /\ Goto(i, "idle")
    /\ failed' = failed \cup {i}
    /\ status' = StatusOf(active, completed, failed')
    /\ UNCHANGED <<proc, starts, force, main, completed, active, allPreds, rows,
                   preds, summary, artefacts>>

\* Mutant: a failure clears active_ids.
FailureClearsActive(i) ==
    /\ proc = "up" /\ LockFree
    /\ phase[i] = "raised"
    /\ Goto(i, "idle")
    /\ active' = {}
    /\ failed' = failed \cup {i}
    /\ status' = StatusOf(active', completed, failed')
    /\ UNCHANGED <<proc, starts, force, main, completed, allPreds, rows,
                   preds, summary, artefacts>>

\* A future raised: the instance is recorded as failed.
CollectFailure(i) ==
    /\ proc = "up" /\ LockFree
    /\ phase[i] = "raised"
    /\ Goto(i, "idle")
    /\ active' = active \ {i}
    /\ failed' = failed \cup {i}
    /\ status' = StatusOf(active', completed, failed')
    /\ UNCHANGED <<proc, starts, force, main, completed, allPreds, rows,
                   preds, summary, artefacts>>

\* Mutant: the aggregate preds.json is not rewritten.
WritePredsSkipped ==
    /\ proc = "up" /\ main = "preds"
    /\ main' = "summary"
    /\ UNCHANGED <<proc, starts, force, phase, memory, preds, summary, status, artefacts>>

WritePreds ==
    /\ proc = "up" /\ main = "preds"
    /\ preds' = allPreds
    /\ main' = "summary"
    /\ UNCHANGED <<proc, starts, force, phase, memory, summary, status, artefacts>>

WriteSummary ==
    /\ proc = "up" /\ main = "summary"
    /\ summary' = rows
    /\ main' = "status"
    /\ UNCHANGED <<proc, starts, force, phase, memory, preds, status, artefacts>>

\* Mutant: state_lock is not released after the status write.
StatusKeepsLock ==
    /\ proc = "up" /\ main = "status"
    /\ status' = StatusOf(active, completed, failed)
    /\ UNCHANGED <<proc, starts, force, main, phase, memory, preds, summary, artefacts>>

WriteStatus ==
    /\ proc = "up" /\ main = "status"
    /\ status' = StatusOf(active, completed, failed)
    /\ main' = "collect"
    /\ UNCHANGED <<proc, starts, force, phase, memory, preds, summary, artefacts>>

-----------------------------------------------------------------------------
WorkerStep(i) ==
    \/ StartInstance(i)
    \/ PrepareWorkspace(i) \/ CreateWorkspace(i) \/ CheckoutBase(i)
    \/ RouterReady(i) \/ CliExit(i)
    \/ WritePatch(i) \/ ExportBundle(i) \/ Raise(i)

MainStep ==
    \/ \E i \in Instances : CollectOk(i) \/ CollectFailure(i)
    \/ WritePreds \/ WriteSummary \/ WriteStatus
    \/ FinishBatch

Next ==
    \/ Start
    \/ MainStep
    \/ \E i \in Instances : WorkerStep(i) \/ CliEdit(i) \/ OrphanExit(i)
    \/ \E kind \in CrashKinds : Crash(kind)

Spec == Init /\ [][Next]_vars

\* The main thread and every pool thread keep running while the process
\* does: each wait in process_instance has a timeout, the CLI's included.
FairSpec ==
    /\ Spec
    /\ WF_vars(MainStep)
    /\ \A i \in Instances : WF_vars(WorkerStep(i))

-----------------------------------------------------------------------------
(* Properties.                                                             *)

\* A row of inference_summary.json never lacks what its readers open next:
\* the aggregate preds.json holds the instance's prediction, it is the one
\* runs/<instance>/preds.json holds, and the router bundle exists.  The
\* files are written one after the other and the process may die between
\* any two of the writes (run_batch's success branch).
RowsBacked ==
    \A i \in summary :
        /\ preds[i] # NoPatch
        /\ preds[i] = runPreds[i]
        /\ i \in bundles

\* inference_status.json never runs ahead of inference_summary.json: an
\* instance it counts as completed has its row, "done" means that every
\* instance has one, and no row appears before the status file exists (its
\* readers take total_instances from it).
StatusNotAhead ==
    /\ status.completed \subseteq summary
    /\ StatusDone(status) => summary = Instances
    /\ summary # {} => status.written

\* Every instance that a thread of the pool works on is listed in the
\* "active" list of the status file: no interleaving of mark_active with
\* the main thread's status writes loses one (state_lock).
PoolIsVisible == InPool \subseteq status.active

\* When run_batch ends by itself, its last status accounts for every
\* instance: nothing is active, the completed are those with a row, all
\* others failed, and the exit is clean exactly when the status says done.
ExitAccounts ==
    proc \in {"ok", "failures"} =>
        /\ status.active = {}
        /\ status.completed = summary
        /\ status.failed = Instances \ summary
        /\ (proc = "ok") = StatusDone(status)

\* A published row is final: across crashes and resumes it is neither
\* withdrawn nor given another prediction, and its instance is not run
\* again (load_resume_state, the pending list of run_batch).
RowsFinal ==
    [][\A i \in summary : /\ i \in summary'
                          /\ preds'[i] = preds[i]
                          /\ phase'[i] = "idle"]_vars

\* The CLI starts in a clean checkout of the base commit, as the prompt that
\* run_cli gives it says (build_prompt).
CliStartsAtBase ==
    [][\A i \in Instances :
          phase[i] # "cli" /\ phase'[i] = "cli" => ws[i] = BaseWorkspace]_vars

\* A started batch ends: no interleaving leaves run_batch waiting for a
\* future or for state_lock for ever.
BatchTerminates == proc = "up" ~> proc # "up"

\* The runner implements what PublishedRun promises the readers of its
\* output directory.
Published == INSTANCE PublishedRun WITH
                 posted <- status.written, announced <- status.completed
ImplementsPublishedRun == Published!PubSpec
=============================================================================
