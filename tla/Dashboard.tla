------------------------------- MODULE Dashboard -------------------------------
(***************************************************************************)
(* The run pages of the dashboard server (lib/dashboard-data.js and        *)
(* app/api/run/[runId]/route.js) beside the run they show: viewing a run,  *)
(* which refreshes its analysis/summary.json when that is out of date, and *)
(* deleting it.                                                            *)
(*                                                                         *)
(* The server is one Node.js process: between two awaits a request has the *)
(* event loop for itself, and spawnSync keeps the loop until the summary   *)
(* script has ended.  The processes of the run go on all the while.        *)
(***************************************************************************)
EXTENDS Integers

CONSTANTS
    Requests,   \* concurrent HTTP requests
    Kinds,      \* what they ask for: a subset of {"view", "delete"}
    N,          \* the instances of the run
    Running,    \* whether the run is still at work at first
    ScriptFails \* whether the summary script may die before its end

DashboardAssumption ==
    /\ Requests # {}
    /\ Kinds \subseteq {"view", "delete"} /\ Kinds # {}
    /\ N \in Nat \ {0}
    /\ Running \in BOOLEAN /\ ScriptFails \in BOOLEAN

Sources == {"infer", "eval", "reports"}

Missing == -1   \* the file does not exist
Torn == -2      \* the file is being written in place
FileStates == {Missing, Torn} \cup 0..N

VARIABLES
    runner, worker,  \* the inference runner and the evaluation worker are up
    rows, entries,   \* what they hold in memory: rows, completed evaluations
    dir,        \* official48_runs/<run_id> exists
    file,       \* what the summary is made of: inference_summary.json,
                \* eval_worker_status.json, the number of report.json files
    monitor,    \* what monitor_status.json says of the run
    summary,    \* analysis/summary.json
    covers,     \* how much of each source the last whole summary contains
    newer,      \* sources more than 500 ms newer than the summary
    fresh,      \* the summary was written less than 500 ms ago
    script,     \* per request: the next step of the summary script it runs
    got,        \* per request: what that script has read
    pc, kind,   \* per request: its next step and what it asks for
    saw,        \* per request: the summary it has stat'ed
    shielded    \* per request: the run visibly made progress when it arrived

runVars == <<runner, worker, rows, entries>>
summaryVars == <<summary, covers, newer, fresh>>
scriptVars == <<script, got>>
reqVars == <<pc, kind, saw, shielded>>
vars == <<runVars, dir, file, monitor, summaryVars, scriptVars, reqVars>>

Nothing == [s \in Sources |-> 0]

DashboardTypeOK ==
    /\ runner \in BOOLEAN /\ worker \in BOOLEAN /\ dir \in BOOLEAN
    /\ rows \in 0..N /\ entries \in 0..N
    /\ file \in [Sources -> FileStates]
    /\ monitor \in {"absent", "torn", "idle", "progress", "done"}
    /\ summary \in {"absent", "torn", "whole"}
    /\ covers \in [Sources -> 0..N]
    /\ newer \subseteq Sources /\ fresh \in BOOLEAN
    /\ script \in [Requests -> {"off", "infer", "eval", "reports", "open", "write"}]
    /\ got \in [Requests -> [Sources -> 0..N]]
    /\ pc \in [Requests -> {"idle", "summary", "sources", "refresh",
                            "status", "rm", "rmdir", "rmlogs"}]
    /\ kind \in [Requests -> Kinds]
    /\ saw \in [Requests -> {"none", "current", "old"}]
    /\ shielded \in [Requests -> BOOLEAN]

\* A run that has just started, or one that was finished and left.
Init ==
    /\ runner = Running /\ worker = Running /\ dir = TRUE
    /\ rows = (IF Running THEN 0 ELSE N) /\ entries = rows
    /\ file = [s \in Sources |-> IF ~Running THEN N
                                 ELSE IF s = "reports" THEN 0 ELSE Missing]
    /\ monitor = (IF Running THEN "absent" ELSE "done")
    /\ summary = "absent" /\ covers = Nothing
    /\ newer = {} /\ fresh = FALSE
    /\ script = [r \in Requests |-> "off"]
    /\ got = [r \in Requests |-> Nothing]
    /\ pc = [r \in Requests |-> "idle"]
    /\ kind \in [Requests -> Kinds]
    /\ saw = [r \in Requests |-> "none"]
    /\ shielded = [r \in Requests |-> FALSE]

-----------------------------------------------------------------------------
(* The run.                                                                *)

\* Source s gets a new modification time.
Touch(s) == newer' = IF fresh \/ summary = "absent" THEN newer ELSE newer \cup {s}

\* write_json_atomic of inference_summary.json; it creates the directories
\* the file lies in.
RunnerWrites ==
    /\ file' = [file EXCEPT !["infer"] = rows']
    /\ dir' = TRUE
    /\ Touch("infer")
    /\ UNCHANGED <<worker, entries, monitor, summary, covers, fresh, scriptVars, reqVars>>

RunnerPublishes ==
    /\ runner /\ rows < N
    /\ rows' = rows + 1
    /\ RunnerWrites /\ UNCHANGED runner

\* mark_active: an instance starts, only inference_status.json is written.
RunnerMarksActive ==
    /\ runner /\ rows < N
    /\ dir' = TRUE
    /\ UNCHANGED <<runVars, file, monitor, summaryVars, scriptVars, reqVars>>

RunnerEnds ==
    /\ runner
    /\ runner' = FALSE
    /\ UNCHANGED <<worker, rows, entries, dir, file, monitor, summaryVars,
                   scriptVars, reqVars>>

ResumedRows == IF file["infer"] = Missing THEN 0 ELSE file["infer"]

\* --resume: the rows are taken from the file and, if there are any, written
\* back; the status file is written in any case.
RunnerResumes ==
    /\ ~runner /\ Running /\ rows < N /\ dir
    /\ runner' = TRUE
    /\ rows' = ResumedRows
    /\ IF rows' # 0 THEN RunnerWrites
       ELSE UNCHANGED <<worker, entries, dir, file, monitor, summaryVars, scriptVars, reqVars>>

\* persist_state of the worker: evaluations that ended are new entries; the
\* file is truncated, then filled.  Without the directory the worker dies.
WorkerOpens ==
    /\ worker /\ file["eval"] # Torn
    /\ IF dir
       THEN /\ entries' \in entries..(IF entries < rows THEN rows ELSE entries)
            /\ file' = [file EXCEPT !["eval"] = Torn]
            /\ Touch("eval")
            /\ UNCHANGED worker
       ELSE /\ worker' = FALSE
            /\ UNCHANGED <<entries, file, newer>>
    /\ UNCHANGED <<runner, rows, dir, monitor, summary, covers, fresh, scriptVars, reqVars>>

WorkerWrites ==
    /\ worker /\ file["eval"] = Torn
    /\ file' = [file EXCEPT !["eval"] = entries]
    /\ Touch("eval")
    /\ UNCHANGED <<runVars, dir, monitor, summary, covers, fresh, scriptVars, reqVars>>

\* Every instance has an entry: the worker leaves after its last write.
WorkerEnds ==
    /\ worker /\ file["eval"] = N
    /\ worker' = FALSE
    /\ UNCHANGED <<runner, rows, entries, dir, file, monitor, summaryVars,
                   scriptVars, reqVars>>

\* The evaluator of an instance that has no entry yet writes its report; it
\* does not need the run directory.
ReportAppears ==
    /\ worker /\ entries < rows /\ file["reports"] < rows
    /\ file' = [file EXCEPT !["reports"] = @ + 1]
    /\ Touch("reports")
    /\ UNCHANGED <<runVars, dir, monitor, summary, covers, fresh, scriptVars, reqVars>>

\* What the monitor says of the files it finds.
MonitorView ==
    CASE file["infer"] = N /\ file["reports"] = N -> "done"
      [] file["infer"] > 0 \/ file["eval"] > 0    -> "progress"
      [] OTHER                                    -> "idle"

MonitorOpens ==
    /\ dir /\ monitor \notin {"torn", "done"}
    /\ monitor' = "torn"
    /\ UNCHANGED <<runVars, dir, file, summaryVars, scriptVars, reqVars>>

MonitorWrites ==
    /\ monitor = "torn"
    /\ monitor' = MonitorView
    /\ UNCHANGED <<runVars, dir, file, summaryVars, scriptVars, reqVars>>

\* 500 ms have passed since the summary was written.
SlackElapses ==
    /\ fresh
    /\ fresh' = FALSE
    /\ UNCHANGED <<runVars, dir, file, monitor, summary, covers, newer, scriptVars, reqVars>>

-----------------------------------------------------------------------------
(* ensureSummary                                                           *)

\* A request goes on only while no spawnSync has the event loop.
AtAnyTime(r, step) == pc[r] = step /\ script[r] = "off"
At(r, step) == pc[r] = step /\ \A q \in Requests : script[q] = "off"
GoesTo(r, step) == pc' = [pc EXCEPT ![r] = step]
Answer(r) == GoesTo(r, "idle") /\ shielded' = [shielded EXCEPT ![r] = FALSE]

\* The monitor speaks of progress, and rows and reports bear it out.
ShowsProgress ==
    monitor = "progress" /\ file["infer"] > 0 /\ file["reports"] > 0

Deleting == \E r \in Requests : pc[r] \in {"rmdir", "rmlogs"}

\* GET or DELETE of /api/run/[runId]: the directory must exist.
Arrive(r) ==
    /\ At(r, "idle") /\ dir
    /\ \E k \in Kinds : kind' = [kind EXCEPT ![r] = k]
    /\ shielded' = [shielded EXCEPT ![r] = ShowsProgress /\ ~Deleting]
    /\ GoesTo(r, "summary")
    /\ UNCHANGED <<runVars, dir, file, monitor, summaryVars, scriptVars, saw>>

StatSummary(r) ==
    /\ At(r, "summary")
    /\ saw' = [saw EXCEPT ![r] = IF summary = "absent" THEN "none" ELSE "current"]
    /\ GoesTo(r, "sources")
    /\ UNCHANGED <<runVars, dir, file, monitor, summaryVars, scriptVars, kind, shielded>>

HasLiveInputs ==
    file["infer"] # Missing \/ file["eval"] # Missing \/ file["reports"] > 0

\* needsRefresh: against the summary the request has stat'ed, which another
\* request may have replaced since.
NeedsRefresh(r) ==
    CASE saw[r] = "none"    -> {monitor = "done" \/ HasLiveInputs}
      [] saw[r] = "current" -> {newer # {}}
      [] saw[r] = "old"     -> BOOLEAN

StatSources(r) ==
    /\ At(r, "sources")
    /\ \E need \in NeedsRefresh(r) : GoesTo(r, IF need THEN "refresh" ELSE "status")
    /\ saw' = [saw EXCEPT ![r] = "none"]
    /\ UNCHANGED <<runVars, dir, file, monitor, summaryVars, scriptVars, kind, shielded>>

\* spawnSync: the script begins with mkdir(parents=True) of analysis/.
RefreshStarts(r) ==
    /\ At(r, "refresh")
    /\ script' = [script EXCEPT ![r] = "infer"]
    /\ dir' = TRUE
    /\ UNCHANGED <<runVars, file, monitor, summaryVars, got, reqVars>>

\* load_json: what cannot be parsed counts as empty.
ScriptReads(r, s, next) ==
    /\ script[r] = s
    /\ got' = [got EXCEPT ![r][s] = IF file[s] \in 0..N THEN file[s] ELSE 0]
    /\ script' = [script EXCEPT ![r] = next]
    /\ UNCHANGED <<runVars, dir, file, monitor, summaryVars, reqVars>>

\* The summary is replaced in place; a stat taken before is of an older one.
SummaryTouched ==
    /\ newer' = {} /\ fresh' = TRUE
    /\ saw' = [r \in Requests |-> IF saw[r] = "current" THEN "old" ELSE saw[r]]

ScriptOpens(r) ==
    /\ script[r] = "open"
    /\ summary' = "torn" /\ SummaryTouched
    /\ script' = [script EXCEPT ![r] = "write"]
    /\ UNCHANGED <<runVars, dir, file, monitor, covers, got, pc, kind, shielded>>

\* spawnSync returns, whatever became of the script.
RefreshEnds(r) ==
    /\ script' = [script EXCEPT ![r] = "off"]
    /\ got' = [got EXCEPT ![r] = Nothing]
    /\ GoesTo(r, "status")

ScriptWrites(r) ==
    /\ script[r] = "write"
    /\ summary' = "whole" /\ covers' = got[r] /\ SummaryTouched
    /\ RefreshEnds(r)
    /\ UNCHANGED <<runVars, dir, file, monitor, kind, shielded>>

\* The script fails, or runs into the 120 s timeout.
ScriptDies(r) ==
    /\ ScriptFails /\ script[r] # "off"
    /\ RefreshEnds(r)
    /\ UNCHANGED <<runVars, dir, file, monitor, summaryVars, kind, saw, shielded>>

-----------------------------------------------------------------------------
(* buildRunOverview and deleteRun                                          *)

NoFallback == FALSE

\* evalCompletedTasks when the monitor's file is absent or torn: reportCount.
ReportFallback == file["reports"] > 0

Status ==
    CASE monitor = "done"                                         -> "completed"
      [] monitor = "progress"                                     -> "running"
      [] monitor \in {"absent", "torn"} /\ ReportFallback         -> "running"
      [] OTHER                                                    -> "idle"

ReadStatus(r) ==
    /\ At(r, "status")
    /\ IF kind[r] = "delete" /\ Status # "running"
       THEN GoesTo(r, "rm") /\ UNCHANGED shielded
       ELSE Answer(r)
    /\ UNCHANGED <<runVars, dir, file, monitor, summaryVars, scriptVars, kind, saw>>

\* The files in F are removed from the run directory.
Removed(F) ==
    /\ file' = [s \in Sources |-> IF s \in F THEN Missing ELSE file[s]]
    /\ monitor' = IF "monitor" \in F THEN "absent" ELSE monitor
    /\ newer' = newer \ F
    /\ IF "summary" \in F
       THEN /\ summary' = "absent" /\ covers' = Nothing
            /\ saw' = [q \in Requests |-> IF saw[q] = "current" THEN "old" ELSE saw[q]]
       ELSE UNCHANGED <<summary, covers, saw>>
    /\ shielded' = [q \in Requests |-> FALSE]

InRunDir == {"infer", "eval", "monitor", "summary"}

\* fs.rm(runDir, recursive): the entries go in any order, other requests
\* and the run's processes in between.
RmFiles(r) ==
    /\ At(r, "rm")
    /\ \E F \in SUBSET InRunDir : Removed(F)
    /\ GoesTo(r, "rmdir")
    /\ UNCHANGED <<runVars, dir, fresh, scriptVars, kind>>

\* The rest and the directory itself, or, when somebody writes there at the
\* same time, an error: the directory is not empty.
RmDir(r) ==
    /\ At(r, "rmdir")
    /\ Removed(InRunDir)
    /\ \/ dir' = FALSE /\ GoesTo(r, "rmlogs")
       \/ (runner \/ worker) /\ GoesTo(r, "idle") /\ UNCHANGED dir
    /\ UNCHANGED <<runVars, fresh, scriptVars, kind>>

\* fs.rm of logs/run_evaluation/eval_input_<run_id>; then the answer is ok.
RmLogs(r) ==
    /\ At(r, "rmlogs")
    /\ file' = [file EXCEPT !["reports"] = 0]
    /\ newer' = newer \ {"reports"}
    /\ GoesTo(r, "idle")
    /\ UNCHANGED <<runVars, dir, monitor, summary, covers, fresh, scriptVars,
                   kind, saw, shielded>>

-----------------------------------------------------------------------------
ScriptGoesOn(r) ==
    \/ ScriptReads(r, "infer", "eval") \/ ScriptReads(r, "eval", "reports")
    \/ ScriptReads(r, "reports", "open") \/ ScriptOpens(r) \/ ScriptWrites(r)

Request(r) ==
    \/ StatSummary(r) \/ StatSources(r) \/ RefreshStarts(r)
    \/ ReadStatus(r) \/ RmFiles(r) \/ RmDir(r) \/ RmLogs(r)

Run ==
    \/ RunnerPublishes \/ RunnerMarksActive \/ RunnerEnds \/ RunnerResumes
    \/ WorkerOpens \/ WorkerWrites \/ WorkerEnds \/ ReportAppears
    \/ MonitorOpens \/ MonitorWrites

Next ==
    \/ Run \/ SlackElapses
    \/ \E r \in Requests : Arrive(r) \/ Request(r) \/ ScriptGoesOn(r) \/ ScriptDies(r)

Spec == Init /\ [][Next]_vars

\* The page polls every 30 s and the worker every 15 s, time passes, and the
\* script does not fail every time.
FairSpec ==
    /\ Spec
    /\ WF_vars(WorkerOpens) /\ WF_vars(WorkerWrites) /\ WF_vars(SlackElapses)
    /\ \A r \in Requests :
         /\ WF_vars(Request(r)) /\ SF_vars(Arrive(r))
         /\ SF_vars(ScriptReads(r, "infer", "eval")) /\ SF_vars(ScriptReads(r, "eval", "reports"))
         /\ SF_vars(ScriptReads(r, "reports", "open")) /\ SF_vars(ScriptOpens(r))
         /\ SF_vars(ScriptWrites(r))

-----------------------------------------------------------------------------
(* Properties                                                              *)

\* Inference rows, once in a summary, stay in it, however the refreshes of
\* several requests overlap with the run, as long as nobody deletes it.
\* spawnSync is what makes it so: two scripts side by side could write in
\* the order opposite to that of their reads.
RowsGrow ==
    summary' = "whole" /\ ~Deleting /\ ~Deleting' /\ summary # "absent"
      => covers'["infer"] >= covers["infer"]

\* A run that showed progress when a DELETE arrived is removed by it only if
\* it was finished in the meantime, even when the monitor's file is caught
\* while it is written: then the reports speak for the run.  A run
\* that showed none yet may be deleted while it works: see LiveRunIsKept.
ProtectsProgress ==
    \A r \in Requests : pc[r] = "rm" /\ pc'[r] = "rmdir" /\ shielded[r]
      => file["infer"] = N /\ file["reports"] = N

\* README.md:766 promises a live summary of the resolved cases: what the
\* evaluators reported gets into the summary of a page that is looked at.
SummaryIsLive ==
    \A n \in 1..N : (file["reports"] >= n) ~> (covers["reports"] >= n)

\* README.md:781: only a run that is not running may be deleted.
LiveRunIsKept == \A r \in Requests : pc[r] = "rmdir" => ~runner

\* README.md:783: deleting removes official48_runs/<run_id>.  With no process
\* of the run left, the directory does not come back.
DeletedStaysDeleted == [][~dir => ~dir']_vars
=============================================================================
