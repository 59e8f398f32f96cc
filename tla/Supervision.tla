----------------------------- MODULE Supervision -----------------------------
(***************************************************************************)
(* How an official48 run is kept going and found to be finished:           *)
(* watch_official48_supervisor.py, monitor_official48_run.py and           *)
(* run_official48_pipeline.sh, over coarse views of the two workers they   *)
(* control.                                                                *)
(*                                                                         *)
(* The deployment is the documented one: the pipeline script runs in the   *)
(* router tmux session and starts an evaluation worker of its own beside   *)
(* the inference runner; the supervisor, started on the same run           *)
(* directory, keeps the eval and the monitor session alive and             *)
(* restarts the runner with --resume when the router session is gone.      *)
(***************************************************************************)
EXTENDS Integers, FiniteSets

CONSTANTS
    Instances,      \* the instances of the run
    DefaultTotal,   \* the 48 used when no status file gives a total
    MaxKills,       \* bound: processes killed or lost from outside
    SupervisorDies  \* whether the supervisor is among them

ASSUME SupervisionAssumption ==
    /\ Instances # {} /\ IsFiniteSet(Instances)
    /\ DefaultTotal \in Nat \ {0}
    /\ MaxKills \in Nat
    /\ SupervisorDies \in BOOLEAN

VARIABLES
    kills,      \* how many losses there were
    routerUp,   \* llm_router answers
    infer,      \* the router session: "off", or the runner's stage in it
    byPipeline, \* the session runs the pipeline script, not a resumed runner
    summary,    \* rows of inference_summary.json
    posted, announced,  \* inference_status.json: it exists; its completed list
    evalUp,     \* the evaluation workers that are up
    tried,      \* per evaluation worker: the keys of its completed dict
    reports,    \* instances with a report.json
    strays,     \* evaluators that outlive the worker that started them
    mon,        \* the monitor session: "off" or the monitor's next step
    snap,       \* what the monitor has read in this round
    monFile,    \* monitor_status.json as last written
    sup         \* the supervisor's next step, "exited" or "down"

inferVars == <<infer, byPipeline, summary, posted, announced>>
evalVars == <<evalUp, tried, reports, strays>>
monVars == <<mon, snap, monFile>>
vars == <<kills, routerUp, inferVars, evalVars, monVars, sup>>

EvalWorkers == {"pipeline", "supervised"}
N == Cardinality(Instances)
Counts == 0..N
Totals == {N, DefaultTotal}

\* The answers a reader of monitor_status.json works with.
NoView == [done |-> FALSE, inf |-> 0, total |-> DefaultTotal]

SupervisionTypeOK ==
    /\ kills \in 0..MaxKills
    /\ routerUp \in BOOLEAN
    /\ infer \in {"off", "boot", "run", "post", "wait"}
    /\ byPipeline \in BOOLEAN
    /\ summary \subseteq Instances
    /\ posted \in BOOLEAN
    /\ announced \subseteq Instances
    /\ evalUp \subseteq EvalWorkers
    /\ tried \in [EvalWorkers -> SUBSET Instances]
    /\ reports \subseteq Instances
    /\ strays \subseteq Instances
    /\ mon \in {"off", "summary", "status", "reports", "write"}
    /\ snap \in [done : BOOLEAN, inf : Counts, total : Totals]
    /\ monFile \in [done : BOOLEAN, inf : Counts, total : Totals]
    /\ sup \in {"router", "eval", "monitor", "check", "infer",
                "exited", "down"}

\* run_official48_pipeline.sh has just started its worker and the runner.
Init ==
    /\ kills = 0
    /\ routerUp = TRUE
    /\ infer = "boot" /\ byPipeline = TRUE
    /\ summary = {} /\ posted = FALSE /\ announced = {}
    /\ evalUp = {"pipeline"}
    /\ tried = [w \in EvalWorkers |-> {}]
    /\ reports = {} /\ strays = {}
    /\ mon = "off" /\ snap = NoView /\ monFile = NoView
    /\ sup = "router"

-----------------------------------------------------------------------------
(* The router session: the runner (module Inference) and the pipeline.     *)

RunnerBoots ==
    /\ infer = "boot"
    /\ infer' = "run"
    /\ posted' = TRUE /\ announced' = summary
    /\ UNCHANGED <<kills, routerUp, byPipeline, summary, evalVars, monVars, sup>>

\* An instance is done: its row is written, then the status.
RunnerPublishes(i) ==
    /\ infer = "run" /\ routerUp
    /\ i \notin summary
    /\ summary' = summary \cup {i}
    /\ infer' = "post"
    /\ UNCHANGED <<kills, routerUp, byPipeline, posted, announced, evalVars, monVars, sup>>

RunnerPosts ==
    /\ infer = "post"
    /\ announced' = summary
    /\ infer' = "run"
    /\ UNCHANGED <<kills, routerUp, byPipeline, summary, posted, evalVars, monVars, sup>>

\* The runner has nothing left to do.  The pipeline then waits for its
\* worker; a resumed runner's session just ends.
RunnerEnds ==
    /\ infer = "run" /\ summary = Instances
    /\ infer' = IF byPipeline THEN "wait" ELSE "off"
    /\ UNCHANGED <<kills, routerUp, byPipeline, summary, posted, announced, evalVars,
                   monVars, sup>>

\* Worker w is gone.  The evaluators it may have had under way go on.
WorkerGone(w) ==
    /\ evalUp' = evalUp \ {w}
    /\ strays' = IF w \in evalUp THEN strays \cup (summary \ tried[w]) ELSE strays
    /\ UNCHANGED <<tried, reports>>

\* The session ends; the pipeline's EXIT trap kills its worker.
SessionEnds ==
    /\ infer' = "off"
    /\ IF byPipeline THEN WorkerGone("pipeline") ELSE UNCHANGED evalVars
    /\ UNCHANGED <<routerUp, byPipeline, summary, posted, announced, monVars, sup>>

\* Some instances failed: the runner exits with an error (set -e).
RunnerFails ==
    /\ infer = "run" /\ summary # Instances
    /\ SessionEnds
    /\ UNCHANGED kills

PipelineEnds ==
    /\ infer = "wait" /\ "pipeline" \notin evalUp
    /\ SessionEnds
    /\ UNCHANGED kills

Lose == kills < MaxKills /\ kills' = kills + 1

\* The runner is killed, between any two of its writes; a script killed
\* with it has no time to run its trap.
RunnerKilled ==
    /\ infer # "off"
    /\ Lose
    /\ \/ SessionEnds
       \/ /\ infer' = "off"
          /\ UNCHANGED <<routerUp, byPipeline, summary, posted, announced,
                         evalVars, monVars, sup>>

RouterLost ==
    /\ routerUp
    /\ Lose
    /\ routerUp' = FALSE
    /\ UNCHANGED <<inferVars, evalVars, monVars, sup>>

-----------------------------------------------------------------------------
(* The evaluation workers (module EvalWorker).                             *)

\* The worker evaluates a published row; a report comes of it or does not.
WorkerReports(w, i) ==
    /\ w \in evalUp
    /\ i \in summary \ tried[w]
    /\ tried' = [tried EXCEPT ![w] = @ \cup {i}]
    /\ reports' = reports \cup {i}
    /\ UNCHANGED <<kills, routerUp, inferVars, evalUp, strays, monVars, sup>>

WorkerFindsNoReport(w, i) ==
    /\ w \in evalUp
    /\ i \in summary \ (tried[w] \cup reports)
    /\ tried' = [tried EXCEPT ![w] = @ \cup {i}]
    /\ UNCHANGED <<kills, routerUp, inferVars, evalUp, reports, strays, monVars, sup>>

\* All instances are in its completed dict.
WorkerExits(w) ==
    /\ w \in evalUp
    /\ tried[w] = Instances
    /\ WorkerGone(w)
    /\ UNCHANGED <<kills, routerUp, inferVars, monVars, sup>>

WorkerKilled(w) ==
    /\ w \in evalUp
    /\ Lose
    /\ WorkerGone(w)
    /\ UNCHANGED <<routerUp, inferVars, monVars, sup>>

\* An evaluator that outlived its worker ends, with or without a report.
StrayEnds(i) ==
    /\ i \in strays
    /\ strays' = strays \ {i}
    /\ reports' \in {reports, reports \cup {i}}
    /\ UNCHANGED <<kills, routerUp, inferVars, evalUp, tried, monVars, sup>>

-----------------------------------------------------------------------------
(* The monitor: three reads at three moments, then one file.               *)

MonReadsSummary ==
    /\ mon = "summary"
    /\ snap' = [NoView EXCEPT !.inf = Cardinality(summary)]
    /\ mon' = "status"
    /\ UNCHANGED <<kills, routerUp, inferVars, evalVars, monFile, sup>>

\* Mutant: the status file's count is added to the summary's.
MonAddsCounts ==
    /\ mon = "status"
    /\ snap' = IF posted THEN [snap EXCEPT !.inf = @ + Cardinality(announced), !.total = N]
               ELSE snap
    /\ mon' = "reports"
    /\ UNCHANGED <<kills, routerUp, inferVars, evalVars, monFile, sup>>

\* Mutant: the summary's count is kept.
MonKeepsSummaryCount ==
    /\ mon = "status"
    /\ snap' = IF posted THEN [snap EXCEPT !.total = N] ELSE snap
    /\ mon' = "reports"
    /\ UNCHANGED <<kills, routerUp, inferVars, evalVars, monFile, sup>>

\* The status file's count replaces the summary's.
MonReadsStatus ==
    /\ mon = "status"
    /\ snap' = IF posted THEN [snap EXCEPT !.inf = Cardinality(announced), !.total = N]
               ELSE snap
    /\ mon' = "reports"
    /\ UNCHANGED <<kills, routerUp, inferVars, evalVars, monFile, sup>>

\* Mutant: the reports are not counted.
MonitorDoneWithoutReports(s) == summary # {} /\ s.inf >= s.total

\* The field "done": the summary file exists, and both counts are reached.
MonitorDone(s) ==
    /\ summary # {}
    /\ s.inf >= s.total
    /\ Cardinality(reports) >= s.total

MonCountsReports ==
    /\ mon = "reports"
    /\ snap' = [snap EXCEPT !.done = MonitorDone(snap)]
    /\ mon' = "write"
    /\ UNCHANGED <<kills, routerUp, inferVars, evalVars, monFile, sup>>

\* The monitor ends once it has written done = true.
MonWrites ==
    /\ mon = "write"
    /\ monFile' = snap
    /\ mon' = IF snap.done THEN "off" ELSE "summary"
    /\ UNCHANGED <<kills, routerUp, inferVars, evalVars, snap, sup>>

MonKilled ==
    /\ mon # "off"
    /\ Lose
    /\ mon' = "off"
    /\ UNCHANGED <<routerUp, inferVars, evalVars, snap, monFile, sup>>

-----------------------------------------------------------------------------
(* The supervisor's loop.                                                  *)

EnsureRouter ==
    /\ sup = "router"
    /\ routerUp' = TRUE
    /\ sup' = "eval"
    /\ UNCHANGED <<kills, inferVars, evalVars, monVars>>

\* Mutant: the worker is restarted without --retry-missing-report.
TakenOverWithoutRetry == {tried["supervised"]}

\* A worker booting with --retry-missing-report takes over, from the status
\* file, only instances whose report exists.
TakenOver == SUBSET reports

EnsureEval ==
    /\ sup = "eval"
    /\ sup' = "monitor"
    /\ \/ "supervised" \in evalUp /\ UNCHANGED <<evalUp, tried>>
       \/ /\ "supervised" \notin evalUp
          /\ evalUp' = evalUp \cup {"supervised"}
          /\ \E s \in TakenOver : tried' = [tried EXCEPT !["supervised"] = s]
    /\ UNCHANGED <<kills, routerUp, inferVars, reports, strays, monVars>>

\* ensure_monitor, and ensure_progress, whose session only reads the run
\* directory: no process waits for it.
EnsureMonitor ==
    /\ sup = "monitor"
    /\ sup' = "check"
    /\ mon' = IF mon = "off" THEN "summary" ELSE mon
    /\ UNCHANGED <<kills, routerUp, inferVars, evalVars, snap, monFile>>

\* read_json(monitor_status.json): a read during the monitor's write may find
\* the file truncated, and then the defaults apply.
Views == {monFile} \cup (IF mon = "write" THEN {NoView} ELSE {})

\* monitor_done: the file says so and the reports are counted again.
SeesDone(v) == v.done /\ Cardinality(reports) >= v.total

SupervisorExits ==
    /\ sup = "check"
    /\ \E v \in Views : SeesDone(v)
    /\ sup' = "exited"
    /\ UNCHANGED <<kills, routerUp, inferVars, evalVars, monVars>>

SupervisorGoesOn ==
    /\ sup = "check"
    /\ \E v \in Views : ~ SeesDone(v)
    /\ sup' = "infer"
    /\ UNCHANGED <<kills, routerUp, inferVars, evalVars, monVars>>

\* Mutant: off by one.
InferenceAlmostComplete(v) == v.inf >= v.total - 1

\* ensure_router_worker
InferenceComplete(v) == v.inf >= v.total

EnsureInference ==
    /\ sup = "infer"
    /\ sup' = "router"
    /\ \/ infer # "off" /\ UNCHANGED <<infer, byPipeline>>
       \/ /\ infer = "off"
          /\ \E v \in Views :
                IF InferenceComplete(v) THEN UNCHANGED <<infer, byPipeline>>
                ELSE infer' = "boot" /\ byPipeline' = FALSE
    /\ UNCHANGED <<kills, routerUp, summary, posted, announced, evalVars, monVars>>

\* The supervisor is killed, or a command it checks fails (start-prod.sh,
\* tmux new-session) and the exception ends it.
SupervisorLost ==
    /\ SupervisorDies
    /\ sup \notin {"exited", "down"}
    /\ Lose
    /\ sup' = "down"
    /\ UNCHANGED <<routerUp, inferVars, evalVars, monVars>>

-----------------------------------------------------------------------------
RunnerStep == RunnerBoots \/ RunnerPosts \/ RunnerEnds \/ RunnerFails \/ PipelineEnds
MonitorStep == MonReadsSummary \/ MonReadsStatus \/ MonCountsReports \/ MonWrites
SupervisorStep ==
    \/ EnsureRouter \/ EnsureEval \/ EnsureMonitor
    \/ SupervisorExits \/ SupervisorGoesOn \/ EnsureInference
WorkerStep(w) ==
    \/ WorkerExits(w)
    \/ \E i \in Instances : WorkerReports(w, i) \/ WorkerFindsNoReport(w, i)

Next ==
    \/ RunnerStep \/ \E i \in Instances : RunnerPublishes(i)
    \/ \E w \in EvalWorkers : WorkerStep(w)
    \/ \E i \in Instances : StrayEnds(i)
    \/ MonitorStep
    \/ SupervisorStep
    \/ RunnerKilled \/ RouterLost \/ MonKilled \/ SupervisorLost
    \/ \E w \in EvalWorkers : WorkerKilled(w)

Spec == Init /\ [][Next]_vars

\* Every process that is up keeps running.  An instance that is tried again
\* and again is published at last, and its evaluation gives a report at
\* last; the supervisor does not read monitor_status.json in the middle of a
\* write every single time.
FairSpec ==
    /\ Spec
    /\ WF_vars(RunnerStep) /\ WF_vars(MonitorStep) /\ WF_vars(SupervisorStep)
    /\ \A w \in EvalWorkers : WF_vars(WorkerStep(w))
    /\ \A i \in Instances :
          /\ SF_vars(RunnerPublishes(i))
          /\ SF_vars(WorkerReports("supervised", i))
    /\ SF_vars(SupervisorExits)

-----------------------------------------------------------------------------
(* Properties.                                                             *)

Complete == summary = Instances /\ reports = Instances

\* monitor_status.json says "done" only of a complete run, although its
\* three inputs are read at three moments and fall back to defaults.
MonitorDoneSound == monFile.done => Complete

\* The supervisor leaves only when nothing is left to supervise: every row
\* is published and announced, and every instance has its report.
SupervisorLeavesCompleteRun ==
    sup = "exited" => Complete /\ announced = Instances

\* While rows are missing, a router session that has gone comes back: no
\* stale or truncated monitor_status.json makes the supervisor leave the
\* runner dead.
RunnerIsRestarted ==
    infer = "off" /\ summary # Instances ~> infer # "off"

\* The run completes and the supervisor notices, whatever is killed between
\* any two writes (the last row's status included), and however often a
\* runner or an evaluation fails.
RunCompletes == <>(sup = "exited")

\* The supervisor's own session is kept alive too.
SupervisorIsKeptAlive == sup = "down" ~> sup # "down"
=============================================================================
