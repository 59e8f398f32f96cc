# TLA+ models of SWE-EVO

This directory specifies the parts of the repository that carry logic of their own:
the *official48 run*, in which a batch of benchmark instances is solved by a CLI
agent, evaluated incrementally, monitored, supervised, recorded and shown; and, of
the three projects it carries along and runs, what decides whether their results
can be trusted: SWE-bench's harness, SWE-agent's attempts and batches, and
OpenHands' event stream, controller, conversations, shells, the servers and containers
of its runtimes, and the servers of its enterprise edition.

    tlc -config InferenceResume.cfg Inference        # model-check one run
    tlapm InferenceProofs.tla                        # check the proofs

## 1. The system

### The official48 run

All programs of a run are separate processes; they share one run directory
`official48_runs/<run_id>` and the report tree `logs/run_evaluation`, and they
communicate through files only.

| Component | Source | State it keeps | Operations |
|---|---|---|---|
| Inference runner | `run_innercc_infer_official48.py` | in memory under `state_lock`: completed, failed, active ids, predictions, rows; on disk: `preds.json`, `inference_summary.json`, `inference_status.json`, `runs/<id>/`, `workspaces/<id>/` | boot or `--resume`, start an instance, its stages, collect a result or an exception, write the three files |
| CLI runner | `custom_cli_case/run_custom_cli_case.py` | the CLI process, the workspace it edits | `run_cli` with its timeout, `write_patch_outputs` |
| Evaluation worker | `run_official48_eval_worker.py` | `active`, `completed`; `eval_worker_status.json`; links under `evaluation/` | boot from the status file, poll, reap, launch, persist, finish |
| Evaluator | `SWE-bench/evaluate_instance.py`, `swebench/harness/run_evaluation.py` | `report.json` of an instance | look the prediction up, run the tests (at most 1800 s), write the report |
| Monitor | `monitor_official48_run.py` | `monitor_status.json` | read summary, status and reports, write, end when done |
| Supervisor | `watch_official48_supervisor.py` | nothing but its position in the loop | `ensure_llm_router`, `ensure_eval`, `ensure_monitor`, `ensure_progress`, `monitor_done`, `ensure_router_worker` |
| Pipeline script | `run_official48_pipeline.sh` | the pid of its own evaluation worker | start the worker, run inference, wait, kill the worker on exit |
| Progress recorder | `record_official48_progress.py` | `progress_state.json`, `progress.md` | snapshot, delta, append |
| Run summary | `summarize_official48_run.py` | `analysis/summary.json` | classify the cases, aggregate |
| Dashboard | `lib/dashboard-data.js`, `app/api` | trace cache, refresh promises, `metadata.json` | overview, summary refresh, rename, delete, trace view |
| Legacy programs | `run_innercc_batch.py`, `serve_official48_dashboard.py` | `output_final`, its copy below the root of the batch, `batch_summary.json` | repair instances, run the cases in sequence; Python dashboard |
| LLM router | external | sessions, runs, notes | must be up for inference |

Who talks to whom:

    pipeline --starts--> eval worker (1), runner          supervisor --starts--> eval worker (2), monitor, runner --resume
    runner --preds, summary, status--> eval workers --reports--> monitor --monitor_status--> supervisor
                                  \_________summary, status________/

### The projects it carries

| Component | Source | State it keeps | Operations |
|---|---|---|---|
| SWE-bench harness | `SWE-bench/swebench/harness` | images and containers of a docker daemon; `report.json`, `test_output.txt` per run id | evaluate in a pool, time out, grade, report, clean up, build images in three layers |
| SWE-bench collection | `SWE-bench/swebench/collect` | the list of pull requests, the instances, those with tests | list, build, continue where it left off |
| SWE-agent | `SWE-agent/sweagent/agent`, `run` | an attempt's cost, requeries, trajectory; attempts and reviews; `.traj` and `.pred` files | step, requery, autosubmit, retry, choose, run a batch, skip, merge |
| OpenHands event stream | `OpenHands/openhands/events` | event files and pages, the queue, a pool per callback | add, page, dispatch, subscribe, leave, restart |
| OpenHands controller | `OpenHands/openhands/controller` | agent state, pending action, delegate | handle an event, step, confirm, stop, delegate, hand over |
| OpenHands context | `OpenHands/openhands/memory` | the history, and condensation events in it | view, truncate, summarise |
| OpenHands conversations | `OpenHands/openhands/server` | agent loops, connections, shared conversation objects | join, start, evict, stop, close, attach, detach, clean up |
| OpenHands webhook store | `OpenHands/openhands/storage/batched_web_hook.py` | the batch, its size, its timer | write, delete, flush, fire, send, retry |
| OpenHands shells | `OpenHands/openhands/runtime/utils/bash.py`, `windows_bash.py` | a tmux pane and what was seen of it; the active PowerShell job and what was returned of it | send, wait, time out, refuse, send input, interrupt |
| OpenHands runtimes | `OpenHands/openhands/runtime/impl/local`, `docker`, `remote` | servers running and warm, temporary directories; containers, ports and their lock files | take a server, warm one, close, delete; lock a port, start, attach, pause, stop |
| OpenHands cluster | `OpenHands/enterprise` | keys in Redis, loops of each server; tokens of users; remote runtimes; the workflows of a commit | take over, renew, expire, close elsewhere; refresh a token; start a conversation in a runtime of its own; comment on failing workflows |

The runner starts none of these in its own process: it runs them as programs, and
`EvalWorker` has the evaluator as the worker sees it. Inside each project the parts
interact by calls, callbacks, locks, files and (in the cluster) messages; the
modules below say which.

### What makes it hard

* **Crashes between writes.** Nothing but the files survives a process. The
  runner replaces three files one after the other and may die between any two
  of them; the worker and the monitor write theirs *in place*, so a crash or a
  reader can see them truncated.
* **Several readers, several reads.** Worker and monitor read summary and
  status at different moments while the runner goes on, and fall back to
  defaults (the number of rows, 48) for what is missing.
* **Survivors.** The CLI runs in a session of its own
  (`start_new_session=True`) and evaluators are plain child processes: both
  outlive the process that started them, while its successor starts again.
* **Two evaluation workers.** In the documented deployment the pipeline and the
  supervisor each start one, on the same status file.
* **Threads.** Pool threads announce themselves (`mark_active`) through the
  same status file that the collector writes.
* **Retries.** A resume must neither redo nor withdraw what is published;
  workspaces are reused; a missing report is retried, an existing one is not.
* **Leaving at the right moment.** Four programs decide independently, from
  stale views, that they are finished.

What makes each component correct: the *runner* publishes a row only with all
it refers to, never takes one back, and its status accounts for every instance;
the *worker* evaluates every row once it is published, judges the published
prediction, and says done only for everything; the *monitor* says done only of a
complete run; the *supervisor* brings the runner back while rows are missing
and leaves when, and only when, the run is complete.

In the projects: *threads and a queue between them* (event stream, pools of the
harness and of SWE-agent's batch); *coroutines that lose the processor at each await*
(conversations, controller, cluster); *a screen that is read from outside* (the
shell); *whatever fails on the way* (containers, builds, models, clients); *kills
between two files* (trajectory and prediction, report); *servers that die* (cluster).

`PROJECT.json` lists the hazards line by line with the properties that cover
them; where it says that the code loses a property, section 7 tells how.

## 2. The modules

### `PublishedRun` — the promise of the inference side

What the readers rely on: a status file exists before the first row; a row
appears only for a prediction in `preds.json`; rows and their predictions are
final; a posted status counts exactly the rows of that moment. `Predict`,
`Publish` and `Announce` are the three file writes of `run_batch`.

### `Inference` — the runner, implementing that promise

| Model | Code |
|---|---|
| `proc`, `starts`, `force` | the process, how often it was started, `args.force_workspace` |
| `main` | the main thread: `"collect"` in `as_completed`, otherwise the file it writes next while it holds `state_lock` |
| `phase[i]` | where `process_instance(i)` is: queued, workspace, router wait, CLI, diff, bundle export, returned or raised |
| `completed failed active allPreds rows` | `completed_ids failed_ids active_ids all_preds summary_by_id` |
| `preds summary status` | the three output files |
| `runPreds bundles ws` | `runs/<i>/preds.json`, `runs/<i>/router_trace_bundle.json`, `workspaces/<i>` |
| `orphans` | CLI sessions whose runner was killed |

`Start` is the boot up to the submission of the pending instances: it takes over
what `load_resume_state` finds, and the first three writes are the same
`WritePreds`, `WriteSummary`, `WriteStatus` that follow every success.
`StartInstance` is `mark_active` under the lock. One action per stage of
`process_instance` follows, with `Raise` for everything that can fail there;
`CollectOk` and `CollectFailure` are the two branches of the `as_completed`
loop. `Crash("process")` leaves CLI sessions behind, `Crash("host")` does not.

Abstractions: a prediction is a model value (`EmptyPatch` is the empty diff); a
workspace is the revision it stands on (none, empty `git init`, the cache's
head, the base commit) and its diff; at most one orphan per instance is tracked;
the router's notes, which nothing reads back, are left out. The JSON files the
runner writes are replaced atomically (`os.replace`), so they are never torn.

### `EvalWorker` — the evaluation workers, over the promise

It EXTENDS `PublishedRun`, whose actions are the worker's environment; because
`Inference` implements `PublishedRun`, what holds here holds with the real
runner. Per worker: `pc` (its place in the polling loop), `seen` (what it read
this round), `entries` (the dict `completed`), `running` and `ended` (`active`,
split by whether the evaluator has exited), `payload` (the status read back at
the end). Shared: `file` (`eval_worker_status.json`: absent, torn, or parseable
with entries and `done`), `reports`, `links`, `strays`. The in-place
`write_json` is two actions, `PersistOpen` and `PersistWrite`, and likewise
`FinishOpen` and `FinishWrite`. The evaluator is `Judge`: it may end without a
report, never replaces an existing one, and takes its prediction from
`preds.json`. `evaluation/` links and the retry rule of the boot
(`EntriesFromDisk`) are modelled as the code does them.

A worker that dies of an uncaught exception (a symlink made by the other worker
between its check and its own call) is covered by `Crash`.

### `Supervision` — supervisor, monitor and pipeline

It uses coarse views of the two workers: the runner publishes a row and then
posts a status (two steps, a kill may come between), an evaluation worker tries
a row and gets a report or none, its evaluators outlive it. The monitor's
round is four actions, `MonReadsSummary`, `MonReadsStatus`, `MonCountsReports`,
`MonWrites`; the supervisor's loop is one action per `ensure_*` call, in order.
`Views` is what `read_json` may return: the file, or the defaults while the
monitor is writing it. `SessionEnds` carries the pipeline's EXIT trap, and
`RunnerKilled` is with and without the trap running. `DefaultTotal` stands for
the 48 in the code. The progress session has no variable: it reads only.

### What watches a run

* `Recorder` — a recorder takes a snapshot from three files at three moments, two of
  which others write in place; it appends an entry to `progress.md` and saves its
  state in two steps, and may be restarted anywhere.
* `Dashboard` — requests of the dashboard's server (`ensureSummary`,
  `buildRunOverview`, `deleteRun`) beside runner, worker and monitor; times of files
  are abstracted to what is newer than the summary by more than the 500 ms slack.
* `LegacyBatch` — `run_innercc_batch.py`: a fresh root, the repair of instances whose
  patches or lists of tests are missing, the cases one after the other, with kills and
  restarts. A case is one step; a test's result is a status in a log.
* `DashboardPage` — the React page: what is selected, which calls are under way, and
  what their answers do when they come late or not at all.

### SWE-bench and SWE-agent

* `Harness` — processes of `run_evaluation` on one docker daemon: pool, container,
  patch, tests, timeout, grading, removal of images by cache level, and the report of
  the run. A process may be killed and started again with other predictions.
* `Grading` — `get_eval_tests_report` and `get_resolution_status` over every table of
  test results; there is one step, to any other table.
* `ImageBuild` — `build_base_images`, `build_env_images`, `build_instance_images`, with
  failing builds and forced rebuilds.
* `Collect` — the list of pull requests and the two files of instances that are built
  from it, line by line, with kills in the middle of a line.
* `SweAgent` — one attempt of `DefaultAgent`: requeries by kind of error, timeouts,
  cost and time limits, and what autosubmission finds in a container, alive or dead.
* `SweRetry` — `RetryAgent` with both retry loops, in which an attempt is its costs
  and its `info`.
* `SweBatch` — `run_batch` with its pool, kills and a next run on the same directory.

### OpenHands

* `EventStream` — threads add events (id, file, page, queue), one thread hands them to
  a pool per callback; callbacks come and go, the process dies and starts.
* `AgentController` — one controller, its runtime and memory: the events they exchange
  in the order of the stream, steps, confirmation, stops, failures.
* `Delegation` — a controller whose agent delegates, and who gets which event.
* `Condensing` — a history, its view, and the two condensers of the default pipeline.
  Events are ids with a kind, the response and call they belong to, and what they
  forget; the wording of messages is left out.
* `ConversationManager` — the coroutines that join, start, evict, close and clean up
  agent loops; a step is what runs between two awaits.
* `Attachments` — the conversation objects that requests share by a reference count.
* `BashSession` — a shell in a tmux pane, the keys on their way to it, and the calls
  that read the pane.
* `ClusteredManager` — one conversation on several servers: its key in Redis and the
  renewal of it, the messages they publish, their coroutines, and their deaths.
* `TokenStore` — a row of tokens, its lock, and a provider that accepts a refresh
  token once.
* `WebHook` — writers, the timer thread and the executor at the lock of a batch of
  updates; a content is the number of its write and a size.
* `PowerShellSession` — the Windows shell: PowerShell jobs that run on when the call that
  started them times out, the later calls that follow, interrupt or replace them.
* `NestedRuntimes` — a conversation in a remote runtime of its own: the key that marks its
  start, requests that read key and runtime one after the other, the client of the
  runtime service that waits, resumes and fails.
* `LocalServers` — runtimes on the local machine, which share the tables of running and
  warm servers with threads that start them and with deletions.
* `DockerStarts` — runtimes of several processes that look for a port, lock it by a file
  and start a container; `Fcntl` chooses between the two kinds of lock in `port_lock.py`.
* `Proactive` — the webhooks of a commit's workflows, which servers collect in a row of
  the database until the last one comments.

Redis, the runtime service, PowerShell, docker, GitHub, the identity provider and the death of
a server are external: the code's calls say what they may do.

### Modules that compose

The components of one family share no state, so their product would only multiply
states. `MCBatch`, `MCOpenHands` and `MCLive` instantiate them side by side: a
behaviour picks a `part` in its initial state, takes the steps of that instance, and
leaves the others where they start. One module may be there twice with other
constants (`Graded`, `Shared`, `Forced` are all `Harness`). A property of such a run
says of each part what that part promises; fairness is that of the part's actions,
written `WF_partVars(part = "x" /\ Inst!Action)`. Real composition, where parts do
share state, is inside the modules: `EvalWorker` over `PublishedRun`, which
`Inference` implements; `Supervision`; `Dashboard` and `Recorder` beside the writers
of what they read; `AgentController` with runtime and memory.

### Proof modules

`InferenceProofs`, `EvalProofs` and `SupervisionProofs` extend their component.
`AttemptProofs` and `BatchProofs` extend `MCBatch`, and `SharedProofs`, `SessionProofs` and
`AgentProofs` extend `MCOpenHands`: their theorems are about the very formulas those runs
check, for every value of the runs' constants, and so about each component with any
constants. A part's operators are reached through its instance (`Controls(h)!Next`,
`Docker!Next`); a part that is instanced several times with other constants has one proof,
for a parameter `h` (`ManagerInv(h)`, `StreamInv(h)`, `HarnessInv(h)`).

## 3. The runs

| Run | Instance | What it shows |
|---|---|---|
| `inference_resume` | 2 instances, 2 threads, 3 starts, process and host crashes | rows stay backed, final and announced in order; exits account for all; refinement of `PublishedRun` |
| `inference_pool` | 3 instances, 2 threads, one start | no active instance is lost from the status; the batch ends |
| `inference_force` | 2 instances, 3 starts, host crashes, `--force-workspace` always | a CLI starts in a clean base checkout |
| `inference_reuse` | 2 instances, 2 starts, no crashes, resumed without `--force-workspace` | **violated**, see 6 |
| `eval_restart` | 2 instances, 1 worker started up to 2 times, 1 slot, fair | done means all, reports match, entries are truthful; published rows get evaluated, the worker ends |
| `eval_two` | 2 workers, 1 slot each | **violated**, see 6 |
| `supervision_kills` | 2 instances, 1 loss anywhere, the supervisor's included | done and the supervisor's exit are sound |
| `supervision_live` | 1 instance, 2 losses, fair | the runner comes back, the run completes |
| `supervision_self` | 1 instance, the supervisor may die | **violated**, see 6 |
| `batch_parts` | the instances of `MCBatch`: 16 parts | recorder, dashboard and page are faithful; attempts, retries, batches, grades, images, repaired and collected instances keep their promises |
| `openhands_parts` | the instances of `MCOpenHands`: 27 parts | the same for the parts of OpenHands |
| `parts_live` | the instances of `MCLive`: 12 parts, fair | what happened arrives; what is at work ends |

The violated runs are explained in section 6. The properties of the three runs with
parts, several of which hold under conditions that follow the table:

| Property | Says |
|---|---|
| `WatchersFaithful` | `progress.md` skips no progress across restarts and torn files; the page keeps a trace under its own key only |
| `SummaryKept` | overlapping refreshes lose no row of the summary; a run that had shown progress when a `DELETE` arrived is not removed before it is finished |
| `PatchOfTheLiving` | whatever ended an attempt, a container that lives has its tree submitted when its diff could be taken, and what its last state command saw when `git add` failed; nothing is submitted where `git diff` failed or the patch could not be read |
| `AttemptChosen` | an attempt that starts with some of the budget left exceeds it by its last query at most, and none starts without when a minimum is asked for; the accepted attempt is returned; the chooser prefers a submitted one |
| `PredictionMatches` | a prediction is that of the trajectory beside it, across kills; a legacy case has its lists of tests, and its batch counts what it left; collected instances are those of the list, in order, but for two a kill |
| `VerdictsEarned` | resolved means a complete output of a passing patch; a timeout has no verdict; images there before stay |
| `ImagesStand` | built means built on an environment that was; forced means fresh; nothing is left behind |
| `ResolvedHasNoFailure` | a resolved instance has no required test that failed; by repaired lists the gold patch is resolved and the tests alone are not |
| `StreamKept` | what a callback acted on is stored; pages agree with files; one order for all; an update of a file is on its way to the webhook until it has arrived or its batch was given up |
| `CallsAccounted` | the model sees no call without an observation, but for calls a message of the user replaced and failures still to be handled; what it no longer sees is summarised or was cut; only confirmed actions run |
| `EachAnsweredOnce` | no delegation is answered twice; one is left unanswered only if the first controller delegated again with a result still to be handled |
| `SessionsKept` | (conditions below) no open session is lost, a closed one keeps nothing, the limit holds; a nested conversation is started once, when it does not run, and marked only while it is started |
| `UsedIsOpen` | what a request uses is not disconnected under it; a local server works for one session, and (conditions below) is in the table while that is open and does not outlive it |
| `OutputOnce`, `SentToShell` | (conditions below) the result is that of the command sent last, lines are shown once, and commands go to the prompt; PowerShell jobs are followed in their order, their end is told, and none is left behind |
| `SharedOnce` | (conditions below) at most one server runs a conversation, and holds its key; a refresh token is presented again only when its answer was lost; no two containers have a port; webhooks that meet lose nothing and lead to one comment |
| `EventsArrive` | a finished batch is recorded, queued events reach every callback, an ended delegate hands over, a command that is over is noticed (by a screen read after the shell reacted), the page shows what is selected |
| `WorkEnds` | agents, closes, batches, attempts, harness processes and requests end; a client whose server died is served again or disconnected |

**Under which conditions.** The code keeps some promises only where something outside it,
or an option, is as an instance says. Without the condition the definition is violated, and
section 7 says by what.

* `SummaryKept`: a run that has shown no progress may be deleted while it works.
* `AttemptChosen`: with the default minimum budget of 0, an attempt may start when exactly
  the limit is spent, and then has no limit at all. The property claims nothing of it.
* `CallsAccounted`: `EveryCallAnswered` is for a patient user, who writes and resumes only
  while nothing is pending and pauses no confirmation away (`free`, `confirmed`). For one who does
  so at any time (`hasty_free`, `hasty_confirmed`) `AnsweredUnlessReplaced` is what is left.
* `SessionsKept`: a start lasts no longer than closing waits for it (`StartLasts = 0` in
  `served`, `again`), and there is room for the loops of all conversations, or one
  conversation; the limit is kept by requests one after another (`limited`). Requests for a
  nested conversation do not overlap between what they read and their mark, and a start
  does not outlast its key (`Overlap`, `Slow`).
* `UsedIsOpen`: the table and the end of a local server are for runtimes that are not
  attached, connect one after another and can remove their directories (`local`); that no
  two sessions share a server holds without (`attaching`).
* `OutputOnce`, `SentToShell`: programs are sent no input, the shell reacts before the screen
  is read, and nothing scrolls off (`Inputs = FALSE`, `Eager = TRUE`, `History = 16`).
  `execute` does read the screen right after it sends keys. On Windows lines may be
  shown twice, and nothing is claimed of them.
* `SharedOnce`: no server stalls for longer than its key lasts. Lock files are those created
  exclusively (`Fcntl = FALSE`): on Linux the code uses `flock`, and there two
  containers may choose one port. Of the webhooks of a commit, one is stored before the next
  looks (`Overlap = FALSE`), and one comment is made unless the row is cleaned in between.
* `EventsArrive`: that a command which is over is noticed needs a shell that reacts before the
  screen is read. Input and scrolling may happen there.

**Bounds.** `MaxStarts`, `MaxBoots` and `MaxKills` are the only bounds on
behaviour; everything else is finite. Two instances are the fewest for which the
status, the summary and the reports can be partly complete, and for which two
threads or two rows compete for one slot or lock; three instances with two
threads give a queue that is longer than the pool. Three starts
give a crash of a run that was itself resumed. Three predictions (one empty) let
an edit by an orphan differ from the session's own. `DefaultTotal = 4` is
larger than the number of instances, as 48 is for a run of a subset. One
instance in the two fair supervision runs keeps the liveness check small enough
for two losses; the safety run over the same actions has two. The theorems of
section 5 have no bounds. Deadlock is not checked where the model really stops:
when the starts are used up or the supervisor and all workers have ended. No
symmetry is used: instances are ordered, and several runs check liveness.

In the parts, two actors are enough for every overlap (two producers, requests,
servers, processes of the harness; three requests in `Attachments`, where one parks
what two use); one or two kills, so that a restart meets what a restart left; a page
of two events, so that three fill it; a history of 20 events, which passes two
summaries and two truncations; a pane of 3 prompts, which scrolls, and one of 16, which
does not. `parts_live` has the same parts, smaller, because liveness needs the whole
graph: what is rare there is in the runs without fairness.

## 4. Fairness

* `Inference!FairSpec`: weak fairness of the main thread and of each pool
  thread. Every wait in `process_instance` has a timeout (router 120 s, export
  120 s, CLI 5400 s and then a kill), so each stage ends; nothing is assumed of
  crashes, restarts, edits or orphans.
* `EvalWorker!FairSpec`: weak fairness of each worker's loop and of each
  evaluator's end (the harness gives the tests 1800 s). Nothing is assumed of
  the inference side: it may stop before its last announcement.
* `Supervision!FairSpec`: weak fairness of every process that is up, and strong
  fairness of three outcomes that retries alone cannot force: an instance that
  is tried again and again is published at last; an evaluation that is retried
  gives a report at last (without this the supervisor waits for ever, by
  design); the supervisor's check does not fall into the monitor's write every
  single time.

* `MCLive!FairSpec`: weak fairness of each thread, callback pool, coroutine and
  process of the part that runs, on its own action. Strong fairness in two places: the
  page's timer, whose refresh another call may hold off (it fires every few seconds for
  ever), and the lock of `Attachments`, an `asyncio.Lock`, which is handed out in the
  order of the waiters. Nothing is assumed of users, models (any answer), kills, or
  lost answers; a model call and a command come back because they have timeouts. Keys
  in Redis that are not renewed expire.

Liveness: `BatchTerminates`, `RowsGetEvaluated`, `WorkerEnds`,
`RunnerIsRestarted`, `RunCompletes`, `EventsArrive`, `WorkEnds`. Note what `WorkerEnds` says: the worker
ends even if the runner dies between its last row and the status that says
done, because `len(inference_rows) >= total_instances` also counts.

## 5. What is proved

Every theorem holds for all values of the constants under the named
assumptions of the modules (finite non-empty instances; a positive pool size
and number of slots; `NoPatch` is not a patch). All of them have the form
`Init => IInv`, `IInv /\ [Next]_vars => IInv'`, `IInv => P`.

**Runner** (`InferenceProofs`): `TypeOK`, `RowsBacked`, `StatusNotAhead`,
`PoolIsVisible`, `ExitAccounts`, the action property `RowsFinal`, and the
refinement `Spec => Published!PubSpec`. None of them is inductive alone, since
each relates files that are written at different moments. `IInv` adds:

* `Quiet`: outside a running process there is no thread and no held lock;
* `MemoryAhead`: the summary lags behind the rows in memory by at most the row
  being written, and `preds.json` by that row's entry, depending on the position
  of `main`;
* `RowsHaveArtefacts`: every row in memory has its run prediction and bundle, and
  its instance is out of the pool for good;
* `ThreadProgress`: a thread past a stage has produced that stage's artefact;
* `StatusTracks`: the status never counts more than the summary, and equals the
  memory whenever the lock is free;
* `SetsTrackPhases`: `active`, `completed` and `failed` against the stages of the
  threads.

`CliStartsAtBase` holds only for one setting of the options, and is proved under
the assumption that names it (`Forced`): `WorkspaceFresh` says how far a workspace
is prepared at each stage before the CLI.

`RowsFinal` and the refinement follow from `IInv` step by step: only `WritePreds`
can change a prediction, and `MemoryAhead` says that it changes none with a row.

**Worker** (`EvalProofs`): `EvalTypeOK`, `ReportsMatch` and `EntriesTruthful` for
any number of workers, from `SharedInv`: the inference side's guarantees
(`PubInv`); whatever a worker has seen, runs, or holds as an entry is a published
row (`OnlyPublished`); entries in memory tell the truth about the reports
(`MemoryTruthful`). `EvalDoneMeansAll` is proved for one worker (`OneWorker`),
from `SingleInv`, which adds that a worker that saw rows sees the total in the
same round, because the summary is read before the status (`SeenConsistent`), and
that a worker about to set `done` has an entry for every instance and, being
alone, finds its own entries in the file (`FinishJustified`).

**Supervision** (`SupervisionProofs`): `SupervisionTypeOK`, `MonitorDoneSound`
and `SupervisorLeavesCompleteRun`, from `SInv`: the files stay in order, with
announcements, reports and tried rows among the published rows and a status from
before the first row (`FilesInv`); the monitor's count never exceeds what is
announced once its total is the real one, and the default total goes with a count
of zero (`CountsInv`); whoever says done, the monitor's round, its file or the
supervisor that left, is right (`DoneInv`).

**Around the run** (`BatchProofs`): `WatchersFaithful`, `SummaryKept`, `VerdictsEarned`,
`ImagesStand` and `ResolvedHasNoFailure`.

* `RecorderInv`: what the state file, the last entry and the recorder's memory count has
  been told, and a recorder that remembers nothing has no state file to forget; `PageInv`: a
  trace is cached under the key it was asked with.
* `DashboardInv(asking, most)`: the summary covers no more than any script at work has read, and
  that no more than the file has (`SummaryFollows`); a deletion that met progress goes on to
  remove files only when the run is finished (`ProgressShielded`).
* `HarnessInv(h)`: an instance in evaluation has no report, what is graded did not time out,
  and a report's verdict is that of the output beside it (`Settling`); a container is one
  that tests run in or that is about to be removed (`Holding`). `LeftInv` adds what a
  process alone leaves behind, `OwnInv` which images were there when it started.
* `ImageInv`: environments are built once in a pool (`PoolsOnce`) and a built instance stands
  on one of them (`Standing`), a fresh one if forced (`Forcing`). `GradeInv` and `RepairInv`
  say what the required lists of tests are made of.

**Attempts and batches** (`AttemptProofs`): `PatchOfTheLiving`, `AttemptChosen` and
`PredictionMatches`.

* `AgentInv`: the state command leaves the same in the patch file and in the state file
  (`Boxes`), so whatever an end finds in the file is what the last state command saw, the
  tree, or nothing (`Autosubmitted`).
* `RetryInv`: an attempt that starts with something left is given what is left as its limit, or
  its own smaller one, and its queries but for the last stay below it (`InBudget`); an attempt
  that is chosen is the best, or one that submitted. Without a minimum budget, the default,
  an attempt may start with nothing left, and then has no limit at all (section 7).
* `BatchInv`: per instance, how trajectory and prediction go with the phase in which a kill
  may strike; `LegacyInv`: what is left, listed and counted; `CollectInv`: the lists on disk
  are prefixes of the lists to be built, but for what a kill cut off (`LossCounted`).

**OpenHands, between processes** (`SharedProofs`): `SharedOnce` and `UsedIsOpen`.

* `ClusterInv`: who has the loop, starts it or has taken it from the table to delete its key
  is alone, and the key is there (`OneClaim`). `TokenInv`: the request that refreshes has the
  row locked (`RefreshIsLocked`), and a token in the row was presented only if its answer was
  lost or is awaited (`PresentedOnce`).
* `DockerInv`: one runtime keeps a port, and where each stands between choosing, locking,
  checking and starting goes with lock and container (`DockerStanding`).
* `HookInv`: one handler at a time has read what it will store (`OneHandles`); rows, and what
  that handler read, say nothing that is not so, and tell every handled workflow's end
  (`RowsTell`, `ReadTells`).
* `AttachInv`: the reference count is the number of requests that hold the object, and the
  tables have what somebody uses. `LocalInv` and `KeptInv`: warm servers and sessions are
  apart, and a held server is listed.

**OpenHands, on one server** (`SessionProofs`): `SessionsKept`, from `ManagerInv(h)` (which
coroutine may still open, close or drop which session), `LimitInv` (those who clean up close
an old loop before a new one starts) and `NestedInv` (one request decides, one starts, and what
it starts is marked meanwhile). `HookInv` of the webhook is used by `StreamKept`: the latest
write of a path is on its way in exactly one batch or was given up with it.
`RoomAssumption` is used where sessions are counted: it says that there is room for a loop of
every conversation, because requests that evict at once do lose sessions (section 7).

**OpenHands, agents** (`AgentProofs`): `EachAnsweredOnce`, the action property `SentToShell`
and `StreamKept`. `DelegateInv` counts: results handled, results in the stream and the delegate at
work are together at most the delegations (`AnswersCount`). `ShellInv`: while a command runs
the screen does not end with a prompt, and a command runs between calls only after a timeout;
this needs that programs get no input and that the shell reacts before the screen is read
(`Shell`, section 3). `StreamInv(h)`: each id is with one producer until its file is written,
the page is the files after its first (`ListsRight`), what is on its way to a callback is
stored (`LineStored`), and one order of the events is that of the queue and of every callback
(`OneOrder`).
The proof showed that the earlier form of `EachAnsweredOnce` was wrong: several recalls may be
answered while one is pending, so the first controller may delegate twice before it handles the
first result, which is then given to the second delegate. The property now says so.
Assumptions: `InstancesAssumption` of each run's module, which is the conjunction of the
components' own assumptions, and `RoomAssumption`. Nothing else is assumed of the constants:
the bounds on messages, kills, failures and restarts are any natural numbers. What
an instance fixes ("under which conditions" in section 3) is a condition of its theorem too.

The strengthened invariants were model-checked on the instances above before
they were proved.

**Only model-checked**, and why:

* all liveness properties (`BatchTerminates`, `RowsGetEvaluated`, `WorkerEnds`,
  `RunnerIsRestarted`, `RunCompletes`, `EventsArrive`, `WorkEnds`): fairness and ENABLED are
  beyond the proof system;
* `OutputOnce`: that lines are shown once needs a pane that no output fills (`History` at
  least that of all calls together, section 7), and induction over the screen's lines;
* `BatchTypeOK` and `OpenHandsTypeOK`, which join the types of all parts. The part of each
  that matters to a proof is in the `...Shape` of its invariant, and is proved there;
* `CallsAccounted`: that the controller's calls are answered needs an invariant over the
  order of everything in the stream, and `Condensing` one over the positions in a history;
* everything in section 7, which does not hold.

## 6. What the violated runs show

1. `inference_reuse`: `prepare_workspace_ssh` returns at once when the directory
   has a `.git`. After a failed fetch that is an empty `git init` repository;
   after a session whose bundle export timed out it holds the session's edits.
   The supervisor restarts with `--resume` and without `--force-workspace`, so
   the next CLI session starts there, although its prompt promises "a git
   repository checked out to the benchmark base commit". Its `git diff` is then
   empty or contains the earlier session's work.
2. `eval_two`: the evaluation concurrency is a limit per worker process, and the
   documented start (the repository README, 8.3 and 8.4) has two on one run directory. They
   also evaluate the same instance at the same time. With two workers
   `EvalDoneMeansAll` does not hold either: a worker reads the other's entries
   back before it sets `done`. `ReportsMatch` and `EntriesTruthful` survive, and
   are proved for any number of workers.
3. `supervision_self`: the repository README lists the supervisor's own session among those
   that are kept alive; the code never uses `SUPERVISOR_SESSION`.

## 7. What the code does not keep

The modules also state, under that heading or with the doc line they quote, what a
comment or a document says and the code does not do. Each was found violated by TLC;
they are in no run, and can be checked with a configuration of the constants named (two rows
name a change of the formula too).

| Definition | Shown with | What happens |
|---|---|---|
| `Dashboard!SummaryIsLive` | 1 view, N = 1, fair | Reports that appear while the summary script runs, or within 500 ms after it, are never shown if the worker ends before it writes its status again (README.md:766, a live summary) |
| `Dashboard!LiveRunIsKept` | 1 delete, N = 2 | A live run counts as idle, and is deleted, until the monitor's file has a finished instance (README.md:781, only runs that do not run) |
| `Dashboard!DeletedStaysDeleted` | 2 requests, view and delete | A refresh decided on before the deletion creates the directory again (`summarize_official48_run.py:500`; README.md:783) |
| `DashboardPage!TraceShownIsSelected` | 2 cases, 2 calls | A late trace is shown under another case (README.md:767) |
| `Recorder!NothingInvented` | 2 starts, torn files | A restart between append and state tells the same advance again (`record_official48_progress.py:157`) |
| `EventStream!PagesAgree` | 2 producers, 1 crash | A page may be stored before the files of all its events; after a crash an id in it is given again (`stream.py:201`) |
| `EventStream!StayingHear` | 2 callbacks, 1 leaves, fair | A callback that leaves while an event is handed out ends the queue thread (`stream.py:268`) |
| `AgentController!ResumeContinues` | pause and resume, fair | A resumed agent with nothing pending takes no step (`agent_controller.py:90`) |
| `AgentController!EveryCallAnswered` | `Interrupts = TRUE` | A message of the user overwrites the pending action; its call may stay without observation (`agent_controller.py:592`) |
| `AgentController!EveryCallAnswered` | `ConfirmAll = TRUE` with "paused" among `UserChanges` | A pause hides the prompt of a call that waits for its confirmation; the next message of the user takes the call's place, and it has no observation (same line) |
| `AgentController!DeniedIsTrue` | stop while an action runs | "The action has not been executed" of one that is being executed (`agent_controller.py:95`) |
| `Delegation!MessagesHeard` | 2 messages | The message that makes the controller end its delegate is handled by neither (`agent_controller.py:395`) |
| `Delegation!NestedRuns` | `Delegators = {1, 2}`, fair | A delegate's delegate never acts (`agent_controller.py:703`) |
| `Delegation!StoppedIsTrue` | 2 messages | The end of a delegate is published as the agent's being stopped (`schema/agent.py:22`) |
| `Delegation!ResumesOperation` | 2 messages | What the first agent waits for is told to the delegate, and it never goes on (`agent_controller.py:757`) |
| `Condensing!PairsShown` | 2 calls in a response | Truncation may keep the second pair of a response and not the first, and then no message shows it (`conversation_window_condenser.py:28`) |
| `ConversationManager!ClosedIsReleased` | `StartLasts = 1` | The wait for a start compares the wrong way round, and the controller made afterwards is never closed (`agent_session.py:234`) |
| `ConversationManager!WithinLimit` | 3 conversations, 2 requests | Starts that overlap are not counted (`openhands_config.py:114`) |
| `ConversationManager!OpenIsKnown` | `Limit = 1`, 2 conversations, 2 requests | Two starts of one conversation during an eviction: the first session is lost (`conversation_manager.py:105`) |
| `ConversationManager!OneAgent` | 2 requests | A conversation started while it is closed has two agents (same line) |
| `ConversationManager!ConnectedIsServed` | 2 clients, 2 requests | A client that joins a session being closed stays registered without one (`standalone_conversation_manager.py:442`) |
| `Attachments!LoopKeepsStream` | 1 request, 2 loops | An object made before the loop has a runtime closes the loop's event stream (`conversation_manager.py:67`) |
| `Attachments!UsesCurrentStream` | 2 requests, 2 loops | An object is reused with the event stream of a loop that has ended (`standalone_conversation_manager.py:117`) |
| `BashSession!HonestCompletion` | `Eager = FALSE` | A screen read before the shell reacted counts as completion (`bash.py:635`) |
| `BashSession!InputReachesProgram` | `Inputs = TRUE` | Input for a program that has ended is executed by the shell (`tools/bash.py:65`) |
| `BashSession!SentToShell` | `Inputs = TRUE`, or `Eager = FALSE` | A prompt that is not that of the last command counts as its completion, and the next command is typed into a program (`bash.py:637`, `:605`) |
| `BashSession!NoneTwice` | `History = 3` | When lines have scrolled off, earlier output is shown again (`bash.py:310`) |
| `WebHook!LastWordStays` | 1 path, 2 writes, 1 failure | Batches are sent by a pool: an older one, or its retry, may arrive last (`batched_web_hook.py:194`) |
| `PowerShellSession!LinesOnce` | 1 timeout, then a command | Output is returned again: what was returned is forgotten before the difference is taken (`windows_bash.py:733`) |
| `PowerShellSession!NoBlockedEnd` | `Prompts = TRUE` | A job that waits for input is told to have completed |
| `NestedRuntimes!OneStart` | `Overlap = TRUE`, or `Slow = TRUE` | Two requests read before either marks its start, or a start outlasts the key (`saas_nested_conversation_manager.py:185`) |
| `NestedRuntimes!RunningServedAlways` | 1 fault | A runtime whose conversation could not be created runs on, and no later request creates it |
| `NestedRuntimes!BelowLimit` | 2 conversations, limit 1 | The limit compares rows of the database with strings, finds no conversation, and closes none |
| `LocalServers!WorksInOwnDir` | `Initial = 1` | A warm server works in the directory it was started in, not in its session's |
| `LocalServers!WarmBounded`, `NoneWarmWithoutSessions` | `Desired = 1`, 2 sessions | Threads that start warm servers are not counted, nor stopped by the last deletion |
| `LocalServers!NothingLeaks`, `RegisteredWhileOpen` | `RemoveFails`, or `Attached`, `Overlap` | A failing removal ends the clean-up; who closes first takes the entry both use |
| `DockerStarts!Exclusive`, `FoundIsFree` | `Fcntl = TRUE` | Release removes the file, so one who had it open and one who makes it anew both hold the lock (`port_lock.py:123`; line 1, "prevent race conditions") |
| `DockerStarts!WaitsForRunning` | 2 sessions, `Fallback = TRUE` | A container that was made but not started, because its port was taken, is waited for |
| `DockerStarts!ExitedCanStart`, `OthersRunOn` | `Reconnect`; a name that begins another | The port of a stopped container is given away; closing a session stops those whose names begin with its name |
| `Proactive!CommentOnce`, `NothingMissed`, `RowsKeepUp` | `Overlap = TRUE` | There is no row to lock before the first: two rows, of which one loses a workflow for good, or two comments (`proactive_conversation_store.py:73`) |
| `Proactive!CommentOnce` | `MaxCleans = 1` | `last_updated_at` is never updated: the row goes 30 minutes after it was made, and the comment is made again |
| `Proactive!MarkedIsCommented` | 1 failure | A comment that fails is marked as sent |
| `ClusteredManager!NoOtherRuns` | 2 servers | The key may be free while a server still closes, or starts again, the loop (`clustered_conversation_manager.py:398`) |
| `ClusteredManager!OneLoop` | `Stalls = TRUE` | A server that stalls for longer than the key lasts goes on beside its successor |
| `TokenStore!OneRefreshEach` | 1 answer lost | A refresh whose answer is lost is rolled back, and the token presented again (`auth_token_store.py:83`) |
| `SweAgent!PatchOfTheLiving` as `info.sub = env.tree` | any | A `git diff` that fails has emptied the patch file, and a patch that cannot be read is not asked for again (`agents.py:856`, `:891`) |
| `SweAgent!PatchOfTheDead` | container dies after a format error | Only the last step is asked for a diff (`agents.py:832`) |
| `SweRetry!BudgetKept` without `MinBudget > 0 =>` and `Total < Limit =>` | `MinBudget = 0`, the default | A remaining budget of 0 is passed on as "no limit" (`reviewer.py:217`) |
| `SweRetry!FailedIsSubmitted` | an attempt raises | What autosubmission found is not in the attempt's info (`agents.py:330`) |
| `SweRetry!SavedIsReturned`, `SubmittedPreferred` | `Chooser = TRUE`, failing chooser | A failed choice is neither cached nor limited to the submitted attempts (`reviewer.py:549`, `:334`) |
| `SweBatch!AllPatchesMerged` | 1 kill | A kill between trajectory and prediction loses the prediction for good (`batch_mode.md:211`) |
| `Harness!OwnRemoved` | 2 processes | Images another process made meanwhile are removed (`docker_utils.py:279`) |
| `Harness!CompletedDecided` | 1 kill | A torn report counts as completed and keeps its instance out of every later run (`faq.md:36`) |
| `Harness!ResolvedByItsPatch` | a restart with another patch | A report under the run id is taken for that of the new patch (`faq.md:35`) |
| `Harness!RewriteOnlyReformats` | `rewrite_reports` | Rewriting grades outputs that timed out (`run_evaluation.py:95`) |
| `Collect!NoneLost` | 1 kill | A kill between the two files: the instance counts as inspected and is never among those with tests (`build_dataset.py:122`) |
| `Collect!ListIsWhole` | 1 kill | A list that was cut short is taken for the whole one, as are the instances (`get_tasks_pipeline.py:67`, `:79`) |
| `LegacyBatch!SourceReadable` | 1 kill | A kill during the write to `output_final` leaves a torn instance that ends every later start (`run_innercc_batch.py:197`) |
| `LegacyBatch!RepairEnds` | a comparison without code or tests | Such an instance is repaired again at every start |
| `ImageBuild!FailedEnvsSkipped` | 3 instances | Instances of environments that failed are built (`docker_build.py:335`) |
| `Grading!FullMeansPassed` | every FAIL_TO_PASS test skipped | Resolved, because a share of nothing is 1 (`grading.py:123`) |

Met while reading, and stated by no definition: `llm_completion` of the cluster
publishes the field `message` and its receiver reads `messages`; `_close_session`
deletes the key without `await` when it has no session; a user with too many loops who
asks again for the oldest conversation has it closed while it starts (`Crowded`); a
second concurrent insert of tokens raises on the unique index; the summariser accepts a
`keep_first` that leaves a tail of 0 events and then raises on `min()` of nothing; a
condensation that was requested is truncated by the first condenser of the pipeline
only where that one is in it; `RemoteRuntime` resumes, on a 503, inside the semaphore
that its own resume waits for.

## 8. What is not modelled

* The router notes, the trace bundle's content, report contents and test
  results: data that no modelled decision depends on.
* The stand-alone CLI case (`run_custom_cli_case.py` `main`) but for its place in the
  legacy batch, the legacy dashboard server, environment set-up, dataset tools:
  sequential programs and pure I/O. Rendering, filtering and sorting of the front end.
* Of the carried projects: specifications and log parsers per benchmark repository
  (tables and regular expressions), Modal, command lines and terminal interfaces,
  the Kubernetes runtime, integrations with Slack, Jira, Linear and (but for the comment
  on workflows) GitHub, billing, the resolver, LLM adapters, plugins, the web front
  end. Most of it is data, formatting, or calls to services with no state of its own.
* Disk-full and permission errors while one of the JSON files is written. (A
  *process* that dies of one is a crash in the models.)

## 9. Plan

Done: the official48 run; recorder, dashboard and page; the legacy batch; SWE-bench and
SWE-agent; the parts of OpenHands above; proofs of the safety properties of all of them but
those named at the end of section 5.

Next: proofs of `CallsAccounted`, of the types of the parts (`BatchTypeOK`,
`OpenHandsTypeOK`) and of `OutputOnce` for a pane that is large enough; the refinement of the
coarse worker of `Supervision` by `EvalWorker` (`tried <- Done(entries)`).
