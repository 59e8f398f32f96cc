----------------------------- MODULE EvalWorker -----------------------------
(***************************************************************************)
(* The incremental evaluation worker, run_official48_eval_worker.py.       *)
(*                                                                         *)
(* A worker polls the inference side's files, keeps up to EvalMax          *)
(* evaluator processes (SWE-bench/evaluate_instance.py) running, one per   *)
(* published row, and records what it has done in eval_worker_status.json. *)
(* That file is written in place, so a reader or a crash can catch it      *)
(* truncated.  A worker may be killed at any point; its evaluators live on *)
(* as strays, and the next worker boots from the file.                     *)
(*                                                                         *)
(* The inference side is its promise, the actions of PublishedRun.         *)
(***************************************************************************)
EXTENDS PublishedRun, Integers, FiniteSets

CONSTANTS
    Workers,       \* the workers started on this run directory
    EvalMax,       \* max_concurrency
    DefaultTotal,  \* the 48 used when neither file gives a total
    RetryMissing,  \* --retry-missing-report
    MaxBoots       \* bound: how often workers are started

ASSUME EvalInstancesAssumption ==
    Instances \subseteq Nat /\ Instances # {} /\ IsFiniteSet(Instances)
ASSUME EvalPatchesAssumption == NoPatch \notin Patches
ASSUME EvalOptionsAssumption ==
    /\ EvalMax \in Nat \ {0}
    /\ DefaultTotal \in Nat \ {0}
    /\ RetryMissing \in BOOLEAN
    /\ MaxBoots \in Nat

VARIABLES
    boots,     \* how often a worker was started
    pc,        \* per worker: its next step
    seen,      \* per worker: what it read of the inference files this round
    entries,   \* per worker: the dict `completed`
    running,   \* per worker: its live evaluator processes
    ended,     \* per worker: evaluators that have exited and are not reaped
    payload,   \* per worker: the status read back before "done" is set
    file,      \* eval_worker_status.json
    reports,   \* per instance: the prediction its report.json judges
    links,     \* the symlinks under evaluation/
    strays     \* evaluators whose worker is gone

workerVars == <<boots, pc, seen, entries, running, ended, payload>>
evalVars == <<workerVars, file, reports, links, strays>>
vars == <<pubVars, evalVars>>

\* The value of completed[i]: absent, with a report, or without one.
Entry == {"none", "report", "noreport"}
NoEntries == [i \in Instances |-> "none"]
NothingSeen == [rows |-> {}, posted |-> FALSE, done |-> FALSE]

Stages == {"down", "summary", "status", "reap", "launch", "open", "write",
           "finread", "finopen", "finwrite", "exited"}

EvalTypeOK ==
    /\ PubTypeOK
    /\ boots \in 0..MaxBoots
    /\ pc \in [Workers -> Stages]
    /\ seen \in [Workers -> [rows : SUBSET Instances, posted : BOOLEAN, done : BOOLEAN]]
    /\ entries \in [Workers -> [Instances -> Entry]]
    /\ running \in [Workers -> SUBSET Instances]
    /\ ended \in [Workers -> SUBSET Instances]
    /\ payload \in [Workers -> [Instances -> Entry]]
    /\ file \in [kind : {"absent", "torn", "ok"}, entries : [Instances -> Entry],
                 done : BOOLEAN]
    /\ reports \in [Instances -> Patches \cup {NoPatch}]
    /\ links \subseteq Instances
    /\ strays \subseteq Instances

Init ==
    /\ PubInit
    /\ boots = 0
    /\ pc = [w \in Workers |-> "down"]
    /\ seen = [w \in Workers |-> NothingSeen]
    /\ entries = [w \in Workers |-> NoEntries]
    /\ running = [w \in Workers |-> {}]
    /\ ended = [w \in Workers |-> {}]
    /\ payload = [w \in Workers |-> NoEntries]
    /\ file = [kind |-> "absent", entries |-> NoEntries, done |-> FALSE]
    /\ reports = [i \in Instances |-> NoPatch]
    /\ links = {}
    /\ strays = {}

Goto(w, stage) == pc' = [pc EXCEPT ![w] = stage]
Up(w) == pc[w] \notin {"down", "exited"}
Active(w) == running[w] \cup ended[w]
Done(e) == {i \in Instances : e[i] # "none"}

\* A file that cannot be parsed counts as empty.  An entry whose report
\* exists is kept as one with a report; one without is dropped for a retry.
EntriesFromDisk ==
    [i \in Instances |->
        IF file.kind # "ok" \/ file.entries[i] = "none" THEN "none"
        ELSE IF reports[i] # NoPatch THEN "report"
        ELSE IF RetryMissing THEN "none" ELSE file.entries[i]]

\* The process starts, by the pipeline script or by the supervisor.
Boot(w) ==
    /\ ~ Up(w)
    /\ boots < MaxBoots
    /\ boots' = boots + 1
    /\ Goto(w, "summary")
    /\ entries' = [entries EXCEPT ![w] = EntriesFromDisk]
    /\ seen' = [seen EXCEPT ![w] = NothingSeen]
    /\ UNCHANGED <<pubVars, running, ended, payload, file, reports, links, strays>>

-----------------------------------------------------------------------------
(* One round of the polling loop.                                          *)

\* Mutant: the rows are taken from preds.json.
ReadPreds(w) ==
    /\ pc[w] = "summary"
    /\ seen' = [seen EXCEPT ![w].rows = {i \in Instances : preds[i] # NoPatch}]
    /\ Goto(w, "status")
    /\ UNCHANGED <<pubVars, boots, entries, running, ended, payload,
                   file, reports, links, strays>>

ReadSummary(w) ==
    /\ pc[w] = "summary"
    /\ seen' = [seen EXCEPT ![w] = [rows |-> summary, posted |-> seen[w].posted,
                                     done |-> seen[w].done]]
    /\ Goto(w, "status")
    /\ UNCHANGED <<pubVars, boots, entries, running, ended, payload,
                   file, reports, links, strays>>

\* The "done" field of inference_status.json, false while there is no file.
StatusSaysDone == posted /\ Cardinality(announced) >= Cardinality(Instances)

ReadStatus(w) ==
    /\ pc[w] = "status"
    /\ seen' = [seen EXCEPT ![w] = [rows |-> seen[w].rows, posted |-> posted,
                                     done |-> StatusSaysDone]]
    /\ Goto(w, "reap")
    /\ UNCHANGED <<pubVars, boots, entries, running, ended, payload,
                   file, reports, links, strays>>

\* Mutant: an exited evaluator is taken to have left a report.
ReapAssumesReport(w) ==
    /\ pc[w] = "reap"
    /\ entries' = [entries EXCEPT ![w] = [i \in Instances |->
                      IF i \in ended[w] THEN "report" ELSE entries[w][i]]]
    /\ links' = links \cup ended[w]
    /\ ended' = [ended EXCEPT ![w] = {}]
    /\ Goto(w, "launch")
    /\ UNCHANGED <<pubVars, boots, seen, running, payload, file, reports, strays>>

\* Mutant: an exited evaluator is not removed from active.
ReapKeepsSlot(w) ==
    /\ pc[w] = "reap"
    /\ entries' = [entries EXCEPT ![w] = [i \in Instances |->
                      IF i \notin ended[w] THEN entries[w][i]
                      ELSE IF reports[i] # NoPatch THEN "report" ELSE "noreport"]]
    /\ links' = links \cup {i \in ended[w] : reports[i] # NoPatch}
    /\ Goto(w, "launch")
    /\ UNCHANGED <<pubVars, boots, seen, running, ended, payload, file, reports, strays>>

\* Mutant: the entry holds the return code only, not what became of the report.
ReapReturnCodeOnly(w) ==
    /\ pc[w] = "reap"
    /\ entries' = [entries EXCEPT ![w] = [i \in Instances |->
                      IF i \in ended[w] THEN "returncode" ELSE entries[w][i]]]
    /\ links' = links \cup {i \in ended[w] : reports[i] # NoPatch}
    /\ ended' = [ended EXCEPT ![w] = {}]
    /\ Goto(w, "launch")
    /\ UNCHANGED <<pubVars, boots, seen, running, payload, file, reports, strays>>

\* Every evaluator that has exited becomes an entry; its report directory,
\* if there is one, is linked under evaluation/.
Reap(w) ==
    /\ pc[w] = "reap"
    /\ entries' = [entries EXCEPT ![w] = [i \in Instances |->
                      IF i \notin ended[w] THEN entries[w][i]
                      ELSE IF reports[i] # NoPatch THEN "report" ELSE "noreport"]]
    /\ links' = links \cup {i \in ended[w] : reports[i] # NoPatch}
    /\ ended' = [ended EXCEPT ![w] = {}]
    /\ Goto(w, "launch")
    /\ UNCHANGED <<pubVars, boots, seen, running, payload, file, reports, strays>>

\* The rows still to evaluate, in the order of the summary.
Ready(w) == seen[w].rows \ (Done(entries[w]) \cup Active(w))
SlotFree(w) == Cardinality(Active(w)) < EvalMax

Launch(w, i) ==
    /\ pc[w] = "launch"
    /\ i \in Ready(w)
    /\ \A j \in Ready(w) : i <= j
    /\ SlotFree(w)
    /\ running' = [running EXCEPT ![w] = @ \cup {i}]
    /\ UNCHANGED <<pubVars, boots, pc, seen, entries, ended, payload,
                   file, reports, links, strays>>

LaunchOver(w) ==
    /\ pc[w] = "launch"
    /\ Ready(w) = {} \/ ~ SlotFree(w)
    /\ Goto(w, "open")
    /\ UNCHANGED <<pubVars, boots, seen, entries, running, ended, payload,
                   file, reports, links, strays>>

\* Mutant: the number of rows is preferred to total_instances.
TotalOfRows(w) ==
    IF seen[w].rows # {} THEN Cardinality(seen[w].rows) ELSE DefaultTotal

\* total_instances, all_inference_done, all_eval_done
Total(w) ==
    IF seen[w].posted THEN Cardinality(Instances)
    ELSE IF seen[w].rows # {} THEN Cardinality(seen[w].rows)
    ELSE DefaultTotal

\* Mutant: only the "done" flag of the status file counts.
OnlyDoneFlag(w) == seen[w].done

AllInferenceDone(w) == seen[w].done \/ Cardinality(seen[w].rows) >= Total(w)
AllEvalDone(w) ==
    /\ AllInferenceDone(w)
    /\ Cardinality(Done(entries[w])) >= Total(w)
    /\ Active(w) = {}

\* write_json: the file is truncated, then filled.
OpenFile(w, from, to) ==
    /\ pc[w] = from
    /\ file' = [file EXCEPT !.kind = "torn"]
    /\ Goto(w, to)
    /\ UNCHANGED <<pubVars, boots, seen, entries, running, ended, payload,
                   reports, links, strays>>

\* persist_state
PersistOpen(w) == OpenFile(w, "open", "write")
PersistWrite(w) ==
    /\ pc[w] = "write"
    /\ file' = [kind |-> "ok", entries |-> entries[w], done |-> FALSE]
    /\ Goto(w, IF AllEvalDone(w) THEN "finread" ELSE "summary")
    /\ UNCHANGED <<pubVars, boots, seen, entries, running, ended, payload,
                   reports, links, strays>>

-----------------------------------------------------------------------------
(* The end: the worker reads its own file back, sets "done" and exits.     *)

\* json.loads of a truncated file raises, and nothing catches it.
FinishRead(w) ==
    /\ pc[w] = "finread"
    /\ IF file.kind = "ok"
       THEN payload' = [payload EXCEPT ![w] = file.entries] /\ Goto(w, "finopen")
       ELSE Goto(w, "down") /\ UNCHANGED payload
    /\ UNCHANGED <<pubVars, boots, seen, entries, running, ended,
                   file, reports, links, strays>>

FinishOpen(w) == OpenFile(w, "finopen", "finwrite")
FinishWrite(w) ==
    /\ pc[w] = "finwrite"
    /\ file' = [kind |-> "ok", entries |-> payload[w], done |-> TRUE]
    /\ Goto(w, "exited")
    /\ UNCHANGED <<pubVars, boots, seen, entries, running, ended, payload,
                   reports, links, strays>>

\* The worker is killed; its evaluators are not.
Crash(w) ==
    /\ Up(w)
    /\ Goto(w, "down")
    /\ strays' = strays \cup running[w]
    /\ running' = [running EXCEPT ![w] = {}]
    /\ ended' = [ended EXCEPT ![w] = {}]
    /\ UNCHANGED <<pubVars, boots, seen, entries, payload, file, reports, links>>

-----------------------------------------------------------------------------
(* The evaluator process: evaluate_instance.py and run_instance.           *)

\* It looks its prediction up in preds.json and fails without one; with a
\* report.json already there it returns early; an error leaves no report.
\* It reads preds.json once, at its beginning: its instance has a row by then
\* (Launch), so the entry is the same when it ends.
Judge(i) ==
    \/ UNCHANGED reports
    \/ /\ preds[i] # NoPatch
       /\ reports[i] = NoPatch
       /\ reports' = [reports EXCEPT ![i] = preds[i]]

EvaluatorEnds(w, i) ==
    /\ i \in running[w]
    /\ Judge(i)
    /\ running' = [running EXCEPT ![w] = @ \ {i}]
    /\ ended' = [ended EXCEPT ![w] = @ \cup {i}]
    /\ UNCHANGED <<pubVars, boots, pc, seen, entries, payload, file, links, strays>>

StrayEnds(i) ==
    /\ i \in strays
    /\ Judge(i)
    /\ strays' = strays \ {i}
    /\ UNCHANGED <<pubVars, workerVars, file, links>>

-----------------------------------------------------------------------------
WorkerStep(w) ==
    \/ ReadSummary(w) \/ ReadStatus(w) \/ Reap(w)
    \/ \E i \in Instances : Launch(w, i)
    \/ LaunchOver(w)
    \/ PersistOpen(w) \/ PersistWrite(w)
    \/ FinishRead(w) \/ FinishOpen(w) \/ FinishWrite(w)

Next ==
    \/ PubNext /\ UNCHANGED evalVars
    \/ \E w \in Workers : Boot(w) \/ WorkerStep(w) \/ Crash(w)
    \/ \E w \in Workers, i \in Instances : EvaluatorEnds(w, i)
    \/ \E i \in Instances : StrayEnds(i)

Spec == Init /\ [][Next]_vars

\* A live worker keeps polling and every evaluator ends (evaluate_instance
\* gives the tests 1800 seconds).  Nothing is assumed of the inference side.
FairSpec ==
    /\ Spec
    /\ \A w \in Workers : WF_vars(WorkerStep(w))
    /\ \A w \in Workers, i \in Instances : WF_vars(EvaluatorEnds(w, i))

-----------------------------------------------------------------------------
(* Properties.                                                             *)

\* A status that says "done" accounts for every instance of the run, and
\* inference had published them all: neither the two separate reads of the
\* inference files, nor the fallback totals, nor a restart from a truncated
\* file makes a worker finish early.
EvalDoneMeansAll ==
    file.kind = "ok" /\ file.done => Done(file.entries) = Instances /\ summary = Instances

\* Every report judges the prediction that is published for its instance:
\* no evaluator runs on a prediction that a resumed inference replaces.
ReportsMatch ==
    \A i \in Instances :
        reports[i] # NoPatch => i \in summary /\ reports[i] = preds[i]

\* The status file is truthful: an entry is about a published instance and
\* one with a report has its report, whichever worker wrote it and however
\* often workers restarted from it; every link leads to a report.
EntriesTruthful ==
    \A i \in Instances :
        /\ file.entries[i] # "none" => i \in summary
        /\ file.entries[i] = "report" \/ i \in links => reports[i] # NoPatch

\* At most EvalMax evaluators run at a time on the run directory (the
\* worker's second argument).
EvalSlots ==
    Cardinality(UNION {{w} \X running[w] : w \in Workers}) <= EvalMax

\* A published row is evaluated as long as its worker lives.
RowsGetEvaluated ==
    \A w \in Workers, i \in Instances :
        Up(w) /\ i \in summary ~> entries[w][i] # "none" \/ ~ Up(w)

\* Once every row is published the worker ends, even if the inference
\* process died before it announced the last one.
WorkerEnds ==
    \A w \in Workers : Up(w) /\ summary = Instances ~> ~ Up(w)
=============================================================================
