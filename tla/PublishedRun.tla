---------------------------- MODULE PublishedRun ----------------------------
(***************************************************************************)
(* What the inference side of an official48 run promises the programs that *)
(* read its output directory (the evaluation worker, the monitor, the      *)
(* progress recorder, the dashboards).  They see three files: preds.json,  *)
(* inference_summary.json and inference_status.json.                       *)
(*                                                                         *)
(* The promise: a status file is posted before the first summary row; a    *)
(* row is published only for a prediction already in preds.json; rows and  *)
(* their predictions are final; and a posted status counts exactly the     *)
(* rows the summary holds at that moment.  Module Inference, with crashes, *)
(* restarts and a pool of threads, is shown to implement it.               *)
(***************************************************************************)
CONSTANTS
    Instances,   \* the benchmark instances of the run
    Patches,     \* the predictions a CLI session can produce
    NoPatch      \* "preds.json has no entry"

VARIABLES
    preds,       \* preds.json: the prediction of each instance, or NoPatch
    summary,     \* the instances with a row in inference_summary.json
    posted,      \* inference_status.json exists
    announced    \* the instances its "completed" list names

pubVars == <<preds, summary, posted, announced>>

PubTypeOK ==
    /\ preds \in [Instances -> Patches \cup {NoPatch}]
    /\ summary \subseteq Instances
    /\ posted \in BOOLEAN
    /\ announced \subseteq Instances

PubInit ==
    /\ preds = [i \in Instances |-> NoPatch]
    /\ summary = {}
    /\ posted = FALSE
    /\ announced = {}

\* write_json_atomic(aggregate_preds_path, all_preds): the entry of an
\* instance that has no row yet appears or is replaced.
Predict(i) ==
    /\ posted
    /\ i \notin summary
    /\ \E p \in Patches : preds' = [preds EXCEPT ![i] = p]
    /\ UNCHANGED <<summary, posted, announced>>

\* write_json_atomic(summary_path, summaries)
Publish(i) ==
    /\ posted
    /\ i \notin summary
    /\ preds[i] # NoPatch
    /\ summary' = summary \cup {i}
    /\ UNCHANGED <<preds, posted, announced>>

\* write_inference_status
Announce ==
    /\ posted' = TRUE
    /\ announced' = summary
    /\ UNCHANGED <<preds, summary>>

PubNext ==
    \/ \E i \in Instances : Predict(i) \/ Publish(i)
    \/ Announce

PubSpec == PubInit /\ [][PubNext]_pubVars
=============================================================================
