------------------------------- MODULE SweBatch -------------------------------
(***************************************************************************)
(* SWE-agent's batch runner (sweagent/run/run_batch.py) over its output    *)
(* directory: a pool of threads takes the instances in order, skips those  *)
(* whose trajectory is complete, runs the others and saves a prediction    *)
(* each; at the end the predictions are merged.  The process may be killed *)
(* and started again on the same directory.  A trajectory or a prediction  *)
(* is named by the process that wrote it.                                  *)
(***************************************************************************)
EXTENDS Integers, FiniteSets

CONSTANTS
    Instances,   \* 1..n, in the order of the list
    Workers,     \* num_workers
    Redo,        \* redo_existing
    CloseFails,  \* may the shutdown of an environment fail?
    MaxCrashes   \* bound: kills of the process

SweBatchAssumption ==
    /\ Instances = 1..Cardinality(Instances)
    /\ Workers \in Nat \ {0}
    /\ Redo \in BOOLEAN /\ CloseFails \in BOOLEAN /\ MaxCrashes \in Nat

VARIABLES
    run,     \* the process, 1, 2, ...
    traj,    \* the trajectory file of each instance
    pred,    \* its prediction file
    phase,   \* what the process has done with each instance
    stop,    \* _BreakLoop has been raised
    main,    \* "pool", "ended", "broken"
    preds    \* preds.json, or NoFile

vars == <<run, traj, pred, phase, stop, main, preds>>

NoFile == 0
Partial == -1   \* no exit status yet, or not readable
Torn == -1      \* a prediction that was being written
Runs == 1..(MaxCrashes + 1)
Phases == {"todo", "agent", "closing", "failing", "saving", "done", "failed", "skipped"}

\* The threads that have taken an instance and not finished with it.
Working == {"agent", "closing", "failing", "saving"}
Busy == {i \in Instances : phase[i] \in Working}

SweBatchTypeOK ==
    /\ run \in Runs
    /\ traj \in [Instances -> {NoFile, Partial} \cup 1..run]
    /\ pred \in [Instances -> {NoFile, Torn} \cup 1..run]
    /\ phase \in [Instances -> Phases]
    /\ stop \in BOOLEAN /\ main \in {"pool", "ended", "broken"}
    /\ preds \in [Instances -> {NoFile} \cup 1..run]
    /\ Cardinality(Busy) <= Workers

Init ==
    /\ run = 1 /\ stop = FALSE /\ main = "pool"
    /\ traj = [i \in Instances |-> NoFile]
    /\ pred = [i \in Instances |-> NoFile]
    /\ preds = [i \in Instances |-> NoFile]
    /\ phase = [i \in Instances |-> "todo"]

-----------------------------------------------------------------------------
(* run_instance                                                            *)

\* should_skip: a trajectory with an exit status; an incomplete one is removed.
SkipNone(file) == FALSE
Skips(file) == ~Redo /\ file > 0

FailuresStay == Cardinality(Busy \cup {i \in Instances : phase[i] = "failed"}) < Workers
FreeWorker == Cardinality(Busy) < Workers

Take(i) ==
    /\ main = "pool" /\ phase[i] = "todo" /\ ~stop /\ FreeWorker
    /\ \A j \in Instances : j < i => phase[j] # "todo"
    /\ IF Skips(traj[i])
       THEN phase' = [phase EXCEPT ![i] = "skipped"] /\ UNCHANGED traj
       ELSE /\ phase' = [phase EXCEPT ![i] = "agent"]
            /\ traj' = [traj EXCEPT ![i] = IF Redo THEN @ ELSE NoFile]
    /\ UNCHANGED <<run, pred, stop, main, preds>>

\* The agent saves its trajectory after every step.
AgentSteps(i) ==
    /\ phase[i] = "agent"
    /\ traj' = [traj EXCEPT ![i] = Partial]
    /\ UNCHANGED <<run, pred, phase, stop, main, preds>>

AgentEnds(i) ==
    /\ phase[i] = "agent"
    /\ traj' = [traj EXCEPT ![i] = run]
    /\ phase' = [phase EXCEPT ![i] = "closing"]
    /\ UNCHANGED <<run, pred, stop, main, preds>>

\* The environment does not start, or the agent raises; some errors, a limit on
\* the total cost among them, stop the loop.
AgentRaises(i) ==
    /\ phase[i] = "agent"
    /\ phase' = [phase EXCEPT ![i] = "failing"]
    /\ UNCHANGED <<run, traj, pred, stop, main, preds>>

\* env.close in the finally; run_instance catches what it raises.
Closes(i) ==
    /\ \/ phase[i] = "closing" /\ phase' = [phase EXCEPT ![i] = "saving"] /\ UNCHANGED stop
       \/ /\ phase[i] = "closing" /\ CloseFails
          /\ phase' = [phase EXCEPT ![i] = "failed"] /\ UNCHANGED stop
       \/ /\ phase[i] = "failing"
          /\ phase' = [phase EXCEPT ![i] = "failed"]
          /\ stop' \in {stop, TRUE}
    /\ UNCHANGED <<run, traj, pred, main, preds>>

\* save_predictions: the file is opened, then it is written.
SaveBegins(i) ==
    /\ phase[i] = "saving" /\ pred[i] # Torn
    /\ pred' = [pred EXCEPT ![i] = Torn]
    /\ UNCHANGED <<run, traj, phase, stop, main, preds>>

SaveEnds(i) ==
    /\ phase[i] = "saving" /\ pred[i] = Torn
    /\ pred' = [pred EXCEPT ![i] = run]
    /\ phase' = [phase EXCEPT ![i] = "done"]
    /\ UNCHANGED <<run, traj, stop, main, preds>>

-----------------------------------------------------------------------------
(* main                                                                    *)

\* merge_predictions: one file that cannot be read ends the process; without
\* any file nothing is written.
PoolEnds ==
    /\ main = "pool" /\ Busy = {}
    /\ stop \/ \A i \in Instances : phase[i] # "todo"
    /\ IF \E i \in Instances : pred[i] = Torn
       THEN main' = "broken" /\ UNCHANGED preds
       ELSE /\ main' = "ended"
            /\ preds' = IF \A i \in Instances : pred[i] = NoFile THEN preds ELSE pred
    /\ UNCHANGED <<run, traj, pred, phase, stop>>

\* The process is killed and started again.  A file that was being written may
\* be left in pieces.
Crash ==
    /\ run <= MaxCrashes /\ run' = run + 1
    /\ phase' = [i \in Instances |-> "todo"]
    /\ stop' = FALSE /\ main' = "pool"
    /\ \E torn \in SUBSET {i \in Instances : phase[i] = "agent"} :
        traj' = [i \in Instances |-> IF i \in torn THEN Partial ELSE traj[i]]
    /\ UNCHANGED <<pred, preds>>

Next ==
    \/ \E i \in Instances :
        \/ Take(i) \/ AgentSteps(i) \/ AgentEnds(i) \/ AgentRaises(i)
        \/ Closes(i) \/ SaveBegins(i) \/ SaveEnds(i)
    \/ PoolEnds \/ Crash

Spec == Init /\ [][Next]_vars

\* Threads work on, and the agent ends: it has a limit on its cost.
FairSpec ==
    /\ Spec /\ WF_vars(PoolEnds)
    /\ \A i \in Instances :
        /\ WF_vars(Take(i)) /\ WF_vars(AgentEnds(i)) /\ WF_vars(Closes(i))
        /\ WF_vars(SaveBegins(i)) /\ WF_vars(SaveEnds(i))

-----------------------------------------------------------------------------
(* Properties                                                              *)

\* Without redo a prediction is that of the trajectory beside it, across kills
\* and restarts; the trajectory is never made again.
PredictionMatches ==
    ~Redo => \A i \in Instances : pred[i] > 0 => traj[i] = pred[i]

\* batch_mode.md:211: all patches generated are saved to preds.json.
AllPatchesMerged ==
    main = "ended" => \A i \in Instances : traj[i] > 0 => preds[i] = traj[i]
=============================================================================
