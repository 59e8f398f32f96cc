------------------------------- MODULE Harness -------------------------------
(***************************************************************************)
(* The SWE-bench harness (swebench/harness/run_evaluation.py) on one docker *)
(* daemon: a process reads the predictions, leaves out the instances that  *)
(* have a report, evaluates the others in a pool of threads, a container   *)
(* each, removes images above its cache level and counts the reports.      *)
(* Several processes, each with a run id and log directory of its own,     *)
(* share the images; one may be killed and started again on its run id,    *)
(* with other predictions.                                                 *)
(***************************************************************************)
EXTENDS Integers, FiniteSets

CONSTANTS
    Procs,        \* the run ids
    Instances,
    Passing,      \* patches that resolve their instance
    Failing,      \* patches that apply and do not
    Unapplied,    \* patches that git and patch refuse
    Workers,      \* max_workers
    Keeping,      \* the processes with cache_level "instance", the others have "env"
    Clean,        \* clean
    Force,        \* force_rebuild
    RemoveFails,  \* may docker fail to remove a container?
    MaxStarts, MaxCrashes   \* bounds: starts and kills of processes

Patches == Passing \cup Failing \cup Unapplied
Empty == "empty"    \* a prediction without a patch
Lacking == "lacking" \* no prediction at all

HarnessAssumption ==
    /\ {Empty, Lacking} \cap Patches = {}
    /\ Workers \in Nat \ {0} /\ Keeping \subseteq Procs
    /\ Clean \in BOOLEAN /\ Force \in BOOLEAN /\ RemoveFails \in BOOLEAN
    /\ MaxStarts \in Nat /\ MaxCrashes \in Nat

VARIABLES
    preds,      \* the predictions a process has read
    report,     \* report.json of each run id and instance
    output,     \* test_output.txt
    image,      \* who made the image of an instance: a process, "before", or NoImage
    container,  \* "none", "created", "running", for each run id and instance
    phase,      \* of a process: "idle", "start", "pool", "clean"
    mode,       \* "run" or "rewrite"
    stage,      \* of each instance in a process
    prior,      \* the images there were when the process started
    existing,   \* those there were when its pool did
    summary,    \* the classes of the last run report
    starts, crashes

vars == <<preds, report, output, image, container, phase, mode, stage, prior,
          existing, summary, starts, crashes>>
docker == <<image, container>>
files == <<preds, report, output>>
process == <<phase, mode, prior, existing>>

NoFile == [kind |-> "none"]
Torn == [kind |-> "torn"]
NoImage == "none"
Outputs == [kind : {"output"}, by : Patches, complete : BOOLEAN, timedOut : BOOLEAN]
Reports == [kind : {"report"}, by : Patches \cup {Empty}, resolved : BOOLEAN]
Busy == {"image", "create", "tests", "grade", "write", "cleanup", "remove"}
Classes == {"resolved", "unresolved", "completed", "error", "empty", "incomplete"}

HarnessTypeOK ==
    /\ preds \in [Procs -> [Instances -> Patches \cup {Empty, Lacking}]]
    /\ report \in [Procs -> [Instances -> Reports \cup {NoFile, Torn}]]
    /\ output \in [Procs -> [Instances -> Outputs \cup {NoFile}]]
    /\ image \in [Instances -> Procs \cup {"before", NoImage}]
    /\ container \in [Procs -> [Instances -> {"none", "created", "running"}]]
    /\ phase \in [Procs -> {"idle", "start", "pool", "clean"}]
    /\ mode \in [Procs -> {"run", "rewrite"}]
    /\ stage \in [Procs -> [Instances -> Busy \cup {"out", "todo", "done"}]]
    /\ prior \in [Procs -> SUBSET Instances] /\ existing \in [Procs -> SUBSET Instances]
    /\ summary \in [Procs -> [Classes -> SUBSET Instances]]
    /\ starts \in 0..MaxStarts /\ crashes \in 0..MaxCrashes
    /\ \A p \in Procs : Cardinality({i \in Instances : stage[p][i] \in Busy}) <= Workers

Init ==
    /\ preds = [p \in Procs |-> [i \in Instances |-> Lacking]]
    /\ report = [p \in Procs |-> [i \in Instances |-> NoFile]]
    /\ output = [p \in Procs |-> [i \in Instances |-> NoFile]]
    /\ image \in [Instances -> {"before", NoImage}]
    /\ container = [p \in Procs |-> [i \in Instances |-> "none"]]
    /\ phase = [p \in Procs |-> "idle"] /\ mode = [p \in Procs |-> "run"]
    /\ stage = [p \in Procs |-> [i \in Instances |-> "out"]]
    /\ prior = [p \in Procs |-> {}] /\ existing = [p \in Procs |-> {}]
    /\ summary = [p \in Procs |-> [c \in Classes |-> {}]]
    /\ starts = 0 /\ crashes = 0

Present == {i \in Instances : image[i] # NoImage}

-----------------------------------------------------------------------------
(* docker                                                                  *)

\* Docker removes no image under a running container, forced or not.
Removable(i) == \A p \in Procs : container[p][i] # "running"
ImagesWithout(S) ==
    [i \in Instances |-> IF i \in S /\ Removable(i) THEN NoImage ELSE image[i]]

-----------------------------------------------------------------------------
(* main                                                                    *)

\* get_dataset_from_preds: a report, whole or not, keeps an instance out.
Dataset(p, m, given) ==
    {i \in Instances :
        /\ given[i] # Lacking
        /\ IF m = "rewrite" THEN output[p][i] # NoFile
                            ELSE given[i] # Empty /\ report[p][i] = NoFile}

Start(p, m) ==
    /\ phase[p] = "idle" /\ starts < MaxStarts /\ starts' = starts + 1
    /\ \E given \in [Instances -> Patches \cup {Empty, Lacking}] :
        /\ preds' = [preds EXCEPT ![p] = given]
        /\ stage' = [stage EXCEPT ![p] =
                        [i \in Instances |-> IF i \in Dataset(p, m, given) THEN "todo" ELSE "out"]]
    /\ phase' = [phase EXCEPT ![p] = "start"] /\ mode' = [mode EXCEPT ![p] = m]
    /\ prior' = [prior EXCEPT ![p] = Present]
    /\ UNCHANGED <<report, output, docker, existing, summary, crashes>>

\* run_instances lists the images again.
StartPool(p) ==
    /\ phase[p] = "start" /\ phase' = [phase EXCEPT ![p] = "pool"]
    /\ existing' = [existing EXCEPT ![p] = Present]
    /\ UNCHANGED <<files, docker, mode, stage, prior, summary, starts, crashes>>

\* should_remove, for the image of an instance.
RemoveNone(p, before) == IF p \in Keeping \/ ~Clean THEN {} ELSE Instances
ShouldRemove(p, before) ==
    IF p \in Keeping THEN {} ELSE IF Clean THEN Instances ELSE Instances \ before

AllRun(p) == \A i \in Instances : stage[p][i] = "done"
Settled(p) == \A i \in Instances : stage[p][i] \in {"out", "done"}

EndPool(p) ==
    /\ phase[p] = "pool" /\ Settled(p)
    /\ phase' = [phase EXCEPT ![p] = "clean"]
    /\ UNCHANGED <<files, docker, mode, stage, prior, existing, summary, starts, crashes>>

\* make_run_report, with the predictions of this process.
Classified(p) ==
    LET asked == {i \in Instances : preds[p][i] \notin {Lacking, Empty}}
        whole == {i \in asked : report[p][i].kind = "report"}
        found == {i \in asked : report[p][i] # NoFile}
    IN [resolved |-> {i \in whole : report[p][i].resolved},
        unresolved |-> {i \in whole : ~report[p][i].resolved},
        completed |-> found,
        error |-> asked \ whole,
        empty |-> {i \in Instances : preds[p][i] = Empty},
        incomplete |-> {i \in Instances : preds[p][i] = Lacking}]

\* clean_images and the report.
Finish(p) ==
    /\ phase[p] = "clean" /\ phase' = [phase EXCEPT ![p] = "idle"]
    /\ image' = ImagesWithout(ShouldRemove(p, prior[p]))
    /\ summary' = [summary EXCEPT ![p] = Classified(p)]
    /\ stage' = [stage EXCEPT ![p] = [i \in Instances |-> "out"]]
    /\ UNCHANGED <<files, container, mode, prior, existing, starts, crashes>>

\* The containers of a process that is killed go on; what it was writing is torn.
Crash(p) ==
    /\ phase[p] # "idle" /\ crashes < MaxCrashes /\ crashes' = crashes + 1
    /\ phase' = [phase EXCEPT ![p] = "idle"]
    /\ stage' = [stage EXCEPT ![p] = [i \in Instances |-> "out"]]
    /\ UNCHANGED <<files, docker, mode, prior, existing, summary, starts>>

-----------------------------------------------------------------------------
(* run_instance                                                            *)

Goes(p, i, s) == stage' = [stage EXCEPT ![p][i] = s]

FreeThread(p) == Cardinality({j \in Instances : stage[p][j] \in Busy}) < Workers

Take(p, i) ==
    /\ phase[p] = "pool" /\ stage[p][i] = "todo" /\ FreeThread(p)
    /\ Goes(p, i, IF mode[p] = "rewrite" THEN "grade" ELSE "image")
    /\ UNCHANGED <<files, docker, process, summary, starts, crashes>>

\* build_container: the image is found, pulled or built, or that fails and there
\* is no container to clean up.
GetImage(p, i) ==
    /\ stage[p][i] = "image"
    /\ \/ ~Force /\ image[i] # NoImage /\ Goes(p, i, "create") /\ UNCHANGED image
       \/ /\ image[i] = NoImage \/ (Force /\ Removable(i))
          /\ \/ image' = [image EXCEPT ![i] = p] /\ Goes(p, i, "create")
             \/ image' = [image EXCEPT ![i] = NoImage] /\ Goes(p, i, "remove")
       \/ Force /\ ~Removable(i) /\ Goes(p, i, "remove") /\ UNCHANGED image
    /\ UNCHANGED <<files, container, process, summary, starts, crashes>>

\* The container of the run id and instance; its name may be taken by one that
\* an earlier process left, and cleanup then has no container to remove.
Create(p, i) ==
    /\ stage[p][i] = "create"
    /\ IF image[i] = NoImage \/ container[p][i] # "none"
       THEN Goes(p, i, "remove") /\ UNCHANGED container
       ELSE \/ /\ container' = [container EXCEPT ![p][i] = "running"]
               /\ Goes(p, i, "tests")
            \/ /\ container' = [container EXCEPT ![p][i] = "created"]
               /\ Goes(p, i, "cleanup")
    /\ UNCHANGED <<files, image, process, summary, starts, crashes>>

\* A timeout ends the evaluation; it leaves the output there was, possibly with its end marker.
GradeTimedOut(out) == "grade"
AfterTests(out) == IF out.timedOut THEN "cleanup" ELSE "grade"

\* So does a patch that does not apply, and whatever fails in the container before the tests
\* or after them.
Tests(p, i) ==
    /\ stage[p][i] = "tests"
    /\ \/ Goes(p, i, "cleanup") /\ UNCHANGED output
       \/ /\ preds[p][i] \notin Unapplied
          /\ \E out \in {o \in Outputs : o.by = preds[p][i]} :
                /\ output' = [output EXCEPT ![p][i] = out]
                /\ Goes(p, i, AfterTests(out)) \/ Goes(p, i, "cleanup")
    /\ UNCHANGED <<preds, report, docker, process, summary, starts, crashes>>

\* get_eval_report, and the report file is opened.
OpenReport(p, i) ==
    /\ stage[p][i] = "grade" /\ Goes(p, i, "write")
    /\ report' = [report EXCEPT ![p][i] = Torn]
    /\ UNCHANGED <<preds, output, docker, process, summary, starts, crashes>>

\* get_logs_eval needs both markers.
Resolves(out) == out.complete /\ out.by \in Passing

WriteReport(p, i) ==
    /\ stage[p][i] = "write"
    /\ \/ report' = [report EXCEPT ![p][i] =
            [kind |-> "report", by |-> output[p][i].by, resolved |-> Resolves(output[p][i])]]
       \/ /\ preds[p][i] = Empty   \* None, not the empty string
          /\ report' = [report EXCEPT ![p][i] =
                [kind |-> "report", by |-> Empty, resolved |-> FALSE]]
    /\ Goes(p, i, IF mode[p] = "rewrite" THEN "done" ELSE "cleanup")
    /\ UNCHANGED <<preds, output, docker, process, summary, starts, crashes>>

\* The finally block: the container, then the image if should_remove said so.
Cleanup(p, i) ==
    /\ stage[p][i] = "cleanup" /\ Goes(p, i, "remove")
    /\ \/ container' = [container EXCEPT ![p][i] = "none"]
       \/ RemoveFails /\ UNCHANGED container
    /\ UNCHANGED <<files, image, process, summary, starts, crashes>>

RemoveImage(p, i) ==
    /\ stage[p][i] = "remove" /\ Goes(p, i, "done")
    /\ image' = ImagesWithout(ShouldRemove(p, existing[p]) \cap {i})
    /\ UNCHANGED <<files, container, process, summary, starts, crashes>>

Steps(p, i) ==
    \/ Take(p, i) \/ GetImage(p, i) \/ Create(p, i) \/ Tests(p, i)
    \/ OpenReport(p, i) \/ WriteReport(p, i) \/ Cleanup(p, i) \/ RemoveImage(p, i)

Acts(p) ==
    \/ \E m \in {"run", "rewrite"} : Start(p, m)
    \/ StartPool(p) \/ EndPool(p) \/ Finish(p) \/ Crash(p)
    \/ \E i \in Instances : Steps(p, i)

Next == \E p \in Procs : Acts(p)

Spec == Init /\ [][Next]_vars

\* Threads go on; tests end, at the latest with their timeout.
FairSpec ==
    /\ Spec
    /\ \A p \in Procs :
        /\ WF_vars(StartPool(p)) /\ WF_vars(EndPool(p)) /\ WF_vars(Finish(p))
        /\ \A i \in Instances : WF_vars(Steps(p, i))

-----------------------------------------------------------------------------
(* Properties                                                              *)

\* What is counted as resolved was resolved: tests ran to their end with a patch
\* that passes them, whatever was killed, timed out, graded again or left over.
EarnsResolved ==
    \A p \in Procs : summary'[p] # summary[p] =>
        \A i \in summary'[p].resolved :
            report[p][i].by \in Passing /\ output[p][i].complete

\* An evaluation that ran into its timeout has no verdict, in a run.
SkipsTimeouts ==
    \A p \in Procs : \A i \in Instances :
        mode[p] = "run" /\ report'[p][i] # report[p][i] => ~output[p][i].timedOut

\* A process that leaves the images of others alone removes none that there was
\* when it started; only one forced to rebuild does.
KeepsPrior ==
    \A p \in Procs : \A i \in prior[p] :
        ~Clean /\ ~Force /\ (phase[p] # phase'[p] \/ stage[p] # stage'[p])
        => image'[i] # NoImage \/ image[i] = NoImage

\* A process that ends leaves no container and no image above its cache level
\* behind, except a container that docker did not remove and the image it holds.
NothingLeft ==
    \A p \in Procs : phase[p] = "idle" /\ starts > 0 /\ crashes = 0 =>
        \A i \in Instances :
            /\ container[p][i] # "none" => RemoveFails
            /\ i \in Present \ prior[p] /\ p \notin Keeping => ~Removable(i)

\* clean_images: "instance images built in the current run will be removed", and
\* no others, without clean.
OwnRemoved ==
    [][\A p \in Procs : \A i \in Instances :
        /\ ~Clean /\ ~Force /\ phase[p] = "clean" /\ phase'[p] = "idle"
        /\ image[i] # NoImage /\ image'[i] = NoImage
        => image[i] = p]_vars

\* faq.md: an instance is unresolved that completed and whose issue was not fixed.
CompletedDecided ==
    \A p \in Procs :
        summary[p].completed = summary[p].resolved \cup summary[p].unresolved

\* faq.md: an instance is resolved if "the model's patch fixed the issue".
ResolvedByItsPatch ==
    \A p \in Procs : phase[p] = "idle" =>
        \A i \in summary[p].resolved : preds[p][i] \in Passing

\* rewrite_reports is "just to reformat existing report".
RewriteOnlyReformats ==
    [][\A p \in Procs : \A i \in Instances :
        mode[p] = "rewrite" /\ mode'[p] = "rewrite" /\ phase[p] # "idle" /\ report[p][i] = NoFile
        => report'[p][i] = NoFile]_vars
=============================================================================
