------------------------------- MODULE MCBatch -------------------------------
(* Instances of what works around a batch, for TLC: the recorder and the     *)
(* dashboard that watch one, SWE-agent's attempts and its batch runner, and  *)
(* SWE-bench's harness that grades one.  They share no state, so a behaviour *)
(* runs one of them, named by "part", and leaves the others where they start.*)
EXTENDS Integers, FiniteSets, Sequences, TLC

CONSTANTS
    RecordedTotal, RecorderStarts, RecorderTorn,            \* of Rec
    ViewRequests, DeleteRequests, ViewedTotal, DeletedTotal, \* of Shown
    PageRuns, PageCases, NoRun, NoCase, PageCalls, PageClicks, PageLost,  \* of Page
    AgentRequeries, AgentTimeouts, AgentCostLimit, AgentTimeLimit, AgentVersions,  \* of Agent
    ScoringLimit, ScoringCosts, ChoosingLimit, ChoosingCosts,
    ScoringBudget, ChoosingBudget, AttemptLimit, MaxAttempts, MaxAccepts, Scores,
    AcceptScore, Penalty, MaxQueries,                       \* of Retrying
    BatchInstances, BatchWorkers, BatchCrashes,             \* of Batch
    LegacyCases, MaxLegacyStarts, LegacyTests, LegacyStatuses, NoStatus,  \* of Legacy
    PullCount, MaxCollects, MaxCollectKills,                \* of Collected
    GradedInstances, SharedInstances, ForcedInstances, Passing, Failing, Unapplied,
    Grader, Keepers, GradedWorkers, ForcedWorkers, GradedStarts, SharedStarts, ForcedStarts,
    GradedCrashes, SharedCrashes, ForcedCrashes,
    CleanImages, RemoveFails,                               \* of Harnessing
    ImageInstances, ImageEnvs, ImageCalls,                  \* of Images
    GradedTests                                             \* of Grade
VARIABLE part

VARIABLES inf, evals, evalFile, monFile, rewrites, recorderPc, snap, prev, due,
          stateFile, lastEntry, told, recorderStarts
recorderVars == <<inf, evals, evalFile, monFile, rewrites, recorderPc, snap, prev, due,
                  stateFile, lastEntry, told, recorderStarts>>
Rec == INSTANCE Recorder WITH
    Total <- RecordedTotal, MaxStarts <- RecorderStarts, MaxTorn <- RecorderTorn,
    pc <- recorderPc, last <- lastEntry, starts <- recorderStarts

VARIABLES runner, worker, rows, entries, dir, file, monitor, runSummary, covers, newer,
          fresh, script, got, pc, kind, saw, shielded
dashboardVars == <<runner, worker, rows, entries, dir, file, monitor, runSummary, covers,
                   newer, fresh, script, got, pc, kind, saw, shielded>>
Shown(Asking, Asked, Most) == INSTANCE Dashboard WITH
    Requests <- Asking, Kinds <- Asked, N <- Most, Running <- TRUE,
    ScriptFails <- FALSE, summary <- runSummary

VARIABLES alive, sel, detail, case, trace, loading, cached, calls, clicks, lost
pageVars == <<alive, sel, detail, case, trace, loading, cached, calls, clicks, lost>>
Page == INSTANCE DashboardPage WITH
    Runs <- PageRuns, Cases <- PageCases, MaxCalls <- PageCalls, MaxClicks <- PageClicks,
    MaxLost <- PageLost

VARIABLES fails, timeouts, time, cost, last, info, done, agentEnv, seen
agentVars == <<fails, timeouts, time, cost, last, info, done, agentEnv, seen>>
Agent == INSTANCE SweAgent WITH
    MaxRequeries <- AgentRequeries, MaxTimeouts <- AgentTimeouts,
    CostLimit <- AgentCostLimit, TimeLimit <- AgentTimeLimit, Versions <- AgentVersions,
    env <- agentEnv

VARIABLES retryPc, cur, attempts, spent, reviews, chosen, saved, returned
retryVars == <<retryPc, cur, attempts, spent, reviews, chosen, saved, returned>>
Retrying(Choose, Most, Costs) == INSTANCE SweRetry WITH
    Chooser <- Choose, Limit <- Most, AgentLimit <- AttemptLimit, StepCosts <- Costs,
    MinBudget <- IF Choose THEN ChoosingBudget ELSE ScoringBudget, MaxCalls <- MaxQueries,
    pc <- retryPc

VARIABLES run, traj, pred, batchPhase, stop, main, batchPreds
batchVars == <<run, traj, pred, batchPhase, stop, main, batchPreds>>
Batch == INSTANCE SweBatch WITH
    Instances <- BatchInstances, Workers <- BatchWorkers, Redo <- FALSE,
    CloseFails <- TRUE, MaxCrashes <- BatchCrashes, phase <- batchPhase,
    preds <- batchPreds

VARIABLES preds, report, output, image, container, phase, mode, stage, prior, existing,
          summary, starts, crashes
harnessVars == <<preds, report, output, image, container, phase, mode, stage, prior,
                 existing, summary, starts, crashes>>
Harnessing(h) == INSTANCE Harness WITH
    Procs <- h.procs, Instances <- h.instances, Passing <- Passing, Failing <- h.failing,
    Unapplied <- h.unapplied, Workers <- h.workers, Keeping <- h.keeping,
    Clean <- CleanImages, Force <- h.force, RemoveFails <- h.removeFails,
    MaxStarts <- h.starts, MaxCrashes <- h.crashes

\* One process that is killed and started again; one that shares its images with others,
\* which leave them all; and one that rebuilds them.
GradedSetting ==
    [procs |-> {Grader}, instances |-> GradedInstances, failing |-> Failing,
     unapplied |-> Unapplied, workers |-> GradedWorkers, keeping |-> {}, force |-> FALSE,
     removeFails |-> RemoveFails, starts |-> GradedStarts, crashes |-> GradedCrashes]
SharedSetting ==
    [procs |-> {Grader} \cup Keepers, instances |-> SharedInstances, failing |-> {},
     unapplied |-> {}, workers |-> GradedWorkers, keeping |-> Keepers \ {Grader}, force |-> FALSE,
     removeFails |-> FALSE, starts |-> SharedStarts, crashes |-> SharedCrashes]
ForcedSetting ==
    [procs |-> {Grader}, instances |-> ForcedInstances, failing |-> {}, unapplied |-> {},
     workers |-> ForcedWorkers, keeping |-> {}, force |-> TRUE, removeFails |-> RemoveFails,
     starts |-> ForcedStarts, crashes |-> ForcedCrashes]

VARIABLES call, force, base, env, inst, buildPhase, todo, attempted, envFailed,
          succeeded, failed
imageVars == <<call, force, base, env, inst, buildPhase, todo, attempted, envFailed,
               succeeded, failed>>
Images == INSTANCE ImageBuild WITH
    Instances <- ImageInstances, Envs <- ImageEnvs, MaxCalls <- ImageCalls,
    phase <- buildPhase

VARIABLES f2p, p2p, failOnly, sm
gradeVars == <<f2p, p2p, failOnly, sm>>
Grade == INSTANCE Grading WITH Tests <- GradedTests

VARIABLES source, copy, log, out, results, legacyBatch, legacyPc, at, tested, legacyStarts
legacyVars == <<source, copy, log, out, results, legacyBatch, legacyPc, at, tested,
                legacyStarts>>
Legacy(Cases, Most) == INSTANCE LegacyBatch WITH
    N <- Cases, MaxStarts <- Most, Tests <- LegacyTests, Statuses <- LegacyStatuses,
    batch <- legacyBatch, pc <- legacyPc, starts <- legacyStarts

VARIABLES pullKind, prs, all, tasks, collecting, line, inspected, collectStarts, collectKills
collectVars == <<pullKind, prs, all, tasks, collecting, line, inspected, collectStarts,
                 collectKills>>
Collected == INSTANCE Collect WITH
    N <- PullCount, MaxStarts <- MaxCollects, MaxKills <- MaxCollectKills,
    kind <- pullKind, output <- tasks, pc <- collecting,
    at <- line, seen <- inspected, starts <- collectStarts,
    kills <- collectKills

\* What each module assumes of its constants.
ASSUME InstancesAssumption ==
    /\ Rec!RecorderAssumption /\ Shown(ViewRequests, {"view"}, ViewedTotal)!DashboardAssumption
    /\ Shown(DeleteRequests, {"delete"}, DeletedTotal)!DashboardAssumption
    /\ Page!PageAssumption /\ Agent!SweAgentAssumption
    /\ Retrying(FALSE, ScoringLimit, ScoringCosts)!SweRetryAssumption
    /\ Retrying(TRUE, ChoosingLimit, ChoosingCosts)!SweRetryAssumption
    /\ Batch!SweBatchAssumption /\ Images!ImageBuildAssumption
    /\ Harnessing(GradedSetting)!HarnessAssumption
    /\ Harnessing(SharedSetting)!HarnessAssumption
    /\ Harnessing(ForcedSetting)!HarnessAssumption
    /\ Legacy(LegacyCases, 1)!LegacyAssumption /\ Legacy(1, MaxLegacyStarts)!LegacyAssumption
    /\ Collected!CollectAssumption

vars == <<part, recorderVars, dashboardVars, pageVars, agentVars, retryVars, batchVars,
          harnessVars, imageVars, gradeVars, legacyVars, collectVars>>

Init ==
    /\ part \in {"recorder", "viewed", "deleted", "page", "agent", "scoring", "choosing",
                 "batch", "graded", "shared", "forced", "images", "grade", "legacy_two",
                 "legacy_again", "collected"}
    /\ Rec!Init /\ Page!Init /\ Agent!Init /\ Batch!Init
    /\ IF part = "choosing" THEN Retrying(TRUE, ChoosingLimit, ChoosingCosts)!Init
         ELSE Retrying(FALSE, ScoringLimit, ScoringCosts)!Init
    /\ IF part = "deleted" THEN Shown(DeleteRequests, {"delete"}, DeletedTotal)!Init
         ELSE Shown(ViewRequests, {"view"}, ViewedTotal)!Init
    /\ IF part = "shared" THEN Harnessing(SharedSetting)!Init
         ELSE IF part = "forced" THEN Harnessing(ForcedSetting)!Init
         ELSE Harnessing(GradedSetting)!Init
    /\ part \notin {"graded", "shared", "forced"} => \A i \in DOMAIN image : image[i] = "before"
    /\ Images!Init
    /\ part # "images" => base = Images!Old /\ (\A e \in DOMAIN env : env[e] = Images!Old)
                          /\ (\A i \in DOMAIN inst : inst[i] = Images!Old)
    /\ Grade!Init
    /\ part # "grade" => f2p = GradedTests /\ failOnly /\ (\A t \in DOMAIN sm : sm[t] = "PASSED")
    /\ IF part = "legacy_two" THEN Legacy(LegacyCases, 1)!Init ELSE Legacy(1, MaxLegacyStarts)!Init
    /\ part \notin {"legacy_two", "legacy_again"} => source[1].lists
    /\ Collected!Init
    /\ part # "collected" => \A k \in DOMAIN pullKind : pullKind[k] = "tested"

Next ==
    /\ UNCHANGED part
    /\ IF part = "recorder" THEN Rec!Next ELSE UNCHANGED recorderVars
    /\ IF part = "viewed" THEN Shown(ViewRequests, {"view"}, ViewedTotal)!Next
         ELSE IF part = "deleted" THEN Shown(DeleteRequests, {"delete"}, DeletedTotal)!Next
         ELSE UNCHANGED dashboardVars
    /\ IF part = "page" THEN Page!Next ELSE UNCHANGED pageVars
    /\ IF part = "agent" THEN Agent!Next ELSE UNCHANGED agentVars
    /\ IF part = "scoring" THEN Retrying(FALSE, ScoringLimit, ScoringCosts)!Next
         ELSE IF part = "choosing" THEN Retrying(TRUE, ChoosingLimit, ChoosingCosts)!Next
         ELSE UNCHANGED retryVars
    /\ IF part = "batch" THEN Batch!Next ELSE UNCHANGED batchVars
    /\ IF part = "graded" THEN Harnessing(GradedSetting)!Next
         ELSE IF part = "shared" THEN Harnessing(SharedSetting)!Next
         ELSE IF part = "forced" THEN Harnessing(ForcedSetting)!Next
         ELSE UNCHANGED harnessVars
    /\ IF part = "images" THEN Images!Next ELSE UNCHANGED imageVars
    /\ IF part = "grade" THEN Grade!Next ELSE UNCHANGED gradeVars
    /\ IF part = "legacy_two" THEN Legacy(LegacyCases, 1)!Next
         ELSE IF part = "legacy_again" THEN Legacy(1, MaxLegacyStarts)!Next
         ELSE UNCHANGED legacyVars
    /\ IF part = "collected" THEN Collected!Next ELSE UNCHANGED collectVars

Spec == Init /\ [][Next]_vars

-----------------------------------------------------------------------------
(* Properties: those of the modules, at these instances.                     *)

BatchTypeOK ==
    CASE part = "recorder" -> Rec!RecorderTypeOK
      [] part = "viewed" -> Shown(ViewRequests, {"view"}, ViewedTotal)!DashboardTypeOK
      [] part = "deleted" -> Shown(DeleteRequests, {"delete"}, DeletedTotal)!DashboardTypeOK
      [] part = "page" -> Page!PageTypeOK
      [] part = "agent" -> Agent!SweAgentTypeOK
      [] part = "scoring" -> Retrying(FALSE, ScoringLimit, ScoringCosts)!SweRetryTypeOK
      [] part = "choosing" -> Retrying(TRUE, ChoosingLimit, ChoosingCosts)!SweRetryTypeOK
      [] part = "batch" -> Batch!SweBatchTypeOK
      [] part = "graded" -> Harnessing(GradedSetting)!HarnessTypeOK
      [] part = "shared" -> Harnessing(SharedSetting)!HarnessTypeOK
      [] part = "forced" -> Harnessing(ForcedSetting)!HarnessTypeOK
      [] part = "images" -> Images!ImageBuildTypeOK
      [] part = "legacy_two" -> Legacy(LegacyCases, 1)!LegacyTypeOK
      [] part = "legacy_again" -> Legacy(1, MaxLegacyStarts)!LegacyTypeOK
      [] part = "collected" -> Collected!CollectTypeOK
      [] OTHER -> TRUE

\* Those that watch a run show what it did: whatever the recorder's restarts and torn
\* files, progress.md skips no progress; and however answers overtake each other, the
\* page caches a trace under its own key.
WatchersFaithful ==
    /\ part = "recorder" => Rec!NothingSkipped
    /\ part = "page" => Page!CacheHoldsOwnTraces

\* Refreshes of several requests overlap, and no row leaves the summary; a run
\* that showed progress when a DELETE arrived is removed only once finished, though the
\* request waits several times before it looks.  (A run that showed none may be deleted
\* while it works.)
SummaryKept ==
    [][/\ part = "viewed" => Shown(ViewRequests, {"view"}, ViewedTotal)!RowsGrow
       /\ part = "deleted" => Shown(DeleteRequests, {"delete"}, DeletedTotal)!ProtectsProgress]_vars

\* Whatever ended an attempt, the work in a container that lives is submitted: its tree when
\* the diff of it could be taken, what the last state command saw when git add failed.  It is
\* lost where git diff fails, which empties the patch, or the patch cannot be read.
PatchOfTheLiving == part = "agent" => Agent!PatchOfTheLiving

\* An attempt that starts with some of the budget left exceeds it by its last query at most,
\* and none starts without when the loop asks for a minimum; with the default minimum of 0
\* one may, and is then given no limit at all.  An accepted attempt is the one returned, and
\* the chooser takes a submitted one when there are two.
AttemptChosen ==
    /\ part = "scoring" => /\ Retrying(FALSE, ScoringLimit, ScoringCosts)!BudgetKept
                           /\ Retrying(FALSE, ScoringLimit, ScoringCosts)!AcceptedIsReturned
    /\ part = "choosing" => /\ Retrying(TRUE, ChoosingLimit, ChoosingCosts)!BudgetKept
                            /\ Retrying(TRUE, ChoosingLimit, ChoosingCosts)!ChoiceIsSubmitted

\* Across kills and restarts a prediction is that of the trajectory beside it; and the
\* legacy batch gives each session its lists of tests, and counts the case that it left;
\* and collected instances are those of the list, in its order, but for what kills lose.
PredictionMatches ==
    /\ part = "batch" => Batch!PredictionMatches
    /\ part = "legacy_two" => /\ Legacy(LegacyCases, 1)!CaseHasLists
                              /\ Legacy(LegacyCases, 1)!BatchAccounts
    /\ part = "legacy_again" => /\ Legacy(1, MaxLegacyStarts)!CaseHasLists
                                /\ Legacy(1, MaxLegacyStarts)!BatchAccounts
    /\ part = "collected" => Collected!InListOrder /\ Collected!LossBounded

\* What is counted as resolved was; a timeout has no verdict; and a process
\* that shares its images removes none that there was when it started.
VerdictsEarned ==
    [][/\ part = "graded" => /\ Harnessing(GradedSetting)!EarnsResolved
                            /\ Harnessing(GradedSetting)!SkipsTimeouts
       /\ part = "shared" => Harnessing(SharedSetting)!KeepsPrior]_vars

\* What is reported built stands on an environment that was, and after a forced call no
\* layer of an earlier build is left; and a harness process that ends leaves no
\* container and no image of its own behind.
ImagesStand ==
    /\ part = "images" => Images!SuccessStands /\ Images!ForcedIsFresh
    /\ part = "graded" => Harnessing(GradedSetting)!NothingLeft
    /\ part = "forced" => Harnessing(ForcedSetting)!NothingLeft

\* An instance that is resolved has no required test that failed; and by the lists of a
\* repaired one the gold patch is resolved and the tests alone are not.
ResolvedHasNoFailure ==
    /\ part = "grade" => Grade!ResolvedHasNoFailure
    /\ part = "legacy_two" => Legacy(LegacyCases, 1)!RepairEarned
    /\ part = "legacy_again" => Legacy(1, MaxLegacyStarts)!RepairEarned
=============================================================================
