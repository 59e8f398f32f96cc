-------------------------- MODULE SupervisionProofs --------------------------
(***************************************************************************)
(* Proofs about Supervision, for every set of instances and any number of  *)
(* losses: what "done" in monitor_status.json and the supervisor's exit    *)
(* mean.                                                                   *)
(***************************************************************************)
EXTENDS Supervision, FiniteSetTheorems, TLAPS

-----------------------------------------------------------------------------
(* The inductive invariant.                                                *)

\* Reports are about published rows, the status follows the summary, and
\* it exists before the first row does.
FilesInv ==
    /\ announced \subseteq summary
    /\ summary # {} => posted
    /\ infer \in {"run", "post", "wait"} => posted
    /\ reports \subseteq summary
    /\ strays \subseteq summary
    /\ \A w \in EvalWorkers : tried[w] \subseteq summary

\* The counts of the round.  The default total goes with a count of zero
\* once the status has been read: rows seen before imply a status then.
CountsInv ==
    /\ mon = "status" => snap.total = DefaultTotal /\ (snap.inf = 0 \/ posted)
    /\ mon = "reports" => \/ snap.total = DefaultTotal /\ snap.inf = 0
                          \/ snap.total = N /\ snap.inf <= Cardinality(announced)

\* Whoever says "done" is right, and the status has announced every row.
DoneInv ==
    snap.done \/ monFile.done \/ sup = "exited" => Complete /\ announced = Instances

SInv == SupervisionTypeOK /\ FilesInv /\ CountsInv /\ DoneInv

-----------------------------------------------------------------------------
(* Cardinalities.                                                          *)

LEMMA Sizes ==
    ASSUME NEW S \in SUBSET Instances
    PROVE  /\ Cardinality(S) \in Counts /\ N \in Nat /\ N > 0
           /\ Cardinality(S) >= N => S = Instances
           /\ \A T \in SUBSET S : Cardinality(T) <= Cardinality(S)
<1>1. /\ IsFiniteSet(S) /\ Cardinality(S) <= N
      /\ Cardinality(S) = N => S = Instances
  BY SupervisionAssumption, FS_Subset DEF N
<1>2. Cardinality(S) \in Nat /\ N \in Nat
  BY <1>1, SupervisionAssumption, FS_CardinalityType DEF N
<1>3. N # 0
  BY SupervisionAssumption, FS_EmptySet DEF N
<1>4. \A T \in SUBSET S : Cardinality(T) <= Cardinality(S)
  BY <1>1, FS_Subset
<1> QED
  BY <1>1, <1>2, <1>3, <1>4 DEF Counts

-----------------------------------------------------------------------------
(* Type correctness.                                                       *)

LEMMA NoViewType == NoView \in [done : BOOLEAN, inf : Counts, total : Totals]
BY Sizes DEF NoView, Totals, Counts

LEMMA InitSupervisionTypeOK == Init => SupervisionTypeOK
<1> SUFFICES ASSUME Init PROVE SupervisionTypeOK
  OBVIOUS
<1>1. kills \in 0..MaxKills
  BY SupervisionAssumption DEF Init
<1>2. tried \in [EvalWorkers -> SUBSET Instances]
  BY DEF Init
<1>3. evalUp \subseteq EvalWorkers
  BY DEF Init, EvalWorkers
<1>4. /\ snap \in [done : BOOLEAN, inf : Counts, total : Totals]
      /\ monFile \in [done : BOOLEAN, inf : Counts, total : Totals]
  BY NoViewType DEF Init
<1> QED
  BY <1>1, <1>2, <1>3, <1>4 DEF Init, SupervisionTypeOK

LEMMA StepSupervisionTypeOK == SupervisionTypeOK /\ [Next]_vars => SupervisionTypeOK'
<1> SUFFICES ASSUME SupervisionTypeOK, [Next]_vars PROVE SupervisionTypeOK'
  OBVIOUS
<1> USE SupervisionAssumption DEF SupervisionTypeOK
<1>1. CASE RunnerBoots
  BY <1>1 DEF RunnerBoots, evalVars, monVars
<1>2. CASE RunnerPosts
  BY <1>2 DEF RunnerPosts, evalVars, monVars
<1>3. CASE RunnerEnds
  BY <1>3 DEF RunnerEnds, evalVars, monVars
<1>4. CASE RunnerFails
  BY <1>4 DEF RunnerFails, SessionEnds, WorkerGone, evalVars, monVars
<1>5. CASE PipelineEnds
  BY <1>5 DEF PipelineEnds, SessionEnds, WorkerGone, evalVars, monVars
<1>6. CASE MonReadsSummary
  BY <1>6, Sizes, NoViewType DEF MonReadsSummary, inferVars, evalVars, NoView
<1>7. CASE MonReadsStatus
  BY <1>7, Sizes DEF MonReadsStatus, inferVars, evalVars, Totals
<1>8. CASE MonCountsReports
  BY <1>8 DEF MonCountsReports, MonitorDone, inferVars, evalVars
<1>9. CASE MonWrites
  BY <1>9 DEF MonWrites, inferVars, evalVars
<1>10. CASE EnsureRouter
  BY <1>10 DEF EnsureRouter, inferVars, evalVars, monVars
<1>11. CASE EnsureEval
  <2>1. CASE UNCHANGED <<evalUp, tried>>
    BY <1>11, <2>1 DEF EnsureEval, inferVars, monVars
  <2>2. ASSUME NEW s \in TakenOver,
               evalUp' = evalUp \cup {"supervised"},
               tried' = [tried EXCEPT !["supervised"] = s]
        PROVE  SupervisionTypeOK'
    <3>1. s \in SUBSET Instances /\ "supervised" \in EvalWorkers
      BY DEF TakenOver, EvalWorkers
    <3> QED
      BY <1>11, <2>2, <3>1 DEF EnsureEval, inferVars, monVars
  <2> QED
    BY <1>11, <2>1, <2>2 DEF EnsureEval
<1>12. CASE EnsureMonitor
  BY <1>12 DEF EnsureMonitor, inferVars, evalVars
<1>13. CASE SupervisorExits
  BY <1>13 DEF SupervisorExits, inferVars, evalVars, monVars
<1>14. CASE SupervisorGoesOn
  BY <1>14 DEF SupervisorGoesOn, inferVars, evalVars, monVars
<1>15. CASE EnsureInference
  BY <1>15 DEF EnsureInference, evalVars, monVars
<1>16. CASE RunnerKilled
  <2> USE <1>16 DEF RunnerKilled, Lose
  <2>1. kills' \in 0..MaxKills
    OBVIOUS
  <2>2. CASE SessionEnds
    BY <2>1, <2>2 DEF SessionEnds, WorkerGone, evalVars, monVars
  <2>3. CASE infer' = "off" /\ UNCHANGED <<routerUp, byPipeline, summary, posted,
                                          announced, evalVars, monVars, sup>>
    BY <2>1, <2>3 DEF evalVars, monVars
  <2> QED
    BY <2>2, <2>3
<1>17. CASE RouterLost
  <2>1. kills' \in 0..MaxKills /\ routerUp' = FALSE
    BY <1>17 DEF RouterLost, Lose
  <2>2. UNCHANGED <<inferVars, evalVars, monVars, sup>>
    BY <1>17 DEF RouterLost
  <2> QED
    BY <2>1, <2>2 DEF inferVars, evalVars, monVars
<1>18. CASE MonKilled
  BY <1>18 DEF MonKilled, Lose, inferVars, evalVars
<1>19. CASE SupervisorLost
  BY <1>19 DEF SupervisorLost, Lose, inferVars, evalVars, monVars
<1>20. ASSUME NEW i \in Instances, RunnerPublishes(i) PROVE SupervisionTypeOK'
  BY <1>20 DEF RunnerPublishes, evalVars, monVars
<1>21. ASSUME NEW i \in Instances, StrayEnds(i) PROVE SupervisionTypeOK'
  BY <1>21 DEF StrayEnds, inferVars, monVars
<1>22. ASSUME NEW w \in EvalWorkers, WorkerExits(w) PROVE SupervisionTypeOK'
  BY <1>22 DEF WorkerExits, WorkerGone, inferVars, monVars
<1>23. ASSUME NEW w \in EvalWorkers, WorkerKilled(w) PROVE SupervisionTypeOK'
  BY <1>23 DEF WorkerKilled, Lose, WorkerGone, inferVars, monVars
<1>24. ASSUME NEW w \in EvalWorkers, NEW i \in Instances, WorkerReports(w, i) PROVE SupervisionTypeOK'
  BY <1>24 DEF WorkerReports, inferVars, monVars
<1>25. ASSUME NEW w \in EvalWorkers, NEW i \in Instances, WorkerFindsNoReport(w, i) PROVE SupervisionTypeOK'
  BY <1>25 DEF WorkerFindsNoReport, inferVars, monVars
<1>26. CASE UNCHANGED vars
  BY <1>26 DEF vars, inferVars, evalVars, monVars
<1> QED
  BY <1>1, <1>2, <1>3, <1>4, <1>5, <1>6, <1>7, <1>8, <1>9, <1>10, <1>11, <1>12,
     <1>13, <1>14, <1>15, <1>16, <1>17, <1>18, <1>19, <1>20, <1>21, <1>22, <1>23, <1>24, <1>25, <1>26
     DEF Next, RunnerStep, MonitorStep, SupervisorStep, WorkerStep

\* Every variable of the supervision model keeps its type.
THEOREM SupervisionTypeCorrect == Spec => []SupervisionTypeOK
BY InitSupervisionTypeOK, StepSupervisionTypeOK, PTL DEF Spec

-----------------------------------------------------------------------------
(* The invariant is inductive.                                             *)

LEMMA InitSInv == Init => SInv
BY InitSupervisionTypeOK DEF Init, SInv, FilesInv, CountsInv, DoneInv, NoView

LEMMA StepSInv == SInv /\ [Next]_vars => SInv'
<1> SUFFICES ASSUME SInv, [Next]_vars PROVE SInv'
  OBVIOUS
<1>0. SupervisionTypeOK /\ SupervisionTypeOK'
  BY StepSupervisionTypeOK DEF SInv
<1> USE <1>0 DEF SInv
<1>1. CASE RunnerBoots
  <2> USE <1>1 DEF RunnerBoots, evalVars, monVars, SupervisionTypeOK
  <2>1. FilesInv'
    BY DEF FilesInv
  <2>2. CountsInv'
    <3>1. announced' \in SUBSET Instances /\ announced \in SUBSET announced'
      BY DEF FilesInv
    <3>2. /\ Cardinality(announced) <= Cardinality(announced')
          /\ Cardinality(announced) \in Nat /\ Cardinality(announced') \in Nat
      BY <3>1, Sizes DEF Counts
    <3>3. N \in Nat
      BY Sizes
    <3> QED
      BY <3>2, <3>3 DEF CountsInv, FilesInv, Counts
  <2>3. DoneInv'
    BY DEF DoneInv, Complete, FilesInv
  <2> QED
    BY <2>1, <2>2, <2>3
<1>2. CASE RunnerPosts
  <2> USE <1>2 DEF RunnerPosts, evalVars, monVars, SupervisionTypeOK
  <2>1. FilesInv'
    BY DEF FilesInv
  <2>2. CountsInv'
    <3>1. announced' \in SUBSET Instances /\ announced \in SUBSET announced'
      BY DEF FilesInv
    <3>2. /\ Cardinality(announced) <= Cardinality(announced')
          /\ Cardinality(announced) \in Nat /\ Cardinality(announced') \in Nat
      BY <3>1, Sizes DEF Counts
    <3>3. N \in Nat
      BY Sizes
    <3> QED
      BY <3>2, <3>3 DEF CountsInv, FilesInv, Counts
  <2>3. DoneInv'
    BY DEF DoneInv, Complete, FilesInv
  <2> QED
    BY <2>1, <2>2, <2>3
<1>3. CASE RunnerEnds
  <2> USE <1>3 DEF RunnerEnds, evalVars, monVars, SupervisionTypeOK
  <2>1. FilesInv'
    BY DEF FilesInv
  <2>2. CountsInv'
    BY DEF CountsInv
  <2>3. DoneInv'
    BY DEF DoneInv, Complete
  <2> QED
    BY <2>1, <2>2, <2>3
<1>4. CASE RunnerFails
  <2> USE <1>4 DEF RunnerFails, SessionEnds, WorkerGone, evalVars, monVars, SupervisionTypeOK
  <2>1. FilesInv'
    BY DEF FilesInv
  <2>2. CountsInv'
    BY DEF CountsInv
  <2>3. DoneInv'
    BY DEF DoneInv, Complete
  <2> QED
    BY <2>1, <2>2, <2>3
<1>5. CASE PipelineEnds
  <2> USE <1>5 DEF PipelineEnds, SessionEnds, WorkerGone, evalVars, monVars, SupervisionTypeOK
  <2>1. FilesInv'
    BY DEF FilesInv
  <2>2. CountsInv'
    BY DEF CountsInv
  <2>3. DoneInv'
    BY DEF DoneInv, Complete
  <2> QED
    BY <2>1, <2>2, <2>3
<1>6. CASE MonReadsSummary
  <2> USE <1>6 DEF MonReadsSummary, inferVars, evalVars, SupervisionTypeOK
  <2>1. FilesInv'
    BY DEF FilesInv
  <2>2. CountsInv'
    BY Sizes, FS_EmptySet DEF CountsInv, FilesInv, NoView
  <2>3. DoneInv'
    BY DEF DoneInv, Complete, NoView
  <2> QED
    BY <2>1, <2>2, <2>3
<1>7. CASE MonReadsStatus
  <2> USE <1>7 DEF MonReadsStatus, inferVars, evalVars, SupervisionTypeOK
  <2>1. FilesInv'
    BY DEF FilesInv
  <2>2. CountsInv'
    BY Sizes DEF CountsInv
  <2>3. DoneInv'
    BY DEF DoneInv, Complete
  <2> QED
    BY <2>1, <2>2, <2>3
<1>8. CASE MonCountsReports
  <2> USE <1>8 DEF MonCountsReports, MonitorDone, inferVars, evalVars, SupervisionTypeOK
  <2>1. FilesInv'
    BY DEF FilesInv
  <2>2. CountsInv'
    BY DEF CountsInv
  <2>3. MonitorDone(snap) => Complete /\ announced = Instances
    <3> SUFFICES ASSUME MonitorDone(snap) PROVE Complete /\ announced = Instances
      OBVIOUS
    <3>1. snap.total = N /\ snap.inf <= Cardinality(announced)
      BY SupervisionAssumption DEF CountsInv
    <3>2. announced \in SUBSET Instances /\ Cardinality(announced) \in Nat /\ N \in Nat
      BY Sizes DEF Counts
    <3>3. Cardinality(announced) >= N /\ Cardinality(reports) >= N
      BY <3>1, <3>2 DEF Counts
    <3>4. announced = Instances /\ reports = Instances
      BY <3>3, Sizes
    <3> QED
      BY <3>4 DEF Complete, FilesInv
  <2>4. DoneInv'
    BY <2>3 DEF DoneInv, Complete
  <2> QED
    BY <2>1, <2>2, <2>4
<1>9. CASE MonWrites
  <2> USE <1>9 DEF MonWrites, inferVars, evalVars, SupervisionTypeOK
  <2>1. FilesInv'
    BY DEF FilesInv
  <2>2. CountsInv'
    BY DEF CountsInv
  <2>3. DoneInv'
    BY DEF DoneInv, Complete
  <2> QED
    BY <2>1, <2>2, <2>3
<1>10. CASE EnsureRouter
  <2> USE <1>10 DEF EnsureRouter, inferVars, evalVars, monVars, SupervisionTypeOK
  <2>1. FilesInv'
    BY DEF FilesInv
  <2>2. CountsInv'
    BY DEF CountsInv
  <2>3. DoneInv'
    BY DEF DoneInv, Complete
  <2> QED
    BY <2>1, <2>2, <2>3
<1>11. CASE EnsureEval
  <2> USE <1>11 DEF EnsureEval, TakenOver, inferVars, monVars, SupervisionTypeOK
  <2>1. FilesInv'
    BY DEF FilesInv
  <2>2. CountsInv'
    BY DEF CountsInv
  <2>3. DoneInv'
    BY DEF DoneInv, Complete
  <2> QED
    BY <2>1, <2>2, <2>3
<1>12. CASE EnsureMonitor
  <2> USE <1>12 DEF EnsureMonitor, inferVars, evalVars, SupervisionTypeOK
  <2>1. FilesInv'
    BY DEF FilesInv
  <2>2. CountsInv'
    BY DEF CountsInv
  <2>3. DoneInv'
    BY DEF DoneInv, Complete
  <2> QED
    BY <2>1, <2>2, <2>3
<1>13. CASE SupervisorExits
  <2> USE <1>13 DEF SupervisorExits, inferVars, evalVars, monVars, SupervisionTypeOK
  <2>1. FilesInv'
    BY DEF FilesInv
  <2>2. CountsInv'
    BY DEF CountsInv
  <2>3. DoneInv'
    BY DEF DoneInv, Complete, Views, SeesDone, NoView
  <2> QED
    BY <2>1, <2>2, <2>3
<1>14. CASE SupervisorGoesOn
  <2> USE <1>14 DEF SupervisorGoesOn, inferVars, evalVars, monVars, SupervisionTypeOK
  <2>1. FilesInv'
    BY DEF FilesInv
  <2>2. CountsInv'
    BY DEF CountsInv
  <2>3. DoneInv'
    BY DEF DoneInv, Complete
  <2> QED
    BY <2>1, <2>2, <2>3
<1>15. CASE EnsureInference
  <2> USE <1>15 DEF EnsureInference, evalVars, monVars, SupervisionTypeOK
  <2>1. FilesInv'
    BY DEF FilesInv
  <2>2. CountsInv'
    BY DEF CountsInv
  <2>3. DoneInv'
    BY DEF DoneInv, Complete
  <2> QED
    BY <2>1, <2>2, <2>3
<1>16. CASE RunnerKilled
  <2> USE <1>16 DEF RunnerKilled, Lose, SessionEnds, WorkerGone, evalVars, monVars, SupervisionTypeOK
  <2>1. FilesInv'
    BY DEF FilesInv
  <2>2. CountsInv'
    BY DEF CountsInv
  <2>3. DoneInv'
    BY DEF DoneInv, Complete
  <2> QED
    BY <2>1, <2>2, <2>3
<1>17. CASE RouterLost
  <2> USE <1>17 DEF RouterLost, Lose, inferVars, evalVars, monVars, SupervisionTypeOK
  <2>1. FilesInv'
    BY DEF FilesInv
  <2>2. CountsInv'
    BY DEF CountsInv
  <2>3. DoneInv'
    BY DEF DoneInv, Complete
  <2> QED
    BY <2>1, <2>2, <2>3
<1>18. CASE MonKilled
  <2> USE <1>18 DEF MonKilled, Lose, inferVars, evalVars, SupervisionTypeOK
  <2>1. FilesInv'
    BY DEF FilesInv
  <2>2. CountsInv'
    BY DEF CountsInv
  <2>3. DoneInv'
    BY DEF DoneInv, Complete
  <2> QED
    BY <2>1, <2>2, <2>3
<1>19. CASE SupervisorLost
  <2> USE <1>19 DEF SupervisorLost, Lose, inferVars, evalVars, monVars, SupervisionTypeOK
  <2>1. FilesInv'
    BY DEF FilesInv
  <2>2. CountsInv'
    BY DEF CountsInv
  <2>3. DoneInv'
    BY DEF DoneInv, Complete
  <2> QED
    BY <2>1, <2>2, <2>3
<1>20. ASSUME NEW i \in Instances, RunnerPublishes(i) PROVE SInv'
  <2> USE <1>20 DEF RunnerPublishes, evalVars, monVars, SupervisionTypeOK
  <2>1. FilesInv'
    BY DEF FilesInv
  <2>2. CountsInv'
    BY DEF CountsInv
  <2>3. DoneInv'
    BY DEF DoneInv, Complete
  <2> QED
    BY <2>1, <2>2, <2>3
<1>21. ASSUME NEW i \in Instances, StrayEnds(i) PROVE SInv'
  <2> USE <1>21 DEF StrayEnds, inferVars, monVars, SupervisionTypeOK
  <2>1. FilesInv'
    BY DEF FilesInv
  <2>2. CountsInv'
    BY DEF CountsInv
  <2>3. DoneInv'
    BY DEF DoneInv, Complete
  <2> QED
    BY <2>1, <2>2, <2>3
<1>22. ASSUME NEW w \in EvalWorkers, WorkerExits(w) PROVE SInv'
  <2> USE <1>22 DEF WorkerExits, WorkerGone, inferVars, monVars, SupervisionTypeOK
  <2>1. FilesInv'
    BY DEF FilesInv
  <2>2. CountsInv'
    BY DEF CountsInv
  <2>3. DoneInv'
    BY DEF DoneInv, Complete
  <2> QED
    BY <2>1, <2>2, <2>3
<1>23. ASSUME NEW w \in EvalWorkers, WorkerKilled(w) PROVE SInv'
  <2> USE <1>23 DEF WorkerKilled, Lose, WorkerGone, inferVars, monVars, SupervisionTypeOK
  <2>1. FilesInv'
    BY DEF FilesInv
  <2>2. CountsInv'
    BY DEF CountsInv
  <2>3. DoneInv'
    BY DEF DoneInv, Complete
  <2> QED
    BY <2>1, <2>2, <2>3
<1>24. ASSUME NEW w \in EvalWorkers, NEW i \in Instances, WorkerReports(w, i) PROVE SInv'
  <2> USE <1>24 DEF WorkerReports, inferVars, monVars, SupervisionTypeOK
  <2>1. FilesInv'
    BY DEF FilesInv
  <2>2. CountsInv'
    BY DEF CountsInv
  <2>3. DoneInv'
    BY DEF DoneInv, Complete
  <2> QED
    BY <2>1, <2>2, <2>3
<1>25. ASSUME NEW w \in EvalWorkers, NEW i \in Instances, WorkerFindsNoReport(w, i) PROVE SInv'
  <2> USE <1>25 DEF WorkerFindsNoReport, inferVars, monVars, SupervisionTypeOK
  <2>1. FilesInv'
    BY DEF FilesInv
  <2>2. CountsInv'
    BY DEF CountsInv
  <2>3. DoneInv'
    BY DEF DoneInv, Complete
  <2> QED
    BY <2>1, <2>2, <2>3
<1>26. CASE UNCHANGED vars
  BY <1>26 DEF vars, inferVars, evalVars, monVars, FilesInv, CountsInv, DoneInv, Complete
<1> QED
  BY <1>1, <1>2, <1>3, <1>4, <1>5, <1>6, <1>7, <1>8, <1>9, <1>10, <1>11, <1>12,
     <1>13, <1>14, <1>15, <1>16, <1>17, <1>18, <1>19, <1>20, <1>21, <1>22, <1>23, <1>24, <1>25, <1>26
     DEF Next, RunnerStep, MonitorStep, SupervisorStep, WorkerStep

LEMMA SInvariance == Spec => []SInv
BY InitSInv, StepSInv, PTL DEF Spec

\* "done" in monitor_status.json is only ever said of a complete run.
THEOREM MonitorIsSound == Spec => []MonitorDoneSound
<1>1. SInv => MonitorDoneSound
  BY DEF SInv, DoneInv, MonitorDoneSound
<1> QED
  BY <1>1, SInvariance, PTL

\* The supervisor leaves only a run that is complete and announced as such.
THEOREM SupervisorLeavesOnlyCompleteRuns == Spec => []SupervisorLeavesCompleteRun
<1>1. SInv => SupervisorLeavesCompleteRun
  BY DEF SInv, DoneInv, SupervisorLeavesCompleteRun
<1> QED
  BY <1>1, SInvariance, PTL
=============================================================================
