--------------------------- MODULE InferenceProofs ---------------------------
(***************************************************************************)
(* Proofs about Inference, for every set of instances, every concurrency   *)
(* and every number of restarts.                                           *)
(***************************************************************************)
EXTENDS Inference, FiniteSetTheorems, TLAPS

-----------------------------------------------------------------------------
(* The inductive invariant.                                                *)

\* Outside a running process there is no thread and no held lock.
Quiet ==
    proc # "up" => /\ main = "collect"
                   /\ \A i \in Instances : phase[i] = "idle"

\* What the memory of a running process says of the files: the summary lags
\* behind it by at most the row being written, preds.json by its entry.
MemoryAhead ==
    proc = "up" =>
        /\ rows = completed
        /\ summary \subseteq rows
        /\ main \in {"collect", "status"} => summary = rows
        /\ main # "preds" => allPreds = preds
        /\ \A i, j \in rows \ summary : i = j
        /\ \A i \in Instances : i \notin rows \ summary => allPreds[i] = preds[i]
        /\ rows # {} => status.written

\* Every row, written or about to be, has its artefacts, and its instance
\* is out of the pool for good.
RowsHaveArtefacts ==
    proc = "up" =>
        \A i \in rows : /\ allPreds[i] = runPreds[i]
                        /\ runPreds[i] # NoPatch
                        /\ i \in bundles
                        /\ phase[i] = "idle"

\* What a thread has produced by the time it reaches a stage.
ThreadProgress ==
    \A i \in Instances :
        /\ phase[i] \in {"export", "returned"} => runPreds[i] # NoPatch
        /\ phase[i] = "returned" => i \in bundles

\* The status file: behind the summary, and up to date when state_lock is free.
StatusTracks ==
    /\ status.completed \subseteq summary
    /\ summary # {} => status.written
    /\ proc = "up" => active \subseteq status.active
    /\ proc = "up" /\ main = "collect" =>
           status = StatusOf(active, completed, failed)

\* The bookkeeping sets of run_batch against the stages of the threads.
SetsTrackPhases ==
    proc = "up" =>
        \A i \in Instances :
            /\ i \in active <=> phase[i] \notin {"idle", "queued"}
            /\ phase[i] = "idle" <=> i \in completed \cup failed
            /\ ~ (i \in completed /\ i \in failed)

IInv ==
    /\ TypeOK
    /\ RowsBacked
    /\ Quiet
    /\ MemoryAhead
    /\ RowsHaveArtefacts
    /\ ThreadProgress
    /\ StatusTracks
    /\ SetsTrackPhases
    /\ ExitAccounts
-----------------------------------------------------------------------------
(* Type correctness.                                                       *)

LEMMA InitTypeOK == Init => TypeOK
BY PatchesAssumption, OptionsAssumption
   DEF Init, TypeOK, Phases, Busy, Statuses, Workspaces, NoWorkspace

LEMMA StepTypeOK == TypeOK /\ [Next]_vars => TypeOK'
<1> SUFFICES ASSUME TypeOK, [Next]_vars PROVE TypeOK'
  OBVIOUS
<1> USE PatchesAssumption, OptionsAssumption DEF TypeOK, Phases, Busy
<1>1. CASE Start
  BY <1>1 DEF Start, ResumedIds, ResumedPreds, outputs, artefacts
<1>2. CASE FinishBatch
  BY <1>2 DEF FinishBatch, memory, outputs, artefacts
<1>3. CASE WritePreds
  BY <1>3 DEF WritePreds, memory, artefacts
<1>4. CASE WriteSummary
  BY <1>4 DEF WriteSummary, memory, artefacts
<1>5. CASE WriteStatus
  BY <1>5 DEF WriteStatus, StatusOf, Statuses, memory, artefacts
<1>6. ASSUME NEW i \in Instances, StartInstance(i) PROVE TypeOK'
  BY <1>6 DEF StartInstance, Goto, StatusOf, Statuses, artefacts
<1>7. ASSUME NEW i \in Instances, PrepareWorkspace(i) PROVE TypeOK'
  BY <1>7 DEF PrepareWorkspace, InstanceStep, Goto, memory, outputs, NoWorkspace, Workspaces
<1>8. ASSUME NEW i \in Instances, CreateWorkspace(i) PROVE TypeOK'
  BY <1>8 DEF CreateWorkspace, InstanceStep, Goto, memory, outputs, Workspaces
<1>9. ASSUME NEW i \in Instances, CheckoutBase(i) PROVE TypeOK'
  BY <1>9 DEF CheckoutBase, InstanceStep, Goto, memory, outputs, Workspaces
<1>10. ASSUME NEW i \in Instances, RouterReady(i) PROVE TypeOK'
  BY <1>10 DEF RouterReady, InstanceStep, Goto, memory, outputs, artefacts
<1>11. ASSUME NEW i \in Instances, CliEdit(i) PROVE TypeOK'
  BY <1>11 DEF CliEdit, memory, outputs, Workspaces
<1>12. ASSUME NEW i \in Instances, CliExit(i) PROVE TypeOK'
  BY <1>12 DEF CliExit, InstanceStep, Goto, memory, outputs, artefacts
<1>13. ASSUME NEW i \in Instances, OrphanExit(i) PROVE TypeOK'
  BY <1>13 DEF OrphanExit, memory, outputs
<1>14. ASSUME NEW i \in Instances, WritePatch(i) PROVE TypeOK'
  BY <1>14 DEF WritePatch, InstanceStep, Goto, memory, outputs, Workspaces
<1>15. ASSUME NEW i \in Instances, ExportBundle(i) PROVE TypeOK'
  BY <1>15 DEF ExportBundle, InstanceStep, Goto, memory, outputs
<1>16. ASSUME NEW i \in Instances, Raise(i) PROVE TypeOK'
  BY <1>16 DEF Raise, InstanceStep, Goto, memory, outputs, artefacts
<1>17. ASSUME NEW i \in Instances, CollectOk(i) PROVE TypeOK'
  BY <1>17 DEF CollectOk, Goto, outputs, artefacts
<1>18. ASSUME NEW i \in Instances, CollectFailure(i) PROVE TypeOK'
  BY <1>18 DEF CollectFailure, Goto, StatusOf, Statuses, artefacts
<1>19. ASSUME NEW kind \in CrashKinds, Crash(kind) PROVE TypeOK'
  BY <1>19 DEF Crash, outputs
<1>20. CASE UNCHANGED vars
  BY <1>20 DEF vars, memory, outputs, artefacts
<1> QED
  BY <1>1, <1>2, <1>3, <1>4, <1>5, <1>6, <1>7, <1>8, <1>9, <1>10, <1>11, <1>12, <1>13, <1>14, <1>15, <1>16, <1>17, <1>18, <1>19, <1>20 DEF Next, MainStep, WorkerStep

\* Every variable of the runner keeps its type, for any number of instances,
\* threads and restarts.
THEOREM TypeCorrect == Spec => []TypeOK
BY InitTypeOK, StepTypeOK, PTL DEF Spec
-----------------------------------------------------------------------------
(* The invariant is inductive.                                            *)

\* "done" in a status file means that every instance is completed.
LEMMA DoneMeansAll ==
    ASSUME NEW S \in SUBSET Instances
    PROVE  (Cardinality(S) >= Cardinality(Instances)) <=> S = Instances
<1>1. /\ IsFiniteSet(S)
      /\ Cardinality(S) <= Cardinality(Instances)
      /\ Cardinality(S) = Cardinality(Instances) => S = Instances
  BY InstancesAssumption, FS_Subset
<1>2. Cardinality(S) \in Nat /\ Cardinality(Instances) \in Nat
  BY <1>1, InstancesAssumption, FS_CardinalityType
<1> QED
  BY <1>1, <1>2

LEMMA InitIInv == Init => IInv
<1> SUFFICES ASSUME Init PROVE IInv
  OBVIOUS
<1>1. TypeOK
  BY InitTypeOK
<1> QED
  BY <1>1 DEF IInv, Init, RowsBacked, Quiet, MemoryAhead, RowsHaveArtefacts,
              ThreadProgress, StatusTracks, SetsTrackPhases, ExitAccounts

\* A step that changes nothing but workspaces and orphans.
LEMMA WorkspaceStepIInv ==
    ASSUME IInv, TypeOK', UNCHANGED <<proc, main, phase, memory, outputs, runPreds, bundles>>
    PROVE  IInv'
BY DEF IInv, memory, outputs, RowsBacked, Quiet, MemoryAhead, RowsHaveArtefacts,
       ThreadProgress, StatusTracks, SetsTrackPhases, ExitAccounts, StatusDone

\* A step of a pool thread that moves it to a stage where it owes nothing.
LEMMA ThreadStepIInv ==
    ASSUME IInv, TypeOK', NEW i \in Instances, NEW from \in Busy,
           NEW to \in (Busy \cup {"raised"}) \ {"export"},
           InstanceStep(i, from, to), UNCHANGED <<runPreds, bundles>>
    PROVE  IInv'
<1> USE DEF IInv, TypeOK, InstanceStep, Goto, memory, outputs, Busy
<1>1. RowsBacked'
  BY DEF RowsBacked
<1>2. Quiet' /\ ThreadProgress'
  BY DEF Quiet, ThreadProgress
<1>3. MemoryAhead' /\ StatusTracks'
  BY DEF MemoryAhead, StatusTracks
<1>4. RowsHaveArtefacts'
  BY DEF RowsHaveArtefacts
<1>5. SetsTrackPhases'
  BY DEF SetsTrackPhases
<1>6. ExitAccounts'
  BY DEF ExitAccounts, StatusDone
<1> QED
  BY <1>1, <1>2, <1>3, <1>4, <1>5, <1>6

LEMMA StepIInv == IInv /\ [Next]_vars => IInv'
<1> SUFFICES ASSUME IInv, [Next]_vars PROVE IInv'
  OBVIOUS
<1>0. TypeOK /\ TypeOK'
  BY StepTypeOK DEF IInv
<1> USE <1>0 DEF IInv
<1>1. CASE Start
  <2> USE <1>1 DEF Start, ResumedIds, ResumedPreds, outputs, artefacts, TypeOK, Busy
  <2>1. RowsBacked'
    BY DEF RowsBacked, MemoryAhead, RowsHaveArtefacts
  <2>2. Quiet' /\ ThreadProgress'
    BY DEF Quiet, ThreadProgress
  <2>3. MemoryAhead'
    BY DEF MemoryAhead, RowsBacked, StatusTracks, StatusOf
  <2>4. RowsHaveArtefacts'
    BY DEF RowsHaveArtefacts, RowsBacked, MemoryAhead, ThreadProgress
  <2>5. StatusTracks'
    BY DEF StatusTracks, MemoryAhead, StatusOf
  <2>6. SetsTrackPhases'
    BY DEF SetsTrackPhases, RowsBacked
  <2>7. ExitAccounts'
    BY DEF ExitAccounts, StatusDone
  <2> QED
    BY <2>1, <2>2, <2>3, <2>4, <2>5, <2>6, <2>7
<1>2. CASE FinishBatch
  <2> USE <1>2 DEF FinishBatch, memory, outputs, artefacts, TypeOK, Busy
  <2>1. RowsBacked'
    BY DEF RowsBacked, MemoryAhead, RowsHaveArtefacts
  <2>2. Quiet' /\ ThreadProgress'
    BY DEF Quiet, ThreadProgress
  <2>3. MemoryAhead'
    BY DEF MemoryAhead, RowsBacked, StatusTracks, StatusOf
  <2>4. RowsHaveArtefacts'
    BY DEF RowsHaveArtefacts, RowsBacked, MemoryAhead, ThreadProgress
  <2>5. StatusTracks'
    BY DEF StatusTracks, MemoryAhead, StatusOf
  <2>6. SetsTrackPhases'
    BY DEF SetsTrackPhases, RowsBacked
  <2>7. ExitAccounts'
    <3>1. active = {} /\ completed \cup failed = Instances
      BY DEF SetsTrackPhases
    <3>2. status = StatusOf({}, completed, failed) /\ summary = completed
      BY <3>1 DEF StatusTracks, MemoryAhead
    <3>3. failed = Instances \ summary
      BY <3>1, <3>2 DEF SetsTrackPhases
    <3>4. StatusDone(status) <=> failed = {}
      BY <3>1, <3>2, <3>3, DoneMeansAll DEF StatusDone, StatusOf
    <3>5. /\ status.active = {} /\ status.completed = summary
          /\ status.failed = Instances \ summary
      BY <3>2, <3>3 DEF StatusOf
    <3>6. (proc' = "ok") = StatusDone(status)'
      BY <3>4 DEF StatusDone
    <3> QED
      BY <3>5, <3>6 DEF ExitAccounts
  <2> QED
    BY <2>1, <2>2, <2>3, <2>4, <2>5, <2>6, <2>7
<1>3. CASE WritePreds
  <2> USE <1>3 DEF WritePreds, memory, artefacts, TypeOK, Busy
  <2>1. RowsBacked'
    BY DEF RowsBacked, MemoryAhead, RowsHaveArtefacts
  <2>2. Quiet' /\ ThreadProgress'
    BY DEF Quiet, ThreadProgress
  <2>3. MemoryAhead'
    BY DEF MemoryAhead, RowsBacked, StatusTracks, StatusOf
  <2>4. RowsHaveArtefacts'
    BY DEF RowsHaveArtefacts, RowsBacked, MemoryAhead, ThreadProgress
  <2>5. StatusTracks'
    BY DEF StatusTracks, MemoryAhead, StatusOf
  <2>6. SetsTrackPhases'
    BY DEF SetsTrackPhases, RowsBacked
  <2>7. ExitAccounts'
    BY DEF ExitAccounts, StatusDone
  <2> QED
    BY <2>1, <2>2, <2>3, <2>4, <2>5, <2>6, <2>7
<1>4. CASE WriteSummary
  <2> USE <1>4 DEF WriteSummary, memory, artefacts, TypeOK, Busy
  <2>1. RowsBacked'
    BY DEF RowsBacked, MemoryAhead, RowsHaveArtefacts
  <2>2. Quiet' /\ ThreadProgress'
    BY DEF Quiet, ThreadProgress
  <2>3. MemoryAhead'
    BY DEF MemoryAhead, RowsBacked, StatusTracks, StatusOf
  <2>4. RowsHaveArtefacts'
    BY DEF RowsHaveArtefacts, RowsBacked, MemoryAhead, ThreadProgress
  <2>5. StatusTracks'
    BY DEF StatusTracks, MemoryAhead, StatusOf
  <2>6. SetsTrackPhases'
    BY DEF SetsTrackPhases, RowsBacked
  <2>7. ExitAccounts'
    BY DEF ExitAccounts, StatusDone
  <2> QED
    BY <2>1, <2>2, <2>3, <2>4, <2>5, <2>6, <2>7
<1>5. CASE WriteStatus
  <2> USE <1>5 DEF WriteStatus, StatusOf, Statuses, memory, artefacts, TypeOK, Busy
  <2>1. RowsBacked'
    BY DEF RowsBacked, MemoryAhead, RowsHaveArtefacts
  <2>2. Quiet' /\ ThreadProgress'
    BY DEF Quiet, ThreadProgress
  <2>3. MemoryAhead'
    BY DEF MemoryAhead, RowsBacked, StatusTracks, StatusOf
  <2>4. RowsHaveArtefacts'
    BY DEF RowsHaveArtefacts, RowsBacked, MemoryAhead, ThreadProgress
  <2>5. StatusTracks'
    BY DEF StatusTracks, MemoryAhead, StatusOf
  <2>6. SetsTrackPhases'
    BY DEF SetsTrackPhases, RowsBacked
  <2>7. ExitAccounts'
    BY DEF ExitAccounts, StatusDone
  <2> QED
    BY <2>1, <2>2, <2>3, <2>4, <2>5, <2>6, <2>7
<1>6. ASSUME NEW i \in Instances, StartInstance(i) PROVE IInv'
  <2> USE <1>6 DEF StartInstance, Goto, LockFree, StatusOf, Statuses, artefacts, TypeOK, Busy
  <2>1. RowsBacked'
    BY DEF RowsBacked, MemoryAhead, RowsHaveArtefacts
  <2>2. Quiet' /\ ThreadProgress'
    BY DEF Quiet, ThreadProgress
  <2>3. MemoryAhead'
    BY DEF MemoryAhead, RowsBacked, StatusTracks, StatusOf
  <2>4. RowsHaveArtefacts'
    BY DEF RowsHaveArtefacts, RowsBacked, MemoryAhead, ThreadProgress
  <2>5. StatusTracks'
    BY DEF StatusTracks, MemoryAhead, StatusOf
  <2>6. SetsTrackPhases'
    BY DEF SetsTrackPhases, RowsBacked
  <2>7. ExitAccounts'
    BY DEF ExitAccounts, StatusDone
  <2> QED
    BY <2>1, <2>2, <2>3, <2>4, <2>5, <2>6, <2>7
<1>7. ASSUME NEW i \in Instances, PrepareWorkspace(i) PROVE IInv'
  BY <1>7, ThreadStepIInv DEF PrepareWorkspace, Busy
<1>8. ASSUME NEW i \in Instances, CreateWorkspace(i) PROVE IInv'
  BY <1>8, ThreadStepIInv DEF CreateWorkspace, Busy
<1>9. ASSUME NEW i \in Instances, CheckoutBase(i) PROVE IInv'
  BY <1>9, ThreadStepIInv DEF CheckoutBase, Busy
<1>10. ASSUME NEW i \in Instances, RouterReady(i) PROVE IInv'
  BY <1>10, ThreadStepIInv DEF RouterReady, Busy, artefacts
<1>11. ASSUME NEW i \in Instances, CliExit(i) PROVE IInv'
  BY <1>11, ThreadStepIInv DEF CliExit, Busy, artefacts
<1>12. ASSUME NEW i \in Instances, Raise(i) PROVE IInv'
  BY <1>12, ThreadStepIInv DEF Raise, Busy, artefacts
<1>13. ASSUME NEW i \in Instances, CliEdit(i) PROVE IInv'
  BY <1>13, WorkspaceStepIInv DEF CliEdit
<1>14. ASSUME NEW i \in Instances, OrphanExit(i) PROVE IInv'
  BY <1>14, WorkspaceStepIInv DEF OrphanExit
<1>15. ASSUME NEW i \in Instances, WritePatch(i) PROVE IInv'
  <2> USE <1>15 DEF WritePatch, InstanceStep, Goto, memory, outputs, Workspaces, TypeOK, Busy
  <2>1. RowsBacked'
    BY DEF RowsBacked, MemoryAhead, RowsHaveArtefacts
  <2>2. Quiet' /\ ThreadProgress'
    BY PatchesAssumption DEF Quiet, ThreadProgress
  <2>3. MemoryAhead'
    BY DEF MemoryAhead, RowsBacked, StatusTracks, StatusOf
  <2>4. RowsHaveArtefacts'
    BY DEF RowsHaveArtefacts, RowsBacked, MemoryAhead, ThreadProgress
  <2>5. StatusTracks'
    BY DEF StatusTracks, MemoryAhead, StatusOf
  <2>6. SetsTrackPhases'
    BY DEF SetsTrackPhases, RowsBacked
  <2>7. ExitAccounts'
    BY DEF ExitAccounts, StatusDone
  <2> QED
    BY <2>1, <2>2, <2>3, <2>4, <2>5, <2>6, <2>7
<1>16. ASSUME NEW i \in Instances, ExportBundle(i) PROVE IInv'
  <2> USE <1>16 DEF ExportBundle, InstanceStep, Goto, memory, outputs, TypeOK, Busy
  <2>1. RowsBacked'
    BY DEF RowsBacked, MemoryAhead, RowsHaveArtefacts
  <2>2. Quiet' /\ ThreadProgress'
    BY DEF Quiet, ThreadProgress
  <2>3. MemoryAhead'
    BY DEF MemoryAhead, RowsBacked, StatusTracks, StatusOf
  <2>4. RowsHaveArtefacts'
    BY DEF RowsHaveArtefacts, RowsBacked, MemoryAhead, ThreadProgress
  <2>5. StatusTracks'
    BY DEF StatusTracks, MemoryAhead, StatusOf
  <2>6. SetsTrackPhases'
    BY DEF SetsTrackPhases, RowsBacked
  <2>7. ExitAccounts'
    BY DEF ExitAccounts, StatusDone
  <2> QED
    BY <2>1, <2>2, <2>3, <2>4, <2>5, <2>6, <2>7
<1>17. ASSUME NEW i \in Instances, CollectOk(i) PROVE IInv'
  <2> USE <1>17 DEF CollectOk, Goto, LockFree, outputs, artefacts, TypeOK, Busy
  <2>1. RowsBacked'
    BY DEF RowsBacked, MemoryAhead, RowsHaveArtefacts
  <2>2. Quiet' /\ ThreadProgress'
    BY DEF Quiet, ThreadProgress
  <2>3. MemoryAhead'
    BY DEF MemoryAhead, RowsBacked, StatusTracks, StatusOf
  <2>4. RowsHaveArtefacts'
    BY DEF RowsHaveArtefacts, RowsBacked, MemoryAhead, ThreadProgress
  <2>5. StatusTracks'
    BY DEF StatusTracks, MemoryAhead, StatusOf
  <2>6. SetsTrackPhases'
    BY DEF SetsTrackPhases, RowsBacked
  <2>7. ExitAccounts'
    BY DEF ExitAccounts, StatusDone
  <2> QED
    BY <2>1, <2>2, <2>3, <2>4, <2>5, <2>6, <2>7
<1>18. ASSUME NEW i \in Instances, CollectFailure(i) PROVE IInv'
  <2> USE <1>18 DEF CollectFailure, Goto, LockFree, StatusOf, Statuses, artefacts, TypeOK, Busy
  <2>1. RowsBacked'
    BY DEF RowsBacked, MemoryAhead, RowsHaveArtefacts
  <2>2. Quiet' /\ ThreadProgress'
    BY DEF Quiet, ThreadProgress
  <2>3. MemoryAhead'
    BY DEF MemoryAhead, RowsBacked, StatusTracks, StatusOf
  <2>4. RowsHaveArtefacts'
    BY DEF RowsHaveArtefacts, RowsBacked, MemoryAhead, ThreadProgress
  <2>5. StatusTracks'
    BY DEF StatusTracks, MemoryAhead, StatusOf
  <2>6. SetsTrackPhases'
    BY DEF SetsTrackPhases, RowsBacked
  <2>7. ExitAccounts'
    BY DEF ExitAccounts, StatusDone
  <2> QED
    BY <2>1, <2>2, <2>3, <2>4, <2>5, <2>6, <2>7
<1>19. ASSUME NEW kind \in CrashKinds, Crash(kind) PROVE IInv'
  <2> USE <1>19 DEF Crash, outputs, TypeOK, Busy
  <2>1. RowsBacked'
    BY DEF RowsBacked, MemoryAhead, RowsHaveArtefacts
  <2>2. Quiet' /\ ThreadProgress'
    BY DEF Quiet, ThreadProgress
  <2>3. MemoryAhead'
    BY DEF MemoryAhead, RowsBacked, StatusTracks, StatusOf
  <2>4. RowsHaveArtefacts'
    BY DEF RowsHaveArtefacts, RowsBacked, MemoryAhead, ThreadProgress
  <2>5. StatusTracks'
    BY DEF StatusTracks, MemoryAhead, StatusOf
  <2>6. SetsTrackPhases'
    BY DEF SetsTrackPhases, RowsBacked
  <2>7. ExitAccounts'
    BY DEF ExitAccounts, StatusDone
  <2> QED
    BY <2>1, <2>2, <2>3, <2>4, <2>5, <2>6, <2>7
<1>20. CASE UNCHANGED vars
  BY <1>20, WorkspaceStepIInv DEF vars, artefacts
<1> QED
  BY <1>1, <1>2, <1>3, <1>4, <1>5, <1>6, <1>7, <1>8, <1>9, <1>10, <1>11,
     <1>12, <1>13, <1>14, <1>15, <1>16, <1>17, <1>18, <1>19, <1>20 DEF Next, MainStep, WorkerStep

LEMMA Invariance == Spec => []IInv
BY InitIInv, StepIInv, PTL DEF Spec

-----------------------------------------------------------------------------
(* What the readers of the output directory may rely on.                   *)

\* No row is ever published without its prediction and its router bundle,
\* wherever the process is killed.
THEOREM RowsAreBacked == Spec => []RowsBacked
<1>1. IInv => RowsBacked
  BY DEF IInv
<1> QED
  BY <1>1, Invariance, PTL

\* The status file never counts a row that the summary lacks.
THEOREM StatusIsNotAhead == Spec => []StatusNotAhead
<1>1. IInv => StatusNotAhead
  <2> SUFFICES ASSUME IInv PROVE StatusNotAhead
    OBVIOUS
  <2>1. status.completed \in SUBSET Instances
    BY DEF IInv, TypeOK, Statuses
  <2>2. StatusDone(status) => status.completed = Instances
    BY <2>1, DoneMeansAll DEF StatusDone
  <2> QED
    BY <2>2 DEF IInv, TypeOK, StatusTracks, StatusNotAhead
<1> QED
  BY <1>1, Invariance, PTL

\* Every instance in the pool is listed as active.
THEOREM PoolIsAlwaysVisible == Spec => []PoolIsVisible
<1>1. IInv => PoolIsVisible
  <2> SUFFICES ASSUME IInv, NEW i \in InPool PROVE i \in status.active
    BY DEF PoolIsVisible
  <2>1. i \in Instances /\ phase[i] \in Busy
    BY DEF InPool
  <2>2. proc = "up"
    BY <2>1 DEF IInv, Quiet, Busy
  <2>3. i \in active
    BY <2>1, <2>2 DEF IInv, SetsTrackPhases, Busy
  <2> QED
    BY <2>2, <2>3 DEF IInv, StatusTracks
<1> QED
  BY <1>1, Invariance, PTL

\* A batch that ends by itself has accounted for every instance.
THEOREM ExitsAccountForAll == Spec => []ExitAccounts
<1>1. IInv => ExitAccounts
  BY DEF IInv
<1> QED
  BY <1>1, Invariance, PTL

\* Published rows are final: no step withdraws one, changes its prediction or
\* runs its instance again, across any number of crashes and resumes.
THEOREM RowsAreFinal == Spec => RowsFinal
<1>1. IInv /\ IInv' /\ [Next]_vars =>
        [\A i \in summary : /\ i \in summary'
                            /\ preds'[i] = preds[i]
                            /\ phase'[i] = "idle"]_vars
  <2> SUFFICES ASSUME IInv, IInv', [Next]_vars, NEW i \in summary
               PROVE  i \in summary' /\ preds'[i] = preds[i] /\ phase'[i] = "idle"
    OBVIOUS
  <2>1. i \in Instances
    BY DEF IInv, TypeOK
  <2>2. CASE summary' = summary /\ preds' = preds
    BY <2>1, <2>2 DEF IInv, Quiet, MemoryAhead, RowsHaveArtefacts
  <2>3. CASE WritePreds \/ WriteSummary
    <3>1. i \in rows /\ phase[i] = "idle" /\ allPreds[i] = preds[i]
      BY <2>1, <2>3 DEF IInv, MemoryAhead, RowsHaveArtefacts, WritePreds, WriteSummary
    <3> QED
      BY <2>3, <3>1 DEF WritePreds, WriteSummary
  <2> QED
    BY <2>2, <2>3 DEF Next, MainStep, WorkerStep, Start, FinishBatch, WriteStatus,
       StartInstance, PrepareWorkspace, CreateWorkspace, CheckoutBase, RouterReady,
       CliEdit, CliExit, OrphanExit, WritePatch, ExportBundle, Raise, InstanceStep,
       CollectOk, CollectFailure, Crash, vars, outputs
<1> QED
  BY <1>1, Invariance, PTL DEF RowsFinal, Spec

-----------------------------------------------------------------------------
(* Workspaces, when every start is forced and no CLI session survives.     *)

\* --force-workspace on every start, and only the host kills the runner.
Forced == ForceOnResume /\ CrashKinds \subseteq {"host"}

\* How far a workspace is prepared at each stage before the CLI starts.
WorkspaceFresh ==
    /\ force = TRUE /\ orphans = {}
    /\ \A i \in Instances :
          /\ phase[i] = "create" => ws[i] = NoWorkspace
          /\ phase[i] = "checkout" => ws[i].diff = EmptyPatch
          /\ phase[i] = "router" => ws[i] = BaseWorkspace

LEMMA StepWorkspaceFresh ==
    ASSUME Forced, TypeOK, WorkspaceFresh, [Next]_vars
    PROVE  WorkspaceFresh'
<1> USE DEF TypeOK, Workspaces, WorkspaceFresh
<1>1. CASE Start
  BY <1>1 DEF Start, Forced, artefacts
<1>2. ASSUME NEW kind \in CrashKinds, Crash(kind) PROVE WorkspaceFresh'
  BY <1>2 DEF Crash, Forced
<1>3. ASSUME NEW i \in Instances, PrepareWorkspace(i) PROVE WorkspaceFresh'
  <2>1. ws' = [ws EXCEPT ![i] = NoWorkspace] /\ phase' = [phase EXCEPT ![i] = "create"]
    BY <1>3 DEF PrepareWorkspace, InstanceStep, Goto, NoWorkspace
  <2> QED
    BY <1>3, <2>1 DEF PrepareWorkspace, InstanceStep
<1>4. ASSUME NEW i \in Instances, CreateWorkspace(i) PROVE WorkspaceFresh'
  BY <1>4 DEF CreateWorkspace, InstanceStep, Goto, NoWorkspace
<1>5. ASSUME NEW i \in Instances, CheckoutBase(i) PROVE WorkspaceFresh'
  <2>1. ws'[i] = BaseWorkspace
    BY <1>5 DEF CheckoutBase, InstanceStep, BaseWorkspace
  <2> QED
    BY <1>5, <2>1 DEF CheckoutBase, InstanceStep, Goto
<1>6. ASSUME NEW i \in Instances, CliEdit(i) PROVE WorkspaceFresh'
  BY <1>6 DEF CliEdit
<1>7. ASSUME NEW i \in Instances,
             \/ RouterReady(i) \/ CliExit(i) \/ WritePatch(i) \/ ExportBundle(i) \/ Raise(i)
      PROVE  WorkspaceFresh'
  BY <1>7 DEF RouterReady, CliExit, WritePatch, ExportBundle, Raise, InstanceStep, Goto,
              artefacts
<1>8. ASSUME NEW i \in Instances, StartInstance(i) \/ CollectOk(i) \/ CollectFailure(i)
      PROVE  WorkspaceFresh'
  BY <1>8 DEF StartInstance, CollectOk, CollectFailure, Goto, artefacts
<1>9. ASSUME NEW i \in Instances, OrphanExit(i) PROVE WorkspaceFresh'
  BY <1>9 DEF OrphanExit
<1>10. CASE FinishBatch \/ WritePreds \/ WriteSummary \/ WriteStatus \/ UNCHANGED vars
  BY <1>10 DEF FinishBatch, WritePreds, WriteSummary, WriteStatus, vars, artefacts
<1> QED
  BY <1>1, <1>2, <1>3, <1>4, <1>5, <1>6, <1>7, <1>8, <1>9, <1>10
     DEF Next, MainStep, WorkerStep

\* With --force-workspace on every start and no surviving CLI session, a CLI
\* always starts in a clean checkout of the base commit, whatever an earlier
\* start left in the workspace.
THEOREM ForcedCliStartsAtBase ==
    ASSUME Forced
    PROVE  Spec => CliStartsAtBase
<1>1. Init => WorkspaceFresh
  BY DEF Init, WorkspaceFresh
<1>2. TypeOK /\ WorkspaceFresh /\ [Next]_vars => WorkspaceFresh'
  BY StepWorkspaceFresh
<1>3. TypeOK /\ WorkspaceFresh /\ [Next]_vars =>
        [\A i \in Instances :
            phase[i] # "cli" /\ phase'[i] = "cli" => ws[i] = BaseWorkspace]_vars
  <2> SUFFICES ASSUME TypeOK, WorkspaceFresh, [Next]_vars, NEW i \in Instances,
                      phase[i] # "cli", phase'[i] = "cli"
               PROVE  phase[i] = "router"
    BY DEF WorkspaceFresh
  <2> USE DEF TypeOK, Goto
  <2>1. ~ (Start \/ \E kind \in CrashKinds : Crash(kind))
    BY DEF Start, Crash
  <2>2. ~ (FinishBatch \/ WritePreds \/ WriteSummary \/ WriteStatus \/ UNCHANGED vars)
    BY DEF FinishBatch, WritePreds, WriteSummary, WriteStatus, vars
  <2>3. ASSUME NEW j \in Instances PROVE ~ (CliEdit(j) \/ OrphanExit(j))
    BY DEF CliEdit, OrphanExit
  <2>4. ASSUME NEW j \in Instances
        PROVE  ~ (StartInstance(j) \/ CollectOk(j) \/ CollectFailure(j))
    BY DEF StartInstance, CollectOk, CollectFailure
  <2>5. ASSUME NEW j \in Instances
        PROVE  ~ (\/ PrepareWorkspace(j) \/ CreateWorkspace(j) \/ CheckoutBase(j)
                  \/ CliExit(j) \/ WritePatch(j) \/ ExportBundle(j) \/ Raise(j))
    BY DEF PrepareWorkspace, CreateWorkspace, CheckoutBase, CliExit, WritePatch,
           ExportBundle, Raise, InstanceStep
  <2>6. PICK j \in Instances : RouterReady(j)
    BY <2>1, <2>2, <2>3, <2>4, <2>5 DEF Next, MainStep, WorkerStep
  <2> QED
    BY <2>6 DEF RouterReady, InstanceStep
<1> QED
  BY <1>1, <1>2, <1>3, TypeCorrect, PTL DEF Spec, CliStartsAtBase

-----------------------------------------------------------------------------
(* Refinement.                                                             *)

\* A step that leaves the three files alone is a stuttering step of the
\* promise, and a status write with the lock free announces the summary.
LEMMA StepImplements ==
    IInv /\ IInv' /\ [Next]_vars => [Published!PubNext]_(Published!pubVars)
<1> SUFFICES ASSUME IInv, IInv', [Next]_vars
             PROVE  Published!PubNext \/ UNCHANGED Published!pubVars
  OBVIOUS
<1> USE DEF Published!PubNext, Published!pubVars, IInv
<1>1. CASE UNCHANGED outputs
  BY <1>1 DEF outputs
<1>2. CASE WritePreds
  <2>1. CASE rows = summary
    <3>1. preds' = preds
      BY <1>2, <2>1 DEF WritePreds, MemoryAhead, TypeOK
    <3> QED
      BY <1>2, <3>1 DEF WritePreds
  <2>2. CASE rows # summary
    <3>1. PICK i \in rows : i \notin summary
      BY <1>2, <2>2 DEF WritePreds, MemoryAhead
    <3>2. /\ i \in Instances /\ status.written
          /\ allPreds[i] \in Patches
      BY <1>2, <3>1 DEF WritePreds, MemoryAhead, RowsHaveArtefacts, TypeOK
    <3>3. preds' = [preds EXCEPT ![i] = allPreds[i]]
      BY <1>2, <3>1 DEF WritePreds, MemoryAhead, TypeOK
    <3>4. Published!Predict(i)
      BY <1>2, <3>1, <3>2, <3>3 DEF WritePreds, Published!Predict
    <3> QED
      BY <3>2, <3>4
  <2> QED
    BY <2>1, <2>2
<1>3. CASE WriteSummary
  <2>1. CASE rows = summary
    BY <1>3, <2>1 DEF WriteSummary
  <2>2. CASE rows # summary
    <3>1. PICK i \in rows : i \notin summary
      BY <1>3, <2>2 DEF WriteSummary, MemoryAhead
    <3>2. /\ i \in Instances /\ status.written
          /\ preds[i] # NoPatch
          /\ summary' = summary \cup {i}
      BY <1>3, <3>1 DEF WriteSummary, MemoryAhead, RowsHaveArtefacts, TypeOK
    <3>3. Published!Publish(i)
      BY <1>3, <3>1, <3>2 DEF WriteSummary, Published!Publish
    <3> QED
      BY <3>2, <3>3
  <2> QED
    BY <2>1, <2>2
<1>4. CASE WriteStatus \/ \E i \in Instances : StartInstance(i) \/ CollectFailure(i)
  <2>1. completed = summary /\ UNCHANGED <<preds, summary>>
    BY <1>4 DEF WriteStatus, StartInstance, CollectFailure, LockFree, MemoryAhead
  <2>2. status'.written = TRUE /\ status'.completed = completed
    BY <1>4 DEF WriteStatus, StartInstance, CollectFailure, StatusOf
  <2> QED
    BY <2>1, <2>2 DEF Published!Announce
<1> QED
  BY <1>1, <1>2, <1>3, <1>4 DEF Next, MainStep, WorkerStep, Start, FinishBatch,
     PrepareWorkspace, CreateWorkspace, CheckoutBase, RouterReady, CliEdit, CliExit,
     OrphanExit, WritePatch, ExportBundle, Raise, InstanceStep, CollectOk, Crash,
     vars, outputs

\* The inference runner, with its threads, crashes and restarts, implements
\* the promise that PublishedRun makes to the readers of the run directory.
THEOREM RunnerImplementsPublishedRun == Spec => ImplementsPublishedRun
<1>1. Init => Published!PubInit
  BY DEF Init, Published!PubInit
<1> QED
  BY <1>1, Invariance, StepImplements, PTL
     DEF Spec, ImplementsPublishedRun, Published!PubSpec
=============================================================================
