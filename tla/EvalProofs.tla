----------------------------- MODULE EvalProofs -----------------------------
(***************************************************************************)
(* Proofs about EvalWorker, for every set of instances, any number of      *)
(* restarts and any behaviour of the inference side that PublishedRun      *)
(* allows.                                                                 *)
(***************************************************************************)
EXTENDS EvalWorker, FiniteSetTheorems, TLAPS

-----------------------------------------------------------------------------
(* The inductive invariant.                                                *)

\* What the inference side guarantees.
PubInv ==
    /\ PubTypeOK
    /\ \A i \in summary : preds[i] # NoPatch
    /\ summary # {} => posted
    /\ announced \subseteq summary

\* Everything a worker knows is about published rows.
OnlyPublished ==
    /\ \A w \in Workers : /\ seen[w].rows \subseteq summary
                          /\ running[w] \subseteq summary
                          /\ ended[w] \subseteq summary
                          /\ \A i \in Instances :
                                entries[w][i] # "none" \/ payload[w][i] # "none" => i \in summary
    /\ strays \subseteq summary

\* Entries in memory tell the truth about the reports.
MemoryTruthful ==
    \A w \in Workers, i \in Instances :
        entries[w][i] = "report" \/ payload[w][i] = "report" => reports[i] # NoPatch

\* The summary is read before the status: a worker that saw rows sees the
\* total in the same round, and "done" only when all is published.
SeenConsistent ==
    \A w \in Workers :
        /\ seen[w].rows # {} /\ pc[w] \notin {"status", "down"} => seen[w].posted
        /\ seen[w].done => seen[w].posted /\ summary = Instances

\* A worker about to set "done" has an entry for every instance, and, being
\* alone, finds its own payload in the file.
FinishJustified ==
    \A w \in Workers :
        /\ pc[w] = "finread" => file.kind = "ok" /\ Done(file.entries) = Instances
        /\ pc[w] \in {"finopen", "finwrite"} => Done(payload[w]) = Instances

\* The part that holds for any number of workers.
SharedInv ==
    /\ EvalTypeOK
    /\ PubInv
    /\ OnlyPublished
    /\ MemoryTruthful
    /\ ReportsMatch
    /\ EntriesTruthful

SingleInv ==
    /\ SharedInv
    /\ SeenConsistent
    /\ FinishJustified
    /\ EvalDoneMeansAll

-----------------------------------------------------------------------------
(* Type correctness.                                                       *)

LEMMA InitEvalTypeOK == Init => EvalTypeOK
<1> SUFFICES ASSUME Init PROVE EvalTypeOK
  OBVIOUS
<1> USE EvalOptionsAssumption DEF Init
<1>1. PubTypeOK
  BY DEF PubInit, PubTypeOK
<1>2. NothingSeen \in [rows : SUBSET Instances, posted : BOOLEAN, done : BOOLEAN]
  BY DEF NothingSeen
<1>3. NoEntries \in [Instances -> Entry]
  BY DEF NoEntries, Entry
<1>4. file \in [kind : {"absent", "torn", "ok"}, entries : [Instances -> Entry],
                done : BOOLEAN]
  BY <1>3
<1>5. boots \in 0..MaxBoots
  OBVIOUS
<1> QED
  BY <1>1, <1>2, <1>3, <1>4, <1>5 DEF EvalTypeOK, Stages

\* The outcome of an evaluator keeps the type of the reports.
LEMMA JudgeType ==
    ASSUME NEW i \in Instances, PubTypeOK, Judge(i),
           reports \in [Instances -> Patches \cup {NoPatch}]
    PROVE  reports' \in [Instances -> Patches \cup {NoPatch}]
BY DEF Judge, PubTypeOK

LEMMA StepEvalTypeOK == EvalTypeOK /\ [Next]_vars => EvalTypeOK'
<1> SUFFICES ASSUME EvalTypeOK, [Next]_vars PROVE EvalTypeOK'
  OBVIOUS
<1> USE EvalOptionsAssumption DEF EvalTypeOK, PubTypeOK, Stages, Entry
<1>1. CASE PubNext /\ UNCHANGED evalVars
  <2> USE <1>1 DEF evalVars, workerVars
  <2>1. ASSUME NEW i \in Instances, Predict(i) PROVE PubTypeOK'
    BY <2>1 DEF Predict
  <2>2. ASSUME NEW i \in Instances, Publish(i) PROVE PubTypeOK'
    BY <2>2 DEF Publish
  <2>3. CASE Announce
    BY <2>3 DEF Announce
  <2>4. PubTypeOK'
    BY <2>1, <2>2, <2>3 DEF PubNext
  <2> QED
    BY <2>4
<1>2. ASSUME NEW w \in Workers, Boot(w) PROVE EvalTypeOK'
  BY <1>2 DEF Boot, Goto, pubVars, EntriesFromDisk, NothingSeen
<1>3. ASSUME NEW w \in Workers, ReadSummary(w) PROVE EvalTypeOK'
  BY <1>3 DEF ReadSummary, Goto, pubVars
<1>4. ASSUME NEW w \in Workers, ReadStatus(w) PROVE EvalTypeOK'
  <2>1. StatusSaysDone \in BOOLEAN
    BY DEF StatusSaysDone
  <2> QED
    BY <1>4, <2>1 DEF ReadStatus, Goto, pubVars
<1>5. ASSUME NEW w \in Workers, Reap(w) PROVE EvalTypeOK'
  BY <1>5 DEF Reap, Goto, pubVars
<1>6. ASSUME NEW w \in Workers, LaunchOver(w) PROVE EvalTypeOK'
  BY <1>6 DEF LaunchOver, Goto, pubVars
<1>7. ASSUME NEW w \in Workers, PersistOpen(w) PROVE EvalTypeOK'
  BY <1>7 DEF PersistOpen, OpenFile, Goto, pubVars
<1>8. ASSUME NEW w \in Workers, PersistWrite(w) PROVE EvalTypeOK'
  BY <1>8 DEF PersistWrite, Goto, pubVars
<1>9. ASSUME NEW w \in Workers, FinishRead(w) PROVE EvalTypeOK'
  BY <1>9 DEF FinishRead, Goto, pubVars
<1>10. ASSUME NEW w \in Workers, FinishOpen(w) PROVE EvalTypeOK'
  BY <1>10 DEF FinishOpen, OpenFile, Goto, pubVars
<1>11. ASSUME NEW w \in Workers, FinishWrite(w) PROVE EvalTypeOK'
  BY <1>11 DEF FinishWrite, Goto, pubVars
<1>12. ASSUME NEW w \in Workers, Crash(w) PROVE EvalTypeOK'
  BY <1>12 DEF Crash, Goto, pubVars
<1>13. ASSUME NEW w \in Workers, NEW i \in Instances, Launch(w, i) PROVE EvalTypeOK'
  BY <1>13 DEF Launch, pubVars
<1>14. ASSUME NEW w \in Workers, NEW i \in Instances, EvaluatorEnds(w, i) PROVE EvalTypeOK'
  BY <1>14, JudgeType DEF EvaluatorEnds, pubVars
<1>15. ASSUME NEW i \in Instances, StrayEnds(i) PROVE EvalTypeOK'
  BY <1>15, JudgeType DEF StrayEnds, pubVars, workerVars
<1>16. CASE UNCHANGED vars
  BY <1>16 DEF vars, pubVars, evalVars, workerVars
<1> QED
  BY <1>1, <1>2, <1>3, <1>4, <1>5, <1>6, <1>7, <1>8, <1>9, <1>10,
     <1>11, <1>12, <1>13, <1>14, <1>15, <1>16
     DEF Next, WorkerStep

\* Every variable of the evaluation side keeps its type.
THEOREM EvalTypeCorrect == Spec => []EvalTypeOK
BY InitEvalTypeOK, StepEvalTypeOK, PTL DEF Spec

-----------------------------------------------------------------------------
(* What holds however many workers share the run directory.                *)

LEMMA InitSharedInv == Init => SharedInv
BY InitEvalTypeOK
   DEF Init, PubInit, SharedInv, EvalTypeOK, PubInv, OnlyPublished, MemoryTruthful,
       ReportsMatch, EntriesTruthful, NoEntries, NothingSeen

\* A restarted worker takes over only what the file says and the reports bear
\* out.
LEMMA DiskEntries ==
    ASSUME SharedInv, NEW i \in Instances
    PROVE  /\ EntriesFromDisk[i] # "none" => i \in summary
           /\ EntriesFromDisk[i] = "report" => reports[i] # NoPatch
BY DEF SharedInv, EntriesTruthful, EntriesFromDisk

LEMMA StepSharedInv == SharedInv /\ [Next]_vars => SharedInv'
<1> SUFFICES ASSUME SharedInv, [Next]_vars PROVE SharedInv'
  OBVIOUS
<1>0. EvalTypeOK /\ EvalTypeOK'
  BY StepEvalTypeOK DEF SharedInv
<1> USE <1>0 DEF SharedInv
<1>1. CASE PubNext /\ UNCHANGED evalVars
  <2> USE <1>1 DEF PubNext, Predict, Publish, Announce, evalVars, workerVars, EvalTypeOK, PubTypeOK
  <2>1. PubInv'
    BY DEF PubInv
  <2>2. OnlyPublished'
    BY DEF OnlyPublished, PubInv, EntriesTruthful
  <2>3. MemoryTruthful'
    BY DEF MemoryTruthful, EntriesTruthful
  <2>4. ReportsMatch'
    BY DEF ReportsMatch, OnlyPublished, PubInv
  <2>5. EntriesTruthful'
    BY DEF EntriesTruthful, OnlyPublished, MemoryTruthful
  <2> QED
    BY <2>1, <2>2, <2>3, <2>4, <2>5
<1>2. ASSUME NEW w \in Workers, Boot(w) PROVE SharedInv'
  <2> USE <1>2 DEF Boot, Goto, pubVars, EvalTypeOK, PubTypeOK
  <2>1. PubInv'
    BY DEF PubInv
  <2>2. /\ \A v \in Workers : entries'[v] \in {entries[v], EntriesFromDisk}
        /\ \A v \in Workers : seen'[v] \in {seen[v], NothingSeen}
    OBVIOUS
  <2>3. OnlyPublished'
    <3>1. NothingSeen.rows = {}
      BY DEF NothingSeen
    <3> QED
      BY <2>2, <3>1, DiskEntries DEF OnlyPublished
  <2>4. MemoryTruthful'
    BY <2>2, DiskEntries DEF MemoryTruthful
  <2>5. ReportsMatch' /\ EntriesTruthful'
    BY DEF ReportsMatch, EntriesTruthful
  <2> QED
    BY <2>1, <2>3, <2>4, <2>5
<1>3. ASSUME NEW w \in Workers, ReadSummary(w) PROVE SharedInv'
  <2> USE <1>3 DEF ReadSummary, Goto, pubVars, EvalTypeOK, PubTypeOK
  <2>1. PubInv'
    BY DEF PubInv
  <2>2. OnlyPublished'
    BY DEF OnlyPublished, PubInv, EntriesTruthful
  <2>3. MemoryTruthful'
    BY DEF MemoryTruthful, EntriesTruthful
  <2>4. ReportsMatch'
    BY DEF ReportsMatch, OnlyPublished, PubInv
  <2>5. EntriesTruthful'
    BY DEF EntriesTruthful, OnlyPublished, MemoryTruthful
  <2> QED
    BY <2>1, <2>2, <2>3, <2>4, <2>5
<1>4. ASSUME NEW w \in Workers, ReadStatus(w) PROVE SharedInv'
  <2> USE <1>4 DEF ReadStatus, Goto, pubVars, EvalTypeOK, PubTypeOK
  <2>1. PubInv'
    BY DEF PubInv
  <2>2. OnlyPublished'
    BY DEF OnlyPublished, PubInv, EntriesTruthful
  <2>3. MemoryTruthful'
    BY DEF MemoryTruthful, EntriesTruthful
  <2>4. ReportsMatch'
    BY DEF ReportsMatch, OnlyPublished, PubInv
  <2>5. EntriesTruthful'
    BY DEF EntriesTruthful, OnlyPublished, MemoryTruthful
  <2> QED
    BY <2>1, <2>2, <2>3, <2>4, <2>5
<1>5. ASSUME NEW w \in Workers, Reap(w) PROVE SharedInv'
  <2> USE <1>5 DEF Reap, Goto, pubVars, EvalTypeOK, PubTypeOK
  <2>1. PubInv'
    BY DEF PubInv
  <2>2. OnlyPublished'
    BY DEF OnlyPublished, PubInv, EntriesTruthful
  <2>3. MemoryTruthful'
    BY DEF MemoryTruthful, EntriesTruthful
  <2>4. ReportsMatch'
    BY DEF ReportsMatch, OnlyPublished, PubInv
  <2>5. EntriesTruthful'
    BY DEF EntriesTruthful, OnlyPublished, MemoryTruthful
  <2> QED
    BY <2>1, <2>2, <2>3, <2>4, <2>5
<1>6. ASSUME NEW w \in Workers, LaunchOver(w) PROVE SharedInv'
  <2> USE <1>6 DEF LaunchOver, Goto, pubVars, EvalTypeOK, PubTypeOK
  <2>1. PubInv'
    BY DEF PubInv
  <2>2. OnlyPublished'
    BY DEF OnlyPublished, PubInv, EntriesTruthful
  <2>3. MemoryTruthful'
    BY DEF MemoryTruthful, EntriesTruthful
  <2>4. ReportsMatch'
    BY DEF ReportsMatch, OnlyPublished, PubInv
  <2>5. EntriesTruthful'
    BY DEF EntriesTruthful, OnlyPublished, MemoryTruthful
  <2> QED
    BY <2>1, <2>2, <2>3, <2>4, <2>5
<1>7. ASSUME NEW w \in Workers, PersistOpen(w) PROVE SharedInv'
  <2> USE <1>7 DEF PersistOpen, OpenFile, Goto, pubVars, EvalTypeOK, PubTypeOK
  <2>1. PubInv'
    BY DEF PubInv
  <2>2. OnlyPublished'
    BY DEF OnlyPublished, PubInv, EntriesTruthful
  <2>3. MemoryTruthful'
    BY DEF MemoryTruthful, EntriesTruthful
  <2>4. ReportsMatch'
    BY DEF ReportsMatch, OnlyPublished, PubInv
  <2>5. EntriesTruthful'
    BY DEF EntriesTruthful, OnlyPublished, MemoryTruthful
  <2> QED
    BY <2>1, <2>2, <2>3, <2>4, <2>5
<1>8. ASSUME NEW w \in Workers, PersistWrite(w) PROVE SharedInv'
  <2> USE <1>8 DEF PersistWrite, Goto, pubVars, EvalTypeOK, PubTypeOK
  <2>1. PubInv'
    BY DEF PubInv
  <2>2. OnlyPublished'
    BY DEF OnlyPublished, PubInv, EntriesTruthful
  <2>3. MemoryTruthful'
    BY DEF MemoryTruthful, EntriesTruthful
  <2>4. ReportsMatch'
    BY DEF ReportsMatch, OnlyPublished, PubInv
  <2>5. EntriesTruthful'
    BY DEF EntriesTruthful, OnlyPublished, MemoryTruthful
  <2> QED
    BY <2>1, <2>2, <2>3, <2>4, <2>5
<1>9. ASSUME NEW w \in Workers, FinishRead(w) PROVE SharedInv'
  <2>1. /\ \A v \in Workers : payload'[v] \in {payload[v], file.entries}
        /\ UNCHANGED <<pubVars, seen, entries, running, ended, file, reports, links, strays>>
    BY <1>9 DEF FinishRead, EvalTypeOK
  <2>2. PubInv'
    BY <2>1 DEF PubInv, pubVars, PubTypeOK
  <2>3. OnlyPublished' /\ MemoryTruthful'
    BY <2>1 DEF OnlyPublished, MemoryTruthful, EntriesTruthful, pubVars
  <2>4. ReportsMatch' /\ EntriesTruthful'
    BY <2>1 DEF ReportsMatch, EntriesTruthful, pubVars
  <2> QED
    BY <2>2, <2>3, <2>4
<1>10. ASSUME NEW w \in Workers, FinishOpen(w) PROVE SharedInv'
  <2> USE <1>10 DEF FinishOpen, OpenFile, Goto, pubVars, EvalTypeOK, PubTypeOK
  <2>1. PubInv'
    BY DEF PubInv
  <2>2. OnlyPublished'
    BY DEF OnlyPublished, PubInv, EntriesTruthful
  <2>3. MemoryTruthful'
    BY DEF MemoryTruthful, EntriesTruthful
  <2>4. ReportsMatch'
    BY DEF ReportsMatch, OnlyPublished, PubInv
  <2>5. EntriesTruthful'
    BY DEF EntriesTruthful, OnlyPublished, MemoryTruthful
  <2> QED
    BY <2>1, <2>2, <2>3, <2>4, <2>5
<1>11. ASSUME NEW w \in Workers, FinishWrite(w) PROVE SharedInv'
  <2> USE <1>11 DEF FinishWrite, Goto, pubVars, EvalTypeOK, PubTypeOK
  <2>1. PubInv'
    BY DEF PubInv
  <2>2. OnlyPublished'
    BY DEF OnlyPublished, PubInv, EntriesTruthful
  <2>3. MemoryTruthful'
    BY DEF MemoryTruthful, EntriesTruthful
  <2>4. ReportsMatch'
    BY DEF ReportsMatch, OnlyPublished, PubInv
  <2>5. EntriesTruthful'
    BY DEF EntriesTruthful, OnlyPublished, MemoryTruthful
  <2> QED
    BY <2>1, <2>2, <2>3, <2>4, <2>5
<1>12. ASSUME NEW w \in Workers, Crash(w) PROVE SharedInv'
  <2> USE <1>12 DEF Crash, Goto, pubVars, EvalTypeOK, PubTypeOK
  <2>1. PubInv'
    BY DEF PubInv
  <2>2. OnlyPublished'
    BY DEF OnlyPublished, PubInv, EntriesTruthful
  <2>3. MemoryTruthful'
    BY DEF MemoryTruthful, EntriesTruthful
  <2>4. ReportsMatch'
    BY DEF ReportsMatch, OnlyPublished, PubInv
  <2>5. EntriesTruthful'
    BY DEF EntriesTruthful, OnlyPublished, MemoryTruthful
  <2> QED
    BY <2>1, <2>2, <2>3, <2>4, <2>5
<1>13. ASSUME NEW w \in Workers, NEW i \in Instances, Launch(w, i) PROVE SharedInv'
  <2> USE <1>13 DEF Launch, Ready, pubVars, EvalTypeOK, PubTypeOK
  <2>1. PubInv'
    BY DEF PubInv
  <2>2. OnlyPublished'
    BY DEF OnlyPublished, PubInv, EntriesTruthful
  <2>3. MemoryTruthful'
    BY DEF MemoryTruthful, EntriesTruthful
  <2>4. ReportsMatch'
    BY DEF ReportsMatch, OnlyPublished, PubInv
  <2>5. EntriesTruthful'
    BY DEF EntriesTruthful, OnlyPublished, MemoryTruthful
  <2> QED
    BY <2>1, <2>2, <2>3, <2>4, <2>5
<1>14. ASSUME NEW w \in Workers, NEW i \in Instances, EvaluatorEnds(w, i) PROVE SharedInv'
  <2> USE <1>14 DEF EvaluatorEnds, Judge, pubVars, EvalTypeOK, PubTypeOK
  <2>1. PubInv'
    BY DEF PubInv
  <2>2. OnlyPublished'
    BY DEF OnlyPublished, PubInv, EntriesTruthful
  <2>3. MemoryTruthful'
    BY DEF MemoryTruthful, EntriesTruthful
  <2>4. ReportsMatch'
    BY DEF ReportsMatch, OnlyPublished, PubInv
  <2>5. EntriesTruthful'
    BY DEF EntriesTruthful, OnlyPublished, MemoryTruthful
  <2> QED
    BY <2>1, <2>2, <2>3, <2>4, <2>5
<1>15. ASSUME NEW i \in Instances, StrayEnds(i) PROVE SharedInv'
  <2> USE <1>15 DEF StrayEnds, Judge, pubVars, workerVars, EvalTypeOK, PubTypeOK
  <2>1. PubInv'
    BY DEF PubInv
  <2>2. OnlyPublished'
    BY DEF OnlyPublished, PubInv, EntriesTruthful
  <2>3. MemoryTruthful'
    BY DEF MemoryTruthful, EntriesTruthful
  <2>4. ReportsMatch'
    BY DEF ReportsMatch, OnlyPublished, PubInv
  <2>5. EntriesTruthful'
    BY DEF EntriesTruthful, OnlyPublished, MemoryTruthful
  <2> QED
    BY <2>1, <2>2, <2>3, <2>4, <2>5
<1>16. CASE UNCHANGED vars
  <2> USE <1>16 DEF vars, pubVars, evalVars, workerVars, EvalTypeOK, PubTypeOK
  <2>1. PubInv'
    BY DEF PubInv
  <2>2. OnlyPublished'
    BY DEF OnlyPublished, PubInv, EntriesTruthful
  <2>3. MemoryTruthful'
    BY DEF MemoryTruthful, EntriesTruthful
  <2>4. ReportsMatch'
    BY DEF ReportsMatch, OnlyPublished, PubInv
  <2>5. EntriesTruthful'
    BY DEF EntriesTruthful, OnlyPublished, MemoryTruthful
  <2> QED
    BY <2>1, <2>2, <2>3, <2>4, <2>5
<1> QED
  BY <1>1, <1>2, <1>3, <1>4, <1>5, <1>6, <1>7, <1>8, <1>9, <1>10,
     <1>11, <1>12, <1>13, <1>14, <1>15, <1>16
     DEF Next, WorkerStep

LEMMA SharedInvariance == Spec => []SharedInv
BY InitSharedInv, StepSharedInv, PTL DEF Spec

\* A report always judges the published prediction of its instance, with any
\* number of workers, strays and restarts.
THEOREM ReportsAlwaysMatch == Spec => []ReportsMatch
<1>1. SharedInv => ReportsMatch
  BY DEF SharedInv
<1> QED
  BY <1>1, SharedInvariance, PTL

\* eval_worker_status.json never claims a report that does not exist.
THEOREM EntriesAlwaysTruthful == Spec => []EntriesTruthful
<1>1. SharedInv => EntriesTruthful
  BY DEF SharedInv
<1> QED
  BY <1>1, SharedInvariance, PTL
-----------------------------------------------------------------------------
(* What holds when one worker at a time writes the status file.            *)

OneWorker == \A v, w \in Workers : v = w

LEMMA AllOfThem ==
    ASSUME NEW S \in SUBSET Instances, Cardinality(S) >= Cardinality(Instances)
    PROVE  S = Instances
<1>1. /\ IsFiniteSet(S)
      /\ Cardinality(S) <= Cardinality(Instances)
      /\ Cardinality(S) = Cardinality(Instances) => S = Instances
  BY EvalInstancesAssumption, FS_Subset
<1>2. Cardinality(S) \in Nat /\ Cardinality(Instances) \in Nat
  BY <1>1, EvalInstancesAssumption, FS_CardinalityType
<1> QED
  BY <1>1, <1>2

\* all_eval_done cannot be reached through one of the fallback totals.
LEMMA NoEarlyFinish ==
    ASSUME SharedInv, SeenConsistent, NEW w \in Workers, pc[w] = "write", AllEvalDone(w)
    PROVE  Done(entries[w]) = Instances
<1>1. seen[w].posted
  <2> SUFFICES ASSUME ~ seen[w].posted PROVE FALSE
    OBVIOUS
  <2>1. seen[w].rows = {} /\ ~ seen[w].done
    BY DEF SeenConsistent
  <2>2. Total(w) = DefaultTotal
    BY <2>1 DEF Total
  <2>3. Cardinality(seen[w].rows) = 0
    BY <2>1, FS_EmptySet
  <2> QED
    BY <2>1, <2>2, <2>3, EvalOptionsAssumption DEF AllEvalDone, AllInferenceDone
<1>2. Cardinality(Done(entries[w])) >= Cardinality(Instances)
  BY <1>1 DEF AllEvalDone, Total
<1>3. Done(entries[w]) \in SUBSET Instances
  BY DEF Done
<1> QED
  BY <1>2, <1>3, AllOfThem

LEMMA InitSingleInv == Init => SingleInv
<1> SUFFICES ASSUME Init PROVE SingleInv
  OBVIOUS
<1>1. SharedInv
  BY InitSharedInv
<1>2. SeenConsistent
  BY DEF Init, SeenConsistent, NothingSeen
<1>3. FinishJustified /\ EvalDoneMeansAll
  BY DEF Init, FinishJustified, EvalDoneMeansAll
<1> QED
  BY <1>1, <1>2, <1>3 DEF SingleInv

LEMMA StepSingleInv == OneWorker /\ SingleInv /\ [Next]_vars => SingleInv'
<1> SUFFICES ASSUME OneWorker, SingleInv, [Next]_vars PROVE SingleInv'
  OBVIOUS
<1>0. SharedInv /\ SharedInv'
  BY StepSharedInv DEF SingleInv
<1> USE <1>0 DEF SingleInv
\* Steps of the inference side and of evaluators: the worker stands still.
<1>1. CASE UNCHANGED <<pc, seen, payload, file>> /\ summary \subseteq summary'
  <2>1. SeenConsistent'
    BY <1>1 DEF SeenConsistent, SharedInv, PubInv, PubTypeOK
  <2>2. FinishJustified'
    BY <1>1 DEF FinishJustified, Done
  <2>3. EvalDoneMeansAll'
    BY <1>1 DEF EvalDoneMeansAll, Done, SharedInv, PubInv, PubTypeOK
  <2> QED
    BY <2>1, <2>2, <2>3
<1>2. CASE PubNext /\ UNCHANGED evalVars
  BY <1>1, <1>2 DEF PubNext, Predict, Publish, Announce, evalVars, workerVars
<1>3. CASE \/ \E w \in Workers, i \in Instances : Launch(w, i) \/ EvaluatorEnds(w, i)
           \/ \E i \in Instances : StrayEnds(i)
  BY <1>1, <1>3 DEF Launch, EvaluatorEnds, StrayEnds, pubVars, workerVars
\* Steps of the worker, of which there is one.
<1>4. ASSUME NEW w \in Workers,
             Boot(w) \/ ReadSummary(w) \/ ReadStatus(w) \/ Reap(w)
             \/ LaunchOver(w) \/ Crash(w)
      PROVE  SingleInv'
  <2>1. SeenConsistent'
    <3>1. CASE Boot(w)
      BY <3>1 DEF SeenConsistent, Boot, Goto, NothingSeen, OneWorker, pubVars, SharedInv, EvalTypeOK
    <3>2. CASE ReadSummary(w)
      BY <3>2 DEF SeenConsistent, ReadSummary, Goto, OneWorker, pubVars, SharedInv, EvalTypeOK
    <3>3. CASE ReadStatus(w)
      <4>1. seen[w].rows # {} => posted
        BY DEF SharedInv, OnlyPublished, PubInv
      <4>2. StatusSaysDone => posted /\ summary = Instances
        <5> SUFFICES ASSUME StatusSaysDone PROVE posted /\ summary = Instances
          OBVIOUS
        <5>1. announced \in SUBSET Instances /\ announced \subseteq summary
          BY DEF SharedInv, PubInv, PubTypeOK
        <5>2. posted /\ Cardinality(announced) >= Cardinality(Instances)
          BY DEF StatusSaysDone
        <5>3. announced = Instances
          BY <5>1, <5>2, AllOfThem
        <5> QED
          BY <5>1, <5>2, <5>3 DEF SharedInv, PubInv, PubTypeOK
      <4>3. /\ seen'[w].rows = seen[w].rows /\ seen'[w].posted = posted
            /\ seen'[w].done = StatusSaysDone
            /\ UNCHANGED summary
        BY <3>3 DEF ReadStatus, pubVars, SharedInv, EvalTypeOK
      <4> QED
        BY <4>1, <4>2, <4>3 DEF SeenConsistent, OneWorker
    <3>4. CASE Reap(w) \/ LaunchOver(w) \/ Crash(w)
      BY <3>4 DEF SeenConsistent, Reap, LaunchOver, Crash, Goto, OneWorker, pubVars, Up,
                  SharedInv, EvalTypeOK
    <3> QED
      BY <1>4, <3>1, <3>2, <3>3, <3>4
  <2>2. FinishJustified'
    BY <1>4 DEF FinishJustified, Boot, ReadSummary, ReadStatus, Reap, LaunchOver, Crash, Goto,
                OneWorker, SharedInv, EvalTypeOK
  <2>3. EvalDoneMeansAll'
    BY <1>4 DEF EvalDoneMeansAll, Boot, ReadSummary, ReadStatus, Reap, LaunchOver, Crash, pubVars
  <2> QED
    BY <2>1, <2>2, <2>3
\* The steps that write or read the status file.
<1>5. ASSUME NEW w \in Workers,
             PersistOpen(w) \/ PersistWrite(w) \/ FinishRead(w)
             \/ FinishOpen(w) \/ FinishWrite(w)
      PROVE  SingleInv'
  <2>1. SeenConsistent'
    BY <1>5 DEF SeenConsistent, PersistOpen, PersistWrite, FinishRead, FinishOpen, FinishWrite,
                OpenFile, Goto, OneWorker, pubVars, SharedInv, EvalTypeOK
  <2>2. FinishJustified' /\ EvalDoneMeansAll'
    <3>1. CASE PersistOpen(w) \/ FinishOpen(w)
      BY <3>1 DEF FinishJustified, EvalDoneMeansAll, PersistOpen, FinishOpen, OpenFile, Goto,
                  OneWorker, SharedInv, EvalTypeOK
    <3>2. CASE PersistWrite(w)
      <4>1. AllEvalDone(w) => Done(entries[w]) = Instances
        BY <3>2, NoEarlyFinish DEF PersistWrite
      <4>2. /\ file'.kind = "ok" /\ file'.entries = entries[w] /\ file'.done = FALSE
            /\ pc'[w] = IF AllEvalDone(w) THEN "finread" ELSE "summary"
        BY <3>2 DEF PersistWrite, Goto, SharedInv, EvalTypeOK
      <4> QED
        BY <4>1, <4>2 DEF FinishJustified, EvalDoneMeansAll, OneWorker
    <3>3. CASE FinishRead(w)
      <4>1. file.kind = "ok" /\ Done(file.entries) = Instances
        BY <3>3 DEF FinishRead, FinishJustified
      <4>2. /\ payload'[w] = file.entries /\ pc'[w] = "finopen"
            /\ UNCHANGED <<file, summary>>
        BY <3>3, <4>1 DEF FinishRead, Goto, pubVars, SharedInv, EvalTypeOK
      <4>3. Done(payload'[w]) = Instances
        BY <4>1, <4>2
      <4> QED
        BY <4>2, <4>3 DEF FinishJustified, EvalDoneMeansAll, OneWorker
    <3>4. CASE FinishWrite(w)
      <4>1. Done(payload[w]) = Instances
        BY <3>4 DEF FinishWrite, FinishJustified
      <4>2. summary = Instances
        BY <4>1 DEF Done, SharedInv, OnlyPublished, PubInv, PubTypeOK
      <4>3. /\ file'.entries = payload[w] /\ pc'[w] = "exited" /\ UNCHANGED summary
        BY <3>4 DEF FinishWrite, Goto, pubVars, SharedInv, EvalTypeOK
      <4> QED
        BY <4>1, <4>2, <4>3 DEF FinishJustified, EvalDoneMeansAll, OneWorker
    <3> QED
      BY <1>5, <3>1, <3>2, <3>3, <3>4
  <2> QED
    BY <2>1, <2>2
<1>6. CASE UNCHANGED vars
  BY <1>1, <1>6 DEF vars, pubVars, evalVars, workerVars
<1> QED
  BY <1>2, <1>3, <1>4, <1>5, <1>6 DEF Next, WorkerStep

\* With one worker on the run directory, "done" in eval_worker_status.json
\* means that every instance was published and evaluated, across any number
\* of crashes, of truncated files and of restarts.
THEOREM DoneAlwaysMeansAll ==
    ASSUME OneWorker
    PROVE  Spec => []EvalDoneMeansAll
<1>1. Init => SingleInv
  BY InitSingleInv
<1>2. SingleInv /\ [Next]_vars => SingleInv'
  BY StepSingleInv
<1>3. SingleInv => EvalDoneMeansAll
  BY DEF SingleInv
<1> QED
  BY <1>1, <1>2, <1>3, PTL DEF Spec
=============================================================================
