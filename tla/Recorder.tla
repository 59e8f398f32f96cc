------------------------------- MODULE Recorder -------------------------------
(***************************************************************************)
(* record_official48_progress.py: a recorder reads three status files one  *)
(* after the other, appends an entry with the advance since the previous   *)
(* entry to progress.md and saves that entry as its state.  The files are  *)
(* written by others meanwhile, two of them in place.  The recorder may    *)
(* die at any step and is started again.                                   *)
(***************************************************************************)
EXTENDS Integers, TLC

CONSTANTS
    Total,      \* instances of the run
    MaxStarts,  \* bound: starts of the recorder
    MaxTorn     \* bound: how often a file is rewritten without news

RecorderAssumption ==
    Total \in Nat \ {0} /\ MaxStarts \in Nat \ {0} /\ MaxTorn \in Nat

VARIABLES
    inf,        \* instances inferred; inference_status.json is replaced atomically
    evals,      \* instances evaluated (reports)
    evalFile,   \* eval_worker_status.json: number of completed entries, or Torn
    monFile,    \* monitor_status.json: a Snapshot, or Torn
    rewrites,   \* rewrites without news so far
    pc,         \* where the recorder is
    snap,       \* the snapshot being built
    prev,       \* previous
    due,        \* next_write_at has come
    stateFile,  \* progress_state.json: a Snapshot, None, or Torn
    last,       \* the last entry of progress.md, or None
    told,       \* progress according to the record: initial counts plus advances
    starts

files == <<inf, evals, evalFile, monFile, rewrites>>
vars == <<files, pc, snap, prev, due, stateFile, last, told, starts>>

Torn == [torn |-> TRUE]
None == [none |-> TRUE]
Snapshot == [inf : 0..Total, eval : 0..Total, done : BOOLEAN]
Nothing == [inf |-> 0, eval |-> 0, done |-> FALSE]
IsSnapshot(f) == f \notin {Torn, None}
Counts == [inf : Nat, eval : Nat]

PCs == {"down", "infer", "eval", "monitor", "decide", "save", "saving", "ended"}

RecorderTypeOK ==
    /\ inf \in 0..Total /\ evals \in 0..Total /\ rewrites \in 0..MaxTorn
    /\ evalFile \in {Torn} \cup [count : 0..Total]
    /\ monFile \in {Torn} \cup Snapshot
    /\ pc \in PCs /\ snap \in Snapshot /\ due \in BOOLEAN
    /\ prev \in {None} \cup Snapshot
    /\ stateFile \in {None, Torn} \cup Snapshot
    /\ last \in {None} \cup Snapshot
    /\ told \in Counts /\ starts \in 0..MaxStarts

Init ==
    /\ inf = 0 /\ evals = 0 /\ rewrites = 0
    /\ evalFile = [count |-> 0] /\ monFile = Nothing
    /\ pc = "down" /\ snap = Nothing /\ prev = None /\ due = FALSE
    /\ stateFile = None /\ last = None
    /\ told = [inf |-> 0, eval |-> 0] /\ starts = 0

recorderVars == <<pc, snap, prev, due, stateFile, last, told, starts>>

-----------------------------------------------------------------------------
(* The other processes of the run                                          *)

Inferred == inf < Total /\ inf' = inf + 1 /\ UNCHANGED <<evals, evalFile, monFile, rewrites>>

Evaluated == evals < inf /\ evals' = evals + 1 /\ UNCHANGED <<inf, evalFile, monFile, rewrites>>

News(f, now) ==
    \/ f # now /\ UNCHANGED rewrites
    \/ f = now /\ rewrites < MaxTorn /\ rewrites' = rewrites + 1

WorkerOpens ==
    /\ evalFile # Torn /\ News(evalFile, [count |-> evals])
    /\ evalFile' = Torn /\ UNCHANGED <<inf, evals, monFile>>
WorkerWrites ==
    /\ evalFile = Torn /\ evalFile' = [count |-> evals]
    /\ UNCHANGED <<inf, evals, monFile, rewrites>>

MonitorView == [inf |-> inf, eval |-> evals, done |-> inf = Total /\ evals = Total]
MonitorOpens ==
    /\ IsSnapshot(monFile) /\ ~monFile.done /\ News(monFile, MonitorView)
    /\ monFile' = Torn /\ UNCHANGED <<inf, evals, evalFile>>
MonitorWrites ==
    /\ monFile = Torn /\ monFile' = MonitorView
    /\ UNCHANGED <<inf, evals, evalFile, rewrites>>

Run ==
    /\ Inferred \/ Evaluated \/ WorkerOpens \/ WorkerWrites \/ MonitorOpens \/ MonitorWrites
    /\ UNCHANGED recorderVars

-----------------------------------------------------------------------------
(* The recorder                                                            *)

\* A state file that was being written when the recorder died reads as None.
Start ==
    /\ pc = "down" /\ starts < MaxStarts /\ starts' = starts + 1
    /\ prev' = IF IsSnapshot(stateFile) THEN stateFile ELSE None
    /\ due' = TRUE /\ pc' = "infer"
    /\ UNCHANGED <<files, snap, stateFile, last, told>>

ReadInference ==
    /\ pc = "infer" /\ pc' = "eval"
    /\ snap' = [Nothing EXCEPT !.inf = inf]
    /\ UNCHANGED <<files, prev, due, stateFile, last, told, starts>>

ReadEval ==
    /\ pc = "eval" /\ pc' = "monitor"
    /\ snap' = [snap EXCEPT !.eval = IF evalFile = Torn THEN 0 ELSE evalFile.count]
    /\ UNCHANGED <<files, prev, due, stateFile, last, told, starts>>

\* The monitor's count goes before the worker's.
ReadMonitor ==
    /\ pc = "monitor" /\ pc' = "decide"
    /\ snap' = IF monFile = Torn THEN snap
               ELSE [snap EXCEPT !.eval = monFile.eval, !.done = monFile.done]
    /\ UNCHANGED <<files, prev, due, stateFile, last, told, starts>>

Advance(now, before) == IF now > before THEN now - before ELSE 0

\* build_delta: without a previous snapshot the counts themselves are told.
Told ==
    IF prev = None THEN [inf |-> snap.inf, eval |-> snap.eval]
    ELSE [inf |-> told.inf + Advance(snap.inf, prev.inf),
          eval |-> told.eval + Advance(snap.eval, prev.eval)]

ShouldWriteWhenDue == due
ShouldWrite == due \/ (snap.done /\ (IsSnapshot(prev) => ~prev.done))

AfterLoop == IF snap.done THEN "ended" ELSE "infer"

AppendEntry ==
    /\ pc = "decide" /\ ShouldWrite
    /\ last' = snap /\ told' = Told /\ pc' = "save"
    /\ UNCHANGED <<files, snap, prev, due, stateFile, starts>>

RememberAlways == prev' = snap
Remember == UNCHANGED prev

NothingToWrite ==
    /\ pc = "decide" /\ ~ShouldWrite
    /\ Remember /\ pc' = AfterLoop
    /\ UNCHANGED <<files, snap, due, stateFile, last, told, starts>>

OpenState ==
    /\ pc = "save" /\ stateFile' = Torn /\ pc' = "saving"
    /\ UNCHANGED <<files, snap, prev, due, last, told, starts>>

SaveState ==
    /\ pc = "saving"
    /\ stateFile' = snap /\ prev' = snap /\ due' = FALSE /\ pc' = AfterLoop
    /\ UNCHANGED <<files, snap, last, told, starts>>

IntervalElapses ==
    /\ pc \notin {"down", "ended"} /\ ~due /\ due' = TRUE
    /\ UNCHANGED <<files, pc, snap, prev, stateFile, last, told, starts>>

Dies ==
    /\ pc \notin {"down", "ended"} /\ starts < MaxStarts /\ pc' = "down"
    /\ UNCHANGED <<files, snap, prev, due, stateFile, last, told, starts>>

Steps ==
    \/ Start \/ ReadInference \/ ReadEval \/ ReadMonitor
    \/ AppendEntry \/ NothingToWrite \/ OpenState \/ SaveState

Next == Run \/ Steps \/ IntervalElapses \/ Dies

Spec == Init /\ [][Next]_vars

\* The recorder loops, the supervisor starts it again (a last start is not
\* followed by a death), and the run goes on.  The interval need not elapse.
FairSpec == Spec /\ WF_vars(Steps) /\ WF_vars(Run)

-----------------------------------------------------------------------------
(* Properties                                                              *)

\* Whatever the restarts and torn files, no progress is skipped: the initial
\* counts and the advances in progress.md reach at least the counts of its
\* last entry.
NothingSkipped ==
    last # None => told.inf >= last.inf /\ told.eval >= last.eval

\* record_official48_progress.py:157: the file "does not invent missing
\* progress": the advances it tells do not exceed what has happened.
NothingInvented == told.inf <= inf /\ told.eval <= evals
=============================================================================
