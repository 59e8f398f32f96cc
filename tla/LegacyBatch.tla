------------------------------ MODULE LegacyBatch ------------------------------
(***************************************************************************)
(* The sequential batch of cases (run_innercc_batch.py): it copies the     *)
(* instances, repairs those whose patches or lists of tests are missing,   *)
(* by running the tests with and without the gold patch, and then runs     *)
(* each case (custom_cli_case/run_custom_cli_case.py, main).               *)
(***************************************************************************)
EXTENDS Integers, Sequences

CONSTANTS
    N,         \* instances, in the order of their files
    Tests,
    Statuses,  \* of a test in a log, with NoStatus for one that is not in it
    NoStatus,
    MaxStarts  \* bound

LegacyAssumption ==
    /\ N \in Nat /\ NoStatus \in Statuses /\ MaxStarts \in Nat
    /\ {"PASSED", "FAILED"} \subseteq Statuses /\ NoStatus \notin {"PASSED", "XFAIL"}

VARIABLES
    source,   \* output_final: each instance, which a killed write leaves torn
    copy,     \* the same below the root of the batch
    log,      \* test_output.txt with the gold patch and with the tests alone
    out,      \* is there a summary.json of the case?
    results,  \* of the cases so far
    batch,    \* batch_summary.json
    pc, at,   \* step of the script, and the instance it has come to
    tested,   \* the logs, and the patches, that the lists of an instance come from
    starts

vars == <<source, copy, log, out, results, batch, pc, at, tested, starts>>

Instances == 1..N
Logs == [Tests -> Statuses]
NoLog == [found |-> FALSE, map |-> [t \in Tests |-> NoStatus]]
File == [torn : BOOLEAN, code : BOOLEAN, test : BOOLEAN, lists : BOOLEAN,
         f2p : SUBSET Tests, p2p : SUBSET Tests]
NotTested == [gold |-> NoLog, pre |-> NoLog, code |-> FALSE, test |-> FALSE]
Results == [id : Instances, rc : {0, 1}]

LegacyTypeOK ==
    /\ source \in [Instances -> File] /\ copy \in [Instances -> File]
    /\ log \in [{"gold", "pre"} -> [found : BOOLEAN, map : Logs]]
    /\ out \in [Instances -> BOOLEAN] /\ results \in Seq(Results) /\ batch \in Seq(Results)
    /\ pc \in {"idle", "repair", "gold", "pre", "fill", "write", "batch"} /\ at \in 1..(N + 1)
    /\ tested \in [Instances -> [gold : [found : BOOLEAN, map : Logs], code : BOOLEAN,
                                 pre : [found : BOOLEAN, map : Logs], test : BOOLEAN]]
    /\ starts \in 0..MaxStarts

\* An instance may have both patches without the lists of its tests.
Given(whole) == [torn |-> FALSE, code |-> TRUE, test |-> TRUE, lists |-> whole,
                 f2p |-> {}, p2p |-> {}]

Init ==
    /\ source \in [Instances -> {Given(FALSE), Given(TRUE)}] /\ copy = source
    /\ log = [k \in {"gold", "pre"} |-> NoLog] /\ out = [i \in Instances |-> FALSE]
    /\ results = <<>> /\ batch = <<>> /\ pc = "idle" /\ at = 1
    /\ tested = [i \in Instances |-> NotTested] /\ starts = 0

\* An exception, or a kill, ends the script wherever it is.
Dies ==
    /\ pc # "idle" /\ pc' = "idle"
    /\ UNCHANGED <<source, copy, log, out, results, batch, at, tested, starts>>

KeptOut == out
NewOut == [i \in Instances |-> FALSE]

\* prepare_batch_root removes all of the batch before.
PrepareBatchRoot ==
    /\ pc = "idle" /\ starts < MaxStarts /\ starts' = starts + 1
    /\ copy' = source /\ log' = [k \in {"gold", "pre"} |-> NoLog]
    /\ out' = NewOut /\ results' = <<>> /\ batch' = <<>>
    /\ pc' = IF N = 0 THEN "batch" ELSE "repair"
    /\ at' = 1
    /\ UNCHANGED <<source, tested>>

-----------------------------------------------------------------------------
(* repair_instances                                                        *)

NeedsPatches(f) == ~f.code \/ ~f.test
NeedsRepair(f) == ~f.code \/ ~f.test \/ ~f.lists

Next1 == pc' = IF at = N THEN "batch" ELSE "repair"
Advance == at' = IF at = N THEN 1 ELSE at + 1

Skip ==
    /\ pc = "repair" /\ ~copy[at].torn /\ ~NeedsRepair(copy[at]) /\ Next1 /\ Advance
    /\ UNCHANGED <<source, copy, log, out, results, batch, tested, starts>>

\* rebuild_top_level_patches: what GitHub compares may have no code, or no tests.
Rebuild ==
    /\ pc = "repair" /\ ~copy[at].torn /\ NeedsRepair(copy[at])
    /\ \E code, test \in BOOLEAN :
         copy' = [copy EXCEPT ![at] = [@ EXCEPT !.code = code, !.test = test]]
    /\ pc' = "gold"
    /\ UNCHANGED <<source, log, out, results, batch, at, tested, starts>>

\* fill_f2p_p2p_locally: the tests with both patches, and with that of the tests.  A patch
\* that does not apply, or a timeout, leaves no log that counts.
RunTests(kind, next) ==
    /\ pc = kind /\ pc' = next
    /\ \/ \E map \in Logs : log' = [log EXCEPT ![kind] = [found |-> TRUE, map |-> map]]
       \/ UNCHANGED log
    /\ UNCHANGED <<source, copy, out, results, batch, at, tested, starts>>

Gold(t) == log["gold"].map[t]
Pre(t) == log["pre"].map[t]
NotPassed(t) == Pre(t) # "PASSED"
FailedBefore(t) == Pre(t) \in {"FAILED", "ERROR", NoStatus}

Fill ==
    /\ pc = "fill" /\ log["gold"].found /\ log["pre"].found
    /\ copy' = [copy EXCEPT ![at] =
         [@ EXCEPT !.lists = TRUE,
                   !.f2p = {t \in Tests : Gold(t) = "PASSED" /\ FailedBefore(t)},
                   !.p2p = {t \in Tests : Gold(t) = "PASSED" /\ Pre(t) = "PASSED"}]]
    /\ source' = [source EXCEPT ![at].torn = TRUE] /\ pc' = "write"
    /\ UNCHANGED <<log, out, results, batch, at, tested, starts>>

WriteSource ==
    /\ pc = "write" /\ source' = [source EXCEPT ![at] = copy[at]]
    /\ tested' = [tested EXCEPT ![at] = [gold |-> log["gold"], pre |-> log["pre"],
                                         code |-> copy[at].code, test |-> copy[at].test]]
    /\ log' = [k \in {"gold", "pre"} |-> NoLog] /\ Next1 /\ Advance
    /\ UNCHANGED <<copy, out, results, batch, starts>>

-----------------------------------------------------------------------------
(* run_batch                                                               *)

\* A case ends with its summary; or its checkout, session, diff, images or evaluation
\* fails, and the batch goes on.
RunCase ==
    /\ pc = "batch" /\ Len(results) < N
    /\ \E rc \in {0, 1} :
         /\ results' = Append(results, [id |-> at, rc |-> rc])
         /\ out' = [out EXCEPT ![at] = @ \/ rc = 0]
    /\ Advance
    /\ UNCHANGED <<source, copy, log, batch, pc, tested, starts>>

WriteSummary ==
    /\ pc = "batch" /\ Len(results) = N /\ batch' = results /\ pc' = "idle"
    /\ UNCHANGED <<source, copy, log, out, results, at, tested, starts>>

Next ==
    \/ PrepareBatchRoot \/ Skip \/ Rebuild \/ RunTests("gold", "pre")
    \/ RunTests("pre", "fill") \/ Fill \/ WriteSource \/ RunCase \/ WriteSummary \/ Dies

Spec == Init /\ [][Next]_vars

-----------------------------------------------------------------------------
(* Properties                                                              *)

\* As the harness grades: a test that is expected to fail passes when it does.
Passes(st) == st \in {"PASSED", "XFAIL"}

\* Across kills and restarts, an instance that was repaired has the patches that its lists
\* were made with; by these lists the gold patch is resolved in the log that was seen, and
\* the tests alone are not, unless no test is to be repaired.
RepairEarned ==
    \A i \in Instances : tested[i] # NotTested /\ ~source[i].torn =>
        LET f == source[i]  r == tested[i] IN
        /\ f.code = r.code /\ f.test = r.test /\ r.gold.found /\ r.pre.found
        /\ \A t \in f.f2p \cup f.p2p : Passes(r.gold.map[t])
        /\ \A t \in f.f2p : ~Passes(r.pre.map[t])
        /\ \A t \in f.p2p : Passes(r.pre.map[t])

\* An instance is given to a session as its source has it, with the lists of tests.
CaseHasLists ==
    pc = "batch" => \A i \in Instances : copy[i] = source[i] /\ copy[i].lists

\* The summary of a batch has each instance once, in order, and a case that is counted as
\* ended well, no other, has left its own summary.
BatchAccounts ==
    batch # <<>> =>
        /\ [k \in DOMAIN batch |-> batch[k].id] = [k \in Instances |-> k]
        /\ \A k \in DOMAIN batch : batch[k].rc = 0 <=> out[batch[k].id]

-----------------------------------------------------------------------------
(* What the code does not keep                                             *)

\* A kill while an instance is written below output_final leaves it torn, and each later
\* start ends when it reads it.
SourceReadable == pc = "idle" => \A i \in Instances : ~source[i].torn

\* What was repaired needs no repair: a comparison without tests, or without code, is
\* repaired at every start.
RepairEnds == pc = "batch" => \A i \in Instances : ~NeedsRepair(copy[i])
=============================================================================
