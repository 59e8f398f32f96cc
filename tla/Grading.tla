------------------------------- MODULE Grading -------------------------------
(***************************************************************************)
(* How the SWE-bench harness decides that an instance is resolved          *)
(* (swebench/harness/grading.py): the statuses that a log parser found are *)
(* held against the tests that must pass.  A step of the model gives one   *)
(* test another status, as another evaluation of the same instance would.  *)
(***************************************************************************)
EXTENDS Integers, FiniteSets

CONSTANT Tests

Statuses == {"FAILED", "PASSED", "SKIPPED", "ERROR", "XFAIL"}
Absent == "absent"   \* not in the log

VARIABLES
    f2p, p2p,   \* the tests of FAIL_TO_PASS and PASS_TO_PASS
    failOnly,   \* is the repository one of FAIL_ONLY_REPOS?
    sm          \* eval_status_map

vars == <<f2p, p2p, failOnly, sm>>

Init ==
    /\ f2p \in SUBSET Tests /\ f2p # {} /\ p2p = Tests \ f2p
    /\ failOnly \in BOOLEAN
    /\ sm \in [Tests -> Statuses \cup {Absent}]

Next ==
    /\ \E t \in Tests, s \in Statuses \cup {Absent} : sm' = [sm EXCEPT ![t] = s]
    /\ UNCHANGED <<f2p, p2p, failOnly>>

Spec == Init /\ [][Next]_vars

-----------------------------------------------------------------------------
(* grading.py                                                              *)

test_passed(t, m) == m[t] \in {"PASSED", "XFAIL"}
\* A test that the log does not have counts as failed.
AbsentNotFailed(t, m) == m[t] \in {"FAILED", "ERROR"}
test_failed(t, m) == m[t] \in {"FAILED", "ERROR", Absent}

\* get_eval_tests_report: neither list gets a test that was skipped, except in a
\* repository where only failures are listed.
Success(T, m) == {t \in T : IF failOnly THEN m[t] # "FAILED" ELSE test_passed(t, m)}
Failure(T, m) == {t \in T : IF failOnly THEN m[t] = "FAILED" ELSE test_failed(t, m)}

\* compute_fail_to_pass and compute_pass_to_pass: the share of successes, or 1.
Whole(T, m) == Failure(T, m) = {}
Some(T, m) == Success(T, m) # {}

\* get_resolution_status
Resolution(m) ==
    IF ~Whole(p2p, m) THEN "NO"
    ELSE IF Whole(f2p, m) THEN "FULL"
    ELSE IF Some(f2p, m) THEN "PARTIAL" ELSE "NO"

-----------------------------------------------------------------------------
(* Properties                                                              *)

\* An instance that is resolved has no required test that failed, and outside the
\* repositories that list only failures none that raised an error or did not run.
ResolvedHasNoFailure ==
    Resolution(sm) = "FULL" =>
        \A t \in Tests : sm[t] # "FAILED" /\ (~failOnly => sm[t] \notin {"ERROR", Absent})

\* get_resolution_status: an instance is resolved in full if "fail-to-pass (Resolution) = 1
\* and pass-to-pass (Maintenance) = 1", where a success is a test that passes.
FullMeansPassed ==
    Resolution(sm) = "FULL" /\ ~failOnly => \A t \in f2p : test_passed(t, sm)
=============================================================================
