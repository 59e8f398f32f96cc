------------------------------- MODULE SweAgent -------------------------------
(***************************************************************************)
(* One attempt of SWE-agent's DefaultAgent (sweagent/agent/agents.py): the *)
(* model is queried until its answer can be carried out, requeried after   *)
(* an error, and whatever stops the attempt, the patch is extracted from   *)
(* the container, or from the last state seen when the container is dead.  *)
(* The repository is abstracted to a version: 0 is the tree without edits, *)
(* so 0 is the empty patch too.                                            *)
(***************************************************************************)
EXTENDS Integers

CONSTANTS
    MaxRequeries,  \* max_requeries
    MaxTimeouts,   \* max_consecutive_execution_timeouts
    CostLimit,     \* per_instance_cost_limit
    TimeLimit,     \* total_execution_timeout, in commands
    Versions       \* versions of the repository, 0 among them

SweAgentAssumption ==
    /\ MaxRequeries \in Nat \ {0} /\ MaxTimeouts \in Nat \ {0}
    /\ CostLimit \in Nat \ {0} /\ TimeLimit \in Nat
    /\ Versions \subseteq Nat /\ 0 \in Versions

VARIABLES
    fails,     \* n_format_fails of the step at work
    timeouts,  \* _n_consecutive_timeouts
    time,      \* _total_execution_time
    cost,      \* model.stats.instance_cost
    last,      \* state["diff"] of trajectory[-1]
    info,      \* submission and exit status
    done,      \* step_output.done
    env,       \* the container: alive, tree, /root/model.patch, the diff of /root/state.json
    seen       \* history: the last diff of a step in the trajectory, and what the last
               \* command that took the diff came to

vars == <<fails, timeouts, time, cost, last, info, done, env, seen>>

NoStep == -2   \* the trajectory is empty
NoDiff == -1   \* a step that did not get to its state command
None == 0      \* an empty patch is no submission

Results == {"taken", "no_add", "no_diff", "unread"}

Status(why, submitted) == [why |-> why, submitted |-> submitted]
Reasons == {"", "exit_command", "exit_forfeit", "exit_total_execution_time", "exit_context",
            "exit_command_timeout", "exit_cost", "exit_api", "exit_environment_error",
            "exit_error", "exit_format"}

SweAgentTypeOK ==
    /\ fails \in 0..(MaxRequeries - 1)
    /\ timeouts \in 0..MaxTimeouts
    /\ time \in 0..(TimeLimit + 1)
    /\ cost \in 0..(CostLimit + 1)
    /\ last \in Versions \cup {NoStep, NoDiff}
    /\ info \in [sub : Versions, exit : [why : Reasons, submitted : BOOLEAN]]
    /\ done \in BOOLEAN
    /\ env \in [alive : BOOLEAN, tree : Versions, patch : Versions, diff : Versions]
    /\ seen \in [step : Versions \cup {NoStep}, git : Results]

Init ==
    /\ fails = 0 /\ timeouts = 0 /\ time = 0 /\ cost = 0
    /\ last = NoStep /\ seen = [step |-> NoStep, git |-> "taken"]
    /\ info = [sub |-> None, exit |-> Status("", FALSE)]
    /\ done = FALSE
    /\ env = [alive |-> TRUE, tree |-> 0, patch |-> 0, diff |-> 0]

-----------------------------------------------------------------------------
(* How a step ends                                                         *)

\* step: the result is put in the info and in the trajectory.
Records(sub, exit, state, ends) ==
    /\ info' = [sub |-> sub, exit |-> exit]
    /\ last' = state
    /\ done' = ends
    /\ fails' = 0

\* git add -A && git diff --cached > /root/model.patch.  When git add fails the file is left
\* as it is; when git diff fails the shell has emptied it.
Git(file, tree) == {[came |-> "taken", patch |-> tree], [came |-> "no_add", patch |-> file],
                    [came |-> "no_diff", patch |-> 0]}

\* A container that is dead has no files, but a diff may have been seen.
FromTrajectory(why, box) ==
    LET diff == IF last > 0 THEN last ELSE None
    IN  /\ Records(diff, Status(why, diff # None), NoDiff, TRUE)
        /\ env' = box /\ UNCHANGED seen

\* handle_submission(force_submission=True): submits what the patch file has, and returns
\* the step as it is when the file cannot be read.
NotForced(patch) == None
Forced(patch) == patch

FromContainer(why, box) ==
    \E git \in Git(box.patch, box.tree), read \in BOOLEAN :
        LET patch == IF read THEN Forced(git.patch) ELSE None
        IN  /\ env' = [box EXCEPT !.patch = git.patch]
            /\ seen' = [seen EXCEPT !.git = IF read THEN git.came ELSE "unread"]
            /\ Records(patch, Status(why, patch # None), NoDiff, TRUE)

Autosubmit(why, box) ==
    IF box.alive THEN FromContainer(why, box) ELSE FromTrajectory(why, box)

-----------------------------------------------------------------------------
(* What an answer of the model comes to.  The step goes on with a requery  *)
(* until it has used its number of errors.                                 *)

NeverOverCost(c) == FALSE
OverCost(c) == c > CostLimit

OneMore(n) == n > MaxRequeries
OutOfRequeries(n) == n >= MaxRequeries

\* An answer that cannot be carried out; a resampled one leaves no trace.
Fault ==
    /\ \E traced \in BOOLEAN :
        IF OutOfRequeries(fails + 1) THEN Autosubmit("exit_format", env)
        ELSE /\ fails' = fails + 1
             /\ last' = IF traced THEN NoDiff ELSE last
             /\ UNCHANGED <<info, done, env, seen>>
    /\ UNCHANGED <<timeouts, time>>

\* An error that ends the attempt before a command has run.
Stops ==
    /\ \E why \in {"exit_context", "exit_api", "exit_error"} : Autosubmit(why, env)
    /\ UNCHANGED <<timeouts, time>>

\* The container does not answer.
Broken ==
    /\ ~env.alive /\ Autosubmit("exit_environment_error", env)
    /\ UNCHANGED <<timeouts, time>>

\* A command has edited the tree; the container may have died of it.
Edited ==
    {[env EXCEPT !.tree = left.tree, !.alive = left.alive]
        : left \in [tree : Versions, alive : BOOLEAN]}

\* The state command takes the diff of a tree and puts it in the state file.
Shown(box) ==
    {[came |-> git.came, box |-> [box EXCEPT !.patch = git.patch, !.diff = git.patch]]
        : git \in Git(box.patch, box.tree)}

\* A step with that diff is put in the trajectory.
Steps(shown, sub, exit, ends) ==
    /\ env' = shown.box
    /\ seen' = [step |-> shown.box.diff, git |-> shown.came]
    /\ Records(sub, exit, shown.box.diff, ends)

Exits ==
    /\ env.alive
    /\ \E shown \in Shown(env) : Steps(shown, None, Status("exit_command", FALSE), TRUE)
    /\ UNCHANGED <<timeouts, time>>

\* The output asks for a retry, which is kept in the trajectory or leaves no trace.
Retries(shown) ==
    /\ env' = shown.box
    /\ \/ seen' = [step |-> shown.box.diff, git |-> shown.came] /\ last' = shown.box.diff
       \/ seen' = [seen EXCEPT !.git = shown.came] /\ UNCHANGED last
    /\ UNCHANGED <<fails, info, done>>

\* A command runs, for a short or for a long time.  Its output may be that of a submission,
\* whose patch is read, or forfeit; and the container or the state file may not answer.
Runs == time' \in {time, time + 1}

Completes ==
    /\ env.alive /\ Runs /\ timeouts' = 0
    /\ \E box \in Edited :
        \/ box.alive /\ \E shown \in Shown(box) :
            \/ Steps(shown, None, Status("", FALSE), FALSE)
            \/ Steps(shown, shown.box.patch, Status("", TRUE), TRUE)
            \/ Retries(shown)
            \/ \E why \in {"exit_forfeit", "exit_error"} : Autosubmit(why, shown.box)
        \/ Autosubmit("exit_environment_error", box)

\* A command that was cancelled is a step like the others, unless too many were, or the
\* session could not be interrupted.
TimesOut ==
    /\ env.alive
    /\ timeouts' = timeouts + 1
    /\ \E box \in Edited :
        IF timeouts + 1 >= MaxTimeouts
        THEN time' = time + 1 /\ Autosubmit("exit_command_timeout", box)
        ELSE \/ time' = time + 1 /\ Autosubmit("exit_environment_error", box)
             \/ /\ box.alive /\ Runs
                /\ \E shown \in Shown(box) : Steps(shown, None, Status("", FALSE), FALSE)

-----------------------------------------------------------------------------
\* The model is asked: forward checks the time first, and the model raises an
\* error after the query that exceeded its cost.
Forward ==
    /\ ~done
    /\ IF time > TimeLimit
       THEN Autosubmit("exit_total_execution_time", env) /\ UNCHANGED <<timeouts, time, cost>>
       ELSE /\ cost' = IF cost > CostLimit THEN cost ELSE cost + 1
            /\ IF OverCost(cost + 1)
               THEN Autosubmit("exit_cost", env) /\ UNCHANGED <<timeouts, time>>
               ELSE Fault \/ Stops \/ Broken \/ Exits \/ Completes \/ TimesOut

\* The container may die at any time.
EnvDies ==
    /\ ~done /\ env.alive
    /\ env' = [env EXCEPT !.alive = FALSE]
    /\ UNCHANGED <<fails, timeouts, time, cost, last, info, done, seen>>

Next == Forward \/ EnvDies

Spec == Init /\ [][Next]_vars
FairSpec == Spec /\ WF_vars(Forward)

-----------------------------------------------------------------------------
(* Properties                                                              *)

Ended(lives) == done /\ env.alive = lives /\ info.exit.why # "exit_command"

\* Whatever ended the attempt, a container that lives has its tree submitted when its diff
\* could be taken, and what its last state command saw when git add failed (agents.py:865).
\* Nothing is submitted only where git diff failed, which empties the patch, or the patch
\* could not be read (agents.py:891).
PatchOfTheLiving ==
    Ended(TRUE) => info.sub = CASE seen.git = "taken" -> env.tree
                                [] seen.git = "no_add" -> env.diff
                                [] OTHER -> None

\* agents.py:832: when the container has died, the diff that was saved for a
\* previous step is submitted.
PatchOfTheDead ==
    Ended(FALSE) /\ seen.step > 0 => info.sub = seen.step
=============================================================================
