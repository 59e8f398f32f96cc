--------------------------- MODULE PowerShellSession ---------------------------
(***************************************************************************)
(* The shell of the OpenHands runtime on Windows                           *)
(* (openhands/runtime/utils/windows_bash.py): each command is a PowerShell *)
(* job, which runs on when the call that started it times out.  A line of  *)
(* output is its number; a job keeps all of them until it is removed.      *)
(***************************************************************************)
EXTENDS Integers, Sequences, FiniteSets, FiniteSetsExt, Functions

CONSTANTS
    MaxJobs, MaxCalls, MaxLines, \* bounds: jobs, calls of execute, lines of a job
    Prompts,                     \* may a job ask for input?
    StartFails                   \* may Start-Job fail?

PowerShellAssumption ==
    /\ MaxJobs \in Nat \ {0} /\ MaxCalls \in Nat /\ MaxLines \in Nat
    /\ Prompts \in BOOLEAN /\ StartFails \in BOOLEAN

Jobs == 1..MaxJobs
Over == {"completed", "failed", "stopped"}

VARIABLES
    job,     \* state, lines of output, started with an ampersand?
    active,  \* active_job, 0 without one
    lastOut, \* _last_job_output: lines of it that were returned
    call,    \* where execute stands, the job it follows and the lines it has polled
    told,    \* the lines of each job that were returned, one after another
    answer,  \* what the last call said, and of which job
    calls,   \* calls so far
    closed

vars == <<job, active, lastOut, call, told, answer, calls, closed>>

Idle == [pc |-> "idle", job |-> 0, seen |-> 0]
States == {"none", "running", "blocked", "removed"} \cup Over
Kinds == {"nothing", "completed", "finished", "timeout", "refused", "stopped", "error",
          "background"}

PowerShellTypeOK ==
    /\ job \in [Jobs -> [st : States, out : 0..MaxLines, bg : BOOLEAN, ended : BOOLEAN]]
    /\ active \in 0..MaxJobs /\ lastOut \in 0..MaxLines
    /\ call \in [pc : {"idle", "monitor", "state", "check", "checkState"}, job : 0..MaxJobs,
                 seen : 0..MaxLines]
    /\ \A j \in Jobs : told[j] \in Seq(1..MaxLines)
    /\ answer.kind \in Kinds /\ answer.job \in 0..MaxJobs
    /\ calls \in 0..MaxCalls /\ closed \in BOOLEAN

Init ==
    /\ job = [j \in Jobs |-> [st |-> "none", out |-> 0, bg |-> FALSE, ended |-> FALSE]]
    /\ active = 0 /\ lastOut = 0 /\ call = Idle /\ told = [j \in Jobs |-> <<>>]
    /\ answer = [kind |-> "nothing", job |-> 0] /\ calls = 0 /\ closed = FALSE

-----------------------------------------------------------------------------
(* Jobs                                                                    *)

Alive(j) == job[j].st \in {"running", "blocked"}

PrintLine(j) ==
    /\ job[j].st = "running" /\ job[j].out < MaxLines
    /\ job' = [job EXCEPT ![j].out = @ + 1]
    /\ UNCHANGED <<active, lastOut, call, told, answer, calls, closed>>

End(j) ==
    /\ job[j].st = "running"
    /\ \E s \in {"completed", "failed"} : job' = [job EXCEPT ![j].st = s, ![j].ended = TRUE]
    /\ UNCHANGED <<active, lastOut, call, told, answer, calls, closed>>

\* A job that reads from the host waits for ever: nothing answers it.
Prompt(j) ==
    /\ Prompts /\ job[j].st = "running" /\ job' = [job EXCEPT ![j].st = "blocked"]
    /\ UNCHANGED <<active, lastOut, call, told, answer, calls, closed>>

\* Remove-Job without Force fails for a job that has not ended.
Removed(j) == [job EXCEPT ![j].st = IF @ \in Over THEN "removed" ELSE @]

-----------------------------------------------------------------------------
(* execute                                                                 *)

\* The lines that an answer returns of a job: those after the first "from".
Returns(j, from, to) ==
    told' = [told EXCEPT ![j] = @ \o [i \in 1..(to - from) |-> from + i]]
Answers(kind, j) == answer' = [kind |-> kind, job |-> j]

Call ==
    /\ call.pc = "idle" /\ ~closed /\ calls < MaxCalls /\ calls' = calls + 1
    /\ UNCHANGED closed

\* The job of an earlier call is found to have ended: its whole output is returned, and
\* the command of this call is not looked at.
FoundFinished ==
    /\ Call /\ active # 0 /\ job[active].st \notin {"none", "running"}
    /\ Returns(active, 0, job[active].out) /\ Answers("completed", active)
    /\ job' = Removed(active) /\ active' = 0 /\ lastOut' = 0
    /\ UNCHANGED call

StillRuns == active # 0 /\ job[active].st = "running"
Unread == lastOut
Read == job[active].out

\* A command, or an input, while the job runs: refused, with the new output.
RefuseCommand ==
    /\ Call /\ StillRuns
    /\ Returns(active, lastOut, job[active].out) /\ Answers("refused", active)
    /\ lastOut' = Read
    /\ UNCHANGED <<job, active, call>>

\* C-c: _stop_active_job returns all that Receive-Job gives.
StopActiveJob ==
    /\ Call /\ StillRuns
    /\ \E s \in {"stopped", "completed", "failed"} :
         job' = [job EXCEPT ![active].st = "removed", ![active].ended = TRUE]
    /\ Returns(active, 0, job[active].out) /\ Answers("stopped", active)
    /\ active' = 0
    /\ UNCHANGED <<lastOut, call>>

\* An empty command: _check_active_job, which holds the lock.
CheckActiveJob ==
    /\ Call /\ StillRuns
    /\ call' = [pc |-> "check", job |-> active, seen |-> lastOut]
    /\ UNCHANGED <<job, active, lastOut, told, answer>>

\* An empty command or C-c without a job, a command with an error or with several
\* statements, and one that changes the directory and runs at once.
WithoutJob ==
    /\ Call /\ active = 0 /\ Answers("error", 0)
    /\ UNCHANGED <<job, active, lastOut, call, told>>

\* The output that was returned is that of the job before.
NoReset == lastOut
Reset == 0

\* After Start-Job the job with the highest number is taken for the command's: one that
\* has failed at once is removed, and one with an ampersand is not followed.
TakeLatest(jobs, j, background) ==
    /\ lastOut' = Reset /\ UNCHANGED told
    /\ \/ /\ jobs[j].st = "failed" /\ Answers("error", 0)
          /\ job' = [jobs EXCEPT ![j].st = "removed"] /\ UNCHANGED <<active, call>>
       \/ /\ jobs[j].st # "failed" /\ background /\ Answers("background", j)
          /\ job' = jobs /\ UNCHANGED <<active, call>>
       \/ /\ jobs[j].st # "failed" /\ ~background /\ UNCHANGED answer
          /\ job' = jobs /\ active' = j
          /\ call' = [pc |-> "monitor", job |-> j, seen |-> 0]

\* A command becomes a job, which may fail before it is looked at.
StartJob ==
    /\ Call /\ active = 0
    /\ \E j \in Jobs, st \in {"running", "failed"}, background \in BOOLEAN :
         /\ job[j].st = "none" /\ \A k \in Jobs : k < j => job[k].st # "none"
         /\ TakeLatest([job EXCEPT ![j] = [st |-> st, out |-> 0, bg |-> background,
                                          ended |-> st = "failed"]], j, background)

\* Start-Job reports an error, which is noted; the latest job may be an older one.
StartJobFails ==
    /\ StartFails /\ Call /\ active = 0
    /\ LET there == {j \in Jobs : job[j].st \notin {"none", "removed"}} IN
       IF there = {}
       THEN /\ Answers("error", 0) /\ lastOut' = Reset /\ UNCHANGED <<job, active, call, told>>
       ELSE \E background \in BOOLEAN : TakeLatest(job, Max(there), background)

-----------------------------------------------------------------------------
(* The loops of execute and of _check_active_job                           *)

\* The output is read before the state.
Poll ==
    /\ call.pc \in {"monitor", "check"}
    /\ call' = [call EXCEPT !.pc = IF @ = "monitor" THEN "state" ELSE "checkState",
                            !.seen = job[call.job].out]
    /\ UNCHANGED <<job, active, lastOut, told, answer, calls, closed>>

PollAgain ==
    /\ call.pc \in {"state", "checkState"} /\ job[call.job].st = "running"
    /\ call' = [call EXCEPT !.pc = IF @ = "state" THEN "monitor" ELSE "check"]
    /\ UNCHANGED <<job, active, lastOut, told, answer, calls, closed>>

\* The time is over, or the program shuts down: the job runs on.
TimeOut ==
    /\ call.pc \in {"monitor", "check"}
    /\ Returns(call.job, lastOut, call.seen)
    /\ lastOut' = call.seen /\ Answers("timeout", call.job) /\ call' = Idle
    /\ UNCHANGED <<job, active, calls, closed>>

\* The job has ended: a last Receive-Job, and it is removed.
OnlyPolled == call.seen
LastReceive == job[call.job].out
Complete ==
    /\ \/ call.pc = "state" /\ job[call.job].st \in Over
       \/ call.pc = "checkState" /\ job[call.job].st \notin {"running", "removed"}
    /\ Returns(call.job, lastOut, LastReceive) /\ Answers("completed", call.job)
    /\ job' = Removed(call.job) /\ active' = 0 /\ call' = Idle
    /\ lastOut' = IF call.pc = "checkState" THEN 0 ELSE lastOut
    /\ UNCHANGED <<calls, closed>>

\* execute takes any other state for an end too, and keeps the job.
FinishOther ==
    /\ call.pc = "state" /\ job[call.job].st = "blocked"
    /\ Returns(call.job, lastOut, call.seen) /\ Answers("finished", call.job)
    /\ lastOut' = call.seen /\ call' = Idle
    /\ UNCHANGED <<job, active, calls, closed>>

-----------------------------------------------------------------------------
(* close, from another thread; _check_active_job holds its lock            *)

Close ==
    /\ ~closed /\ call.pc \notin {"check", "checkState"} /\ closed' = TRUE
    /\ job' = IF active = 0 THEN job
              ELSE [job EXCEPT ![active].st = "removed", ![active].ended = TRUE]
    /\ active' = 0 /\ lastOut' = IF active = 0 THEN lastOut ELSE 0
    /\ UNCHANGED <<call, told, answer, calls>>

\* The loop of execute finds no job: it counts as failed, and what was polled is returned.
JobLost ==
    /\ call.pc \in {"monitor", "state"} /\ job[call.job].st = "removed"
    /\ Returns(call.job, 0, call.seen) /\ Answers("completed", call.job)
    /\ active' = 0 /\ lastOut' = 0 /\ call' = Idle
    /\ UNCHANGED <<job, calls, closed>>

Next ==
    \/ \E j \in Jobs : PrintLine(j) \/ End(j) \/ Prompt(j)
    \/ FoundFinished \/ RefuseCommand \/ StopActiveJob \/ CheckActiveJob \/ WithoutJob
    \/ StartJob \/ StartJobFails
    \/ Poll \/ PollAgain \/ TimeOut \/ Complete \/ FinishOther \/ Close \/ JobLost

Spec == Init /\ [][Next]_vars

-----------------------------------------------------------------------------
(* Properties                                                              *)

\* Through timeouts, refusals and empty commands, what was returned of a job that runs on
\* is its output so far, each line once and in order.
FollowedInOrder ==
    call.pc = "idle" /\ active # 0 => told[active] = [i \in 1..lastOut |-> i]

\* A call that says that a job completed, or was stopped, has returned the last of its
\* output, and the job has ended.
EndIsTold ==
    answer.kind \in {"completed", "stopped"} /\ ~closed =>
        LET j == answer.job IN
        /\ job[j].ended
        /\ 1..job[j].out \subseteq Range(told[j])

\* Unless it was started with an ampersand, a job that is alive is the one that the next
\* call looks at: none is left behind, and closing the session leaves none.
NoneLeftBehind == \A j \in Jobs : Alive(j) /\ ~job[j].bg => j = active /\ ~closed

-----------------------------------------------------------------------------
(* What the code does not keep                                             *)

\* windows_bash.py:733 computes the output relative to "the state *before* reset", after
\* the reset; and C-c returns the whole output: lines are returned twice.
LinesOnce == \A j \in Jobs : Len(told[j]) = Cardinality(Range(told[j]))

\* A job that asks for input is told to have completed while it waits (Prompts).
NoBlockedEnd == answer.kind \in {"completed", "finished"} => job[answer.job].ended
=============================================================================
