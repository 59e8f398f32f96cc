-------------------------------- MODULE MCLive --------------------------------
(* Small instances of parts of the batch tools and of OpenHands, for the     *)
(* properties that say that something happens in the end.  As in MCBatch and *)
(* MCOpenHands a behaviour runs one part; it is fair as its module says.     *)
EXTENDS Integers, FiniteSets, Sequences

VARIABLE part

VARIABLES inf, evals, evalFile, monFile, rewrites, recorderPc, snap, prev, due,
          stateFile, lastEntry, told, recorderStarts
recorderVars == <<inf, evals, evalFile, monFile, rewrites, recorderPc, snap, prev, due,
                  stateFile, lastEntry, told, recorderStarts>>
Rec == INSTANCE Recorder WITH
    Total <- 1, MaxStarts <- 2, MaxTorn <- 1,
    pc <- recorderPc, last <- lastEntry, starts <- recorderStarts

VARIABLES file, pages, curId, lists, current, prod, queue, disp, stop, subscribed, pool,
          tasks, made, idOf, seen, streamHeard, streamCrashes, changes
streamVars == <<file, pages, curId, lists, current, prod, queue, disp, stop, subscribed,
                pool, tasks, made, idOf, seen, streamHeard, streamCrashes, changes>>
Stream == INSTANCE EventStream WITH
    Producers <- {"p", "q"}, Subs <- {1, 2}, CacheSize <- 2, MaxEvents <- 3, MaxCrashes <- 0,
    MaxChanges <- 0, heard <- streamHeard, crashes <- streamCrashes

VARIABLES agentCtl, pc, agentEvents, asked, answered, calls, runtime, started, recalls,
          agentShown, executed, confirmed, denied, replaced, agentUsed
agentVars == <<agentCtl, pc, agentEvents, asked, answered, calls, runtime, started, recalls,
               agentShown, executed, confirmed, denied, replaced, agentUsed>>
Agent == INSTANCE AgentController WITH
    MaxIterations <- 2, ConfirmAll <- FALSE, Interrupts <- TRUE,
    UserChanges <- {"stopped", "paused"}, MaxMessages <- 2, MaxChanges <- 1,
    MaxFailures <- 1, ctl <- agentCtl, events <- agentEvents, shown <- agentShown,
    used <- agentUsed

VARIABLES ctl, depth, events, jobs, iter, steps, shown, heard, lost, delegated, results, used
delegationVars == <<ctl, depth, events, jobs, iter, steps, shown, heard, lost, delegated,
                    results, used>>
Delegates == INSTANCE Delegation WITH
    Delegators <- {1}, MaxIterations <- 3, UserChanges <- {"stopped", "running"},
    MaxMessages <- 1, MaxChanges <- 1, MaxFailures <- 1, asked <- delegated, told <- results

VARIABLES loops, conns, sess, task
managerVars == <<loops, conns, sess, task>>
Managed == INSTANCE ConversationManager WITH
    Sids <- {"s1", "s2"}, Conns <- {"c1"}, Requests <- {"r1"}, NoSid <- "none",
    Limit <- 1, StartLasts <- 2, MaxSessions <- 2

VARIABLES pane, typed, fg, wrote, call, shellPrev, sent, toldLines, answer
shellVars == <<pane, typed, fg, wrote, call, shellPrev, sent, toldLines, answer>>
Shell == INSTANCE BashSession WITH
    MaxCalls <- 2, MaxLines <- 2, History <- 3, Inputs <- TRUE, Eager <- TRUE,
    Timeouts <- TRUE, prev <- shellPrev, told <- toldLines

VARIABLES run, traj, pred, batchPhase, batchStop, main, batchPreds
batchVars == <<run, traj, pred, batchPhase, batchStop, main, batchPreds>>
Batch == INSTANCE SweBatch WITH
    Instances <- {1, 2}, Workers <- 1, Redo <- FALSE, CloseFails <- TRUE, MaxCrashes <- 1,
    phase <- batchPhase, stop <- batchStop, preds <- batchPreds

VARIABLES fails, timeouts, time, cost, last, info, done, env, attemptSeen
attemptVars == <<fails, timeouts, time, cost, last, info, done, env, attemptSeen>>
Attempt == INSTANCE SweAgent WITH
    MaxRequeries <- 2, MaxTimeouts <- 2, CostLimit <- 4, TimeLimit <- 2,
    Versions <- {0, 1}, seen <- attemptSeen

VARIABLES preds, report, output, image, container, phase, mode, stage, prior, existing,
          summary, starts, crashes
harnessVars == <<preds, report, output, image, container, phase, mode, stage, prior,
                 existing, summary, starts, crashes>>
Graded == INSTANCE Harness WITH
    Procs <- {"p1"}, Instances <- {"a"}, Passing <- {"good"}, Failing <- {},
    Unapplied <- {}, Workers <- 2, Keeping <- {}, Clean <- FALSE, Force <- FALSE,
    RemoveFails <- TRUE, MaxStarts <- 2, MaxCrashes <- 1

VARIABLES alive, sel, detail, case, trace, loading, cached, pageCalls, clicks, lostAnswers
pageVars == <<alive, sel, detail, case, trace, loading, cached, pageCalls, clicks, lostAnswers>>
Page == INSTANCE DashboardPage WITH
    Runs <- {1, 2}, Cases <- {"c1"}, NoRun <- 0, NoCase <- "none", MaxCalls <- 1,
    MaxClicks <- 2, MaxLost <- 1, calls <- pageCalls, lost <- lostAnswers

VARIABLES holder, active, detached, conv, holds, loop, loopPhase, cut
attachVars == <<holder, active, detached, conv, holds, loop, loopPhase, cut>>
Attached == INSTANCE Attachments WITH
    Requests <- {"r1", "r2"}, NoConv <- 0, Convs <- 1..3, MaxLoops <- 1, phase <- loopPhase

VARIABLES key, connKey, clusterLoop, conn, inbox, clusterTask, clusterBatch, clusterUsed
clusterVars == <<key, connKey, clusterLoop, conn, inbox, clusterTask, clusterBatch, clusterUsed>>
Cluster == INSTANCE ClusteredManager WITH
    Servers <- {1, 2}, Stalls <- FALSE, Crowded <- FALSE, MaxRequests <- 1,
    MaxFailures <- 1, MaxCrashes <- 1, loop <- clusterLoop, task <- clusterTask,
    batch <- clusterBatch, used <- clusterUsed

\* What each module assumes of its constants.
ASSUME InstancesAssumption ==
    /\ Rec!RecorderAssumption /\ Stream!EventStreamAssumption
    /\ Agent!ControllerAssumption /\ Delegates!DelegationAssumption
    /\ Managed!ConversationAssumption /\ Shell!BashAssumption
    /\ Batch!SweBatchAssumption /\ Attempt!SweAgentAssumption
    /\ Graded!HarnessAssumption /\ Page!PageAssumption /\ Attached!AttachmentAssumption
    /\ Cluster!ClusterAssumption

vars == <<part, recorderVars, streamVars, agentVars, delegationVars, managerVars, shellVars,
          batchVars, attemptVars, harnessVars, pageVars, attachVars, clusterVars>>

Init ==
    /\ part \in {"recorder", "stream", "agent", "delegates", "managed", "shell", "batch",
                 "attempt", "graded", "page", "attached", "cluster"}
    /\ Rec!Init /\ Stream!Init /\ Agent!Init /\ Delegates!Init /\ Managed!Init /\ Shell!Init
    /\ Batch!Init /\ Attempt!Init /\ Graded!Init /\ Page!Init /\ Attached!Init
    /\ Cluster!Init
    /\ part # "graded" => image = [i \in {"a"} |-> "before"]

Next ==
    /\ UNCHANGED part
    /\ IF part = "recorder" THEN Rec!Next ELSE UNCHANGED recorderVars
    /\ IF part = "stream" THEN Stream!Next ELSE UNCHANGED streamVars
    /\ IF part = "agent" THEN Agent!Next ELSE UNCHANGED agentVars
    /\ IF part = "delegates" THEN Delegates!Next ELSE UNCHANGED delegationVars
    /\ IF part = "managed" THEN Managed!Next ELSE UNCHANGED managerVars
    /\ IF part = "shell" THEN Shell!Next ELSE UNCHANGED shellVars
    /\ IF part = "batch" THEN Batch!Next ELSE UNCHANGED batchVars
    /\ IF part = "attempt" THEN Attempt!Next ELSE UNCHANGED attemptVars
    /\ IF part = "graded" THEN Graded!Next ELSE UNCHANGED harnessVars
    /\ IF part = "page" THEN Page!Next ELSE UNCHANGED pageVars
    /\ IF part = "attached" THEN Attached!Next ELSE UNCHANGED attachVars
    /\ IF part = "cluster" THEN Cluster!Next ELSE UNCHANGED clusterVars

Spec == Init /\ [][Next]_vars

\* The fairness of the part that runs, as its module states it.
FairSpec ==
    /\ Spec
    /\ WF_recorderVars(part = "recorder" /\ Rec!Steps)
    /\ WF_recorderVars(part = "recorder" /\ Rec!Run)
    /\ \A p \in {"p", "q"} : WF_streamVars(part = "stream" /\ Stream!Produce(p))
    /\ WF_streamVars(part = "stream" /\ Stream!Dispatch)
    /\ \A s \in {1, 2} : WF_streamVars(part = "stream" /\ Stream!Handle(s))
    /\ WF_agentVars(part = "agent" /\ Agent!HandleEvent)
    /\ WF_agentVars(part = "agent" /\ Agent!ModelAnswers)
    /\ WF_agentVars(part = "agent" /\ Agent!StartJob)
    /\ WF_agentVars(part = "agent" /\ (Agent!JobEnds \/ Agent!JobFails))
    /\ WF_agentVars(part = "agent" /\ Agent!Recall)
    /\ WF_delegationVars(part = "delegates" /\ Delegates!HandleEvent)
    /\ \A j \in 1..7 : WF_delegationVars(/\ part = "delegates"
                                         /\ Delegates!JobEnds(j) \/ Delegates!JobFails(j))
    /\ \A t \in {"r1", "s1", "s2"} : WF_managerVars(part = "managed" /\ Managed!CloseStep(t))
    /\ \A i \in 1..2 : WF_managerVars(part = "managed" /\ Managed!StartStep(i))
    /\ WF_shellVars(part = "shell" /\ Shell!PollCompletes)
    /\ WF_shellVars(part = "shell" /\ Shell!ShellReads)
    /\ WF_batchVars(part = "batch" /\ Batch!PoolEnds)
    /\ \A i \in 1..2 : /\ WF_batchVars(part = "batch" /\ Batch!Take(i))
                       /\ WF_batchVars(part = "batch" /\ Batch!AgentEnds(i))
                       /\ WF_batchVars(part = "batch" /\ Batch!Closes(i))
                       /\ WF_batchVars(part = "batch" /\ Batch!SaveBegins(i))
                       /\ WF_batchVars(part = "batch" /\ Batch!SaveEnds(i))
    /\ WF_attemptVars(part = "attempt" /\ Attempt!Forward)
    /\ WF_harnessVars(part = "graded" /\ Graded!StartPool("p1"))
    /\ WF_harnessVars(part = "graded" /\ Graded!EndPool("p1"))
    /\ WF_harnessVars(part = "graded" /\ Graded!Finish("p1"))
    /\ WF_harnessVars(part = "graded" /\ Graded!Steps("p1", "a"))
    /\ SF_pageVars(part = "page" /\ Page!Refresh)
    /\ \A i \in Page!Slots : WF_pageVars(part = "page" /\ Page!Proceeds(i))
    /\ \A r \in {"r1", "r2"} : /\ WF_attachVars(part = "attached" /\ Attached!Connected(r))
                              /\ SF_attachVars(part = "attached" /\ Attached!Detach(r))
    /\ SF_attachVars(part = "attached" /\ Attached!CleanupBegins)
    /\ WF_attachVars(part = "attached" /\ Attached!CleanupEnds)
    /\ WF_clusterVars(part = "cluster" /\ Cluster!Expire)
    /\ \A s \in {1, 2} : /\ WF_clusterVars(part = "cluster" /\ Cluster!Listen(s))
                         /\ WF_clusterVars(part = "cluster" /\ Cluster!NoticeStopped(s))
                         /\ WF_clusterVars(part = "cluster" /\ Cluster!Renewed(s))
                         /\ \A t \in Cluster!Tasks :
                              WF_clusterVars(part = "cluster" /\ Cluster!Proceeds(s, t))

-----------------------------------------------------------------------------
(* Properties.  A behaviour runs one part, so one "leads to" speaks of all.  *)

\* What happened reaches those it is meant for: a finished batch the recorder's
\* file, a queued event every callback, the end of a delegate its controller, and
\* the end of a command the call that waits for it, as the shell reacts before the screen is
\* read (Eager).
EventsArrive ==
    /\ \A e \in 1..3 :
        \/ part = "recorder" /\ Rec!IsSnapshot(monFile) /\ monFile.done
        \/ part = "stream" /\ e \in Stream!Elements(queue)
        \/ part = "delegates" /\ depth = 2 /\ Delegates!Ended(ctl[2])
        \/ part = "shell" /\ call.pc = "poll" /\ fg = 0 /\ typed = <<>>
      ~>
        \/ part = "recorder" /\ recorderPc = "ended" /\ Rec!IsSnapshot(lastEntry) /\ lastEntry.done
        \/ part = "stream" /\ \A s \in {1, 2} : e \in Stream!Elements(seen[s])
        \/ part = "delegates" /\ depth = 1
        \/ part = "shell" /\ call.pc = "idle"
    /\ <>[](part = "page" => sel \in alive \cup {0} /\ detail = sel)

\* What is at work comes to its end: an agent that runs, a request that starts or
\* closes a conversation, a batch and an attempt of SWE-agent, a process of the
\* harness, whatever fails on the way; and a client whose server lost the agent loop is
\* served again or disconnected.
WorkEnds ==
    \/ part = "agent" /\ agentCtl.st = Agent!Running
    \/ part = "managed" /\ task["r1"].pc # "idle"
    \/ part = "batch" /\ (main = "pool" \/ Batch!Busy # {})
    \/ part = "attempt" /\ ~done
    \/ part = "graded" /\ phase["p1"] # "idle"
    \/ part = "attached" /\ holds["r1"].pc = "use"
    \/ part = "cluster" /\ conn[1]
    ~>
    \/ part = "agent" /\ agentCtl.st # Agent!Running
    \/ part = "managed" /\ task["r1"].pc = "idle"
    \/ part = "batch" /\ main # "pool" /\ Batch!Busy = {}
    \/ part = "attempt" /\ done
    \/ part = "graded" /\ phase["p1"] = "idle"
    \/ part = "attached" /\ holds["r1"].pc # "use"
    \/ part = "cluster" /\ (~conn[1] \/ \E o \in {1, 2} : clusterLoop[o])
=============================================================================
