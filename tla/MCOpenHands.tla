------------------------------ MODULE MCOpenHands ------------------------------
(* Instances of the parts of OpenHands, for TLC.  They share no state, so a  *)
(* behaviour runs one of them, named by "part", and leaves the others where  *)
(* they start.                                                               *)
EXTENDS Integers, FiniteSets, Sequences

VARIABLE part

CONSTANTS OneProducer, TwoProducers, StreamSubs, StreamCacheSize, MaxOneEvents, MaxTwoEvents,
          MaxOneChanges, MaxTwoChanges, MaxStreamCrashes
VARIABLES file, pages, curId, lists, current, prod, queue, disp, stop, subscribed, pool,
          tasks, made, idOf, seen, streamHeard, crashes, changes
streamVars == <<file, pages, curId, lists, current, prod, queue, disp, stop, subscribed,
                pool, tasks, made, idOf, seen, streamHeard, crashes, changes>>
Streams(At) == INSTANCE EventStream WITH
    Producers <- At.adders, Subs <- StreamSubs, CacheSize <- StreamCacheSize,
    MaxEvents <- At.most, MaxCrashes <- MaxStreamCrashes, MaxChanges <- At.changes,
    heard <- streamHeard
OneAdds == [adders |-> {OneProducer}, most |-> MaxOneEvents, changes |-> MaxOneChanges]
TwoAdd == [adders |-> TwoProducers, most |-> MaxTwoEvents, changes |-> MaxTwoChanges]

CONSTANTS MaxAgentIterations, MaxAgentMessages, MaxAgentChanges, MaxAgentFailures,
          MaxHastyIterations, MaxHastyMessages, MaxHastyChanges, MaxHastyFailures
VARIABLES agentCtl, pc, agentEvents, asked, answered, calls, runtime, started, recalls,
          agentShown, executed, confirmed, denied, replaced, agentUsed
agentVars == <<agentCtl, pc, agentEvents, asked, answered, calls, runtime, started, recalls,
               agentShown, executed, confirmed, denied, replaced, agentUsed>>
Controls(At) == INSTANCE AgentController WITH
    MaxIterations <- IF At.hasty THEN MaxHastyIterations ELSE MaxAgentIterations,
    ConfirmAll <- At.confirm, Interrupts <- At.hasty, UserChanges <- At.changes,
    MaxMessages <- IF At.hasty THEN MaxHastyMessages ELSE MaxAgentMessages,
    MaxChanges <- IF At.hasty THEN MaxHastyChanges ELSE MaxAgentChanges,
    MaxFailures <- IF At.hasty THEN MaxHastyFailures ELSE MaxAgentFailures,
    ctl <- agentCtl, events <- agentEvents, shown <- agentShown, used <- agentUsed
\* A patient user writes and resumes only while nothing is under way, and does not pause an
\* agent whose actions are to be confirmed; a hasty one does all of it at any time.
Free == [confirm |-> FALSE, hasty |-> FALSE, changes |-> {"stopped", "paused", "running"}]
HastyFree == [Free EXCEPT !.hasty = TRUE]
Confirmed == [confirm |-> TRUE, hasty |-> FALSE,
              changes |-> {"stopped", "user_confirmed", "user_rejected"}]
HastyConfirmed == [confirm |-> TRUE, hasty |-> TRUE,
                   changes |-> Free.changes \cup Confirmed.changes]

CONSTANTS DelegatingLevels, MaxDelegateIterations, MaxDelegateMessages, MaxDelegateChanges,
          MaxDelegateFailures
VARIABLES ctl, depth, events, jobs, iter, steps, shown, heard, lost, delegated, results, used
delegationVars == <<ctl, depth, events, jobs, iter, steps, shown, heard, lost, delegated,
                    results, used>>
Delegates == INSTANCE Delegation WITH
    Delegators <- DelegatingLevels, MaxIterations <- MaxDelegateIterations,
    UserChanges <- {"stopped", "running"}, MaxMessages <- MaxDelegateMessages,
    MaxChanges <- MaxDelegateChanges, MaxFailures <- MaxDelegateFailures,
    asked <- delegated, told <- results

\* Where sessions are counted, there is room for a loop of every conversation, or there is one
\* conversation, and a start lasts no longer than the five seconds that closing waits for it
\* (agent_session.py:234); the limit is that of requests one after another.
CONSTANTS ManagerSids, OneSid, ManagerConns, ManagerRequests, OneRequest, ServedLimit,
          AgainLimit, LimitedLimit, MaxServedSessions, MaxAgainSessions, MaxLimitedSessions
VARIABLES loops, conns, sess, task
managerVars == <<loops, conns, sess, task>>
Managing(At) == INSTANCE ConversationManager WITH
    Sids <- At.sids, Conns <- ManagerConns, Requests <- At.requests, NoSid <- "none",
    Limit <- At.limit, StartLasts <- At.lasts, MaxSessions <- At.most
Served == [sids |-> ManagerSids, requests |-> ManagerRequests, limit |-> ServedLimit,
           lasts |-> 0, most |-> MaxServedSessions]
Again == [sids |-> {OneSid}, requests |-> ManagerRequests, limit |-> AgainLimit,
          lasts |-> 0, most |-> MaxAgainSessions]
Limited == [sids |-> ManagerSids, requests |-> {OneRequest}, limit |-> LimitedLimit,
            lasts |-> 2, most |-> MaxLimitedSessions]

CONSTANTS AttachRequests, MaxAttachObjects, MaxAttachLoops
VARIABLES holder, active, detached, conv, holds, loop, phase, cut
attachVars == <<holder, active, detached, conv, holds, loop, phase, cut>>
Connected == INSTANCE Attachments WITH
    Requests <- AttachRequests, NoConv <- 0, Convs <- 1..MaxAttachObjects,
    MaxLoops <- MaxAttachLoops

\* Shell: a running program is sent no input, the shell takes what is typed before the screen
\* is looked at again (bash.py reads it right after send_keys), and nothing scrolls off.
CONSTANTS MaxShellCalls, MaxShellLines, ShellHistory, InteractiveHistory
VARIABLES pane, typed, fg, wrote, call, prev, sent, told, answer
shellVars == <<pane, typed, fg, wrote, call, prev, sent, told, answer>>
Shell == INSTANCE BashSession WITH
    MaxCalls <- MaxShellCalls, MaxLines <- MaxShellLines, History <- ShellHistory,
    Inputs <- FALSE, Eager <- TRUE, Timeouts <- TRUE
Interactive == INSTANCE BashSession WITH
    MaxCalls <- MaxShellCalls, MaxLines <- MaxShellLines, History <- InteractiveHistory,
    Inputs <- TRUE, Eager <- TRUE, Timeouts <- TRUE

\* No server stalls for longer than its key in Redis lasts.
CONSTANTS ClusterServers, MaxClusterRequests, MaxCrowdedRequests, MaxClusterFailures,
          MaxClusterCrashes
VARIABLES key, connKey, clusterLoop, conn, inbox, clusterTask, batch, clusterUsed
clusterVars == <<key, connKey, clusterLoop, conn, inbox, clusterTask, batch, clusterUsed>>
Cluster(Crowded) == INSTANCE ClusteredManager WITH
    Servers <- ClusterServers, Stalls <- FALSE,
    MaxRequests <- IF Crowded THEN MaxCrowdedRequests ELSE MaxClusterRequests,
    MaxFailures <- MaxClusterFailures, MaxCrashes <- MaxClusterCrashes,
    loop <- clusterLoop, task <- clusterTask, used <- clusterUsed

CONSTANTS TokenRequests, TokenLogins, MaxTokens, MaxLostAnswers
VARIABLES row, lock, tokenPc, issued, presented, lostAnswers
tokenVars == <<row, lock, tokenPc, issued, presented, lostAnswers>>
Tokens == INSTANCE TokenStore WITH
    Requests <- TokenRequests, Logins <- TokenLogins, NoOne <- "none",
    MaxLost <- MaxLostAnswers, pc <- tokenPc, lost <- lostAnswers

CONSTANTS HistorySize, HistoryKept, MaxHistoryCalls, MaxHistoryEvents, MaxHistoryUser,
          MaxHistoryOverflows
VARIABLES history, pending, size
historyVars == <<history, pending, size>>
Condensed == INSTANCE Condensing WITH
    MaxSize <- HistorySize, KeepFirst <- HistoryKept, MaxCalls <- MaxHistoryCalls,
    MaxEvents <- MaxHistoryEvents, MaxUser <- MaxHistoryUser,
    MaxOverflows <- MaxHistoryOverflows

CONSTANTS HookPaths, FirstWriter, SecondWriter, FirstPaths, HookSizes, HookLimit, HookAttempts,
          MaxHookWrites, MaxHookFlushes, MaxHookFailures
VARIABLES store, queued, hookBatch, bytes, timer, waiting, held, sending, hook, arrived,
          latest, dropped, hookUsed
hookVars == <<store, queued, hookBatch, bytes, timer, waiting, held, sending, hook, arrived,
              latest, dropped, hookUsed>>
WebHooked == INSTANCE WebHook WITH
    Paths <- HookPaths, Writers <- {FirstWriter, SecondWriter},
    Targets <- [w \in {FirstWriter, SecondWriter} |->
                  IF w = FirstWriter THEN FirstPaths \cap HookPaths ELSE HookPaths \ FirstPaths],
    Sizes <- HookSizes, Limit <- HookLimit, Attempts <- HookAttempts,
    MaxWrites <- MaxHookWrites, MaxFlushes <- MaxHookFlushes, MaxFailures <- MaxHookFailures,
    pending <- queued, batch <- hookBatch, used <- hookUsed

CONSTANTS MaxJobs, MaxJobCalls, MaxPromptCalls, MaxJobLines
VARIABLES job, activeJob, lastOut, jobCall, toldLines, jobAnswer, jobCalls, closed
jobVars == <<job, activeJob, lastOut, jobCall, toldLines, jobAnswer, jobCalls, closed>>
PowerShells(At) == INSTANCE PowerShellSession WITH
    MaxCalls <- At.calls, MaxLines <- MaxJobLines, Prompts <- At.prompts,
    StartFails <- ~At.prompts, active <- activeJob, call <- jobCall, told <- toldLines,
    answer <- jobAnswer, calls <- jobCalls
PowerShell == [calls |-> MaxJobCalls, prompts |-> FALSE]
Prompting == [calls |-> MaxPromptCalls, prompts |-> TRUE]

\* A request does not read while another of its conversation is between its reads and its mark
\* (saas_nested_conversation_manager.py:185), and a start ends before its key expires.
CONSTANTS NestedSids, NestedRequests, NestedKeepsAlive, MaxNestedRequests, MaxNestedFaults,
          MaxNestedPauses, MaxNestedCrashes
VARIABLES starting, rt, nested, req, start, down, nestedUsed
nestedVars == <<starting, rt, nested, req, start, down, nestedUsed>>
Nested == INSTANCE NestedRuntimes WITH
    Sids <- NestedSids, Requests <- NestedRequests, NoSid <- "none",
    KeepAlive <- NestedKeepsAlive, Overlap <- FALSE, Slow <- FALSE,
    MaxRequests <- MaxNestedRequests, MaxFaults <- MaxNestedFaults,
    MaxPauses <- MaxNestedPauses, MaxCrashes <- MaxNestedCrashes,
    key <- starting, used <- nestedUsed

\* LocalOnes: no runtime is attached to a server it has not started (one that is deletes the
\* entry of its session when its server is dead, local_runtime.py:450), connects of a session
\* do not overlap, and directories can be removed.  AttachedOnes: all of that happens.
CONSTANTS LocalSids, LocalRuntimes, MixedRuntimes, AttachedRuntimes, WarmInitial,
          WarmDesired, MaxLocalServers, MaxLocalConnects, MaxLocalDeaths
VARIABLES srv, running, warm, warming, local, dirs, connects, deaths
localVars == <<srv, running, warm, warming, local, dirs, connects, deaths>>
Locals(At) == INSTANCE LocalServers WITH
    Sids <- LocalSids, Runtimes <- At.runtimes, Attached <- At.attached,
    Overlap <- At.overlap, Initial <- WarmInitial, Desired <- WarmDesired,
    RemoveFails <- At.fails, MaxServers <- MaxLocalServers,
    MaxConnects <- MaxLocalConnects, MaxDeaths <- MaxLocalDeaths, rt <- local
LocalOnes == [runtimes |-> LocalRuntimes, attached |-> {}, overlap |-> FALSE, fails |-> FALSE]
AttachedOnes == [runtimes |-> MixedRuntimes, attached |-> AttachedRuntimes, overlap |-> TRUE,
                 fails |-> TRUE]

\* Created: lock files are created exclusively, as where there is no flock, and a lock is had
\* on them.  Flocked is what Linux does, where two may hold the lock (port_lock.py:123).
CONSTANTS DockerSids, DockerPorts, MaxDockerStarts, MaxLockFiles, MaxDockerCrashes
VARIABLES lockFile, lockFiles, docker, ctr, starts, dockerCrashes
dockerVars == <<lockFile, lockFiles, docker, ctr, starts, dockerCrashes>>
Created == INSTANCE DockerStarts WITH
    Sids <- DockerSids, Ports <- DockerPorts, StartsWith <- [s \in DockerSids |-> {s}],
    Fcntl <- FALSE, Fallback <- FALSE, Reconnect <- FALSE, MaxStarts <- MaxDockerStarts,
    MaxFiles <- MaxLockFiles, MaxCrashes <- MaxDockerCrashes,
    file <- lockFile, files <- lockFiles, rt <- docker, crashes <- dockerCrashes
Flocked == INSTANCE DockerStarts WITH
    Sids <- {"s1", "s2"}, Ports <- {"p"}, StartsWith <- [s \in {"s1", "s2"} |-> {s}],
    Fcntl <- TRUE, Fallback <- TRUE, Reconnect <- TRUE, MaxStarts <- 2, MaxFiles <- 2,
    MaxCrashes <- 0, file <- lockFile, files <- lockFiles, rt <- docker,
    crashes <- dockerCrashes

\* Two webhooks do not both look before there is a row (proactive_conversation_store.py:73).
CONSTANTS HookWorkflows, MaxLostHooks, MaxCleaned
VARIABLES real, head, rows, rowLock, webhook, readRuns, comments, lostHooks, cleans
proactiveVars == <<real, head, rows, rowLock, webhook, readRuns, comments, lostHooks, cleans>>
Webhooks(MaxFails, MaxCleans) == INSTANCE Proactive WITH
    Workflows <- HookWorkflows, Overlap <- FALSE, latest <- head, lock <- rowLock,
    pc <- webhook, found <- readRuns, fails <- lostHooks

\* What each module assumes of its constants.
ASSUME InstancesAssumption ==
    /\ Streams(OneAdds)!EventStreamAssumption /\ Streams(TwoAdd)!EventStreamAssumption
    /\ Controls(Free)!ControllerAssumption /\ Controls(Confirmed)!ControllerAssumption
    /\ Controls(HastyFree)!ControllerAssumption
    /\ Controls(HastyConfirmed)!ControllerAssumption
    /\ Delegates!DelegationAssumption /\ Managing(Served)!ConversationAssumption
    /\ Managing(Again)!ConversationAssumption /\ Managing(Limited)!ConversationAssumption
    /\ Connected!AttachmentAssumption /\ Shell!BashAssumption
    /\ Interactive!BashAssumption /\ Cluster(FALSE)!ClusterAssumption
    /\ Cluster(TRUE)!ClusterAssumption /\ Tokens!TokenAssumption
    /\ Condensed!CondensingAssumption /\ WebHooked!WebHookAssumption
    /\ PowerShells(PowerShell)!PowerShellAssumption
    /\ PowerShells(Prompting)!PowerShellAssumption
    /\ Nested!NestedAssumption /\ Locals(LocalOnes)!LocalAssumption
    /\ Locals(AttachedOnes)!LocalAssumption /\ Created!DockerAssumption
    /\ Flocked!DockerAssumption /\ Webhooks(MaxLostHooks, 0)!ProactiveAssumption
    /\ Webhooks(0, MaxCleaned)!ProactiveAssumption

\* There is room for a loop of every conversation where sessions are counted: requests that
\* evict at once lose some.
ASSUME RoomAssumption == IsFiniteSet(ManagerSids) /\ Cardinality(ManagerSids) <= ServedLimit

vars == <<part, streamVars, agentVars, delegationVars, managerVars, attachVars, shellVars,
          clusterVars, tokenVars, historyVars, hookVars, jobVars, nestedVars, localVars,
          dockerVars, proactiveVars>>

Init ==
    /\ part \in {"one", "two", "free", "hasty_free", "confirmed", "hasty_confirmed",
                 "delegates", "served", "again", "limited", "attached", "shell", "interactive",
                 "cluster", "crowded", "tokens", "condensed", "hook", "powershell",
                 "prompting", "nested", "local", "attaching", "created", "flocked",
                 "workflows", "cleaned"}
    /\ IF part = "two" THEN Streams(TwoAdd)!Init ELSE Streams(OneAdds)!Init
    /\ IF part = "confirmed" THEN Controls(Confirmed)!Init
         ELSE IF part = "hasty_free" THEN Controls(HastyFree)!Init
         ELSE IF part = "hasty_confirmed" THEN Controls(HastyConfirmed)!Init
         ELSE Controls(Free)!Init
    /\ Delegates!Init
    /\ IF part = "limited" THEN Managing(Limited)!Init
         ELSE IF part = "again" THEN Managing(Again)!Init
         ELSE Managing(Served)!Init
    /\ Connected!Init
    /\ IF part = "interactive" THEN Interactive!Init ELSE Shell!Init
    /\ IF part = "crowded" THEN Cluster(TRUE)!Init ELSE Cluster(FALSE)!Init
    /\ Tokens!Init /\ Condensed!Init /\ WebHooked!Init /\ Nested!Init
    /\ IF part = "prompting" THEN PowerShells(Prompting)!Init ELSE PowerShells(PowerShell)!Init
    /\ IF part = "attaching" THEN Locals(AttachedOnes)!Init ELSE Locals(LocalOnes)!Init
    /\ IF part = "flocked" THEN Flocked!Init ELSE Created!Init
    /\ IF part = "cleaned" THEN Webhooks(0, MaxCleaned)!Init ELSE Webhooks(MaxLostHooks, 0)!Init

Next ==
    /\ UNCHANGED part
    /\ IF part = "one" THEN Streams(OneAdds)!Next
         ELSE IF part = "two" THEN Streams(TwoAdd)!Next
         ELSE UNCHANGED streamVars
    /\ IF part = "free" THEN Controls(Free)!Next
         ELSE IF part = "confirmed" THEN Controls(Confirmed)!Next
         ELSE IF part = "hasty_free" THEN Controls(HastyFree)!Next
         ELSE IF part = "hasty_confirmed" THEN Controls(HastyConfirmed)!Next
         ELSE UNCHANGED agentVars
    /\ IF part = "delegates" THEN Delegates!Next ELSE UNCHANGED delegationVars
    /\ IF part = "served" THEN Managing(Served)!Next
         ELSE IF part = "again" THEN Managing(Again)!Next
         ELSE IF part = "limited" THEN Managing(Limited)!Next
         ELSE UNCHANGED managerVars
    /\ IF part = "attached" THEN Connected!Next ELSE UNCHANGED attachVars
    /\ IF part = "shell" THEN Shell!Next
         ELSE IF part = "interactive" THEN Interactive!Next
         ELSE UNCHANGED shellVars
    /\ IF part = "cluster" THEN Cluster(FALSE)!Next
         ELSE IF part = "crowded" THEN Cluster(TRUE)!Next
         ELSE UNCHANGED clusterVars
    /\ IF part = "tokens" THEN Tokens!Next ELSE UNCHANGED tokenVars
    /\ IF part = "condensed" THEN Condensed!Next ELSE UNCHANGED historyVars
    /\ IF part = "hook" THEN WebHooked!Next ELSE UNCHANGED hookVars
    /\ IF part = "powershell" THEN PowerShells(PowerShell)!Next
         ELSE IF part = "prompting" THEN PowerShells(Prompting)!Next
         ELSE UNCHANGED jobVars
    /\ IF part = "nested" THEN Nested!Next ELSE UNCHANGED nestedVars
    /\ IF part = "local" THEN Locals(LocalOnes)!Next
         ELSE IF part = "attaching" THEN Locals(AttachedOnes)!Next
         ELSE UNCHANGED localVars
    /\ IF part = "created" THEN Created!Next
         ELSE IF part = "flocked" THEN Flocked!Next
         ELSE UNCHANGED dockerVars
    /\ IF part = "workflows" THEN Webhooks(MaxLostHooks, 0)!Next
         ELSE IF part = "cleaned" THEN Webhooks(0, MaxCleaned)!Next
         ELSE UNCHANGED proactiveVars

Spec == Init /\ [][Next]_vars

-----------------------------------------------------------------------------
(* Properties: those of the modules, at these instances.                     *)

OpenHandsTypeOK ==
    CASE part = "one" -> Streams(OneAdds)!EventStreamTypeOK
      [] part = "two" -> Streams(TwoAdd)!EventStreamTypeOK
      [] part = "free" -> Controls(Free)!ControllerTypeOK
      [] part = "confirmed" -> Controls(Confirmed)!ControllerTypeOK
      [] part = "hasty_free" -> Controls(HastyFree)!ControllerTypeOK
      [] part = "hasty_confirmed" -> Controls(HastyConfirmed)!ControllerTypeOK
      [] part = "delegates" -> Delegates!DelegationTypeOK
      [] part = "served" -> Managing(Served)!ConversationTypeOK
      [] part = "again" -> Managing(Again)!ConversationTypeOK
      [] part = "limited" -> Managing(Limited)!ConversationTypeOK
      [] part = "attached" -> Connected!AttachmentTypeOK
      [] part = "shell" -> Shell!BashTypeOK
      [] part = "interactive" -> Interactive!BashTypeOK
      [] part = "cluster" -> Cluster(FALSE)!ClusterTypeOK
      [] part = "crowded" -> Cluster(TRUE)!ClusterTypeOK
      [] part = "tokens" -> Tokens!TokenTypeOK
      [] part = "hook" -> WebHooked!WebHookTypeOK
      [] part = "powershell" -> PowerShells(PowerShell)!PowerShellTypeOK
      [] part = "prompting" -> PowerShells(Prompting)!PowerShellTypeOK
      [] part = "nested" -> Nested!NestedTypeOK
      [] part = "local" -> Locals(LocalOnes)!LocalTypeOK
      [] part = "attaching" -> Locals(AttachedOnes)!LocalTypeOK
      [] part = "created" -> Created!DockerTypeOK
      [] part = "flocked" -> Flocked!DockerTypeOK
      [] part = "workflows" -> Webhooks(MaxLostHooks, 0)!ProactiveTypeOK
      [] part = "cleaned" -> Webhooks(0, MaxCleaned)!ProactiveTypeOK
      [] OTHER -> Condensed!CondensingTypeOK

\* What a callback has acted on is stored, whatever crash intervenes; the pages
\* that one thread stores agree with its files; and with two threads that add
\* events all callbacks handle them in one order.  And no update of a stored file is
\* lost on its way to the webhook, whatever timers, flushes and failures meet.
StreamKept ==
    /\ part = "one" => Streams(OneAdds)!HandledIsStored /\ Streams(OneAdds)!PagesAgree
    /\ part = "two" => Streams(TwoAdd)!HandledIsStored /\ Streams(TwoAdd)!SameOrder
    /\ part = "hook" => /\ WebHooked!BytesRight /\ WebHooked!PendingTimed
                        /\ WebHooked!NothingForgotten

\* The model is not called with a tool call that has no observation, when the user writes and
\* resumes only while nothing is under way, and pauses no confirmation away; when the user
\* does so at any time, only with calls whose action a message replaced while it was pending,
\* or whose failure an event still to be handled reports.  In confirmation mode only what the user confirmed is
\* executed.  And what the model no longer sees is summarised or was cut off on purpose.
CallsAccounted ==
    /\ part = "free" => Controls(Free)!EveryCallAnswered
    /\ part = "hasty_free" => Controls(HastyFree)!AnsweredUnlessReplaced
    /\ part = "confirmed" => /\ Controls(Confirmed)!EveryCallAnswered
                             /\ Controls(Confirmed)!ConfirmedOnly
    /\ part = "hasty_confirmed" => /\ Controls(HastyConfirmed)!AnsweredUnlessReplaced
                                   /\ Controls(HastyConfirmed)!ConfirmedOnly
    /\ part = "condensed" => Condensed!ContextKept

\* However messages, stops and failures arrive, no delegation is answered twice, and each is
\* answered unless the first controller delegates again with a result still to be handled.
EachAnsweredOnce == part = "delegates" => Delegates!EachAnsweredOnce

\* As long as a start lasts no longer than closing waits for it, and there is room for the loops
\* of all conversations or there is one conversation, no session is lost from the table before
\* it is closed, and a closed one keeps nothing; and requests one after another keep the limit
\* on agent loops.  As long as requests do not overlap between what they read and their mark,
\* and a start does not outlast its key, a conversation with a runtime of its own is started
\* once, when it does not run, and marked only while it is started.
SessionsKept ==
    /\ part = "served" => Managing(Served)!OpenIsKnown /\ Managing(Served)!ClosedIsReleased
    /\ part = "again" => Managing(Again)!OpenIsKnown /\ Managing(Again)!ClosedIsReleased
    /\ part = "limited" => Managing(Limited)!WithinLimit
    /\ part = "nested" => /\ Nested!OneStart /\ Nested!StartJustified
                          /\ Nested!RunningIsServed /\ Nested!MarkedIsStarting

\* What a request uses of a conversation is not disconnected under it, and what is open is in
\* one of the tables; and a server of the machine works for one session, with attached runtimes
\* and overlapping connects too.  Without those, and when directories can be removed, it is in
\* the table while that session is open, and does not outlive it.
UsedIsOpen ==
    /\ part = "attached" => Connected!UsedIsOpen /\ Connected!CountsRight
    /\ part = "local" => /\ Locals(LocalOnes)!NotShared /\ Locals(LocalOnes)!NothingLeaks
                         /\ Locals(LocalOnes)!RegisteredWhileOpen
    /\ part = "attaching" => Locals(AttachedOnes)!NotShared

\* As long as programs are sent no input, the shell reacts before the screen is read and
\* nothing scrolls off, the shell reports through timeouts and refusals the command sent last,
\* and shows each line of output once.  On Windows, where lines may be shown twice, commands
\* are followed in their order, their end is told, and no job is left behind.
OutputOnce ==
    /\ part = "shell" => Shell!HonestCompletion /\ Shell!OutputOnce
    /\ part = "powershell" => /\ PowerShells(PowerShell)!FollowedInOrder
                              /\ PowerShells(PowerShell)!EndIsTold
                              /\ PowerShells(PowerShell)!NoneLeftBehind
    /\ part = "prompting" => PowerShells(Prompting)!FollowedInOrder

\* Servers that share a conversation do not run it twice, whichever of them crashes, if none
\* stalls for longer than its key lasts; servers that share a user's tokens do not present a
\* refresh token twice; where lock files are created exclusively, processes of one host do not
\* run two containers on a port; and servers that share the webhooks of a pull request, the
\* first of which is stored before another looks, lose none, and comment once on what failed,
\* unless the row is cleaned in between.
SharedOnce ==
    /\ part = "cluster" => Cluster(FALSE)!OneLoop
    /\ part = "crowded" => Cluster(TRUE)!OneLoop
    /\ part = "tokens" => Tokens!RefreshedOnce
    /\ part = "created" => /\ Created!Exclusive /\ Created!FoundIsFree
                           /\ Created!PausedKeepsPort
    /\ part = "workflows" => /\ Webhooks(MaxLostHooks, 0)!RowsKeepUp
                             /\ Webhooks(MaxLostHooks, 0)!CommentOnce
                             /\ Webhooks(MaxLostHooks, 0)!NothingMissed
    /\ part = "cleaned" => /\ Webhooks(0, MaxCleaned)!RowsKeepUp
                           /\ Webhooks(0, MaxCleaned)!NothingMissed

\* As long as programs are sent no input and the shell reacts before the screen is read, a
\* command is typed at the prompt, never into the program that runs.
SentToShell == [][part = "shell" => Shell!TypesAtPrompt]_vars
=============================================================================
