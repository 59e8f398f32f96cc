---------------------------- MODULE AgentController ----------------------------
(***************************************************************************)
(* The agent controller of OpenHands (controller/agent_controller.py) with *)
(* the parties it talks to through the event stream: the user, the runtime *)
(* that executes actions and the memory that answers recalls.  Events are  *)
(* handled one at a time in the order of the stream; a call of the model   *)
(* takes time, and runtime errors change the agent's state in between.     *)
(* An action is named by its tool call; one that was confirmed is put in   *)
(* the stream again, as version 1.                                         *)
(***************************************************************************)
EXTENDS Integers, Sequences, FiniteSets

CONSTANTS
    MaxIterations,  \* iteration_delta
    ConfirmAll,     \* confirmation mode without a security analyzer
    Interrupts,     \* does the user write while the agent is at work?
    UserChanges,    \* the states the user may ask for
    MaxMessages,    \* bound: messages of the user
    MaxChanges,     \* bound: state changes the user asks for
    MaxFailures     \* bound: failures of the runtime

ControllerAssumption ==
    /\ MaxIterations \in Nat \ {0}
    /\ ConfirmAll \in BOOLEAN /\ Interrupts \in BOOLEAN
    /\ MaxMessages \in Nat /\ MaxChanges \in Nat /\ MaxFailures \in Nat

VARIABLES
    ctl,        \* the controller: state, pending action, iteration flag
    pc,         \* "idle", or "model" during agent.step
    events,     \* events the controller has not handled yet
    asked,      \* tool calls in state.history
    answered,   \* tool calls in state.history that have an observation
    calls,      \* tool calls made
    runtime,    \* actions the runtime has to execute; the first is at work
    started,    \* the first of them has been started
    recalls,    \* recalls the memory has to answer
    shown,      \* what the user sees: the last state, and the call to confirm
    executed,   \* history: tool calls the runtime has executed
    confirmed,  \* history: tool calls the user has confirmed
    denied,     \* history: tool calls reported as not executed
    replaced,   \* history: tool calls whose action was pending when a message replaced it
    used        \* messages, changes and failures so far

historyVars == <<asked, answered>>
vars == <<ctl, pc, events, historyVars, calls, runtime, started, recalls, shown,
          executed, confirmed, denied, replaced, used>>

Running == "running"
AgentStates == {"loading", Running, "awaiting_user_input", "paused", "stopped", "finished",
                "error", "awaiting_user_confirmation", "user_confirmed", "user_rejected"}
MaxCalls == MaxIterations * (1 + MaxChanges + MaxMessages)
Calls == 1..MaxCalls

\* Ids: of an action, by tool call and version, and of a recall, by message.
NoPending == [none |-> 0]
ActionId(c, v) == [call |-> c, version |-> v]
RecallId(m) == [recall |-> m]
ActionIds == [call : Calls, version : {0, 1}]
RecallIds == [recall : 1..MaxMessages]

Controllers == [st : AgentStates, pend : {NoPending} \cup ActionIds \cup RecallIds,
                iter : Nat, max : Nat, hit : BOOLEAN]
Jobs == [id : ActionIds, ok : {"yes", "rejected"}]

ControllerTypeOK ==
    /\ ctl \in Controllers /\ ctl.iter <= ctl.max
    /\ pc \in {"idle", "model"}
    /\ asked \subseteq Calls /\ answered \subseteq asked
    /\ calls \in 0..MaxCalls
    /\ \A i \in DOMAIN runtime : runtime[i] \in Jobs
    /\ started \in BOOLEAN /\ (started => runtime # <<>>)
    /\ \A i \in DOMAIN recalls : recalls[i] \in RecallIds
    /\ shown \in [st : AgentStates, call : 0..MaxCalls]
    /\ {executed, confirmed, denied, replaced} \subseteq SUBSET Calls
    /\ used \in [messages : 0..MaxMessages, changes : 0..MaxChanges, failures : 0..MaxFailures]

Init ==
    /\ ctl = [st |-> "loading", pend |-> NoPending, iter |-> 0, max |-> MaxIterations,
              hit |-> FALSE]
    /\ pc = "idle" /\ events = <<>> /\ asked = {} /\ answered = {} /\ calls = 0
    /\ runtime = <<>> /\ started = FALSE /\ recalls = <<>>
    /\ shown = [st |-> "loading", call |-> 0]
    /\ executed = {} /\ confirmed = {} /\ denied = {} /\ replaced = {}
    /\ used = [messages |-> 0, changes |-> 0, failures |-> 0]

-----------------------------------------------------------------------------
(* What one step of the controller does: c is the controller's record, out *)
(* the events it adds, and the rest what the others make of them.          *)

Event(t, id, st) == [t |-> t, id |-> id, st |-> st]
Now == [c |-> ctl, out |-> <<>>, runtime |-> runtime, recalls |-> recalls, shown |-> shown,
        denied |-> denied]
With(x, c) == [x EXCEPT !.c = c]

IsAction(id) == id \in ActionIds

\* An action that awaits its confirmation is not executed.
IsAnAction(e) == e.t = "action"
Executes(e) == e.t = "action" /\ e.st # "awaits"
Job(e) == [id |-> e.id, ok |-> IF e.st = "user_rejected" THEN "rejected" ELSE "yes"]

\* Every party gets a new event.
Emit(x, e) ==
    [c |-> x.c,
     out |-> Append(x.out, e),
     runtime |-> IF Executes(e) THEN Append(x.runtime, Job(e)) ELSE x.runtime,
     recalls |-> IF e.t = "recall" THEN Append(x.recalls, e.id) ELSE x.recalls,
     shown |-> [st |-> IF e.t = "state" THEN e.st ELSE x.shown.st,
                call |-> IF e.st = "awaits" THEN e.id.call ELSE x.shown.call],
     denied |-> x.denied \cup (IF e.t = "denied" THEN {e.id.call} ELSE {})]

\* _reset: a pending tool call without an observation gets an error.
NoAnswer(x) == x
ResetAnswer(x) ==
    IF IsAction(x.c.pend) /\ x.c.pend.call \notin answered
    THEN Emit(x, Event("denied", x.c.pend, "")) ELSE x
Reset(x) == LET y == ResetAnswer(x) IN With(y, [y.c EXCEPT !.pend = NoPending])

Raised(c) == IF c.hit THEN [c EXCEPT !.max = @ + MaxIterations, !.hit = FALSE] ELSE c

\* A pending action that was confirmed, or rejected, is added again.
Again(x, new) ==
    LET id == ActionId(x.c.pend.call, 1)
    IN  Emit(With(x, [x.c EXCEPT !.pend = id]), Event("action", id, new))

\* set_agent_state_to
Entered(x, old, new) ==
    CASE new \in {"stopped", "error"} -> Reset(x)
      [] new = Running /\ old = "error" -> With(x, Raised(x.c))
      [] new \in {"user_confirmed", "user_rejected"} /\ IsAction(x.c.pend) -> Again(x, new)
      [] OTHER -> x
SetTo(x, new) ==
    IF new = x.c.st THEN x
    ELSE Emit(Entered(With(x, [x.c EXCEPT !.st = new]), x.c.st, new),
              Event("state", NoPending, new))

Publish(rest, x) ==
    /\ ctl' = x.c /\ events' = rest \o x.out
    /\ runtime' = x.runtime /\ recalls' = x.recalls /\ shown' = x.shown /\ denied' = x.denied

-----------------------------------------------------------------------------
(* Handling an event                                                       *)

\* _handle_message_action of the user: the recall becomes the pending action.
OnMessage(x, id) ==
    LET y == Emit(With(x, [x.c EXCEPT !.pend = id]), Event("recall", id, ""))
    IN  IF y.c.st # Running THEN SetTo(y, Running) ELSE y

\* _handle_observation
OnObservation(x, id) ==
    IF x.c.pend # id \/ x.c.st = "awaiting_user_confirmation" THEN x
    ELSE LET y == With(x, [x.c EXCEPT !.pend = NoPending])
         IN  CASE x.c.st = "user_confirmed" -> SetTo(y, Running)
               [] x.c.st = "user_rejected" -> SetTo(y, "awaiting_user_input")
               [] OTHER -> y

Observations == {"observation", "denied", "recalled", "error"}

Handled(e, x) ==
    CASE e.t = "change" -> SetTo(x, e.st)
      [] e.t = "message" -> OnMessage(x, e.id)
      [] e.t = "finish" -> SetTo(x, "finished")
      [] e.t = "ask" -> SetTo(x, "awaiting_user_input")
      [] e.t \in Observations -> OnObservation(x, e.id)
      [] OTHER -> x

\* should_step: not after a state change or an action of the agent's own.
ShouldStep(e) == e.t \in Observations \cup {"message", "say"}

MayStep(e, c) == ShouldStep(e) /\ c.st = Running /\ c.pend = NoPending

Unlimited(c) == FALSE
ReachedLimit(c) == c.iter >= c.max

HandleEvent ==
    /\ pc = "idle" /\ events # <<>>
    /\ LET e == Head(events)
           x == Handled(e, Now)
           hit == With(x, [x.c EXCEPT !.hit = TRUE])
       IN  /\ replaced' = replaced \cup
                (IF e.t = "message" /\ IsAction(ctl.pend) THEN {ctl.pend.call} ELSE {})
           /\ asked' = asked \cup (IF e.t = "action" THEN {e.id.call} ELSE {})
           /\ answered' = answered \cup
                (IF e.t \in Observations /\ IsAction(e.id) THEN {e.id.call} ELSE {})
           /\ \/ ~MayStep(e, x.c) /\ pc' = pc /\ Publish(Tail(events), x)
              \/ /\ MayStep(e, x.c) /\ ~ReachedLimit(x.c) /\ pc' = "model"
                 /\ Publish(Tail(events), With(x, [x.c EXCEPT !.iter = @ + 1, !.hit = FALSE]))
              \* run_control_flags, or the stuck detector
              \/ /\ MayStep(e, x.c) /\ pc' = pc
                 /\ Publish(Tail(events), SetTo(IF ReachedLimit(x.c) THEN hit ELSE x, "error"))
    /\ UNCHANGED <<calls, started, executed, confirmed, used>>

\* The end of _step: the model's answer.
Answers(x) ==
    LET id == ActionId(calls + 1, 0)
        y == With(x, [x.c EXCEPT !.pend = id])
    IN  /\ calls < MaxCalls /\ calls' = calls + 1
        /\ Publish(events, IF ConfirmAll
                           THEN Emit(SetTo(y, "awaiting_user_confirmation"),
                                     Event("action", id, "awaits"))
                           ELSE Emit(y, Event("action", id, "")))

ModelAnswers ==
    /\ pc = "model" /\ pc' = "idle"
    /\ \/ Answers(Now)
       \* a final answer, a question, a thought or an unusable answer
       \/ /\ \E t \in {"finish", "ask", "say", "error"} :
                Publish(events, Emit(Now, Event(t, NoPending, "")))
          /\ UNCHANGED calls
       \* an exception
       \/ Publish(events, SetTo(Now, "error")) /\ UNCHANGED calls
    /\ UNCHANGED <<historyVars, started, executed, confirmed, replaced, used>>

-----------------------------------------------------------------------------
(* The runtime and the memory                                              *)

\* A rejected action is answered without being executed.
StartJob ==
    /\ runtime # <<>> /\ ~started /\ started' = TRUE
    /\ executed' = executed \cup (IF Head(runtime).ok = "yes" THEN {Head(runtime).id.call} ELSE {})
    /\ UNCHANGED <<ctl, pc, events, historyVars, calls, runtime, recalls, shown, confirmed,
                   denied, replaced, used>>

JobEnds ==
    /\ started /\ started' = FALSE /\ runtime' = Tail(runtime)
    /\ events' = Append(events, Event("observation", Head(runtime).id, ""))
    /\ UNCHANGED <<ctl, pc, historyVars, calls, recalls, shown, executed, confirmed,
                   denied, replaced, used>>

\* _handle_action: no observation, but a status callback that sets the state,
\* whatever the controller is doing.
Unnoticed(x) == x
AfterFailure(x) == SetTo(x, "error")
JobFails ==
    /\ started /\ started' = FALSE
    /\ used.failures < MaxFailures /\ used' = [used EXCEPT !.failures = @ + 1]
    /\ Publish(events, AfterFailure([Now EXCEPT !.runtime = Tail(runtime)]))
    /\ UNCHANGED <<pc, historyVars, calls, executed, confirmed, replaced>>

Recall ==
    /\ recalls # <<>> /\ recalls' = Tail(recalls)
    /\ events' = Append(events, Event("recalled", Head(recalls), ""))
    /\ UNCHANGED <<ctl, pc, historyVars, calls, runtime, started, shown, executed, confirmed,
                   denied, replaced, used>>

-----------------------------------------------------------------------------
(* The user                                                                *)

Posts(e) ==
    /\ events' = Append(events, e)
    /\ UNCHANGED <<ctl, pc, historyVars, calls, runtime, started, recalls, executed,
                   denied, replaced>>

Busy == {Running, "awaiting_user_confirmation", "user_confirmed", "user_rejected"}
Quiet == shown.st \notin Busy /\ events = <<>> /\ runtime = <<>> /\ recalls = <<>> /\ pc = "idle"

Write ==
    /\ used.messages < MaxMessages /\ used' = [used EXCEPT !.messages = @ + 1]
    /\ Interrupts \/ Quiet
    /\ Posts(Event("message", RecallId(used.messages + 1), ""))
    /\ UNCHANGED <<shown, confirmed>>

\* The page offers a confirmation once per prompt, to stop or pause an agent
\* that runs, and to resume one that does not; an agent at work is left alone.
Offered(st) ==
    CASE st \in {"user_confirmed", "user_rejected"} -> shown.st = "awaiting_user_confirmation"
      [] st \in {"stopped", "paused"} -> shown.st = Running
      [] OTHER -> shown.st \in {"paused", "error", "stopped"} /\ (Interrupts \/ Quiet)

AskFor(st) ==
    /\ used.changes < MaxChanges /\ used' = [used EXCEPT !.changes = @ + 1]
    /\ Offered(st)
    /\ Posts(Event("change", NoPending, st))
    /\ confirmed' = confirmed \cup (IF st = "user_confirmed" THEN {shown.call} ELSE {})
    /\ shown' = [shown EXCEPT !.st = st]

Next ==
    \/ HandleEvent \/ ModelAnswers
    \/ StartJob \/ JobEnds \/ JobFails \/ Recall
    \/ Write \/ \E st \in UserChanges : AskFor(st)

Spec == Init /\ [][Next]_vars

\* The controller handles its events, the model answers, and the runtime and
\* the memory do their work; the user need not act.
FairSpec ==
    /\ Spec
    /\ WF_vars(HandleEvent) /\ WF_vars(ModelAnswers)
    /\ WF_vars(StartJob) /\ WF_vars(JobEnds \/ JobFails) /\ WF_vars(Recall)

-----------------------------------------------------------------------------
(* Properties                                                              *)

\* agent_controller.py:592: whenever the model is called, every tool call in its history has
\* an observation, also after stops, errors and failures, when the user writes and resumes
\* only while nothing is under way.
EveryCallAnswered == pc = "model" => asked \subseteq answered

\* A user who writes or resumes at any time leaves without an observation only calls whose
\* pending action a message replaced (:577), and calls that an event still to be handled
\* reports as not executed.
Reported == {e.id.call : e \in {events[i] : i \in {j \in DOMAIN events : events[j].t = "denied"}}}
AnsweredUnlessReplaced == pc = "model" => asked \ answered \subseteq replaced \cup Reported

\* In confirmation mode the runtime executes what the user confirmed, and
\* nothing else, however states, failures and answers overlap.
ConfirmedOnly == ConfirmAll => executed \subseteq confirmed

\* agent_controller.py:90: an agent that is resumed continues.
ResumeContinues ==
    (ctl.st = Running /\ ctl.pend = NoPending /\ pc = "idle")
        ~> (ctl.st # Running \/ ctl.pend # NoPending \/ pc = "model")

\* agent_controller.py:94: what is reported as not executed was not executed.
DeniedIsTrue == denied \cap executed = {}
=============================================================================
