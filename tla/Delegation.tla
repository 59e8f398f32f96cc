------------------------------ MODULE Delegation ------------------------------
(***************************************************************************)
(* Delegation in OpenHands (controller/agent_controller.py): a controller  *)
(* whose agent hands a task to another agent makes a controller for it.    *)
(* Only the first controller is subscribed to the event stream; it passes  *)
(* events on while it has a delegate and goes on when the delegate ends.   *)
(* Confirmations are those of AgentController and left out.                *)
(***************************************************************************)
EXTENDS Integers, Sequences, FiniteSets

CONSTANTS
    Delegators,     \* the levels whose agents delegate, of the first two
    MaxIterations,  \* of the iteration flag, which all controllers share
    UserChanges,    \* the states the user asks for
    MaxMessages, MaxChanges, MaxFailures   \* bounds: messages, changes, runtime failures

DelegationAssumption ==
    /\ Delegators \subseteq 1..2
    /\ MaxIterations \in Nat /\ MaxMessages \in Nat
    /\ MaxChanges \in Nat /\ MaxFailures \in Nat

VARIABLES
    ctl,      \* the controllers: state, pending action, last error
    depth,    \* how many there are
    events,   \* what the first has not handled
    jobs,     \* actions at the runtime, and recalls at the memory
    iter,     \* the shared iteration flag
    steps,    \* steps of each controller's agent
    shown,    \* the last state in the stream
    heard,    \* messages of the user that reached a controller
    lost,     \* and those that reached none
    asked, told,   \* who delegated, and with a result still to be handled; and the
                   \* results that the first controller was told
    used      \* messages, changes and failures so far

vars == <<ctl, depth, events, jobs, iter, steps, shown, heard, lost, asked, told, used>>

States == {"loading", "running", "awaiting_user_input", "paused", "stopped", "finished",
           "rejected", "error"}
Errors == {"", "iteration", "budget", "other"}
Levels == 1..3   \* events are passed on to the second controller, and no further
Nothing == 0
Fresh == [st |-> "loading", pend |-> Nothing, err |-> ""]
Messages == 1..MaxMessages

\* What a controller may wait for: actions, by their iteration, and recalls, by the
\* message of the user or the delegation whose task is the message.
Actions == 1..MaxIterations
RecallOf(m) == MaxIterations + m
TaskRecall(n) == MaxIterations + MaxMessages + n
Waits == 1..(2 * MaxIterations + MaxMessages)

DelegationTypeOK ==
    /\ \A k \in Levels : /\ ctl[k].st \in States /\ ctl[k].err \in Errors
                         /\ ctl[k].pend \in {Nothing} \cup Waits
    /\ depth \in Levels /\ jobs \subseteq Waits
    /\ iter \in 0..MaxIterations /\ steps \in [Levels -> 0..MaxIterations]
    /\ shown \in States /\ heard \subseteq Waits /\ lost \subseteq Waits
    /\ asked \in Seq([by : Levels, late : BOOLEAN]) /\ told \in 0..Len(asked)

Init ==
    /\ ctl = [k \in Levels |-> Fresh] /\ depth = 1 /\ events = <<>> /\ jobs = {}
    /\ iter = 0 /\ steps = [k \in Levels |-> 0] /\ shown = "loading"
    /\ heard = {} /\ lost = {} /\ asked = <<>> /\ told = 0
    /\ used = [messages |-> 0, changes |-> 0, failures |-> 0]

Event(t, id, st) == [t |-> t, id |-> id, st |-> st]
StateEvent(st) == Event("state", 0, st)
Results(evs) == {i \in DOMAIN evs : evs[i].t = "result"}

-----------------------------------------------------------------------------
(* One controller.  c is its record and out what it adds to the stream.    *)

With(c, out) == [c |-> c, out |-> out]

\* set_agent_state_to: stopped and failed agents drop their pending action, and
\* what it would have observed is an error.
Silent(x, new) == With([x.c EXCEPT !.st = new], x.out)
SetTo(x, new) ==
    IF new = x.c.st THEN x
    ELSE LET reset == new \in {"stopped", "error"}
         IN  With([x.c EXCEPT !.st = new, !.pend = IF reset THEN Nothing ELSE @],
                  x.out \o (IF reset /\ x.c.pend \in Actions
                            THEN <<Event("observation", x.c.pend, "")>> ELSE <<>>)
                        \o <<StateEvent(new)>>)

Handled(e, x) ==
    CASE e.t = "change" -> SetTo(x, e.st)
      [] e.t = "message" -> SetTo(With([x.c EXCEPT !.pend = e.id], x.out), "running")
      [] e.t = "finish" -> SetTo(x, "finished")
      [] e.t = "reject" -> SetTo(x, "rejected")
      [] e.t = "ask" -> SetTo(x, "awaiting_user_input")
      [] e.t \in {"observation", "result"} ->
            With([x.c EXCEPT !.pend = IF @ = e.id THEN Nothing ELSE @], x.out)
      [] OTHER -> x

\* should_step, and the checks of _step.  A controller with a delegate does not.
MaySteps(e, c, k) ==
    /\ e.t \in {"message", "observation", "result"}
    /\ c.st = "running" /\ c.pend = Nothing /\ depth = k

\* _step: an action, a question, a result, a delegation, or an exception.
Steps(k, x) ==
    \/ /\ iter = MaxIterations
       /\ ctl' = [ctl EXCEPT ![k] = SetTo(With([x.c EXCEPT !.err = "iteration"], <<>>), "error").c]
       /\ events' = Tail(events) \o x.out \o <<StateEvent("error")>>
       /\ UNCHANGED <<iter, steps, jobs>>
    \/ /\ iter < MaxIterations /\ iter' = iter + 1 /\ steps' = [steps EXCEPT ![k] = @ + 1]
       /\ \/ /\ ctl' = [ctl EXCEPT ![k] = [x.c EXCEPT !.pend = iter + 1]]
             /\ jobs' = jobs \cup {iter + 1} /\ events' = Tail(events) \o x.out
          \/ /\ \E t \in {"ask", "finish", "reject"} :
                    events' = Tail(events) \o x.out \o <<Event(t, 0, "")>>
             /\ ctl' = [ctl EXCEPT ![k] = x.c] /\ UNCHANGED jobs
          \/ /\ k \in Delegators
             /\ events' = Tail(events) \o x.out \o <<Event("delegate", 0, "")>>
             /\ ctl' = [ctl EXCEPT ![k] = x.c] /\ UNCHANGED jobs
          \/ /\ \E err \in {"budget", "other"} :
                    ctl' = [ctl EXCEPT ![k] = SetTo(With([x.c EXCEPT !.err = err], <<>>), "error").c]
             /\ events' = Tail(events) \o x.out \o <<StateEvent("error")>> /\ UNCHANGED jobs

\* start_delegate: the delegate runs, and its task is a message of the user.
Starts(k) ==
    /\ depth' = k + 1
    /\ ctl' = [ctl EXCEPT ![k + 1] = [Fresh EXCEPT !.st = "running"]]
    /\ events' = Tail(events) \o <<Event("message", TaskRecall(Len(asked) + 1), ""),
                                  StateEvent("running")>>
    /\ asked' = Append(asked, [by |-> k, late |-> Results(events) # {}])
    /\ UNCHANGED <<iter, steps, jobs>>

\* _on_event of the k-th controller.
OnEvent(k, e) ==
    /\ heard' = IF e.t = "message" THEN heard \cup {e.id} ELSE heard
    /\ told' = IF k = 1 /\ e.t = "result" THEN told + 1 ELSE told
    /\ IF e.t = "delegate"
       THEN Starts(k)
       ELSE /\ UNCHANGED <<depth, asked>>
            /\ LET x == Handled(e, With(ctl[k], <<>>))
               IN IF MaySteps(e, x.c, k) THEN Steps(k, x)
                  ELSE /\ ctl' = [ctl EXCEPT ![k] = x.c] /\ events' = Tail(events) \o x.out
                       /\ jobs' = IF e.t = "message" THEN jobs \cup {e.id} ELSE jobs
                       /\ UNCHANGED <<iter, steps>>
    /\ UNCHANGED lost

\* end_delegate: the delegate is closed, which stops it, and the first controller
\* is told its result.  The event at hand goes to nobody.
NoResult(x) == x.out
Closing(x) == x.out \o <<Event("result", 0, "")>>

EndDelegate(e) ==
    /\ depth' = 1
    /\ events' = Tail(events) \o Closing(SetTo(With(ctl[2], <<>>), "stopped"))
    /\ ctl' = [k \in Levels |-> IF k = 1 THEN ctl[k] ELSE Fresh]
    /\ lost' = IF e.t = "message" THEN lost \cup {e.id} ELSE lost
    /\ UNCHANGED <<iter, steps, jobs, heard, asked, told>>

\* The text of a spent budget, unlike that of spent iterations, is not found in
\* last_error: it is looked for without the space after the colon.
Ended(c) == c.st \in {"finished", "error", "rejected"} /\ c.err # "iteration"

\* on_event
HandleEvent ==
    /\ events # <<>>
    /\ LET e == Head(events)
       IN /\ IF depth = 1 THEN OnEvent(1, e)
             ELSE IF Ended(ctl[2]) THEN EndDelegate(e) ELSE OnEvent(2, e)
          /\ shown' = IF e.t = "state" THEN e.st ELSE shown
    /\ UNCHANGED used

-----------------------------------------------------------------------------
(* The runtime, the memory and the user                                    *)

JobEnds(j) ==
    /\ j \in jobs /\ jobs' = jobs \ {j}
    /\ events' = Append(events, Event("observation", j, ""))
    /\ UNCHANGED <<ctl, depth, iter, steps, shown, heard, lost, asked, told, used>>

\* A status callback sets the state of the first controller.
JobFails(j) ==
    /\ j \in jobs \cap Actions /\ jobs' = jobs \ {j}
    /\ used.failures < MaxFailures /\ used' = [used EXCEPT !.failures = @ + 1]
    /\ LET x == SetTo(With(ctl[1], <<>>), "error")
       IN ctl' = [ctl EXCEPT ![1] = x.c] /\ events' = events \o x.out
    /\ UNCHANGED <<depth, iter, steps, shown, heard, lost, asked, told>>

Write ==
    /\ used.messages < MaxMessages /\ used' = [used EXCEPT !.messages = @ + 1]
    /\ events' = Append(events, Event("message", RecallOf(used.messages + 1), ""))
    /\ UNCHANGED <<ctl, depth, jobs, iter, steps, shown, heard, lost, asked, told>>

AskFor(st) ==
    /\ used.changes < MaxChanges /\ used' = [used EXCEPT !.changes = @ + 1]
    /\ events' = Append(events, Event("change", 0, st))
    /\ UNCHANGED <<ctl, depth, jobs, iter, steps, shown, heard, lost, asked, told>>

Next ==
    \/ HandleEvent \/ Write
    \/ \E j \in jobs : JobEnds(j) \/ JobFails(j)
    \/ \E st \in UserChanges : AskFor(st)

Spec == Init /\ [][Next]_vars

\* Events are handled and the runtime answers or fails; the user need not act.
FairSpec ==
    /\ Spec /\ WF_vars(HandleEvent)
    /\ \A j \in Waits : WF_vars(JobEnds(j) \/ JobFails(j))

-----------------------------------------------------------------------------
(* Properties                                                              *)

\* However messages, stops and failures arrive, no delegation is answered twice; and
\* each is answered, except where the first controller delegates again before it has
\* handled the last result, which on_event may then pass on to the new delegate.
EachAnsweredOnce ==
    LET own == {i \in DOMAIN asked : asked[i].by = 1}
        answers == told + Cardinality(Results(events)) + (IF depth > 1 THEN 1 ELSE 0)
    IN  /\ answers <= Cardinality(own)
        /\ (\A i \in own : ~asked[i].late) => answers = Cardinality(own)

\* agent_controller.py:394: the agent takes a step on a message from the user; so
\* some agent must get it.
MessagesHeard == lost \cap {RecallOf(m) : m \in Messages} = {}

\* start_delegate: a task consists of "multiple subtasks, each executed by one
\* agent"; the agent of a nested one does something.
NestedRuns == \A k \in Levels \ {1} : depth = k ~> (depth # k \/ steps[k] > 0)

\* end_delegate: the delegate ends "so that this controller can resume normal
\* operation"; it does not wait for what its delegate was told.
ResumesOperation ==
    told > 0 /\ depth = 1 /\ events = <<>> /\ jobs = {} => ctl[1].st # "running"

\* agent.py: stopped means "The agent is stopped", so no agent works then.
StoppedIsTrue == shown = "stopped" /\ events = <<>> => \A k \in 1..depth : ctl[k].st # "running"
=============================================================================
