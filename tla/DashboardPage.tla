----------------------------- MODULE DashboardPage -----------------------------
(***************************************************************************)
(* The dashboard page in the browser (components/dashboard-client.jsx): a  *)
(* selected run, a selected case, and asynchronous handlers.  A handler    *)
(* works with the state of the render it was created in (its closure);     *)
(* what the user does while it waits for the server it does not see, and   *)
(* answers may overtake each other.                                        *)
(***************************************************************************)
EXTENDS Integers, FiniteSets, Sequences

CONSTANTS
    Runs,       \* runs the server may have, newest first
    Cases,      \* the cases of every run
    NoRun, NoCase,
    MaxCalls,   \* bound: calls in flight at the same time
    MaxClicks,  \* bound: what the user does
    MaxLost     \* bound: calls the server or the connection loses

PageAssumption ==
    /\ Runs \subseteq Nat \ {0} /\ Runs # {} /\ IsFiniteSet(Runs)
    /\ NoRun \notin Runs /\ NoCase \notin Cases
    /\ MaxCalls \in Nat \ {0} /\ MaxClicks \in Nat /\ MaxLost \in Nat

VARIABLES
    alive,      \* the runs that exist on the server
    sel,        \* selectedRunId
    detail,     \* the run selectedRunDetail is about
    case,       \* selectedCaseId
    trace,      \* the run and case selectedCaseTrace is about
    loading,    \* selectedCaseTraceStatus is "loading"
    cached,     \* traceCacheRef: pairs of a key and the trace under it
    calls,      \* the handler that waits for an answer in each slot, or Free
    clicks,     \* how often the user has acted
    lost        \* how many calls were lost

pageVars == <<sel, detail, case, trace, loading, cached>>
vars == <<alive, pageVars, calls, clicks, lost>>

\* A handler that waits: its kind, the run and case of its closure, the run
\* it asks for now, and the server's answer once there is one.
Kinds == {"refresh", "select", "trace", "rename", "delete"}
Waiting == "waiting"
Failed == "failed"
NoTrace == <<NoRun, NoCase>>
Traces == (Runs \X Cases) \cup {NoTrace}
Answers == {Waiting, Failed, "ok"}

Slots == 1..MaxCalls
Free == [kind |-> "none"]
Calls == [kind : Kinds, run : Runs \cup {NoRun}, case : Cases \cup {NoCase},
          asks : Runs \cup {NoRun}, list : SUBSET Runs, answer : Answers]

PageTypeOK ==
    /\ alive \subseteq Runs
    /\ sel \in Runs \cup {NoRun} /\ detail \in Runs \cup {NoRun}
    /\ case \in Cases \cup {NoCase}
    /\ trace \in Traces /\ loading \in BOOLEAN
    /\ cached \subseteq ((Runs \cup {NoRun}) \X (Cases \cup {NoCase})) \X (Runs \X Cases)
    /\ calls \in [Slots -> Calls \cup {Free}]
    /\ clicks \in 0..MaxClicks /\ lost \in 0..MaxLost

\* runs[0] of the sorted list, or null
Newest(R) == IF R = {} THEN NoRun ELSE CHOOSE r \in R : \A q \in R : q <= r

\* page.js renders the newest run on the server.
Init ==
    /\ alive = Runs
    /\ sel = Newest(Runs) /\ detail = Newest(Runs)
    /\ case = NoCase /\ trace = NoTrace /\ loading = FALSE
    /\ cached = {} /\ calls = [i \in Slots |-> Free] /\ clicks = 0 /\ lost = 0

-----------------------------------------------------------------------------
Idle(i) == calls[i] = Free

\* A handler starts: it keeps the run and the case of its closure.
Fetch(kind, run, cs, asks) ==
    \E i \in Slots :
        /\ Idle(i) /\ \A j \in 1..(i - 1) : ~Idle(j)
        /\ calls' = [calls EXCEPT ![i] = [kind |-> kind, run |-> run, case |-> cs,
                                         asks |-> asks, list |-> {}, answer |-> Waiting]]

Click == clicks < MaxClicks /\ clicks' = clicks + 1 /\ UNCHANGED lost

\* setInterval(handleRefresh, 30000), or the Refresh button: /api/runs first.
Refresh ==
    /\ Fetch("refresh", sel, case, NoRun)
    /\ UNCHANGED <<alive, pageVars, clicks, lost>>

\* handleRunSelect
SelectRun(r) ==
    /\ Click /\ r # sel
    /\ sel' = r /\ detail' = NoRun
    /\ case' = NoCase /\ trace' = NoTrace /\ loading' = FALSE
    /\ Fetch("select", r, NoCase, r)
    /\ UNCHANGED <<alive, cached>>

\* handleCaseSelect: the cases in the table are those of the shown detail;
\* the trace asked for is the selected run's.
SelectCase(c) ==
    /\ Click /\ sel # NoRun /\ detail # NoRun
    /\ case' = c
    /\ \/ \E e \in cached :
             /\ e[1] = <<sel, c>>
             /\ trace' = e[2] /\ loading' = FALSE /\ UNCHANGED calls
       \/ /\ \A e \in cached : e[1] # <<sel, c>>
          /\ trace' = NoTrace /\ loading' = TRUE /\ Fetch("trace", sel, c, sel)
    /\ UNCHANGED <<alive, sel, detail, cached>>

\* handleDisplayNameSave: PATCH of the selected run.
Rename ==
    /\ Click /\ sel # NoRun /\ detail # NoRun
    /\ Fetch("rename", sel, case, sel)
    /\ UNCHANGED <<alive, pageVars>>

\* handleDeleteRun: DELETE of the run whose detail is shown.
Delete ==
    /\ Click /\ detail # NoRun
    /\ Fetch("delete", sel, case, detail)
    /\ UNCHANGED <<alive, pageVars>>

-----------------------------------------------------------------------------
(* The server answers, and the answer arrives later.                       *)

Answered(i, a, R) == calls' = [calls EXCEPT ![i].answer = a, ![i].list = R]
Asked(i) == ~Idle(i) /\ calls[i].answer = Waiting

\* GET /api/runs, GET of a run or a trace, PATCH: 404 for a run that is gone.
ServerReads(i) ==
    /\ Asked(i) /\ calls[i].kind # "delete"
    /\ LET c == calls[i]
       IN  IF c.asks = NoRun THEN Answered(i, "ok", alive)
           ELSE Answered(i, IF c.asks \in alive THEN "ok" ELSE Failed, c.list)
    /\ UNCHANGED <<alive, pageVars, clicks, lost>>

\* DELETE: 404 for a run that is gone, 409 for one that runs.
ServerDeletes(i) ==
    /\ Asked(i) /\ calls[i].kind = "delete"
    /\ \/ calls[i].asks \in alive /\ Answered(i, "ok", {}) /\ alive' = alive \ {calls[i].asks}
       \/ Answered(i, Failed, {}) /\ UNCHANGED alive
    /\ UNCHANGED <<pageVars, clicks, lost>>

Lost(i) ==
    /\ Asked(i) /\ lost < MaxLost /\ lost' = lost + 1
    /\ Answered(i, Failed, {})
    /\ UNCHANGED <<alive, pageVars, clicks>>

Ends(i) == calls' = [calls EXCEPT ![i] = Free]
Got(i, kinds) == ~Idle(i) /\ calls[i].answer = "ok" /\ calls[i].kind \in kinds

\* handleRefresh: the run of the closure stays selected if it still exists.
KeepsRun(c) == c.run
NextSelected(c) == IF c.run \in c.list THEN c.run ELSE Newest(c.list)

RefreshGotRuns(i) ==
    /\ Got(i, {"refresh"}) /\ calls[i].asks = NoRun /\ NextSelected(calls[i]) # NoRun
    /\ calls' = [calls EXCEPT ![i].asks = NextSelected(calls[i]), ![i].answer = Waiting]
    /\ UNCHANGED <<alive, pageVars, clicks, lost>>

\* Every run has every case: the selected case still exists if a run does.
RefreshEnds(i) ==
    /\ Got(i, {"refresh"})
    /\ calls[i].asks # NoRun \/ NextSelected(calls[i]) = NoRun
    /\ sel' = calls[i].asks /\ detail' = calls[i].asks
    /\ IF calls[i].case = NoCase \/ calls[i].asks = NoRun
       THEN case' = NoCase /\ trace' = NoTrace /\ loading' = FALSE
       ELSE UNCHANGED <<case, trace, loading>>
    /\ Ends(i)
    /\ UNCHANGED <<alive, cached, clicks, lost>>

\* The details of a selected or a renamed run, whatever is selected by now.
DetailArrives(i) ==
    /\ Got(i, {"select", "rename"})
    /\ detail' = calls[i].run
    /\ Ends(i)
    /\ UNCHANGED <<alive, sel, case, trace, loading, cached, clicks, lost>>

\* cacheKey is computed before the call.
KeyOnArrival(c) == <<sel, case>>
CacheKey(c) == <<c.run, c.case>>

TraceArrives(i) ==
    /\ Got(i, {"trace"})
    /\ LET key == CacheKey(calls[i])
           got == <<calls[i].run, calls[i].case>>
       IN  cached' = {e \in cached : e[1] # key} \cup {<<key, got>>} /\ trace' = got
    /\ loading' = FALSE
    /\ Ends(i)
    /\ UNCHANGED <<alive, sel, detail, case, clicks, lost>>

\* After a deletion the page is refreshed, with the closure of the deletion.
DeleteArrives(i) ==
    /\ Got(i, {"delete"})
    /\ case' = NoCase /\ trace' = NoTrace /\ loading' = FALSE
    /\ calls' = [calls EXCEPT ![i].kind = "refresh", ![i].asks = NoRun, ![i].answer = Waiting]
    /\ UNCHANGED <<alive, sel, detail, cached, clicks, lost>>

\* The catch blocks: only a trace's touches what is shown.
TraceFails == trace' = NoTrace /\ loading' = FALSE

FailureArrives(i) ==
    /\ ~Idle(i) /\ calls[i].answer = Failed
    /\ IF calls[i].kind = "trace" THEN TraceFails ELSE UNCHANGED <<trace, loading>>
    /\ Ends(i)
    /\ UNCHANGED <<alive, sel, detail, case, cached, clicks, lost>>

Proceeds(i) ==
    \/ ServerReads(i) \/ ServerDeletes(i)
    \/ RefreshGotRuns(i) \/ RefreshEnds(i) \/ DetailArrives(i)
    \/ TraceArrives(i) \/ DeleteArrives(i) \/ FailureArrives(i)

User ==
    \/ \E r \in Runs : SelectRun(r)
    \/ \E c \in Cases : SelectCase(c)
    \/ Rename \/ Delete

Next ==
    \/ User \/ Refresh
    \/ \E i \in Slots : Proceeds(i) \/ Lost(i)

Spec == Init /\ [][Next]_vars

\* The timer fires and every call is answered.
FairSpec == Spec /\ SF_vars(Refresh) /\ \A i \in Slots : WF_vars(Proceeds(i))

-----------------------------------------------------------------------------
(* Properties                                                              *)

\* Answers overtake each other and selections change while a trace is on its
\* way, and still what is kept under a key is the trace of that key.
CacheHoldsOwnTraces == \A e \in cached : e[1] = e[2]

\* README.md:767: clicking a case shows its router trace.
TraceShownIsSelected == trace \in {NoTrace, <<sel, case>>}
=============================================================================
