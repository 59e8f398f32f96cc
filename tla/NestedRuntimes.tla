---------------------------- MODULE NestedRuntimes ----------------------------
(***************************************************************************)
(* Conversations of OpenHands that run in remote runtimes of their own:    *)
(* the manager that starts them                                            *)
(* (enterprise/server/saas_nested_conversation_manager.py), its key in     *)
(* Redis, the client of the runtime service                                *)
(* (openhands/runtime/impl/remote/remote_runtime.py), and the service.     *)
(***************************************************************************)
EXTENDS Integers, FiniteSets

CONSTANTS
    Sids, Requests,       \* conversations; requests, each with the task it may start
    NoSid,
    KeepAlive,            \* keep_runtime_alive
    Overlap,              \* may a request read while another is about to mark its start?
    Slow,                 \* may a start outlast the key in Redis?
    MaxRequests, MaxFaults, MaxPauses, MaxCrashes \* bounds

NestedAssumption ==
    /\ IsFiniteSet(Sids) /\ IsFiniteSet(Requests) /\ NoSid \notin Sids
    /\ KeepAlive \in BOOLEAN /\ Overlap \in BOOLEAN /\ Slow \in BOOLEAN
    /\ {MaxRequests, MaxFaults, MaxPauses, MaxCrashes} \subseteq Nat

VARIABLES
    key,     \* is the conversation marked as starting in Redis?
    rt,      \* its runtime at the service: status, and that of its pod
    nested,  \* does the server in the runtime have the conversation?
    req,     \* where maybe_start_agent_loop stands, and what it has read
    start,   \* where _start_agent_loop stands, and does it know its runtime?
    down,    \* was the conversation neither starting nor running during the request?
    used     \* requests, faults, pauses and crashes so far

vars == <<key, rt, nested, req, start, down, used>>

Waiting == {"ensure", "check", "resume", "wait", "rewait", "begin", "create", "close", "finally"}
NoRequest == [pc |-> "idle", sid |-> NoSid, starting |-> FALSE, running |-> FALSE]
NoStart == [pc |-> "none", sid |-> NoSid, known |-> FALSE]

NestedTypeOK ==
    /\ key \in [Sids -> BOOLEAN] /\ nested \in [Sids -> BOOLEAN]
    /\ rt \in [Sids -> [st : {"none", "running", "paused", "stopped"},
                        pod : {"pending", "ready", "failed"}]]
    /\ req \in [Requests -> [pc : {"idle", "read", "look", "mark"}, sid : Sids \cup {NoSid},
                             starting : BOOLEAN, running : BOOLEAN]]
    /\ start \in [Requests -> [pc : {"none"} \cup Waiting, sid : Sids \cup {NoSid},
                               known : BOOLEAN]]
    /\ down \in [Requests -> BOOLEAN]
    /\ used.requests <= MaxRequests /\ used.faults <= MaxFaults /\ used.pauses <= MaxPauses
    /\ used.crashes <= MaxCrashes

Init ==
    /\ key = [s \in Sids |-> FALSE] /\ nested = key
    /\ rt = [s \in Sids |-> [st |-> "none", pod |-> "pending"]]
    /\ req = [r \in Requests |-> NoRequest] /\ start = [r \in Requests |-> NoStart]
    /\ down = [r \in Requests |-> FALSE]
    /\ used = [requests |-> 0, faults |-> 0, pauses |-> 0, crashes |-> 0]

Running(s) == rt[s].st = "running"
Uses(what) == used' = [used EXCEPT ![what] = @ + 1]
Faulty == used.faults < MaxFaults /\ Uses("faults")
Works == UNCHANGED used

-----------------------------------------------------------------------------
(* maybe_start_agent_loop                                                  *)

Deciding(s) == {r \in Requests : req[r].pc # "idle" /\ req[r].sid = s}

Request(r, s) ==
    /\ req[r].pc = "idle" /\ start[r].pc = "none" /\ used.requests < MaxRequests
    /\ Overlap \/ Deciding(s) = {}
    /\ Uses("requests")
    /\ req' = [req EXCEPT ![r] = [NoRequest EXCEPT !.pc = "read", !.sid = s]]
    /\ UNCHANGED <<key, rt, nested, start>>

Swapped == <<"runtime", "key">>
\* First the key, then the runtime: a start that ends between the two has left a runtime
\* that runs.
Reads == <<"key", "runtime">>
Seen(r, what) ==
    IF what = "key" THEN [req[r] EXCEPT !.starting = key[req[r].sid]]
                    ELSE [req[r] EXCEPT !.running = Running(req[r].sid)]

ReadFirst(r) ==
    /\ req[r].pc = "read"
    /\ req' = [req EXCEPT ![r] = [Seen(r, Reads[1]) EXCEPT !.pc = "look"]]
    /\ UNCHANGED <<key, rt, nested, start, used>>

\* A conversation whose runtime does not run and that is not starting is started; the
\* answers to the others differ only in what they tell the client.
ReadSecond(r) ==
    /\ req[r].pc = "look"
    /\ LET q == Seen(r, Reads[2]) IN
       req' = [req EXCEPT ![r] = IF q.starting \/ q.running THEN NoRequest
                                                           ELSE [q EXCEPT !.pc = "mark"]]
    /\ UNCHANGED <<key, rt, nested, start, used>>

Mark(r) ==
    /\ req[r].pc = "mark"
    /\ key' = [key EXCEPT ![req[r].sid] = TRUE]
    /\ start' = [start EXCEPT ![r] = [pc |-> "ensure", sid |-> req[r].sid, known |-> FALSE]]
    /\ req' = [req EXCEPT ![r] = NoRequest]
    /\ UNCHANGED <<rt, nested, used>>

-----------------------------------------------------------------------------
(* _start_agent_loop: RemoteRuntime.connect, then the nested conversation  *)

At(r, pc) == start[r].pc = pc
Sid(r) == start[r].sid
Moves(r, pc) == start' = [start EXCEPT ![r].pc = pc]
Knows(r, pc) == start' = [start EXCEPT ![r].pc = pc, ![r].known = TRUE]
Same == UNCHANGED <<key, rt, nested, req>>

\* ensure_num_conversations_below_limit: the identifiers of the user's conversations
\* come as rows of the database, which no string equals, so none is found to be running.
Ensure(r) ==
    /\ At(r, "ensure") /\ Same
    /\ \/ Works /\ Moves(r, "check")
       \/ Faulty /\ Moves(r, "finally")

\* _check_existing_runtime
Check(r) ==
    /\ At(r, "check") /\ Same
    /\ \/ /\ Works
          /\ CASE rt[Sid(r)].st = "running" -> Knows(r, "wait")
               [] rt[Sid(r)].st = "paused" -> Knows(r, "resume")
               [] OTHER -> Moves(r, "begin")
       \/ Faulty /\ Moves(r, "close")

Resumed == [st |-> "running", pod |-> "pending"]

\* _resume_runtime; when the call fails a new runtime is started instead.
Resume(r) ==
    /\ At(r, "resume") /\ UNCHANGED <<key, nested, req>>
    /\ \/ /\ Works /\ rt[Sid(r)].st = "paused" /\ Moves(r, "rewait")
          /\ rt' = [rt EXCEPT ![Sid(r)] = Resumed]
       \/ /\ Works /\ rt[Sid(r)].st # "paused" /\ Moves(r, "rewait") /\ UNCHANGED rt
       \/ Faulty /\ Moves(r, "begin") /\ UNCHANGED rt

\* _start_runtime; the service has one runtime for a session.  The answer may be lost.
Began == [st |-> "running", pod |-> "pending"]
Begin(r) ==
    /\ At(r, "begin") /\ UNCHANGED <<key, req>>
    /\ \/ Works /\ Knows(r, "wait")
       \/ Faulty /\ Moves(r, "close")
    /\ \/ /\ rt' = [rt EXCEPT ![Sid(r)] = IF @.st = "running" THEN @ ELSE Began]
          /\ nested' = IF Running(Sid(r)) THEN nested ELSE [nested EXCEPT ![Sid(r)] = FALSE]
       \/ start'[r].pc = "close" /\ UNCHANGED <<rt, nested>>

\* _wait_until_alive ends with a pod that is ready, with one that failed, or too late;
\* after a resume it is called twice.
IsReady(r) == Running(Sid(r)) /\ rt[Sid(r)].pod = "ready"
WaitUntilAlive(r) ==
    /\ start[r].pc \in {"wait", "rewait"} /\ Same
    /\ \/ IsReady(r) /\ Works /\ Moves(r, IF At(r, "rewait") THEN "wait" ELSE "create")
       \/ /\ \/ Works /\ (~Running(Sid(r)) \/ rt[Sid(r)].pod = "failed")
             \/ Faulty
          /\ Moves(r, IF At(r, "rewait") THEN "begin" ELSE "close")

\* connect fails: RemoteRuntime.close stops the runtime that it knows, or pauses it.
Closed(s) == [rt EXCEPT ![s].st = IF @ = "none" THEN @
                                  ELSE IF KeepAlive THEN "paused" ELSE "stopped"]
Close(r) ==
    /\ At(r, "close") /\ Moves(r, "finally") /\ UNCHANGED <<key, req>>
    /\ \/ /\ Works /\ start[r].known
          /\ rt' = Closed(Sid(r)) /\ nested' = [nested EXCEPT ![Sid(r)] = FALSE]
       \/ /\ (Works /\ ~start[r].known) \/ Faulty
          /\ UNCHANGED <<rt, nested>>

\* _start_conversation: its requests need the server in the runtime.
Create(r) ==
    /\ At(r, "create") /\ Moves(r, "finally") /\ UNCHANGED <<key, rt, req>>
    /\ \/ Works /\ IsReady(r) /\ nested' = [nested EXCEPT ![Sid(r)] = TRUE]
       \/ Works /\ ~IsReady(r) /\ UNCHANGED nested
       \/ Faulty /\ UNCHANGED nested

\* The key is removed however the start ended.
OnSuccess(r) == nested[Sid(r)]
AtEnd(r) == TRUE
Finally(r) ==
    /\ At(r, "finally")
    /\ key' = IF AtEnd(r) THEN [key EXCEPT ![Sid(r)] = FALSE] ELSE key
    /\ start' = [start EXCEPT ![r] = NoStart]
    /\ UNCHANGED <<rt, nested, req, used>>

-----------------------------------------------------------------------------
(* The service, other requests, and crashes                                *)

PodReady(s) ==
    /\ Running(s) /\ rt[s].pod = "pending" /\ rt' = [rt EXCEPT ![s].pod = "ready"]
    /\ UNCHANGED <<key, nested, req, start, used>>

PodFails(s) ==
    /\ Running(s) /\ rt[s].pod = "pending" /\ Faulty /\ rt' = [rt EXCEPT ![s].pod = "failed"]
    /\ UNCHANGED <<key, nested, req, start>>

\* close_session, or the service for a runtime that idles.
Pause(s) ==
    /\ Running(s) /\ used.pauses < MaxPauses /\ Uses("pauses")
    /\ rt' = [rt EXCEPT ![s].st = "paused"] /\ nested' = [nested EXCEPT ![s] = FALSE]
    /\ UNCHANGED <<key, req, start>>

\* The server dies with its requests and starts.
Crash(r) ==
    /\ req[r].pc # "idle" \/ start[r].pc # "none"
    /\ used.crashes < MaxCrashes /\ Uses("crashes")
    /\ req' = [req EXCEPT ![r] = NoRequest] /\ start' = [start EXCEPT ![r] = NoStart]
    /\ UNCHANGED <<key, rt, nested>>

Starting(s) == {r \in Requests : start[r].pc # "none" /\ start[r].sid = s}

\* After five minutes the key is gone, which no start takes unless it is slow.
Expire(s) ==
    /\ key[s] /\ (Slow \/ Starting(s) = {}) /\ key' = [key EXCEPT ![s] = FALSE]
    /\ UNCHANGED <<rt, nested, req, start, used>>

Step ==
    \/ \E r \in Requests : \/ \E s \in Sids : Request(r, s)
                           \/ ReadFirst(r) \/ ReadSecond(r) \/ Mark(r)
                           \/ Ensure(r) \/ Check(r) \/ Resume(r) \/ Begin(r)
                           \/ WaitUntilAlive(r) \/ Close(r) \/ Create(r) \/ Finally(r)
                           \/ Crash(r)
    \/ \E s \in Sids : PodReady(s) \/ PodFails(s) \/ Pause(s) \/ Expire(s)

\* What was true at some moment while a request was decided.
Next ==
    /\ Step
    /\ down' = [r \in Requests |->
                  /\ req'[r].pc # "idle"
                  /\ down[r] \/ (~key'[req'[r].sid] /\ rt'[req'[r].sid].st # "running")]

Spec == Init /\ [][Next]_vars

-----------------------------------------------------------------------------
(* Properties                                                              *)

\* Requests that come one after another, on whatever server, start a conversation at
\* most once at a time, whether a start fails, its server dies or the service is slow.
OneStart == \A s \in Sids : Cardinality(Starting(s)) <= 1

\* And a request starts a conversation only when there was a moment, while it looked,
\* at which the conversation was neither starting nor running.
StartJustified == \A r \in Requests : req[r].pc = "mark" => down[r]

\* When nothing failed and nothing is under way, a runtime that runs serves its
\* conversation.
RunningIsServed ==
    used.faults = 0 /\ used.crashes = 0 =>
        \A s \in Sids : Running(s) /\ Starting(s) = {} => nested[s]

\* However a start ends, the conversation does not stay marked as starting, unless the
\* server died.
MarkedIsStarting == used.crashes = 0 => \A s \in Sids : key[s] => Starting(s) # {}

-----------------------------------------------------------------------------
(* What the code does not keep                                             *)

\* A runtime that runs has its conversation.  When the requests that create the
\* conversation fail, or the server dies before it, the runtime runs on; the next
\* request finds it running and starts nothing.
RunningServedAlways ==
    \A s \in Sids : Running(s) /\ rt[s].pod = "ready" /\ Starting(s) = {} /\ ~key[s] => nested[s]

\* ensure_num_conversations_below_limit keeps the conversations that run below
\* max_concurrent_conversations: it finds none of them, so it closes none.
BelowLimit(limit) == Cardinality({s \in Sids : Running(s)}) <= limit
=============================================================================
