-------------------------- MODULE ConversationManager --------------------------
(***************************************************************************)
(* The conversations of an OpenHands server                                *)
(* (server/conversation_manager/standalone_conversation_manager.py with    *)
(* server/session/agent_session.py and session.py): clients join and       *)
(* leave, agent loops are started, stopped, evicted when there are too     *)
(* many, and closed when they are idle.  The server is one event loop: a   *)
(* step of the model is what runs between two awaits.                      *)
(***************************************************************************)
EXTENDS Integers, FiniteSets

CONSTANTS
    Sids, Conns,      \* conversations and connections of clients
    Requests,         \* coroutines of requests; the cleanup runs one for each conversation
    NoSid,
    Limit,            \* config.max_concurrent_conversations
    StartLasts,       \* a start may last: 0 up to 5 seconds, 1 up to 90, 2 any time
    MaxSessions       \* bound: sessions that are ever made

ConversationAssumption ==
    /\ Limit \in Nat \ {0} /\ MaxSessions \in Nat /\ StartLasts \in 0..2
    /\ NoSid \notin Sids /\ Requests \cap Sids = {}

VARIABLES
    loops,   \* _local_agent_loops_by_sid: the session of a conversation, or 0
    conns,   \* _local_connection_id_to_session_id
    sess,    \* the sessions made
    task     \* the coroutines under way

vars == <<loops, conns, sess, task>>

Ids == 1..MaxSessions
Tasks == Requests \cup Sids

\* A session is new until its start begins; rt and ctl are its runtime and controller.
Phases == {"unborn", "new", "runtime", "memory", "started", "failed"}
Parts == {"none", "open", "closed"}
Unborn == [sid |-> NoSid, phase |-> "unborn", closed |-> FALSE, rt |-> "none", ctl |-> "none"]
Born == {i \in Ids : sess[i].phase # "unborn"}
Starting(i) == sess[i].phase \in {"runtime", "memory"}
Running == {s \in Sids : loops[s] # 0}

\* A coroutine: the conversation it starts after those it evicts, the one it is
\* closing, with the connections left to close, and the session it closes.
Idle == [pc |-> "idle", for |-> NoSid, evict |-> {}, sid |-> NoSid, left |-> {}, session |-> 0]

ConversationTypeOK ==
    /\ loops \in [Sids -> {0} \cup Ids] /\ conns \in [Conns -> Sids \cup {NoSid}]
    /\ sess \in [Ids -> [sid : Sids \cup {NoSid}, phase : Phases, closed : BOOLEAN,
                         rt : Parts, ctl : Parts]]
    /\ task \in [Tasks -> [pc : {"idle", "metadata", "evict", "disconnect", "emit", "wait"},
                           for : Sids \cup {NoSid}, evict : SUBSET Sids, sid : Sids \cup {NoSid},
                           left : SUBSET Conns, session : {0} \cup Ids]]

Init ==
    /\ loops = [s \in Sids |-> 0] /\ conns = [c \in Conns |-> NoSid]
    /\ sess = [i \in Ids |-> Unborn] /\ task = [t \in Tasks |-> Idle]

-----------------------------------------------------------------------------
(* Starting a loop                                                         *)

\* The rest of _start_agent_loop: the session is made and replaces any other.
MakeSession(t, s) ==
    LET i == Cardinality(Born) + 1
    IN  /\ sess' = [sess EXCEPT ![i] = [Unborn EXCEPT !.sid = s, !.phase = "new"]]
        /\ loops' = [loops EXCEPT ![s] = i]
        /\ task' = [task EXCEPT ![t] = Idle]

\* maybe_start_agent_loop up to its first await.
HasController(s) == loops[s] # 0 /\ sess[loops[s]].ctl = "open"
HasLoop(s) == loops[s] # 0
MaybeStart(t, s) ==
    IF HasLoop(s) THEN UNCHANGED <<loops, sess, task>>
    ELSE IF Cardinality(Running) < Limit THEN MakeSession(t, s)
    ELSE /\ task' = [task EXCEPT ![t] = [Idle EXCEPT !.pc = "metadata", !.for = s, !.evict = Running]]
         /\ UNCHANGED <<loops, sess>>

Busy == {t \in Tasks : task[t].for # NoSid}
MayRequest(t) == task[t].pc = "idle" /\ Cardinality(Born) + Cardinality(Busy) < MaxSessions

Join(t, c, s) ==
    /\ MayRequest(t) /\ conns[c] = NoSid
    /\ conns' = [conns EXCEPT ![c] = s]
    /\ MaybeStart(t, s)

StartRequest(t, s) == MayRequest(t) /\ loops[s] = 0 /\ MaybeStart(t, s) /\ UNCHANGED conns

OneTooFew(S) == Cardinality(S) - Limit
Oldest(S) == Cardinality(S) - Limit + 1

\* The metadata of the loops found running before are read: the oldest are closed.
Metadata(t) ==
    /\ task[t].pc = "metadata"
    /\ \E old \in SUBSET task[t].evict :
          /\ Cardinality(old) = Oldest(task[t].evict)
          /\ task' = [task EXCEPT ![t].pc = "evict", ![t].evict = old]
    /\ UNCHANGED <<loops, conns, sess>>

-----------------------------------------------------------------------------
(* Closing a session                                                       *)

\* _close_session up to its first await.
ConnsOf(s) == {c \in Conns : conns[c] = s}
BeginClose(t, s, rest) ==
    task' = [task EXCEPT ![t] = [@ EXCEPT !.pc = "disconnect", !.sid = s, !.left = ConnsOf(s),
                                          !.evict = rest]]

\* close_session of one of the oldest, as long as there is one.
Evict(t) ==
    /\ task[t].pc = "evict"
    /\ IF task[t].evict = {} THEN MakeSession(t, task[t].for) /\ UNCHANGED conns
       ELSE /\ \E s \in task[t].evict :
                  IF loops[s] # 0 THEN BeginClose(t, s, task[t].evict \ {s})
                  ELSE task' = [task EXCEPT ![t].evict = @ \ {s}]
            /\ UNCHANGED <<loops, conns, sess>>

StopRequest(t, s) ==
    /\ task[t].pc = "idle" /\ t \in Requests /\ loops[s] # 0
    /\ BeginClose(t, s, {}) /\ UNCHANGED <<loops, conns, sess>>

\* What a coroutine does after it has closed a session.
Done(t) == IF task[t].for = NoSid THEN Idle
           ELSE [Idle EXCEPT !.pc = "evict", !.for = task[t].for, !.evict = task[t].evict]

DisconnectOne(t, c) ==
    /\ task[t].pc = "disconnect" /\ c \in task[t].left
    /\ task' = [task EXCEPT ![t].left = @ \ {c}]
    /\ conns' = [conns EXCEPT ![c] = NoSid]
    /\ UNCHANGED <<loops, sess>>

\* The session is taken from the table, and the clients are told that it stops.
TakeSession(t) ==
    /\ task[t].pc = "disconnect" /\ task[t].left = {}
    /\ LET i == loops[task[t].sid]
       IN  task' = [task EXCEPT ![t] = IF i = 0 THEN Done(t)
                                       ELSE [@ EXCEPT !.pc = "emit", !.session = i]]
    /\ loops' = [loops EXCEPT ![task[t].sid] = 0]
    /\ UNCHANGED <<conns, sess>>

Release(r) == [r EXCEPT !.rt = IF @ = "open" THEN "closed" ELSE @,
                        !.ctl = IF @ = "open" THEN "closed" ELSE @]

\* AgentSession.close: nothing if it is closed; it waits for a start under way.
EmitStopped(t) ==
    LET i == task[t].session
    IN  /\ task[t].pc = "emit"
        /\ IF sess[i].closed
           THEN task' = [task EXCEPT ![t] = Done(t)] /\ UNCHANGED sess
           ELSE IF Starting(i)
           THEN /\ sess' = [sess EXCEPT ![i].closed = TRUE]
                /\ task' = [task EXCEPT ![t].pc = "wait"]
           ELSE /\ sess' = [sess EXCEPT ![i] = Release([@ EXCEPT !.closed = TRUE])]
                /\ task' = [task EXCEPT ![t] = Done(t)]
        /\ UNCHANGED <<loops, conns>>

\* The wait ends after five seconds when the start is younger than 90 seconds, and
\* with the start when it is older.
WaitsForController(i) == sess[i].ctl = "open"
MayGiveUp(i) == StartLasts > 0 \/ ~Starting(i)
NeverReleases(r) == r
Releases(r) == Release(r)
WaitEnds(t) ==
    LET i == task[t].session
    IN  /\ task[t].pc = "wait" /\ MayGiveUp(i)
        /\ sess' = [sess EXCEPT ![i] = Releases(@)]
        /\ task' = [task EXCEPT ![t] = Done(t)]
        /\ UNCHANGED <<loops, conns>>

Leave(c) ==
    /\ conns[c] # NoSid /\ conns' = [conns EXCEPT ![c] = NoSid]
    /\ UNCHANGED <<loops, sess, task>>

\* _cleanup_stale: loops that were idle for long and that no client is connected to
\* are closed, all at once.  One without a controller counts as failed only when it
\* failed or its start is 90 seconds old.
Stale(s) ==
    LET i == loops[s]
    IN  /\ i # 0 /\ ConnsOf(s) = {}
        /\ sess[i].ctl = "open" \/ sess[i].phase = "failed" \/ (StartLasts = 2 /\ Starting(i))
Cleanup ==
    /\ \A s \in Sids : task[s] = Idle
    /\ \E S \in SUBSET {s \in Sids : Stale(s)} \ {{}} :
          task' = [t \in Tasks |-> IF t \in S THEN [Idle EXCEPT !.pc = "disconnect", !.sid = t]
                                   ELSE task[t]]
    /\ UNCHANGED <<loops, conns, sess>>

\* wait_all cancels what has not ended after 90 seconds.
CleanupTimesOut ==
    /\ StartLasts = 2 /\ \E s \in Sids : task[s].pc = "wait"
    /\ task' = [t \in Tasks |-> IF t \in Sids THEN Idle ELSE task[t]]
    /\ UNCHANGED <<loops, conns, sess>>

-----------------------------------------------------------------------------
(* AgentSession.start, a coroutine of its own                              *)

StartBegins(i) ==
    /\ sess[i].phase = "new"
    /\ sess' = [sess EXCEPT ![i] = IF @.closed THEN [@ EXCEPT !.phase = "failed"]
                                   ELSE [@ EXCEPT !.phase = "runtime", !.rt = "open"]]
    /\ UNCHANGED <<loops, conns, task>>

\* The runtime connects, the repository is cloned and set up, or one of these fails;
\* a runtime that is unavailable does not end the start.
RuntimeReady(i) ==
    /\ sess[i].phase = "runtime"
    /\ \E p \in {"memory", "failed"} : sess' = [sess EXCEPT ![i].phase = p]
    /\ UNCHANGED <<loops, conns, task>>

\* The memory is made; then the controller, whether or not the session is closed.
MemoryReady(i) ==
    /\ sess[i].phase = "memory"
    /\ \/ sess' = [sess EXCEPT ![i].phase = "started", ![i].ctl = "open"]
       \/ sess' = [sess EXCEPT ![i].phase = "failed"]
    /\ UNCHANGED <<loops, conns, task>>

CloseStep(t) == \/ Metadata(t) \/ Evict(t) \/ TakeSession(t) \/ EmitStopped(t) \/ WaitEnds(t)
                \/ \E c \in Conns : DisconnectOne(t, c)
StartStep(i) == StartBegins(i) \/ RuntimeReady(i) \/ MemoryReady(i)

Next ==
    \/ \E t \in Requests, s \in Sids : \/ StartRequest(t, s) \/ StopRequest(t, s)
                                       \/ \E c \in Conns : Join(t, c, s)
    \/ \E t \in Tasks : CloseStep(t)
    \/ \E i \in Ids : StartStep(i)
    \/ \E c \in Conns : Leave(c)
    \/ Cleanup \/ CleanupTimesOut

Spec == Init /\ [][Next]_vars

\* Coroutines are run by the event loop, and a start ends or fails.
FairSpec ==
    /\ Spec /\ \A t \in Tasks : WF_vars(CloseStep(t))
    /\ \A i \in Ids : WF_vars(StartStep(i))

-----------------------------------------------------------------------------
(* Properties                                                              *)

\* No session is lost: until it is closed it is in the table, where requests and the
\* cleanup find it, or a coroutine is closing it.
OpenIsKnown ==
    \A i \in Born : \/ sess[i].closed
                    \/ loops[sess[i].sid] = i
                    \/ \E t \in Tasks : task[t].session = i

\* A closed session keeps nothing: neither a runtime nor a controller, once those
\* that close and start it are done.
ClosedIsReleased ==
    \A i \in Born :
        sess[i].closed /\ ~Starting(i) /\ (\A t \in Tasks : task[t].session # i)
        => sess[i].rt # "open" /\ sess[i].ctl # "open"

\* No more agent loops run than may run at a time.
WithinLimit == Cardinality(Running) <= Limit

\* A conversation has one agent: no two of its sessions have a controller.
OneAgent ==
    \A i, j \in Born : i # j /\ sess[i].sid = sess[j].sid
                       => ~(sess[i].ctl = "open" /\ sess[j].ctl = "open")

\* A connection that is registered for a conversation has a session to send to, once
\* nothing is under way.
ConnectedIsServed ==
    (\A t \in Tasks : task[t] = Idle) => \A c \in Conns : conns[c] # NoSid => loops[conns[c]] # 0
=============================================================================
