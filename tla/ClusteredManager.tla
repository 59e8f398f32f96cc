---------------------------- MODULE ClusteredManager ----------------------------
(***************************************************************************)
(* One conversation on a cluster of OpenHands servers                      *)
(* (enterprise/server/clustered_conversation_manager.py): a key in Redis   *)
(* says that some server runs its agent loop.  The key expires unless that *)
(* server renews it; servers tell each other by published messages that a  *)
(* loop is to be closed or was.  A server is one event loop: a step is     *)
(* what runs between two awaits.                                           *)
(***************************************************************************)
EXTENDS Integers, Sequences, FiniteSets

CONSTANTS
    Servers,
    Stalls,       \* may a server, or a start, take longer than the key lasts?
    Crowded,      \* has the user too many loops, this conversation being the oldest?
    MaxRequests,  \* bound: requests, and loops found idle
    MaxFailures, MaxCrashes   \* bounds: failed starts, crashes

ClusterAssumption ==
    /\ IsFiniteSet(Servers) /\ {Stalls, Crowded} \subseteq BOOLEAN
    /\ MaxRequests \in Nat /\ MaxFailures \in Nat /\ MaxCrashes \in Nat

VARIABLES
    key,      \* the conversation's key in Redis
    connKey,  \* the keys of the connections to it, one for each server
    loop,     \* is the loop in _local_agent_loops_by_sid?
    conn,     \* is a client of the server connected to the conversation?
    inbox,    \* messages that a server's subscription has still to process
    task,     \* the coroutines of a server
    batch,    \* the commands of a renewal that are under way to Redis
    used      \* requests, failures and crashes so far

vars == <<key, connKey, loop, conn, inbox, task, batch, used>>

\* _redis_subscribe, a task for a conversation that has stopped, _cleanup_stale, and a
\* request.
Tasks == {"listen", "stopped", "cleanup", "request"}
Steps == {"idle", "key", "start", "own", "enter", "disconnect", "delete", "publish", "close",
          "wait", "scan"}
NoBatch == [loop |-> FALSE, conn |-> FALSE]

ClusterTypeOK ==
    /\ key \in BOOLEAN
    /\ {connKey, loop, conn} \subseteq [Servers -> BOOLEAN]
    /\ inbox \in [Servers -> Seq({"close_session", "session_closing"})]
    /\ task \in [Servers -> [Tasks -> Steps]]
    /\ batch \in [Servers -> [loop : BOOLEAN, conn : BOOLEAN]]
    /\ used \in [requests : 0..MaxRequests, failures : 0..MaxFailures, crashes : 0..MaxCrashes]

Nowhere == [s \in Servers |-> FALSE]
Init ==
    /\ key = FALSE /\ connKey = Nowhere /\ loop = Nowhere /\ conn = Nowhere
    /\ inbox = [s \in Servers |-> <<>>]
    /\ task = [s \in Servers |-> [t \in Tasks |-> "idle"]]
    /\ batch = [s \in Servers |-> NoBatch]
    /\ used = [requests |-> 0, failures |-> 0, crashes |-> 0]

At(s, t, pc) == task[s][t] = pc
Goes(s, t, pc) == task' = [task EXCEPT ![s][t] = pc]
Published(m) == inbox' = [s \in Servers |-> Append(inbox[s], m)]
Count(what) == used' = [used EXCEPT ![what] = @ + 1]

-----------------------------------------------------------------------------
(* maybe_start_agent_loop                                                  *)

\* SET with nx: nothing is started when there is a key.
AnyTime == TRUE
IsFree == ~key

TryKey(s, t) ==
    /\ At(s, t, "key")
    /\ IF IsFree THEN key' = TRUE /\ Goes(s, t, "start") ELSE UNCHANGED key /\ Goes(s, t, "idle")
    /\ UNCHANGED <<connKey, loop, conn, inbox, batch, used>>

\* The rest of _start_agent_loop.  A start that fails leaves the key.
Start(s, t) ==
    /\ \/ At(s, t, "start") /\ ~Crowded /\ UNCHANGED conn
       \/ At(s, t, "own") /\ conn' = [conn EXCEPT ![s] = FALSE]
    /\ Goes(s, t, "idle")
    /\ \/ loop' = [loop EXCEPT ![s] = TRUE] /\ UNCHANGED used
       \/ used.failures < MaxFailures /\ Count("failures") /\ UNCHANGED loop
    /\ UNCHANGED <<key, connKey, inbox, batch>>

\* With too many loops the oldest is closed.  It counts the one that is started, whose
\* key is there: the oldest may be this conversation itself.
CloseOldest(s, t) ==
    /\ At(s, t, "start") /\ Crowded /\ Goes(s, t, "own")
    /\ Published("close_session")
    /\ UNCHANGED <<key, connKey, loop, conn, batch, used>>

-----------------------------------------------------------------------------
(* _close_session                                                          *)

\* The session is taken from the table; without one there is nothing more to do.
Always(s) == "delete"
AfterTake(s) == IF loop[s] THEN "delete" ELSE "idle"

Enter(s, t) ==
    /\ At(s, t, "enter")
    /\ IF conn[s] THEN Goes(s, t, "disconnect") /\ UNCHANGED loop
       ELSE Goes(s, t, AfterTake(s)) /\ loop' = [loop EXCEPT ![s] = FALSE]
    /\ UNCHANGED <<key, connKey, conn, inbox, batch, used>>

Disconnect(s, t) ==
    /\ At(s, t, "disconnect") /\ conn' = [conn EXCEPT ![s] = FALSE]
    /\ Goes(s, t, AfterTake(s)) /\ loop' = [loop EXCEPT ![s] = FALSE]
    /\ UNCHANGED <<key, connKey, inbox, batch, used>>

DeleteKeys(s, t) ==
    /\ At(s, t, "delete") /\ key' = FALSE /\ connKey' = [connKey EXCEPT ![s] = FALSE]
    /\ Goes(s, t, "publish")
    /\ UNCHANGED <<loop, conn, inbox, batch, used>>

\* The others are told before the session is closed.
PublishClosing(s, t) ==
    /\ At(s, t, "publish") /\ Published("session_closing") /\ Goes(s, t, "close")
    /\ UNCHANGED <<key, connKey, loop, conn, batch, used>>

CloseEnds(s, t) ==
    /\ At(s, t, "close") /\ Goes(s, t, "idle")
    /\ UNCHANGED <<key, connKey, loop, conn, inbox, batch, used>>

-----------------------------------------------------------------------------
(* Messages, and conversations that have stopped                           *)

\* _process_message: the next message waits for this one.
Listen(s) ==
    /\ At(s, "listen", "idle") /\ inbox[s] # <<>>
    /\ inbox' = [inbox EXCEPT ![s] = Tail(@)]
    /\ Goes(s, "listen", IF Head(inbox[s]) = "close_session"
                         THEN (IF loop[s] THEN "enter" ELSE "idle")
                         ELSE (IF conn[s] THEN "wait" ELSE "idle"))
    /\ UNCHANGED <<key, connKey, loop, conn, batch, used>>

\* _handle_remote_conversation_stopped after its second: with too many loops the client
\* is disconnected, else the loop is started here.
Restart(s, t) ==
    /\ At(s, t, "wait")
    /\ \/ Goes(s, t, "key") /\ UNCHANGED conn
       \/ Crowded /\ Goes(s, t, "idle") /\ conn' = [conn EXCEPT ![s] = FALSE]
    /\ UNCHANGED <<key, connKey, loop, inbox, batch, used>>

\* _disconnect_from_stopped
NeverStopped(s) == FALSE
HasStopped(s) == conn[s] /\ ~loop[s] /\ ~key
NoticeStopped(s) ==
    /\ At(s, "stopped", "idle") /\ HasStopped(s) /\ Goes(s, "stopped", "wait")
    /\ UNCHANGED <<key, connKey, loop, conn, inbox, batch, used>>

\* _close_disconnected: a loop that has been idle and has no client here or elsewhere.
FindIdle(s) ==
    /\ At(s, "cleanup", "idle") /\ loop[s] /\ ~conn[s] /\ Goes(s, "cleanup", "scan")
    /\ used.requests < MaxRequests /\ Count("requests")
    /\ UNCHANGED <<key, connKey, loop, conn, inbox, batch>>
CloseIdle(s) ==
    /\ At(s, "cleanup", "scan")
    /\ Goes(s, "cleanup", IF \E o \in Servers : connKey[o] THEN "idle" ELSE "enter")
    /\ UNCHANGED <<key, connKey, loop, conn, inbox, batch, used>>

-----------------------------------------------------------------------------
(* _update_state_in_redis, and the expiry of keys                          *)

Renew(s) ==
    /\ batch[s] = NoBatch /\ (loop[s] \/ (conn[s] /\ key))
    /\ batch' = [batch EXCEPT ![s] = [loop |-> loop[s], conn |-> conn[s] /\ key]]
    /\ UNCHANGED <<key, connKey, loop, conn, inbox, task, used>>

Renewed(s) ==
    /\ batch[s] # NoBatch /\ batch' = [batch EXCEPT ![s] = NoBatch]
    /\ key' = (key \/ batch[s].loop)
    /\ connKey' = [connKey EXCEPT ![s] = @ \/ batch[s].conn]
    /\ UNCHANGED <<loop, conn, inbox, task, used>>

\* A server that works renews its keys long before they expire.
Renews(s) == loop[s] \/ batch[s].loop \/ \E t \in Tasks : task[s][t] \in {"start", "own", "delete"}
Expire ==
    /\ key /\ key' = FALSE /\ (Stalls \/ \A s \in Servers : ~Renews(s))
    /\ UNCHANGED <<connKey, loop, conn, inbox, task, batch, used>>
ExpireConnection(s) ==
    /\ connKey[s] /\ connKey' = [connKey EXCEPT ![s] = FALSE]
    /\ Stalls \/ ~(conn[s] \/ batch[s].conn)
    /\ UNCHANGED <<key, loop, conn, inbox, task, batch, used>>

-----------------------------------------------------------------------------
(* Clients, and crashes                                                    *)

May(s) == At(s, "request", "idle") /\ used.requests < MaxRequests /\ Count("requests")

Join(s) ==
    /\ May(s) /\ ~conn[s] /\ conn' = [conn EXCEPT ![s] = TRUE] /\ Goes(s, "request", "key")
    /\ UNCHANGED <<key, connKey, loop, inbox, batch>>
StartRequest(s) ==
    /\ May(s) /\ Goes(s, "request", "key")
    /\ UNCHANGED <<key, connKey, loop, conn, inbox, batch>>
CloseRequest(s) ==
    /\ May(s) /\ Published("close_session") /\ Goes(s, "request", "enter")
    /\ UNCHANGED <<key, connKey, loop, conn, batch>>
Leave(s) ==
    /\ conn[s] /\ conn' = [conn EXCEPT ![s] = FALSE]
    /\ UNCHANGED <<key, connKey, loop, inbox, task, batch, used>>

\* A server dies without a word, and a new one takes its place.
Crash(s) ==
    /\ used.crashes < MaxCrashes /\ Count("crashes")
    /\ loop' = [loop EXCEPT ![s] = FALSE] /\ conn' = [conn EXCEPT ![s] = FALSE]
    /\ inbox' = [inbox EXCEPT ![s] = <<>>] /\ batch' = [batch EXCEPT ![s] = NoBatch]
    /\ task' = [task EXCEPT ![s] = [t \in Tasks |-> "idle"]]
    /\ UNCHANGED <<key, connKey>>

Proceeds(s, t) ==
    \/ TryKey(s, t) \/ Start(s, t) \/ CloseOldest(s, t) \/ Restart(s, t)
    \/ Enter(s, t) \/ Disconnect(s, t) \/ DeleteKeys(s, t) \/ PublishClosing(s, t)
    \/ CloseEnds(s, t)

Next ==
    \/ \E s \in Servers :
         \/ \E t \in Tasks : Proceeds(s, t)
         \/ Listen(s) \/ NoticeStopped(s) \/ FindIdle(s) \/ CloseIdle(s)
         \/ Renew(s) \/ Renewed(s) \/ ExpireConnection(s)
         \/ Join(s) \/ StartRequest(s) \/ CloseRequest(s) \/ Leave(s) \/ Crash(s)
    \/ Expire

Spec == Init /\ [][Next]_vars

\* Event loops run their coroutines, cleanups and renewals recur, and keys expire.
FairSpec ==
    /\ Spec /\ WF_vars(Expire)
    /\ \A s \in Servers :
         /\ WF_vars(Listen(s)) /\ WF_vars(NoticeStopped(s)) /\ WF_vars(Renewed(s))
         /\ \A t \in Tasks : WF_vars(Proceeds(s, t))

-----------------------------------------------------------------------------
(* Properties                                                              *)

\* Whatever servers start, close, restart and crash at the same time, no two have the
\* conversation's loop, and the key that keeps the others away is there.
OneLoop ==
    /\ \A s, o \in Servers : loop[s] /\ loop[o] => s = o
    /\ \A s \in Servers : loop[s] => key

-----------------------------------------------------------------------------
(* What the code does not keep                                             *)

Closes(s) == \E t \in Tasks : task[s][t] \in {"delete", "publish", "close"}

\* clustered_conversation_manager.py:398: "If we can set the key in redis then no other
\* worker is running this conversation".
NoOtherRuns ==
    [][~key /\ key' /\ (\A s \in Servers : batch'[s] = batch[s])
       => \A s \in Servers : ~loop[s] /\ ~Closes(s)]_vars
=============================================================================
