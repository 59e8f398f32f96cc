----------------------------- MODULE LocalServers -----------------------------
(***************************************************************************)
(* The servers that OpenHands starts on its own machine                    *)
(* (openhands/runtime/impl/local/local_runtime.py): runtimes take them     *)
(* from a table of running ones and a list of warm ones, which threads     *)
(* fill.  Without workspace_base each session has a temporary directory.   *)
(***************************************************************************)
EXTENDS Integers, FiniteSets, Sequences, Functions

CONSTANTS
    Sids, Runtimes,     \* sessions, and objects of the class
    Attached,           \* those that are made with attach_to_existing
    Overlap,            \* may a session have two runtimes that are not?
    Initial, Desired,   \* INITIAL_NUM_WARM_SERVERS, DESIRED_NUM_WARM_SERVERS
    RemoveFails,        \* may the removal of a warm server's directory fail?
    MaxServers, MaxConnects, MaxDeaths \* bounds

LocalAssumption ==
    /\ Attached \subseteq Runtimes /\ Overlap \in BOOLEAN /\ RemoveFails \in BOOLEAN
    /\ Desired \in Nat /\ MaxServers \in Nat /\ Initial \in 0..MaxServers
    /\ MaxConnects \in Nat /\ MaxDeaths \in Nat

Servers == 1..MaxServers
\* Directories: 0 is the default, a server may have one of its own, and a connection.
ServerDir(s) == s
ConnectDir(n) == MaxServers + n
Dirs == 1..(MaxServers + MaxConnects)

VARIABLES
    srv,      \* process of each server, the directory it works in, and its own
    running,  \* _RUNNING_SERVERS: the server and directory of a session, 0 without one
    warm,     \* _WARM_SERVERS
    warming,  \* servers that threads create
    rt,       \* where each runtime stands, its session, server and directory
    dirs,     \* temporary directories that exist
    connects, deaths \* so far

vars == <<srv, running, warm, warming, rt, dirs, connects, deaths>>

NoEntry == [srv |-> 0, temp |-> 0]
Away == [st |-> "away", sid |-> "", srv |-> 0, temp |-> 0]

LocalTypeOK ==
    /\ srv \in [Servers -> [st : {"none", "alive", "dead"}, works : Dirs \cup {0},
                            own : Dirs \cup {0}]]
    /\ running \in [Sids -> [srv : 0..MaxServers, temp : Dirs \cup {0}]]
    /\ warm \in Seq(Servers) /\ warming \subseteq Servers
    /\ rt \in [Runtimes -> [st : {"away", "waiting", "ready", "failed"}, sid : Sids \cup {""},
                            srv : 0..MaxServers, temp : Dirs \cup {0}]]
    /\ dirs \subseteq Dirs /\ connects \in 0..MaxConnects /\ deaths \in 0..MaxDeaths

\* setup creates the first warm servers before any session, in the default directory.
Init ==
    /\ srv = [s \in Servers |-> IF s <= Initial
                THEN [st |-> "alive", works |-> 0, own |-> ServerDir(s)]
                ELSE [st |-> "none", works |-> 0, own |-> 0]]
    /\ warm = [i \in 1..Initial |-> i] /\ warming = {} /\ dirs = 1..Initial
    /\ running = [sid \in Sids |-> NoEntry]
    /\ rt = [r \in Runtimes |-> Away] /\ connects = 0 /\ deaths = 0

Open(r) == rt[r].st # "away"
Alive(s) == s # 0 /\ srv[s].st = "alive"
Unused == {s \in Servers : srv[s].st = "none"}
Lowest(n) == {s \in Unused : Cardinality({u \in Unused : u < s}) < n}

Stopped(f, S) == [s \in Servers |-> IF s \in S THEN [f[s] EXCEPT !.st = "dead"] ELSE f[s]]

-----------------------------------------------------------------------------
(* connect, up to its first await                                          *)

\* A session's directory, the one that the call makes.
Temp == ConnectDir(connects + 1)

Connects(r, sid) ==
    /\ rt[r].st = "away" /\ connects < MaxConnects /\ connects' = connects + 1
    /\ Overlap \/ r \in Attached \/ \A q \in Runtimes \ Attached : rt[q].sid # sid
    /\ UNCHANGED deaths

Holds(r, sid, s, t) ==
    rt' = [rt EXCEPT ![r] = [st |-> "waiting", sid |-> sid, srv |-> s, temp |-> t]]

Unregistered(sid, s, t) == running
Registered(sid, s, t) == [running EXCEPT ![sid] = [srv |-> s, temp |-> t]]

ConnectExisting(r, sid) ==
    /\ Connects(r, sid) /\ running[sid].srv # 0
    /\ Holds(r, sid, running[sid].srv, running[sid].temp)
    /\ UNCHANGED <<srv, running, warm, warming, dirs>>

\* attach_to_existing finds nothing.
ConnectRefused(r, sid) ==
    /\ Connects(r, sid) /\ running[sid].srv = 0 /\ r \in Attached
    /\ UNCHANGED <<srv, running, warm, warming, rt, dirs>>

NotPopped == warm
Popped == Tail(warm)

\* The server goes on in the directory in which it was started; its own is removed.
ConnectWarm(r, sid) ==
    /\ Connects(r, sid) /\ running[sid].srv = 0 /\ r \notin Attached /\ warm # <<>>
    /\ LET s == Head(warm) IN
       /\ warm' = Popped
       /\ Holds(r, sid, s, Temp) /\ running' = Registered(sid, s, Temp)
       /\ dirs' = (dirs \ {srv[s].own}) \cup {Temp}
       /\ srv' = [srv EXCEPT ![s].own = 0]
    /\ UNCHANGED warming

\* _create_server makes a directory too, which is removed at once.
ConnectNew(r, sid) ==
    /\ Connects(r, sid) /\ running[sid].srv = 0 /\ r \notin Attached
    /\ \/ warm = <<>> /\ UNCHANGED warm
       \/ warm # <<>> /\ RemoveFails /\ warm' = Popped
    /\ \E s \in Lowest(1) :
         /\ srv' = [srv EXCEPT ![s] = [st |-> "alive", works |-> Temp, own |-> 0]]
         /\ Holds(r, sid, s, Temp) /\ running' = Registered(sid, s, Temp)
         /\ dirs' = dirs \cup {Temp}
    /\ UNCHANGED warming

-----------------------------------------------------------------------------
(* The rest of connect, and actions                                        *)

\* Threads create n warm servers, which work in the directory of the runtime that asks.
Spawns(n, works) ==
    LET S == Lowest(n) IN
    /\ warming' = warming \cup S
    /\ srv' = [s \in Servers |-> IF s \in S THEN [st |-> "alive", works |-> works,
                                                  own |-> ServerDir(s)]
                                 ELSE srv[s]]
    /\ dirs' = dirs \cup {ServerDir(s) : s \in S}

Missing == IF Len(warm) < Desired THEN Desired - Len(warm) ELSE 0

Ready(r) ==
    /\ rt[r].st = "waiting" /\ Alive(rt[r].srv) /\ rt' = [rt EXCEPT ![r].st = "ready"]
    /\ Missing <= Cardinality(Unused) /\ Spawns(Missing, rt[r].temp)
    /\ UNCHANGED <<running, warm, connects, deaths>>

\* The server died, or does not answer in time.
WaitFails(r) ==
    /\ rt[r].st = "waiting" /\ rt' = [rt EXCEPT ![r].st = "failed"]
    /\ UNCHANGED <<srv, running, warm, warming, dirs, connects, deaths>>

\* execute_action
Execute(r) ==
    /\ rt[r].st = "ready" /\ Alive(rt[r].srv) /\ Missing > 0 /\ Unused # {}
    /\ Spawns(1, rt[r].temp)
    /\ UNCHANGED <<running, warm, rt, connects, deaths>>

\* execute_action with a server that has died: the entry of its session is deleted.
FindDead(r) ==
    /\ rt[r].st = "ready" /\ ~Alive(rt[r].srv)
    /\ running' = [running EXCEPT ![rt[r].sid] = NoEntry]
    /\ UNCHANGED <<srv, warm, warming, rt, dirs, connects, deaths>>

-----------------------------------------------------------------------------
(* close and delete                                                        *)

OnlyForgotten(s) == {}
Terminated(s) == {s}

Close(r) ==
    /\ Open(r) /\ rt' = [rt EXCEPT ![r] = Away]
    /\ IF r \in Attached THEN UNCHANGED <<srv, running, dirs>>
       ELSE /\ running' = [running EXCEPT ![rt[r].sid] = NoEntry]
            /\ srv' = Stopped(srv, Terminated(rt[r].srv))
            /\ dirs' = dirs \ {rt[r].temp}
    /\ UNCHANGED <<warm, warming, connects, deaths>>

\* The server of the session, and the warm ones with the last session; the directory of
\* the session stays.
Delete(sid) ==
    /\ running' = [running EXCEPT ![sid] = NoEntry]
    /\ LET last == \A t \in Sids : running'[t] = NoEntry
           idle == IF last THEN Range(warm) ELSE {} IN
       /\ warm' = IF last THEN <<>> ELSE warm
       /\ srv' = Stopped(srv, idle \cup {running[sid].srv})
       /\ dirs' = dirs \ {srv[s].own : s \in idle}
    /\ UNCHANGED <<warming, rt, connects, deaths>>

-----------------------------------------------------------------------------
(* The threads that create warm servers, and processes that die            *)

WarmReady(s) ==
    /\ s \in warming /\ Alive(s) /\ warming' = warming \ {s} /\ warm' = Append(warm, s)
    /\ UNCHANGED <<srv, running, rt, dirs, connects, deaths>>

WarmFails(s) ==
    /\ s \in warming /\ warming' = warming \ {s}
    /\ srv' = Stopped(srv, {s}) /\ dirs' = dirs \ {srv[s].own}
    /\ UNCHANGED <<running, warm, rt, connects, deaths>>

Dies(s) ==
    /\ Alive(s) /\ deaths < MaxDeaths /\ deaths' = deaths + 1
    /\ srv' = [srv EXCEPT ![s].st = "dead"]
    /\ UNCHANGED <<running, warm, warming, rt, dirs, connects>>

Next ==
    \/ \E r \in Runtimes, sid \in Sids :
         ConnectExisting(r, sid) \/ ConnectRefused(r, sid) \/ ConnectWarm(r, sid)
         \/ ConnectNew(r, sid)
    \/ \E r \in Runtimes : Ready(r) \/ WaitFails(r) \/ Execute(r) \/ FindDead(r) \/ Close(r)
    \/ \E sid \in Sids : Delete(sid)
    \/ \E s \in Servers : WarmReady(s) \/ WarmFails(s) \/ Dies(s)

Spec == Init /\ [][Next]_vars

-----------------------------------------------------------------------------
(* Properties                                                              *)

\* However sessions, threads and deletions meet, two sessions never work with one
\* server, and a server that waits in the list is nobody's.
NotShared ==
    /\ \A r, q \in Runtimes : Open(r) /\ Open(q) /\ rt[r].srv = rt[q].srv => rt[r].sid = rt[q].sid
    /\ \A r \in Runtimes : Open(r) => rt[r].srv \notin Range(warm) \cup warming
    /\ \A i, j \in DOMAIN warm : warm[i] = warm[j] => i = j

\* A server that is alive, and a directory, is in the table or the list, with a thread
\* that creates it, or with a runtime that will close it: neither is left over.
Keepers == {r \in Runtimes \ Attached : Open(r)}
NothingLeaks ==
    LET known == Range(warm) \cup warming
        entries == {running[sid] : sid \in Sids} \cup {rt[r] : r \in Keepers} IN
    /\ \A s \in Servers : Alive(s) => s \in known \cup {e.srv : e \in entries}
    /\ dirs \subseteq {srv[s].own : s \in known} \cup {e.temp : e \in entries}

\* While a session holds a server that is alive, the table has it, for others to attach to.
RegisteredWhileOpen ==
    \A r \in Keepers : Alive(rt[r].srv) => running[rt[r].sid].srv = rt[r].srv

-----------------------------------------------------------------------------
(* What the code does not keep                                             *)

\* The server of a session works in the session's directory.  A warm server works where
\* it was started: in the default directory, or in that of the session that asked for it,
\* which is removed when that session closes.
WorksInOwnDir == \A r \in Keepers : Alive(rt[r].srv) => srv[rt[r].srv].works = rt[r].temp

\* Actions ask for warm servers while threads create them: there may be more than desired.
WarmBounded == Len(warm) <= (IF Desired > Initial THEN Desired ELSE Initial)

\* The last deletion removes the warm servers, but not those that threads create.
NoneWarmWithoutSessions ==
    (\A r \in Runtimes : ~Open(r)) /\ connects = MaxConnects /\ warming = {} =>
        \E sid \in Sids : running[sid] # NoEntry \/ warm = <<>>
=============================================================================
