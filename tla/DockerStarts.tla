------------------------------ MODULE DockerStarts ------------------------------
(***************************************************************************)
(* Runtimes of OpenHands in docker containers                              *)
(* (openhands/runtime/impl/docker/docker_runtime.py, containers.py): each  *)
(* picks a port of the host under a lock file                              *)
(* (openhands/runtime/utils/port_lock.py) before it runs its container.    *)
(* The host port stands for the four that a container gets.                *)
(***************************************************************************)
EXTENDS Integers, FiniteSets

CONSTANTS
    Sids,          \* sessions; each has a process that runs its DockerRuntime
    Ports,
    StartsWith,    \* the sessions whose names begin with a session's name
    Fcntl,         \* flock, or else files that are created exclusively?
    Fallback,      \* may the search for a port that can be locked fail?
    Reconnect,     \* may a session that was closed be opened again?
    MaxStarts, MaxFiles, MaxCrashes \* bounds

DockerAssumption ==
    /\ IsFiniteSet(Sids) /\ IsFiniteSet(Ports) /\ StartsWith \in [Sids -> SUBSET Sids]
    /\ \A s \in Sids : s \in StartsWith[s]
    /\ {Fcntl, Fallback, Reconnect} \subseteq BOOLEAN
    /\ {MaxStarts, MaxFiles, MaxCrashes} \subseteq Nat

NoPort == "none"

VARIABLES
    file,    \* lock file at each port's path: a number, 0 without one
    files,   \* lock files created so far
    rt,      \* where a runtime stands, its port, the lock file it has open, and locked
    ctr,     \* the container of each session
    starts, crashes \* so far

vars == <<file, files, rt, ctr, starts, crashes>>

Stages == {"away", "choose", "lock", "check", "run", "wait", "ready", "paused", "close",
           "unlink"}
Away == [pc |-> "away", port |-> NoPort, fd |-> 0, locked |-> FALSE, next |-> "away"]

DockerTypeOK ==
    /\ file \in [Ports -> 0..MaxFiles] /\ files \in 0..MaxFiles
    /\ rt \in [Sids -> [pc : Stages, port : Ports \cup {NoPort}, fd : 0..MaxFiles,
                        locked : BOOLEAN, next : Stages]]
    /\ ctr \in [Sids -> [st : {"none", "created", "running", "exited"},
                         port : Ports \cup {NoPort}]]
    /\ starts \in [Sids -> 0..MaxStarts] /\ crashes \in 0..MaxCrashes

Init ==
    /\ file = [p \in Ports |-> 0] /\ files = 0 /\ rt = [s \in Sids |-> Away]
    /\ ctr = [s \in Sids |-> [st |-> "none", port |-> NoPort]]
    /\ starts = [s \in Sids |-> 0] /\ crashes = 0

At(s, pc) == rt[s].pc = pc
Goes(s, pc) == rt' = [rt EXCEPT ![s].pc = pc]
Same == UNCHANGED <<file, files, ctr, starts, crashes>>

\* A port is bound while a container that was given it runs.
Users(p) == {s \in Sids : ctr[s].st = "running" /\ ctr[s].port = p}

-----------------------------------------------------------------------------
(* PortLock and find_available_port_with_lock                              *)

Reopened(p) == TRUE
Openable(p) == Fcntl \/ file[p] = 0

\* acquire opens the file of the port: with flock whoever has it, or else as its creator.
OpenFile(s) ==
    /\ At(s, "choose")
    /\ \E p \in Ports :
         LET new == file[p] = 0
             fd == IF new THEN files + 1 ELSE file[p] IN
         /\ Openable(p) /\ fd <= MaxFiles
         /\ files' = IF new THEN fd ELSE files
         /\ file' = [file EXCEPT ![p] = fd]
         /\ rt' = [rt EXCEPT ![s] = [@ EXCEPT !.pc = IF Fcntl THEN "lock" ELSE "check",
                                              !.port = p, !.fd = fd, !.locked = ~Fcntl]]
    /\ UNCHANGED <<ctr, starts, crashes>>

Flockable(s) == \A t \in Sids : ~(rt[t].locked /\ rt[t].fd = rt[s].fd)

Lock(s) ==
    /\ At(s, "lock") /\ Flockable(s)
    /\ rt' = [rt EXCEPT ![s].pc = "check", ![s].locked = TRUE] /\ Same

\* Another port, after a second.
TimeOut(s) ==
    /\ At(s, "lock") /\ rt' = [rt EXCEPT ![s] = [Away EXCEPT !.pc = "choose"]] /\ Same

\* bind, and the ports that docker lists.
Check(s) ==
    /\ At(s, "check")
    /\ rt' = [rt EXCEPT ![s] = IF Users(rt[s].port) = {} THEN [@ EXCEPT !.pc = "run"]
                               ELSE [@ EXCEPT !.pc = "unlink", !.locked = FALSE,
                                              !.next = "choose"]]
    /\ Same

\* The search fails: a port without a lock.
Unlocked(s) ==
    /\ Fallback /\ At(s, "choose")
    /\ \E p \in Ports : /\ Users(p) = {}
                        /\ rt' = [rt EXCEPT ![s] = [@ EXCEPT !.pc = "run", !.port = p]]
    /\ Same

\* release closes the file and then removes what is at its path.
Removed(s) == [file EXCEPT ![rt[s].port] = 0]
Unlink(s) ==
    /\ At(s, "unlink") /\ file' = Removed(s)
    /\ rt' = [rt EXCEPT ![s] = [Away EXCEPT !.pc = rt[s].next]]
    /\ UNCHANGED <<files, ctr, starts, crashes>>

-----------------------------------------------------------------------------
(* connect                                                                 *)

\* The container of the session is there: one that has exited is started, when its port
\* is free; one that was only created is taken as it is.
Attach(s) ==
    /\ At(s, "away") /\ ctr[s].st # "none" /\ starts[s] < MaxStarts
    /\ Reconnect \/ starts[s] = 0 \/ ctr[s].st = "running"
    /\ starts' = [starts EXCEPT ![s] = @ + 1]
    /\ LET free == Users(ctr[s].port) = {} IN
       /\ ctr' = IF ctr[s].st = "exited" /\ free THEN [ctr EXCEPT ![s].st = "running"] ELSE ctr
       /\ IF ctr[s].st = "exited" /\ ~free THEN UNCHANGED rt ELSE Goes(s, "wait")
    /\ UNCHANGED <<file, files, crashes>>

InitContainer(s) ==
    /\ At(s, "away") /\ ctr[s].st = "none" /\ starts[s] < MaxStarts
    /\ Reconnect \/ starts[s] = 0
    /\ starts' = [starts EXCEPT ![s] = @ + 1] /\ Goes(s, "choose")
    /\ UNCHANGED <<file, files, ctr, crashes>>

\* containers.run; when the port is taken the container stays, created, and close follows.
Run(s) ==
    /\ At(s, "run")
    /\ LET free == Users(rt[s].port) = {} IN
       /\ ctr' = [ctr EXCEPT ![s] = [st |-> IF free THEN "running" ELSE "created",
                                     port |-> rt[s].port]]
       /\ Goes(s, IF free THEN "wait" ELSE "close")
    /\ UNCHANGED <<file, files, starts, crashes>>

Alive(s) ==
    /\ At(s, "wait") /\ ctr[s].st = "running" /\ Goes(s, "ready") /\ Same

\* Two minutes pass, or the container has exited: connect raises, and the session closes.
WaitFails(s) == At(s, "wait") /\ Goes(s, "close") /\ Same

-----------------------------------------------------------------------------
(* The end of a runtime                                                    *)

Close(s) == At(s, "ready") /\ Goes(s, "close") /\ Same

\* stop_all_containers goes by the beginning of the name; then the lock is released.
StopAll(s) ==
    /\ At(s, "close")
    /\ ctr' = [t \in Sids |-> IF t \in StartsWith[s] /\ ctr[t].st = "running"
                                THEN [ctr[t] EXCEPT !.st = "exited"] ELSE ctr[t]]
    /\ rt' = [rt EXCEPT ![s] = IF @.locked THEN [@ EXCEPT !.pc = "unlink", !.locked = FALSE,
                                                          !.next = "away"]
                               ELSE Away]
    /\ UNCHANGED <<file, files, starts, crashes>>

Pause(s) ==
    /\ At(s, "ready") /\ Goes(s, "paused") /\ ctr' = [ctr EXCEPT ![s].st = "exited"]
    /\ UNCHANGED <<file, files, starts, crashes>>

\* resume raises when the port is taken.
Resume(s) ==
    /\ At(s, "paused") /\ Users(ctr[s].port) = {}
    /\ Goes(s, "wait") /\ ctr' = [ctr EXCEPT ![s].st = "running"]
    /\ UNCHANGED <<file, files, starts, crashes>>

\* delete of a conversation whose runtime is closed.
Delete(s) ==
    /\ At(s, "away") /\ ctr[s].st # "none"
    /\ ctr' = [ctr EXCEPT ![s] = [st |-> "none", port |-> NoPort]]
    /\ UNCHANGED <<file, files, rt, starts, crashes>>

\* The process dies: flock ends with it, the files and the container stay.
Crash(s) ==
    /\ ~At(s, "away") /\ crashes < MaxCrashes /\ crashes' = crashes + 1
    /\ rt' = [rt EXCEPT ![s] = Away]
    /\ UNCHANGED <<file, files, ctr, starts>>

Next ==
    \E s \in Sids :
        \/ OpenFile(s) \/ Lock(s) \/ TimeOut(s) \/ Check(s) \/ Unlocked(s) \/ Unlink(s)
        \/ Attach(s) \/ InitContainer(s) \/ Run(s) \/ Alive(s) \/ WaitFails(s)
        \/ Close(s) \/ StopAll(s) \/ Pause(s) \/ Resume(s) \/ Delete(s) \/ Crash(s)

Spec == Init /\ [][Next]_vars

-----------------------------------------------------------------------------
(* Properties                                                              *)

\* With files that are created exclusively, through refused ports, releases and crashes,
\* no two runtimes hold the lock of a port.
Exclusive ==
    \A s, t \in Sids : s # t /\ rt[s].locked /\ rt[t].locked => rt[s].port # rt[t].port

\* And unless a container is started again by its session, a port that was found free
\* is free when the container is run.
FoundIsFree == \A s \in Sids : At(s, "run") => Users(rt[s].port) = {}

\* A runtime that pauses finds its port free when it resumes.
PausedKeepsPort == \A s \in Sids : At(s, "paused") => Users(ctr[s].port) = {}

-----------------------------------------------------------------------------
(* What the code does not keep                                             *)

\* Exclusive with flock: release removes the file, so one who has opened it before and
\* one who creates it anew both hold "the" lock.

\* A runtime waits for a container that runs.  One that was only created, because its
\* port was taken, is never started, by this connect or a later one.
WaitsForRunning == \A s \in Sids : At(s, "wait") => ctr[s].st # "created"

\* A container that has exited can be started again by its session: nobody keeps its port.
ExitedCanStart == \A s \in Sids : ctr[s].st = "exited" => Users(ctr[s].port) = {}

\* Closing a session leaves the containers of the others alone (StartsWith).
OthersRunOn == \A s \in Sids : At(s, "ready") => ctr[s].st = "running"
=============================================================================
