------------------------------ MODULE Attachments ------------------------------
(***************************************************************************)
(* What a request of the OpenHands server holds of a conversation          *)
(* (attach_to_conversation, detach_from_conversation and _cleanup_stale of *)
(* server/conversation_manager/standalone_conversation_manager.py, and     *)
(* server/session/conversation.py): one object is shared by the requests   *)
(* that use a conversation at a time.  A lock makes each of the three      *)
(* operations one step for the others, though they wait while they hold it.*)
(***************************************************************************)
EXTENDS Integers, FiniteSets

CONSTANTS
    Requests,     \* requests that use the conversation
    NoConv,
    Convs,        \* bound: the objects that are ever made, in order
    MaxLoops      \* bound: how often its agent loop is started

AttachmentAssumption ==
    /\ IsFiniteSet(Requests) /\ {"cleanup", "none"} \cap Requests = {}
    /\ IsFiniteSet(Convs) /\ Convs = 1..Cardinality(Convs) /\ NoConv \notin Convs
    /\ MaxLoops \in Nat

VARIABLES
    holder,    \* who holds _conversations_lock: a request, "cleanup" or "none"
    active,    \* _active_conversations: the object and its count
    detached,  \* _detached_conversations
    conv,      \* the objects: state, the loop whose event stream they use (0 for none),
               \* and whether they made a runtime of their own
    holds,     \* what each request uses, and what it is doing
    loop, phase,   \* the agent loops started so far, and the phase of the last one
    cut            \* the loops whose event stream was closed by somebody else

vars == <<holder, active, detached, conv, holds, loop, phase, cut>>

States == {"unmade", "connecting", "open", "closed"}
NoEntry == [conv |-> NoConv, count |-> 0]

AttachmentTypeOK ==
    /\ holder \in Requests \cup {"cleanup", "none"}
    /\ active \in [conv : Convs \cup {NoConv}, count : 0..Cardinality(Requests)]
    /\ detached \in Convs \cup {NoConv}
    /\ conv \in [Convs -> [st : States, loop : 0..MaxLoops, own : BOOLEAN]]
    /\ holds \in [Requests -> [pc : {"idle", "connect", "use", "refused"}, conv : Convs \cup {NoConv}]]
    /\ loop \in 0..MaxLoops /\ phase \in {"starting", "running", "stopped"}
    /\ cut \subseteq 1..MaxLoops

Init ==
    /\ holder = "none" /\ active = NoEntry /\ detached = NoConv
    /\ conv = [c \in Convs |-> [st |-> "unmade", loop |-> 0, own |-> FALSE]]
    /\ holds = [r \in Requests |-> [pc |-> "idle", conv |-> NoConv]]
    /\ loop = 0 /\ phase = "stopped" /\ cut = {}

Made == {c \in Convs : conv[c].st # "unmade"}
Current == IF phase = "stopped" THEN 0 ELSE loop
Uses(r, c) == holds' = [holds EXCEPT ![r] = [pc |-> "use", conv |-> c]]

-----------------------------------------------------------------------------
(* attach_to_conversation                                                  *)

OnlyOne(n) == 1
Counted(n) == n + 1

AttachActive(r) ==
    /\ holds[r].pc = "idle" /\ holder = "none" /\ active # NoEntry
    /\ active' = [active EXCEPT !.count = Counted(@)]
    /\ Uses(r, active.conv) /\ UNCHANGED <<holder, detached, conv, loop, phase, cut>>

Keeps(d) == d
Popped(d) == NoConv
AttachDetached(r) ==
    /\ holds[r].pc = "idle" /\ holder = "none" /\ active = NoEntry /\ detached # NoConv
    /\ active' = [conv |-> detached, count |-> 1] /\ detached' = Popped(detached)
    /\ Uses(r, detached) /\ UNCHANGED <<holder, conv, loop, phase, cut>>

\* A new one takes the event stream of the agent loop, and its runtime if it has one
\* already; else it connects to the runtime itself, holding the lock.
AttachNew(r) ==
    /\ holds[r].pc = "idle" /\ holder = "none" /\ active = NoEntry /\ detached = NoConv
    /\ Made # Convs
    /\ LET c == Cardinality(Made) + 1
       IN  IF phase = "running"
           THEN /\ conv' = [conv EXCEPT ![c] = [st |-> "open", loop |-> Current, own |-> FALSE]]
                /\ active' = [conv |-> c, count |-> 1] /\ Uses(r, c) /\ UNCHANGED holder
           ELSE /\ conv' = [conv EXCEPT ![c] = [st |-> "connecting", loop |-> Current, own |-> TRUE]]
                /\ holds' = [holds EXCEPT ![r] = [pc |-> "connect", conv |-> c]]
                /\ holder' = r /\ UNCHANGED active
    /\ UNCHANGED <<detached, loop, phase, cut>>

\* disconnect closes the stream of an object that made its runtime.
CutBy(c) == IF conv[c].own /\ conv[c].loop # 0 THEN {conv[c].loop} ELSE {}

\* connect ends; the runtime may be unavailable.
KeepsLock(r) == r
Released(r) == "none"
Connected(r) ==
    /\ holds[r].pc = "connect" /\ holder' = Released(r)
    /\ LET c == holds[r].conv
       IN  \/ /\ conv' = [conv EXCEPT ![c].st = "open"]
              /\ active' = [conv |-> c, count |-> 1] /\ Uses(r, c) /\ UNCHANGED cut
           \/ /\ conv' = [conv EXCEPT ![c].st = "closed"] /\ cut' = cut \cup CutBy(c)
              /\ holds' = [holds EXCEPT ![r] = [pc |-> "refused", conv |-> NoConv]]
              /\ UNCHANGED active
    /\ UNCHANGED <<detached, loop, phase>>

-----------------------------------------------------------------------------

\* detach_from_conversation: the last one to leave parks the object.
Detach(r) ==
    /\ holds[r].pc = "use" /\ holder = "none"
    /\ IF active = NoEntry THEN UNCHANGED <<active, detached>>
       ELSE IF active.count > 1
       THEN active' = [active EXCEPT !.count = @ - 1] /\ UNCHANGED detached
       ELSE active' = NoEntry /\ detached' = holds[r].conv
    /\ holds' = [holds EXCEPT ![r] = [pc |-> "idle", conv |-> NoConv]]
    /\ UNCHANGED <<holder, conv, loop, phase, cut>>

Again(r) ==
    /\ holds[r].pc = "refused" /\ holds' = [holds EXCEPT ![r].pc = "idle"]
    /\ UNCHANGED <<holder, active, detached, conv, loop, phase, cut>>

\* The first part of a cleanup: parked objects are disconnected, under the lock.
Parked == detached # NoConv
CleanupBegins ==
    /\ holder = "none" /\ Parked /\ holder' = "cleanup"
    /\ UNCHANGED <<active, detached, conv, holds, loop, phase, cut>>
CleanupEnds ==
    /\ holder = "cleanup" /\ holder' = "none"
    /\ conv' = [conv EXCEPT ![detached].st = "closed"] /\ cut' = cut \cup CutBy(detached)
    /\ detached' = NoConv
    /\ UNCHANGED <<active, holds, loop, phase>>

\* The agent loop of the conversation starts and stops.
LoopStarts ==
    /\ phase = "stopped" /\ loop < MaxLoops /\ loop' = loop + 1 /\ phase' = "starting"
    /\ UNCHANGED <<holder, active, detached, conv, holds, cut>>
LoopHasRuntime ==
    /\ phase = "starting" /\ phase' = "running"
    /\ UNCHANGED <<holder, active, detached, conv, holds, loop, cut>>
LoopStops ==
    /\ phase # "stopped" /\ phase' = "stopped"
    /\ UNCHANGED <<holder, active, detached, conv, holds, loop, cut>>

Attach(r) == AttachActive(r) \/ AttachDetached(r) \/ AttachNew(r)

Next ==
    \/ \E r \in Requests : Attach(r) \/ Connected(r) \/ Detach(r) \/ Again(r)
    \/ CleanupBegins \/ CleanupEnds \/ LoopStarts \/ LoopHasRuntime \/ LoopStops

Spec == Init /\ [][Next]_vars

\* A request that waits for the lock gets it in turn, connects end, and the cleanup
\* is run every 15 seconds.
FairSpec ==
    /\ Spec /\ \A r \in Requests : WF_vars(Connected(r)) /\ SF_vars(Detach(r))
    /\ SF_vars(CleanupBegins) /\ WF_vars(CleanupEnds)

-----------------------------------------------------------------------------
(* Properties                                                              *)

\* Nothing that a request uses is disconnected under it.
UsedIsOpen == \A r \in Requests : holds[r].pc = "use" => conv[holds[r].conv].st = "open"

\* The count is that of the requests, and every open object is in one of the tables.
CountsRight ==
    /\ active.count = Cardinality({r \in Requests : holds[r].pc = "use"})
    /\ \A c \in Convs : conv[c].st = "open" => active.conv = c \/ detached = c

\* standalone_conversation_manager.py:117: the event stream is that of the agent
\* loop, "required to keep the cur_id up to date".
UsesCurrentStream ==
    [][\A r \in Requests : holds[r].pc = "idle" /\ holds'[r].pc = "use" /\ Current # 0
                           => conv'[holds'[r].conv].loop = Current]_vars

\* Requests detach from a conversation; they do not close the event stream that its
\* agent loop runs on.
LoopKeepsStream == Current \notin cut
=============================================================================
