------------------------------ MODULE EventStream ------------------------------
(***************************************************************************)
(* The event stream of OpenHands (events/stream.py, events/event_store.py):*)
(* threads add events, each event gets an id and is stored in a file of its*)
(* own, full pages of events are stored once more for fast reads, and one  *)
(* thread hands the events to a single-threaded pool per callback.  The    *)
(* process may die; what is stored is what the next one starts from.       *)
(***************************************************************************)
EXTENDS Integers, Sequences, FiniteSets

CONSTANTS
    Producers,  \* threads that add events
    Subs,       \* callbacks, in the order of their keys
    CacheSize,  \* cache_size
    MaxEvents,  \* bound: events added
    MaxCrashes, \* bound: restarts of the process
    MaxChanges  \* bound: subscribe and unsubscribe calls, and close

EventStreamAssumption ==
    /\ Subs \subseteq Nat /\ IsFiniteSet(Subs)
    /\ CacheSize \in Nat \ {0} /\ MaxEvents \in Nat
    /\ MaxCrashes \in Nat /\ MaxChanges \in Nat

VARIABLES
    \* the file store
    file,       \* the event in the file of each id, or 0
    pages,      \* the cache page stored under each start, or <<>>
    \* the process
    curId,      \* _cur_id, or NoId before it is calculated
    lists,      \* the page lists in memory, by the id of their first event
    current,    \* the list that is _write_page_cache, or NoId while it is empty
    prod,       \* a thread in add_event: its pc, event, id and page
    queue,      \* _queue
    disp,       \* the queue thread: pc, event, callbacks to go
    stop,       \* _stop_flag
    subscribed, \* _subscribers
    pool,       \* _thread_pools
    tasks,      \* events submitted to a callback's pool
    \* history
    made,       \* events made so far; an event is its number
    idOf,       \* the id given to an event
    seen,       \* what each callback has handled since the process started
    heard,      \* events handled by some callback
    crashes, changes

storeVars == <<file, pages>>
addVars == <<curId, lists, current, prod, made, idOf>>
passVars == <<disp, tasks>>
subVars == <<stop, subscribed, pool>>
countVars == <<crashes, changes>>
vars == <<storeVars, addVars, queue, passVars, subVars, seen, heard, countVars>>

NoId == -1
Ids == 0..(MaxEvents - 1)
Events == 1..MaxEvents
Resting == [pc |-> "idle", event |-> 0, id |-> NoId, page |-> NoId]
AtRest == [pc |-> "get", event |-> 0, todo |-> {}]
Least(S) == CHOOSE x \in S : \A y \in S : x <= y
Elements(s) == {s[i] : i \in DOMAIN s}

EventStreamTypeOK ==
    /\ file \in [Ids -> 0..MaxEvents]
    /\ \A i \in Ids : Len(pages[i]) \in {0, CacheSize} /\ Elements(pages[i]) \subseteq Events
    /\ curId \in {NoId} \cup 0..MaxEvents
    /\ \A i \in Ids : Len(lists[i]) <= CacheSize /\ Elements(lists[i]) \subseteq Events
    /\ current \in Ids \cup {NoId}
    /\ current # NoId => Len(lists[current]) \in 1..(CacheSize - 1)
    /\ prod \in [Producers -> [pc : {"idle", "file", "page", "put"}, event : 0..MaxEvents,
                               id : Ids \cup {NoId}, page : Ids \cup {NoId}]]
    /\ Elements(queue) \subseteq Events
    /\ disp \in [pc : {"get", "pass", "ended", "dead"}, event : 0..MaxEvents, todo : SUBSET Subs]
    /\ stop \in BOOLEAN /\ subscribed \subseteq Subs
    /\ pool \in [Subs -> {"none", "open", "shutdown"}]
    /\ \A s \in Subs : Elements(tasks[s]) \subseteq Events /\ Elements(seen[s]) \subseteq Events
    /\ made \in 0..MaxEvents /\ idOf \in [Events -> Ids \cup {NoId}] /\ heard \subseteq Events
    /\ crashes \in 0..MaxCrashes /\ changes \in 0..MaxChanges

\* A process starts with all its callbacks subscribed and nothing in memory.
Fresh ==
    [curId |-> NoId, lists |-> [i \in Ids |-> <<>>], current |-> NoId,
     prod |-> [p \in Producers |-> Resting], queue |-> <<>>, disp |-> AtRest,
     pool |-> [s \in Subs |-> "open"], none |-> [s \in Subs |-> <<>>]]

Init ==
    /\ file = [i \in Ids |-> 0] /\ pages = [i \in Ids |-> <<>>]
    /\ curId = Fresh.curId /\ lists = Fresh.lists /\ current = Fresh.current
    /\ prod = Fresh.prod /\ queue = Fresh.queue /\ disp = Fresh.disp
    /\ stop = FALSE /\ subscribed = Subs /\ pool = Fresh.pool
    /\ tasks = Fresh.none /\ seen = Fresh.none
    /\ made = 0 /\ idOf = [e \in Events |-> NoId] /\ heard = {}
    /\ crashes = 0 /\ changes = 0

-----------------------------------------------------------------------------
(* add_event                                                               *)

\* _calculate_cur_id: one more than the highest id that has a file.
Calculated == Cardinality({i \in Ids : \E j \in Ids : j >= i /\ file[j] # 0})
CurId == IF curId = NoId THEN Calculated ELSE curId

PageFull(l) == Len(l) = CacheSize

\* The order of what a thread does with its event.
PageFirst(pc) == CASE pc = "idle" -> "page" [] pc = "page" -> "file"
                   [] pc = "file" -> "put"  [] pc = "put" -> "idle"
PutFirst(pc) ==  CASE pc = "idle" -> "put"  [] pc = "put" -> "file"
                   [] pc = "file" -> "page" [] pc = "page" -> "idle"
After(pc) ==     CASE pc = "idle" -> "file" [] pc = "file" -> "page"
                   [] pc = "page" -> "put"  [] pc = "put" -> "idle"

\* Under the lock: the id, and the place in the current page.
AddEvent(p) ==
    /\ prod[p].pc = "idle" /\ made < MaxEvents
    /\ LET id == CurId
           start == IF current = NoId THEN id ELSE current
           l == Append(lists[start], made + 1)
       IN  /\ made' = made + 1
           /\ idOf' = [idOf EXCEPT ![made + 1] = id]
           /\ curId' = id + 1
           /\ lists' = [lists EXCEPT ![start] = l]
           /\ current' = IF PageFull(l) THEN NoId ELSE start
           /\ prod' = [prod EXCEPT ![p] = [pc |-> After("idle"), event |-> made + 1,
                                           id |-> id, page |-> start]]
    /\ UNCHANGED <<storeVars, queue, passVars, subVars, seen, heard, countVars>>

Goes(p) ==
    LET next == After(prod[p].pc)
    IN  prod' = [prod EXCEPT ![p] = IF next = "idle" THEN Resting ELSE [@ EXCEPT !.pc = next]]

WriteFile(p) ==
    /\ prod[p].pc = "file"
    /\ file' = [file EXCEPT ![prod[p].id] = prod[p].event]
    /\ Goes(p)
    /\ UNCHANGED <<pages, curId, lists, current, made, idOf, queue, passVars, subVars,
                   seen, heard, countVars>>

\* _store_cache_page: the list may have been filled by others meanwhile.
StorePage(p) ==
    /\ prod[p].pc = "page"
    /\ pages' = IF Len(lists[prod[p].page]) < CacheSize THEN pages
                ELSE [pages EXCEPT ![prod[p].page] = lists[prod[p].page]]
    /\ Goes(p)
    /\ UNCHANGED <<file, curId, lists, current, made, idOf, queue, passVars, subVars,
                   seen, heard, countVars>>

Put(p) ==
    /\ prod[p].pc = "put"
    /\ queue' = Append(queue, prod[p].event)
    /\ Goes(p)
    /\ UNCHANGED <<storeVars, curId, lists, current, made, idOf, passVars, subVars,
                   seen, heard, countVars>>

-----------------------------------------------------------------------------
(* _process_queue and the pools                                            *)

LoopEndsWhenEmpty == stop \/ queue = <<>>
LoopEnds == stop

Take ==
    /\ disp.pc = "get" /\ ~LoopEnds /\ queue # <<>>
    /\ disp' = [pc |-> "pass", event |-> Head(queue), todo |-> Subs]
    /\ queue' = Tail(queue)
    /\ UNCHANGED <<storeVars, addVars, tasks, subVars, seen, heard, countVars>>

EndLoop ==
    /\ disp.pc = "get" /\ LoopEnds
    /\ disp' = [disp EXCEPT !.pc = "ended"]
    /\ UNCHANGED <<storeVars, addVars, queue, tasks, subVars, seen, heard, countVars>>

\* A subscribed callback without a pool is a KeyError, one whose pool is shut
\* down a RuntimeError: neither is caught, the thread dies.
Pass ==
    /\ disp.pc = "pass" /\ disp.todo # {}
    /\ LET s == Least(disp.todo)
           rest == disp.todo \ {s}
           on == [disp EXCEPT !.todo = rest, !.pc = IF rest = {} THEN "get" ELSE "pass"]
       IN  \/ s \notin subscribed /\ disp' = on /\ UNCHANGED tasks
           \/ /\ s \in subscribed /\ pool[s] = "open"
              /\ disp' = on /\ tasks' = [tasks EXCEPT ![s] = Append(@, disp.event)]
           \/ s \in subscribed /\ pool[s] # "open"
              /\ disp' = [disp EXCEPT !.pc = "dead"] /\ UNCHANGED tasks
    /\ UNCHANGED <<storeVars, addVars, queue, subVars, seen, heard, countVars>>

\* max_workers of a callback's pool
TwoWorkers == 2
Workers == 1

\* A callback that raises is logged: it has handled its event all the same.
Handle(s) ==
    /\ \E i \in 1..Workers :
         /\ i <= Len(tasks[s])
         /\ seen' = [seen EXCEPT ![s] = Append(@, tasks[s][i])]
         /\ heard' = heard \cup {tasks[s][i]}
         /\ tasks' = [tasks EXCEPT ![s] = SubSeq(@, 1, i - 1) \o SubSeq(@, i + 1, Len(@))]
    /\ UNCHANGED <<storeVars, addVars, queue, disp, subVars, countVars>>

-----------------------------------------------------------------------------
(* subscribe, unsubscribe and close, called by other threads               *)

Change == changes < MaxChanges /\ changes' = changes + 1 /\ UNCHANGED crashes

Subscribe(s) ==
    /\ Change /\ s \notin subscribed /\ pool[s] = "none"
    /\ subscribed' = subscribed \cup {s}
    /\ UNCHANGED <<storeVars, addVars, queue, passVars, stop, pool, seen, heard>>

SubscribeOpens(s) ==
    /\ s \in subscribed /\ pool[s] = "none"
    /\ pool' = [pool EXCEPT ![s] = "open"] /\ seen' = [seen EXCEPT ![s] = <<>>]
    /\ UNCHANGED <<storeVars, addVars, queue, passVars, stop, subscribed, heard, countVars>>

\* pool.shutdown() waits for what was submitted.
Unsubscribe(s) ==
    /\ Change /\ s \in subscribed /\ pool[s] = "open"
    /\ pool' = [pool EXCEPT ![s] = "shutdown"]
    /\ UNCHANGED <<storeVars, addVars, queue, passVars, stop, subscribed, seen, heard>>

UnsubscribeEnds(s) ==
    /\ pool[s] = "shutdown" /\ tasks[s] = <<>>
    /\ pool' = [pool EXCEPT ![s] = "none"] /\ subscribed' = subscribed \ {s}
    /\ UNCHANGED <<storeVars, addVars, queue, passVars, stop, seen, heard, countVars>>

Close ==
    /\ Change /\ ~stop /\ stop' = TRUE
    /\ UNCHANGED <<storeVars, addVars, queue, passVars, subscribed, pool, seen, heard>>

\* close joins the queue thread, shuts the pools down and empties the queue.
CloseEnds ==
    /\ stop /\ disp.pc \in {"ended", "dead"} /\ subscribed # {}
    /\ \A s \in Subs : tasks[s] = <<>> /\ (pool[s] = "open" <=> s \in subscribed)
    /\ subscribed' = {} /\ pool' = [s \in Subs |-> "none"] /\ queue' = <<>>
    /\ UNCHANGED <<storeVars, addVars, passVars, stop, seen, heard, countVars>>

Crash ==
    /\ crashes < MaxCrashes /\ crashes' = crashes + 1
    /\ curId' = Fresh.curId /\ lists' = Fresh.lists /\ current' = Fresh.current
    /\ prod' = Fresh.prod /\ queue' = Fresh.queue /\ disp' = Fresh.disp
    /\ stop' = FALSE /\ subscribed' = Subs /\ pool' = Fresh.pool
    /\ tasks' = Fresh.none /\ seen' = Fresh.none
    /\ UNCHANGED <<storeVars, made, idOf, heard, changes>>

Dispatch == Take \/ EndLoop \/ Pass
Produce(p) == AddEvent(p) \/ WriteFile(p) \/ StorePage(p) \/ Put(p)
Subscription ==
    \E s \in Subs : Subscribe(s) \/ SubscribeOpens(s) \/ Unsubscribe(s) \/ UnsubscribeEnds(s)

Next ==
    \/ \E p \in Producers : Produce(p)
    \/ Dispatch
    \/ \E s \in Subs : Handle(s)
    \/ Subscription \/ Close \/ CloseEnds \/ Crash

Spec == Init /\ [][Next]_vars

\* Threads run: what has begun goes on, callbacks return.
FairSpec ==
    /\ Spec
    /\ \A p \in Producers : WF_vars(Produce(p))
    /\ WF_vars(Dispatch)
    /\ \A s \in Subs : WF_vars(Handle(s))

-----------------------------------------------------------------------------
(* Properties                                                              *)

\* What a callback has acted on is in the store, under its id, whatever
\* crash or other thread intervenes: a replay after a restart finds it.
HandledIsStored == \A e \in heard : file[idOf[e]] = e

\* Each callback handles events one at a time and all of them in the same
\* order, however unevenly the pools run.
SameOrder ==
    \A s, t \in Subs : \A i, j \in DOMAIN seen[s] : \A k, l \in DOMAIN seen[t] :
        (i < j /\ seen[s][i] = seen[t][l] /\ seen[s][j] = seen[t][k]) => k > l

\* stream.py:201: a page is a copy of the events it covers or it is absent:
\* search_events (pages first) and get_event (files) do not disagree.
PagesAgree ==
    \A start \in {i \in Ids : i % CacheSize = 0} : \A j \in DOMAIN pages[start] :
        file[start + j - 1] \in {0, pages[start][j]}

\* stream.py:262 and :268: each event goes to each callback, also when a
\* callback is removed meanwhile: those that stay still hear it.
StayingHear ==
    \A e \in Events, s \in Subs :
        e \in Elements(queue) ~> e \in Elements(seen[s]) \/ pool[s] # "open" \/ stop
=============================================================================
