-------------------------------- MODULE WebHook --------------------------------
(***************************************************************************)
(* The file store of OpenHands that reports updates to a webhook in        *)
(* batches (openhands/storage/batched_web_hook.py): writers, the timer     *)
(* thread and the executor meet at one lock.  Contents are the number of   *)
(* the write and a size; a deletion has size 0.                            *)
(***************************************************************************)
EXTENDS Integers, FiniteSets, FiniteSetsExt, Functions

CONSTANTS
    Paths, Writers,
    Targets,             \* the paths that each writer writes
    Sizes, Limit,        \* sizes of contents, and the size at which a batch is sent
    Attempts,            \* tries of a request
    MaxWrites, MaxFlushes, MaxFailures \* bounds

WebHookAssumption ==
    /\ IsFiniteSet(Paths) /\ IsFiniteSet(Writers) /\ Targets \in [Writers -> SUBSET Paths]
    /\ Sizes \subseteq Nat /\ Limit \in Nat \ {0} /\ Attempts \in Nat \ {0}
    /\ MaxWrites \in Nat /\ MaxFlushes \in Nat /\ MaxFailures \in Nat

VARIABLES
    store,     \* number of the write that each path holds
    pending,   \* what a writer has stored and not queued: updates, at most one each
    batch,     \* path -> update
    bytes,     \* _batch_size
    timer,     \* the timer that _batch_timer names
    waiting,   \* timers that have fired and wait for the lock
    held,      \* the batch that flush sends while it holds the lock
    sending,   \* batches that the executor sends, with the tries left
    hook,      \* number of the update that the webhook applied last, for each path
    arrived,   \* numbers of the updates that it applied
    latest,    \* number of the update that was queued last
    dropped,   \* numbers of the updates that were given up
    used       \* writes, flushes and failures so far

vars == <<store, pending, batch, bytes, timer, waiting, held, sending, hook, arrived,
          latest, dropped, used>>

Updates == [n : 1..MaxWrites, size : Sizes \cup {0}]
Batches == UNION {[S -> Updates] : S \in SUBSET Paths}
Empty == [p \in {} |-> 0]
NoSend == [batch |-> Empty, left |-> 0]

WebHookTypeOK ==
    /\ store \in [Paths -> 0..MaxWrites] /\ hook \in [Paths -> 0..MaxWrites]
    /\ latest \in [Paths -> 0..MaxWrites] /\ dropped \cup arrived \subseteq 1..MaxWrites
    /\ \A w \in DOMAIN pending : pending[w].path \in Targets[w] /\ pending[w].update \in Updates
    /\ DOMAIN pending \subseteq Writers
    /\ batch \in Batches /\ bytes \in Nat /\ timer \in {"none", "armed", "fired"}
    /\ waiting \in 0..MaxWrites /\ held.batch \in Batches /\ held.left \in 0..Attempts
    /\ \A s \in sending : s.batch \in Batches /\ s.left \in 1..Attempts
    /\ used.writes <= MaxWrites /\ used.flushes <= MaxFlushes /\ used.failures <= MaxFailures

Init ==
    /\ store = [p \in Paths |-> 0] /\ hook = store /\ latest = store
    /\ pending = [w \in {} |-> 0] /\ batch = Empty /\ bytes = 0
    /\ timer = "none" /\ waiting = 0 /\ held = NoSend /\ sending = {} /\ dropped = {}
    /\ arrived = {}
    /\ used = [writes |-> 0, flushes |-> 0, failures |-> 0]

LockFree == held = NoSend

-----------------------------------------------------------------------------
(* Writers                                                                 *)

\* write and delete: the file store first, outside the lock.
Write(w, p, size) ==
    /\ w \notin DOMAIN pending /\ used.writes < MaxWrites
    /\ used' = [used EXCEPT !.writes = @ + 1]
    /\ LET n == used.writes + 1 IN
       /\ store' = [store EXCEPT ![p] = n]
       /\ pending' = [v \in DOMAIN pending \cup {w} |->
                        IF v = w THEN [path |-> p, update |-> [n |-> n, size |-> size]]
                                 ELSE pending[v]]
    /\ UNCHANGED <<batch, bytes, timer, waiting, held, sending, hook, arrived, latest, dropped>>

\* An update replaces the one that the batch has for its path, and its size.
Added(p, u) == [q \in DOMAIN batch \cup {p} |-> IF q = p THEN u ELSE batch[q]]
Forgets(p) == 0
Previous(p) == IF p \in DOMAIN batch THEN batch[p].size ELSE 0

\* _enqueue_batch_from_lock with the executor: the batch starts anew and the timer is
\* cancelled; one that has fired already is not stopped by that.  _send_batch ignores
\* an empty batch.
EnqueueBatch(b) ==
    /\ batch' = Empty /\ bytes' = 0 /\ timer' = "none"
    /\ sending' = IF b = Empty THEN sending
                  ELSE sending \cup {[batch |-> b, left |-> Attempts]}

KeepsTimer == timer
Rearmed == "armed"

\* _queue_update
QueueUpdate(w) ==
    /\ w \in DOMAIN pending /\ LockFree
    /\ LET p == pending[w].path
           u == pending[w].update
           total == bytes - Previous(p) + u.size IN
       /\ latest' = [latest EXCEPT ![p] = u.n]
       /\ IF total >= Limit
          THEN EnqueueBatch(Added(p, u))
          ELSE /\ batch' = Added(p, u) /\ bytes' = total /\ timer' = Rearmed
               /\ UNCHANGED sending
    /\ pending' = Restrict(pending, DOMAIN pending \ {w})
    /\ UNCHANGED <<store, waiting, held, hook, arrived, dropped, used>>

-----------------------------------------------------------------------------
(* The timer                                                               *)

Fire ==
    /\ timer = "armed" /\ timer' = "fired" /\ waiting' = waiting + 1
    /\ UNCHANGED <<store, pending, batch, bytes, held, sending, hook, arrived, latest, dropped, used>>

\* _enqueue_batch_from_timer: whichever timer it is, the whole batch goes.
EnqueueFromTimer ==
    /\ waiting > 0 /\ LockFree /\ waiting' = waiting - 1
    /\ EnqueueBatch(batch)
    /\ UNCHANGED <<store, pending, held, hook, arrived, latest, dropped, used>>

-----------------------------------------------------------------------------
(* Sending                                                                 *)

\* flush sends the batch itself, with the lock.
Flush ==
    /\ LockFree /\ used.flushes < MaxFlushes
    /\ used' = [used EXCEPT !.flushes = @ + 1]
    /\ batch' = Empty /\ bytes' = 0
    /\ IF batch = Empty THEN timer' = "none" /\ UNCHANGED held
       ELSE held' = [batch |-> batch, left |-> Attempts] /\ UNCHANGED timer
    /\ UNCHANGED <<store, pending, waiting, sending, hook, arrived, latest, dropped>>

Numbers(b) == {b[p].n : p \in DOMAIN b}
Apply(b) ==
    /\ hook' = [p \in Paths |-> IF p \in DOMAIN b THEN b[p].n ELSE hook[p]]
    /\ arrived' = arrived \cup Numbers(b)

\* The end of a request in the executor, or of the one for which flush has the lock.
Done(s) ==
    IF s = held THEN held' = NoSend /\ timer' = "none" /\ UNCHANGED sending
                ELSE sending' = sending \ {s} /\ UNCHANGED <<held, timer>>

Sends == sending \cup (IF LockFree THEN {} ELSE {held})

\* _send_batch_request: the webhook applies the batch and answers.
Deliver(s) ==
    /\ s \in Sends /\ Apply(s.batch) /\ Done(s)
    /\ UNCHANGED <<store, pending, batch, bytes, waiting, latest, dropped, used>>

\* What is left to do after an attempt failed: the next one, or to log the error.
Retry(s) ==
    LET t == [s EXCEPT !.left = @ - 1] IN
    /\ IF s = held THEN held' = t /\ UNCHANGED sending
                   ELSE sending' = (sending \ {s}) \cup {t} /\ UNCHANGED held
    /\ UNCHANGED <<timer, dropped>>
GivesUpSilently(s) == Done(s) /\ UNCHANGED dropped
GiveUp(s) == Done(s) /\ dropped' = dropped \cup Numbers(s.batch)

\* An attempt fails before the webhook applied the batch, or after.
Fail(s) ==
    /\ s \in Sends /\ used.failures < MaxFailures
    /\ used' = [used EXCEPT !.failures = @ + 1]
    /\ Apply(s.batch) \/ UNCHANGED <<hook, arrived>>
    /\ IF s.left > 1 THEN Retry(s) ELSE GiveUp(s)
    /\ UNCHANGED <<store, pending, batch, bytes, waiting, latest>>

Next ==
    \/ \E w \in Writers : \E p \in Targets[w], size \in Sizes \cup {0} : Write(w, p, size)
    \/ \E w \in Writers : QueueUpdate(w)
    \/ Fire \/ EnqueueFromTimer \/ Flush
    \/ \E s \in Sends : Deliver(s) \/ Fail(s)

Spec == Init /\ [][Next]_vars

\* The timer and the executor run; the webhook or its failures end each attempt.
Fairness ==
    /\ WF_vars(\E w \in Writers : QueueUpdate(w)) /\ WF_vars(Fire) /\ WF_vars(EnqueueFromTimer)
    /\ WF_vars(\E s \in Sends : Deliver(s) \/ Fail(s))

-----------------------------------------------------------------------------
(* Properties                                                              *)

\* The size of the batch stays that of its contents, through replaced updates and
\* batches that are taken away: neither is a batch sent late nor too early.
BytesRight == bytes = MapThenSumSet(LAMBDA p : batch[p].size, DOMAIN batch)

\* However writers, timers that fire late, and flushes meet, a batch that is not empty
\* has a timer that will send it.
PendingTimed == LockFree /\ batch # Empty => timer = "armed" \/ waiting > 0

\* The last update of each path is in the batch, under way, with the webhook, or was
\* given up after the last attempt; and what was queued last is what the store holds,
\* unless a writer is between the two, when each path has one writer.
InBatches(p, n) ==
    \E b \in {batch} \cup {s.batch : s \in Sends} : p \in DOMAIN b /\ b[p].n = n
NothingForgotten ==
    \A p \in Paths :
        /\ latest[p] = 0 \/ InBatches(p, latest[p]) \/ latest[p] \in dropped \cup arrived
        /\ (\A w \in DOMAIN pending : pending[w].path # p) => latest[p] = store[p]

\* What is queued leaves the batch, and what is sent ends.
BatchesEnd == (batch # Empty \/ sending # {}) ~> (batch = Empty /\ sending = {})

-----------------------------------------------------------------------------
(* What the code does not keep                                             *)

\* The webhook ends with what the store holds.  Batches are sent by a pool of threads,
\* so an older one can arrive after a newer one, and a retry can repeat it.
LastWordStays ==
    batch = Empty /\ Sends = {} /\ pending = [w \in {} |-> 0] /\ dropped = {} => hook = store
=============================================================================
