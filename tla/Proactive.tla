------------------------------- MODULE Proactive -------------------------------
(***************************************************************************)
(* OpenHands' comment on a pull request whose GitHub workflows fail        *)
(* (enterprise/integrations/github/github_view.py,                         *)
(* enterprise/storage/proactive_conversation_store.py): each workflow that *)
(* ends sends a webhook, servers collect them in a row of the database,    *)
(* and the last one comments.  One commit of one pull request; GitHub      *)
(* itself is external.                                                     *)
(***************************************************************************)
EXTENDS Integers, FiniteSets, Sequences, Functions

CONSTANTS
    Workflows,
    Overlap,             \* may two webhooks look before either has made the row?
    MaxFails, MaxCleans  \* bounds

ProactiveAssumption ==
    /\ IsFiniteSet(Workflows) /\ Overlap \in BOOLEAN
    /\ MaxFails \in Nat /\ MaxCleans \in Nat

VARIABLES
    real,      \* at GitHub: the workflows of the commit and how they stand
    latest,    \* is the commit the head of the pull request?
    rows,      \* of the table; equal ones count as one, for updates reach all of them
    lock,      \* the handlers that hold the rows
    pc, found, \* of the handler of each workflow's webhook: where it is, the runs it read
    comments,  \* the groups that were commented on
    fails, cleans

vars == <<real, latest, rows, lock, pc, found, comments, fails, cleans>>

Status == {"pending", "failure", "completed"}
Groups == UNION {[W -> Status] : W \in SUBSET Workflows}
NoRuns == [w \in {} |-> "pending"]

ProactiveTypeOK ==
    /\ real \in Groups /\ latest \in BOOLEAN
    /\ rows \subseteq [runs : Groups, sent : BOOLEAN] /\ lock \in SUBSET Workflows
    /\ pc \in [Workflows -> {"none", "sent", "lookup", "fetch", "store", "comment",
                             "skipped", "failed", "done"}]
    /\ found \in [Workflows -> Groups]
    /\ comments \in Seq(Groups) /\ fails \in 0..MaxFails /\ cleans \in 0..MaxCleans

Init ==
    /\ real = NoRuns /\ latest = TRUE /\ rows = {} /\ lock = {}
    /\ pc = [w \in Workflows |-> "none"] /\ found = [w \in Workflows |-> NoRuns]
    /\ comments = <<>> /\ fails = 0 /\ cleans = 0

With(group, w, st) == [v \in DOMAIN group \cup {w} |-> IF v = w THEN st ELSE group[v]]
NonePending(group) == \A w \in DOMAIN group : group[w] # "pending"
Failing(group) == \E w \in DOMAIN group : group[w] = "failure"

-----------------------------------------------------------------------------
(* GitHub                                                                  *)

Queue(w) ==
    /\ w \notin DOMAIN real /\ real' = With(real, w, "pending")
    /\ UNCHANGED <<latest, rows, lock, pc, found, comments, fails, cleans>>

Finish(w) ==
    /\ w \in DOMAIN real /\ real[w] = "pending"
    /\ \E st \in {"failure", "completed"} : real' = [real EXCEPT ![w] = st]
    /\ pc' = [pc EXCEPT ![w] = "sent"]
    /\ UNCHANGED <<latest, rows, lock, found, comments, fails, cleans>>

Push ==
    /\ latest /\ latest' = FALSE
    /\ UNCHANGED <<real, rows, lock, pc, found, comments, fails, cleans>>

-----------------------------------------------------------------------------
(* trigger_conversation_starter, for the webhook of workflow w             *)

To(w, step) == pc' = [pc EXCEPT ![w] = step]

\* The user may have turned it off, or no pull request is open; another commit is ignored.
Trigger(w) ==
    /\ pc[w] = "sent" /\ (To(w, "skipped") \/ (latest /\ To(w, "lookup")))
    /\ UNCHANGED <<real, latest, rows, lock, found, comments, fails, cleans>>

NoLocks == TRUE
\* FOR UPDATE waits for who holds the rows.
Locks == lock = {}
LooksFirst == \E v \in Workflows : pc[v] \in {"fetch", "store"} /\ v \notin lock

FindNone(w) ==
    /\ pc[w] = "lookup" /\ rows = {} /\ (Overlap \/ ~LooksFirst) /\ To(w, "fetch")
    /\ UNCHANGED <<real, latest, rows, lock, found, comments, fails, cleans>>

Find(w) ==
    /\ pc[w] = "lookup" /\ Locks
    /\ \E row \in rows :
         IF row.sent THEN To(w, "done") /\ UNCHANGED <<lock, found>>
         ELSE To(w, "store") /\ lock' = lock \cup {w} /\ found' = [found EXCEPT ![w] = row.runs]
    /\ UNCHANGED <<real, latest, rows, comments, fails, cleans>>

\* get_all_workflows
Fetch(w) ==
    /\ pc[w] = "fetch" /\ To(w, "store") /\ found' = [found EXCEPT ![w] = real]
    /\ UNCHANGED <<real, latest, rows, lock, comments, fails, cleans>>

AnyFailure(group) == Failing(group)
ShouldSend(group) == NonePending(group) /\ Failing(group)

\* The update reaches every row of the commit, also one made meanwhile by another.
Store(w) ==
    /\ pc[w] = "store"
    /\ LET group == With(found[w], w, real[w])
           row == [runs |-> group, sent |-> ShouldSend(group)] IN
       /\ rows' = IF w \in lock THEN {row} ELSE rows \cup {row}
       /\ To(w, IF row.sent THEN "comment" ELSE "done")
       /\ found' = [found EXCEPT ![w] = IF row.sent THEN group ELSE NoRuns]
    /\ lock' = lock \ {w}
    /\ UNCHANGED <<real, latest, comments, fails, cleans>>

\* leave_requesting_comment
Comment(w) ==
    /\ pc[w] = "comment" /\ To(w, "done") /\ comments' = Append(comments, found[w])
    /\ found' = [found EXCEPT ![w] = NoRuns]
    /\ UNCHANGED <<real, latest, rows, lock, fails, cleans>>

\* A call to GitHub fails, or the server dies: the transaction is rolled back.
Fail(w) ==
    /\ pc[w] \in {"sent", "lookup", "fetch", "store", "comment"} /\ fails < MaxFails
    /\ fails' = fails + 1 /\ To(w, "failed") /\ lock' = lock \ {w}
    /\ found' = [found EXCEPT ![w] = NoRuns]
    /\ UNCHANGED <<real, latest, rows, comments, cleans>>

\* clean_old_convos: last_updated_at is the time when a row was made.
Clean ==
    /\ rows # {} /\ Locks /\ cleans < MaxCleans /\ cleans' = cleans + 1 /\ rows' = {}
    /\ UNCHANGED <<real, latest, lock, pc, found, comments, fails>>

Next ==
    \/ Push \/ Clean
    \/ \E w \in Workflows :
         \/ Queue(w) \/ Finish(w) \/ Trigger(w) \/ FindNone(w) \/ Find(w) \/ Fetch(w)
         \/ Store(w) \/ Comment(w) \/ Fail(w)

Spec == Init /\ [][Next]_vars

-----------------------------------------------------------------------------
(* Properties                                                              *)

\* Webhooks that overlap lose nothing: a row has the end of every workflow whose webhook
\* was stored, and whatever else it has as ended has ended so.
RowsKeepUp ==
    \A row \in rows :
        /\ \A w \in Workflows : pc[w] \in {"comment", "done"} /\ ~row.sent =>
               w \in DOMAIN row.runs /\ row.runs[w] = real[w]
        /\ \A w \in DOMAIN row.runs : row.runs[w] \in {"pending", real[w]}

\* However many webhooks end together, there is one comment, and every workflow it had to
\* tell of has ended as it says.
CommentOnce ==
    /\ Len(comments) + Cardinality({w \in Workflows : pc[w] = "comment"}) <= 1
    /\ \A c \in Range(comments) :
           Failing(c) /\ \A w \in DOMAIN c : c[w] # "pending" /\ c[w] = real[w]

\* When every webhook was handled and a workflow failed, there is a comment.
NothingMissed ==
    (\A w \in Workflows : pc[w] = "done") /\ Failing(real) => comments # <<>>

-----------------------------------------------------------------------------
(* What the code does not keep                                             *)

\* "Interaction is complete, do not duplicate event" (proactive_conversation_store.py:73):
\* CommentOnce with Overlap, where no row can be locked before there is one, and with
\* MaxCleans > 0, where the row is removed 30 minutes after it was made.

\* A group that is marked as sent is commented on: not when the comment fails.
MarkedIsCommented ==
    (\E row \in rows : row.sent) => comments # <<>> \/ \E w \in Workflows : pc[w] = "comment"
=============================================================================
