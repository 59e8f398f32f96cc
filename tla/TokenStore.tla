------------------------------- MODULE TokenStore -------------------------------
(***************************************************************************)
(* The tokens of one user at one identity provider, as the servers of      *)
(* OpenHands share them (enterprise/storage/auth_token_store.py and its    *)
(* use in enterprise/server/auth/token_manager.py).  A provider accepts a  *)
(* refresh token once; a transaction keeps the row locked while it         *)
(* refreshes.  A token is the number in which it was issued.               *)
(***************************************************************************)
EXTENDS Integers, FiniteSets

CONSTANTS
    Requests, Logins,  \* what asks for a token, and what stores those of a login
    NoOne,
    MaxTokens, MaxLost \* bounds: tokens that are issued, answers lost for each

TokenAssumption ==
    /\ IsFiniteSet(Requests) /\ IsFiniteSet(Logins) /\ Requests \cap Logins = {}
    /\ NoOne \notin Requests /\ MaxTokens \in Nat \ {0} /\ MaxLost \in Nat

VARIABLES
    row,        \* refresh token of the row, 0 without one, and is the access token stale?
    lock,       \* the transaction that has the row locked
    pc,         \* where a request or a login stands
    issued,     \* refresh tokens that the provider issued
    presented,  \* how often each was presented to it
    lost        \* and how often its answer was lost

vars == <<row, lock, pc, issued, presented, lost>>

TokenTypeOK ==
    /\ row \in [token : 0..MaxTokens, stale : BOOLEAN] /\ row.token <= issued
    /\ lock \in Requests \cup {NoOne} /\ issued \in 0..MaxTokens
    /\ pc \in [Requests \cup Logins -> {"idle", "refresh", "answer", "insert", "update"}]
    /\ presented \in [1..MaxTokens -> Nat] /\ lost \in [1..MaxTokens -> 0..MaxLost]

Init ==
    /\ row = [token |-> 0, stale |-> FALSE] /\ lock = NoOne
    /\ pc = [a \in Requests \cup Logins |-> "idle"]
    /\ issued = 0 /\ presented = [t \in 1..MaxTokens |-> 0] /\ lost = presented

Goes(a, where) == pc' = [pc EXCEPT ![a] = where]

\* A new token goes into the row.
Issue == issued < MaxTokens /\ issued' = issued + 1
New == [token |-> issued + 1, stale |-> FALSE]

\* Ten minutes before its end an access token counts as expired.
Expire ==
    /\ row.token # 0 /\ row' = [row EXCEPT !.stale = TRUE]
    /\ UNCHANGED <<lock, pc, issued, presented, lost>>

-----------------------------------------------------------------------------
(* load_tokens with _check_expiration_and_refresh                          *)

\* The select is FOR UPDATE: it waits for the transaction that has the row.
Unlocked == TRUE
IsFree == lock = NoOne

\* A token that is not expired is returned, and the transaction ends.
Load(r) ==
    /\ pc[r] = "idle" /\ row.token # 0 /\ row.stale /\ IsFree
    /\ lock' = r /\ Goes(r, "refresh")
    /\ UNCHANGED <<row, issued, presented, lost>>

\* _refresh_token, with the refresh token that was read.
Present(r) ==
    /\ pc[r] = "refresh" /\ Goes(r, "answer")
    /\ presented' = [presented EXCEPT ![row.token] = @ + 1]
    /\ UNCHANGED <<row, lock, issued, lost>>

Answer(r) ==
    /\ pc[r] = "answer" /\ Issue /\ row' = New
    /\ lock' = NoOne /\ Goes(r, "idle")
    /\ UNCHANGED <<presented, lost>>

\* The refresh raises before the provider took the token, or is not tried because the
\* refresh token has expired too: the transaction rolls back.
Refused(r) ==
    /\ pc[r] = "refresh" /\ lock' = NoOne /\ Goes(r, "idle")
    /\ UNCHANGED <<row, issued, presented, lost>>

\* The provider took it and its answer is lost, or the server dies: rolled back as well.
AnswerLost(r) ==
    /\ pc[r] = "answer" /\ lost[row.token] < MaxLost
    /\ lost' = [lost EXCEPT ![row.token] = @ + 1]
    /\ lock' = NoOne /\ Goes(r, "idle")
    /\ UNCHANGED <<row, issued, presented>>

-----------------------------------------------------------------------------
(* store_tokens                                                            *)

Select(l) ==
    /\ pc[l] = "idle" /\ Goes(l, IF row.token = 0 THEN "insert" ELSE "update")
    /\ UNCHANGED <<row, lock, issued, presented, lost>>

\* The update waits for the row.
Update(l) ==
    /\ pc[l] = "update" /\ IsFree /\ Issue /\ row' = New /\ Goes(l, "idle")
    /\ UNCHANGED <<lock, presented, lost>>

\* The index on user and provider is unique: a second insert raises.
Insert(l) ==
    /\ pc[l] = "insert" /\ Goes(l, "idle")
    /\ IF row.token = 0 THEN Issue /\ row' = New ELSE UNCHANGED <<row, issued>>
    /\ UNCHANGED <<lock, presented, lost>>

Next ==
    \/ Expire
    \/ \E r \in Requests : Load(r) \/ Present(r) \/ Answer(r) \/ Refused(r) \/ AnswerLost(r)
    \/ \E l \in Logins : Select(l) \/ Update(l) \/ Insert(l)

Spec == Init /\ [][Next]_vars

-----------------------------------------------------------------------------
(* Properties                                                              *)

\* However requests and logins overlap, a refresh token is presented again only when the
\* answer to it was lost; and the row holds one that can still be presented, unless a
\* refresh is under way or its answer was lost.
RefreshedOnce ==
    /\ \A t \in 1..MaxTokens : presented[t] <= 1 + lost[t]
    /\ row.token # 0 /\ presented[row.token] > lost[row.token] => lock # NoOne

-----------------------------------------------------------------------------
(* What the code does not keep                                             *)

\* auth_token_store.py:83: "ensuring that only one refresh call occurs per refresh
\* token".  A refresh whose answer is lost is rolled back, and the next request presents
\* the token again.
OneRefreshEach == \A t \in 1..MaxTokens : presented[t] <= 1
=============================================================================
