----------------------------- MODULE SharedProofs -----------------------------
(***************************************************************************)
(* Proofs about what servers, processes and requests of OpenHands share.   *)
(***************************************************************************)
EXTENDS MCOpenHands, FiniteSetTheorems, SequenceTheorems, TLAPS

\* A module that is an instance has FiniteSets of its own.
LEMMA AttachCardinality ==
    /\ \A S : Connected!Cardinality(S) = Cardinality(S)
    /\ \A S : Connected!IsFiniteSet(S) <=> IsFiniteSet(S)
<1>1. \A S : Connected!Cardinality(S) = Cardinality(S)
  BY DEF Connected!Cardinality, Cardinality
<1>2. \A S : Connected!IsFiniteSet(S) <=> IsFiniteSet(S)
  BY Zenon DEF Connected!IsFiniteSet, IsFiniteSet
<1> QED
  BY <1>1, <1>2

\* Counting a set with one element more, and one less.
LEMMA OneMore ==
    ASSUME NEW S, IsFiniteSet(S), NEW x
    PROVE  /\ IsFiniteSet(S \cup {x})
           /\ x \notin S => Cardinality(S \cup {x}) = Cardinality(S) + 1
BY FS_AddElement

LEMMA OneLess ==
    ASSUME NEW S, IsFiniteSet(S), NEW x \in S
    PROVE  /\ IsFiniteSet(S \ {x}) /\ Cardinality(S \ {x}) = Cardinality(S) - 1
           /\ Cardinality(S) \in Nat \ {0}
<1>1. Cardinality(S) \in Nat /\ IsFiniteSet(S \ {x}) /\ Cardinality(S \ {x}) = Cardinality(S) - 1
  BY FS_CardinalityType, FS_RemoveElement
<1>2. Cardinality(S) # 0
  BY FS_EmptySet
<1> QED
  BY <1>1, <1>2

-----------------------------------------------------------------------------
(* A conversation on a cluster.                                            *)

ClusterTasks == {"listen", "stopped", "cleanup", "request"}
ClusterSteps == {"idle", "key", "start", "own", "enter", "disconnect", "delete", "publish",
                 "close", "wait", "scan"}
ClusterShape ==
    /\ key \in BOOLEAN
    /\ clusterLoop \in [ClusterServers -> BOOLEAN]
    /\ clusterTask \in [ClusterServers -> [ClusterTasks -> ClusterSteps]]

\* A coroutine that starts the loop, or took it from the table and has the key to delete.
Acts(s, t) == clusterTask[s][t] \in {"start", "own", "delete"}

\* Whoever has the loop or acts on it is alone, and has the key.
OneClaim ==
    /\ \A s, o \in ClusterServers : clusterLoop[s] /\ clusterLoop[o] => s = o
    /\ \A s, o \in ClusterServers, t \in ClusterTasks : clusterLoop[s] => ~Acts(o, t)
    /\ \A s, o \in ClusterServers, t, u \in ClusterTasks : Acts(s, t) /\ Acts(o, u) => s = o /\ t = u
    /\ \A s \in ClusterServers : clusterLoop[s] => key
    /\ \A s \in ClusterServers, t \in ClusterTasks : Acts(s, t) => key

ClusterInv == ClusterShape /\ OneClaim

LEMMA ClusterInit ==
    ASSUME NEW crowded \in BOOLEAN, Cluster(crowded)!Init
    PROVE  ClusterInv
BY DEF Cluster!Init, Cluster!Nowhere, Cluster!Tasks, ClusterInv, ClusterShape, OneClaim, Acts,
       ClusterTasks, ClusterSteps

\* A step that starts nothing and takes nothing from the table.
LEMMA NoNewClaim ==
    ASSUME ClusterInv, ClusterShape', key => key',
           \A s \in ClusterServers : clusterLoop'[s] => clusterLoop[s],
           \A s \in ClusterServers, t \in ClusterTasks : Acts(s, t)' => Acts(s, t)
    PROVE  ClusterInv'
BY DEF ClusterInv, OneClaim, Acts

LEMMA ClusterGoes ==
    ASSUME ClusterShape, NEW crowded \in BOOLEAN, NEW s \in ClusterServers,
           NEW t \in ClusterTasks, NEW step \in ClusterSteps, Cluster(crowded)!Goes(s, t, step)
    PROVE  /\ clusterTask' \in [ClusterServers -> [ClusterTasks -> ClusterSteps]]
           /\ clusterTask'[s][t] = step
           /\ \A o \in ClusterServers, u \in ClusterTasks :
                  o # s \/ u # t => clusterTask'[o][u] = clusterTask[o][u]
BY DEF Cluster!Goes, ClusterShape

\* A coroutine goes on to what is no claim.
LEMMA GoesOnWithout ==
    ASSUME ClusterInv, NEW crowded \in BOOLEAN, NEW s \in ClusterServers,
           NEW t \in ClusterTasks, NEW step \in ClusterSteps \ {"start", "own", "delete"},
           Cluster(crowded)!Goes(s, t, step), UNCHANGED <<key, clusterLoop>>
    PROVE  ClusterInv'
<1>1. ClusterShape'
  BY ClusterGoes DEF ClusterInv, ClusterShape
<1>2. \A o \in ClusterServers, u \in ClusterTasks : Acts(o, u)' => Acts(o, u)
  BY ClusterGoes DEF ClusterInv, Acts
<1> QED
  BY <1>1, <1>2, NoNewClaim

LEMMA ClusterStep ==
    ASSUME NEW crowded \in BOOLEAN, ClusterInv, [Cluster(crowded)!Next]_clusterVars
    PROVE  ClusterInv'
<1>1. CASE UNCHANGED clusterVars
  BY <1>1 DEF clusterVars, ClusterInv, ClusterShape, OneClaim, Acts
<1>2. ASSUME NEW s \in ClusterServers, NEW t \in ClusterTasks, Cluster(crowded)!TryKey(s, t)
      PROVE  ClusterInv'
  <2>1. CASE key
    BY <1>2, <2>1, GoesOnWithout DEF Cluster!TryKey, Cluster!IsFree, ClusterSteps
  <2>2. CASE ~key
    <3>1. Cluster(crowded)!Goes(s, t, "start") /\ key' /\ UNCHANGED clusterLoop
      BY <1>2, <2>2 DEF Cluster!TryKey, Cluster!IsFree
    <3>2. ClusterShape'
      BY <3>1, ClusterGoes DEF ClusterInv, ClusterShape, ClusterSteps
    <3>3. /\ \A o \in ClusterServers : ~clusterLoop'[o]
          /\ \A o \in ClusterServers, u \in ClusterTasks : Acts(o, u)' => o = s /\ u = t
      BY <2>2, <3>1, ClusterGoes DEF ClusterInv, OneClaim, Acts, ClusterSteps
    <3> QED
      BY <3>1, <3>2, <3>3 DEF ClusterInv, OneClaim, Acts
  <2> QED
    BY <2>1, <2>2
\* The starting coroutine hands its claim to the loop, or the failed start drops it.
<1>3. ASSUME NEW s \in ClusterServers, NEW t \in ClusterTasks, Cluster(crowded)!Start(s, t)
      PROVE  ClusterInv'
  <2>1. Acts(s, t) /\ Cluster(crowded)!Goes(s, t, "idle") /\ UNCHANGED key
    BY <1>3 DEF Cluster!Start, Cluster!At, Acts
  <2>2. CASE UNCHANGED clusterLoop
    BY <2>1, <2>2, GoesOnWithout DEF ClusterSteps
  <2>3. CASE clusterLoop' = [clusterLoop EXCEPT ![s] = TRUE]
    <3>1. ClusterShape'
      BY <2>1, <2>3, ClusterGoes DEF ClusterInv, ClusterShape, ClusterSteps
    <3>2. /\ \A o \in ClusterServers, u \in ClusterTasks : ~(Acts(o, u)')
          /\ key'
      BY <2>1, ClusterGoes DEF ClusterInv, OneClaim, Acts, ClusterSteps
    <3>3. \A o \in ClusterServers : clusterLoop'[o] => o = s
      BY <2>1, <2>3 DEF ClusterInv, ClusterShape, OneClaim
    <3> QED
      BY <3>1, <3>2, <3>3 DEF ClusterInv, OneClaim, Acts
  <2> QED
    BY <1>3, <2>2, <2>3 DEF Cluster!Start
<1>4. ASSUME NEW s \in ClusterServers, NEW t \in ClusterTasks, Cluster(crowded)!CloseOldest(s, t)
      PROVE  ClusterInv'
  <2>1. /\ Acts(s, t) /\ Cluster(crowded)!Goes(s, t, "own") /\ UNCHANGED <<key, clusterLoop>>
    BY <1>4 DEF Cluster!CloseOldest, Cluster!At, Acts
  <2>2. ClusterShape'
    BY <2>1, ClusterGoes DEF ClusterInv, ClusterShape, ClusterSteps
  <2>3. \A o \in ClusterServers, u \in ClusterTasks : Acts(o, u)' => Acts(o, u)
    BY <2>1, ClusterGoes DEF ClusterInv, Acts, ClusterSteps
  <2> QED
    BY <2>1, <2>2, <2>3, NoNewClaim
<1>5. ASSUME NEW s \in ClusterServers, NEW t \in ClusterTasks, Cluster(crowded)!Restart(s, t)
      PROVE  ClusterInv'
  BY <1>5, GoesOnWithout DEF Cluster!Restart, ClusterSteps
\* The loop hands its claim to the coroutine that took it from the table.
<1>6. ASSUME NEW s \in ClusterServers, NEW t \in ClusterTasks, UNCHANGED key,
             Cluster(crowded)!Goes(s, t, Cluster(crowded)!AfterTake(s)),
             clusterLoop' = [clusterLoop EXCEPT ![s] = FALSE]
      PROVE  ClusterInv'
  <2>1. CASE clusterLoop[s]
    <3>1. Cluster(crowded)!Goes(s, t, "delete")
      BY <1>6, <2>1 DEF Cluster!AfterTake
    <3>2. ClusterShape'
      BY <1>6, <3>1, ClusterGoes DEF ClusterInv, ClusterShape, ClusterSteps
    <3>3. /\ \A o \in ClusterServers, u \in ClusterTasks : Acts(o, u)' => o = s /\ u = t
          /\ key'
      BY <1>6, <2>1, <3>1, ClusterGoes DEF ClusterInv, OneClaim, Acts, ClusterSteps
    <3>4. \A o \in ClusterServers : ~clusterLoop'[o]
      BY <1>6, <2>1 DEF ClusterInv, ClusterShape, OneClaim
    <3> QED
      BY <3>2, <3>3, <3>4 DEF ClusterInv, OneClaim, Acts
  <2>2. CASE ~clusterLoop[s]
    <3>1. Cluster(crowded)!Goes(s, t, "idle") /\ UNCHANGED clusterLoop
      BY <1>6, <2>2 DEF Cluster!AfterTake, ClusterInv, ClusterShape
    <3> QED
      BY <1>6, <3>1, GoesOnWithout DEF ClusterSteps
  <2> QED
    BY <2>1, <2>2
<1>7. ASSUME NEW s \in ClusterServers, NEW t \in ClusterTasks, Cluster(crowded)!Enter(s, t)
      PROVE  ClusterInv'
  <2>1. CASE conn[s]
    BY <1>7, <2>1, GoesOnWithout DEF Cluster!Enter, ClusterSteps
  <2> QED
    BY <1>6, <1>7, <2>1 DEF Cluster!Enter
<1>8. ASSUME NEW s \in ClusterServers, NEW t \in ClusterTasks, Cluster(crowded)!Disconnect(s, t)
      PROVE  ClusterInv'
  BY <1>6, <1>8 DEF Cluster!Disconnect
\* Only who is alone deletes the key.
<1>9. ASSUME NEW s \in ClusterServers, NEW t \in ClusterTasks, Cluster(crowded)!DeleteKeys(s, t)
      PROVE  ClusterInv'
  <2>1. Acts(s, t) /\ Cluster(crowded)!Goes(s, t, "publish") /\ key' = FALSE /\ UNCHANGED clusterLoop
    BY <1>9 DEF Cluster!DeleteKeys, Cluster!At, Acts
  <2>2. ClusterShape'
    BY <2>1, ClusterGoes DEF ClusterInv, ClusterShape, ClusterSteps
  <2>3. /\ \A o \in ClusterServers, u \in ClusterTasks : ~(Acts(o, u)')
        /\ \A o \in ClusterServers : ~clusterLoop'[o]
    BY SMTT(20), <2>1, ClusterGoes DEF ClusterInv, OneClaim, Acts, ClusterSteps
  <2> QED
    BY <2>2, <2>3 DEF ClusterInv, OneClaim, Acts
<1>10. ASSUME NEW s \in ClusterServers, NEW t \in ClusterTasks,
              \/ Cluster(crowded)!PublishClosing(s, t) \/ Cluster(crowded)!CloseEnds(s, t)
       PROVE  ClusterInv'
  BY <1>10, GoesOnWithout DEF Cluster!PublishClosing, Cluster!CloseEnds, ClusterSteps
<1>11. ASSUME NEW s \in ClusterServers,
              \/ Cluster(crowded)!Listen(s) \/ Cluster(crowded)!NoticeStopped(s)
              \/ Cluster(crowded)!FindIdle(s) \/ Cluster(crowded)!CloseIdle(s)
       PROVE  ClusterInv'
  <2>1. {"listen", "stopped", "cleanup"} \subseteq ClusterTasks
    BY DEF ClusterTasks
  <2>2. \E t \in {"listen", "stopped", "cleanup"}, step \in {"enter", "wait", "idle", "scan"} :
            Cluster(crowded)!Goes(s, t, step) /\ UNCHANGED <<key, clusterLoop>>
    BY <1>11 DEF Cluster!Listen, Cluster!NoticeStopped, Cluster!FindIdle, Cluster!CloseIdle
  <2> QED
    BY <2>1, <2>2, GoesOnWithout DEF ClusterSteps
<1>12. ASSUME NEW s \in ClusterServers,
              \/ Cluster(crowded)!Join(s) \/ Cluster(crowded)!StartRequest(s)
              \/ Cluster(crowded)!CloseRequest(s)
       PROVE  ClusterInv'
  <2>1. \E step \in {"key", "enter"} :
            Cluster(crowded)!Goes(s, "request", step) /\ UNCHANGED <<key, clusterLoop>>
    BY <1>12 DEF Cluster!Join, Cluster!StartRequest, Cluster!CloseRequest
  <2> QED
    BY <2>1, GoesOnWithout DEF ClusterTasks, ClusterSteps
\* What a renewal that is late sets again keeps others away, and lets none in.
<1>13. ASSUME NEW s \in ClusterServers,
              \/ Cluster(crowded)!Renew(s) \/ Cluster(crowded)!Renewed(s)
              \/ Cluster(crowded)!ExpireConnection(s) \/ Cluster(crowded)!Leave(s)
       PROVE  ClusterInv'
  <2>1. /\ key => key'
        /\ UNCHANGED <<clusterLoop, clusterTask>>
    <3>1. CASE Cluster(crowded)!Renewed(s)
      BY <3>1 DEF Cluster!Renewed, ClusterInv, ClusterShape
    <3> QED
      BY <1>13, <3>1 DEF Cluster!Renew, Cluster!ExpireConnection, Cluster!Leave
  <2>2. key' \in BOOLEAN
    BY <1>13 DEF Cluster!Renew, Cluster!Renewed, Cluster!ExpireConnection, Cluster!Leave,
                 ClusterInv, ClusterShape
  <2> QED
    BY <2>1, <2>2, NoNewClaim DEF ClusterInv, ClusterShape, Acts
<1>14. ASSUME NEW s \in ClusterServers, Cluster(crowded)!Crash(s)
       PROVE  ClusterInv'
  <2>1. /\ clusterLoop' = [clusterLoop EXCEPT ![s] = FALSE]
        /\ clusterTask' = [clusterTask EXCEPT ![s] = [t \in ClusterTasks |-> "idle"]]
        /\ UNCHANGED key
    BY <1>14 DEF Cluster!Crash, Cluster!Tasks, ClusterTasks
  <2>2. ClusterShape'
    BY <2>1 DEF ClusterInv, ClusterShape, ClusterSteps
  <2>3. /\ \A o \in ClusterServers : clusterLoop'[o] => clusterLoop[o]
        /\ \A o \in ClusterServers, t \in ClusterTasks : Acts(o, t)' => Acts(o, t)
    BY <2>1 DEF ClusterInv, ClusterShape, Acts
  <2> QED
    BY <2>1, <2>2, <2>3, NoNewClaim
<1>15. CASE Cluster(crowded)!Expire
  <2>1. /\ UNCHANGED <<clusterLoop, clusterTask>> /\ key' = FALSE
        /\ \A s \in ClusterServers : ~clusterLoop[s] /\ \A t \in ClusterTasks : ~Acts(s, t)
    BY <1>15 DEF Cluster!Expire, Cluster!Renews, Cluster!Tasks, ClusterTasks, Acts
  <2> QED
    BY <2>1 DEF ClusterInv, ClusterShape, OneClaim, Acts
<1> QED
  BY <1>1, <1>2, <1>3, <1>4, <1>5, <1>7, <1>8, <1>9, <1>10, <1>11, <1>12, <1>13, <1>14, <1>15
     DEF Cluster!Next, Cluster!Proceeds, Cluster!Tasks, ClusterTasks

-----------------------------------------------------------------------------
(* The tokens of a user.                                                   *)

TokenShape ==
    /\ row \in [token : 0..MaxTokens, stale : BOOLEAN] /\ row.token <= issued
    /\ lock \in TokenRequests \cup {"none"}
    /\ issued \in 0..MaxTokens
    /\ tokenPc \in [TokenRequests \cup TokenLogins ->
                        {"idle", "refresh", "answer", "insert", "update"}]
    /\ presented \in [1..MaxTokens -> Nat] /\ lostAnswers \in [1..MaxTokens -> Nat]

\* The request that refreshes has the row locked, and there is a token in it.
RefreshIsLocked ==
    /\ \A r \in TokenRequests : tokenPc[r] \in {"refresh", "answer"} => lock = r
    /\ lock # "none" => row.token # 0 /\ tokenPc[lock] \in {"refresh", "answer"}

\* What was presented, and what was not yet issued.
PresentedOnce ==
    /\ \A t \in 1..MaxTokens : presented[t] <= 1 + lostAnswers[t]
    /\ \A t \in 1..MaxTokens : t > issued => presented[t] = 0
    /\ row.token # 0 /\ presented[row.token] > lostAnswers[row.token] =>
           lock # "none" /\ tokenPc[lock] = "answer"

TokenInv == TokenShape /\ RefreshIsLocked /\ PresentedOnce

LEMMA TokenConstants == "none" \notin TokenRequests /\ MaxTokens \in Nat \ {0}
BY InstancesAssumption DEF Tokens!TokenAssumption

LEMMA TokenInit ==
    ASSUME Tokens!Init
    PROVE  TokenInv
<1>1. TokenShape
  BY TokenConstants DEF Tokens!Init, TokenShape
<1> QED
  BY <1>1, TokenConstants DEF Tokens!Init, TokenInv, RefreshIsLocked, PresentedOnce

LEMMA TokenGoes ==
    ASSUME TokenShape, NEW a \in TokenRequests \cup TokenLogins,
           NEW step \in {"idle", "refresh", "answer", "insert", "update"}, Tokens!Goes(a, step)
    PROVE  /\ tokenPc' \in [TokenRequests \cup TokenLogins ->
                                {"idle", "refresh", "answer", "insert", "update"}]
           /\ tokenPc'[a] = step
           /\ \A b \in TokenRequests \cup TokenLogins : b # a => tokenPc'[b] = tokenPc[b]
BY DEF Tokens!Goes, TokenShape

\* A new token in the row was never presented.
LEMMA TokenIssued ==
    ASSUME TokenInv, Tokens!Issue, row' = Tokens!New
    PROVE  /\ row' \in [token : 0..MaxTokens, stale : BOOLEAN] /\ row'.token = issued'
           /\ issued' \in 1..MaxTokens /\ issued' = issued + 1
           /\ presented[row'.token] = 0
<1>1. issued \in 0..MaxTokens /\ issued < MaxTokens /\ issued' = issued + 1
  BY DEF TokenInv, TokenShape, Tokens!Issue
<1>2. row' = [token |-> issued + 1, stale |-> FALSE]
  BY DEF Tokens!New
<1> QED
  BY <1>1, <1>2, TokenConstants DEF TokenInv, TokenShape, PresentedOnce

LEMMA IssuedShape ==
    ASSUME TokenInv, Tokens!Issue, row' = Tokens!New
    PROVE  /\ row' \in [token : 0..MaxTokens, stale : BOOLEAN] /\ row'.token <= issued'
           /\ issued' \in 0..MaxTokens
<1>1. row' \in [token : 0..MaxTokens, stale : BOOLEAN] /\ row'.token = issued'
  BY TokenIssued
<1>2. issued' \in 1..MaxTokens
  BY TokenIssued
<1> QED
  BY <1>1, <1>2, TokenConstants

LEMMA IssuedOnce ==
    ASSUME TokenInv, Tokens!Issue, row' = Tokens!New, UNCHANGED <<presented, lostAnswers>>
    PROVE  PresentedOnce'
<1>1. /\ issued' \in 1..MaxTokens /\ issued' = issued + 1 /\ row'.token = issued'
      /\ presented[issued'] = 0 /\ issued \in Int
  BY TokenIssued, TokenConstants DEF TokenInv, TokenShape
<1>2. /\ \A t \in 1..MaxTokens : presented'[t] <= 1 + lostAnswers'[t]
      /\ \A t \in 1..MaxTokens : t > issued' => presented'[t] = 0
  BY <1>1, TokenConstants DEF TokenInv, PresentedOnce
<1>3. ~(presented'[row'.token] > lostAnswers'[row'.token])
  BY <1>1 DEF TokenInv, TokenShape
<1> QED
  BY <1>2, <1>3 DEF PresentedOnce

LEMMA TokenStep ==
    ASSUME TokenInv, [Tokens!Next]_tokenVars
    PROVE  TokenInv'
<1>1. CASE UNCHANGED tokenVars
  BY <1>1 DEF tokenVars, TokenInv, TokenShape, RefreshIsLocked, PresentedOnce
<1>2. CASE Tokens!Expire
  <2>1. /\ row' = [row EXCEPT !.stale = TRUE]
        /\ UNCHANGED <<lock, tokenPc, issued, presented, lostAnswers>>
    BY <1>2 DEF Tokens!Expire
  <2>2. row' \in [token : 0..MaxTokens, stale : BOOLEAN] /\ row'.token = row.token
    BY <2>1 DEF TokenInv, TokenShape
  <2> QED
    BY <2>1, <2>2 DEF TokenInv, TokenShape, RefreshIsLocked, PresentedOnce
<1>3. ASSUME NEW r \in TokenRequests, Tokens!Load(r)
      PROVE  TokenInv'
  <2>1. /\ lock = "none" /\ lock' = r /\ row.token # 0
        /\ Tokens!Goes(r, "refresh") /\ UNCHANGED <<row, issued, presented, lostAnswers>>
    BY <1>3 DEF Tokens!Load, Tokens!IsFree
  <2>2. TokenShape'
    BY <2>1, TokenGoes DEF TokenInv, TokenShape
  <2>3. RefreshIsLocked'
    BY <2>1, TokenGoes, TokenConstants DEF TokenInv, RefreshIsLocked
  <2>4. PresentedOnce'
    BY <2>1 DEF TokenInv, PresentedOnce
  <2> QED
    BY <2>2, <2>3, <2>4 DEF TokenInv
\* The token in the row was presented as often as answers to it were lost.
<1>4. ASSUME NEW r \in TokenRequests, Tokens!Present(r)
      PROVE  TokenInv'
  <2>1. /\ tokenPc[r] = "refresh" /\ Tokens!Goes(r, "answer")
        /\ presented' = [presented EXCEPT ![row.token] = @ + 1]
        /\ UNCHANGED <<row, lock, issued, lostAnswers>>
    BY <1>4 DEF Tokens!Present
  <2>a. lock = r /\ r # "none" /\ row.token # 0
    BY <2>1, TokenConstants DEF TokenInv, RefreshIsLocked
  <2>b. row.token \in 1..MaxTokens /\ row.token <= issued
    BY <2>a, TokenConstants DEF TokenInv, TokenShape
  <2>c. presented[row.token] \in Nat /\ lostAnswers[row.token] \in Nat
    BY <2>b DEF TokenInv, TokenShape
  <2>d. ~(presented[row.token] > lostAnswers[row.token])
    BY <2>1, <2>a DEF TokenInv, PresentedOnce
  <2>2. /\ lock = r /\ r # "none" /\ row.token \in 1..MaxTokens /\ row.token <= issued
        /\ presented[row.token] <= lostAnswers[row.token]
    BY <2>a, <2>b, <2>c, <2>d
  <2>3. TokenShape'
    <3>1. presented' \in [1..MaxTokens -> Nat]
      BY <2>1, <2>2 DEF TokenInv, TokenShape
    <3> QED
      BY <2>1, <3>1, TokenGoes DEF TokenInv, TokenShape
  <2>4. RefreshIsLocked'
    BY <2>1, <2>2, TokenGoes DEF TokenInv, RefreshIsLocked
  <2>5. PresentedOnce'
    <3>1. /\ presented'[row.token] = presented[row.token] + 1
          /\ \A t \in 1..MaxTokens : t # row.token => presented'[t] = presented[t]
      BY <2>1, <2>2 DEF TokenInv, TokenShape
    <3>2. \A t \in 1..MaxTokens : presented'[t] <= 1 + lostAnswers[t]
      BY <2>2, <3>1 DEF TokenInv, TokenShape, PresentedOnce
    <3>3. lock' # "none" /\ tokenPc'[lock'] = "answer"
      BY <2>1, <2>2, TokenGoes DEF TokenInv
    <3>4. \A t \in 1..MaxTokens : t > issued => presented'[t] = 0
      BY <2>2, <3>1 DEF TokenInv, TokenShape, PresentedOnce
    <3> QED
      BY <2>1, <3>2, <3>3, <3>4 DEF PresentedOnce
  <2> QED
    BY <2>3, <2>4, <2>5 DEF TokenInv
<1>5. ASSUME NEW r \in TokenRequests, Tokens!Answer(r)
      PROVE  TokenInv'
  <2>1. /\ tokenPc[r] = "answer" /\ lock' = "none" /\ Tokens!Goes(r, "idle")
        /\ Tokens!Issue /\ row' = Tokens!New /\ UNCHANGED <<presented, lostAnswers>>
    BY <1>5 DEF Tokens!Answer
  <2>2. TokenShape'
    BY <2>1, TokenGoes, IssuedShape DEF TokenInv, TokenShape
  <2>3. RefreshIsLocked'
    BY <2>1, TokenGoes, TokenConstants DEF TokenInv, RefreshIsLocked
  <2>4. PresentedOnce'
    BY <2>1, IssuedOnce
  <2> QED
    BY <2>2, <2>3, <2>4 DEF TokenInv
<1>6. ASSUME NEW r \in TokenRequests, Tokens!Refused(r)
      PROVE  TokenInv'
  <2>1. /\ tokenPc[r] = "refresh" /\ lock' = "none" /\ Tokens!Goes(r, "idle")
        /\ UNCHANGED <<row, issued, presented, lostAnswers>>
    BY <1>6 DEF Tokens!Refused
  <2>2. TokenShape'
    BY <2>1, TokenGoes DEF TokenInv, TokenShape
  <2>3. RefreshIsLocked'
    BY <2>1, TokenGoes, TokenConstants DEF TokenInv, RefreshIsLocked
  <2>4. PresentedOnce'
    BY <2>1, TokenConstants DEF TokenInv, RefreshIsLocked, PresentedOnce
  <2> QED
    BY <2>2, <2>3, <2>4 DEF TokenInv
<1>7. ASSUME NEW r \in TokenRequests, Tokens!AnswerLost(r)
      PROVE  TokenInv'
  <2>1. /\ tokenPc[r] = "answer" /\ lock' = "none" /\ Tokens!Goes(r, "idle")
        /\ lostAnswers' = [lostAnswers EXCEPT ![row.token] = @ + 1]
        /\ UNCHANGED <<row, issued, presented>>
    BY <1>7 DEF Tokens!AnswerLost
  <2>2. lock = r /\ r # "none" /\ row.token \in 1..MaxTokens
    BY <2>1, TokenConstants DEF TokenInv, TokenShape, RefreshIsLocked
  <2>3. TokenShape'
    <3>1. lostAnswers' \in [1..MaxTokens -> Nat]
      BY <2>1, <2>2 DEF TokenInv, TokenShape
    <3> QED
      BY <2>1, <3>1, TokenGoes DEF TokenInv, TokenShape
  <2>4. RefreshIsLocked'
    BY <2>1, TokenGoes, TokenConstants DEF TokenInv, RefreshIsLocked
  <2>5. PresentedOnce'
    <3>1. /\ \A t \in 1..MaxTokens : presented[t] \in Nat /\ lostAnswers[t] \in Nat
          /\ lostAnswers'[row.token] = lostAnswers[row.token] + 1
          /\ \A t \in 1..MaxTokens : t # row.token => lostAnswers'[t] = lostAnswers[t]
      BY <2>1, <2>2 DEF TokenInv, TokenShape
    <3>2. /\ \A t \in 1..MaxTokens : presented[t] <= 1 + lostAnswers[t]
          /\ \A t \in 1..MaxTokens : t > issued => presented[t] = 0
      BY DEF TokenInv, PresentedOnce
    <3>3. \A t \in 1..MaxTokens : presented[t] <= 1 + lostAnswers'[t]
      BY <2>2, <3>1, <3>2
    <3>4. ~(presented[row.token] > lostAnswers'[row.token])
      BY <2>2, <3>1, <3>2
    <3> QED
      BY <2>1, <3>2, <3>3, <3>4 DEF PresentedOnce
  <2> QED
    BY <2>3, <2>4, <2>5 DEF TokenInv
<1>8. ASSUME NEW l \in TokenLogins, Tokens!Goes(l, "idle") \/ Tokens!Goes(l, "insert") \/ Tokens!Goes(l, "update"),
             \/ UNCHANGED <<row, issued>>
             \/ lock = "none" /\ Tokens!Issue /\ row' = Tokens!New
             \/ row.token = 0 /\ Tokens!Issue /\ row' = Tokens!New,
             UNCHANGED <<lock, presented, lostAnswers>>
      PROVE  TokenInv'
  <2>1. l \notin TokenRequests
    BY InstancesAssumption DEF Tokens!TokenAssumption
  <2>2. tokenPc' \in [TokenRequests \cup TokenLogins -> {"idle", "refresh", "answer", "insert", "update"}]
    BY <1>8, TokenGoes DEF TokenInv
  <2>3. \A r \in TokenRequests : tokenPc'[r] = tokenPc[r]
    BY <1>8, <2>1, TokenGoes DEF TokenInv
  <2>4. TokenShape'
    BY <1>8, <2>2, IssuedShape DEF TokenInv, TokenShape
  <2>5. RefreshIsLocked'
    BY <1>8, <2>3, TokenIssued, TokenConstants DEF TokenInv, TokenShape, RefreshIsLocked
  <2>6. PresentedOnce'
    <3>1. CASE UNCHANGED <<row, issued>>
      BY <1>8, <2>3, <3>1, TokenConstants DEF TokenInv, TokenShape, PresentedOnce
    <3>2. CASE Tokens!Issue /\ row' = Tokens!New
      BY <1>8, <3>2, IssuedOnce
    <3> QED
      BY <1>8, <3>1, <3>2
  <2> QED
    BY <2>4, <2>5, <2>6 DEF TokenInv
<1>9. ASSUME NEW l \in TokenLogins, Tokens!Select(l) \/ Tokens!Update(l) \/ Tokens!Insert(l)
      PROVE  TokenInv'
  BY <1>8, <1>9 DEF Tokens!Select, Tokens!Update, Tokens!Insert, Tokens!IsFree
<1> QED
  BY <1>1, <1>2, <1>3, <1>4, <1>5, <1>6, <1>7, <1>9 DEF Tokens!Next

-----------------------------------------------------------------------------
(* Docker containers, and the lock files of their ports.                   *)

DockerStages == {"away", "choose", "lock", "check", "run", "wait", "ready", "paused", "close",
                 "unlink"}
DockerRuntime == [pc : DockerStages, port : DockerPorts \cup {"none"}, fd : Nat,
                  locked : BOOLEAN, next : DockerStages]
DockerContainer == [st : {"none", "created", "running", "exited"}, port : DockerPorts \cup {"none"}]
DockerShape ==
    /\ lockFile \in [DockerPorts -> Nat] /\ lockFiles \in Nat
    /\ docker \in [DockerSids -> DockerRuntime]
    /\ ctr \in [DockerSids -> DockerContainer]
    /\ starts \in [DockerSids -> Nat]

\* Who has made the file of a port and not yet removed it, or has a container on the port
\* that runs or may be started again.
Keeps(s, p) ==
    \/ docker[s].port = p /\ (docker[s].locked \/ docker[s].pc = "unlink")
    \/ ctr[s].port = p /\ (ctr[s].st = "running" \/ docker[s].pc \in {"ready", "paused"})

\* A port is kept by one session, and as long as there is a file.
OneKeeper ==
    /\ \A s, t \in DockerSids, p \in DockerPorts : Keeps(s, p) /\ Keeps(t, p) => s = t
    /\ \A s \in DockerSids, p \in DockerPorts : Keeps(s, p) => lockFile[p] # 0

\* Where a runtime stands when it has the lock, and which containers there are.
DockerStanding ==
    \A s \in DockerSids :
        /\ docker[s].pc # "lock"
        /\ docker[s].pc \in {"check", "run"} => docker[s].locked
        /\ docker[s].pc \in {"check", "run", "unlink"} \/ docker[s].locked => docker[s].port \in DockerPorts
        /\ docker[s].pc \in {"choose", "check", "run"} => ctr[s].st = "none"
        /\ docker[s].pc = "unlink" => ctr[s].st # "running" /\ ~docker[s].locked
        /\ docker[s].pc \in {"away", "choose"} => ~docker[s].locked
        /\ docker[s].pc = "unlink" => docker[s].next \in {"away", "choose"}
        /\ docker[s].pc = "unlink" /\ docker[s].next = "choose" => ctr[s].st = "none"
        /\ docker[s].pc = "ready" => ctr[s].st \in {"running", "exited"}
        /\ docker[s].pc = "paused" => ctr[s].st = "exited"
        /\ ctr[s].st # "none" => ctr[s].port \in DockerPorts
        /\ ctr[s].st # "none" \/ docker[s].pc # "away" => starts[s] > 0

DockerInv == DockerShape /\ OneKeeper /\ DockerStanding

LEMMA DockerInit ==
    ASSUME Created!Init
    PROVE  DockerInv
<1>1. DockerShape
  BY DEF Created!Init, Created!Away, Created!NoPort, DockerShape, DockerRuntime, DockerContainer, DockerStages
<1> QED
  BY <1>1 DEF Created!Init, Created!Away, Created!NoPort, DockerInv, OneKeeper, Keeps, DockerStanding

\* A step that keeps no port anew, and removes no file.
LEMMA NoNewKeeper ==
    ASSUME OneKeeper, UNCHANGED lockFile,
           \A s \in DockerSids, p \in DockerPorts : Keeps(s, p)' => Keeps(s, p)
    PROVE  OneKeeper'
BY DEF OneKeeper, Keeps

LEMMA DockerSet ==
    ASSUME DockerShape, NEW s \in DockerSids, NEW runtime0 \in DockerRuntime,
           docker' = [docker EXCEPT ![s] = runtime0]
    PROVE  /\ docker' \in [DockerSids -> DockerRuntime] /\ docker'[s] = runtime0
           /\ \A t \in DockerSids : t # s => docker'[t] = docker[t]
BY DEF DockerShape

LEMMA DockerGoes ==
    ASSUME DockerShape, NEW s \in DockerSids, NEW step \in DockerStages, Created!Goes(s, step)
    PROVE  /\ docker' \in [DockerSids -> DockerRuntime]
           /\ docker'[s].pc = step /\ docker'[s].port = docker[s].port
           /\ docker'[s].locked = docker[s].locked /\ docker'[s].next = docker[s].next
           /\ \A t \in DockerSids : t # s => docker'[t] = docker[t]
BY DEF Created!Goes, DockerShape, DockerRuntime, DockerContainer

LEMMA DockerStep ==
    ASSUME DockerInv, [Created!Next]_dockerVars
    PROVE  DockerInv'
<1>1. CASE UNCHANGED dockerVars
  BY <1>1 DEF dockerVars, DockerInv, DockerShape, OneKeeper, Keeps, DockerStanding
<1>2. ASSUME NEW s \in DockerSids, Created!OpenFile(s)
      PROVE  DockerInv'
  <2>1. PICK p \in DockerPorts :
            /\ lockFile[p] = 0 /\ docker[s].pc = "choose"
            /\ lockFiles' = lockFiles + 1
            /\ lockFile' = [lockFile EXCEPT ![p] = lockFiles + 1]
            /\ docker' = [docker EXCEPT ![s] = [@ EXCEPT !.pc = "check", !.port = p,
                                                         !.fd = lockFiles + 1, !.locked = TRUE]]
            /\ UNCHANGED <<ctr, starts>>
    BY <1>2 DEF Created!OpenFile, Created!Openable, Created!At
  <2>2. /\ docker' \in [DockerSids -> DockerRuntime]
        /\ docker'[s].pc = "check" /\ docker'[s].port = p /\ docker'[s].locked
        /\ \A t \in DockerSids : t # s => docker'[t] = docker[t]
    <3>1. /\ docker[s] \in DockerRuntime /\ lockFiles + 1 \in Nat /\ "check" \in DockerStages
          /\ DockerShape
      BY DEF DockerInv, DockerShape, DockerStages
    <3>2. [docker[s] EXCEPT !.pc = "check", !.port = p, !.fd = lockFiles + 1, !.locked = TRUE]
              \in DockerRuntime
      BY <3>1 DEF DockerRuntime
    <3> QED
      BY ZenonT(40), <2>1, <3>1, <3>2, DockerSet DEF DockerRuntime
  <2>3. DockerShape' /\ lockFile'[p] # 0 /\ \A q \in DockerPorts : q # p => lockFile'[q] = lockFile[q]
    BY <2>1, <2>2 DEF DockerInv, DockerShape
  <2>4. DockerStanding'
    BY <2>1, <2>2 DEF DockerInv, DockerStanding
  <2>5. OneKeeper'
    <3>1. \A t \in DockerSids : ~Keeps(t, p)
      BY <2>1 DEF DockerInv, OneKeeper
    <3>2. \A t \in DockerSids, q \in DockerPorts : Keeps(t, q)' => Keeps(t, q) \/ (t = s /\ q = p)
      BY <2>1, <2>2 DEF Keeps
    <3>3. \A t \in DockerSids, q \in DockerPorts : Keeps(t, q)' => lockFile'[q] # 0
      BY <2>3, <3>2 DEF DockerInv, OneKeeper
    <3>4. \A t, u \in DockerSids, q \in DockerPorts : Keeps(t, q)' /\ Keeps(u, q)' => t = u
      BY <3>1, <3>2 DEF DockerInv, OneKeeper
    <3> QED
      BY <3>3, <3>4 DEF OneKeeper, Keeps
  <2> QED
    BY <2>3, <2>4, <2>5 DEF DockerInv
<1>3. ASSUME NEW s \in DockerSids, Created!Check(s)
      PROVE  DockerInv'
  <2>1. PICK r \in {[docker[s] EXCEPT !.pc = "run"],
                    [docker[s] EXCEPT !.pc = "unlink", !.locked = FALSE, !.next = "choose"]} :
            /\ docker[s].pc = "check" /\ UNCHANGED <<lockFile, lockFiles, ctr, starts>>
            /\ docker' = [docker EXCEPT ![s] = r]
    BY <1>3 DEF Created!Check, Created!At, Created!Same
  <2>2. /\ docker' \in [DockerSids -> DockerRuntime]
        /\ docker[s].locked /\ docker'[s].port = docker[s].port
        /\ \/ docker'[s].pc = "run" /\ docker'[s].locked = docker[s].locked
           \/ docker'[s].pc = "unlink" /\ ~docker'[s].locked /\ docker'[s].next = "choose"
        /\ \A t \in DockerSids : t # s => docker'[t] = docker[t]
    <3>1. /\ docker[s] \in DockerRuntime /\ {"run", "unlink", "choose"} \subseteq DockerStages
          /\ DockerShape
      BY DEF DockerInv, DockerShape, DockerStages
    <3>2. /\ r \in DockerRuntime /\ r.port = docker[s].port
          /\ \/ r.pc = "run" /\ r.locked = docker[s].locked
             \/ r.pc = "unlink" /\ ~r.locked /\ r.next = "choose"
      BY ZenonT(40), <3>1 DEF DockerRuntime
    <3>3. docker[s].locked
      BY <2>1 DEF DockerInv, DockerStanding
    <3> QED
      BY <2>1, <3>1, <3>2, <3>3, DockerSet
  <2>3. DockerShape'
    BY <2>1, <2>2 DEF DockerInv, DockerShape
  <2>4. DockerStanding'
    BY Zenon, <2>1, <2>2 DEF DockerInv, DockerStanding
  <2>5. \A t \in DockerSids, p \in DockerPorts : Keeps(t, p)' => Keeps(t, p)
    BY ZenonT(40), <2>1, <2>2 DEF Keeps
  <2> QED
    BY <2>1, <2>3, <2>4, <2>5, NoNewKeeper DEF DockerInv
\* Only who keeps the port removes its file.
<1>4. ASSUME NEW s \in DockerSids, Created!Unlink(s)
      PROVE  DockerInv'
  <2>1. /\ docker[s].pc = "unlink" /\ UNCHANGED <<lockFiles, ctr, starts>>
        /\ lockFile' = [lockFile EXCEPT ![docker[s].port] = 0]
        /\ docker' = [docker EXCEPT ![s] = [Created!Away EXCEPT !.pc = docker[s].next]]
    BY <1>4 DEF Created!Unlink, Created!At, Created!Removed
  <2>2. /\ docker[s].port \in DockerPorts /\ Keeps(s, docker[s].port)
        /\ docker[s].next \in {"away", "choose"}
    BY <2>1 DEF DockerInv, DockerStanding, Keeps
  <2>7. DEFINE gone == [Created!Away EXCEPT !.pc = docker[s].next]
  <2>8. gone \in DockerRuntime /\ gone.pc = docker[s].next /\ ~gone.locked
    BY <2>2 DEF Created!Away, Created!NoPort, DockerRuntime, DockerStages
  <2>9. docker' = [docker EXCEPT ![s] = gone] /\ DockerShape
    BY <2>1 DEF DockerInv
  <2> HIDE DEF gone
  <2>10. /\ docker' \in [DockerSids -> DockerRuntime] /\ docker'[s] = gone
         /\ \A t \in DockerSids : t # s => docker'[t] = docker[t]
    BY <2>8, <2>9, DockerSet
  <2>3. /\ docker'[s].pc = docker[s].next /\ ~docker'[s].locked
        /\ \A t \in DockerSids : t # s => docker'[t] = docker[t]
        /\ \A q \in DockerPorts : q # docker[s].port => lockFile'[q] = lockFile[q]
    BY <2>1, <2>2, <2>8, <2>10 DEF DockerInv, DockerShape
  <2>4. DockerShape'
    <3>1. lockFile' \in [DockerPorts -> Nat]
      BY <2>1, <2>2 DEF DockerInv, DockerShape
    <3>2. docker' \in [DockerSids -> DockerRuntime]
      BY <2>10
    <3> QED
      BY <2>1, <3>1, <3>2 DEF DockerInv, DockerShape
  <2>5. DockerStanding'
    BY <2>1, <2>2, <2>3 DEF DockerInv, DockerStanding
  <2>6. OneKeeper'
    <3>1. \A p \in DockerPorts : ~(Keeps(s, p)')
      BY <2>1, <2>2, <2>3 DEF DockerInv, DockerStanding, Keeps
    <3>2. \A t \in DockerSids, p \in DockerPorts : t # s => (Keeps(t, p)' => Keeps(t, p))
      BY <2>1, <2>3 DEF Keeps
    <3> QED
      BY <2>2, <2>3, <3>1, <3>2 DEF DockerInv, OneKeeper, Keeps
  <2> QED
    BY <2>4, <2>5, <2>6 DEF DockerInv
<1>5. ASSUME NEW s \in DockerSids, Created!Attach(s) \/ Created!InitContainer(s)
      PROVE  DockerInv'
  <2>1. /\ docker[s].pc = "away" /\ starts' = [starts EXCEPT ![s] = @ + 1]
        /\ UNCHANGED <<lockFile, lockFiles>>
        /\ ctr[s].st = "none" \/ ctr[s].st = "running"
        /\ UNCHANGED ctr /\ \/ Created!Goes(s, "wait")
                            \/ ctr[s].st = "none" /\ Created!Goes(s, "choose")
    BY <1>5 DEF Created!Attach, Created!InitContainer, Created!At, DockerInv, DockerShape,
                DockerStanding
  <2>2. PICK step \in {"wait", "choose"} : Created!Goes(s, step) /\ (step = "choose" => ctr[s].st = "none")
    BY <2>1
  <2>3. /\ docker' \in [DockerSids -> DockerRuntime]
        /\ docker'[s].pc = step /\ docker'[s].port = docker[s].port
        /\ docker'[s].locked = docker[s].locked /\ ~docker[s].locked
        /\ \A t \in DockerSids : t # s => docker'[t] = docker[t]
    BY <2>1, <2>2, DockerGoes DEF DockerInv, DockerStages, DockerStanding
  <2>4. starts' \in [DockerSids -> Nat] /\ starts'[s] > 0
        /\ \A t \in DockerSids : t # s => starts'[t] = starts[t]
    BY <2>1 DEF DockerInv, DockerShape
  <2>5. DockerShape'
    BY <2>1, <2>3, <2>4 DEF DockerInv, DockerShape
  <2>6. DockerStanding'
    BY <2>1, <2>2, <2>3, <2>4 DEF DockerInv, DockerStanding
  <2>7. \A t \in DockerSids, p \in DockerPorts : Keeps(t, p)' => Keeps(t, p)
    BY <2>1, <2>2, <2>3 DEF Keeps
  <2> QED
    BY <2>1, <2>5, <2>6, <2>7, NoNewKeeper DEF DockerInv
\* The port of the container is the one that is locked.
<1>6. ASSUME NEW s \in DockerSids, Created!Run(s)
      PROVE  DockerInv'
  <2>1. /\ docker[s].pc = "run" /\ UNCHANGED <<lockFile, lockFiles, starts>>
        /\ \E st \in {"running", "created"} : ctr' = [ctr EXCEPT ![s] = [st |-> st, port |-> docker[s].port]]
        /\ \E step \in {"wait", "close"} : Created!Goes(s, step)
    BY <1>6 DEF Created!Run, Created!At
  <2>2. docker[s].locked /\ docker[s].port \in DockerPorts
    BY <2>1 DEF DockerInv, DockerStanding
  <2>3. /\ docker' \in [DockerSids -> DockerRuntime]
        /\ docker'[s].pc \in {"wait", "close"} /\ docker'[s].port = docker[s].port
        /\ docker'[s].locked = docker[s].locked
        /\ \A t \in DockerSids : t # s => docker'[t] = docker[t]
    BY <2>1, DockerGoes DEF DockerInv, DockerStages
  <2>4. /\ ctr' \in [DockerSids -> DockerContainer]
        /\ ctr'[s].port = docker[s].port /\ ctr'[s].st \in {"running", "created"}
        /\ \A t \in DockerSids : t # s => ctr'[t] = ctr[t]
    BY <2>1, <2>2 DEF DockerInv, DockerShape, DockerRuntime, DockerContainer
  <2>5. DockerShape'
    BY <2>1, <2>3, <2>4 DEF DockerInv, DockerShape
  <2>6. DockerStanding'
    BY <2>1, <2>2, <2>3, <2>4 DEF DockerInv, DockerStanding
  <2>7. \A t \in DockerSids, p \in DockerPorts : Keeps(t, p)' => Keeps(t, p)
    BY <2>1, <2>2, <2>3, <2>4 DEF Keeps
  <2> QED
    BY <2>1, <2>5, <2>6, <2>7, NoNewKeeper DEF DockerInv
<1>7. ASSUME NEW s \in DockerSids, Created!Alive(s) \/ Created!WaitFails(s) \/ Created!Close(s)
      PROVE  DockerInv'
  <2>1. /\ UNCHANGED <<lockFile, lockFiles, ctr, starts>>
        /\ docker[s].pc \in {"wait", "ready"}
        /\ \/ ctr[s].st = "running" /\ Created!Goes(s, "ready")
           \/ Created!Goes(s, "close")
    BY <1>7 DEF Created!Alive, Created!WaitFails, Created!Close, Created!At, Created!Same
  <2>2. /\ docker' \in [DockerSids -> DockerRuntime]
        /\ \/ docker'[s].pc = "close"
           \/ docker'[s].pc = "ready" /\ ctr[s].st = "running"
        /\ docker'[s].locked = docker[s].locked /\ docker'[s].port = docker[s].port
        /\ \A t \in DockerSids : t # s => docker'[t] = docker[t]
    BY <2>1, DockerGoes DEF DockerInv, DockerStages
  <2>3. DockerShape'
    BY <2>1, <2>2 DEF DockerInv, DockerShape
  <2>4. DockerStanding'
    BY <2>1, <2>2 DEF DockerInv, DockerStanding
  <2>5. \A t \in DockerSids, p \in DockerPorts : Keeps(t, p)' => Keeps(t, p)
    BY <2>1, <2>2 DEF Keeps
  <2> QED
    BY <2>1, <2>3, <2>4, <2>5, NoNewKeeper DEF DockerInv
<1>8. ASSUME NEW s \in DockerSids, Created!StopAll(s)
      PROVE  DockerInv'
  <2>1. /\ docker[s].pc = "close" /\ UNCHANGED <<lockFile, lockFiles, starts>>
        /\ ctr' = [t \in DockerSids |-> IF t = s /\ ctr[t].st = "running"
                                        THEN [ctr[t] EXCEPT !.st = "exited"] ELSE ctr[t]]
        /\ docker' = [docker EXCEPT ![s] = IF @.locked THEN [@ EXCEPT !.pc = "unlink", !.locked = FALSE,
                                                                      !.next = "away"]
                                           ELSE Created!Away]
    BY <1>8 DEF Created!StopAll, Created!At
  <2>2. /\ \A t \in DockerSids : t # s => docker'[t] = docker[t] /\ ctr'[t] = ctr[t]
        /\ ctr'[s].port = ctr[s].port /\ ctr'[s].st # "running"
        /\ ctr'[s].st # "none" => ctr[s].st # "none"
    BY <2>1 DEF DockerInv, DockerShape
  <2>3. CASE docker[s].locked
    <3>1. /\ docker'[s].pc = "unlink" /\ docker'[s].port = docker[s].port
          /\ docker'[s].next = "away" /\ ~docker'[s].locked
      BY <2>1, <2>3 DEF DockerInv, DockerShape
    <3>2. DockerShape'
      <4>1. ctr' \in [DockerSids -> DockerContainer]
        BY <2>1 DEF DockerInv, DockerShape, DockerRuntime, DockerContainer
      <4>2. docker' \in [DockerSids -> DockerRuntime]
        <5>1. DEFINE shut == [docker[s] EXCEPT !.pc = "unlink", !.locked = FALSE, !.next = "away"]
        <5>2. docker[s] \in DockerRuntime /\ DockerShape
          BY DEF DockerInv, DockerShape
        <5>3. shut \in DockerRuntime
          BY <5>2 DEF DockerRuntime, DockerStages
        <5>4. docker' = [docker EXCEPT ![s] = shut]
          BY <2>1, <2>3
        <5> QED
          BY <5>2, <5>3, <5>4, DockerSet
      <4> QED
        BY <2>1, <4>1, <4>2 DEF DockerInv, DockerShape
    <3>3. DockerStanding'
      BY <2>1, <2>2, <2>3, <3>1 DEF DockerInv, DockerStanding
    <3>4. \A t \in DockerSids, p \in DockerPorts : Keeps(t, p)' => Keeps(t, p)
      BY <2>1, <2>2, <2>3, <3>1 DEF Keeps
    <3> QED
      BY <2>1, <3>2, <3>3, <3>4, NoNewKeeper DEF DockerInv
  <2>4. CASE ~docker[s].locked
    <3>1. docker'[s] = [pc |-> "away", port |-> "none", fd |-> 0, locked |-> FALSE, next |-> "away"]
      BY <2>1, <2>4 DEF DockerInv, DockerShape, Created!Away, Created!NoPort
    <3>2. DockerShape'
      <4>1. ctr' \in [DockerSids -> DockerContainer]
        BY <2>1 DEF DockerInv, DockerShape, DockerRuntime, DockerContainer
      <4>2. docker' \in [DockerSids -> DockerRuntime]
        BY <2>1, <2>4 DEF DockerInv, DockerShape, DockerRuntime, DockerContainer, DockerStages, Created!Away, Created!NoPort
      <4> QED
        BY <2>1, <4>1, <4>2 DEF DockerInv, DockerShape
    <3>3. DockerStanding'
      BY <2>1, <2>2, <3>1 DEF DockerInv, DockerStanding
    <3>4. \A t \in DockerSids, p \in DockerPorts : Keeps(t, p)' => Keeps(t, p)
      BY <2>1, <2>2, <3>1 DEF Keeps
    <3> QED
      BY <2>1, <3>2, <3>3, <3>4, NoNewKeeper DEF DockerInv
  <2> QED
    BY <2>3, <2>4
\* A runtime that pauses and goes on keeps its port meanwhile.
<1>9. ASSUME NEW s \in DockerSids, Created!Pause(s) \/ Created!Resume(s)
      PROVE  DockerInv'
  <2>1. /\ UNCHANGED <<lockFile, lockFiles, starts>>
        /\ docker[s].pc \in {"ready", "paused"}
        /\ \/ Created!Goes(s, "paused") /\ ctr' = [ctr EXCEPT ![s].st = "exited"]
           \/ Created!Goes(s, "wait") /\ ctr' = [ctr EXCEPT ![s].st = "running"]
    BY <1>9 DEF Created!Pause, Created!Resume, Created!At
  <2>2. /\ docker' \in [DockerSids -> DockerRuntime]
        /\ docker'[s].pc \in {"paused", "wait"}
        /\ docker'[s].pc = "paused" => ctr' = [ctr EXCEPT ![s].st = "exited"]
        /\ docker'[s].locked = docker[s].locked /\ docker'[s].port = docker[s].port
        /\ \A t \in DockerSids : t # s => docker'[t] = docker[t]
    BY <2>1, DockerGoes DEF DockerInv, DockerStages
  <2>3. /\ ctr' \in [DockerSids -> DockerContainer]
        /\ ctr'[s].port = ctr[s].port /\ ctr'[s].st \in {"running", "exited"}
        /\ ctr' = [ctr EXCEPT ![s].st = "exited"] => ctr'[s].st = "exited"
        /\ \A t \in DockerSids : t # s => ctr'[t] = ctr[t]
    BY <2>1 DEF DockerInv, DockerShape, DockerRuntime, DockerContainer
  <2>4. DockerShape'
    BY <2>1, <2>2, <2>3 DEF DockerInv, DockerShape
  <2>5. DockerStanding'
    BY <2>1, <2>2, <2>3 DEF DockerInv, DockerStanding
  <2>6. \A t \in DockerSids, p \in DockerPorts : Keeps(t, p)' => Keeps(t, p)
    BY <2>1, <2>2, <2>3 DEF Keeps
  <2> QED
    BY <2>1, <2>4, <2>5, <2>6, NoNewKeeper DEF DockerInv
<1>10. ASSUME NEW s \in DockerSids, Created!Delete(s)
       PROVE  DockerInv'
  <2>1. /\ docker[s].pc = "away" /\ UNCHANGED <<lockFile, lockFiles, docker, starts>>
        /\ ctr' = [ctr EXCEPT ![s] = [st |-> "none", port |-> "none"]]
    BY <1>10 DEF Created!Delete, Created!At, Created!NoPort
  <2>2. /\ ctr'[s].st = "none" /\ \A t \in DockerSids : t # s => ctr'[t] = ctr[t]
    BY <2>1 DEF DockerInv, DockerShape
  <2>3. DockerShape'
    BY <2>1 DEF DockerInv, DockerShape, DockerRuntime, DockerContainer
  <2>4. DockerStanding'
    BY <2>1, <2>2 DEF DockerInv, DockerStanding
  <2>5. \A t \in DockerSids, p \in DockerPorts : Keeps(t, p)' => Keeps(t, p)
    BY <2>1, <2>2 DEF Keeps
  <2> QED
    BY <2>1, <2>3, <2>4, <2>5, NoNewKeeper DEF DockerInv
<1>11. ASSUME NEW s \in DockerSids, Created!Crash(s)
       PROVE  DockerInv'
  <2>1. /\ docker' = [docker EXCEPT ![s] = [pc |-> "away", port |-> "none", fd |-> 0,
                                            locked |-> FALSE, next |-> "away"]]
        /\ UNCHANGED <<lockFile, lockFiles, ctr, starts>>
    BY <1>11 DEF Created!Crash, Created!Away, Created!NoPort
  <2>2. /\ docker'[s].pc = "away" /\ ~docker'[s].locked
        /\ \A t \in DockerSids : t # s => docker'[t] = docker[t]
    BY <2>1 DEF DockerInv, DockerShape
  <2>3. DockerShape'
    BY <2>1 DEF DockerInv, DockerShape, DockerRuntime, DockerContainer, DockerStages
  <2>4. DockerStanding'
    BY <2>1, <2>2 DEF DockerInv, DockerStanding
  <2>5. \A t \in DockerSids, p \in DockerPorts : Keeps(t, p)' => Keeps(t, p)
    BY <2>1, <2>2 DEF Keeps
  <2> QED
    BY <2>1, <2>3, <2>4, <2>5, NoNewKeeper DEF DockerInv
<1>12. ASSUME NEW s \in DockerSids, Created!Lock(s) \/ Created!TimeOut(s) \/ Created!Unlocked(s)
       PROVE  DockerInv'
  BY <1>12 DEF Created!Lock, Created!TimeOut, Created!Unlocked, Created!At, DockerInv, DockerStanding
<1> QED
  BY <1>1, <1>2, <1>3, <1>4, <1>5, <1>6, <1>7, <1>8, <1>9, <1>10, <1>11, <1>12 DEF Created!Next

\* What the invariant says of the lock, of a port found free, and of a paused runtime.
LEMMA DockerKeeps ==
    ASSUME DockerInv
    PROVE  Created!Exclusive /\ Created!FoundIsFree /\ Created!PausedKeepsPort
<1>1. Created!Exclusive
  BY DEF DockerInv, OneKeeper, DockerStanding, Keeps, Created!Exclusive
<1>2. Created!FoundIsFree
  BY DEF DockerInv, OneKeeper, DockerStanding, Keeps, Created!FoundIsFree, Created!At, Created!Users
<1>3. ASSUME NEW s \in DockerSids, docker[s].pc = "paused"
      PROVE  \A t \in DockerSids : ~(ctr[t].st = "running" /\ ctr[t].port = ctr[s].port)
  <2>1. ctr[s].st = "exited" /\ ctr[s].port \in DockerPorts /\ Keeps(s, ctr[s].port)
    BY <1>3 DEF DockerInv, DockerStanding, Keeps
  <2>2. \A t \in DockerSids : ctr[t].st = "running" /\ ctr[t].port = ctr[s].port
                                => Keeps(t, ctr[s].port)
    BY DEF Keeps
  <2> QED
    BY <2>1, <2>2 DEF DockerInv, OneKeeper
<1>4. Created!PausedKeepsPort
  BY <1>3 DEF Created!PausedKeepsPort, Created!At, Created!Users
<1> QED
  BY <1>1, <1>2, <1>4

-----------------------------------------------------------------------------
(* Webhooks of a pull request, and the row that collects them.             *)

HookStatus == {"pending", "failure", "completed"}
HookGroups == UNION {[W -> HookStatus] : W \in SUBSET HookWorkflows}
HookSteps == {"none", "sent", "lookup", "fetch", "store", "comment", "skipped", "failed", "done"}
HookShape ==
    /\ real \in HookGroups /\ rows \subseteq [runs : HookGroups, sent : BOOLEAN]
    /\ rowLock \in SUBSET HookWorkflows /\ webhook \in [HookWorkflows -> HookSteps]
    /\ readRuns \in [HookWorkflows -> HookGroups] /\ comments \in Seq(HookGroups)
    /\ cleans \in Nat

\* One handler at a time has read what it will store: under the lock of the row, or, while
\* there is none, as the first that looked.
Handling(w) == webhook[w] \in {"fetch", "store"}
OneHandles ==
    /\ \A v, w \in HookWorkflows : Handling(v) /\ Handling(w) => v = w
    /\ \A w \in rowLock : webhook[w] = "store" /\ rows # {}
    /\ \A w \in HookWorkflows : Handling(w) /\ w \notin rowLock => rows = {}
    /\ \A r1, r2 \in rows : r1 = r2
    /\ \A w \in rowLock, r \in rows : ~r.sent /\ readRuns[w] = r.runs

\* A group says of no workflow what is not so; it says of every handled one how it ended;
\* and no workflow it names can change any more.
Truthful(group) == \A v \in DOMAIN group : v \in DOMAIN real /\ group[v] \in {"pending", real[v]}
TellsHandled(group) ==
    \A v \in HookWorkflows : webhook[v] \in {"comment", "done"} =>
        v \in DOMAIN group /\ group[v] = real[v]
Final(group) ==
    /\ \E v \in DOMAIN group : group[v] = "failure"
    /\ \A v \in DOMAIN group : v \in DOMAIN real /\ group[v] # "pending" /\ group[v] = real[v]

\* The rows keep up with the webhooks, and so does what the first handler has read.
EndedHooks == \A w \in HookWorkflows : webhook[w] # "none" => w \in DOMAIN real /\ real[w] # "pending"
RowsTell == \A r \in rows : Truthful(r.runs) /\ (~r.sent => TellsHandled(r.runs))
ReadTells ==
    \A w \in HookWorkflows : webhook[w] = "store" /\ w \notin rowLock =>
        Truthful(readRuns[w]) /\ TellsHandled(readRuns[w])
SentIsTold ==
    (\E r \in rows : r.sent) =>
        comments # <<>> \/ \E v \in HookWorkflows : webhook[v] \in {"comment", "failed"}
AllTold ==
    (\A w \in HookWorkflows : webhook[w] = "done") /\ (\E v \in DOMAIN real : real[v] = "failure") =>
        comments # <<>>

HookInv == HookShape /\ OneHandles /\ EndedHooks /\ RowsTell /\ ReadTells /\ SentIsTold /\ AllTold

\* Where no row is ever removed: once one is marked as sent, there is one comment.
Told ==
    /\ comments # <<>> \/ (\E w \in HookWorkflows : webhook[w] = "comment") => \E r \in rows : r.sent
    /\ \A v, w \in HookWorkflows : webhook[v] = "comment" /\ webhook[w] = "comment" => v = w
    /\ Len(comments) <= 1
    /\ comments # <<>> => \A w \in HookWorkflows : webhook[w] # "comment"
    /\ \A w \in HookWorkflows : webhook[w] = "comment" => Final(readRuns[w])
    /\ \A i \in DOMAIN comments : Final(comments[i])

LEMMA NoGroup == [v \in {} |-> "pending"] \in HookGroups
BY DEF HookGroups, HookStatus

LEMMA HookInit ==
    ASSUME NEW F, NEW C, Webhooks(F, C)!Init
    PROVE  HookInv /\ Told
<1>1. [w \in {} |-> "pending"] \in HookGroups /\ DOMAIN [w \in {} |-> "pending"] = {}
  BY NoGroup
<1>2. /\ real = [w \in {} |-> "pending"] /\ rows = {} /\ rowLock = {} /\ comments = <<>> /\ cleans = 0
      /\ webhook = [w \in HookWorkflows |-> "none"]
      /\ readRuns = [w \in HookWorkflows |-> [v \in {} |-> "pending"]]
  BY DEF Webhooks!Init, Webhooks!NoRuns
<1>3. HookShape
  BY <1>1, <1>2 DEF HookShape, HookSteps
<1>4. OneHandles /\ EndedHooks /\ RowsTell /\ ReadTells
  BY <1>2 DEF OneHandles, Handling, EndedHooks, RowsTell, ReadTells
<1>5. SentIsTold /\ AllTold /\ Told
  BY <1>1, <1>2 DEF SentIsTold, AllTold, Told
<1> QED
  BY <1>3, <1>4, <1>5 DEF HookInv

LEMMA HookGoes ==
    ASSUME HookShape, NEW w \in HookWorkflows, NEW step \in HookSteps,
           webhook' = [webhook EXCEPT ![w] = step]
    PROVE  /\ webhook' \in [HookWorkflows -> HookSteps] /\ webhook'[w] = step
           /\ \A v \in HookWorkflows : v # w => webhook'[v] = webhook[v]
BY DEF HookShape

\* With: a group that also names w.
GroupWith(group, w, st) == [v \in DOMAIN group \cup {w} |-> IF v = w THEN st ELSE group[v]]
LEMMA GroupNames ==
    ASSUME NEW group \in HookGroups, NEW w \in HookWorkflows, NEW st \in HookStatus
    PROVE  /\ GroupWith(group, w, st) \in HookGroups
           /\ DOMAIN GroupWith(group, w, st) = DOMAIN group \cup {w}
           /\ GroupWith(group, w, st)[w] = st
           /\ \A v \in DOMAIN group : v # w => GroupWith(group, w, st)[v] = group[v]
<1>1. PICK W \in SUBSET HookWorkflows : group \in [W -> HookStatus]
  BY DEF HookGroups
<1>2. GroupWith(group, w, st) \in [W \cup {w} -> HookStatus] /\ W \cup {w} \in SUBSET HookWorkflows
  BY <1>1 DEF GroupWith
<1> QED
  BY <1>1, <1>2 DEF HookGroups, GroupWith

LEMMA GroupSet ==
    ASSUME NEW group \in HookGroups, NEW w \in DOMAIN group, NEW st \in HookStatus
    PROVE  /\ [group EXCEPT ![w] = st] \in HookGroups /\ DOMAIN [group EXCEPT ![w] = st] = DOMAIN group
           /\ [group EXCEPT ![w] = st][w] = st
           /\ \A v \in DOMAIN group : v # w => [group EXCEPT ![w] = st][v] = group[v]
<1>1. PICK W \in SUBSET HookWorkflows : group \in [W -> HookStatus]
  BY DEF HookGroups
<1>2. [group EXCEPT ![w] = st] \in [W -> HookStatus]
  BY <1>1
<1> QED
  BY <1>1, <1>2 DEF HookGroups

\* GitHub: workflows are added, and a pending one ends, whose webhook was not sent.
LEMMA HookGitHub ==
    ASSUME HookInv, NEW F, NEW C, NEW w \in HookWorkflows,
           Webhooks(F, C)!Queue(w) \/ Webhooks(F, C)!Finish(w)
    PROVE  HookInv' /\ (Told => Told')
<1>1. /\ UNCHANGED <<rows, rowLock, readRuns, comments, cleans>>
      /\ HookShape /\ OneHandles /\ EndedHooks
  BY DEF Webhooks!Queue, Webhooks!Finish, HookInv
<1>2. /\ real' \in HookGroups /\ DOMAIN real \subseteq DOMAIN real'
      /\ \A v \in DOMAIN real : real[v] # "pending" => real'[v] = real[v]
      /\ webhook' \in [HookWorkflows -> HookSteps]
      /\ \A v \in HookWorkflows : v # w => webhook'[v] = webhook[v]
      /\ webhook[w] = "none"
      /\ \/ webhook'[w] = "none"
         \/ webhook'[w] = "sent" /\ w \in DOMAIN real' /\ real'[w] # "pending"
  <2>1. CASE Webhooks(F, C)!Queue(w)
    <3>1. w \notin DOMAIN real /\ real' = GroupWith(real, w, "pending") /\ UNCHANGED webhook
      BY <2>1 DEF Webhooks!Queue, Webhooks!With, GroupWith
    <3>2. webhook[w] = "none"
      BY <3>1, <1>1 DEF EndedHooks
    <3>3. real \in HookGroups /\ "pending" \in HookStatus
      BY <1>1 DEF HookShape, HookStatus
    <3>4. /\ real' \in HookGroups /\ DOMAIN real' = DOMAIN real \cup {w}
          /\ \A v \in DOMAIN real : v # w => real'[v] = real[v]
      BY <3>1, <3>3, GroupNames
    <3> QED
      BY <3>1, <3>2, <3>4, <1>1 DEF HookShape
  <2>2. CASE Webhooks(F, C)!Finish(w)
    <3>1. PICK st \in {"failure", "completed"} : real' = [real EXCEPT ![w] = st]
      BY <2>2 DEF Webhooks!Finish
    <3>2. w \in DOMAIN real /\ real[w] = "pending" /\ webhook' = [webhook EXCEPT ![w] = "sent"]
      BY <2>2 DEF Webhooks!Finish
    <3>3. webhook[w] = "none"
      BY <3>2, <1>1 DEF EndedHooks
    <3>4. real \in HookGroups /\ st \in HookStatus /\ "sent" \in HookSteps
      BY <1>1 DEF HookShape, HookStatus, HookSteps
    <3>5. /\ real' \in HookGroups /\ DOMAIN real' = DOMAIN real /\ real'[w] = st
          /\ \A v \in DOMAIN real : v # w => real'[v] = real[v]
      BY <3>1, <3>2, <3>4, GroupSet
    <3>6. /\ webhook' \in [HookWorkflows -> HookSteps] /\ webhook'[w] = "sent"
          /\ \A v \in HookWorkflows : v # w => webhook'[v] = webhook[v]
      BY <3>2, <3>4, <1>1, HookGoes
    <3> QED
      BY <3>2, <3>3, <3>5, <3>6
  <2> QED
    BY <2>1, <2>2
<1>3. /\ \A v \in HookWorkflows : Handling(v)' <=> Handling(v)
      /\ \A v \in HookWorkflows : webhook'[v] \in {"comment", "done", "failed", "fetch", "store"}
                                  <=> webhook[v] \in {"comment", "done", "failed", "fetch", "store"}
      /\ \A v \in HookWorkflows : webhook'[v] \in {"comment", "done", "failed", "fetch", "store"}
                                  => webhook'[v] = webhook[v]
  BY <1>2 DEF Handling
<1>4. \A group : Truthful(group) => Truthful(group)'
  BY <1>2 DEF Truthful
<1>5. \A group : TellsHandled(group) => TellsHandled(group)'
  BY <1>1, <1>2, <1>3 DEF TellsHandled, EndedHooks
<1>6. \A group : Final(group) => Final(group)'
  BY <1>2 DEF Final
<1>7. HookShape' /\ OneHandles' /\ EndedHooks'
  <2>1. HookShape'
    BY <1>1, <1>2 DEF HookShape
  <2>2. OneHandles'
    BY <1>1, <1>3 DEF OneHandles, Handling, HookShape
  <2>3. EndedHooks'
    BY <1>1, <1>2 DEF EndedHooks
  <2> QED
    BY <2>1, <2>2, <2>3
<1>8. RowsTell' /\ ReadTells'
  BY <1>1, <1>3, <1>4, <1>5 DEF HookInv, RowsTell, ReadTells, Truthful, TellsHandled
<1>9. SentIsTold' /\ AllTold'
  BY <1>1, <1>2, <1>3 DEF HookInv, SentIsTold, AllTold
<1>10. Told => Told'
  BY <1>1, <1>3, <1>6 DEF Told, Final
<1> QED
  BY <1>7, <1>8, <1>9, <1>10 DEF HookInv

\* A handler gives up, or has not looked at the rows yet.
LEMMA HookLeaves ==
    ASSUME HookInv, NEW F, NEW C, NEW w \in HookWorkflows,
           Webhooks(F, C)!Trigger(w) \/ Webhooks(F, C)!Fail(w)
    PROVE  HookInv' /\ (Told => Told')
<1>1. /\ UNCHANGED <<real, rows, comments, cleans>> /\ rowLock' \subseteq rowLock
      /\ w \notin rowLock'
      /\ \A v \in HookWorkflows : v # w => (v \in rowLock <=> v \in rowLock')
      /\ readRuns' \in [HookWorkflows -> HookGroups]
      /\ \A v \in HookWorkflows : v # w => readRuns'[v] = readRuns[v]
      /\ webhook[w] # "none" /\ webhook[w] # "done"
      /\ \E step \in {"skipped", "lookup", "failed"} :
            /\ webhook' = [webhook EXCEPT ![w] = step]
            /\ step # "failed" => webhook[w] = "sent"
  <2>1. CASE Webhooks(F, C)!Trigger(w)
    BY <2>1 DEF Webhooks!Trigger, Webhooks!To, HookInv, HookShape, OneHandles
  <2>2. CASE Webhooks(F, C)!Fail(w)
    BY <2>2, NoGroup DEF Webhooks!Fail, Webhooks!To, Webhooks!NoRuns, HookInv, HookShape
  <2> QED
    BY <2>1, <2>2
<1>2. HookShape /\ OneHandles /\ EndedHooks /\ RowsTell /\ ReadTells /\ SentIsTold /\ AllTold
  BY DEF HookInv
<1>3. PICK step \in {"skipped", "lookup", "failed"} :
            /\ webhook' = [webhook EXCEPT ![w] = step]
            /\ step # "failed" => webhook[w] = "sent"
  BY <1>1
<1>4. /\ webhook' \in [HookWorkflows -> HookSteps] /\ webhook'[w] = step
      /\ \A v \in HookWorkflows : v # w => webhook'[v] = webhook[v]
  BY <1>2, <1>3, HookGoes DEF HookSteps
<1>5. HookShape' /\ EndedHooks'
  BY <1>1, <1>2, <1>4 DEF HookShape, EndedHooks
<1>6. OneHandles'
  BY <1>1, <1>2, <1>4 DEF OneHandles, Handling, HookShape
<1>7. RowsTell' /\ ReadTells'
  BY <1>1, <1>2, <1>4 DEF RowsTell, ReadTells, Truthful, TellsHandled
<1>8. SentIsTold' /\ AllTold'
  BY <1>1, <1>2, <1>3, <1>4 DEF SentIsTold, AllTold
<1>9. Told => Told'
  BY <1>1, <1>4 DEF Told, Final
<1> QED
  BY <1>5, <1>6, <1>7, <1>8, <1>9 DEF HookInv

\* A handler finds no row, and reads what GitHub says.
LEMMA HookReads ==
    ASSUME HookInv, NEW F, NEW C, NEW w \in HookWorkflows,
           Webhooks(F, C)!FindNone(w) \/ Webhooks(F, C)!Fetch(w)
    PROVE  HookInv' /\ (Told => Told')
<1>1. HookShape /\ OneHandles /\ EndedHooks /\ RowsTell /\ ReadTells /\ SentIsTold /\ AllTold
  BY DEF HookInv
<1>2. /\ UNCHANGED <<real, rows, rowLock, comments, cleans>>
      /\ webhook[w] \in {"lookup", "fetch"}
      /\ \/ /\ webhook[w] = "lookup" /\ rows = {} /\ UNCHANGED readRuns
            /\ webhook' = [webhook EXCEPT ![w] = "fetch"]
            /\ ~\E v \in HookWorkflows : Handling(v) /\ v \notin rowLock
         \/ /\ webhook[w] = "fetch" /\ readRuns' = [readRuns EXCEPT ![w] = real]
            /\ webhook' = [webhook EXCEPT ![w] = "store"]
  BY DEF Webhooks!FindNone, Webhooks!Fetch, Webhooks!To, Webhooks!LooksFirst, Handling
<1>3. PICK step \in {"fetch", "store"} : webhook' = [webhook EXCEPT ![w] = step]
  BY <1>2
<1>4. /\ webhook' \in [HookWorkflows -> HookSteps] /\ webhook'[w] = step
      /\ \A v \in HookWorkflows : v # w => webhook'[v] = webhook[v]
  BY <1>1, <1>3, HookGoes DEF HookSteps
<1>5. /\ readRuns' \in [HookWorkflows -> HookGroups]
      /\ \A v \in HookWorkflows : v # w => readRuns'[v] = readRuns[v]
      /\ step = "store" => readRuns'[w] = real
  BY <1>1, <1>2, <1>4 DEF HookShape
<1>6. w \notin rowLock
  BY <1>1, <1>2 DEF OneHandles
<1>7. HookShape' /\ EndedHooks'
  BY <1>1, <1>2, <1>4, <1>5 DEF HookShape, EndedHooks
<1>8. OneHandles'
  <2>1. CASE webhook[w] = "lookup"
    <3>1. \A v \in HookWorkflows : ~Handling(v)
      BY <1>1, <1>2, <2>1 DEF OneHandles
    <3> QED
      BY <1>1, <1>2, <1>4, <1>5, <1>6, <2>1, <3>1 DEF OneHandles, Handling, HookShape
  <2>2. CASE webhook[w] = "fetch"
    <3>1. \A v \in HookWorkflows : Handling(v)' => Handling(v)
      BY <1>4, <2>2 DEF Handling
    <3>2. rows = {}
      BY <1>1, <1>6, <2>2 DEF OneHandles, Handling
    <3>3. rowLock = {}
      BY <1>1, <3>2 DEF OneHandles
    <3> QED
      BY <1>1, <1>2, <3>1, <3>2, <3>3 DEF OneHandles, Handling
  <2> QED
    BY <1>2, <2>1, <2>2
<1>9. RowsTell'
  BY <1>1, <1>2, <1>4 DEF RowsTell, Truthful, TellsHandled
<1>10. ReadTells'
  <2>1. Truthful(real)' /\ TellsHandled(real)'
    BY <1>1, <1>2, <1>4 DEF Truthful, TellsHandled, EndedHooks
  <2>2. \A v \in HookWorkflows : v # w /\ webhook'[v] = "store" /\ v \notin rowLock'
                                 => Truthful(readRuns[v])' /\ TellsHandled(readRuns[v])'
    BY <1>1, <1>2, <1>4, <1>5 DEF ReadTells, Truthful, TellsHandled
  <2> QED
    BY <1>2, <1>4, <1>5, <2>1, <2>2 DEF ReadTells, Truthful, TellsHandled
<1>11. SentIsTold' /\ AllTold'
  BY <1>1, <1>2, <1>4 DEF SentIsTold, AllTold
<1>12. Told => Told'
  BY <1>2, <1>4, <1>5 DEF Told, Final
<1> QED
  BY <1>7, <1>8, <1>9, <1>10, <1>11, <1>12 DEF HookInv

\* A handler finds the row: marked as sent, or it locks it.
LEMMA HookFinds ==
    ASSUME HookInv, NEW F, NEW C, NEW w \in HookWorkflows, Webhooks(F, C)!Find(w)
    PROVE  HookInv' /\ (Told => Told')
<1>1. HookShape /\ OneHandles /\ EndedHooks /\ RowsTell /\ ReadTells /\ SentIsTold /\ AllTold
  BY DEF HookInv
<1>2. PICK r \in rows :
        /\ UNCHANGED <<real, rows, comments, cleans>> /\ webhook[w] = "lookup" /\ rowLock = {}
        /\ \/ r.sent /\ webhook' = [webhook EXCEPT ![w] = "done"] /\ UNCHANGED <<rowLock, readRuns>>
           \/ /\ ~r.sent /\ webhook' = [webhook EXCEPT ![w] = "store"]
              /\ rowLock' = rowLock \cup {w} /\ readRuns' = [readRuns EXCEPT ![w] = r.runs]
  BY DEF Webhooks!Find, Webhooks!To, Webhooks!Locks
<1>3. PICK step \in {"done", "store"} :
        /\ webhook' = [webhook EXCEPT ![w] = step]
        /\ step = "done" => r.sent /\ UNCHANGED <<rowLock, readRuns>>
        /\ step = "store" => /\ ~r.sent /\ rowLock' = {w}
                             /\ readRuns' = [readRuns EXCEPT ![w] = r.runs]
  BY <1>2
<1>4. /\ webhook' \in [HookWorkflows -> HookSteps] /\ webhook'[w] = step
      /\ \A v \in HookWorkflows : v # w => webhook'[v] = webhook[v]
  BY <1>1, <1>3, HookGoes DEF HookSteps
<1>5. r.runs \in HookGroups /\ \A v \in HookWorkflows : ~Handling(v)
  BY <1>1, <1>2 DEF HookShape, OneHandles
<1>6. /\ readRuns' \in [HookWorkflows -> HookGroups]
      /\ \A v \in HookWorkflows : v # w => readRuns'[v] = readRuns[v]
      /\ step = "store" => readRuns'[w] = r.runs
      /\ rowLock' \subseteq HookWorkflows
  BY <1>1, <1>3, <1>5, <1>2 DEF HookShape
<1>7. HookShape' /\ EndedHooks'
  BY <1>1, <1>2, <1>4, <1>6 DEF HookShape, EndedHooks
<1>8. OneHandles'
  <2>1. \A v \in HookWorkflows : Handling(v)' => v = w /\ step = "store"
    BY <1>4, <1>5 DEF Handling
  <2>2. step = "done" => rowLock' = {}
    BY <1>2, <1>3
  <2> QED
    BY <1>1, <1>2, <1>3, <1>4, <1>6, <2>1, <2>2 DEF OneHandles, Handling
<1>9. RowsTell'
  BY <1>1, <1>2, <1>3, <1>4 DEF RowsTell, Truthful, TellsHandled, OneHandles
<1>10. ReadTells'
  BY <1>3, <1>4, <1>5 DEF ReadTells, Handling
<1>11. SentIsTold' /\ AllTold'
  BY <1>1, <1>2, <1>3, <1>4 DEF SentIsTold, AllTold
<1>12. Told => Told'
  BY <1>2, <1>4, <1>6 DEF Told, Final
<1> QED
  BY <1>7, <1>8, <1>9, <1>10, <1>11, <1>12 DEF HookInv

\* A handler stores what it has read, with the end of its own workflow: all of it, when no
\* workflow is pending and one has failed.
LEMMA HookStores ==
    ASSUME HookInv, NEW F, NEW C, NEW w \in HookWorkflows, Webhooks(F, C)!Store(w)
    PROVE  HookInv' /\ (Told => Told')
<1>1. HookShape /\ OneHandles /\ EndedHooks /\ RowsTell /\ ReadTells /\ SentIsTold /\ AllTold
  BY DEF HookInv
<1>2. PICK group, sends :
        /\ group = GroupWith(readRuns[w], w, real[w])
        /\ sends = (/\ \A v \in DOMAIN group : group[v] # "pending"
                    /\ \E v \in DOMAIN group : group[v] = "failure")
  OBVIOUS
<1>3. /\ UNCHANGED <<real, comments, cleans>> /\ webhook[w] = "store"
      /\ rows' = IF w \in rowLock THEN {[runs |-> group, sent |-> sends]}
                 ELSE rows \cup {[runs |-> group, sent |-> sends]}
      /\ webhook' = [webhook EXCEPT ![w] = IF sends THEN "comment" ELSE "done"]
      /\ readRuns' = [readRuns EXCEPT ![w] = IF sends THEN group ELSE [v \in {} |-> "pending"]]
      /\ rowLock' = rowLock \ {w}
  BY <1>2 DEF Webhooks!Store, Webhooks!With, Webhooks!To, Webhooks!ShouldSend,
              Webhooks!NonePending, Webhooks!Failing, Webhooks!NoRuns, GroupWith
<1>4. /\ readRuns[w] \in HookGroups /\ w \in DOMAIN real /\ real[w] \in HookStatus
      /\ real[w] # "pending"
  <2>1. w \in DOMAIN real /\ real[w] # "pending"
    BY <1>1, <1>3 DEF EndedHooks
  <2>2. real[w] \in HookStatus
    BY <1>1, <2>1 DEF HookShape, HookGroups
  <2> QED
    BY <1>1, <2>1, <2>2 DEF HookShape
<1>5. /\ group \in HookGroups /\ DOMAIN group = DOMAIN readRuns[w] \cup {w}
      /\ group[w] = real[w] /\ \A v \in DOMAIN readRuns[w] : v # w => group[v] = readRuns[w][v]
  <2>1. \A g \in HookGroups, st \in HookStatus :
          /\ GroupWith(g, w, st) \in HookGroups /\ DOMAIN GroupWith(g, w, st) = DOMAIN g \cup {w}
          /\ GroupWith(g, w, st)[w] = st
          /\ \A v \in DOMAIN g : v # w => GroupWith(g, w, st)[v] = g[v]
    BY Zenon, GroupNames
  <2> QED
    BY <1>2, <1>4, <2>1
<1>6. Truthful(readRuns[w]) /\ TellsHandled(readRuns[w])
  <2>1. CASE w \in rowLock
    <3>1. PICK r \in rows : ~r.sent /\ readRuns[w] = r.runs
      BY <1>1, <2>1 DEF OneHandles
    <3> QED
      BY <1>1, <3>1 DEF RowsTell
  <2>2. CASE w \notin rowLock
    BY <1>1, <1>3, <2>2 DEF ReadTells
  <2> QED
    BY <2>1, <2>2
\* Whoever has a lock is w, and without one there are no rows.
<1>7. rows' = {[runs |-> group, sent |-> sends]} /\ rowLock' = {}
  <2>1. \A v \in rowLock : v = w
    BY <1>1, <1>3 DEF OneHandles, Handling, HookShape
  <2>2. w \notin rowLock => rows = {}
    BY <1>1, <1>3 DEF OneHandles, Handling
  <2> QED
    BY <1>3, <2>1, <2>2
<1>8. \A r \in rows : ~r.sent
  BY <1>1, <1>3 DEF OneHandles, Handling
<1>9. sends \in BOOLEAN
  BY <1>2
<1>10. PICK step \in {"comment", "done"} :
         /\ step = (IF sends THEN "comment" ELSE "done")
         /\ webhook' = [webhook EXCEPT ![w] = step]
  BY <1>3, <1>9
<1>11. /\ webhook' \in [HookWorkflows -> HookSteps] /\ webhook'[w] = step
       /\ \A v \in HookWorkflows : v # w => webhook'[v] = webhook[v]
  BY <1>1, <1>10, HookGoes DEF HookSteps
<1>13. /\ readRuns' \in [HookWorkflows -> HookGroups]
       /\ \A v \in HookWorkflows : v # w => readRuns'[v] = readRuns[v]
       /\ sends => readRuns'[w] = group
  BY <1>1, <1>3, <1>5, NoGroup DEF HookShape
<1>14. Truthful(group)' /\ TellsHandled(group)'
  <2>1. Truthful(group)'
    BY <1>3, <1>4, <1>5, <1>6 DEF Truthful
  <2>2. TellsHandled(group)'
    BY <1>3, <1>4, <1>5, <1>6, <1>11 DEF TellsHandled
  <2> QED
    BY <2>1, <2>2
<1>15. \A r \in rows' : r.runs = group /\ r.sent = sends
  BY <1>7
<1>16. HookShape' /\ EndedHooks'
  <2>1. rows' \subseteq [runs : HookGroups, sent : BOOLEAN]
    BY <1>5, <1>7, <1>9
  <2> QED
    BY <1>1, <1>3, <1>7, <1>11, <1>13, <2>1 DEF HookShape, EndedHooks
<1>17. OneHandles'
  <2>1. \A v \in HookWorkflows : ~(Handling(v)')
    BY <1>1, <1>3, <1>10, <1>11 DEF OneHandles, Handling
  <2> QED
    BY <1>7, <2>1 DEF OneHandles, Handling
<1>18. RowsTell'
  BY <1>14, <1>15 DEF RowsTell, Truthful, TellsHandled
<1>19. ReadTells'
  BY <1>1, <1>3, <1>10, <1>11 DEF ReadTells, OneHandles, Handling
<1>20. SentIsTold'
  BY <1>9, <1>10, <1>11, <1>15 DEF SentIsTold
<1>21. AllTold'
  <2>1. ASSUME \A v \in HookWorkflows : webhook'[v] = "done",
               NEW u \in DOMAIN real, real[u] = "failure"
        PROVE  FALSE
    <3>1. ~sends /\ u \in HookWorkflows
      BY <1>1, <1>10, <1>11, <2>1 DEF HookShape, HookGroups
    <3>2. \A v \in HookWorkflows : v \in DOMAIN group /\ group[v] = real[v] /\ real[v] # "pending"
      BY <1>3, <1>4, <1>11, <1>14, <1>16, <2>1 DEF TellsHandled, EndedHooks
    <3>3. DOMAIN group \subseteq HookWorkflows
      BY <1>5 DEF HookGroups
    <3> QED
      BY <1>2, <2>1, <3>1, <3>2, <3>3
  <2> QED
    BY <1>3, <2>1 DEF AllTold
<1>22. Told => Told'
  <2>1. SUFFICES ASSUME Told PROVE Told'
    OBVIOUS
  <2>2. comments = <<>> /\ \A v \in HookWorkflows : webhook[v] # "comment"
    BY <1>8, <2>1 DEF Told
  <2>3. sends => Final(group)'
    BY <1>2, <1>14 DEF Final, Truthful
  <2>4. \A v \in HookWorkflows : webhook'[v] = "comment" => v = w /\ sends
    BY <1>10, <1>11, <2>2
  <2>5. Len(comments) <= 1 /\ DOMAIN comments = {}
    BY <2>2
  <2>6. \A v \in HookWorkflows : webhook'[v] = "comment" => Final(readRuns[v])'
    BY <1>13, <2>3, <2>4 DEF Final
  <2>7. (\E v \in HookWorkflows : webhook'[v] = "comment") => \E r \in rows' : r.sent
    BY <1>7, <2>4
  <2> QED
    BY <1>3, <2>2, <2>4, <2>5, <2>6, <2>7 DEF Told, Final
<1> QED
  BY <1>16, <1>17, <1>18, <1>19, <1>20, <1>21, <1>22 DEF HookInv

\* A handler that has marked the row comments, once.
LEMMA HookComments ==
    ASSUME HookInv, NEW F, NEW C, NEW w \in HookWorkflows, Webhooks(F, C)!Comment(w)
    PROVE  HookInv' /\ (Told => Told')
<1>1. HookShape /\ OneHandles /\ EndedHooks /\ RowsTell /\ ReadTells /\ SentIsTold /\ AllTold
  BY DEF HookInv
<1>2. /\ UNCHANGED <<real, rows, rowLock, cleans>> /\ webhook[w] = "comment"
      /\ webhook' = [webhook EXCEPT ![w] = "done"]
      /\ comments' = Append(comments, readRuns[w])
      /\ readRuns' = [readRuns EXCEPT ![w] = [v \in {} |-> "pending"]]
  BY DEF Webhooks!Comment, Webhooks!To, Webhooks!NoRuns
<1>3. /\ webhook' \in [HookWorkflows -> HookSteps] /\ webhook'[w] = "done"
      /\ \A v \in HookWorkflows : v # w => webhook'[v] = webhook[v]
  BY <1>1, <1>2, HookGoes DEF HookSteps
<1>4. /\ readRuns' \in [HookWorkflows -> HookGroups] /\ readRuns[w] \in HookGroups
      /\ \A v \in HookWorkflows : v # w => readRuns'[v] = readRuns[v]
  BY <1>1, <1>2, NoGroup DEF HookShape
<1>5. /\ comments' \in Seq(HookGroups) /\ comments' # <<>> /\ Len(comments') = Len(comments) + 1
      /\ comments \in Seq(HookGroups) /\ comments'[Len(comments) + 1] = readRuns[w]
  BY <1>1, <1>2, <1>4 DEF HookShape
<1>6. HookShape' /\ EndedHooks'
  BY <1>1, <1>2, <1>3, <1>4, <1>5 DEF HookShape, EndedHooks
<1>7. OneHandles'
  <2>1. w \notin rowLock
    BY <1>1, <1>2 DEF OneHandles
  <2> QED
    BY <1>1, <1>2, <1>3, <1>4, <2>1 DEF OneHandles, Handling, HookShape
<1>8. RowsTell' /\ ReadTells'
  BY <1>1, <1>2, <1>3, <1>4 DEF RowsTell, ReadTells, Truthful, TellsHandled
<1>9. SentIsTold' /\ AllTold'
  BY <1>5 DEF SentIsTold, AllTold
<1>10. Told => Told'
  <2>1. SUFFICES ASSUME Told PROVE Told'
    OBVIOUS
  <2>2. /\ comments = <<>> /\ Final(readRuns[w]) /\ \E r \in rows : r.sent
        /\ \A v \in HookWorkflows : v # w => webhook[v] # "comment"
    BY <1>2, <2>1 DEF Told
  <2>3. \A v \in HookWorkflows : webhook'[v] # "comment"
    BY <1>3, <2>2
  <2>4. Len(comments') = 1 /\ DOMAIN comments' = {1} /\ comments'[1] = readRuns[w]
    <3>1. Len(comments) = 0
      BY <2>2
    <3>2. DOMAIN comments' = 1 .. Len(comments')
      BY <1>5
    <3> QED
      BY <1>5, <3>1, <3>2
  <2>5. \A i \in DOMAIN comments' : Final(comments[i])'
    BY <1>2, <2>2, <2>4 DEF Final
  <2> QED
    BY <1>2, <2>2, <2>3, <2>4, <2>5 DEF Told, Final
<1> QED
  BY <1>6, <1>7, <1>8, <1>9, <1>10 DEF HookInv

\* Old rows are removed, when nobody holds them.
LEMMA HookCleans ==
    ASSUME HookInv, NEW F, NEW C, Webhooks(F, C)!Clean
    PROVE  HookInv' /\ (C = 0 => FALSE)
<1>1. HookShape /\ OneHandles /\ EndedHooks /\ RowsTell /\ ReadTells /\ SentIsTold /\ AllTold
  BY DEF HookInv
<1>2. /\ rows # {} /\ rowLock = {} /\ rows' = {} /\ cleans < C /\ cleans' = cleans + 1
      /\ UNCHANGED <<real, rowLock, webhook, readRuns, comments>>
  BY DEF Webhooks!Clean, Webhooks!Locks
<1>3. HookShape'
  BY <1>1, <1>2 DEF HookShape
<1>4. OneHandles' /\ EndedHooks' /\ RowsTell' /\ ReadTells'
  BY <1>1, <1>2 DEF OneHandles, Handling, EndedHooks, RowsTell, ReadTells, Truthful, TellsHandled
<1>5. SentIsTold' /\ AllTold'
  BY <1>1, <1>2 DEF SentIsTold, AllTold
<1>6. C # 0
  BY <1>1, <1>2 DEF HookShape
<1> QED
  BY <1>3, <1>4, <1>5, <1>6 DEF HookInv

LEMMA HookStep ==
    ASSUME HookInv, NEW F, NEW C, [Webhooks(F, C)!Next]_proactiveVars
    PROVE  HookInv' /\ (C = 0 /\ Told => Told')
<1>1. CASE UNCHANGED <<real, rows, rowLock, webhook, readRuns, comments, cleans>>
  <2>1. HookShape' /\ OneHandles' /\ EndedHooks' /\ SentIsTold' /\ AllTold'
    BY <1>1 DEF HookInv, HookShape, OneHandles, Handling, EndedHooks, SentIsTold, AllTold
  <2>2. RowsTell' /\ ReadTells'
    BY <1>1 DEF HookInv, RowsTell, ReadTells, Truthful, TellsHandled
  <2>3. Told => Told'
    BY <1>1 DEF Told, Final
  <2> QED
    BY <2>1, <2>2, <2>3 DEF HookInv
<1>2. CASE Webhooks(F, C)!Push
  BY <1>1, <1>2 DEF Webhooks!Push
<1>3. CASE UNCHANGED proactiveVars
  BY <1>1, <1>3 DEF proactiveVars
<1>4. CASE Webhooks(F, C)!Clean
  BY <1>4, HookCleans
<1>5. ASSUME NEW w \in HookWorkflows,
             \/ Webhooks(F, C)!Queue(w) \/ Webhooks(F, C)!Finish(w) \/ Webhooks(F, C)!Trigger(w)
             \/ Webhooks(F, C)!FindNone(w) \/ Webhooks(F, C)!Find(w) \/ Webhooks(F, C)!Fetch(w)
             \/ Webhooks(F, C)!Store(w) \/ Webhooks(F, C)!Comment(w) \/ Webhooks(F, C)!Fail(w)
      PROVE  HookInv' /\ (Told => Told')
  BY <1>5, HookGitHub, HookLeaves, HookReads, HookFinds, HookStores, HookComments
<1> QED
  BY <1>2, <1>3, <1>4, <1>5 DEF Webhooks!Next

\* What the invariant says of the rows, of what is missed, and of the one comment.
LEMMA HookKeeps ==
    ASSUME HookInv, NEW F, NEW C
    PROVE  /\ Webhooks(F, C)!RowsKeepUp /\ Webhooks(F, C)!NothingMissed
           /\ Told => Webhooks(F, C)!CommentOnce
<1>1. Webhooks(F, C)!RowsKeepUp
  BY DEF HookInv, RowsTell, Truthful, TellsHandled, Webhooks!RowsKeepUp
<1>2. Webhooks(F, C)!NothingMissed
  BY DEF HookInv, AllTold, Webhooks!NothingMissed, Webhooks!Failing
<1>3. ASSUME Told PROVE Webhooks(F, C)!CommentOnce
  <2>1. PICK commenting : commenting = {w \in HookWorkflows : webhook[w] = "comment"}
    OBVIOUS
  <2>2. commenting = {} \/ \E w : commenting = {w}
    <3>1. \A v, w \in commenting : v = w
      BY <1>3, <2>1 DEF Told
    <3>2. ASSUME NEW w \in commenting PROVE commenting = {w}
      BY <3>1
    <3> QED
      BY <3>2
  <2>3. Cardinality(commenting) \in {0, 1} /\ (comments # <<>> => Cardinality(commenting) = 0)
    BY <1>3, <2>1, <2>2, FS_EmptySet, FS_Singleton DEF Told
  <2>4. Len(comments) \in Nat /\ Len(comments) <= 1 /\ (Len(comments) = 0 <=> comments = <<>>)
    BY <1>3 DEF Told, HookInv, HookShape
  <2>5. Len(comments) + Cardinality(commenting) <= 1
    BY <2>3, <2>4
  <2>6. Webhooks(F, C)!Cardinality(commenting) = Cardinality(commenting)
    BY DEF Webhooks!Cardinality, Cardinality
  <2>7. Webhooks(F, C)!Range(comments) = {comments[i] : i \in DOMAIN comments}
    BY DEF Webhooks!Range
  <2>8. \A c \in Webhooks(F, C)!Range(comments) : Final(c)
    BY <1>3, <2>7 DEF Told
  <2> QED
    BY <2>1, <2>5, <2>6, <2>8 DEF Webhooks!CommentOnce, Webhooks!Failing, Final
<1> QED
  BY <1>1, <1>2, <1>3

-----------------------------------------------------------------------------
(* The parts together.                                                     *)

SharedInv ==
    /\ part \in {"cluster", "crowded"} => ClusterInv
    /\ part = "tokens" => TokenInv
    /\ part = "created" => DockerInv
    /\ part \in {"workflows", "cleaned"} => HookInv
    /\ part = "workflows" => Told

\* A step of the behaviour is one of the part that it runs.
LEMMA SharedParts ==
    ASSUME [Next]_vars
    PROVE  /\ UNCHANGED part
           /\ part = "cluster" => [Cluster(FALSE)!Next]_clusterVars
           /\ part = "crowded" => [Cluster(TRUE)!Next]_clusterVars
           /\ part = "tokens" => [Tokens!Next]_tokenVars
           /\ part = "created" => [Created!Next]_dockerVars
           /\ part = "workflows" => [Webhooks(MaxLostHooks, 0)!Next]_proactiveVars
           /\ part = "cleaned" => [Webhooks(0, MaxCleaned)!Next]_proactiveVars
<1>1. CASE UNCHANGED vars
  BY <1>1 DEF vars
<1>2. CASE Next
  <2>1. UNCHANGED part
    BY <1>2 DEF Next
  <2>2. ASSUME part = "cluster" PROVE Cluster(FALSE)!Next
    BY Zenon, <1>2, <2>2 DEF Next
  <2>3. ASSUME part = "crowded" PROVE Cluster(TRUE)!Next
    BY ZenonT(40), <1>2, <2>3 DEF Next
  <2>4. ASSUME part = "tokens" PROVE Tokens!Next
    BY <1>2, <2>4 DEF Next
  <2>5. ASSUME part = "created" PROVE Created!Next
    BY <1>2, <2>5 DEF Next
  <2>6. ASSUME part = "workflows" PROVE Webhooks(MaxLostHooks, 0)!Next
    BY <1>2, <2>6 DEF Next
  <2>7. ASSUME part = "cleaned" PROVE Webhooks(0, MaxCleaned)!Next
    BY <1>2, <2>7 DEF Next
  <2> QED
    BY <2>1, <2>2, <2>3, <2>4, <2>5, <2>6, <2>7
<1> QED
  BY <1>1, <1>2

LEMMA SharedStarts == Init => SharedInv
<1> SUFFICES ASSUME Init PROVE SharedInv
  OBVIOUS
<1>1. /\ \E crowded \in BOOLEAN : Cluster(crowded)!Init
      /\ Tokens!Init
      /\ part = "created" => Created!Init
      /\ Webhooks(0, MaxCleaned)!Init \/ Webhooks(MaxLostHooks, 0)!Init
  BY DEF Init
<1> QED
  BY <1>1, ClusterInit, TokenInit, DockerInit, HookInit DEF SharedInv

LEMMA SharedSteps == SharedInv /\ [Next]_vars => SharedInv'
<1> SUFFICES ASSUME SharedInv, [Next]_vars PROVE SharedInv'
  OBVIOUS
<1>1. UNCHANGED part
  BY SharedParts
<1>2. ASSUME part \in {"cluster", "crowded"} PROVE ClusterInv'
  <2>1. \E crowded \in BOOLEAN : [Cluster(crowded)!Next]_clusterVars
    BY <1>2, SharedParts
  <2>2. ClusterInv
    BY <1>2 DEF SharedInv
  <2> QED
    BY <2>1, <2>2, ClusterStep
<1>3. ASSUME part = "tokens" PROVE TokenInv'
  BY <1>3, SharedParts, TokenStep DEF SharedInv
<1>4. ASSUME part = "created" PROVE DockerInv'
  BY <1>4, SharedParts, DockerStep DEF SharedInv
<1>5. ASSUME part = "workflows" PROVE HookInv' /\ Told'
  BY <1>5, SharedParts, HookStep DEF SharedInv
<1>6. ASSUME part = "cleaned" PROVE HookInv'
  BY <1>6, SharedParts, HookStep DEF SharedInv
<1> QED
  BY <1>1, <1>2, <1>3, <1>4, <1>5, <1>6 DEF SharedInv

\* Whatever the servers, tokens, ports and workflows are: a conversation is not run by two
\* servers, no refresh token is presented twice, a port is locked by one process, found
\* free it is free, and a paused runtime keeps it; and a pull request's webhooks are all
\* taken up, and commented on once.
THEOREM OnceShared == Spec => []SharedOnce
<1>1. SharedInv => SharedOnce
  <2> SUFFICES ASSUME SharedInv PROVE SharedOnce
    OBVIOUS
  <2>1. ASSUME part \in {"cluster", "crowded"}, NEW crowded \in BOOLEAN
        PROVE  Cluster(crowded)!OneLoop
    BY <2>1 DEF SharedInv, ClusterInv, OneClaim, Cluster!OneLoop
  <2>2. ASSUME part = "tokens" PROVE Tokens!RefreshedOnce
    BY <2>2 DEF SharedInv, TokenInv, TokenShape, PresentedOnce, Tokens!RefreshedOnce
  <2>3. ASSUME part = "created" PROVE Created!Exclusive /\ Created!FoundIsFree /\ Created!PausedKeepsPort
    BY <2>3, DockerKeeps DEF SharedInv
  <2>4. ASSUME part \in {"workflows", "cleaned"}, NEW F, NEW C
        PROVE  /\ Webhooks(F, C)!RowsKeepUp /\ Webhooks(F, C)!NothingMissed
               /\ part = "workflows" => Webhooks(F, C)!CommentOnce
    BY <2>4, HookKeeps DEF SharedInv
  <2> QED
    BY <2>1, <2>2, <2>3, <2>4 DEF SharedOnce
<1> QED
  BY <1>1, SharedStarts, SharedSteps, PTL DEF Spec

-----------------------------------------------------------------------------
(* What requests hold of a conversation.                                   *)

Objects == 1..MaxAttachObjects
AttachShape ==
    /\ holder \in AttachRequests \cup {"cleanup", "none"}
    /\ active \in [conv : Objects \cup {0}, count : Nat]
    /\ detached \in Objects \cup {0}
    /\ conv \in [Objects -> [st : {"unmade", "connecting", "open", "closed"}, loop : Nat,
                             own : BOOLEAN]]
    /\ holds \in [AttachRequests -> [pc : {"idle", "connect", "use", "refused"},
                                     conv : Objects \cup {0}]]
    /\ loop \in Nat

\* Objects are made in order.
UpTo(n) == \A c \in Objects : conv[c].st # "unmade" <=> c <= n
MadeInOrder == \E n \in Nat : UpTo(n)

Users == {r \in AttachRequests : holds[r].pc = "use"}

\* The table counts the requests that use its object, or it is empty and nobody uses any.
Counts ==
    /\ active.count = Cardinality(Users)
    /\ active.conv = 0 <=> Users = {}
    /\ \A r \in Users : holds[r].conv = active.conv

\* An object is open when it is in a table, and never in both.
Tables ==
    /\ active.conv # 0 => conv[active.conv].st = "open" /\ detached = 0
    /\ detached # 0 => conv[detached].st = "open"
    /\ \A c \in Objects : conv[c].st = "open" => c \in {active.conv, detached}

\* Who connects holds the lock, and nothing is in the tables; a cleanup has what to clean.
LockHeld ==
    /\ \A r \in AttachRequests : holds[r].pc = "connect" =>
           /\ holder = r /\ holds[r].conv \in Objects /\ conv[holds[r].conv].st = "connecting"
           /\ active.conv = 0 /\ detached = 0
    /\ holder = "cleanup" => detached # 0

AttachInv == AttachShape /\ MadeInOrder /\ Counts /\ Tables /\ LockHeld

LEMMA AttachConstants ==
    /\ IsFiniteSet(AttachRequests) /\ "cleanup" \notin AttachRequests
    /\ "none" \notin AttachRequests /\ IsFiniteSet(Objects) /\ 0 \notin Objects
    /\ Objects = 1..Cardinality(Objects) /\ Cardinality(Objects) \in Nat
<1>1. Connected!AttachmentAssumption
  BY InstancesAssumption DEF InstancesAssumption
<1>2. /\ IsFiniteSet(AttachRequests) /\ "cleanup" \notin AttachRequests
      /\ "none" \notin AttachRequests /\ IsFiniteSet(Objects) /\ 0 \notin Objects
      /\ Objects = 1..Cardinality(Objects)
  BY <1>1, AttachCardinality DEF Connected!AttachmentAssumption, Objects
<1> QED
  BY <1>2, FS_CardinalityType

LEMMA AttachStarts == ASSUME Connected!Init PROVE AttachInv
<1>1. AttachShape
  BY DEF Connected!Init, Connected!NoEntry, AttachShape, Objects
<1>2. UpTo(0)
  BY DEF Connected!Init, UpTo, Objects
<1>3. Users = {} /\ Cardinality(Users) = 0
  BY FS_EmptySet DEF Connected!Init, Users
<1>4. Counts /\ Tables /\ LockHeld
  BY <1>3 DEF Connected!Init, Connected!NoEntry, Counts, Tables, LockHeld, Objects
<1> QED
  BY <1>1, <1>2, <1>4 DEF AttachInv, MadeInOrder

\* The next object to be made.
LEMMA NextObject ==
    ASSUME AttachShape, MadeInOrder, Connected!Made # Objects, NEW n, n = Cardinality(Connected!Made) + 1
    PROVE  /\ n \in Objects /\ conv[n].st = "unmade"
           /\ \A c \in Objects : conv[c].st # "unmade" <=> c <= n - 1
<1>1. PICK k \in Nat : UpTo(k)
  BY DEF MadeInOrder
<1>2. Connected!Made = {c \in Objects : c <= k}
  BY <1>1 DEF UpTo, Connected!Made, Objects
<1>3. PICK o \in Objects : o > k
  BY <1>2 DEF Objects
<1>4. k < Cardinality(Objects)
  BY <1>3, AttachConstants
<1>5. Connected!Made = 1..k
  BY <1>2, <1>4, AttachConstants
<1>6. Cardinality(1..k) = k
  BY FS_Interval
<1>7. n = k + 1
  BY <1>5, <1>6
<1> QED
  BY <1>7, <1>4, <1>1, AttachConstants DEF UpTo

LEMMA EmptyTable ==
    ASSUME AttachInv
    PROVE  /\ active.conv = 0 <=> active = Connected!NoEntry
           /\ IsFiniteSet(Users)
           /\ active.conv # 0 => active.count > 0
<1>1. IsFiniteSet(Users)
  BY AttachConstants, FS_Subset DEF Users
<1>2. /\ active.count = Cardinality(Users) /\ active.count \in Nat
      /\ active = [conv |-> active.conv, count |-> active.count]
      /\ active.conv = 0 <=> Users = {}
  BY DEF AttachInv, AttachShape, Counts
<1> QED
  BY <1>1, <1>2, FS_EmptySet DEF Connected!NoEntry

\* The objects and their order, when objects that are made change.
LEMMA OrderStays ==
    ASSUME MadeInOrder, \A c \in Objects : conv'[c].st # "unmade" <=> conv[c].st # "unmade"
    PROVE  MadeInOrder'
BY DEF MadeInOrder, UpTo, Objects

LEMMA AttachActiveKeeps ==
    ASSUME AttachInv, NEW r \in AttachRequests, Connected!AttachActive(r) PROVE AttachInv'
<1>1. AttachShape'
  BY DEF AttachInv, AttachShape, Connected!AttachActive, Connected!Counted, Connected!Uses
<1>2. Users' = Users \cup {r} /\ r \notin Users
  BY DEF AttachInv, AttachShape, Connected!AttachActive, Connected!Uses, Users
<1>3. Cardinality(Users') = active.count + 1
  BY <1>2, OneMore, EmptyTable DEF AttachInv, Counts
<1>4. active.conv # 0
  BY EmptyTable DEF Connected!AttachActive
<1>5. Counts'
  BY <1>2, <1>3, <1>4 DEF AttachInv, AttachShape, Counts, Connected!AttachActive,
     Connected!Counted, Connected!Uses, Users
<1>6. Tables' /\ MadeInOrder'
  BY OrderStays DEF AttachInv, AttachShape, Tables, Connected!AttachActive, Connected!Counted
<1>7. LockHeld'
  BY <1>4 DEF AttachInv, AttachShape, LockHeld, Connected!AttachActive, Connected!Uses
<1> QED
  BY <1>1, <1>5, <1>6, <1>7 DEF AttachInv

\* The tables are empty, and a request takes the object c.
LEMMA FirstUser ==
    ASSUME AttachInv, active.conv = 0, NEW r \in AttachRequests, NEW c \in Objects,
           active' = [conv |-> c, count |-> 1], Connected!Uses(r, c)
    PROVE  Counts'
<1>1. Users' = {r}
  BY DEF AttachInv, AttachShape, Counts, Connected!Uses, Users
<1>2. Cardinality({r}) = 1
  BY FS_Singleton
<1> QED
  BY <1>1, <1>2 DEF AttachInv, AttachShape, Counts, Connected!Uses, Objects

LEMMA AttachDetachedKeeps ==
    ASSUME AttachInv, NEW r \in AttachRequests, Connected!AttachDetached(r) PROVE AttachInv'
<1>1. AttachShape'
  BY SMTT(20) DEF AttachInv, AttachShape, Connected!AttachDetached, Connected!Popped, Connected!Uses, Objects
<1>2. active.conv = 0 /\ detached \in Objects
  BY EmptyTable DEF Connected!AttachDetached, AttachInv, AttachShape
<1>3. Counts'
  BY <1>2, FirstUser DEF Connected!AttachDetached
<1>4. Tables' /\ MadeInOrder'
  BY <1>2, OrderStays DEF AttachInv, AttachShape, Tables, Connected!AttachDetached, Connected!Popped
<1>5. LockHeld'
  BY <1>2 DEF AttachInv, AttachShape, LockHeld, Connected!AttachDetached, Connected!Uses, Connected!Popped
<1> QED
  BY <1>1, <1>3, <1>4, <1>5 DEF AttachInv

\* The next object is made.
LEMMA NextMade ==
    ASSUME AttachShape, MadeInOrder, NEW n \in Objects,
           \A c \in Objects : conv[c].st # "unmade" <=> c <= n - 1,
           NEW f, f.st # "unmade", conv' = [conv EXCEPT ![n] = f]
    PROVE  MadeInOrder'
<1>1. n \in Nat
  BY DEF Objects
<1>2. \A c \in Objects : conv'[c].st # "unmade" <=> c <= n
  BY <1>1 DEF AttachShape, Objects
<1> QED
  BY <1>1, <1>2 DEF MadeInOrder, UpTo

LEMMA AttachNewKeeps ==
    ASSUME AttachInv, NEW r \in AttachRequests, Connected!AttachNew(r) PROVE AttachInv'
<1> DEFINE n == Cardinality(Connected!Made) + 1
<1>1. /\ n \in Objects /\ conv[n].st = "unmade"
      /\ \A c \in Objects : conv[c].st # "unmade" <=> c <= n - 1
  BY NextObject DEF Connected!AttachNew, AttachInv, Objects
<1>2. Connected!Cardinality(Connected!Made) + 1 = n
  BY AttachCardinality
<1>3. /\ active.conv = 0 /\ detached = 0 /\ holder = "none" /\ holds[r].pc = "idle"
      /\ detached' = detached /\ loop' = loop
  BY EmptyTable DEF Connected!AttachNew
<1>4. Connected!Current \in Nat
  BY DEF AttachInv, AttachShape, Connected!Current
<1> HIDE DEF n
<1>5. CASE phase = "running"
  <2>1. /\ conv' = [conv EXCEPT ![n] = [st |-> "open", loop |-> Connected!Current, own |-> FALSE]]
        /\ active' = [conv |-> n, count |-> 1] /\ Connected!Uses(r, n) /\ holder' = holder
    BY <1>2, <1>5 DEF Connected!AttachNew
  <2>2. AttachShape'
    BY <2>1, <1>1, <1>3, <1>4 DEF AttachInv, AttachShape, Connected!Uses
  <2>3. MadeInOrder'
    BY <2>1, <1>1, NextMade DEF AttachInv
  <2>4. Counts'
    BY <2>1, <1>1, <1>3, FirstUser
  <2>5. Tables'
    BY <2>1, <1>1, <1>3 DEF AttachInv, AttachShape, Tables
  <2>6. LockHeld'
    BY <2>1, <1>1, <1>3, AttachConstants DEF AttachInv, AttachShape, LockHeld, Connected!Uses
  <2> QED
    BY <2>2, <2>3, <2>4, <2>5, <2>6 DEF AttachInv
<1>6. CASE phase # "running"
  <2>1. /\ conv' = [conv EXCEPT ![n] = [st |-> "connecting", loop |-> Connected!Current, own |-> TRUE]]
        /\ holds' = [holds EXCEPT ![r] = [pc |-> "connect", conv |-> n]]
        /\ holder' = r /\ active' = active
    BY <1>2, <1>6 DEF Connected!AttachNew
  <2>2. AttachShape'
    BY <2>1, <1>1, <1>3, <1>4 DEF AttachInv, AttachShape
  <2>3. MadeInOrder'
    BY <2>1, <1>1, NextMade DEF AttachInv
  <2>4. Users' = Users
    BY <2>1, <1>3 DEF AttachInv, AttachShape, Users
  <2>5. Counts'
    BY <2>1, <2>4, <1>3 DEF AttachInv, AttachShape, Counts, Users
  <2>6. Tables'
    BY <2>1, <1>1, <1>3 DEF AttachInv, AttachShape, Tables
  <2>7. LockHeld'
    BY <2>1, <1>1, <1>3, AttachConstants DEF AttachInv, AttachShape, LockHeld
  <2> QED
    BY <2>2, <2>3, <2>5, <2>6, <2>7 DEF AttachInv
<1> QED
  BY <1>5, <1>6

LEMMA ConnectedKeeps ==
    ASSUME AttachInv, NEW r \in AttachRequests, Connected!Connected(r) PROVE AttachInv'
<1> DEFINE c == holds[r].conv
<1>1. /\ holder = r /\ c \in Objects /\ conv[c].st = "connecting" /\ active.conv = 0 /\ detached = 0
      /\ holds[r].pc = "connect" /\ holder' = "none" /\ detached' = detached /\ loop' = loop
  BY DEF AttachInv, LockHeld, Connected!Connected, Connected!Released
<1> HIDE DEF c
<1>2. \A q \in AttachRequests : q # r => holds[q].pc # "connect"
  BY <1>1 DEF AttachInv, LockHeld
<1>3. CASE /\ conv' = [conv EXCEPT ![c].st = "open"] /\ active' = [conv |-> c, count |-> 1]
           /\ Connected!Uses(r, c)
  <2>1. AttachShape'
    BY <1>1, <1>3 DEF AttachInv, AttachShape, Connected!Uses
  <2>2. MadeInOrder'
    BY <1>1, <1>3, OrderStays DEF AttachInv, AttachShape
  <2>3. Counts'
    BY <1>1, <1>3, FirstUser
  <2>4. Tables'
    BY <1>1, <1>3 DEF AttachInv, AttachShape, Tables
  <2>5. LockHeld'
    BY <1>1, <1>2, <1>3 DEF AttachInv, AttachShape, LockHeld, Connected!Uses
  <2> QED
    BY <2>1, <2>2, <2>3, <2>4, <2>5 DEF AttachInv
<1>4. CASE /\ conv' = [conv EXCEPT ![c].st = "closed"] /\ active' = active
           /\ holds' = [holds EXCEPT ![r] = [pc |-> "refused", conv |-> 0]]
  <2>1. AttachShape'
    BY <1>1, <1>4 DEF AttachInv, AttachShape
  <2>2. MadeInOrder'
    BY <1>1, <1>4, OrderStays DEF AttachInv, AttachShape
  <2>3. Users' = Users
    BY <1>1, <1>4 DEF AttachInv, AttachShape, Users
  <2>4. Counts'
    BY <1>1, <1>4, <2>3 DEF AttachInv, AttachShape, Counts, Users
  <2>5. Tables'
    BY <1>1, <1>4 DEF AttachInv, AttachShape, Tables
  <2>6. LockHeld'
    BY <1>1, <1>2, <1>4 DEF AttachInv, AttachShape, LockHeld
  <2> QED
    BY <2>1, <2>2, <2>4, <2>5, <2>6 DEF AttachInv
<1> QED
  BY <1>3, <1>4 DEF Connected!Connected, c

LEMMA DetachKeeps ==
    ASSUME AttachInv, NEW r \in AttachRequests, Connected!Detach(r) PROVE AttachInv'
<1>1. r \in Users /\ active.conv # 0 /\ detached = 0 /\ holder = "none" /\ holds[r].conv = active.conv
  BY EmptyTable DEF AttachInv, Counts, Tables, Users, Connected!Detach
<1>2. /\ conv' = conv /\ loop' = loop /\ holder' = holder
      /\ holds' = [holds EXCEPT ![r] = [pc |-> "idle", conv |-> 0]]
  BY DEF Connected!Detach
<1>3. MadeInOrder'
  BY <1>2, OrderStays DEF AttachInv
<1>4. Users' = Users \ {r} /\ Cardinality(Users') = active.count - 1
  <2>1. Users' = Users \ {r}
    BY <1>2 DEF AttachInv, AttachShape, Users
  <2> QED
    BY <2>1, <1>1, OneLess, EmptyTable DEF AttachInv, Counts
<1>5. active # Connected!NoEntry
  BY <1>1, EmptyTable
<1>6. CASE active.count > 1
  <2>1. active' = [active EXCEPT !.count = @ - 1] /\ detached' = detached
    BY <1>5, <1>6 DEF Connected!Detach
  <2>2. AttachShape'
    BY <2>1, <1>2, <1>6 DEF AttachInv, AttachShape
  <2>3. Users' # {}
    <3>1. Cardinality(Users') # 0
      BY <1>4, <1>6 DEF AttachInv, AttachShape
    <3> QED
      BY <3>1, FS_EmptySet
  <2>4. Counts'
    BY <2>1, <2>3, <1>1, <1>2, <1>4 DEF AttachInv, AttachShape, Counts, Users
  <2>5. Tables' /\ LockHeld'
    BY <2>1, <1>1, <1>2 DEF AttachInv, AttachShape, Tables, LockHeld
  <2> QED
    BY <2>2, <2>4, <2>5, <1>3 DEF AttachInv
<1>7. CASE ~(active.count > 1)
  <2>1. active' = Connected!NoEntry /\ detached' = active.conv
    BY <1>1, <1>5, <1>7 DEF Connected!Detach
  <2>2. AttachShape'
    BY <2>1, <1>1, <1>2 DEF AttachInv, AttachShape, Connected!NoEntry
  <2>3. IsFiniteSet(Users') /\ Cardinality(Users') = 0
    BY <1>1, <1>4, <1>7, EmptyTable, OneLess DEF AttachInv, AttachShape
  <2>4. Users' = {}
    BY <2>3, FS_EmptySet
  <2>5. Counts'
    BY <2>1, <2>3, <2>4 DEF Counts, Connected!NoEntry
  <2>6. Tables' /\ LockHeld'
    BY <2>1, <1>1, <1>2 DEF AttachInv, AttachShape, Tables, LockHeld, Connected!NoEntry
  <2> QED
    BY <2>2, <2>5, <2>6, <1>3 DEF AttachInv
<1> QED
  BY <1>6, <1>7

LEMMA AgainKeeps ==
    ASSUME AttachInv, NEW r \in AttachRequests, Connected!Again(r) PROVE AttachInv'
<1>1. Users' = Users
  BY DEF AttachInv, AttachShape, Users, Connected!Again
<1>2. AttachShape' /\ MadeInOrder' /\ Tables' /\ LockHeld'
  BY OrderStays DEF AttachInv, AttachShape, Tables, LockHeld, Connected!Again
<1>3. Counts'
  BY <1>1 DEF AttachInv, AttachShape, Counts, Users, Connected!Again
<1> QED
  BY <1>2, <1>3 DEF AttachInv

LEMMA CleanupKeeps ==
    ASSUME AttachInv, Connected!CleanupBegins \/ Connected!CleanupEnds PROVE AttachInv'
<1>1. CASE Connected!CleanupBegins
  <2>1. AttachShape' /\ MadeInOrder' /\ Tables'
    BY <1>1, OrderStays DEF AttachInv, AttachShape, Tables, Connected!CleanupBegins
  <2>2. Counts' /\ LockHeld'
    BY <1>1, AttachConstants DEF AttachInv, AttachShape, Counts, Users, LockHeld, Connected!CleanupBegins,
       Connected!Parked
  <2> QED
    BY <2>1, <2>2 DEF AttachInv
<1>2. CASE Connected!CleanupEnds
  <2>1. detached \in Objects /\ active.conv = 0 /\ conv[detached].st = "open"
    BY <1>2 DEF AttachInv, AttachShape, LockHeld, Tables, Connected!CleanupEnds
  <2>2. AttachShape' /\ MadeInOrder'
    BY <1>2, <2>1, OrderStays DEF AttachInv, AttachShape, Connected!CleanupEnds
  <2>3. Counts' /\ Tables'
    BY <1>2, <2>1 DEF AttachInv, AttachShape, Counts, Users, Tables, Connected!CleanupEnds
  <2>4. LockHeld'
    BY <1>2, <2>1, AttachConstants DEF AttachInv, AttachShape, LockHeld, Connected!CleanupEnds
  <2> QED
    BY <2>2, <2>3, <2>4 DEF AttachInv
<1> QED
  BY <1>1, <1>2

LEMMA LoopKeeps ==
    ASSUME AttachInv, UNCHANGED <<holder, active, detached, conv, holds>>, loop' \in Nat
    PROVE  AttachInv'
BY OrderStays DEF AttachInv, AttachShape, Counts, Users, Tables, LockHeld

LEMMA AttachStep == AttachInv /\ [Connected!Next]_attachVars => AttachInv'
<1> SUFFICES ASSUME AttachInv, [Connected!Next]_attachVars PROVE AttachInv'
  OBVIOUS
<1>1. CASE UNCHANGED attachVars
  BY <1>1, LoopKeeps DEF attachVars, AttachInv, AttachShape
<1>2. ASSUME NEW r \in AttachRequests,
             Connected!Attach(r) \/ Connected!Connected(r) \/ Connected!Detach(r) \/ Connected!Again(r)
      PROVE  AttachInv'
  BY <1>2, AttachActiveKeeps, AttachDetachedKeeps, AttachNewKeeps, ConnectedKeeps, DetachKeeps,
     AgainKeeps DEF Connected!Attach
<1>3. CASE Connected!LoopStarts \/ Connected!LoopHasRuntime \/ Connected!LoopStops
  <2>1. UNCHANGED <<holder, active, detached, conv, holds>> /\ loop' \in Nat
    BY <1>3 DEF Connected!LoopStarts, Connected!LoopHasRuntime, Connected!LoopStops, AttachInv, AttachShape
  <2> QED
    BY <2>1, LoopKeeps
<1> QED
  BY <1>1, <1>2, <1>3, CleanupKeeps DEF Connected!Next

LEMMA AttachHolds == AttachInv => Connected!UsedIsOpen /\ Connected!CountsRight
<1> SUFFICES ASSUME AttachInv PROVE Connected!UsedIsOpen /\ Connected!CountsRight
  OBVIOUS
<1>1. Connected!UsedIsOpen
  BY DEF AttachInv, Counts, Tables, Users, Connected!UsedIsOpen
<1>2. Connected!CountsRight
  BY AttachCardinality DEF AttachInv, Counts, Tables, Users, Connected!CountsRight, Objects
<1> QED
  BY <1>1, <1>2

-----------------------------------------------------------------------------
(* The servers of a machine.                                               *)

Machines == 1..MaxLocalServers
ServerStates == [st : {"none", "alive", "dead"}, works : Nat, own : Nat]
Entries == [srv : Machines \cup {0}, temp : Nat]
RuntimeStates == [st : {"away", "waiting", "ready", "failed"}, sid : LocalSids \cup {""},
                  srv : Machines \cup {0}, temp : Nat]
LocalShape(h) ==
    /\ srv \in [Machines -> ServerStates] /\ running \in [LocalSids -> Entries]
    /\ warm \in Seq(Machines) /\ warming \in SUBSET Machines
    /\ local \in [h.runtimes -> RuntimeStates] /\ connects \in Nat

IsOpen(r) == local[r].st # "away"
WarmOnes == {warm[i] : i \in DOMAIN warm}
Pool == WarmOnes \cup warming
IsMade(s) == s \in Machines /\ srv[s].st # "none"

\* The list and the threads have servers that are made, each of them once.
PoolApart ==
    /\ \A s \in Pool : IsMade(s)
    /\ WarmOnes \cap warming = {}
    /\ \A i, j \in DOMAIN warm : warm[i] = warm[j] => i = j

\* The servers of sessions are none of these, and each is of one session.
SessionsApart(h) ==
    /\ \A r \in h.runtimes : IsOpen(r) =>
           local[r].sid \in LocalSids /\ IsMade(local[r].srv) /\ local[r].srv \notin Pool
    /\ \A t \in LocalSids : running[t].srv # 0 => IsMade(running[t].srv) /\ running[t].srv \notin Pool
    /\ \A t, u \in LocalSids : running[t].srv = running[u].srv /\ running[t].srv # 0 => t = u
    /\ \A r \in h.runtimes, t \in LocalSids :
           IsOpen(r) /\ running[t].srv = local[r].srv => local[r].sid = t
    /\ \A r, q \in h.runtimes :
           IsOpen(r) /\ IsOpen(q) /\ local[r].srv = local[q].srv => local[r].sid = local[q].sid

LocalInv(h) == LocalShape(h) /\ PoolApart /\ SessionsApart(h)

LEMMA LocalConstants ==
    /\ \A h \in {LocalOnes, AttachedOnes} : Locals(h)!LocalAssumption
    /\ MaxLocalServers \in Nat /\ WarmInitial \in 0..MaxLocalServers /\ WarmDesired \in Nat
<1>1. Locals(LocalOnes)!LocalAssumption /\ Locals(AttachedOnes)!LocalAssumption
  BY InstancesAssumption DEF InstancesAssumption
<1>2. \A h \in {LocalOnes, AttachedOnes} : Locals(h)!LocalAssumption
  BY <1>1
<1> QED
  BY <1>1, <1>2 DEF Locals!LocalAssumption

\* The first servers are in the list; there is nothing else.
LEMMA LocalBegins == ASSUME NEW h, Locals(h)!Init PROVE LocalInv(h)
<1>1. /\ srv = [s \in Machines |-> IF s <= WarmInitial
                  THEN [st |-> "alive", works |-> 0, own |-> s]
                  ELSE [st |-> "none", works |-> 0, own |-> 0]]
      /\ warm = [i \in 1..WarmInitial |-> i] /\ warming = {}
      /\ running = [t \in LocalSids |-> [srv |-> 0, temp |-> 0]]
      /\ local = [r \in h.runtimes |-> [st |-> "away", sid |-> "", srv |-> 0, temp |-> 0]]
      /\ connects = 0
  BY DEF Locals!Init, Locals!NoEntry, Locals!Away, Locals!ServerDir, Locals!Servers, Machines
<1>2. /\ [srv |-> 0, temp |-> 0] \in Entries
      /\ [st |-> "away", sid |-> "", srv |-> 0, temp |-> 0] \in RuntimeStates
      /\ \A s \in Machines : /\ [st |-> "alive", works |-> 0, own |-> s] \in ServerStates
                             /\ [st |-> "none", works |-> 0, own |-> 0] \in ServerStates
  BY DEF Entries, RuntimeStates, ServerStates, Machines
<1>3. warm \in Seq(Machines) /\ WarmOnes = 1..WarmInitial
  <2>1. WarmInitial \in Nat /\ \A i \in 1..WarmInitial : i \in Machines
    BY LocalConstants DEF Machines
  <2>2. warm \in [1..WarmInitial -> Machines]
    BY ONLY <1>1, <2>1
  <2>3. warm \in Seq(Machines)
    BY ONLY <2>1, <2>2 DEF Seq
  <2> QED
    BY <1>1, <2>1, <2>3 DEF WarmOnes
<1>4. LocalShape(h)
  BY <1>1, <1>2, <1>3 DEF LocalShape
<1>5. PoolApart
  <2>1. \A s \in 1..WarmInitial : s \in Machines /\ srv[s].st # "none"
    <3>1. \A s \in 1..WarmInitial : s \in Machines /\ s <= WarmInitial
      BY LocalConstants DEF Machines
    <3>2. \A s \in Machines : s <= WarmInitial => srv[s] = [st |-> "alive", works |-> 0, own |-> s]
      BY ONLY <1>1
    <3>3. ASSUME NEW s \in 1..WarmInitial PROVE s \in Machines /\ srv[s].st # "none"
      <4>1. s \in Machines /\ srv[s] = [st |-> "alive", works |-> 0, own |-> s]
        BY <3>1, <3>2
      <4>2. srv[s].st = "alive"
        BY ONLY <4>1
      <4> QED
        BY ONLY <4>1, <4>2
    <3> QED
      BY <3>3
  <2>2. Pool = 1..WarmInitial /\ warming = {}
    BY <1>1, <1>3 DEF Pool
  <2>3. \A i, j \in DOMAIN warm : warm[i] = warm[j] => i = j
    BY ONLY <1>1
  <2> QED
    BY <2>1, <2>2, <2>3 DEF PoolApart, IsMade
<1>6. SessionsApart(h)
  BY <1>1 DEF SessionsApart, IsOpen
<1> QED
  BY <1>4, <1>5, <1>6 DEF LocalInv

\* Servers that are made stay so.
MadeStay == \A s \in Machines : srv[s].st # "none" => srv'[s].st # "none"

\* The table and the runtimes name fewer servers, and who is new in the list is a new server.
LEMMA SessionsShrink ==
    ASSUME NEW h, SessionsApart(h), MadeStay,
           \A r \in h.runtimes : IsOpen(r)' =>
               IsOpen(r) /\ local'[r].srv = local[r].srv /\ local'[r].sid = local[r].sid,
           \A t \in LocalSids : running'[t].srv \in {0, running[t].srv},
           \A s \in Pool' : s \in Pool \/ ~IsMade(s)
    PROVE  SessionsApart(h)'
<1>1. \A s : IsMade(s) => IsMade(s)'
  BY DEF MadeStay, IsMade
<1>2. \A s : IsMade(s) /\ s \notin Pool => IsMade(s)' /\ s \notin Pool' /\ s # 0
  BY <1>1 DEF IsMade, Machines
<1> QED
  BY <1>2 DEF SessionsApart

\* A runtime takes a server that no other has, for a session that has none.
LEMMA SessionTakes ==
    ASSUME NEW h, SessionsApart(h), MadeStay, Pool' \subseteq Pool,
           NEW r \in h.runtimes, NEW t \in LocalSids, NEW s \in Machines,
           running[t].srv = 0, ~IsOpen(r), IsMade(s)', s \notin Pool', s # 0,
           IsMade(s) => s \in Pool,
           local'[r].srv = s, local'[r].sid = t, running'[t].srv = s,
           \A q \in h.runtimes : q # r => local'[q] = local[q],
           \A u \in LocalSids : u # t => running'[u] = running[u]
    PROVE  SessionsApart(h)'
<1>1. \A o : IsMade(o) => IsMade(o)'
  BY DEF MadeStay, IsMade
<1>2. /\ \A q \in h.runtimes : IsOpen(q) => local[q].srv # s
      /\ \A u \in LocalSids : running[u].srv # 0 => running[u].srv # s
  BY DEF SessionsApart
<1>3. /\ \A q \in h.runtimes : q # r => (IsOpen(q)' <=> IsOpen(q))
      /\ \A q \in h.runtimes : q # r => local'[q].srv = local[q].srv /\ local'[q].sid = local[q].sid
      /\ \A u \in LocalSids : u # t => running'[u].srv = running[u].srv
  BY DEF IsOpen
<1> QED
  BY <1>1, <1>2, <1>3 DEF SessionsApart

\* A runtime joins the server of a session.
LEMMA SessionJoins ==
    ASSUME NEW h, SessionsApart(h), UNCHANGED <<srv, running, warm, warming>>,
           NEW r \in h.runtimes, NEW t \in LocalSids, running[t].srv # 0,
           local'[r].srv = running[t].srv, local'[r].sid = t,
           \A q \in h.runtimes : q # r => local'[q] = local[q]
    PROVE  SessionsApart(h)'
<1>1. Pool' = Pool /\ \A o : IsMade(o)' <=> IsMade(o)
  BY DEF Pool, WarmOnes, IsMade
<1>2. /\ \A q \in h.runtimes : q # r => (IsOpen(q)' <=> IsOpen(q))
      /\ \A q \in h.runtimes : q # r => local'[q].srv = local[q].srv /\ local'[q].sid = local[q].sid
  BY DEF IsOpen
<1> QED
  BY <1>1, <1>2 DEF SessionsApart

\* Threads begin with new servers, or end.
LEMMA PoolGrows ==
    ASSUME PoolApart, MadeStay, UNCHANGED warm, NEW F, warming' \subseteq warming \cup F,
           \A s \in F : ~IsMade(s) /\ IsMade(s)'
    PROVE  PoolApart' /\ \A s \in Pool' : s \in Pool \/ ~IsMade(s)
<1>1. \A o : IsMade(o) => IsMade(o)'
  BY DEF MadeStay, IsMade
<1>2. WarmOnes' = WarmOnes
  BY DEF WarmOnes
<1> QED
  BY <1>1, <1>2 DEF PoolApart, Pool

LEMMA PoolPops ==
    ASSUME PoolApart, MadeStay, warm \in Seq(Machines), warm # <<>>, warm' = Tail(warm), UNCHANGED warming
    PROVE  /\ PoolApart' /\ Pool' \subseteq Pool /\ Head(warm) \in WarmOnes /\ Head(warm) \notin Pool'
           /\ Pool \subseteq Pool' \cup {Head(warm)}
<1>1. /\ Len(warm) \in Nat \ {0} /\ DOMAIN warm = 1..Len(warm) /\ Head(warm) = warm[1]
      /\ DOMAIN warm' = 1..(Len(warm) - 1) /\ \A i \in 1..(Len(warm) - 1) : warm'[i] = warm[i + 1]
  BY HeadTailProperties
<1>2. \A i \in DOMAIN warm' : i + 1 \in DOMAIN warm /\ i + 1 # 1
  BY <1>1
<1>3. /\ \A i, j \in DOMAIN warm' : warm'[i] = warm'[j] => i = j
      /\ \A i \in DOMAIN warm' : warm'[i] # warm[1]
  BY <1>1, <1>2 DEF PoolApart
<1>4. WarmOnes' \subseteq WarmOnes /\ Head(warm) \in WarmOnes /\ Head(warm) \notin WarmOnes'
  BY <1>1, <1>2, <1>3 DEF WarmOnes
<1>5. WarmOnes \subseteq WarmOnes' \cup {Head(warm)}
  <2>1. ASSUME NEW i \in DOMAIN warm, i # 1 PROVE warm[i] \in WarmOnes'
    <3>1. i - 1 \in DOMAIN warm' /\ warm'[i - 1] = warm[i]
      BY <1>1, <2>1
    <3> QED
      BY <3>1 DEF WarmOnes
  <2> QED
    BY <2>1, <1>1 DEF WarmOnes
<1>6. \A o : IsMade(o) => IsMade(o)'
  BY DEF MadeStay, IsMade
<1> QED
  BY <1>3, <1>4, <1>5, <1>6 DEF PoolApart, Pool

LEMMA PoolReady ==
    ASSUME PoolApart, MadeStay, warm \in Seq(Machines), NEW s \in warming, s \in Machines,
           warming' = warming \ {s}, warm' = Append(warm, s)
    PROVE  PoolApart' /\ Pool' = Pool
<1>1. /\ Len(warm) \in Nat /\ DOMAIN warm = 1..Len(warm) /\ DOMAIN warm' = 1..(Len(warm) + 1)
      /\ \A i \in 1..Len(warm) : warm'[i] = warm[i]
      /\ warm'[Len(warm) + 1] = s
  BY AppendProperties
<1>2. WarmOnes' = WarmOnes \cup {s}
  BY <1>1 DEF WarmOnes
<1>3. \A i, j \in DOMAIN warm' : warm'[i] = warm'[j] => i = j
  BY <1>1 DEF PoolApart, WarmOnes
<1>4. \A o : IsMade(o) => IsMade(o)'
  BY DEF MadeStay, IsMade
<1> QED
  BY <1>2, <1>3, <1>4 DEF PoolApart, Pool

LEMMA PoolEmpties ==
    ASSUME PoolApart, MadeStay, warm' = <<>>, UNCHANGED warming
    PROVE  PoolApart' /\ Pool' = warming
<1>1. WarmOnes' = {}
  BY DEF WarmOnes
<1>2. \A o : IsMade(o) => IsMade(o)'
  BY DEF MadeStay, IsMade
<1> QED
  BY <1>1, <1>2 DEF PoolApart, Pool

\* Where each session has one runtime, and none attaches: what is alive, and each directory,
\* has somebody who will remove it.
IsAlive(s) == s # 0 /\ srv[s].st = "alive"
OneEach == \A r, q \in LocalRuntimes :
    IsOpen(r) /\ IsOpen(q) /\ local[r].sid = local[q].sid => r = q
TableTrue == \A t \in LocalSids : running[t].srv # 0 =>
    \E r \in LocalRuntimes : IsOpen(r) /\ local[r].sid = t
HeldListed == \A r \in LocalRuntimes : IsOpen(r) /\ IsAlive(local[r].srv) =>
    running[local[r].sid].srv = local[r].srv
ServersKept == \A s \in Machines : srv[s].st = "alive" =>
    s \in Pool \/ \E r \in LocalRuntimes : IsOpen(r) /\ local[r].srv = s
DirsKept == \A d \in dirs :
    \/ \E s \in Pool : srv[s].own = d
    \/ \E r \in LocalRuntimes : IsOpen(r) /\ local[r].temp = d
KeptInv == OneEach /\ TableTrue /\ HeldListed /\ ServersKept /\ DirsKept

\* A step keeps what it must keep of one instance of the module.
LocalKeeps(h) == LocalInv(h)' /\ (h = LocalOnes /\ KeptInv => KeptInv')

LEMMA LocalRecords ==
    /\ \A s \in Machines, t \in Nat : [srv |-> s, temp |-> t] \in Entries
    /\ [srv |-> 0, temp |-> 0] \in Entries
    /\ \A u \in LocalSids, s \in Machines, t \in Nat :
           [st |-> "waiting", sid |-> u, srv |-> s, temp |-> t] \in RuntimeStates
    /\ [st |-> "away", sid |-> "", srv |-> 0, temp |-> 0] \in RuntimeStates
    /\ \A w, o \in Nat : [st |-> "alive", works |-> w, own |-> o] \in ServerStates
BY DEF Entries, RuntimeStates, ServerStates

\* How a runtime connects to a server: s of the directory d, for the session t.
Joined(r, t, s, d) == local' = [local EXCEPT ![r] = [st |-> "waiting", sid |-> t, srv |-> s, temp |-> d]]

LEMMA JoinedShape ==
    ASSUME NEW h, LocalShape(h), NEW r \in h.runtimes, NEW t \in LocalSids, NEW s \in Machines,
           NEW d \in Nat, Joined(r, t, s, d)
    PROVE  /\ local' \in [h.runtimes -> RuntimeStates]
           /\ IsOpen(r)' /\ local'[r].sid = t /\ local'[r].srv = s /\ local'[r].temp = d
           /\ \A q \in h.runtimes : q # r => local'[q] = local[q]
<1>1. [st |-> "waiting", sid |-> t, srv |-> s, temp |-> d] \in RuntimeStates
  BY LocalRecords
<1> QED
  BY <1>1 DEF LocalShape, Joined, IsOpen

LEMMA ConnectKeeps ==
    ASSUME NEW h, LocalInv(h), NEW r \in h.runtimes, NEW t \in LocalSids,
           Locals(h)!ConnectExisting(r, t) \/ Locals(h)!ConnectRefused(r, t)
    PROVE  LocalKeeps(h)
<1>1. UNCHANGED <<srv, running, warm, warming, dirs>> /\ connects' = connects + 1
  BY DEF Locals!ConnectExisting, Locals!ConnectRefused, Locals!Connects
<1>2. MadeStay /\ PoolApart'
  BY <1>1 DEF LocalInv, MadeStay, PoolApart, Pool, WarmOnes, IsMade
<1>3. CASE Locals(h)!ConnectExisting(r, t)
  <2>1. running[t].srv # 0 /\ Joined(r, t, running[t].srv, running[t].temp) /\ Locals(h)!Connects(r, t)
    BY <1>3 DEF Locals!ConnectExisting, Locals!Holds, Joined
  <2>2. running[t].srv \in Machines /\ running[t].temp \in Nat
    BY <2>1 DEF LocalInv, LocalShape, Entries
  <2>3. LocalShape(h)'
    BY <1>1, <2>1, <2>2, JoinedShape DEF LocalInv, LocalShape
  <2>4. SessionsApart(h)'
    BY <1>1, <2>1, <2>2, JoinedShape, SessionJoins DEF LocalInv
  <2>5. ASSUME h = LocalOnes PROVE ~KeptInv
    BY <2>1, <2>5 DEF Locals!Connects, KeptInv, TableTrue, LocalOnes
  <2> QED
    BY <1>2, <2>3, <2>4, <2>5 DEF LocalKeeps, LocalInv
<1>4. CASE Locals(h)!ConnectRefused(r, t)
  <2>1. local' = local /\ r \in h.attached
    BY <1>4 DEF Locals!ConnectRefused
  <2>2. LocalShape(h)' /\ SessionsApart(h)'
    BY <1>1, <2>1 DEF LocalInv, LocalShape, SessionsApart, IsOpen, IsMade, Pool, WarmOnes
  <2>3. h # LocalOnes
    BY <2>1 DEF LocalOnes
  <2> QED
    BY <1>2, <2>2, <2>3 DEF LocalKeeps, LocalInv
<1> QED
  BY <1>3, <1>4

\* A runtime takes the server s, which nobody else will take, and makes the directory d; what
\* was known of others stays.
LEMMA TakenKeeps ==
    ASSUME KeptInv, NEW r \in LocalRuntimes, NEW t \in LocalSids, NEW s \in Machines, NEW d \in Nat,
           LocalInv(LocalOnes), SessionsApart(LocalOnes)', ~IsOpen(r),
           \A q \in LocalRuntimes : local[q].sid # t,
           IsOpen(r)', local'[r].sid = t, local'[r].srv = s, local'[r].temp = d,
           \A q \in LocalRuntimes : q # r => local'[q] = local[q],
           running'[t].srv = s, \A u \in LocalSids : u # t => running'[u] = running[u],
           Pool \subseteq Pool' \cup {s}, Pool' \subseteq Pool,
           \A o \in Machines : o # s => srv'[o] = srv[o],
           dirs' \subseteq (dirs \ {srv[s].own}) \cup {d} \/ (dirs' \subseteq dirs \cup {d} /\ s \notin Pool)
    PROVE  KeptInv'
<1>1. \A q \in LocalRuntimes : q # r => (IsOpen(q)' <=> IsOpen(q)) /\ local'[q] = local[q]
  BY DEF IsOpen
<1>2. OneEach'
  BY <1>1 DEF KeptInv, OneEach
<1>3. TableTrue'
  BY <1>1 DEF KeptInv, TableTrue
<1>4. HeldListed'
  <2>1. ASSUME NEW q \in LocalRuntimes, q # r, IsOpen(q)', srv'[local'[q].srv].st = "alive"
        PROVE  running'[local'[q].sid].srv = local'[q].srv
    <3>1. IsOpen(q) /\ local'[q] = local[q] /\ local[q].sid # t /\ local[q].sid \in LocalSids
          /\ local[q].srv \in Machines
      BY <1>1, <2>1 DEF LocalInv, SessionsApart, IsMade, LocalOnes
    <3>2. local[q].srv # s
      BY <2>1, <3>1, <1>1 DEF SessionsApart, LocalOnes
    <3>3. IsAlive(local[q].srv)
      BY <2>1, <3>1, <3>2 DEF IsAlive, Machines
    <3>4. running[local[q].sid].srv = local[q].srv
      BY <3>1, <3>3 DEF KeptInv, HeldListed
    <3> QED
      BY <3>1, <3>4
  <2> QED
    BY <2>1 DEF HeldListed, IsAlive
<1>5. ServersKept'
  <2>1. ASSUME NEW o \in Machines, o # s, srv'[o].st = "alive"
        PROVE  o \in Pool' \/ \E q \in LocalRuntimes : IsOpen(q)' /\ local'[q].srv = o
    BY <2>1, <1>1 DEF KeptInv, ServersKept
  <2> QED
    BY <2>1 DEF ServersKept
<1>6. DirsKept'
  <2>1. ASSUME NEW e \in dirs', e # d
        PROVE  \/ \E o \in Pool' : srv'[o].own = e
               \/ \E q \in LocalRuntimes : IsOpen(q)' /\ local'[q].temp = e
    <3>1. e \in dirs /\ (e # srv[s].own \/ s \notin Pool)
      BY <2>1
    <3>2. Pool \subseteq Machines
      BY DEF LocalInv, PoolApart, IsMade
    <3>3. CASE \E o \in Pool : srv[o].own = e
      BY <3>1, <3>2, <3>3
    <3>4. CASE \E q \in LocalRuntimes : IsOpen(q) /\ local[q].temp = e
      BY <3>4, <1>1
    <3> QED
      BY <3>1, <3>3, <3>4 DEF KeptInv, DirsKept
  <2> QED
    BY <2>1 DEF DirsKept
<1> QED
  BY <1>2, <1>3, <1>4, <1>5, <1>6 DEF KeptInv

LEMMA TempNumber == ASSUME NEW h, LocalShape(h) PROVE Locals(h)!Temp \in Nat
BY LocalConstants DEF LocalShape, Locals!Temp, Locals!ConnectDir

LEMMA FreeSession ==
    ASSUME NEW r \in LocalRuntimes, NEW t \in LocalSids, Locals(LocalOnes)!Connects(r, t)
    PROVE  \A q \in LocalRuntimes : local[q].sid # t
BY DEF Locals!Connects, LocalOnes

LEMMA TakesKeeps ==
    ASSUME NEW h, LocalInv(h), NEW r \in h.runtimes, NEW t \in LocalSids, NEW s \in Machines,
           NEW d \in Nat, Locals(h)!Connects(r, t), running[t].srv = 0, Joined(r, t, s, d),
           running' = [running EXCEPT ![t] = [srv |-> s, temp |-> d]],
           srv' \in [Machines -> ServerStates], warm' \in Seq(Machines), warming' = warming,
           MadeStay, PoolApart', Pool' \subseteq Pool, s \notin Pool',
           h = LocalOnes => Pool \subseteq Pool' \cup {s}, IsMade(s) => s \in Pool, srv'[s].st # "none",
           \A o \in Machines : o # s => srv'[o] = srv[o],
           dirs' \subseteq (dirs \ {srv[s].own}) \cup {d} \/ (dirs' \subseteq dirs \cup {d} /\ s \notin Pool)
    PROVE  LocalKeeps(h)
<1>1. ~IsOpen(r) /\ connects' = connects + 1
  BY DEF Locals!Connects, IsOpen
<1>2. /\ local' \in [h.runtimes -> RuntimeStates]
      /\ IsOpen(r)' /\ local'[r].sid = t /\ local'[r].srv = s /\ local'[r].temp = d
      /\ \A q \in h.runtimes : q # r => local'[q] = local[q]
  BY JoinedShape DEF LocalInv
<1>3. /\ running' \in [LocalSids -> Entries] /\ running'[t].srv = s
      /\ \A u \in LocalSids : u # t => running'[u] = running[u]
  BY LocalRecords DEF LocalInv, LocalShape
<1>4. LocalShape(h)'
  BY <1>1, <1>2, <1>3 DEF LocalInv, LocalShape
<1>5. SessionsApart(h)'
  <2>1. IsMade(s)' /\ s # 0
    BY SMTT(20) DEF IsMade, Machines
  <2> QED
    BY <1>1, <1>2, <1>3, <2>1, SessionTakes DEF LocalInv
<1>6. ASSUME h = LocalOnes, KeptInv PROVE KeptInv'
  <2>1. r \in LocalRuntimes /\ \A q \in LocalRuntimes : local[q].sid # t
    BY <1>6, FreeSession DEF LocalOnes
  <2>2. SessionsApart(LocalOnes)' /\ LocalInv(LocalOnes)
    BY <1>5, <1>6
  <2>3. \A q \in LocalRuntimes : q # r => local'[q] = local[q]
    BY <1>2, <1>6 DEF LocalOnes
  <2> QED
    BY <1>1, <1>2, <1>3, <1>6, <2>1, <2>2, <2>3, TakenKeeps
<1> QED
  BY <1>4, <1>5, <1>6 DEF LocalKeeps, LocalInv

LEMMA ConnectWarmKeeps ==
    ASSUME NEW h, LocalInv(h), NEW r \in h.runtimes, NEW t \in LocalSids, Locals(h)!ConnectWarm(r, t)
    PROVE  LocalKeeps(h)
<1>1. PICK s : s = Head(warm)
  OBVIOUS
<1>2. PICK d : d = Locals(h)!Temp
  OBVIOUS
<1>3. /\ Locals(h)!Connects(r, t) /\ running[t].srv = 0 /\ warm # <<>> /\ warm' = Tail(warm)
      /\ Joined(r, t, s, d) /\ running' = [running EXCEPT ![t] = [srv |-> s, temp |-> d]]
      /\ dirs' = (dirs \ {srv[s].own}) \cup {d} /\ srv' = [srv EXCEPT ![s].own = 0]
      /\ warming' = warming
  BY <1>1, <1>2 DEF Locals!ConnectWarm, Locals!Popped, Locals!Holds, Locals!Registered, Joined
<1>4. warm \in Seq(Machines) /\ s \in Machines /\ IsMade(s) /\ s \in Pool /\ d \in Nat
  <2>1. warm \in Seq(Machines) /\ d \in Nat
    BY <1>2, TempNumber DEF LocalInv, LocalShape
  <2>2. s \in WarmOnes /\ s \in Machines
    BY <1>1, <1>3, <2>1, HeadTailProperties DEF WarmOnes
  <2> QED
    BY <2>1, <2>2 DEF LocalInv, PoolApart, Pool, Machines
<1>5. srv' \in [Machines -> ServerStates] /\ (\A o \in Machines : o # s => srv'[o] = srv[o])
      /\ srv'[s].st = srv[s].st
  <2>1. srv[s] \in ServerStates
    BY <1>4 DEF LocalInv, LocalShape
  <2>2. [srv[s] EXCEPT !.own = 0] \in ServerStates /\ [srv[s] EXCEPT !.own = 0].st = srv[s].st
    BY <2>1 DEF ServerStates
  <2>3. srv' = [srv EXCEPT ![s] = [srv[s] EXCEPT !.own = 0]]
    BY <1>3
  <2> QED
    BY <1>4, <2>2, <2>3 DEF LocalInv, LocalShape
<1>6. MadeStay /\ srv'[s].st # "none"
  BY <1>4, <1>5 DEF MadeStay, IsMade
<1>7. PoolApart' /\ Pool' \subseteq Pool /\ s \notin Pool' /\ Pool \subseteq Pool' \cup {s}
  BY <1>1, <1>3, <1>4, <1>6, PoolPops DEF LocalInv
<1>8. warm' \in Seq(Machines)
  BY <1>3, <1>4, HeadTailProperties
<1> QED
  BY <1>3, <1>4, <1>5, <1>6, <1>7, <1>8, TakesKeeps

\* A server that is not made yet.
LEMMA LowestUnmade ==
    ASSUME NEW h, LocalShape(h), NEW n
    PROVE  \A s \in Locals(h)!Lowest(n) : s \in Machines /\ ~IsMade(s)
BY DEF Locals!Lowest, Locals!Unused, Locals!Servers, Machines, IsMade

LEMMA ConnectNewKeeps ==
    ASSUME NEW h, LocalInv(h), NEW r \in h.runtimes, NEW t \in LocalSids, Locals(h)!ConnectNew(r, t)
    PROVE  LocalKeeps(h)
<1>1. PICK s : s \in Locals(h)!Lowest(1) /\
        /\ srv' = [srv EXCEPT ![s] = [st |-> "alive", works |-> Locals(h)!Temp, own |-> 0]]
        /\ Locals(h)!Holds(r, t, s, Locals(h)!Temp) /\ running' = Locals(h)!Registered(t, s, Locals(h)!Temp)
        /\ dirs' = dirs \cup {Locals(h)!Temp}
  BY DEF Locals!ConnectNew
<1>2. PICK d : d = Locals(h)!Temp
  OBVIOUS
<1>3. /\ Locals(h)!Connects(r, t) /\ running[t].srv = 0 /\ warming' = warming
      /\ Joined(r, t, s, d) /\ running' = [running EXCEPT ![t] = [srv |-> s, temp |-> d]]
      /\ dirs' = dirs \cup {d} /\ srv' = [srv EXCEPT ![s] = [st |-> "alive", works |-> d, own |-> 0]]
  BY <1>1, <1>2 DEF Locals!ConnectNew, Locals!Holds, Locals!Registered, Joined
<1>4. s \in Machines /\ ~IsMade(s) /\ s \notin Pool /\ d \in Nat /\ warm \in Seq(Machines)
  BY <1>1, <1>2, LowestUnmade, TempNumber DEF LocalInv, LocalShape, PoolApart
<1>5. srv' \in [Machines -> ServerStates] /\ (\A o \in Machines : o # s => srv'[o] = srv[o])
      /\ srv'[s].st = "alive"
  <2>1. [st |-> "alive", works |-> d, own |-> 0] \in ServerStates
    BY <1>4, LocalRecords
  <2> QED
    BY <1>3, <1>4, <2>1 DEF LocalInv, LocalShape
<1>6. MadeStay
  BY <1>4, <1>5 DEF MadeStay
<1>7. CASE UNCHANGED warm
  <2>1. WarmOnes' = WarmOnes /\ Pool' = Pool /\ \A o : IsMade(o) => IsMade(o)'
    BY <1>3, <1>6, <1>7 DEF WarmOnes, Pool, MadeStay, IsMade
  <2>2. PoolApart'
    BY <1>7, <2>1, <1>3 DEF LocalInv, PoolApart
  <2> QED
    BY <1>3, <1>4, <1>5, <1>6, <1>7, <2>1, <2>2, TakesKeeps
<1>8. CASE warm # <<>> /\ warm' = Tail(warm) /\ h.fails
  <2>1. PoolApart' /\ Pool' \subseteq Pool
    BY <1>3, <1>4, <1>6, <1>8, PoolPops DEF LocalInv
  <2>2. h # LocalOnes /\ warm' \in Seq(Machines)
    BY <1>4, <1>8, HeadTailProperties DEF LocalOnes
  <2> QED
    BY <1>3, <1>4, <1>5, <1>6, <2>1, <2>2, TakesKeeps
<1> QED
  BY <1>7, <1>8 DEF Locals!ConnectNew, Locals!Popped
\* What a step keeps that changes no runtime's session, server or directory.
SameRuntimes(h) ==
    /\ local' \in [h.runtimes -> RuntimeStates]
    /\ \A r \in h.runtimes : /\ IsOpen(r)' <=> IsOpen(r)
                             /\ local'[r].sid = local[r].sid /\ local'[r].srv = local[r].srv
                             /\ local'[r].temp = local[r].temp

LEMMA SameKeep ==
    ASSUME KeptInv, SessionsApart(LocalOnes)', SameRuntimes(LocalOnes),
           running' = running,
           \A s \in Machines : srv'[s].st = "alive" => srv[s].st = "alive" \/ s \in Pool',
           \A s \in Pool : s \in Pool' \/ srv'[s].st # "alive",
           \A d \in dirs' :
               \/ d \in dirs /\ \A s \in Pool : srv[s].own = d => s \in Pool' /\ srv'[s].own = d
               \/ \E s \in Pool' : srv'[s].own = d
    PROVE  KeptInv'
<1>1. \A r \in LocalRuntimes :
        /\ IsOpen(r)' <=> IsOpen(r)
        /\ local'[r].sid = local[r].sid /\ local'[r].srv = local[r].srv
        /\ local'[r].temp = local[r].temp
  BY DEF SameRuntimes, LocalOnes
<1>2. OneEach' /\ TableTrue'
  BY <1>1 DEF KeptInv, OneEach, TableTrue
<1>3. HeldListed'
  <2>1. ASSUME NEW r \in LocalRuntimes, IsOpen(r)', local'[r].srv # 0, srv'[local'[r].srv].st = "alive"
        PROVE  running'[local'[r].sid].srv = local'[r].srv
    <3>1. IsOpen(r) /\ local[r].srv \in Machines /\ local[r].srv \notin Pool' /\ srv[local[r].srv].st = "alive"
      BY <1>1, <2>1 DEF SessionsApart, IsMade, LocalOnes
    <3> QED
      BY <1>1, <2>1, <3>1 DEF KeptInv, HeldListed, IsAlive
  <2> QED
    BY <2>1 DEF HeldListed, IsAlive
<1>4. ServersKept'
  BY <1>1 DEF KeptInv, ServersKept
<1>5. DirsKept'
  <2>1. ASSUME NEW d \in dirs'
        PROVE  \/ \E s \in Pool' : srv'[s].own = d
               \/ \E r \in LocalRuntimes : IsOpen(r)' /\ local'[r].temp = d
    BY <1>1, <2>1 DEF KeptInv, DirsKept
  <2> QED
    BY <2>1 DEF DirsKept
<1> QED
  BY <1>2, <1>3, <1>4, <1>5 DEF KeptInv

\* Every step but a connection keeps the shape, and the parts that only shrink.
LEMMA OthersKeep ==
    ASSUME NEW h, LocalInv(h), MadeStay, PoolApart', \A s \in Pool' : s \in Pool \/ ~IsMade(s),
           srv' \in [Machines -> ServerStates], running' \in [LocalSids -> Entries],
           warm' \in Seq(Machines), warming' \subseteq Machines, connects' = connects,
           local' \in [h.runtimes -> RuntimeStates],
           \A r \in h.runtimes : IsOpen(r)' =>
               IsOpen(r) /\ local'[r].srv = local[r].srv /\ local'[r].sid = local[r].sid,
           \A t \in LocalSids : running'[t].srv \in {0, running[t].srv}
    PROVE  LocalInv(h)'
<1>1. LocalShape(h)'
  BY DEF LocalInv, LocalShape
<1>2. SessionsApart(h)'
  BY SessionsShrink DEF LocalInv
<1> QED
  BY <1>1, <1>2 DEF LocalInv

LEMMA SpawnsKeep ==
    ASSUME NEW h, LocalInv(h), NEW n, NEW w \in Nat, Locals(h)!Spawns(n, w), SameRuntimes(h),
           UNCHANGED <<running, warm, connects>>
    PROVE  LocalKeeps(h)
<1>1. PICK S : S = Locals(h)!Lowest(n)
  OBVIOUS
<1>2. /\ warming' = warming \cup S /\ dirs' = dirs \cup S
      /\ srv' = [s \in Machines |-> IF s \in S THEN [st |-> "alive", works |-> w, own |-> s] ELSE srv[s]]
  BY <1>1 DEF Locals!Spawns, Locals!ServerDir, Locals!Servers, Machines
<1>3. \A s \in S : s \in Machines /\ ~IsMade(s)
  BY <1>1, LowestUnmade DEF LocalInv
<1>4. srv' \in [Machines -> ServerStates] /\ warming' \subseteq Machines
  <2>1. \A s \in Machines : [st |-> "alive", works |-> w, own |-> s] \in ServerStates
    BY DEF Machines, ServerStates
  <2> QED
    BY <1>2, <1>3, <2>1 DEF LocalInv, LocalShape
<1>5. \A s \in Machines : IF s \in S THEN srv'[s].st = "alive" /\ srv'[s].own = s ELSE srv'[s] = srv[s]
  <2>1. ASSUME NEW s \in S PROVE srv'[s].st = "alive" /\ srv'[s].own = s
    <3>1. srv'[s] = [st |-> "alive", works |-> w, own |-> s]
      BY <1>2, <1>3
    <3> QED
      BY ONLY <3>1
  <2>2. \A s \in Machines \ S : srv'[s] = srv[s]
    BY <1>2
  <2> QED
    BY <1>3, <2>1, <2>2
<1>6. MadeStay
  BY <1>5 DEF MadeStay
<1>7. PoolApart' /\ \A s \in Pool' : s \in Pool \/ ~IsMade(s)
  <2>1. \A s \in S : IsMade(s)'
    BY <1>3, <1>5 DEF IsMade
  <2> QED
    BY <1>2, <1>3, <1>6, <2>1, PoolGrows DEF LocalInv
<1>8. LocalInv(h)'
  BY <1>4, <1>6, <1>7, OthersKeep DEF LocalInv, LocalShape, SameRuntimes
<1>9. ASSUME h = LocalOnes, KeptInv PROVE KeptInv'
  <2>1. Pool' = Pool \cup S
    BY <1>2 DEF Pool, WarmOnes
  <2>2. \A s \in Pool : s \in Machines /\ s \notin S /\ srv'[s] = srv[s]
    BY <1>3, <1>5 DEF LocalInv, PoolApart, IsMade
  <2>3. \A d \in dirs' :
               \/ d \in dirs /\ \A s \in Pool : srv[s].own = d => s \in Pool' /\ srv'[s].own = d
               \/ \E s \in Pool' : srv'[s].own = d
    BY <1>2, <1>3, <1>5, <2>1, <2>2
  <2>4. SessionsApart(LocalOnes)' /\ SameRuntimes(LocalOnes)
    BY <1>8, <1>9 DEF LocalInv
  <2> QED
    BY <1>5, <1>9, <2>1, <2>2, <2>3, <2>4, SameKeep
<1> QED
  BY <1>8, <1>9 DEF LocalKeeps

LEMMA AskersKeep ==
    ASSUME NEW h, LocalInv(h), NEW r \in h.runtimes, Locals(h)!Ready(r) \/ Locals(h)!Execute(r)
    PROVE  LocalKeeps(h)
<1>1. PICK n, w : /\ w = local[r].temp /\ Locals(h)!Spawns(n, w)
  BY DEF Locals!Ready, Locals!Execute
<1>2. w \in Nat /\ UNCHANGED <<running, warm, connects>>
  BY <1>1 DEF LocalInv, LocalShape, RuntimeStates, Locals!Ready, Locals!Execute
<1>3. SameRuntimes(h)
  <2>1. local[r] \in RuntimeStates
    BY DEF LocalInv, LocalShape
  <2>2. PICK v \in RuntimeStates : /\ local' = [local EXCEPT ![r] = v] /\ v.st # "away" /\ local[r].st # "away"
                                   /\ v.sid = local[r].sid /\ v.srv = local[r].srv /\ v.temp = local[r].temp
    <3>1. [local[r] EXCEPT !.st = "ready"] \in RuntimeStates
          /\ [local[r] EXCEPT !.st = "ready"].st = "ready"
          /\ [local[r] EXCEPT !.st = "ready"].sid = local[r].sid
          /\ [local[r] EXCEPT !.st = "ready"].srv = local[r].srv
          /\ [local[r] EXCEPT !.st = "ready"].temp = local[r].temp
      BY <2>1 DEF RuntimeStates
    <3>2. CASE Locals(h)!Ready(r)
      <4>1. local' = [local EXCEPT ![r] = [local[r] EXCEPT !.st = "ready"]] /\ local[r].st = "waiting"
        BY <3>2 DEF Locals!Ready
      <4> QED
        BY <3>1, <4>1
    <3>3. CASE Locals(h)!Execute(r)
      <4>1. local' = [local EXCEPT ![r] = local[r]] /\ local[r].st = "ready"
        BY <3>3 DEF Locals!Execute, LocalInv, LocalShape
      <4> QED
        BY <2>1, <4>1
    <3> QED
      BY <3>2, <3>3
  <2> QED
    BY <2>2 DEF LocalInv, LocalShape, SameRuntimes, IsOpen
<1> QED
  BY <1>1, <1>2, <1>3, SpawnsKeep

LEMMA StoppedServers ==
    ASSUME NEW h, LocalInv(h), NEW S, srv' = Locals(h)!Stopped(srv, S)
    PROVE  /\ srv' \in [Machines -> ServerStates] /\ MadeStay
           /\ \A s \in Machines : srv'[s].own = srv[s].own /\ (srv'[s].st = "alive" => s \notin S)
           /\ \A s \in Machines : s \notin S => srv'[s] = srv[s]
           /\ \A s \in Machines : srv'[s].st = "alive" => srv[s].st = "alive"
<1>1. /\ \A s \in Machines : srv'[s] = IF s \in S THEN [srv[s] EXCEPT !.st = "dead"] ELSE srv[s]
      /\ srv' \in [Machines -> {srv'[s] : s \in Machines}]
  BY DEF Locals!Stopped, Locals!Servers, Machines
<1>2. ASSUME NEW s \in Machines
      PROVE  /\ srv'[s] \in ServerStates /\ srv'[s].own = srv[s].own
             /\ srv[s].st # "none" => srv'[s].st # "none"
             /\ srv'[s].st = "alive" => s \notin S
  <2>1. srv[s] \in ServerStates
    BY DEF LocalInv, LocalShape
  <2>2. [srv[s] EXCEPT !.st = "dead"] \in ServerStates /\ [srv[s] EXCEPT !.st = "dead"].st = "dead"
        /\ [srv[s] EXCEPT !.st = "dead"].own = srv[s].own
    BY <2>1 DEF ServerStates
  <2> QED
    BY <1>1, <2>1, <2>2
<1> QED
  BY <1>1, <1>2 DEF MadeStay

\* A step that does not touch the pool.
LEMMA PoolSame ==
    ASSUME PoolApart, MadeStay, UNCHANGED <<warm, warming>>
    PROVE  PoolApart' /\ Pool' = Pool
<1>1. WarmOnes' = WarmOnes /\ \A o : IsMade(o) => IsMade(o)'
  BY DEF WarmOnes, MadeStay, IsMade
<1> QED
  BY <1>1 DEF PoolApart, Pool

LEMMA SameSelf == ASSUME NEW h, LocalInv(h), UNCHANGED local PROVE SameRuntimes(h)
BY DEF LocalInv, LocalShape, SameRuntimes, IsOpen

LEMMA WaitFailsKeeps ==
    ASSUME NEW h, LocalInv(h), NEW r \in h.runtimes, Locals(h)!WaitFails(r)
    PROVE  LocalKeeps(h)
<1>1. UNCHANGED <<srv, running, warm, warming, dirs, connects>>
  BY DEF Locals!WaitFails
<1>2. SameRuntimes(h)
  <2>1. local[r] \in RuntimeStates /\ local[r].st # "away"
    BY DEF LocalInv, LocalShape, Locals!WaitFails
  <2>2. /\ [local[r] EXCEPT !.st = "failed"] \in RuntimeStates
        /\ [local[r] EXCEPT !.st = "failed"].st = "failed"
        /\ [local[r] EXCEPT !.st = "failed"].sid = local[r].sid
        /\ [local[r] EXCEPT !.st = "failed"].srv = local[r].srv
        /\ [local[r] EXCEPT !.st = "failed"].temp = local[r].temp
    BY <2>1 DEF RuntimeStates
  <2>3. PICK v \in RuntimeStates : /\ local' = [local EXCEPT ![r] = v] /\ v.st # "away"
                                   /\ v.sid = local[r].sid /\ v.srv = local[r].srv /\ v.temp = local[r].temp
    BY <2>2 DEF Locals!WaitFails
  <2> QED
    BY <2>1, <2>3 DEF LocalInv, LocalShape, SameRuntimes, IsOpen
<1>3. MadeStay /\ PoolApart' /\ Pool' = Pool
  BY <1>1, PoolSame DEF MadeStay, LocalInv
<1>4. LocalInv(h)'
  BY <1>1, <1>2, <1>3, OthersKeep DEF LocalInv, LocalShape, SameRuntimes
<1>5. ASSUME h = LocalOnes, KeptInv PROVE KeptInv'
  <2>1. SameRuntimes(LocalOnes) /\ SessionsApart(LocalOnes)'
    BY <1>2, <1>4, <1>5 DEF LocalInv
  <2> QED
    BY <1>1, <1>3, <1>5, <2>1, SameKeep
<1> QED
  BY <1>4, <1>5 DEF LocalKeeps

\* The entry of the session t goes.
Cleared(t) == running' = [running EXCEPT ![t] = [srv |-> 0, temp |-> 0]]

LEMMA ClearedTable ==
    ASSUME NEW h, LocalInv(h), NEW t, Cleared(t)
    PROVE  /\ running' \in [LocalSids -> Entries]
           /\ \A u \in LocalSids : running'[u].srv \in {0, running[u].srv}
           /\ \A u \in LocalSids : u # t => running'[u] = running[u]
           /\ t \in LocalSids => running'[t].srv = 0
BY LocalRecords DEF LocalInv, LocalShape, Cleared

LEMMA FindDeadKeeps ==
    ASSUME NEW h, LocalInv(h), NEW r \in h.runtimes, Locals(h)!FindDead(r)
    PROVE  LocalKeeps(h)
<1>1. /\ UNCHANGED <<srv, warm, warming, local, dirs, connects>> /\ Cleared(local[r].sid)
      /\ IsOpen(r) /\ ~IsAlive(local[r].srv)
  BY DEF Locals!FindDead, Locals!NoEntry, Cleared, IsOpen, Locals!Alive, IsAlive
<1>2. MadeStay /\ PoolApart' /\ Pool' = Pool
  BY <1>1, PoolSame DEF MadeStay, LocalInv
<1>3. PICK t \in LocalSids : t = local[r].sid
  BY <1>1 DEF LocalInv, SessionsApart
<1>4. /\ running' \in [LocalSids -> Entries]
      /\ \A u \in LocalSids : running'[u].srv \in {0, running[u].srv}
      /\ \A u \in LocalSids : u # t => running'[u] = running[u]
      /\ running'[t].srv = 0
  BY <1>1, <1>3, ClearedTable
<1>5. LocalInv(h)'
  BY <1>1, <1>2, <1>4, OthersKeep DEF LocalInv, LocalShape, IsOpen
<1>6. ASSUME h = LocalOnes, KeptInv PROVE KeptInv'
  <2>1. OneEach' /\ TableTrue'
    BY <1>1, <1>4, <1>6 DEF KeptInv, OneEach, TableTrue, IsOpen
  <2>2. HeldListed'
    <3>1. ASSUME NEW q \in LocalRuntimes, IsOpen(q), IsAlive(local[q].srv)
          PROVE  running'[local[q].sid].srv = local[q].srv
      <4>1. local[q].sid # t /\ local[q].sid \in LocalSids
        BY <1>1, <1>3, <1>6, <3>1 DEF KeptInv, OneEach, LocalOnes, LocalInv, SessionsApart
      <4> QED
        BY <1>4, <1>6, <3>1, <4>1 DEF KeptInv, HeldListed
    <3> QED
      BY <1>1, <3>1 DEF HeldListed, IsOpen, IsAlive
  <2>3. ServersKept' /\ DirsKept'
    BY <1>1, <1>2, <1>6 DEF KeptInv, ServersKept, DirsKept, IsOpen
  <2> QED
    BY <2>1, <2>2, <2>3 DEF KeptInv
<1> QED
  BY <1>5, <1>6 DEF LocalKeeps

LEMMA CloseKeeps ==
    ASSUME NEW h, LocalInv(h), NEW r \in h.runtimes, Locals(h)!Close(r)
    PROVE  LocalKeeps(h)
<1>1. PICK t, o, d : t = local[r].sid /\ o = local[r].srv /\ d = local[r].temp
  OBVIOUS
<1>2. /\ IsOpen(r) /\ UNCHANGED <<warm, warming, connects>>
      /\ local' = [local EXCEPT ![r] = [st |-> "away", sid |-> "", srv |-> 0, temp |-> 0]]
      /\ IF r \in h.attached THEN UNCHANGED <<srv, running, dirs>>
         ELSE Cleared(t) /\ srv' = Locals(h)!Stopped(srv, {o}) /\ dirs' = dirs \ {d}
  BY <1>1 DEF Locals!Close, Locals!Open, Locals!Away, Locals!NoEntry, Locals!Terminated, IsOpen, Cleared
<1>3. /\ local' \in [h.runtimes -> RuntimeStates] /\ ~IsOpen(r)'
      /\ \A q \in h.runtimes : q # r => local'[q] = local[q]
  <2>1. [st |-> "away", sid |-> "", srv |-> 0, temp |-> 0] \in RuntimeStates
    BY LocalRecords
  <2> QED
    BY <1>2, <2>1 DEF LocalInv, LocalShape, IsOpen
<1>4. /\ srv' \in [Machines -> ServerStates] /\ MadeStay /\ running' \in [LocalSids -> Entries]
      /\ \A u \in LocalSids : running'[u].srv \in {0, running[u].srv}
  <2>1. CASE r \in h.attached
    BY <1>2, <2>1 DEF LocalInv, LocalShape, MadeStay
  <2>2. CASE r \notin h.attached
    BY <1>2, <2>2, StoppedServers, ClearedTable
  <2> QED
    BY <2>1, <2>2
<1>5. PoolApart' /\ Pool' = Pool
  BY <1>2, <1>4, PoolSame DEF LocalInv
<1>6. LocalInv(h)'
  <2>1. \A q \in h.runtimes : IsOpen(q)' =>
               IsOpen(q) /\ local'[q].srv = local[q].srv /\ local'[q].sid = local[q].sid
    BY <1>3 DEF IsOpen
  <2> QED
    BY <1>2, <1>3, <1>4, <1>5, <2>1, OthersKeep DEF LocalInv, LocalShape
<1>7. ASSUME h = LocalOnes, KeptInv PROVE KeptInv'
  <2>1. /\ Cleared(t) /\ srv' = Locals(h)!Stopped(srv, {o}) /\ dirs' = dirs \ {d} /\ r \in LocalRuntimes
    BY <1>2, <1>7 DEF LocalOnes
  <2>2. /\ \A s \in Machines : srv'[s].own = srv[s].own /\ (srv'[s].st = "alive" => s # o /\ srv[s].st = "alive")
        /\ \A u \in LocalSids : u # t => running'[u] = running[u]
        /\ \A u \in LocalSids : running'[u].srv \in {0, running[u].srv}
        /\ t \in LocalSids => running'[t].srv = 0
    <3>1. /\ \A s \in Machines : srv'[s].own = srv[s].own /\ (srv'[s].st = "alive" => s \notin {o})
          /\ \A s \in Machines : srv'[s].st = "alive" => srv[s].st = "alive"
      BY <2>1, StoppedServers
    <3>2. /\ \A u \in LocalSids : u # t => running'[u] = running[u]
          /\ t \in LocalSids => running'[t].srv = 0
      BY <2>1, ClearedTable
    <3> QED
      BY <1>4, <3>1, <3>2
  <2>3. \A q \in LocalRuntimes : IsOpen(q)' <=> IsOpen(q) /\ q # r
    BY <1>3, <1>7 DEF IsOpen, LocalOnes
  <2>4. \A q \in LocalRuntimes : q # r => local'[q] = local[q]
    BY <1>3, <1>7 DEF LocalOnes
  <2>5. \A q \in LocalRuntimes : IsOpen(q) /\ q # r => local[q].sid # t
    BY <1>1, <1>2, <1>7, <2>1 DEF KeptInv, OneEach
  <2>6. OneEach'
    BY <1>7, <2>3, <2>4 DEF KeptInv, OneEach
  <2>7. TableTrue'
    <3>1. ASSUME NEW u \in LocalSids, running'[u].srv # 0
          PROVE  \E q \in LocalRuntimes : IsOpen(q)' /\ local'[q].sid = u
      <4>1. u # t /\ running[u].srv # 0
        BY <2>2, <3>1
      <4>2. PICK q \in LocalRuntimes : IsOpen(q) /\ local[q].sid = u
        BY <1>7, <4>1 DEF KeptInv, TableTrue
      <4>3. q # r
        BY <1>1, <4>1, <4>2
      <4> QED
        BY <2>3, <2>4, <4>2, <4>3
    <3> QED
      BY <3>1 DEF TableTrue
  <2>8. HeldListed'
    <3>1. ASSUME NEW q \in LocalRuntimes, IsOpen(q), q # r, local[q].srv # 0, srv'[local[q].srv].st = "alive"
          PROVE  running'[local[q].sid].srv = local[q].srv
      <4>1. local[q].sid # t /\ local[q].sid \in LocalSids /\ local[q].srv \in Machines
        BY <1>7, <2>5, <3>1 DEF LocalInv, SessionsApart, LocalOnes, IsMade
      <4> QED
        BY <1>7, <2>2, <3>1, <4>1 DEF KeptInv, HeldListed, IsAlive
    <3>2. \A q \in LocalRuntimes : IsOpen(q)' => local'[q] = local[q] /\ IsOpen(q) /\ q # r
      BY <2>3, <2>4
    <3> QED
      BY <3>1, <3>2 DEF HeldListed, IsAlive
  <2>9. ServersKept'
    <3>1. ASSUME NEW s \in Machines, srv'[s].st = "alive"
          PROVE  s \in Pool' \/ \E q \in LocalRuntimes : IsOpen(q)' /\ local'[q].srv = s
      <4>1. s # o /\ srv[s].st = "alive"
        BY <2>2, <3>1
      <4> QED
        BY <1>1, <1>5, <1>7, <2>3, <2>4, <4>1 DEF KeptInv, ServersKept
    <3> QED
      BY <3>1 DEF ServersKept
  <2>10. DirsKept'
    <3>1. ASSUME NEW e \in dirs'
          PROVE  \/ \E s \in Pool' : srv'[s].own = e
                 \/ \E q \in LocalRuntimes : IsOpen(q)' /\ local'[q].temp = e
      <4>1. e \in dirs /\ e # d /\ Pool \subseteq Machines
        BY <2>1, <3>1 DEF LocalInv, PoolApart, IsMade
      <4> QED
        BY <1>1, <1>5, <1>7, <2>2, <2>3, <2>4, <4>1 DEF KeptInv, DirsKept
    <3> QED
      BY <3>1 DEF DirsKept
  <2> QED
    BY <2>6, <2>7, <2>8, <2>9, <2>10 DEF KeptInv
<1> QED
  BY <1>6, <1>7 DEF LocalKeeps

LEMMA DeleteKeeps ==
    ASSUME NEW h, LocalInv(h), NEW t \in LocalSids, Locals(h)!Delete(t)
    PROVE  LocalKeeps(h)
<1>1. PICK o, idle :
        /\ o = running[t].srv /\ idle \in {{}, WarmOnes} /\ Cleared(t)
        /\ srv' = Locals(h)!Stopped(srv, idle \cup {o}) /\ dirs' = dirs \ {srv[s].own : s \in idle}
        /\ IF idle = {} THEN warm' \in {warm, <<>>} ELSE warm' = <<>>
        /\ warm' = <<>> => idle = WarmOnes
  <2>1. Cleared(t)
    BY DEF Locals!Delete, Locals!NoEntry, Cleared
  <2>2. Locals(h)!Range(warm) = WarmOnes
    BY DEF Locals!Range, WarmOnes
  <2>3. CASE \A u \in LocalSids : running'[u] = Locals(h)!NoEntry
    <3>1. warm' = <<>> /\ srv' = Locals(h)!Stopped(srv, WarmOnes \cup {running[t].srv})
          /\ dirs' = dirs \ {srv[s].own : s \in WarmOnes}
      BY <2>2, <2>3 DEF Locals!Delete
    <3> QED
      BY <2>1, <3>1
  <2>4. CASE ~\A u \in LocalSids : running'[u] = Locals(h)!NoEntry
    <3>1. warm' = warm /\ srv' = Locals(h)!Stopped(srv, {} \cup {running[t].srv})
          /\ dirs' = dirs \ {srv[s].own : s \in {}}
      BY <2>4 DEF Locals!Delete
    <3>2. warm = <<>> => WarmOnes = {}
      BY DEF WarmOnes
    <3> QED
      BY <2>1, <3>1, <3>2
  <2> QED
    BY <2>3, <2>4
<1>2. /\ UNCHANGED <<warming, local, connects>> /\ SameRuntimes(h)
      /\ \A r \in h.runtimes : (IsOpen(r)' <=> IsOpen(r)) /\ local'[r] = local[r]
  BY SameSelf DEF Locals!Delete, IsOpen
<1>3. PICK S : S = idle \cup {o}
  OBVIOUS
<1>4. /\ srv' \in [Machines -> ServerStates] /\ MadeStay
      /\ \A s \in Machines : srv'[s].own = srv[s].own
      /\ \A s \in Machines : srv'[s].st = "alive" => s \notin idle /\ s # o /\ srv[s].st = "alive"
  <2>1. srv' = Locals(h)!Stopped(srv, S)
    BY <1>1, <1>3
  <2>2. /\ srv' \in [Machines -> ServerStates] /\ MadeStay
        /\ \A s \in Machines : srv'[s].own = srv[s].own /\ (srv'[s].st = "alive" => s \notin S)
        /\ \A s \in Machines : srv'[s].st = "alive" => srv[s].st = "alive"
    BY <2>1, StoppedServers
  <2> QED
    BY <1>3, <2>2
<1>5. /\ running' \in [LocalSids -> Entries]
      /\ \A u \in LocalSids : running'[u].srv \in {0, running[u].srv}
      /\ \A u \in LocalSids : u # t => running'[u] = running[u]
      /\ running'[t].srv = 0
  BY <1>1, ClearedTable
<1>6. PoolApart' /\ Pool' \subseteq Pool /\ warm' \in Seq(Machines) /\ Pool \subseteq Pool' \cup idle
  <2>1. CASE warm' = <<>>
    <3>1. PoolApart' /\ Pool' = warming
      BY <1>2, <1>4, <2>1, PoolEmpties DEF LocalInv
    <3>2. warm' \in Seq(Machines)
      BY <2>1
    <3> QED
      BY <1>1, <2>1, <3>1, <3>2 DEF Pool
  <2>2. CASE warm' = warm
    BY <1>2, <1>4, <2>2, PoolSame DEF LocalInv, LocalShape
  <2> QED
    BY <1>1, <2>1, <2>2
<1>7. LocalInv(h)'
  BY <1>2, <1>4, <1>5, <1>6, OthersKeep DEF LocalInv, LocalShape
<1>8. ASSUME h = LocalOnes, KeptInv PROVE KeptInv'
  <2>1. \A r \in LocalRuntimes : (IsOpen(r)' <=> IsOpen(r)) /\ local'[r] = local[r]
    BY <1>2, <1>8 DEF LocalOnes
  <2>2. OneEach'
    BY <1>8, <2>1 DEF KeptInv, OneEach
  <2>3. TableTrue'
    <3>1. ASSUME NEW u \in LocalSids, running'[u].srv # 0
          PROVE  \E q \in LocalRuntimes : IsOpen(q)' /\ local'[q].sid = u
      BY <1>5, <1>8, <2>1, <3>1 DEF KeptInv, TableTrue
    <3> QED
      BY <3>1 DEF TableTrue
  <2>4. HeldListed'
    <3>1. ASSUME NEW q \in LocalRuntimes, IsOpen(q), local[q].srv # 0, srv'[local[q].srv].st = "alive"
          PROVE  running'[local[q].sid].srv = local[q].srv
      <4>1. local[q].sid \in LocalSids /\ local[q].srv \in Machines
        BY <1>8, <3>1 DEF LocalInv, SessionsApart, LocalOnes, IsMade
      <4>2. running[local[q].sid].srv = local[q].srv /\ local[q].srv # o
        BY <1>4, <1>8, <3>1, <4>1 DEF KeptInv, HeldListed, IsAlive
      <4>3. local[q].sid # t
        BY <1>1, <4>2
      <4> QED
        BY <1>5, <4>1, <4>2, <4>3
    <3> QED
      BY <2>1, <3>1 DEF HeldListed, IsAlive
  <2>5. ServersKept'
    <3>1. ASSUME NEW s \in Machines, srv'[s].st = "alive"
          PROVE  s \in Pool' \/ \E q \in LocalRuntimes : IsOpen(q)' /\ local'[q].srv = s
      BY <1>4, <1>6, <1>8, <2>1, <3>1 DEF KeptInv, ServersKept
    <3> QED
      BY <3>1 DEF ServersKept
  <2>6. DirsKept'
    <3>1. ASSUME NEW e \in dirs'
          PROVE  \/ \E s \in Pool' : srv'[s].own = e
                 \/ \E q \in LocalRuntimes : IsOpen(q)' /\ local'[q].temp = e
      <4>1. e \in dirs /\ (\A s \in idle : srv[s].own # e) /\ Pool \subseteq Machines
        BY <1>1, <3>1 DEF LocalInv, PoolApart, IsMade
      <4> QED
        BY <1>4, <1>6, <1>8, <2>1, <4>1 DEF KeptInv, DirsKept
    <3> QED
      BY <3>1 DEF DirsKept
  <2> QED
    BY <2>2, <2>3, <2>4, <2>5, <2>6 DEF KeptInv
<1> QED
  BY <1>7, <1>8 DEF LocalKeeps

LEMMA WarmReadyKeeps ==
    ASSUME NEW h, LocalInv(h), NEW s \in Machines, Locals(h)!WarmReady(s)
    PROVE  LocalKeeps(h)
<1>1. /\ s \in warming /\ warming' = warming \ {s} /\ warm' = Append(warm, s)
      /\ UNCHANGED <<srv, running, local, dirs, connects>> /\ SameRuntimes(h) /\ MadeStay
      /\ warm \in Seq(Machines)
  BY SameSelf DEF Locals!WarmReady, MadeStay, LocalInv, LocalShape
<1>2. PoolApart' /\ Pool' = Pool
  BY <1>1, PoolReady DEF LocalInv
<1>3. warm' \in Seq(Machines)
  BY <1>1, AppendProperties
<1>4. LocalInv(h)'
  BY <1>1, <1>2, <1>3, OthersKeep DEF LocalInv, LocalShape, IsOpen
<1>5. ASSUME h = LocalOnes, KeptInv PROVE KeptInv'
  <2>1. SameRuntimes(LocalOnes) /\ SessionsApart(LocalOnes)'
    BY <1>1, <1>4, <1>5 DEF LocalInv
  <2> QED
    BY <1>1, <1>2, <1>5, <2>1, SameKeep
<1> QED
  BY <1>4, <1>5 DEF LocalKeeps

LEMMA WarmFailsKeeps ==
    ASSUME NEW h, LocalInv(h), NEW s \in Machines, Locals(h)!WarmFails(s)
    PROVE  LocalKeeps(h)
<1>1. /\ s \in warming /\ warming' = warming \ {s} /\ srv' = Locals(h)!Stopped(srv, {s})
      /\ dirs' = dirs \ {srv[s].own}
      /\ UNCHANGED <<warm, running, local, connects>> /\ SameRuntimes(h)
  BY SameSelf DEF Locals!WarmFails
<1>2. /\ srv' \in [Machines -> ServerStates] /\ MadeStay
      /\ \A q \in Machines : srv'[q].own = srv[q].own /\ (srv'[q].st = "alive" => q # s /\ srv[q].st = "alive")
  <2>1. /\ srv' \in [Machines -> ServerStates] /\ MadeStay
        /\ \A q \in Machines : srv'[q].own = srv[q].own /\ (srv'[q].st = "alive" => q \notin {s})
        /\ \A q \in Machines : srv'[q].st = "alive" => srv[q].st = "alive"
    BY <1>1, StoppedServers
  <2> QED
    BY <2>1
<1>3. PoolApart' /\ Pool' \subseteq Pool /\ Pool \subseteq Pool' \cup {s}
  <2>1. WarmOnes' = WarmOnes /\ \A q : IsMade(q) => IsMade(q)'
    BY <1>1, <1>2 DEF WarmOnes, MadeStay, IsMade
  <2> QED
    BY <1>1, <2>1 DEF LocalInv, PoolApart, Pool
<1>4. LocalInv(h)'
  BY <1>1, <1>2, <1>3, OthersKeep DEF LocalInv, LocalShape, IsOpen
<1>5. ASSUME h = LocalOnes, KeptInv PROVE KeptInv'
  <2>1. SameRuntimes(LocalOnes) /\ SessionsApart(LocalOnes)'
    BY <1>1, <1>4, <1>5 DEF LocalInv
  <2>2. \A q \in Pool : q \in Pool' \/ srv'[q].st # "alive"
    BY <1>2, <1>3 DEF LocalInv, PoolApart, IsMade
  <2>3. ASSUME NEW d \in dirs'
        PROVE  d \in dirs /\ \A q \in Pool : srv[q].own = d => q \in Pool' /\ srv'[q].own = d
    BY <1>1, <1>2, <1>3, <2>3 DEF LocalInv, PoolApart, IsMade
  <2> QED
    BY <1>1, <1>2, <1>5, <2>1, <2>2, <2>3, SameKeep
<1> QED
  BY <1>4, <1>5 DEF LocalKeeps

LEMMA DiesKeeps ==
    ASSUME NEW h, LocalInv(h), NEW s \in Machines, Locals(h)!Dies(s)
    PROVE  LocalKeeps(h)
<1>1. /\ UNCHANGED <<running, warm, warming, local, dirs, connects>> /\ SameRuntimes(h)
      /\ srv' = [srv EXCEPT ![s] = [srv[s] EXCEPT !.st = "dead"]]
  BY SameSelf DEF Locals!Dies
<1>2. srv' \in [Machines -> ServerStates] /\ MadeStay
      /\ \A q \in Machines : srv'[q].own = srv[q].own /\ (srv'[q].st = "alive" => srv[q].st = "alive")
  <2>1. srv[s] \in ServerStates
    BY DEF LocalInv, LocalShape
  <2>2. PICK v \in ServerStates : srv' = [srv EXCEPT ![s] = v] /\ v.st = "dead" /\ v.own = srv[s].own
    <3>1. /\ [srv[s] EXCEPT !.st = "dead"] \in ServerStates /\ [srv[s] EXCEPT !.st = "dead"].st = "dead"
          /\ [srv[s] EXCEPT !.st = "dead"].own = srv[s].own
      BY <2>1 DEF ServerStates
    <3> QED
      BY <1>1, <3>1
  <2> QED
    BY <2>2 DEF LocalInv, LocalShape, MadeStay
<1>3. PoolApart' /\ Pool' = Pool
  BY <1>1, <1>2, PoolSame DEF LocalInv
<1>4. LocalInv(h)'
  BY <1>1, <1>2, <1>3, OthersKeep DEF LocalInv, LocalShape, IsOpen
<1>5. ASSUME h = LocalOnes, KeptInv PROVE KeptInv'
  <2>1. SameRuntimes(LocalOnes) /\ SessionsApart(LocalOnes)'
    BY <1>1, <1>4, <1>5 DEF LocalInv
  <2>2. Pool \subseteq Machines
    BY DEF LocalInv, PoolApart, IsMade
  <2> QED
    BY <1>1, <1>2, <1>3, <1>5, <2>1, <2>2, SameKeep
<1> QED
  BY <1>4, <1>5 DEF LocalKeeps

\* A stuttering step keeps it all.
LEMMA LocalRests == ASSUME NEW h, LocalInv(h), UNCHANGED localVars PROVE LocalKeeps(h)
<1>1. LocalInv(h)'
  BY DEF localVars, LocalInv, LocalShape, PoolApart, SessionsApart, Pool, WarmOnes, IsMade, IsOpen
<1>2. KeptInv => KeptInv'
  BY DEF localVars, KeptInv, OneEach, TableTrue, HeldListed, ServersKept, DirsKept, Pool, WarmOnes,
     IsOpen, IsAlive
<1> QED
  BY <1>1, <1>2 DEF LocalKeeps

LEMMA LocalStep ==
    ASSUME NEW h, LocalInv(h), Locals(h)!Next
    PROVE  LocalKeeps(h)
<1>1. Locals(h)!Servers = Machines
  BY DEF Locals!Servers, Machines
<1> QED
  BY <1>1, ConnectKeeps, ConnectWarmKeeps, ConnectNewKeeps, AskersKeep, WaitFailsKeeps, FindDeadKeeps,
     CloseKeeps, DeleteKeeps, WarmReadyKeeps, WarmFailsKeeps, DiesKeeps DEF Locals!Next

LEMMA KeptBegins == ASSUME Locals(LocalOnes)!Init PROVE KeptInv
<1>1. /\ local = [r \in LocalRuntimes |-> [st |-> "away", sid |-> "", srv |-> 0, temp |-> 0]]
      /\ running = [t \in LocalSids |-> [srv |-> 0, temp |-> 0]] /\ dirs = 1..WarmInitial
      /\ warm = [i \in 1..WarmInitial |-> i]
      /\ srv = [s \in Machines |-> IF s <= WarmInitial
                  THEN [st |-> "alive", works |-> 0, own |-> s]
                  ELSE [st |-> "none", works |-> 0, own |-> 0]]
  BY DEF Locals!Init, Locals!NoEntry, Locals!Away, Locals!ServerDir, Locals!Servers, Machines, LocalOnes
<1>2. OneEach /\ TableTrue /\ HeldListed
  BY <1>1 DEF OneEach, TableTrue, HeldListed, IsOpen
<1>3. \A s \in 1..WarmInitial : s \in Pool
  BY <1>1 DEF Pool, WarmOnes
<1>4. \A s \in Machines : IF s <= WarmInitial THEN srv[s].own = s ELSE srv[s].st = "none"
  <2>1. ASSUME NEW s \in Machines, s <= WarmInitial PROVE srv[s].own = s
    <3>1. srv[s] = [st |-> "alive", works |-> 0, own |-> s]
      BY <1>1, <2>1
    <3> QED
      BY ONLY <3>1
  <2>2. ASSUME NEW s \in Machines, ~(s <= WarmInitial) PROVE srv[s].st = "none"
    <3>1. srv[s] = [st |-> "none", works |-> 0, own |-> 0]
      BY <1>1, <2>2
    <3> QED
      BY ONLY <3>1
  <2> QED
    BY <2>1, <2>2
<1>5. ServersKept /\ DirsKept
  <2>1. 1..WarmInitial \subseteq Machines /\ WarmInitial \in Nat
    BY LocalConstants DEF Machines
  <2>2. \A s \in Machines : s <= WarmInitial => s \in 1..WarmInitial
    BY <2>1 DEF Machines
  <2>3. \A d \in 1..WarmInitial : d <= WarmInitial /\ d \in Machines
    BY <2>1
  <2> QED
    BY <1>1, <1>3, <1>4, <2>2, <2>3 DEF ServersKept, DirsKept
<1> QED
  BY <1>2, <1>5 DEF KeptInv

\* What the states of the two instances promise.
LEMMA LocalHolds ==
    /\ \A h \in {LocalOnes, AttachedOnes} : LocalInv(h) => Locals(h)!NotShared
    /\ LocalInv(LocalOnes) /\ KeptInv => Locals(LocalOnes)!NothingLeaks /\ Locals(LocalOnes)!RegisteredWhileOpen
<1>1. ASSUME NEW h, LocalInv(h) PROVE Locals(h)!NotShared
  <2>1. Locals(h)!Range(warm) = WarmOnes
    BY DEF Locals!Range, WarmOnes
  <2> QED
    BY <1>1, <2>1 DEF LocalInv, SessionsApart, PoolApart, Pool, Locals!NotShared, Locals!Open, IsOpen
<1>2. ASSUME LocalInv(LocalOnes), KeptInv PROVE Locals(LocalOnes)!RegisteredWhileOpen
  BY <1>2 DEF Locals!RegisteredWhileOpen, Locals!Keepers, Locals!Open, Locals!Alive, KeptInv, HeldListed,
     LocalOnes, IsOpen, IsAlive
<1>3. ASSUME LocalInv(LocalOnes), KeptInv PROVE Locals(LocalOnes)!NothingLeaks
  <2>1. PICK known : known = Locals(LocalOnes)!Range(warm) \cup warming
    OBVIOUS
  <2>2. PICK entries : entries = {running[t] : t \in LocalSids}
                          \cup {local[r] : r \in Locals(LocalOnes)!Keepers}
    OBVIOUS
  <2>3. known = Pool
    BY <2>1 DEF Pool, WarmOnes, Locals!Range
  <2>4. \A r \in LocalRuntimes : IsOpen(r) => local[r] \in entries
    BY <2>2 DEF Locals!Keepers, Locals!Open, LocalOnes, IsOpen
  <2>5. ASSUME NEW s \in Machines, srv[s].st = "alive"
        PROVE  s \in known \cup {e.srv : e \in entries}
    <3>1. CASE s \in Pool
      BY <2>3, <3>1
    <3>2. CASE \E r \in LocalRuntimes : IsOpen(r) /\ local[r].srv = s
      BY <2>4, <3>2
    <3> QED
      BY <1>3, <2>5, <3>1, <3>2 DEF KeptInv, ServersKept
  <2>6. ASSUME NEW d \in dirs
        PROVE  d \in {srv[s].own : s \in known} \cup {e.temp : e \in entries}
    <3>1. CASE \E s \in Pool : srv[s].own = d
      BY <2>3, <3>1
    <3>2. CASE \E r \in LocalRuntimes : IsOpen(r) /\ local[r].temp = d
      BY <2>4, <3>2
    <3> QED
      BY <1>3, <2>6, <3>1, <3>2 DEF KeptInv, DirsKept
  <2>7. /\ \A s \in Machines : Locals(LocalOnes)!Alive(s) => s \in known \cup {e.srv : e \in entries}
        /\ dirs \subseteq {srv[s].own : s \in known} \cup {e.temp : e \in entries}
    BY SMTT(20), <2>5, <2>6 DEF Locals!Alive
  <2> QED
    BY <2>1, <2>2, <2>7 DEF Locals!NothingLeaks, Locals!Servers, Machines
<1> QED
  BY <1>1, <1>2, <1>3

-----------------------------------------------------------------------------
(* What a request uses, and who has a server.                              *)

UsedInv ==
    /\ part = "attached" => AttachInv
    /\ part = "local" => LocalInv(LocalOnes) /\ KeptInv
    /\ part = "attaching" => LocalInv(AttachedOnes)

\* A step of the behaviour is one of the part that it runs.
LEMMA UsedParts ==
    ASSUME [Next]_vars
    PROVE  /\ UNCHANGED part
           /\ part = "attached" => [Connected!Next]_attachVars
           /\ part = "local" => [Locals(LocalOnes)!Next]_localVars
           /\ part = "attaching" => [Locals(AttachedOnes)!Next]_localVars
<1>1. CASE UNCHANGED vars
  BY <1>1 DEF vars
<1>2. CASE Next
  <2>1. UNCHANGED part
    BY <1>2 DEF Next
  <2>2. ASSUME part = "attached" PROVE Connected!Next
    BY <1>2, <2>2 DEF Next
  <2>3. ASSUME part = "local" PROVE Locals(LocalOnes)!Next
    BY <1>2, <2>3 DEF Next
  <2>4. ASSUME part = "attaching" PROVE Locals(AttachedOnes)!Next
    BY <1>2, <2>4 DEF Next
  <2> QED
    BY <2>1, <2>2, <2>3, <2>4
<1> QED
  BY <1>1, <1>2

LEMMA UsedStarts == Init => UsedInv
<1> SUFFICES ASSUME Init PROVE UsedInv
  OBVIOUS
<1>1. /\ Connected!Init
      /\ part = "attaching" => Locals(AttachedOnes)!Init
      /\ part = "local" => Locals(LocalOnes)!Init
  BY DEF Init
<1> QED
  BY <1>1, AttachStarts, LocalBegins, KeptBegins DEF UsedInv

LEMMA UsedSteps == UsedInv /\ [Next]_vars => UsedInv'
<1> SUFFICES ASSUME UsedInv, [Next]_vars PROVE UsedInv'
  OBVIOUS
<1>1. UNCHANGED part
  BY UsedParts
<1>2. ASSUME part = "attached" PROVE AttachInv'
  BY <1>2, UsedParts, AttachStep DEF UsedInv
<1>3. ASSUME part = "local" PROVE LocalInv(LocalOnes)' /\ KeptInv'
  <2>1. LocalInv(LocalOnes) /\ KeptInv /\ [Locals(LocalOnes)!Next]_localVars
    BY <1>3, UsedParts DEF UsedInv
  <2>2. LocalKeeps(LocalOnes)
    BY <2>1, LocalStep, LocalRests
  <2> QED
    BY <2>1, <2>2 DEF LocalKeeps
<1>4. ASSUME part = "attaching" PROVE LocalInv(AttachedOnes)'
  <2>1. LocalInv(AttachedOnes) /\ [Locals(AttachedOnes)!Next]_localVars
    BY <1>4, UsedParts DEF UsedInv
  <2>2. LocalKeeps(AttachedOnes)
    BY <2>1, LocalStep, LocalRests
  <2> QED
    BY <2>2 DEF LocalKeeps
<1> QED
  BY <1>1, <1>2, <1>3, <1>4 DEF UsedInv

\* Whatever the numbers of requests, conversations, sessions and servers are: what a
\* request uses of a conversation is connected; a server of the machine works for one
\* session, is in the table while that is open, and neither it nor a directory is left over.
THEOREM UsedStaysOpen == Spec => []UsedIsOpen
<1>1. UsedInv => UsedIsOpen
  <2> SUFFICES ASSUME UsedInv PROVE UsedIsOpen
    OBVIOUS
  <2>1. ASSUME part = "attached" PROVE Connected!UsedIsOpen /\ Connected!CountsRight
    BY <2>1, AttachHolds DEF UsedInv
  <2>2. ASSUME part = "local"
        PROVE  /\ Locals(LocalOnes)!NotShared /\ Locals(LocalOnes)!NothingLeaks
               /\ Locals(LocalOnes)!RegisteredWhileOpen
    BY <2>2, LocalHolds DEF UsedInv
  <2>3. ASSUME part = "attaching" PROVE Locals(AttachedOnes)!NotShared
    BY <2>3, LocalHolds DEF UsedInv
  <2> QED
    BY <2>1, <2>2, <2>3 DEF UsedIsOpen
<1> QED
  BY <1>1, UsedStarts, UsedSteps, PTL DEF Spec
=============================================================================
