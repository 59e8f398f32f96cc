----------------------------- MODULE SessionProofs -----------------------------
(***************************************************************************)
(* Proofs about the conversations and sessions of an OpenHands server, and *)
(* about the webhook that hears of the files they store.                   *)
(***************************************************************************)
EXTENDS MCOpenHands, FiniteSetTheorems, SequenceTheorems, WellFoundedInduction, TLAPS

-----------------------------------------------------------------------------
(* Conversations with a runtime of their own.                              *)

NestedSteps == {"none", "ensure", "check", "resume", "wait", "rewait", "begin", "create", "close",
                "finally"}
RtStates == [st : {"none", "running", "paused", "stopped"}, pod : {"pending", "ready", "failed"}]
ReqStates == [pc : {"idle", "read", "look", "mark"}, sid : NestedSids \cup {"none"},
              starting : BOOLEAN, running : BOOLEAN]
StartStates == [pc : NestedSteps, sid : NestedSids \cup {"none"}, known : BOOLEAN]
NestedShape ==
    /\ starting \in [NestedSids -> BOOLEAN] /\ nested \in [NestedSids -> BOOLEAN]
    /\ rt \in [NestedSids -> RtStates] /\ req \in [NestedRequests -> ReqStates]
    /\ start \in [NestedRequests -> StartStates] /\ down \in [NestedRequests -> BOOLEAN]
    /\ nestedUsed \in [requests : Nat, faults : Nat, pauses : Nat, crashes : Nat]

Decides(r) == req[r].pc # "idle"
StartsOne(r) == start[r].pc # "none"

\* Nobody decides, or starts, the conversation of another, nor does one at a time both.
OneDecides ==
    /\ \A r \in NestedRequests : Decides(r) => req[r].sid \in NestedSids /\ ~StartsOne(r)
    /\ \A r, q \in NestedRequests : Decides(r) /\ Decides(q) /\ req[r].sid = req[q].sid => r = q
OneStarts ==
    /\ \A r \in NestedRequests : StartsOne(r) => start[r].sid \in NestedSids
    /\ \A r, q \in NestedRequests :
          StartsOne(r) /\ StartsOne(q) /\ start[r].sid = start[q].sid => r = q

\* What is started is marked, and the request that found it unmarked is about to start it:
\* nobody else starts it or marks it.
FoundDown(r) == req[r].pc \in {"look", "mark"} /\ ~req[r].starting
Marked ==
    /\ \A r \in NestedRequests : StartsOne(r) => starting[start[r].sid]
    /\ \A r \in NestedRequests : FoundDown(r) => ~starting[req[r].sid]
    /\ \A r \in NestedRequests : req[r].pc = "mark" => ~req[r].starting /\ down[r]

\* Unless a server died, who marked a conversation starts it.
MarkKept == nestedUsed.crashes = 0 =>
    \A s \in NestedSids : starting[s] => \E r \in NestedRequests : StartsOne(r) /\ start[r].sid = s

\* Where nothing fails: how far each start has brought its runtime.
Runs(s) == rt[s].st = "running"
Brought(r) ==
    /\ start[r].pc \in {"ensure", "check"} => ~Runs(start[r].sid)
    /\ start[r].pc \in {"resume", "rewait", "wait", "close"} => start[r].known
    /\ start[r].pc = "create" /\ Runs(start[r].sid) => rt[start[r].sid].pod = "ready"
    /\ start[r].pc = "finally" /\ Runs(start[r].sid) => nested[start[r].sid]
BroughtUp == nestedUsed.faults = 0 /\ nestedUsed.crashes = 0 =>
    /\ \A s \in NestedSids : Runs(s) =>
           nested[s] \/ \E r \in NestedRequests : StartsOne(r) /\ start[r].sid = s
    /\ \A r \in NestedRequests : StartsOne(r) => Brought(r)
    /\ \A r \in NestedRequests : req[r].pc = "mark" => ~Runs(req[r].sid)

NestedInv == NestedShape /\ OneDecides /\ OneStarts /\ Marked /\ MarkKept /\ BroughtUp

LEMMA NestedStarts == ASSUME Nested!Init PROVE NestedInv
<1>1. Nested!NestedAssumption
  BY InstancesAssumption DEF InstancesAssumption
<1>2. NestedShape
  BY DEF Nested!Init, Nested!NoRequest, Nested!NoStart, NestedShape, NestedSteps,
     RtStates, ReqStates, StartStates
<1>3. OneDecides /\ OneStarts /\ Marked
  BY DEF Nested!Init, Nested!NoRequest, Nested!NoStart, OneDecides, OneStarts, Marked, Decides,
     StartsOne, FoundDown
<1>4. MarkKept /\ BroughtUp
  BY DEF Nested!Init, Nested!NoRequest, Nested!NoStart, MarkKept, BroughtUp, Runs, StartsOne
<1> QED
  BY <1>2, <1>3, <1>4 DEF NestedInv

\* What was true while a request was decided.
Downs == down' = [r \in NestedRequests |->
                     /\ req'[r].pc # "idle"
                     /\ down[r] \/ (~starting'[req'[r].sid] /\ rt'[req'[r].sid].st # "running")]

\* The types of what a step leaves.
LEMMA RequestTypes ==
    ASSUME NestedShape, OneDecides, Downs, NEW r \in NestedRequests,
           \/ \E s \in NestedSids : Nested!Request(r, s)
           \/ Nested!ReadFirst(r) \/ Nested!ReadSecond(r) \/ Nested!Mark(r)
    PROVE  /\ NestedShape'
           /\ nestedUsed'.faults = nestedUsed.faults /\ nestedUsed'.crashes = nestedUsed.crashes
<1>1. down' \in [NestedRequests -> BOOLEAN]
  BY DEF Downs
<1>2. ASSUME NEW s \in NestedSids, Nested!Request(r, s)
      PROVE  NestedShape' /\ nestedUsed'.faults = nestedUsed.faults /\ nestedUsed'.crashes = nestedUsed.crashes
  <2>1. [Nested!NoRequest EXCEPT !.pc = "read", !.sid = s] \in ReqStates
    BY DEF Nested!NoRequest, ReqStates
  <2>2. req' = [req EXCEPT ![r] = [Nested!NoRequest EXCEPT !.pc = "read", !.sid = s]]
    BY ONLY <1>2 DEF Nested!Request
  <2>3. req' \in [NestedRequests -> ReqStates]
    BY ONLY NestedShape, <2>1, <2>2 DEF NestedShape
  <2>4. /\ nestedUsed' = [nestedUsed EXCEPT !.requests = @ + 1]
        /\ UNCHANGED <<starting, rt, nested, start>>
    BY ONLY <1>2 DEF Nested!Request, Nested!Uses
  <2> QED
    BY ONLY NestedShape, <1>1, <2>3, <2>4 DEF NestedShape
<1>3. ASSUME Nested!ReadFirst(r) \/ Nested!ReadSecond(r)
      PROVE  NestedShape' /\ nestedUsed' = nestedUsed
  <2>1. Decides(r) /\ req[r].sid \in NestedSids /\ req[r] \in ReqStates
    BY <1>3 DEF OneDecides, Decides, NestedShape, Nested!ReadFirst, Nested!ReadSecond
  <2>2. starting[req[r].sid] \in BOOLEAN /\ Nested!Running(req[r].sid) \in BOOLEAN
    BY <2>1 DEF NestedShape, Nested!Running
  <2>3. ASSUME NEW what PROVE Nested!Seen(r, what) \in ReqStates
    BY <2>1, <2>2 DEF Nested!Seen, ReqStates
  <2>4. ASSUME NEW what, NEW p \in {"look", "mark"} PROVE [Nested!Seen(r, what) EXCEPT !.pc = p] \in ReqStates
    BY <2>3 DEF ReqStates
  <2>5. Nested!NoRequest \in ReqStates
    BY DEF Nested!NoRequest, ReqStates
  <2>6. PICK v \in ReqStates : req' = [req EXCEPT ![r] = v]
    <3>1. CASE Nested!ReadFirst(r)
      BY ONLY <3>1, <2>4 DEF Nested!ReadFirst
    <3>2. CASE Nested!ReadSecond(r)
      BY ONLY <3>2, <2>4, <2>5 DEF Nested!ReadSecond
    <3> QED
      BY <1>3, <3>1, <3>2
  <2>7. req' \in [NestedRequests -> ReqStates]
    BY ONLY NestedShape, <2>6 DEF NestedShape
  <2>8. UNCHANGED <<starting, rt, nested, start, nestedUsed>>
    BY ONLY <1>3 DEF Nested!ReadFirst, Nested!ReadSecond
  <2> QED
    BY ONLY NestedShape, <1>1, <2>7, <2>8 DEF NestedShape
<1>4. ASSUME Nested!Mark(r) PROVE NestedShape' /\ nestedUsed' = nestedUsed
  <2>1. req[r].sid \in NestedSids
    BY <1>4 DEF OneDecides, Decides, Nested!Mark
  <2>2. [pc |-> "ensure", sid |-> req[r].sid, known |-> FALSE] \in StartStates
    BY <2>1 DEF StartStates, NestedSteps
  <2>3. Nested!NoRequest \in ReqStates
    BY DEF Nested!NoRequest, ReqStates
  <2> QED
    BY <1>1, <1>4, <2>2, <2>3 DEF NestedShape, Nested!Mark
<1> QED
  BY <1>2, <1>3, <1>4

LEMMA StartRecord ==
    ASSUME NEW x \in StartStates, NEW p \in NestedSteps
    PROVE  /\ [x EXCEPT !.pc = p] \in StartStates
           /\ [x EXCEPT !.pc = p].pc = p /\ [x EXCEPT !.pc = p].sid = x.sid
           /\ [x EXCEPT !.pc = p].known = x.known
BY DEF StartStates

LEMMA KnownRecord ==
    ASSUME NEW x \in StartStates
    PROVE  /\ [x EXCEPT !.known = TRUE] \in StartStates
           /\ [x EXCEPT !.known = TRUE].pc = x.pc /\ [x EXCEPT !.known = TRUE].sid = x.sid
           /\ [x EXCEPT !.known = TRUE].known
BY DEF StartStates

\* A start goes on.
LEMMA StartGoes ==
    ASSUME NestedShape, NEW r \in NestedRequests, NEW p \in NestedSteps,
           Nested!Moves(r, p) \/ Nested!Knows(r, p)
    PROVE  /\ start' \in [NestedRequests -> StartStates]
           /\ start'[r].pc = p /\ start'[r].sid = start[r].sid
           /\ start[r].known \/ Nested!Knows(r, p) => start'[r].known
           /\ \A q \in NestedRequests : q # r => start'[q] = start[q]
<1>1. start \in [NestedRequests -> StartStates] /\ start[r] \in StartStates
  BY DEF NestedShape
<1>2. ASSUME NEW v \in StartStates, v.pc = p, v.sid = start[r].sid,
             start[r].known \/ Nested!Knows(r, p) => v.known,
             start' = [start EXCEPT ![r] = v]
      PROVE  /\ start' \in [NestedRequests -> StartStates]
             /\ start'[r].pc = p /\ start'[r].sid = start[r].sid
             /\ start[r].known \/ Nested!Knows(r, p) => start'[r].known
             /\ \A q \in NestedRequests : q # r => start'[q] = start[q]
  BY ONLY <1>1, <1>2, r \in NestedRequests
<1>3. CASE Nested!Knows(r, p)
  <2> DEFINE moved == [start[r] EXCEPT !.pc = p]
  <2>1. start' = [start EXCEPT ![r] = [moved EXCEPT !.known = TRUE]]
    BY ONLY <1>3, <1>1, r \in NestedRequests DEF Nested!Knows
  <2>2. moved \in StartStates /\ moved.pc = p /\ moved.sid = start[r].sid
    BY <1>1, StartRecord
  <2> HIDE DEF moved
  <2> QED
    BY <2>1, <2>2, <1>2, KnownRecord
<1>4. CASE ~Nested!Knows(r, p)
  <2> DEFINE moved == [start[r] EXCEPT !.pc = p]
  <2>1. start' = [start EXCEPT ![r] = moved]
    BY <1>4 DEF Nested!Moves
  <2>2. /\ moved \in StartStates /\ moved.pc = p /\ moved.sid = start[r].sid
        /\ moved.known = start[r].known
    BY <1>1, StartRecord
  <2> HIDE DEF moved
  <2> QED
    BY <2>1, <2>2, <1>2, <1>4
<1> QED
  BY <1>3, <1>4

LEMMA FaultsCounted ==
    ASSUME NestedShape, Nested!Works \/ Nested!Faulty
    PROVE  /\ nestedUsed' \in [requests : Nat, faults : Nat, pauses : Nat, crashes : Nat]
           /\ nestedUsed'.faults >= nestedUsed.faults /\ nestedUsed'.crashes = nestedUsed.crashes
           /\ Nested!Faulty => nestedUsed'.faults # 0
BY DEF NestedShape, Nested!Works, Nested!Faulty, Nested!Uses

\* Every step of a start ends at a later place, works or has a fault, and leaves what
\* requests read but for the runtime.
Goes(r) ==
    /\ StartsOne(r) /\ \E p \in NestedSteps \ {"none"} : Nested!Moves(r, p) \/ Nested!Knows(r, p)
    /\ Nested!Works \/ Nested!Faulty
    /\ UNCHANGED <<starting, req>>
    /\ rt' \in [NestedSids -> RtStates] /\ nested' \in [NestedSids -> BOOLEAN]

LEMMA StartSteps ==
    ASSUME NestedShape, OneStarts, NEW r \in NestedRequests,
           \/ Nested!Ensure(r) \/ Nested!Check(r) \/ Nested!Resume(r) \/ Nested!Begin(r)
           \/ Nested!WaitUntilAlive(r) \/ Nested!Close(r) \/ Nested!Create(r)
    PROVE  Goes(r)
<1>1. CASE Nested!Ensure(r)
  BY <1>1 DEF Goes, NestedShape, Nested!Ensure, Nested!At, Nested!Same, StartsOne, NestedSteps
<1>2. CASE Nested!Check(r)
  BY <1>2 DEF Goes, NestedShape, Nested!Check, Nested!At, Nested!Same, StartsOne, NestedSteps
<1>3. CASE Nested!WaitUntilAlive(r)
  BY <1>3 DEF Goes, NestedShape, Nested!WaitUntilAlive, Nested!At, Nested!Same, StartsOne, NestedSteps
<1>4. ASSUME Nested!Resume(r) \/ Nested!Begin(r) \/ Nested!Close(r) \/ Nested!Create(r)
      PROVE  Goes(r)
  <2> DEFINE sid == start[r].sid
  <2>1. StartsOne(r)
    BY ONLY <1>4 DEF Nested!Resume, Nested!Begin, Nested!Close, Nested!Create, Nested!At, StartsOne
  <2>2. sid \in NestedSids /\ rt[sid] \in RtStates
    BY <2>1 DEF OneStarts, NestedShape
  <2>3. \E p \in NestedSteps \ {"none"} : Nested!Moves(r, p) \/ Nested!Knows(r, p)
    BY ONLY <1>4 DEF Nested!Resume, Nested!Begin, Nested!Close, Nested!Create, NestedSteps
  <2>4. (Nested!Works \/ Nested!Faulty) /\ UNCHANGED <<starting, req>>
    BY ONLY <1>4 DEF Nested!Resume, Nested!Begin, Nested!Close, Nested!Create
  <2>5. rt' = rt \/ \E v \in RtStates : rt' = [rt EXCEPT ![sid] = v]
    <3>1. [rt[sid] EXCEPT !.st = "paused"] \in RtStates /\ [rt[sid] EXCEPT !.st = "stopped"] \in RtStates
      BY <2>2 DEF RtStates
    <3>2. Nested!Resumed \in RtStates /\ Nested!Began \in RtStates
      BY DEF RtStates, Nested!Resumed, Nested!Began
    <3>3. [rt[sid] EXCEPT !.st = rt[sid].st] = rt[sid]
      BY <2>2 DEF RtStates
    <3>4. CASE Nested!Resume(r) \/ Nested!Begin(r) \/ Nested!Create(r)
      BY ONLY <3>4, <3>2, <2>2 DEF Nested!Resume, Nested!Begin, Nested!Create, Nested!Sid, sid
    <3>5. CASE Nested!Close(r)
      BY ONLY <3>5, <3>1, <3>3, <2>2 DEF Nested!Close, Nested!Closed, Nested!Sid, sid
    <3> QED
      BY <1>4, <3>4, <3>5
  <2>6. nested' = nested \/ \E b \in BOOLEAN : nested' = [nested EXCEPT ![sid] = b]
    BY ONLY <1>4 DEF Nested!Resume, Nested!Begin, Nested!Close, Nested!Create, Nested!Sid, sid
  <2>7. rt' \in [NestedSids -> RtStates]
    BY ONLY NestedShape, <2>5 DEF NestedShape
  <2>8. nested' \in [NestedSids -> BOOLEAN]
    BY ONLY NestedShape, <2>6 DEF NestedShape
  <2> QED
    BY <2>1, <2>3, <2>4, <2>7, <2>8 DEF Goes
<1> QED
  BY <1>1, <1>2, <1>3, <1>4

\* What the requests, and the marks, of a state say when a start goes on.
LEMMA GoesOn ==
    ASSUME NestedInv, NEW r \in NestedRequests, Goes(r), Downs
    PROVE  NestedShape' /\ OneDecides' /\ OneStarts' /\ Marked' /\ MarkKept'
<1>1. down' \in [NestedRequests -> BOOLEAN]
  BY DEF Downs
<1>2. NestedShape
  BY DEF NestedInv
<1>3. NestedShape'
  <2>1. nestedUsed' \in [requests : Nat, faults : Nat, pauses : Nat, crashes : Nat]
    BY <1>2, FaultsCounted DEF Goes
  <2>2. start' \in [NestedRequests -> StartStates]
    BY <1>2, StartGoes DEF Goes
  <2> QED
    BY <1>1, <2>1, <2>2 DEF NestedInv, NestedShape, Goes
<1>4. /\ StartsOne(r) /\ StartsOne(r)' /\ start'[r].sid = start[r].sid
      /\ \A q \in NestedRequests : q # r => start'[q] = start[q]
  BY <1>2, StartGoes DEF Goes, StartsOne
<1>5. req' = req /\ starting' = starting /\ nestedUsed'.crashes = nestedUsed.crashes
  BY <1>2, FaultsCounted DEF Goes
<1>6. \A q \in NestedRequests : /\ StartsOne(q)' <=> StartsOne(q)
                                /\ start'[q].sid = start[q].sid
  BY <1>4 DEF StartsOne
<1>7. OneDecides' /\ OneStarts'
  BY <1>5, <1>6 DEF NestedInv, OneDecides, OneStarts, Decides
<1>8. \A q \in NestedRequests : down[q] /\ req[q].pc # "idle" => down'[q]
  BY <1>5 DEF Downs
<1>9. Marked' /\ MarkKept'
  BY <1>5, <1>6, <1>8 DEF NestedInv, Marked, MarkKept, FoundDown
<1> QED
  BY <1>3, <1>7, <1>9

\* A start that brings its own runtime so far.
LEMMA BringsUp ==
    ASSUME NestedInv, NEW r \in NestedRequests, Goes(r), Downs,
           \A s \in NestedSids : s # start[r].sid => rt'[s] = rt[s] /\ nested'[s] = nested[s],
           nestedUsed'.faults = 0 /\ nestedUsed'.crashes = 0 => Brought(r)'
    PROVE  NestedInv'
<1>1. NestedShape' /\ OneDecides' /\ OneStarts' /\ Marked' /\ MarkKept'
  BY GoesOn
<1>2. /\ StartsOne(r) /\ StartsOne(r)' /\ start'[r].sid = start[r].sid
      /\ \A q \in NestedRequests : q # r => start'[q] = start[q]
  BY StartGoes DEF Goes, StartsOne, NestedInv
<1>3. /\ req' = req /\ nestedUsed'.crashes = nestedUsed.crashes
      /\ nestedUsed'.faults >= nestedUsed.faults /\ nestedUsed.faults \in Nat
  BY FaultsCounted DEF Goes, NestedInv, NestedShape
<1>4. ASSUME nestedUsed'.faults = 0, nestedUsed'.crashes = 0
      PROVE  /\ \A s \in NestedSids : Runs(s)' =>
                    nested'[s] \/ \E q \in NestedRequests : StartsOne(q)' /\ start'[q].sid = s
             /\ \A q \in NestedRequests : StartsOne(q)' => Brought(q)'
             /\ \A q \in NestedRequests : req'[q].pc = "mark" => rt'[req'[q].sid].st # "running"
  <2>1. nestedUsed.faults = 0 /\ nestedUsed.crashes = 0
    BY <1>3, <1>4
  <2>2. ASSUME NEW s \in NestedSids, Runs(s)'
        PROVE  nested'[s] \/ \E q \in NestedRequests : StartsOne(q)' /\ start'[q].sid = s
    BY <1>2, <2>1, <2>2 DEF NestedInv, BroughtUp, Runs, StartsOne
  <2>3. ASSUME NEW q \in NestedRequests, q # r, StartsOne(q)' PROVE Brought(q)'
    <3>1. start[q].sid \in NestedSids /\ start[q].sid # start[r].sid
      BY <1>2, <2>3 DEF NestedInv, OneStarts, StartsOne
    <3> QED
      BY <1>2, <2>1, <2>3, <3>1 DEF NestedInv, BroughtUp, Brought, Runs, StartsOne
  <2>4. ASSUME NEW q \in NestedRequests, req'[q].pc = "mark" PROVE rt'[req'[q].sid].st # "running"
    <3>1. req[q].pc = "mark" /\ req[q].sid \in NestedSids /\ req[q].sid # start[r].sid
      BY <1>2, <1>3, <2>4 DEF NestedInv, OneDecides, Decides, Marked, FoundDown
    <3> QED
      BY <1>3, <2>1, <3>1 DEF NestedInv, BroughtUp, Runs
  <2> QED
    BY <1>4, <2>2, <2>3, <2>4
<1> QED
  BY <1>1, <1>4 DEF NestedInv, BroughtUp, Runs

\* What each step of a start brings about, where nothing fails.
LEMMA StartBrings ==
    ASSUME NestedInv, Downs, NEW r \in NestedRequests,
           \/ Nested!Ensure(r) \/ Nested!Check(r) \/ Nested!Resume(r) \/ Nested!Begin(r)
           \/ Nested!WaitUntilAlive(r) \/ Nested!Close(r) \/ Nested!Create(r)
    PROVE  NestedInv'
<1> DEFINE s == start[r].sid
<1>1. Goes(r) /\ NestedShape
  BY StartSteps DEF NestedInv
<1>2. s \in NestedSids /\ rt[s] \in RtStates
  BY <1>1 DEF NestedInv, OneStarts, Goes, NestedShape
<1>3. /\ nestedUsed'.crashes = nestedUsed.crashes /\ nestedUsed'.faults >= nestedUsed.faults
      /\ Nested!Faulty => nestedUsed'.faults # 0
      /\ nestedUsed.faults \in Nat
  BY <1>1, FaultsCounted DEF Goes, NestedShape
<1>4. ASSUME nestedUsed'.faults = 0, nestedUsed'.crashes = 0
      PROVE  ~Nested!Faulty /\ Brought(r)
  BY <1>1, <1>3, <1>4 DEF NestedInv, BroughtUp, Goes
<1>5. ASSUME NEW p \in NestedSteps, Nested!Moves(r, p) \/ Nested!Knows(r, p)
      PROVE  /\ start'[r].pc = p /\ start'[r].sid = s
             /\ start[r].known \/ Nested!Knows(r, p) => start'[r].known
  BY <1>1, <1>5, StartGoes
<1> HIDE DEF s
<1>6. ASSUME Nested!Ensure(r) \/ Nested!Check(r) \/ Nested!WaitUntilAlive(r)
      PROVE  NestedInv'
  <2>1. rt' = rt /\ nested' = nested
    BY ONLY <1>6 DEF Nested!Ensure, Nested!Check, Nested!WaitUntilAlive, Nested!Same
  <2>2. ASSUME nestedUsed'.faults = 0, nestedUsed'.crashes = 0 PROVE Brought(r)'
    <3>1. ~Nested!Faulty /\ Brought(r)
      BY <1>4, <2>2
    <3>2. CASE Nested!Ensure(r)
      <4>1. Nested!Moves(r, "check") /\ start[r].pc = "ensure"
        BY <3>1, <3>2 DEF Nested!Ensure, Nested!At
      <4>2. start'[r].pc = "check" /\ start'[r].sid = s
        BY <4>1, <1>5 DEF NestedSteps
      <4> QED
        BY <2>1, <3>1, <4>1, <4>2 DEF Brought, Runs, s
    <3>3. CASE Nested!Check(r)
      <4>1. /\ start[r].pc = "check" /\ ~Runs(s)
            /\ Nested!Knows(r, "resume") \/ Nested!Moves(r, "begin")
        BY <3>1, <3>3 DEF Nested!Check, Nested!At, Nested!Sid, Brought, Runs, s
      <4>2. \/ start'[r].pc = "resume" /\ start'[r].known
            \/ start'[r].pc = "begin"
        BY <4>1, <1>5 DEF NestedSteps
      <4> QED
        BY <4>2 DEF Brought
    <3>4. CASE Nested!WaitUntilAlive(r)
      <4>1. /\ start[r].pc \in {"wait", "rewait"} /\ start[r].known
            /\ \/ Nested!IsReady(r) /\ (Nested!Moves(r, "wait") \/ Nested!Moves(r, "create"))
               \/ Nested!Moves(r, "begin") \/ Nested!Moves(r, "close")
        BY <3>1, <3>4 DEF Nested!WaitUntilAlive, Nested!At, Brought
      <4>2. /\ start'[r].known /\ start'[r].sid = s
            /\ \/ Nested!IsReady(r) /\ start'[r].pc \in {"wait", "create"}
               \/ start'[r].pc \in {"begin", "close"}
        BY <4>1, <1>5 DEF NestedSteps
      <4>3. Nested!IsReady(r) => rt'[s].pod = "ready"
        BY <2>1 DEF Nested!IsReady, Nested!Sid, s
      <4> QED
        BY <4>2, <4>3 DEF Brought
    <3> QED
      BY <1>6, <3>2, <3>3, <3>4
  <2> QED
    BY <1>1, <2>1, <2>2, BringsUp
<1>7. ASSUME Nested!Resume(r) PROVE NestedInv'
  <2>1. nested' = nested /\ (rt' = rt \/ rt' = [rt EXCEPT ![s] = Nested!Resumed])
    BY ONLY <1>7 DEF Nested!Resume, Nested!Sid, s
  <2>2. ASSUME nestedUsed'.faults = 0, nestedUsed'.crashes = 0 PROVE Brought(r)'
    <3>1. Nested!Moves(r, "rewait") /\ start[r].known
      BY <1>4, <1>7, <2>2 DEF Nested!Resume, Nested!At, Brought
    <3>2. start'[r].pc = "rewait" /\ start'[r].known
      BY <3>1, <1>5 DEF NestedSteps
    <3> QED
      BY <3>2 DEF Brought
  <2>3. \A o \in NestedSids : o # s => rt'[o] = rt[o] /\ nested'[o] = nested[o]
    BY ONLY <2>1, <1>1 DEF NestedShape
  <2> QED
    BY <1>1, <2>2, <2>3, BringsUp DEF s
<1>8. ASSUME Nested!Begin(r) PROVE NestedInv'
  <2>1. /\ rt' = rt \/ \E v : rt' = [rt EXCEPT ![s] = v]
        /\ nested' = nested \/ nested' = [nested EXCEPT ![s] = FALSE]
    BY ONLY <1>8 DEF Nested!Begin, Nested!Sid, s
  <2>2. ASSUME nestedUsed'.faults = 0, nestedUsed'.crashes = 0 PROVE Brought(r)'
    <3>1. Nested!Knows(r, "wait")
      BY <1>4, <1>8, <2>2 DEF Nested!Begin
    <3>2. start'[r].pc = "wait" /\ start'[r].known
      BY <3>1, <1>5 DEF NestedSteps
    <3> QED
      BY <3>2 DEF Brought
  <2>3. \A o \in NestedSids : o # s => rt'[o] = rt[o] /\ nested'[o] = nested[o]
    BY ONLY <2>1, <1>1 DEF NestedShape
  <2> QED
    BY <1>1, <2>2, <2>3, BringsUp DEF s
<1>9. ASSUME Nested!Close(r) PROVE NestedInv'
  <2>1. \/ UNCHANGED <<rt, nested>>
        \/ rt' = Nested!Closed(s) /\ nested' = [nested EXCEPT ![s] = FALSE]
    BY ONLY <1>9 DEF Nested!Close, Nested!Sid, s
  <2>2. ASSUME nestedUsed'.faults = 0, nestedUsed'.crashes = 0 PROVE Brought(r)'
    <3>1. rt' = Nested!Closed(s) /\ Nested!Moves(r, "finally")
      BY <1>4, <1>9, <2>2 DEF Nested!Close, Nested!At, Nested!Sid, Brought, s
    <3>2. rt'[s].st # "running"
      BY ONLY <3>1, <1>1, <1>2 DEF NestedShape, Nested!Closed, RtStates
    <3>3. start'[r].pc = "finally" /\ start'[r].sid = s
      BY <3>1, <1>5 DEF NestedSteps
    <3> QED
      BY <3>2, <3>3 DEF Brought, Runs
  <2>3. \A o \in NestedSids : o # s => rt'[o] = rt[o] /\ nested'[o] = nested[o]
    BY ONLY <2>1, <1>1 DEF NestedShape, Nested!Closed
  <2> QED
    BY <1>1, <2>2, <2>3, BringsUp DEF s
<1>10. ASSUME Nested!Create(r) PROVE NestedInv'
  <2>1. rt' = rt /\ (nested' = nested \/ nested' = [nested EXCEPT ![s] = TRUE])
    BY ONLY <1>10 DEF Nested!Create, Nested!Sid, s
  <2>2. ASSUME nestedUsed'.faults = 0, nestedUsed'.crashes = 0 PROVE Brought(r)'
    <3>1. ~Nested!Faulty /\ (Runs(s) => rt[s].pod = "ready") /\ Nested!Moves(r, "finally")
      BY <1>4, <1>10, <2>2 DEF Nested!Create, Nested!At, Brought, s
    <3>2. Runs(s) => nested' = [nested EXCEPT ![s] = TRUE]
      BY <1>10, <3>1 DEF Nested!Create, Nested!IsReady, Nested!Running, Nested!Sid, Runs, s
    <3>3. rt'[s].st = "running" => nested'[s]
      BY <3>2, <2>1, <1>1, <1>2 DEF Runs, NestedShape
    <3>4. start'[r].pc = "finally" /\ start'[r].sid = s
      BY <3>1, <1>5 DEF NestedSteps
    <3> QED
      BY <3>3, <3>4 DEF Brought, Runs
  <2>3. \A o \in NestedSids : o # s => rt'[o] = rt[o] /\ nested'[o] = nested[o]
    BY ONLY <2>1, <1>1 DEF NestedShape
  <2> QED
    BY <1>1, <2>2, <2>3, BringsUp DEF s
<1> QED
  BY <1>6, <1>7, <1>8, <1>9, <1>10

\* A request is decided by one look at the mark and one at the runtime.
LEMMA RequestKeeps ==
    ASSUME NestedInv, Downs, NEW r \in NestedRequests, NEW s \in NestedSids, Nested!Request(r, s)
    PROVE  NestedInv'
<1>1. NestedShape' /\ nestedUsed'.faults = nestedUsed.faults /\ nestedUsed'.crashes = nestedUsed.crashes
  BY RequestTypes DEF NestedInv
<1>2. /\ req' = [req EXCEPT ![r] = [Nested!NoRequest EXCEPT !.pc = "read", !.sid = s]]
      /\ UNCHANGED <<starting, rt, nested, start>>
      /\ req[r].pc = "idle" /\ start[r].pc = "none"
      /\ \A q \in NestedRequests : ~(Decides(q) /\ req[q].sid = s)
  BY DEF Nested!Request, Nested!Deciding, Decides
<1>3. /\ req'[r].pc = "read" /\ req'[r].sid = s
      /\ \A q \in NestedRequests : q # r => req'[q] = req[q]
  BY <1>2 DEF NestedInv, NestedShape, Nested!NoRequest
<1>4. OneDecides' /\ OneStarts'
  BY <1>2, <1>3 DEF NestedInv, OneDecides, OneStarts, Decides, StartsOne
<1>5. \A q \in NestedRequests : down[q] /\ req[q].pc # "idle" => down'[q]
  BY <1>2, <1>3 DEF Downs
<1>6. Marked' /\ MarkKept'
  BY <1>1, <1>2, <1>3, <1>5 DEF NestedInv, Marked, MarkKept, FoundDown, StartsOne
<1>7. BroughtUp'
  BY <1>1, <1>2, <1>3 DEF NestedInv, BroughtUp, Brought, Runs, StartsOne
<1> QED
  BY <1>1, <1>4, <1>6, <1>7 DEF NestedInv

LEMMA ReadKeeps ==
    ASSUME NestedInv, Downs, NEW r \in NestedRequests, Nested!ReadFirst(r) \/ Nested!ReadSecond(r)
    PROVE  NestedInv'
<1>1. NestedShape' /\ nestedUsed'.faults = nestedUsed.faults /\ nestedUsed'.crashes = nestedUsed.crashes
  BY RequestTypes DEF NestedInv
<1>2. UNCHANGED <<starting, rt, nested, start>> /\ Decides(r)
  BY DEF Nested!ReadFirst, Nested!ReadSecond, Decides
<1>3. req[r].sid \in NestedSids /\ req[r] \in ReqStates
  BY <1>2 DEF NestedInv, OneDecides, NestedShape
<1>4. \A q \in NestedRequests : q # r => req'[q] = req[q]
  BY DEF NestedInv, NestedShape, Nested!ReadFirst, Nested!ReadSecond
<1>5. \/ /\ req'[r].pc = "look" /\ req'[r].sid = req[r].sid
         /\ req'[r].starting = starting[req[r].sid]
      \/ req'[r].pc = "idle"
      \/ /\ req'[r].pc = "mark" /\ req'[r].sid = req[r].sid /\ ~req'[r].starting
         /\ FoundDown(r) /\ ~Runs(req[r].sid)
  <2>1. CASE Nested!ReadFirst(r)
    <3>1. req' = [req EXCEPT ![r] = [[req[r] EXCEPT !.starting = starting[req[r].sid]] EXCEPT !.pc = "look"]]
      BY ONLY <2>1 DEF Nested!ReadFirst, Nested!Seen, Nested!Reads
    <3> QED
      BY <3>1, <1>3 DEF NestedInv, NestedShape, ReqStates
  <2>2. CASE Nested!ReadSecond(r)
    <3> DEFINE q == [req[r] EXCEPT !.running = Runs(req[r].sid)]
    <3>1. /\ req[r].pc = "look"
          /\ req' = [req EXCEPT ![r] = IF q.starting \/ q.running THEN Nested!NoRequest
                                                                  ELSE [q EXCEPT !.pc = "mark"]]
      BY ONLY <2>2 DEF Nested!ReadSecond, Nested!Seen, Nested!Reads, Nested!Running, Runs
    <3>2. q.starting = req[r].starting /\ q.running = Runs(req[r].sid) /\ q.sid = req[r].sid /\ q \in ReqStates
      BY <1>3 DEF ReqStates, Runs
    <3> HIDE DEF q
    <3>3. [q EXCEPT !.pc = "mark"].pc = "mark" /\ [q EXCEPT !.pc = "mark"].sid = q.sid
          /\ [q EXCEPT !.pc = "mark"].starting = q.starting
      BY <3>2 DEF ReqStates
    <3>4. req'[r] = IF q.starting \/ q.running THEN Nested!NoRequest ELSE [q EXCEPT !.pc = "mark"]
      BY <3>1 DEF NestedInv, NestedShape
    <3>5. CASE q.starting \/ q.running
      BY <3>4, <3>5 DEF Nested!NoRequest
    <3>6. CASE ~(q.starting \/ q.running)
      BY <3>1, <3>2, <3>3, <3>4, <3>6 DEF FoundDown
    <3> QED
      BY <3>5, <3>6
  <2> QED
    BY <2>1, <2>2
<1>6. OneDecides' /\ OneStarts'
  BY <1>2, <1>4, <1>5 DEF NestedInv, OneDecides, OneStarts, Decides, StartsOne
<1>7. \A q \in NestedRequests : q # r /\ down[q] /\ req[q].pc # "idle" => down'[q]
  BY <1>4 DEF Downs
<1>8. req'[r].pc = "mark" => down'[r]
  BY <1>2, <1>5 DEF Downs, NestedInv, Marked, Runs
<1>9. Marked' /\ MarkKept'
  BY <1>1, <1>2, <1>4, <1>5, <1>7, <1>8 DEF NestedInv, Marked, MarkKept, FoundDown, StartsOne
<1>10. BroughtUp'
  BY <1>1, <1>2, <1>4, <1>5 DEF NestedInv, BroughtUp, Brought, Runs, StartsOne
<1> QED
  BY <1>1, <1>6, <1>9, <1>10 DEF NestedInv

LEMMA MarkKeeps ==
    ASSUME NestedInv, Downs, NEW r \in NestedRequests, Nested!Mark(r) PROVE NestedInv'
<1> DEFINE s == req[r].sid
<1>1. NestedShape' /\ nestedUsed'.faults = nestedUsed.faults /\ nestedUsed'.crashes = nestedUsed.crashes
  BY RequestTypes DEF NestedInv
<1>2. /\ starting' = [starting EXCEPT ![s] = TRUE] /\ rt' = rt /\ nested' = nested
      /\ start' = [start EXCEPT ![r] = [pc |-> "ensure", sid |-> s, known |-> FALSE]]
      /\ req' = [req EXCEPT ![r] = Nested!NoRequest] /\ req[r].pc = "mark"
  BY DEF Nested!Mark
<1>3. s \in NestedSids /\ Decides(r) /\ FoundDown(r) /\ ~starting[s] /\ ~StartsOne(r)
  BY <1>2 DEF NestedInv, OneDecides, Decides, Marked, FoundDown
<1> HIDE DEF s
<1>4. /\ starting'[s] /\ \A o \in NestedSids : o # s => starting'[o] = starting[o]
      /\ start'[r].pc = "ensure" /\ start'[r].sid = s /\ req'[r].pc = "idle"
      /\ \A q \in NestedRequests : q # r => req'[q] = req[q] /\ start'[q] = start[q]
  BY <1>2, <1>3 DEF NestedInv, NestedShape, Nested!NoRequest
<1>5. \A q \in NestedRequests : /\ StartsOne(q) => start[q].sid # s
                                /\ q # r /\ Decides(q) => req[q].sid # s
  BY <1>3 DEF NestedInv, Marked, OneDecides, s
<1>6. OneDecides' /\ OneStarts'
  BY <1>3, <1>4, <1>5 DEF NestedInv, OneDecides, OneStarts, Decides, StartsOne
<1>7. \A q \in NestedRequests : q # r /\ down[q] /\ req[q].pc # "idle" => down'[q]
  BY <1>4 DEF Downs
<1>8. Marked'
  BY <1>3, <1>4, <1>5, <1>7 DEF NestedInv, Marked, FoundDown, StartsOne, Decides, OneStarts, OneDecides
<1>9. MarkKept'
  BY <1>1, <1>3, <1>4, <1>5 DEF NestedInv, MarkKept, StartsOne
<1>10. BroughtUp'
  BY <1>1, <1>2, <1>3, <1>4, <1>5 DEF NestedInv, BroughtUp, Brought, Runs, StartsOne, s
<1> QED
  BY <1>1, <1>6, <1>8, <1>9, <1>10 DEF NestedInv

LEMMA FinallyKeeps ==
    ASSUME NestedInv, Downs, NEW r \in NestedRequests, Nested!Finally(r) PROVE NestedInv'
<1> DEFINE s == start[r].sid
<1>1. /\ starting' = [starting EXCEPT ![s] = FALSE]
      /\ start' = [start EXCEPT ![r] = Nested!NoStart]
      /\ UNCHANGED <<rt, nested, req, nestedUsed>> /\ start[r].pc = "finally"
  BY DEF Nested!Finally, Nested!At, Nested!AtEnd, Nested!Sid
<1>2. s \in NestedSids /\ StartsOne(r) /\ starting[s]
  BY <1>1 DEF NestedInv, OneStarts, StartsOne, Marked
<1> HIDE DEF s
<1>3. /\ ~starting'[s] /\ \A o \in NestedSids : o # s => starting'[o] = starting[o]
      /\ start'[r].pc = "none"
      /\ \A q \in NestedRequests : q # r => start'[q] = start[q]
  BY <1>1, <1>2 DEF NestedInv, NestedShape, Nested!NoStart
<1>4. \A q \in NestedRequests : q # r /\ StartsOne(q) => start[q].sid # s
  BY <1>2 DEF NestedInv, OneStarts, s
<1>5. NestedShape'
  BY <1>1 DEF Downs, NestedInv, NestedShape, StartStates, NestedSteps, Nested!NoStart
<1>6. OneDecides' /\ OneStarts'
  BY <1>1, <1>3 DEF NestedInv, OneDecides, OneStarts, Decides, StartsOne
<1>7. \A q \in NestedRequests : down[q] /\ req[q].pc # "idle" => down'[q]
  BY <1>1 DEF Downs
<1>8. Marked'
  <2>1. ASSUME NEW q \in NestedRequests, StartsOne(q)' PROVE starting'[start'[q].sid]
    BY <1>3, <1>4, <2>1 DEF NestedInv, OneStarts, Marked, StartsOne
  <2>2. ASSUME NEW q \in NestedRequests, FoundDown(q)' PROVE ~starting'[req'[q].sid]
    BY <1>1, <1>3, <2>2 DEF NestedInv, OneDecides, Decides, Marked, FoundDown
  <2>3. ASSUME NEW q \in NestedRequests, req'[q].pc = "mark" PROVE ~req'[q].starting /\ down'[q]
    BY <1>1, <1>7, <2>3 DEF NestedInv, Marked
  <2> QED
    BY <2>1, <2>2, <2>3 DEF Marked
<1>9. MarkKept'
  BY <1>1, <1>2, <1>3, <1>4 DEF NestedInv, MarkKept, StartsOne, s
<1>10. BroughtUp'
  BY <1>1, <1>2, <1>3, <1>4 DEF NestedInv, BroughtUp, Brought, Runs, StartsOne, s
<1> QED
  BY <1>5, <1>6, <1>8, <1>9, <1>10 DEF NestedInv

LEMMA ServerDies ==
    ASSUME NestedInv, Downs, NEW r \in NestedRequests, Nested!Crash(r) PROVE NestedInv'
<1>1. /\ req' = [req EXCEPT ![r] = Nested!NoRequest] /\ start' = [start EXCEPT ![r] = Nested!NoStart]
      /\ UNCHANGED <<starting, rt, nested>> /\ nestedUsed' = [nestedUsed EXCEPT !.crashes = @ + 1]
  BY DEF Nested!Crash, Nested!Uses
<1>2. /\ req'[r].pc = "idle" /\ start'[r].pc = "none"
      /\ \A q \in NestedRequests : q # r => req'[q] = req[q] /\ start'[q] = start[q]
      /\ nestedUsed'.crashes # 0
  BY <1>1 DEF NestedInv, NestedShape, Nested!NoRequest, Nested!NoStart
<1>3. NestedShape'
  <2>1. Nested!NoStart \in StartStates /\ Nested!NoRequest \in ReqStates
    BY DEF StartStates, ReqStates, NestedSteps, Nested!NoStart, Nested!NoRequest
  <2> QED
    BY <1>1, <2>1 DEF Downs, NestedInv, NestedShape
<1>4. OneDecides' /\ OneStarts'
  BY <1>1, <1>2 DEF NestedInv, OneDecides, OneStarts, Decides, StartsOne
<1>5. \A q \in NestedRequests : q # r /\ down[q] /\ req[q].pc # "idle" => down'[q]
  BY <1>2 DEF Downs
<1>6. Marked' /\ MarkKept' /\ BroughtUp'
  BY <1>1, <1>2, <1>5 DEF NestedInv, Marked, MarkKept, BroughtUp, FoundDown, StartsOne
<1> QED
  BY <1>3, <1>4, <1>6 DEF NestedInv

\* What the service does to a runtime never makes one run.
LEMMA ServiceKeeps ==
    ASSUME NestedInv, Downs, NEW s \in NestedSids,
           Nested!PodReady(s) \/ Nested!PodFails(s) \/ Nested!Pause(s) \/ Nested!Expire(s)
    PROVE  NestedInv'
<1>1. req' = req /\ start' = start
  BY DEF Nested!PodReady, Nested!PodFails, Nested!Pause, Nested!Expire
<1>2. \A q \in NestedRequests : down[q] /\ req[q].pc # "idle" => down'[q]
  BY <1>1 DEF Downs
<1>3. OneDecides' /\ OneStarts'
  BY <1>1 DEF NestedInv, OneDecides, OneStarts, Decides, StartsOne
<1>4. down' \in [NestedRequests -> BOOLEAN]
  BY DEF Downs
<1>5. rt[s] \in RtStates
  BY DEF NestedInv, NestedShape
<1>6. ASSUME Nested!PodReady(s) \/ Nested!PodFails(s) \/ Nested!Pause(s) PROVE NestedInv'
  <2>1. /\ starting' = starting /\ nestedUsed'.crashes = nestedUsed.crashes
        /\ nestedUsed' \in [requests : Nat, faults : Nat, pauses : Nat, crashes : Nat]
        /\ nestedUsed'.faults >= nestedUsed.faults /\ (Nested!PodFails(s) => nestedUsed'.faults # 0)
    BY ONLY <1>6, NestedInv DEF NestedInv, NestedShape, Nested!PodReady, Nested!PodFails, Nested!Pause,
       Nested!Faulty, Nested!Uses
  <2>2. PICK v \in RtStates : /\ rt' = [rt EXCEPT ![s] = v]
                              /\ \/ Nested!PodReady(s) /\ v.st = rt[s].st /\ v.pod = "ready" /\ nested' = nested
                                 \/ Nested!PodFails(s) /\ v.st = rt[s].st /\ nested' = nested
                                 \/ v.st = "paused" /\ nested' = [nested EXCEPT ![s] = FALSE]
    <3>1. /\ [rt[s] EXCEPT !.pod = "ready"] \in RtStates /\ [rt[s] EXCEPT !.pod = "failed"] \in RtStates
          /\ [rt[s] EXCEPT !.st = "paused"] \in RtStates
          /\ [rt[s] EXCEPT !.pod = "ready"].st = rt[s].st /\ [rt[s] EXCEPT !.pod = "ready"].pod = "ready"
          /\ [rt[s] EXCEPT !.pod = "failed"].st = rt[s].st /\ [rt[s] EXCEPT !.st = "paused"].st = "paused"
      BY <1>5 DEF RtStates
    <3>2. \/ Nested!PodReady(s) /\ rt' = [rt EXCEPT ![s] = [rt[s] EXCEPT !.pod = "ready"]] /\ nested' = nested
          \/ Nested!PodFails(s) /\ rt' = [rt EXCEPT ![s] = [rt[s] EXCEPT !.pod = "failed"]] /\ nested' = nested
          \/ /\ rt' = [rt EXCEPT ![s] = [rt[s] EXCEPT !.st = "paused"]]
             /\ nested' = [nested EXCEPT ![s] = FALSE]
      BY ONLY <1>6 DEF Nested!PodReady, Nested!PodFails, Nested!Pause
    <3> QED
      BY ONLY <3>1, <3>2
  <2>3. /\ rt' \in [NestedSids -> RtStates] /\ nested' \in [NestedSids -> BOOLEAN] /\ rt'[s] = v
        /\ \A o \in NestedSids : o # s => rt'[o] = rt[o] /\ nested'[o] = nested[o]
    BY <2>2 DEF NestedInv, NestedShape
  <2>4. NestedShape'
    BY <1>1, <1>4, <2>1, <2>3 DEF NestedInv, NestedShape
  <2>5. Marked' /\ MarkKept'
    BY <1>1, <1>2, <2>1 DEF NestedInv, Marked, MarkKept, FoundDown, StartsOne
  <2>6. nestedUsed.faults \in Nat
    BY DEF NestedInv, NestedShape
  <2>7. ASSUME nestedUsed'.faults = 0
        PROVE  /\ nestedUsed.faults = 0 /\ \A o \in NestedSids : Runs(o)' => Runs(o) /\ nested'[o] = nested[o]
               /\ \A o \in NestedSids : rt[o].pod = "ready" /\ Runs(o)' => rt'[o].pod = "ready"
    BY <2>1, <2>2, <2>3, <2>6, <2>7 DEF Runs, NestedInv, NestedShape
  <2>8. BroughtUp'
    BY <1>1, <2>1, <2>7 DEF NestedInv, BroughtUp, Brought, Runs, StartsOne, OneStarts, OneDecides, Decides
  <2> QED
    BY <1>3, <2>4, <2>5, <2>8 DEF NestedInv
<1>7. ASSUME Nested!Expire(s) PROVE NestedInv'
  <2>1. /\ starting' = [starting EXCEPT ![s] = FALSE] /\ UNCHANGED <<rt, nested, nestedUsed>>
        /\ \A q \in NestedRequests : ~(StartsOne(q) /\ start[q].sid = s)
    BY <1>7 DEF Nested!Expire, Nested!Starting, StartsOne
  <2>2. NestedShape'
    BY <1>1, <1>4, <2>1 DEF NestedInv, NestedShape
  <2>3. Marked'
    <3>1. /\ ~starting'[s] /\ \A o \in NestedSids : o # s => starting'[o] = starting[o]
      BY <2>1 DEF NestedInv, NestedShape
    <3>2. ASSUME NEW q \in NestedRequests, StartsOne(q)' PROVE starting'[start'[q].sid]
      BY <1>1, <2>1, <3>1, <3>2 DEF NestedInv, OneStarts, Marked, StartsOne
    <3>3. ASSUME NEW q \in NestedRequests, FoundDown(q)' PROVE ~starting'[req'[q].sid]
      BY <1>1, <3>1, <3>3 DEF NestedInv, OneDecides, Decides, Marked, FoundDown
    <3>4. ASSUME NEW q \in NestedRequests, req'[q].pc = "mark" PROVE ~req'[q].starting /\ down'[q]
      BY <1>1, <1>2, <3>4 DEF NestedInv, Marked
    <3> QED
      BY <3>2, <3>3, <3>4 DEF Marked
  <2>4. MarkKept'
    BY <1>1, <2>1 DEF NestedInv, NestedShape, MarkKept, StartsOne
  <2>5. BroughtUp'
    BY <1>1, <2>1 DEF NestedInv, BroughtUp, Brought, Runs, StartsOne
  <2> QED
    BY <1>3, <2>2, <2>3, <2>4, <2>5 DEF NestedInv
<1> QED
  BY <1>6, <1>7

LEMMA NestedStep == NestedInv /\ [Nested!Next]_nestedVars => NestedInv'
<1> SUFFICES ASSUME NestedInv, [Nested!Next]_nestedVars PROVE NestedInv'
  OBVIOUS
<1>1. CASE UNCHANGED nestedVars
  BY <1>1 DEF nestedVars, NestedInv, NestedShape, OneDecides, OneStarts, Marked, MarkKept, BroughtUp,
     Brought, Runs, Decides, StartsOne, FoundDown
<1>2. CASE Nested!Next
  <2>1. Nested!Step /\ Downs
    BY <1>2 DEF Nested!Next, Downs
  <2>2. ASSUME NEW r \in NestedRequests,
               \/ \E s \in NestedSids : Nested!Request(r, s)
               \/ Nested!ReadFirst(r) \/ Nested!ReadSecond(r) \/ Nested!Mark(r)
        PROVE  NestedInv'
    BY <2>1, <2>2, RequestKeeps, ReadKeeps, MarkKeeps
  <2>3. ASSUME NEW r \in NestedRequests,
               \/ Nested!Ensure(r) \/ Nested!Check(r) \/ Nested!Resume(r) \/ Nested!Begin(r)
               \/ Nested!WaitUntilAlive(r) \/ Nested!Close(r) \/ Nested!Create(r)
        PROVE  NestedInv'
    BY <2>1, <2>3, StartBrings
  <2>4. ASSUME NEW r \in NestedRequests, Nested!Finally(r) \/ Nested!Crash(r) PROVE NestedInv'
    BY <2>1, <2>4, FinallyKeeps, ServerDies
  <2>5. ASSUME NEW s \in NestedSids,
               Nested!PodReady(s) \/ Nested!PodFails(s) \/ Nested!Pause(s) \/ Nested!Expire(s)
        PROVE  NestedInv'
    BY <2>1, <2>5, ServiceKeeps
  <2> QED
    BY <2>1, <2>2, <2>3, <2>4, <2>5 DEF Nested!Step
<1> QED
  BY <1>1, <1>2

LEMMA NestedHolds ==
    ASSUME NestedInv
    PROVE  /\ Nested!OneStart /\ Nested!StartJustified /\ Nested!RunningIsServed
           /\ Nested!MarkedIsStarting
<1>1. Nested!OneStart
  <2>1. ASSUME NEW s \in NestedSids PROVE Nested!Cardinality(Nested!Starting(s)) <= 1
    <3>1. Nested!Cardinality(Nested!Starting(s)) = Cardinality(Nested!Starting(s))
      BY DEF Nested!Cardinality, Cardinality
    <3>2. \A r, q \in Nested!Starting(s) : r = q
      BY DEF NestedInv, OneStarts, StartsOne, Nested!Starting
    <3>3. Nested!Starting(s) = {} \/ \E r : Nested!Starting(s) = {r}
      BY <3>2
    <3>4. Cardinality(Nested!Starting(s)) \in {0, 1}
      BY <3>3, FS_EmptySet, FS_Singleton
    <3> QED
      BY <3>1, <3>4
  <2> QED
    BY <2>1 DEF Nested!OneStart
<1>2. Nested!StartJustified
  BY DEF NestedInv, Marked, Nested!StartJustified
<1>3. Nested!RunningIsServed
  BY DEF NestedInv, BroughtUp, Runs, StartsOne, Nested!RunningIsServed, Nested!Running, Nested!Starting
<1>4. Nested!MarkedIsStarting
  BY DEF NestedInv, MarkKept, StartsOne, Nested!MarkedIsStarting, Nested!Starting
<1> QED
  BY <1>1, <1>2, <1>3, <1>4

-----------------------------------------------------------------------------
(* The sessions of a server's conversations.                               *)

SessionIds(h) == 1..h.most
Coroutines(h) == h.requests \cup h.sids
TaskStates(h) ==
    [pc : {"idle", "disconnect", "emit", "wait"}, for : {"none"}, evict : {{}},
     sid : h.sids \cup {"none"}, left : SUBSET ManagerConns, session : SessionIds(h) \cup {0}]
SessionStates(h) ==
    [sid : h.sids \cup {"none"}, closed : BOOLEAN,
     phase : {"unborn", "new", "runtime", "memory", "started", "failed"},
     rt : {"none", "open", "closed"}, ctl : {"none", "open", "closed"}]
ManagerShape(h) ==
    /\ loops \in [h.sids -> SessionIds(h) \cup {0}]
    /\ sess \in [SessionIds(h) -> SessionStates(h)]
    /\ task \in [Coroutines(h) -> TaskStates(h)]

Made(i) == sess[i].phase # "unborn"
IsStarting(i) == sess[i].phase \in {"runtime", "memory"}
Freed(i) == ~IsStarting(i) /\ sess[i].rt # "open" /\ sess[i].ctl # "open"

\* Sessions are made in order, with a conversation.
MadeUpTo(h, n) == \A i \in SessionIds(h) : Made(i) <=> i <= n
SessionsInOrder(h) ==
    /\ \E n \in 0..h.most : MadeUpTo(h, n)
    /\ \A i \in SessionIds(h) : Made(i) => sess[i].sid \in h.sids

\* Who closes a session holds it from the table to the end.
HoldsWhileClosing(h) == \A t \in Coroutines(h) :
    /\ task[t].session # 0 <=> task[t].pc \in {"emit", "wait"}
    /\ task[t].pc = "disconnect" => task[t].sid \in h.sids

\* What the table has is not closed, and no coroutine holds it; nor do two hold one.
TableOpen(h) == \A s \in h.sids : loops[s] # 0 =>
    /\ Made(loops[s]) /\ sess[loops[s]].sid = s /\ ~sess[loops[s]].closed
    /\ \A t \in Coroutines(h) : task[t].session # loops[s]
HeldOnce(h) == \A t, u \in Coroutines(h) : task[t].session # 0 =>
    /\ Made(task[t].session)
    /\ task[t].session = task[u].session => t = u

\* What is not closed is in the table or held; what is closed is free, or somebody waits
\* for its start to free it.
OpenHeld(h) == \A i \in SessionIds(h) : Made(i) /\ ~sess[i].closed =>
    loops[sess[i].sid] = i \/ \E t \in Coroutines(h) : task[t].session = i
ClosedFreed(h) == \A i \in SessionIds(h) : Made(i) /\ sess[i].closed =>
    Freed(i) \/ \E t \in Coroutines(h) : task[t].pc = "wait" /\ task[t].session = i
WaitsClosed(h) == \A t \in Coroutines(h) : task[t].pc = "wait" => sess[task[t].session].closed

ManagerInv(h) ==
    /\ ManagerShape(h) /\ SessionsInOrder(h) /\ HoldsWhileClosing(h) /\ TableOpen(h)
    /\ HeldOnce(h) /\ OpenHeld(h) /\ ClosedFreed(h) /\ WaitsClosed(h)

LEMMA ManagerConstants ==
    ASSUME NEW h \in {Served, Again}
    PROVE  /\ h.most \in Nat /\ h.limit \in Nat \ {0} /\ "none" \notin h.sids /\ h.lasts = 0
           /\ h.requests \cap h.sids = {} /\ IsFiniteSet(h.sids) /\ Cardinality(h.sids) <= h.limit
<1>1. CASE h = Served
  <2>1. Managing(h)!ConversationAssumption
    BY <1>1, InstancesAssumption DEF InstancesAssumption
  <2> QED
    BY <1>1, <2>1, RoomAssumption DEF Managing!ConversationAssumption, Served
<1>2. CASE h = Again
  <2>1. Managing(h)!ConversationAssumption
    BY <1>2, InstancesAssumption DEF InstancesAssumption
  <2>2. IsFiniteSet({OneSid}) /\ Cardinality({OneSid}) = 1
    BY FS_Singleton
  <2> QED
    BY <1>2, <2>1, <2>2 DEF Managing!ConversationAssumption, Again
<1> QED
  BY <1>1, <1>2

LEMMA ManagerBegins == ASSUME NEW h \in {Served, Again}, Managing(h)!Init PROVE ManagerInv(h)
<1>1. /\ loops = [s \in h.sids |-> 0]
      /\ sess = [i \in SessionIds(h) |-> [sid |-> "none", phase |-> "unborn", closed |-> FALSE,
                                          rt |-> "none", ctl |-> "none"]]
      /\ task = [t \in Coroutines(h) |-> [pc |-> "idle", for |-> "none", evict |-> {}, sid |-> "none",
                                          left |-> {}, session |-> 0]]
  BY DEF Managing!Init, Managing!Ids, Managing!Tasks, Managing!Unborn, Managing!Idle, SessionIds, Coroutines
<1>2. \A i \in SessionIds(h) : sess[i] = [sid |-> "none", phase |-> "unborn", closed |-> FALSE,
                                          rt |-> "none", ctl |-> "none"]
  BY <1>1
<1>3. \A i \in SessionIds(h) : sess[i].phase = "unborn"
  BY ONLY <1>2
<1>4. \A t \in Coroutines(h) : task[t] = [pc |-> "idle", for |-> "none", evict |-> {}, sid |-> "none",
                                          left |-> {}, session |-> 0]
  BY <1>1
<1>5. \A t \in Coroutines(h) : task[t].session = 0 /\ task[t].pc = "idle"
  BY ONLY <1>4
<1>6. ManagerShape(h)
  <2>1. loops \in [h.sids -> SessionIds(h) \cup {0}]
    BY <1>1
  <2>2. [sid |-> "none", phase |-> "unborn", closed |-> FALSE, rt |-> "none", ctl |-> "none"]
          \in SessionStates(h)
    BY DEF SessionStates
  <2>3. [pc |-> "idle", for |-> "none", evict |-> {}, sid |-> "none", left |-> {}, session |-> 0] \in TaskStates(h)
    BY DEF TaskStates
  <2> QED
    BY <1>1, <2>1, <2>2, <2>3 DEF ManagerShape
<1>7. SessionsInOrder(h)
  <2>1. 0 \in 0..h.most /\ \A i \in SessionIds(h) : ~(i <= 0)
    BY ManagerConstants DEF SessionIds
  <2> QED
    BY <1>3, <2>1 DEF SessionsInOrder, MadeUpTo, Made
<1> QED
  BY <1>1, <1>3, <1>5, <1>6, <1>7 DEF ManagerInv, HoldsWhileClosing, TableOpen, HeldOnce, OpenHeld, ClosedFreed,
     WaitsClosed, Made

\* Where there is room, a conversation without a loop gets one at once.
LEMMA RoomForOne ==
    ASSUME NEW h \in {Served, Again}, NEW s \in h.sids, loops[s] = 0
    PROVE  Managing(h)!Cardinality(Managing(h)!Running) < h.limit
<1>1. Managing(h)!Running \subseteq h.sids \ {s}
  BY DEF Managing!Running
<1>2. IsFiniteSet(h.sids \ {s}) /\ Cardinality(h.sids \ {s}) = Cardinality(h.sids) - 1
      /\ Cardinality(h.sids) \in Nat
  BY ManagerConstants, FS_RemoveElement, FS_CardinalityType
<1>3. Cardinality(Managing(h)!Running) <= Cardinality(h.sids) - 1 /\ Cardinality(Managing(h)!Running) \in Nat
  BY <1>1, <1>2, FS_Subset, FS_CardinalityType
<1>4. Managing(h)!Cardinality(Managing(h)!Running) = Cardinality(Managing(h)!Running)
  BY DEF Managing!Cardinality, Cardinality
<1> QED
  BY <1>2, <1>3, <1>4, ManagerConstants

\* The next session, where a request may be made.
LEMMA NextSession ==
    ASSUME NEW h \in {Served, Again}, ManagerInv(h), NEW t, Managing(h)!MayRequest(t)
    PROVE  LET i == Managing(h)!Cardinality(Managing(h)!Born) + 1 IN
           i \in SessionIds(h) /\ ~Made(i) /\ \A j \in SessionIds(h) : Made(j) <=> j < i
<1>1. PICK n \in 0..h.most : MadeUpTo(h, n)
  BY DEF ManagerInv, SessionsInOrder
<1>2. h.most \in Nat /\ n \in Nat
  BY <1>1, ManagerConstants
<1>3. Managing(h)!Born = 1..n
  BY <1>1, <1>2 DEF Managing!Born, Managing!Ids, MadeUpTo, Made, SessionIds
<1>4. Cardinality(1..n) = n
  BY <1>2, FS_Interval
<1>5. Managing(h)!Cardinality(Managing(h)!Born) = Cardinality(Managing(h)!Born)
  BY DEF Managing!Cardinality, Cardinality
<1>6. Managing(h)!Busy = {}
  BY DEF Managing!Busy, Managing!Tasks, ManagerInv, ManagerShape, TaskStates, Coroutines
<1>7. Managing(h)!Cardinality({}) = Cardinality({}) /\ Cardinality({}) = 0
  BY FS_EmptySet DEF Managing!Cardinality, Cardinality
<1>8. n < h.most
  BY <1>2, <1>3, <1>4, <1>5, <1>6, <1>7 DEF Managing!MayRequest
<1>9. Managing(h)!Cardinality(Managing(h)!Born) + 1 = n + 1
  BY <1>3, <1>4, <1>5
<1>10. n + 1 \in SessionIds(h) /\ \A j \in SessionIds(h) : j < n + 1 <=> j <= n
  BY <1>2, <1>8 DEF SessionIds
<1> QED
  BY <1>1, <1>2, <1>9, <1>10 DEF MadeUpTo

\* Coroutines that hold nothing move on.
LEMMA MovesKeep ==
    ASSUME NEW h, ManagerInv(h), UNCHANGED <<loops, sess>>, task' \in [Coroutines(h) -> TaskStates(h)],
           \A t \in Coroutines(h) :
               \/ task'[t].session = task[t].session /\ task'[t].pc = task[t].pc
               \/ task[t].session = 0 /\ task'[t].session = 0 /\ task'[t].pc \in {"idle", "disconnect"},
           \A t \in Coroutines(h) : task'[t].pc = "disconnect" => task'[t].sid \in h.sids
    PROVE  ManagerInv(h)'
<1>1. ManagerShape(h)' /\ SessionsInOrder(h)'
  BY DEF ManagerInv, ManagerShape, SessionsInOrder, MadeUpTo, Made
<1>2. \A t \in Coroutines(h) : task'[t].session = task[t].session
  OBVIOUS
<1>3. HoldsWhileClosing(h)'
  BY DEF ManagerInv, HoldsWhileClosing
<1>4. TableOpen(h)' /\ HeldOnce(h)'
  BY <1>2 DEF ManagerInv, TableOpen, HeldOnce, Made
<1>5. OpenHeld(h)'
  BY <1>2 DEF ManagerInv, OpenHeld, Made
<1>6. ClosedFreed(h)'
  <2>1. \A t \in Coroutines(h) : task[t].pc = "wait" => task'[t].pc = "wait"
    BY DEF ManagerInv, HoldsWhileClosing
  <2> QED
    BY <1>2, <2>1 DEF ManagerInv, ClosedFreed, Made, Freed, IsStarting
<1>7. WaitsClosed(h)'
  BY <1>2 DEF ManagerInv, WaitsClosed
<1> QED
  BY <1>1, <1>3, <1>4, <1>5, <1>6, <1>7 DEF ManagerInv

\* The start of a session goes on.
LEMMA StartKeeps ==
    ASSUME NEW h, ManagerInv(h), UNCHANGED <<loops, task>>, NEW i \in SessionIds(h), Made(i),
           NEW v \in SessionStates(h), sess' = [sess EXCEPT ![i] = v],
           v.sid = sess[i].sid, v.closed = sess[i].closed, v.phase # "unborn",
           v.closed /\ Freed(i) => v.phase \notin {"runtime", "memory"} /\ v.rt # "open" /\ v.ctl # "open"
    PROVE  ManagerInv(h)'
<1>1. /\ sess' \in [SessionIds(h) -> SessionStates(h)] /\ sess'[i] = v
      /\ \A j \in SessionIds(h) : j # i => sess'[j] = sess[j]
  BY DEF ManagerInv, ManagerShape
<1>2. /\ \A j \in SessionIds(h) : (Made(j)' <=> Made(j)) /\ sess'[j].sid = sess[j].sid
      /\ \A j \in SessionIds(h) : sess'[j].closed = sess[j].closed
      /\ \A j \in SessionIds(h) : sess[j].closed /\ Freed(j) => Freed(j)'
  BY <1>1 DEF Made, Freed, IsStarting
<1>3. ManagerShape(h)' /\ SessionsInOrder(h)' /\ HoldsWhileClosing(h)'
  BY <1>1, <1>2 DEF ManagerInv, ManagerShape, SessionsInOrder, MadeUpTo, HoldsWhileClosing
<1>4. TableOpen(h)'
  <2>1. \A s \in h.sids : loops[s] # 0 => loops[s] \in SessionIds(h)
    BY DEF ManagerInv, ManagerShape
  <2>2. ASSUME NEW s \in h.sids, loops[s] # 0
        PROVE  Made(loops[s])' /\ sess'[loops[s]].sid = s /\ ~sess'[loops[s]].closed
    <3>1. PICK j \in SessionIds(h) : j = loops[s]
      BY <2>1, <2>2
    <3>2. Made(j) /\ sess[j].sid = s /\ ~sess[j].closed
      BY <2>2, <3>1 DEF ManagerInv, TableOpen
    <3>3. Made(j)' /\ sess'[j].sid = s /\ ~sess'[j].closed
      BY <1>2, <3>2
    <3> QED
      BY <3>1, <3>3 DEF Made
  <2> QED
    BY <2>2 DEF ManagerInv, TableOpen
<1>5. HeldOnce(h)'
  <2>1. ASSUME NEW t \in Coroutines(h), task[t].session # 0 PROVE sess'[task[t].session].phase # "unborn"
    <3>1. PICK j \in SessionIds(h) : j = task[t].session
      BY <2>1 DEF ManagerInv, ManagerShape, TaskStates
    <3>2. Made(j)
      BY <2>1, <3>1 DEF ManagerInv, HeldOnce
    <3> QED
      BY <1>2, <3>1, <3>2 DEF Made
  <2> QED
    BY <2>1 DEF ManagerInv, HeldOnce, Made
<1>6. OpenHeld(h)' /\ ClosedFreed(h)'
  BY <1>2 DEF ManagerInv, OpenHeld, ClosedFreed
<1>7. WaitsClosed(h)'
  <2>1. ASSUME NEW t \in Coroutines(h), task[t].pc = "wait" PROVE sess'[task[t].session].closed
    <3>1. PICK j \in SessionIds(h) : j = task[t].session
      BY <2>1 DEF ManagerInv, ManagerShape, TaskStates, HoldsWhileClosing
    <3> QED
      BY <1>2, <2>1, <3>1 DEF ManagerInv, WaitsClosed
  <2> QED
    BY <2>1 DEF WaitsClosed
<1> QED
  BY <1>3, <1>4, <1>5, <1>6, <1>7 DEF ManagerInv

LEMMA StartsKeep ==
    ASSUME NEW h \in {Served, Again}, ManagerInv(h), NEW i \in SessionIds(h), Managing(h)!StartStep(i)
    PROVE  ManagerInv(h)'
<1>1. UNCHANGED <<loops, task>> /\ Made(i) /\ sess[i] \in SessionStates(h)
  BY DEF Managing!StartStep, Managing!StartBegins, Managing!RuntimeReady, Managing!MemoryReady, Made,
     ManagerInv, ManagerShape
<1>2. \A p \in {"failed", "memory", "started"} :
        /\ [sess[i] EXCEPT !.phase = p] \in SessionStates(h) /\ [sess[i] EXCEPT !.phase = p].phase = p
        /\ [sess[i] EXCEPT !.phase = p].sid = sess[i].sid /\ [sess[i] EXCEPT !.phase = p].closed = sess[i].closed
        /\ [sess[i] EXCEPT !.phase = p].rt = sess[i].rt /\ [sess[i] EXCEPT !.phase = p].ctl = sess[i].ctl
  BY <1>1 DEF SessionStates
<1>3. CASE Managing(h)!StartBegins(i)
  <2>1. CASE sess[i].closed
    <3>1. sess' = [sess EXCEPT ![i] = [sess[i] EXCEPT !.phase = "failed"]]
      BY <1>3, <2>1 DEF Managing!StartBegins
    <3> QED
      BY <1>1, <1>2, <3>1, StartKeeps DEF Freed
  <2>2. CASE ~sess[i].closed
    <3>1. sess' = [sess EXCEPT ![i] = [sess[i] EXCEPT !.phase = "runtime", !.rt = "open"]]
      BY <1>3, <2>2 DEF Managing!StartBegins
    <3>2. PICK v : v = [sess[i] EXCEPT !.phase = "runtime", !.rt = "open"]
      OBVIOUS
    <3>3. /\ v \in SessionStates(h) /\ v.phase = "runtime"
          /\ v.sid = sess[i].sid /\ v.closed = sess[i].closed
      BY <1>1, <3>2 DEF SessionStates
    <3> QED
      BY <1>1, <2>2, <3>1, <3>2, <3>3, StartKeeps
  <2> QED
    BY <2>1, <2>2
<1>4. CASE Managing(h)!RuntimeReady(i)
  <2>1. PICK p \in {"failed", "memory"} : sess' = [sess EXCEPT ![i] = [sess[i] EXCEPT !.phase = p]]
    BY <1>4 DEF Managing!RuntimeReady
  <2>2. ~Freed(i)
    BY <1>4 DEF Managing!RuntimeReady, Freed, IsStarting
  <2> QED
    BY <1>1, <1>2, <2>1, <2>2, StartKeeps
<1>5. CASE Managing(h)!MemoryReady(i)
  <2>1. ~Freed(i)
    BY <1>5 DEF Managing!MemoryReady, Freed, IsStarting
  <2>2. CASE sess' = [sess EXCEPT ![i].phase = "failed"]
    <3>1. sess' = [sess EXCEPT ![i] = [sess[i] EXCEPT !.phase = "failed"]]
      BY <2>2
    <3> QED
      BY <1>1, <1>2, <2>1, <3>1, StartKeeps
  <2>3. CASE sess' = [sess EXCEPT ![i].phase = "started", ![i].ctl = "open"]
    <3>1. sess' = [sess EXCEPT ![i] = [sess[i] EXCEPT !.phase = "started", !.ctl = "open"]]
      BY <1>1, <2>3 DEF ManagerInv, ManagerShape
    <3>2. PICK v : v = [sess[i] EXCEPT !.phase = "started", !.ctl = "open"]
      OBVIOUS
    <3>3. /\ v \in SessionStates(h) /\ v.phase = "started"
          /\ v.sid = sess[i].sid /\ v.closed = sess[i].closed
      BY <1>1, <3>2 DEF SessionStates
    <3> QED
      BY <1>1, <2>1, <3>1, <3>2, <3>3, StartKeeps
  <2> QED
    BY <1>5, <2>2, <2>3 DEF Managing!MemoryReady
<1> QED
  BY <1>3, <1>4, <1>5 DEF Managing!StartStep

LEMMA IdleTask == ASSUME NEW h PROVE
    LET idle == [pc |-> "idle", for |-> "none", evict |-> {}, sid |-> "none", left |-> {}, session |-> 0] IN
    idle \in TaskStates(h) /\ idle.pc = "idle" /\ idle.session = 0 /\ idle = Managing(h)!Idle
BY DEF TaskStates, Managing!Idle

\* Nobody has a conversation to start after a session is closed.
LEMMA DoneIsIdle ==
    ASSUME NEW h, ManagerInv(h), NEW t \in Coroutines(h)
    PROVE  Managing(h)!Done(t) = Managing(h)!Idle
BY DEF ManagerInv, ManagerShape, TaskStates, Managing!Done

LEMMA MakeKeeps ==
    ASSUME NEW h \in {Served, Again}, ManagerInv(h), NEW t \in Coroutines(h), NEW s \in h.sids,
           loops[s] = 0, Managing(h)!MayRequest(t), Managing(h)!MakeSession(t, s)
    PROVE  ManagerInv(h)'
<1>1. PICK i : i = Managing(h)!Cardinality(Managing(h)!Born) + 1
  OBVIOUS
<1>2. /\ i \in SessionIds(h) /\ ~Made(i) /\ \A j \in SessionIds(h) : Made(j) <=> j < i
      /\ i \in Nat \ {0} /\ i <= h.most /\ h.most \in Nat
  BY <1>1, NextSession, ManagerConstants DEF SessionIds
<1>3. PICK v \in SessionStates(h) :
        /\ sess' = [sess EXCEPT ![i] = v] /\ v.sid = s /\ v.phase = "new" /\ ~v.closed
  <2>1. PICK v : v = [Managing(h)!Unborn EXCEPT !.sid = s, !.phase = "new"]
    OBVIOUS
  <2>2. v \in SessionStates(h) /\ v.sid = s /\ v.phase = "new" /\ ~v.closed
    BY <2>1 DEF Managing!Unborn, SessionStates
  <2>3. sess' = [sess EXCEPT ![i] = v]
    BY <1>1, <2>1 DEF Managing!MakeSession
  <2> QED
    BY <2>2, <2>3
<1>4. /\ sess' \in [SessionIds(h) -> SessionStates(h)] /\ sess'[i] = v
      /\ \A j \in SessionIds(h) : j # i => sess'[j] = sess[j]
  BY <1>2, <1>3 DEF ManagerInv, ManagerShape
<1>5. /\ loops' = [loops EXCEPT ![s] = i]
      /\ loops' \in [h.sids -> SessionIds(h) \cup {0}] /\ loops'[s] = i
      /\ \A u \in h.sids : u # s => loops'[u] = loops[u]
  BY <1>1, <1>2 DEF Managing!MakeSession, ManagerInv, ManagerShape
<1>6. PICK w \in TaskStates(h) : /\ task' = [task EXCEPT ![t] = w] /\ w.pc = "idle" /\ w.session = 0
  BY IdleTask DEF Managing!MakeSession
<1>7. /\ task' \in [Coroutines(h) -> TaskStates(h)] /\ task'[t].pc = "idle" /\ task'[t].session = 0
      /\ task[t].session = 0
      /\ \A u \in Coroutines(h) : u # t => task'[u] = task[u]
  BY <1>6 DEF ManagerInv, ManagerShape, Managing!MayRequest, HoldsWhileClosing
<1>8. ManagerShape(h)'
  BY <1>4, <1>5, <1>7 DEF ManagerShape
<1>9. \A j \in SessionIds(h) : Made(j) => j # i /\ Made(j)' /\ sess'[j] = sess[j]
  BY <1>2, <1>4 DEF Made
<1>10. Made(i)' /\ sess'[i].sid = s /\ ~sess'[i].closed
  BY <1>3, <1>4 DEF Made
<1>11. SessionsInOrder(h)'
  <2>1. \A j \in SessionIds(h) : Made(j)' <=> j <= i
    BY <1>2, <1>4, <1>9, <1>10 DEF Made, SessionIds
  <2>2. \A j \in SessionIds(h) : Made(j)' => sess'[j].sid \in h.sids
    BY <1>4, <1>10 DEF ManagerInv, SessionsInOrder, Made
  <2>3. i \in 0..h.most
    BY <1>2
  <2> QED
    BY <2>1, <2>2, <2>3 DEF SessionsInOrder, MadeUpTo
<1>12. HoldsWhileClosing(h)'
  BY <1>7 DEF ManagerInv, HoldsWhileClosing
<1>13. \A u \in Coroutines(h) : task'[u].session = task[u].session /\ task'[u].session # i
  <2>1. \A u \in Coroutines(h) : task[u].session # i
    BY <1>2 DEF ManagerInv, HeldOnce
  <2> QED
    BY <1>7, <2>1
<1>14. TableOpen(h)'
  <2>1. ASSUME NEW u \in h.sids, u # s, loops[u] # 0
        PROVE  sess'[loops[u]].phase # "unborn" /\ sess'[loops[u]] = sess[loops[u]] /\ loops[u] # i
    <3>1. loops[u] \in SessionIds(h) /\ Made(loops[u])
      BY <2>1 DEF ManagerInv, ManagerShape, TableOpen
    <3>2. PICK j \in SessionIds(h) : j = loops[u]
      BY <3>1
    <3>3. Made(j)' /\ sess'[j] = sess[j] /\ j # i
      BY <1>9, <3>1, <3>2
    <3> QED
      BY <3>2, <3>3 DEF Made
  <2>2. ASSUME NEW u \in h.sids, loops'[u] # 0
        PROVE  /\ sess'[loops'[u]].phase # "unborn" /\ sess'[loops'[u]].sid = u /\ ~sess'[loops'[u]].closed
               /\ \A q \in Coroutines(h) : task'[q].session # loops'[u]
    <3>1. CASE u = s
      BY <1>5, <1>10, <1>13, <3>1 DEF Made
    <3>2. CASE u # s
      <4>1. loops'[u] = loops[u] /\ loops[u] # 0
        BY <1>5, <2>2, <3>2
      <4>2. sess[loops[u]].sid = u /\ ~sess[loops[u]].closed
            /\ \A q \in Coroutines(h) : task[q].session # loops[u]
        BY <4>1 DEF ManagerInv, TableOpen
      <4> QED
        BY <1>13, <2>1, <3>2, <4>1, <4>2 DEF Made
    <3> QED
      BY <3>1, <3>2
  <2> QED
    BY <2>2 DEF TableOpen, Made
<1>15. HeldOnce(h)'
  <2>1. ASSUME NEW u \in Coroutines(h), task[u].session # 0 PROVE sess'[task[u].session].phase # "unborn"
    <3>1. PICK j \in SessionIds(h) : j = task[u].session
      BY <2>1 DEF ManagerInv, ManagerShape, TaskStates
    <3>2. Made(j)
      BY <2>1, <3>1 DEF ManagerInv, HeldOnce
    <3> QED
      BY <1>9, <3>1, <3>2 DEF Made
  <2> QED
    BY <1>13, <2>1 DEF ManagerInv, HeldOnce, Made
<1>16. OpenHeld(h)'
  <2>1. ASSUME NEW j \in SessionIds(h), j # i, Made(j), ~sess[j].closed
        PROVE  loops'[sess[j].sid] = j \/ \E u \in Coroutines(h) : task'[u].session = j
    <3>1. loops[sess[j].sid] = j \/ \E u \in Coroutines(h) : task[u].session = j
      BY <2>1 DEF ManagerInv, OpenHeld
    <3>2. loops[sess[j].sid] = j => sess[j].sid # s
      BY DEF SessionIds
    <3>3. sess[j].sid \in h.sids
      BY <2>1 DEF ManagerInv, SessionsInOrder
    <3> QED
      BY <1>5, <1>13, <3>1, <3>2, <3>3
  <2>2. \A j \in SessionIds(h) : Made(j)' => j = i \/ (Made(j) /\ sess'[j] = sess[j])
    BY <1>4 DEF Made
  <2> QED
    BY <1>5, <1>10, <2>1, <2>2 DEF OpenHeld
<1>17. ClosedFreed(h)'
  <2>1. ASSUME NEW j \in SessionIds(h), Made(j)', sess'[j].closed
        PROVE  Freed(j)' \/ \E u \in Coroutines(h) : task'[u].pc = "wait" /\ task'[u].session = j
    <3>1. j # i /\ sess'[j] = sess[j] /\ Made(j)
      BY <1>4, <1>10, <2>1 DEF Made
    <3>2. CASE Freed(j)
      BY <3>1, <3>2 DEF Freed, IsStarting
    <3>3. CASE \E u \in Coroutines(h) : task[u].pc = "wait" /\ task[u].session = j
      <4>1. PICK u \in Coroutines(h) : task[u].pc = "wait" /\ task[u].session = j
        BY <3>3
      <4>2. u # t
        BY <1>7, <4>1 DEF SessionIds
      <4> QED
        BY <1>7, <4>1, <4>2
    <3> QED
      BY <2>1, <3>1, <3>2, <3>3 DEF ManagerInv, ClosedFreed
  <2> QED
    BY <2>1 DEF ClosedFreed
<1>18. WaitsClosed(h)'
  <2>1. ASSUME NEW u \in Coroutines(h), task'[u].pc = "wait" PROVE sess'[task'[u].session].closed
    <3>1. task'[u] = task[u]
      BY <1>7, <2>1
    <3>2. task[u].session \in SessionIds(h) /\ task[u].session # i
      BY <1>13, <2>1, <3>1 DEF ManagerInv, ManagerShape, TaskStates, HoldsWhileClosing
    <3> QED
      BY <1>4, <2>1, <3>1, <3>2 DEF ManagerInv, WaitsClosed
  <2> QED
    BY <2>1 DEF WaitsClosed
<1> QED
  BY <1>8, <1>11, <1>12, <1>14, <1>15, <1>16, <1>17, <1>18 DEF ManagerInv

LEMMA RequestsKeep ==
    ASSUME NEW h \in {Served, Again}, ManagerInv(h), NEW t \in h.requests, NEW s \in h.sids,
           \/ Managing(h)!StartRequest(t, s) \/ Managing(h)!StopRequest(t, s)
           \/ \E c \in ManagerConns : Managing(h)!Join(t, c, s)
    PROVE  ManagerInv(h)'
<1>1. t \in Coroutines(h)
  BY DEF Coroutines
<1>2. CASE Managing(h)!MayRequest(t) /\ Managing(h)!MaybeStart(t, s)
  <2>1. CASE loops[s] # 0
    <3>1. UNCHANGED <<loops, sess, task>>
      BY <1>2, <2>1 DEF Managing!MaybeStart, Managing!HasLoop
    <3>2. task' \in [Coroutines(h) -> TaskStates(h)] /\ HoldsWhileClosing(h)
      BY <3>1 DEF ManagerInv, ManagerShape
    <3> QED
      BY <3>1, <3>2, MovesKeep DEF HoldsWhileClosing
  <2>2. CASE loops[s] = 0
    <3>1. Managing(h)!MakeSession(t, s)
      BY <1>2, <2>2, RoomForOne DEF Managing!MaybeStart, Managing!HasLoop
    <3> QED
      BY <1>1, <1>2, <2>2, <3>1, MakeKeeps
  <2> QED
    BY <2>1, <2>2
<1>3. CASE Managing(h)!StopRequest(t, s)
  <2>1. PICK w \in TaskStates(h) : task' = [task EXCEPT ![t] = w] /\ w.pc = "disconnect" /\ w.session = task[t].session
                                   /\ w.sid = s
    <3>1. PICK w : w = [task[t] EXCEPT !.pc = "disconnect", !.sid = s, !.left = Managing(h)!ConnsOf(s), !.evict = {}]
      OBVIOUS
    <3>2. task[t] \in TaskStates(h) /\ Managing(h)!ConnsOf(s) \in SUBSET ManagerConns
      BY <1>1 DEF ManagerInv, ManagerShape, Managing!ConnsOf
    <3>3. w \in TaskStates(h) /\ w.pc = "disconnect" /\ w.session = task[t].session /\ w.sid = s
      BY <3>1, <3>2 DEF TaskStates
    <3>4. task' = [task EXCEPT ![t] = w]
      BY <1>3, <3>1 DEF Managing!StopRequest, Managing!BeginClose
    <3> QED
      BY <3>3, <3>4
  <2>2. UNCHANGED <<loops, sess>> /\ task[t].session = 0
    BY <1>1, <1>3 DEF Managing!StopRequest, ManagerInv, HoldsWhileClosing
  <2>3. /\ task' \in [Coroutines(h) -> TaskStates(h)] /\ task'[t] = w
        /\ \A u \in Coroutines(h) : u # t => task'[u] = task[u]
    BY <1>1, <2>1 DEF ManagerInv, ManagerShape
  <2> QED
    BY <2>1, <2>2, <2>3, MovesKeep DEF ManagerInv, HoldsWhileClosing
<1> QED
  BY <1>2, <1>3 DEF Managing!StartRequest, Managing!Join

\* The clients of a session that is closed, and those that leave by themselves.
LEMMA LeavesKeep ==
    ASSUME NEW h, ManagerInv(h),
           \/ \E c \in ManagerConns : Managing(h)!Leave(c)
           \/ \E t \in Coroutines(h), c \in ManagerConns : Managing(h)!DisconnectOne(t, c)
           \/ UNCHANGED managerVars
    PROVE  ManagerInv(h)'
<1>1. CASE UNCHANGED <<loops, sess, task>>
  <2>1. task' \in [Coroutines(h) -> TaskStates(h)] /\ HoldsWhileClosing(h)
    BY <1>1 DEF ManagerInv, ManagerShape
  <2> QED
    BY <1>1, <2>1, MovesKeep DEF HoldsWhileClosing
<1>2. ASSUME NEW t \in Coroutines(h), NEW c, Managing(h)!DisconnectOne(t, c) PROVE ManagerInv(h)'
  <2>1. PICK w : w = [task[t] EXCEPT !.left = task[t].left \ {c}]
    OBVIOUS
  <2>2. task[t] \in TaskStates(h) /\ task' = [task EXCEPT ![t] = w] /\ UNCHANGED <<loops, sess>>
        /\ task[t].pc = "disconnect"
    BY <1>2, <2>1 DEF Managing!DisconnectOne, ManagerInv, ManagerShape
  <2>3. w \in TaskStates(h) /\ w.pc = task[t].pc /\ w.session = task[t].session /\ w.sid = task[t].sid
    BY <2>1, <2>2 DEF TaskStates
  <2>4. /\ task' \in [Coroutines(h) -> TaskStates(h)] /\ task'[t] = w
        /\ \A u \in Coroutines(h) : u # t => task'[u] = task[u]
    BY <2>2, <2>3 DEF ManagerInv, ManagerShape
  <2> QED
    BY <2>2, <2>3, <2>4, MovesKeep DEF ManagerInv, HoldsWhileClosing
<1> QED
  BY <1>1, <1>2 DEF Managing!Leave, managerVars

LEMMA CleanupsKeep ==
    ASSUME NEW h \in {Served, Again}, ManagerInv(h), Managing(h)!Cleanup \/ Managing(h)!CleanupTimesOut
    PROVE  ManagerInv(h)'
<1>1. Managing(h)!Cleanup
  BY ManagerConstants DEF Managing!CleanupTimesOut
<1>2. PICK S \in SUBSET h.sids :
        task' = [t \in Coroutines(h) |-> IF t \in S THEN [Managing(h)!Idle EXCEPT !.pc = "disconnect", !.sid = t]
                                         ELSE task[t]]
  BY Zenon, <1>1 DEF Managing!Cleanup, Managing!Tasks, Coroutines
<1>3. UNCHANGED <<loops, sess>> /\ \A s \in h.sids : task[s] = Managing(h)!Idle
  BY Zenon, <1>1 DEF Managing!Cleanup
<1>4. ASSUME NEW t \in h.sids, NEW w, w = [Managing(h)!Idle EXCEPT !.pc = "disconnect", !.sid = t]
      PROVE  w \in TaskStates(h) /\ w.pc = "disconnect" /\ w.session = 0 /\ w.sid = t
  BY <1>4 DEF Managing!Idle, TaskStates
<1>5. ASSUME NEW t \in Coroutines(h)
      PROVE  /\ task'[t] \in TaskStates(h)
             /\ \/ task'[t] = task[t]
                \/ /\ task[t].session = 0 /\ task'[t].session = 0 /\ task'[t].pc = "disconnect"
                   /\ task'[t].sid \in h.sids
  <2>1. CASE t \in S
    <3>1. task'[t] = [Managing(h)!Idle EXCEPT !.pc = "disconnect", !.sid = t] /\ task[t] = Managing(h)!Idle
      BY <1>2, <1>3, <2>1
    <3>2. task[t].session = 0
      BY <3>1, IdleTask
    <3>3. PICK w : w = [Managing(h)!Idle EXCEPT !.pc = "disconnect", !.sid = t]
      OBVIOUS
    <3>4. t \in h.sids
      BY <1>2, <2>1
    <3>5. w \in TaskStates(h) /\ w.pc = "disconnect" /\ w.session = 0 /\ w.sid = t
      BY <1>4, <3>3, <3>4
    <3> QED
      BY <3>1, <3>2, <3>3, <3>4, <3>5
  <2>2. CASE t \notin S
    BY <1>2, <2>2 DEF ManagerInv, ManagerShape
  <2> QED
    BY <2>1, <2>2
<1>6. task' \in [Coroutines(h) -> TaskStates(h)]
  BY Zenon, <1>2, <1>5
<1> QED
  BY <1>3, <1>5, <1>6, MovesKeep DEF ManagerInv, HoldsWhileClosing

\* The session that a coroutine takes from the table.
LEMMA TakeKeeps ==
    ASSUME NEW h, ManagerInv(h), NEW t \in Coroutines(h), Managing(h)!TakeSession(t)
    PROVE  ManagerInv(h)'
<1>1. PICK s \in h.sids : s = task[t].sid
  BY DEF Managing!TakeSession, ManagerInv, HoldsWhileClosing
<1>2. PICK i \in SessionIds(h) \cup {0} : i = loops[s]
  BY DEF ManagerInv, ManagerShape
<1>3. task[t].pc = "disconnect" /\ loops' = [loops EXCEPT ![s] = 0] /\ sess' = sess /\ task[t].session = 0
  BY <1>1 DEF Managing!TakeSession, ManagerInv, HoldsWhileClosing
<1>4. CASE i = 0
  <2>1. loops' = loops
    BY <1>2, <1>3, <1>4 DEF ManagerInv, ManagerShape
  <2>2. PICK w \in TaskStates(h) : task' = [task EXCEPT ![t] = w] /\ w.pc = "idle" /\ w.session = 0
    BY <1>1, <1>2, <1>4, DoneIsIdle, IdleTask DEF Managing!TakeSession
  <2>3. /\ task' \in [Coroutines(h) -> TaskStates(h)] /\ task'[t] = w
        /\ \A u \in Coroutines(h) : u # t => task'[u] = task[u]
    BY <2>2 DEF ManagerInv, ManagerShape
  <2> QED
    BY <1>3, <2>1, <2>2, <2>3, MovesKeep DEF ManagerInv, HoldsWhileClosing
<1>5. CASE i # 0
  <2>1. PICK w \in TaskStates(h) : task' = [task EXCEPT ![t] = w] /\ w.pc = "emit" /\ w.session = i
    <3>1. PICK w : w = [task[t] EXCEPT !.pc = "emit", !.session = i]
      OBVIOUS
    <3>2. task[t] \in TaskStates(h) /\ i \in SessionIds(h)
      BY <1>5 DEF ManagerInv, ManagerShape
    <3>3. w \in TaskStates(h) /\ w.pc = "emit" /\ w.session = i
      BY <3>1, <3>2 DEF TaskStates
    <3>4. task' = [task EXCEPT ![t] = w]
      BY <1>1, <1>2, <1>5, <3>1 DEF Managing!TakeSession
    <3> QED
      BY <3>3, <3>4
  <2>2. /\ task' \in [Coroutines(h) -> TaskStates(h)] /\ task'[t].pc = "emit" /\ task'[t].session = i
        /\ \A u \in Coroutines(h) : u # t => task'[u] = task[u]
    BY <2>1 DEF ManagerInv, ManagerShape
  <2>3. /\ loops' \in [h.sids -> SessionIds(h) \cup {0}] /\ loops'[s] = 0
        /\ \A u \in h.sids : u # s => loops'[u] = loops[u]
    BY <1>3 DEF ManagerInv, ManagerShape
  <2>4. Made(i) /\ sess[i].sid = s /\ ~sess[i].closed /\ \A u \in Coroutines(h) : task[u].session # i
    BY <1>2, <1>5 DEF ManagerInv, TableOpen
  <2>5. ManagerShape(h)' /\ SessionsInOrder(h)' /\ HoldsWhileClosing(h)'
    BY <1>3, <1>5, <2>2, <2>3 DEF ManagerInv, ManagerShape, SessionsInOrder, HoldsWhileClosing, MadeUpTo, Made
  <2>6. TableOpen(h)'
    <3>1. ASSUME NEW u \in h.sids, loops'[u] # 0
          PROVE  /\ loops'[u] = loops[u] /\ u # s /\ loops[u] # i
                 /\ \A q \in Coroutines(h) : task'[q].session # loops[u]
      <4>1. loops'[u] = loops[u] /\ u # s
        BY <2>3, <3>1
      <4>2. loops[u] # i
        BY <2>4, <3>1, <4>1 DEF ManagerInv, TableOpen
      <4>3. \A q \in Coroutines(h) : task[q].session # loops[u]
        BY <3>1, <4>1 DEF ManagerInv, TableOpen
      <4> QED
        BY <2>2, <4>1, <4>2, <4>3
    <3>2. ASSUME NEW u \in h.sids, loops'[u] # 0
          PROVE  sess'[loops'[u]].phase # "unborn" /\ sess'[loops'[u]].sid = u /\ ~sess'[loops'[u]].closed
      BY <1>3, <3>1, <3>2 DEF ManagerInv, TableOpen, Made
    <3> QED
      BY <3>1, <3>2 DEF TableOpen, Made
  <2>7. HeldOnce(h)'
    <3>1. ASSUME NEW u \in Coroutines(h), task'[u].session # 0
          PROVE  sess'[task'[u].session].phase # "unborn"
      BY <1>3, <2>2, <2>4, <3>1 DEF ManagerInv, HeldOnce, Made
    <3>2. ASSUME NEW u \in Coroutines(h), NEW q \in Coroutines(h), task'[u].session # 0,
                 task'[u].session = task'[q].session
          PROVE  u = q
      BY <2>2, <2>4, <3>2 DEF ManagerInv, HeldOnce
    <3> QED
      BY <3>1, <3>2 DEF HeldOnce, Made
  <2>8. OpenHeld(h)'
    <3>1. ASSUME NEW j \in SessionIds(h), Made(j), ~sess[j].closed
          PROVE  loops'[sess[j].sid] = j \/ \E u \in Coroutines(h) : task'[u].session = j
      <4>1. CASE \E u \in Coroutines(h) : task[u].session = j
        <5>1. PICK u \in Coroutines(h) : task[u].session = j
          BY <4>1
        <5>2. u # t
          BY <1>3, <5>1 DEF SessionIds
        <5> QED
          BY <2>2, <5>1, <5>2
      <4>2. CASE loops[sess[j].sid] = j /\ sess[j].sid # s
        BY <2>3, <3>1, <4>2 DEF ManagerInv, SessionsInOrder
      <4>3. CASE loops[sess[j].sid] = j /\ sess[j].sid = s
        BY <1>2, <2>2, <4>3
      <4> QED
        BY <3>1, <4>1, <4>2, <4>3 DEF ManagerInv, OpenHeld
    <3> QED
      BY <1>3, <3>1 DEF OpenHeld, Made
  <2>9. ClosedFreed(h)'
    <3>1. ASSUME NEW u \in Coroutines(h), task[u].pc = "wait" PROVE task'[u] = task[u]
      BY <1>3, <2>2, <3>1
    <3> QED
      BY <1>3, <3>1 DEF ManagerInv, ClosedFreed, Made, Freed, IsStarting
  <2>10. WaitsClosed(h)'
    <3>1. ASSUME NEW u \in Coroutines(h), task'[u].pc = "wait" PROVE task'[u] = task[u]
      BY <2>2, <3>1
    <3> QED
      BY <1>3, <3>1 DEF ManagerInv, WaitsClosed
  <2> QED
    BY <2>5, <2>6, <2>7, <2>8, <2>9, <2>10 DEF ManagerInv
<1> QED
  BY <1>2, <1>4, <1>5

\* A coroutine closes the session i that it holds: it is marked, and freed unless it starts.
LEMMA ClosesKeep ==
    ASSUME NEW h, ManagerInv(h), NEW t \in Coroutines(h), NEW i \in SessionIds(h), i = task[t].session,
           UNCHANGED loops, NEW v \in SessionStates(h), sess' = [sess EXCEPT ![i] = v],
           v.sid = sess[i].sid, v.phase = sess[i].phase, v.closed,
           NEW w \in TaskStates(h), task' = [task EXCEPT ![t] = w],
           \/ /\ w.pc = "idle" /\ w.session = 0
              /\ v.phase \notin {"runtime", "memory"} /\ v.rt # "open" /\ v.ctl # "open"
           \/ w.pc = "wait" /\ w.session = i
    PROVE  ManagerInv(h)'
<1>1. /\ task' \in [Coroutines(h) -> TaskStates(h)] /\ task'[t] = w
      /\ \A u \in Coroutines(h) : u # t => task'[u] = task[u]
  BY DEF ManagerInv, ManagerShape
<1>2. /\ sess' \in [SessionIds(h) -> SessionStates(h)] /\ sess'[i] = v
      /\ \A j \in SessionIds(h) : j # i => sess'[j] = sess[j]
  BY DEF ManagerInv, ManagerShape
<1>3. \A j \in SessionIds(h) : (Made(j)' <=> Made(j)) /\ sess'[j].sid = sess[j].sid
  BY <1>2 DEF Made
<1>4. i # 0 /\ Made(i) /\ (\A s \in h.sids : loops[s] # i) /\ \A u \in Coroutines(h) : u # t => task[u].session # i
  BY DEF ManagerInv, HeldOnce, TableOpen, SessionIds
<1>5. ManagerShape(h)' /\ SessionsInOrder(h)' /\ HoldsWhileClosing(h)'
  BY <1>1, <1>2, <1>3, <1>4 DEF ManagerInv, ManagerShape, SessionsInOrder, MadeUpTo, HoldsWhileClosing
<1>6. TableOpen(h)'
  <2>1. ASSUME NEW s \in h.sids, loops[s] # 0
        PROVE  /\ sess'[loops[s]].phase # "unborn" /\ sess'[loops[s]].sid = s /\ ~sess'[loops[s]].closed
               /\ \A u \in Coroutines(h) : task'[u].session # loops[s]
    <3>1. PICK j \in SessionIds(h) : j = loops[s]
      BY <2>1 DEF ManagerInv, ManagerShape
    <3>2. j # i /\ sess'[j] = sess[j]
      BY <1>2, <1>4, <3>1
    <3>3. Made(j) /\ sess[j].sid = s /\ ~sess[j].closed /\ \A u \in Coroutines(h) : task[u].session # j
      BY <2>1, <3>1 DEF ManagerInv, TableOpen
    <3> QED
      BY <1>1, <2>1, <3>1, <3>2, <3>3 DEF Made
  <2> QED
    BY <2>1 DEF TableOpen, Made
<1>7. HeldOnce(h)'
  <2>1. ASSUME NEW u \in Coroutines(h), task'[u].session # 0
        PROVE  task'[u].session = task[u].session /\ sess'[task'[u].session].phase # "unborn"
    <3>1. task'[u].session = task[u].session
      BY <1>1, <2>1
    <3>2. PICK j \in SessionIds(h) : j = task[u].session
      BY <2>1, <3>1 DEF ManagerInv, ManagerShape, TaskStates
    <3>3. Made(j)
      BY <2>1, <3>1, <3>2 DEF ManagerInv, HeldOnce
    <3> QED
      BY <1>3, <3>1, <3>2, <3>3 DEF Made
  <2> QED
    BY <2>1 DEF ManagerInv, HeldOnce, Made
<1>8. OpenHeld(h)'
  <2>1. ASSUME NEW j \in SessionIds(h), Made(j), j # i, ~sess[j].closed
        PROVE  loops[sess[j].sid] = j \/ \E u \in Coroutines(h) : task'[u].session = j
    <3>1. CASE \E u \in Coroutines(h) : task[u].session = j
      <4>1. PICK u \in Coroutines(h) : task[u].session = j
        BY <3>1
      <4> QED
        BY <1>1, <2>1, <4>1
    <3> QED
      BY <2>1, <3>1 DEF ManagerInv, OpenHeld
  <2> QED
    BY <1>2, <1>3, <2>1 DEF OpenHeld
<1>9. ClosedFreed(h)'
  <2>1. ASSUME NEW j \in SessionIds(h), Made(j), j # i, sess[j].closed
        PROVE  Freed(j)' \/ \E u \in Coroutines(h) : task'[u].pc = "wait" /\ task'[u].session = j
    <3>1. CASE \E u \in Coroutines(h) : task[u].pc = "wait" /\ task[u].session = j
      <4>1. PICK u \in Coroutines(h) : task[u].pc = "wait" /\ task[u].session = j
        BY <3>1
      <4> QED
        BY <1>1, <2>1, <4>1
    <3>2. CASE Freed(j)
      BY <1>2, <2>1, <3>2 DEF Freed, IsStarting
    <3> QED
      BY <2>1, <3>1, <3>2 DEF ManagerInv, ClosedFreed
  <2>2. Freed(i)' \/ \E u \in Coroutines(h) : task'[u].pc = "wait" /\ task'[u].session = i
    BY <1>1, <1>2 DEF Freed, IsStarting
  <2> QED
    BY <1>2, <1>3, <2>1, <2>2 DEF ClosedFreed
<1>10. WaitsClosed(h)'
  <2>1. ASSUME NEW u \in Coroutines(h), task'[u].pc = "wait" PROVE sess'[task'[u].session].closed
    <3>1. CASE u = t
      BY <1>1, <1>2, <2>1, <3>1
    <3>2. CASE u # t
      <4>1. task'[u] = task[u] /\ task[u].session \in SessionIds(h) /\ task[u].session # i
        BY <1>1, <1>4, <2>1, <3>2 DEF ManagerInv, ManagerShape, TaskStates, HoldsWhileClosing
      <4> QED
        BY <1>2, <2>1, <4>1 DEF ManagerInv, WaitsClosed
    <3> QED
      BY <3>1, <3>2
  <2> QED
    BY <2>1 DEF WaitsClosed
<1> QED
  BY <1>5, <1>6, <1>7, <1>8, <1>9, <1>10 DEF ManagerInv

LEMMA HeldSession ==
    ASSUME NEW h, ManagerInv(h), NEW t \in Coroutines(h), task[t].pc \in {"emit", "wait"}
    PROVE  /\ task[t].session \in SessionIds(h) /\ sess[task[t].session] \in SessionStates(h)
           /\ sess[task[t].session].closed /\ task[t].pc = "emit" => Freed(task[t].session)
<1>1. task[t].session \in SessionIds(h)
  BY DEF ManagerInv, ManagerShape, TaskStates, HoldsWhileClosing
<1>2. PICK i \in SessionIds(h) : i = task[t].session
  BY <1>1
<1>3. sess[i] \in SessionStates(h)
  BY <1>2 DEF ManagerInv, ManagerShape
<1>4. Made(i) /\ \A u \in Coroutines(h) : task[u].session = i => u = t
  BY <1>2 DEF ManagerInv, HeldOnce, SessionIds
<1>5. sess[i].closed /\ task[t].pc = "emit" => Freed(i)
  BY <1>4 DEF ManagerInv, ClosedFreed
<1> QED
  BY <1>2, <1>3, <1>5 DEF Freed, IsStarting

LEMMA ReleasedSession ==
    ASSUME NEW h, NEW v \in SessionStates(h), NEW w, w = Managing(h)!Release(v)
    PROVE  w \in SessionStates(h) /\ w.sid = v.sid /\ w.phase = v.phase /\ w.closed = v.closed
           /\ w.rt # "open" /\ w.ctl # "open"
<1>1. PICK x, y : /\ x = (IF v.rt = "open" THEN "closed" ELSE v.rt)
                  /\ y = (IF v.ctl = "open" THEN "closed" ELSE v.ctl)
  OBVIOUS
<1>2. x \in {"none", "closed"} /\ y \in {"none", "closed"}
  BY <1>1 DEF SessionStates
<1>3. w = [v EXCEPT !.rt = x, !.ctl = y]
  BY <1>1 DEF Managing!Release
<1> QED
  BY <1>2, <1>3 DEF SessionStates

LEMMA EmitsKeep ==
    ASSUME NEW h, ManagerInv(h), NEW t \in Coroutines(h), Managing(h)!EmitStopped(t)
    PROVE  ManagerInv(h)'
<1>1. PICK i : i = task[t].session
  OBVIOUS
<1>2. /\ i \in SessionIds(h) /\ sess[i] \in SessionStates(h) /\ task[t].pc = "emit" /\ UNCHANGED loops
      /\ sess[i].closed => Freed(i)
  BY <1>1, HeldSession DEF Managing!EmitStopped
<1>3. PICK w \in TaskStates(h) : w = Managing(h)!Done(t) /\ w.pc = "idle" /\ w.session = 0
  BY DoneIsIdle, IdleTask
<1>4. CASE sess[i].closed
  <2>1. task' = [task EXCEPT ![t] = w] /\ sess' = [sess EXCEPT ![i] = sess[i]]
    BY <1>1, <1>3, <1>4 DEF Managing!EmitStopped, ManagerInv, ManagerShape
  <2> QED
    BY <1>1, <1>2, <1>3, <1>4, <2>1, ClosesKeep DEF Freed, IsStarting
<1>5. CASE ~sess[i].closed /\ IsStarting(i)
  <2>1. PICK v : v = [sess[i] EXCEPT !.closed = TRUE]
    OBVIOUS
  <2>2. v \in SessionStates(h) /\ v.closed /\ v.sid = sess[i].sid /\ v.phase = sess[i].phase
    BY <1>2, <2>1 DEF SessionStates
  <2>3. PICK x : x = [task[t] EXCEPT !.pc = "wait"]
    OBVIOUS
  <2>4. x \in TaskStates(h) /\ x.pc = "wait" /\ x.session = i
    BY <1>1, <2>3 DEF ManagerInv, ManagerShape, TaskStates
  <2>5. sess' = [sess EXCEPT ![i] = v] /\ task' = [task EXCEPT ![t] = x]
    BY <1>1, <1>5, <2>1, <2>3 DEF Managing!EmitStopped, Managing!Starting, IsStarting
  <2> QED
    BY <1>1, <1>2, <2>2, <2>4, <2>5, ClosesKeep
<1>6. CASE ~sess[i].closed /\ ~IsStarting(i)
  <2>1. PICK c : c = [sess[i] EXCEPT !.closed = TRUE]
    OBVIOUS
  <2>2. c \in SessionStates(h) /\ c.closed /\ c.sid = sess[i].sid /\ c.phase = sess[i].phase
    BY <1>2, <2>1 DEF SessionStates
  <2>3. PICK v : v = Managing(h)!Release(c)
    OBVIOUS
  <2>4. v \in SessionStates(h) /\ v.closed /\ v.sid = sess[i].sid /\ v.phase = sess[i].phase
        /\ v.rt # "open" /\ v.ctl # "open"
    BY <2>2, <2>3, ReleasedSession
  <2>5. sess' = [sess EXCEPT ![i] = v] /\ task' = [task EXCEPT ![t] = w]
    BY <1>1, <1>3, <1>6, <2>1, <2>3 DEF Managing!EmitStopped, Managing!Starting, IsStarting
  <2> QED
    BY <1>1, <1>2, <1>3, <1>6, <2>4, <2>5, ClosesKeep DEF IsStarting
<1> QED
  BY <1>4, <1>5, <1>6

LEMMA WaitsKeep ==
    ASSUME NEW h \in {Served, Again}, ManagerInv(h), NEW t \in Coroutines(h), Managing(h)!WaitEnds(t)
    PROVE  ManagerInv(h)'
<1>1. PICK i : i = task[t].session
  OBVIOUS
<1>2. i \in SessionIds(h) /\ sess[i] \in SessionStates(h) /\ UNCHANGED loops /\ task[t].pc = "wait"
  BY <1>1, HeldSession DEF Managing!WaitEnds
<1>3. PICK w \in TaskStates(h) : w = Managing(h)!Done(t) /\ w.pc = "idle" /\ w.session = 0
  BY DoneIsIdle, IdleTask
<1>4. ~IsStarting(i)
  BY <1>1, ManagerConstants DEF Managing!WaitEnds, Managing!MayGiveUp, Managing!Starting, IsStarting
<1>5. PICK v : v = Managing(h)!Release(sess[i])
  OBVIOUS
<1>6. v \in SessionStates(h) /\ v.closed = sess[i].closed /\ v.sid = sess[i].sid /\ v.phase = sess[i].phase
      /\ v.rt # "open" /\ v.ctl # "open"
  BY <1>2, <1>5, ReleasedSession
<1>7. sess' = [sess EXCEPT ![i] = v] /\ task' = [task EXCEPT ![t] = w]
  BY <1>1, <1>3, <1>5 DEF Managing!WaitEnds, Managing!Releases
<1>8. sess[i].closed
  BY <1>1, <1>2 DEF ManagerInv, WaitsClosed
<1> QED
  BY <1>1, <1>2, <1>3, <1>4, <1>6, <1>7, <1>8, ClosesKeep DEF IsStarting

LEMMA ManagerStep ==
    ASSUME NEW h \in {Served, Again}, ManagerInv(h), Managing(h)!Next \/ UNCHANGED managerVars
    PROVE  ManagerInv(h)'
<1>1. Managing(h)!Tasks = Coroutines(h) /\ Managing(h)!Ids = SessionIds(h)
  BY DEF Managing!Tasks, Managing!Ids, Coroutines, SessionIds
<1>2. ASSUME NEW t \in Coroutines(h), Managing(h)!CloseStep(t) PROVE ManagerInv(h)'
  <2>1. task[t] \in TaskStates(h)
    BY DEF ManagerInv, ManagerShape
  <2>2. ~Managing(h)!Metadata(t) /\ ~Managing(h)!Evict(t)
    BY <2>1 DEF Managing!Metadata, Managing!Evict, TaskStates
  <2> QED
    BY <1>2, <2>2, TakeKeeps, EmitsKeep, WaitsKeep, LeavesKeep DEF Managing!CloseStep
<1> QED
  BY <1>1, <1>2, RequestsKeep, StartsKeep, LeavesKeep, CleanupsKeep DEF Managing!Next

LEMMA ManagerHolds ==
    ASSUME NEW h, ManagerInv(h)
    PROVE  Managing(h)!OpenIsKnown /\ Managing(h)!ClosedIsReleased
<1>1. /\ Managing(h)!Tasks = Coroutines(h)
      /\ \A i \in Managing(h)!Born : i \in SessionIds(h) /\ Made(i)
  BY DEF Managing!Tasks, Coroutines, Managing!Born, Managing!Ids, SessionIds, Made
<1>2. Managing(h)!OpenIsKnown
  BY <1>1 DEF ManagerInv, OpenHeld, Managing!OpenIsKnown
<1>3. Managing(h)!ClosedIsReleased
  BY <1>1 DEF ManagerInv, ClosedFreed, Managing!ClosedIsReleased, Freed
<1> QED
  BY <1>2, <1>3

-----------------------------------------------------------------------------
(* The limit, for requests one after another.                              *)

LimitedTasks == {OneRequest} \cup ManagerSids
LimitedStates ==
    [pc : {"idle", "metadata", "evict", "disconnect", "emit", "wait"}, for : ManagerSids \cup {"none"},
     evict : SUBSET ManagerSids, sid : ManagerSids \cup {"none"}, left : SUBSET ManagerConns, session : Nat]
LimitShape == loops \in [ManagerSids -> Nat] /\ task \in [LimitedTasks -> LimitedStates]

\* Only the request starts a loop: the cleanup closes.
CleanersClose == \A t \in ManagerSids : task[t].for = "none" /\ task[t].pc \notin {"metadata", "evict"}

\* The loops that run, without those that the request has still to close, leave room for one.
Live == {s \in ManagerSids : loops[s] # 0}
Spare(A) == Cardinality(Live \ A) < LimitedLimit
RoomWhenClosed ==
    /\ Cardinality(Live) <= LimitedLimit
    /\ task[OneRequest].pc = "idle" => task[OneRequest].for = "none"
    /\ task[OneRequest].pc \in {"metadata", "evict"} => task[OneRequest].for # "none"
    /\ task[OneRequest].pc = "metadata" => Live \subseteq task[OneRequest].evict
    /\ task[OneRequest].for # "none" /\ task[OneRequest].pc \in {"evict", "emit", "wait"} =>
           Spare(task[OneRequest].evict)
    /\ task[OneRequest].for # "none" /\ task[OneRequest].pc = "disconnect" =>
           Spare(task[OneRequest].evict \cup {task[OneRequest].sid})
    /\ \A t \in LimitedTasks : task[t].pc = "disconnect" => task[t].sid \in ManagerSids

LimitInv == LimitShape /\ CleanersClose /\ RoomWhenClosed

LEMMA LimitConstants ==
    /\ LimitedLimit \in Nat \ {0} /\ OneRequest \notin ManagerSids /\ "none" \notin ManagerSids
    /\ IsFiniteSet(ManagerSids) /\ MaxLimitedSessions \in Nat
    /\ Managing(Limited)!Tasks = LimitedTasks
<1>1. Managing(Limited)!ConversationAssumption
  BY InstancesAssumption DEF InstancesAssumption
<1> QED
  BY <1>1, RoomAssumption DEF Managing!ConversationAssumption, Limited, LimitedTasks, Managing!Tasks

\* Fewer loops, or more that are to be closed, leave no less room.
LEMMA LessRoom ==
    ASSUME NEW S, NEW T, S \subseteq T, T \subseteq ManagerSids
    PROVE  /\ Cardinality(S) \in Nat /\ Cardinality(T) \in Nat /\ Cardinality(S) <= Cardinality(T)
           /\ IsFiniteSet(S) /\ IsFiniteSet(T)
<1>1. IsFiniteSet(T)
  BY LimitConstants, FS_Subset
<1> QED
  BY <1>1, FS_Subset, FS_CardinalityType

LEMMA LimitBegins == ASSUME Managing(Limited)!Init PROVE LimitInv
<1>1. /\ loops = [s \in ManagerSids |-> 0]
      /\ task = [t \in LimitedTasks |-> [pc |-> "idle", for |-> "none", evict |-> {}, sid |-> "none",
                                         left |-> {}, session |-> 0]]
  BY LimitConstants DEF Managing!Init, Managing!Idle, Limited
<1>2. [pc |-> "idle", for |-> "none", evict |-> {}, sid |-> "none", left |-> {}, session |-> 0] \in LimitedStates
  BY DEF LimitedStates
<1>3. LimitShape
  BY <1>1, <1>2 DEF LimitShape
<1>4. \A t \in LimitedTasks : task[t] = [pc |-> "idle", for |-> "none", evict |-> {}, sid |-> "none",
                                         left |-> {}, session |-> 0]
  BY <1>1
<1>5. \A t \in LimitedTasks : task[t].pc = "idle" /\ task[t].for = "none"
  BY ONLY <1>4
<1>6. Live = {} /\ Cardinality({}) = 0
  BY <1>1, FS_EmptySet DEF Live
<1> QED
  BY <1>3, <1>5, <1>6, LimitConstants DEF LimitInv, CleanersClose, RoomWhenClosed, LimitedTasks

\* Loops that stop, and clients that leave, keep the room that there is.
LEMMA RoomStays ==
    ASSUME LimitInv, loops' \in [ManagerSids -> Nat], task' \in [LimitedTasks -> LimitedStates],
           Live' \subseteq Live, CleanersClose',
           task'[OneRequest].pc = task[OneRequest].pc, task'[OneRequest].for = task[OneRequest].for,
           task'[OneRequest].evict = task[OneRequest].evict, task'[OneRequest].sid = task[OneRequest].sid,
           \A t \in LimitedTasks : task'[t].pc = "disconnect" => task'[t].sid \in ManagerSids
    PROVE  LimitInv'
<1>1. \A A : Live' \ A \subseteq Live \ A /\ Live \ A \subseteq ManagerSids
  BY DEF Live
<1>2. \A A : Spare(A) => Cardinality(Live' \ A) < LimitedLimit
  BY <1>1, LessRoom, LimitConstants DEF Spare
<1>3. Cardinality(Live') <= LimitedLimit
  <2>1. Live \subseteq ManagerSids
    BY SMTT(20) DEF Live
  <2> QED
    BY <2>1, LessRoom, LimitConstants DEF LimitInv, RoomWhenClosed
<1>4. RoomWhenClosed'
  <2>1. task[OneRequest].for # "none" /\ task[OneRequest].pc \in {"evict", "emit", "wait"} =>
          Cardinality(Live' \ task[OneRequest].evict) < LimitedLimit
    BY <1>2 DEF LimitInv, RoomWhenClosed
  <2>2. task[OneRequest].for # "none" /\ task[OneRequest].pc = "disconnect" =>
          Cardinality(Live' \ (task[OneRequest].evict \cup {task[OneRequest].sid})) < LimitedLimit
    BY <1>2 DEF LimitInv, RoomWhenClosed
  <2> QED
    BY <1>3, <2>1, <2>2 DEF LimitInv, RoomWhenClosed, Spare
<1> QED
  BY <1>4 DEF LimitInv, LimitShape

\* The coroutine of the request moves on to the state w.
LEMMA RequestMoves ==
    ASSUME LimitInv, loops' = loops, NEW w \in LimitedStates, task' = [task EXCEPT ![OneRequest] = w],
           w.pc = "idle" => w.for = "none", w.pc \in {"metadata", "evict"} => w.for # "none",
           w.pc = "metadata" => Live \subseteq w.evict,
           w.for # "none" /\ w.pc \in {"evict", "emit", "wait"} => Spare(w.evict),
           w.for # "none" /\ w.pc = "disconnect" => Spare(w.evict \cup {w.sid}),
           w.pc = "disconnect" => w.sid \in ManagerSids
    PROVE  LimitInv'
<1>1. /\ task' \in [LimitedTasks -> LimitedStates] /\ task'[OneRequest] = w
      /\ \A t \in LimitedTasks : t # OneRequest => task'[t] = task[t]
      /\ \A t \in ManagerSids : task'[t] = task[t]
  BY LimitConstants DEF LimitInv, LimitShape, LimitedTasks
<1>2. Live' = Live
  BY DEF Live
<1>3. LimitShape' /\ CleanersClose'
  BY <1>1 DEF LimitInv, LimitShape, CleanersClose
<1>4. RoomWhenClosed'
  BY <1>1, <1>2 DEF LimitInv, RoomWhenClosed, Spare
<1> QED
  BY <1>3, <1>4 DEF LimitInv

\* A loop more, where there is room for it.
LEMMA LoopMore ==
    ASSUME LimitInv, NEW s \in ManagerSids, NEW i \in Nat, loops' = [loops EXCEPT ![s] = i],
           Cardinality(Live) < LimitedLimit, NEW w \in LimitedStates, w.pc = "idle", w.for = "none",
           task' = [task EXCEPT ![OneRequest] = w]
    PROVE  LimitInv'
<1>1. /\ task' \in [LimitedTasks -> LimitedStates] /\ task'[OneRequest] = w
      /\ \A t \in LimitedTasks : t # OneRequest => task'[t] = task[t]
      /\ \A t \in ManagerSids : task'[t] = task[t]
  BY LimitConstants DEF LimitInv, LimitShape, LimitedTasks
<1>2. loops' \in [ManagerSids -> Nat] /\ Live' \subseteq Live \cup {s}
  BY DEF LimitInv, LimitShape, Live
<1>3. Cardinality(Live') <= LimitedLimit
  <2>1. Live \subseteq ManagerSids /\ Live \cup {s} \subseteq ManagerSids
    BY DEF Live
  <2>2. Cardinality(Live') <= Cardinality(Live \cup {s}) /\ Cardinality(Live') \in Nat
        /\ Cardinality(Live \cup {s}) \in Nat
    BY <1>2, <2>1, LessRoom
  <2>3. IsFiniteSet(Live) /\ Cardinality(Live) \in Nat
    BY <2>1, LessRoom
  <2>4. Cardinality(Live \cup {s}) \in {Cardinality(Live), Cardinality(Live) + 1}
    BY <2>3, FS_AddElement
  <2> QED
    BY <2>2, <2>3, <2>4, LimitConstants
<1> QED
  BY <1>1, <1>2, <1>3 DEF LimitInv, LimitShape, CleanersClose, RoomWhenClosed

LEMMA LimitFacts ==
    /\ Managing(Limited)!Running = Live
    /\ \A S : Managing(Limited)!Cardinality(S) = Cardinality(S)
    /\ Managing(Limited)!Cardinality(Managing(Limited)!Born) + 1 \in Nat
    /\ Limited.limit = LimitedLimit /\ Limited.sids = ManagerSids /\ Limited.requests = {OneRequest}
    /\ Managing(Limited)!Idle \in LimitedStates /\ Managing(Limited)!Idle.pc = "idle"
    /\ Managing(Limited)!Idle.for = "none"
<1>1. \A S : Managing(Limited)!Cardinality(S) = Cardinality(S)
  BY DEF Managing!Cardinality, Cardinality
<1>2. Managing(Limited)!Born \subseteq 1..MaxLimitedSessions
  BY DEF Managing!Born, Managing!Ids, Limited
<1>3. IsFiniteSet(1..MaxLimitedSessions)
  BY LimitConstants, FS_Interval
<1>4. Cardinality(Managing(Limited)!Born) \in Nat
  BY <1>2, <1>3, FS_Subset, FS_CardinalityType
<1>5. Managing(Limited)!Running = Live
  BY DEF Managing!Running, Live, Limited
<1>6. Limited.limit = LimitedLimit /\ Limited.sids = ManagerSids /\ Limited.requests = {OneRequest}
  BY DEF Limited
<1>7. Managing(Limited)!Idle \in LimitedStates /\ Managing(Limited)!Idle.pc = "idle"
      /\ Managing(Limited)!Idle.for = "none"
  BY DEF Managing!Idle, LimitedStates
<1> QED
  BY <1>1, <1>4, <1>5, <1>6, <1>7

\* The loop that the request starts.
LEMMA StartsLoop ==
    ASSUME LimitInv, NEW s \in ManagerSids, Cardinality(Live) < LimitedLimit,
           Managing(Limited)!MakeSession(OneRequest, s)
    PROVE  LimitInv'
<1>1. PICK i \in Nat, w \in LimitedStates : /\ loops' = [loops EXCEPT ![s] = i]
                                            /\ task' = [task EXCEPT ![OneRequest] = w]
                                            /\ w.pc = "idle" /\ w.for = "none"
  BY LimitFacts DEF Managing!MakeSession
<1> QED
  BY <1>1, LoopMore

LEMMA RequestStarts ==
    ASSUME LimitInv, NEW s \in ManagerSids, Managing(Limited)!MaybeStart(OneRequest, s)
    PROVE  LimitInv'
<1>1. CASE loops[s] # 0
  <2>1. UNCHANGED <<loops, sess, task>>
    BY <1>1 DEF Managing!MaybeStart, Managing!HasLoop
  <2> QED
    BY <2>1 DEF LimitInv, LimitShape, CleanersClose, RoomWhenClosed, Spare, Live
<1>2. CASE loops[s] = 0 /\ Cardinality(Live) < LimitedLimit
  <2>1. Managing(Limited)!MakeSession(OneRequest, s)
    BY <1>2, LimitFacts DEF Managing!MaybeStart, Managing!HasLoop
  <2> QED
    BY <1>2, <2>1, StartsLoop
<1>3. CASE loops[s] = 0 /\ ~(Cardinality(Live) < LimitedLimit)
  <2>1. PICK w : w = [Managing(Limited)!Idle EXCEPT !.pc = "metadata", !.for = s, !.evict = Live]
    OBVIOUS
  <2>2. loops' = loops /\ task' = [task EXCEPT ![OneRequest] = w]
    BY <1>3, <2>1, LimitFacts DEF Managing!MaybeStart, Managing!HasLoop
  <2>3. w \in LimitedStates /\ w.pc = "metadata" /\ w.for = s /\ w.evict = Live
    BY Zenon, <2>1 DEF Managing!Idle, LimitedStates, Live
  <2>4. w.for # "none"
    BY <2>3, LimitConstants
  <2> QED
    BY <2>2, <2>3, <2>4, RequestMoves
<1> QED
  BY <1>1, <1>2, <1>3

LEMMA RequestStops ==
    ASSUME LimitInv, NEW s \in ManagerSids, Managing(Limited)!StopRequest(OneRequest, s)
    PROVE  LimitInv'
<1>1. PICK w : w = [task[OneRequest] EXCEPT !.pc = "disconnect", !.sid = s,
                                            !.left = Managing(Limited)!ConnsOf(s), !.evict = {}]
  OBVIOUS
<1>2. task[OneRequest] \in LimitedStates /\ Managing(Limited)!ConnsOf(s) \in SUBSET ManagerConns
  BY DEF LimitInv, LimitShape, LimitedTasks, Managing!ConnsOf
<1>3. w \in LimitedStates /\ w.pc = "disconnect" /\ w.sid = s /\ w.for = task[OneRequest].for
  BY <1>1, <1>2 DEF LimitedStates
<1>4. loops' = loops /\ task' = [task EXCEPT ![OneRequest] = w] /\ task[OneRequest].pc = "idle"
  BY <1>1 DEF Managing!StopRequest, Managing!BeginClose
<1>5. w.for = "none"
  BY <1>3, <1>4 DEF LimitInv, RoomWhenClosed
<1> QED
  BY <1>3, <1>4, <1>5, RequestMoves

\* The oldest are as many as leave room for one when they are closed.
LEMMA ReadsMetadata ==
    ASSUME LimitInv, Managing(Limited)!Metadata(OneRequest)
    PROVE  LimitInv'
<1>1. PICK old \in SUBSET task[OneRequest].evict :
        /\ Managing(Limited)!Cardinality(old) = Managing(Limited)!Oldest(task[OneRequest].evict)
        /\ task' = [task EXCEPT ![OneRequest].pc = "evict", ![OneRequest].evict = old]
  BY DEF Managing!Metadata
<1>2. PICK E : E = task[OneRequest].evict
  OBVIOUS
<1>3. task[OneRequest] \in LimitedStates /\ E \subseteq ManagerSids /\ loops' = loops
      /\ task[OneRequest].pc = "metadata" /\ OneRequest \in DOMAIN task
  BY <1>2 DEF LimitInv, LimitShape, LimitedTasks, LimitedStates, Managing!Metadata
<1>4. Cardinality(old) = Cardinality(E) - LimitedLimit + 1
  BY <1>1, <1>2, LimitFacts DEF Managing!Oldest
<1>5. Spare(old)
  <2>1. Live \subseteq E
    BY <1>2, <1>3 DEF LimitInv, RoomWhenClosed
  <2>2. E \cap old = old /\ IsFiniteSet(E) /\ Cardinality(E) \in Nat
    BY <1>1, <1>2, <1>3, LessRoom
  <2>3. Cardinality(E \ old) = Cardinality(E) - Cardinality(old)
    BY ZenonT(40), <2>2, FS_Difference
  <2>4. Live \ old \subseteq E \ old /\ E \ old \subseteq ManagerSids
    BY <1>3, <2>1
  <2>5. Cardinality(Live \ old) <= Cardinality(E \ old) /\ Cardinality(Live \ old) \in Nat
    BY <2>4, LessRoom
  <2> QED
    BY <1>4, <2>2, <2>3, <2>5, LimitConstants DEF Spare
<1>6. PICK w : w = [task[OneRequest] EXCEPT !.pc = "evict", !.evict = old]
  OBVIOUS
<1>7. w \in LimitedStates /\ w.pc = "evict" /\ w.evict = old /\ w.for = task[OneRequest].for
  BY <1>1, <1>2, <1>3, <1>6 DEF LimitedStates
<1>8. task' = [task EXCEPT ![OneRequest] = w]
  BY <1>1, <1>3, <1>6
<1>9. w.for # "none"
  BY <1>3, <1>7 DEF LimitInv, RoomWhenClosed
<1> QED
  BY <1>3, <1>5, <1>7, <1>8, <1>9, RequestMoves

LEMMA Evicts ==
    ASSUME LimitInv, Managing(Limited)!Evict(OneRequest)
    PROVE  LimitInv'
<1>1. PICK k \in LimitedStates : k = task[OneRequest]
  BY DEF LimitInv, LimitShape, LimitedTasks
<1>2. k.pc = "evict" /\ k.for \in ManagerSids /\ k.evict \subseteq ManagerSids /\ Spare(k.evict)
  BY <1>1 DEF LimitInv, RoomWhenClosed, Managing!Evict, LimitedStates
<1>3. CASE k.evict = {}
  <2>1. Cardinality(Live) < LimitedLimit
    BY <1>2, <1>3 DEF Spare
  <2>2. Managing(Limited)!MakeSession(OneRequest, k.for)
    BY <1>1, <1>3 DEF Managing!Evict
  <2> QED
    BY <1>2, <2>1, <2>2, StartsLoop
<1>4. CASE k.evict # {}
  <2>1. PICK s \in k.evict :
          IF loops[s] # 0 THEN Managing(Limited)!BeginClose(OneRequest, s, k.evict \ {s})
          ELSE task' = [task EXCEPT ![OneRequest].evict = task[OneRequest].evict \ {s}]
    BY <1>1, <1>4 DEF Managing!Evict
  <2>2. loops' = loops /\ s \in ManagerSids
    BY <1>1, <1>2, <1>4 DEF Managing!Evict
  <2>3. CASE loops[s] # 0
    <3>1. PICK w : w = [k EXCEPT !.pc = "disconnect", !.sid = s,
                                 !.left = Managing(Limited)!ConnsOf(s), !.evict = k.evict \ {s}]
      OBVIOUS
    <3>2. Managing(Limited)!ConnsOf(s) \in SUBSET ManagerConns
      BY DEF Managing!ConnsOf
    <3>3. w \in LimitedStates /\ w.pc = "disconnect" /\ w.sid = s /\ w.evict = k.evict \ {s}
      BY <2>2, <3>1, <3>2 DEF LimitedStates
    <3>4. task' = [task EXCEPT ![OneRequest] = w]
      BY <1>1, <2>1, <2>3, <3>1 DEF Managing!BeginClose
    <3>5. w.evict \cup {w.sid} = k.evict
      BY <2>1, <3>3
    <3>6. Spare(w.evict \cup {w.sid})
      BY <1>2, <3>5
    <3> QED
      BY <2>2, <3>3, <3>4, <3>6, RequestMoves
  <2>4. CASE loops[s] = 0
    <3>1. PICK w : w = [k EXCEPT !.evict = k.evict \ {s}]
      OBVIOUS
    <3>2. w \in LimitedStates /\ w.pc = "evict" /\ w.evict = k.evict \ {s} /\ w.for = k.for
      BY <1>2, <3>1 DEF LimitedStates
    <3>3. task' = [task EXCEPT ![OneRequest] = w]
      BY <1>1, <2>1, <2>4, <3>1
    <3>4. Live \ w.evict = Live \ k.evict
      BY <2>4, <3>2 DEF Live
    <3>5. Spare(w.evict) /\ w.for # "none"
      BY <1>2, <3>2, <3>4, LimitConstants DEF Spare
    <3> QED
      BY <2>2, <3>2, <3>3, <3>5, RequestMoves
  <2> QED
    BY <2>3, <2>4
<1> QED
  BY <1>3, <1>4

\* A coroutine of the cleanup moves on to the state w, with no more loops.
LEMMA CleanerMoves ==
    ASSUME LimitInv, NEW t \in ManagerSids, NEW w \in LimitedStates, task' = [task EXCEPT ![t] = w],
           loops' \in [ManagerSids -> Nat], Live' \subseteq Live, w.for = "none",
           w.pc \notin {"metadata", "evict"}, w.pc = "disconnect" => w.sid \in ManagerSids
    PROVE  LimitInv'
<1>1. t # OneRequest /\ t \in LimitedTasks
  BY LimitConstants DEF LimitedTasks
<1>2. /\ task' \in [LimitedTasks -> LimitedStates] /\ task'[t] = w
      /\ \A u \in LimitedTasks : u # t => task'[u] = task[u]
  BY <1>1 DEF LimitInv, LimitShape
<1>3. CleanersClose'
  BY <1>1, <1>2 DEF LimitInv, CleanersClose, LimitedTasks
<1>4. task'[OneRequest] = task[OneRequest]
  BY <1>1, <1>2 DEF LimitedTasks
<1>5. \A u \in LimitedTasks : task'[u].pc = "disconnect" => task'[u].sid \in ManagerSids
  BY <1>2 DEF LimitInv, RoomWhenClosed
<1> QED
  BY <1>2, <1>3, <1>4, <1>5, RoomStays

\* What a coroutine does after it has closed a session.
LEMMA DoneState ==
    ASSUME LimitInv, NEW t \in LimitedTasks, NEW w, w = Managing(Limited)!Done(t)
    PROVE  /\ w \in LimitedStates
           /\ IF task[t].for = "none" THEN w.pc = "idle" /\ w.for = "none"
              ELSE w.pc = "evict" /\ w.for = task[t].for /\ w.evict = task[t].evict
<1>1. task[t] \in LimitedStates
  BY DEF LimitInv, LimitShape
<1>2. CASE task[t].for = "none"
  BY <1>2, LimitFacts DEF Managing!Done
<1>3. CASE task[t].for # "none"
  <2>1. w = [Managing(Limited)!Idle EXCEPT !.pc = "evict", !.for = task[t].for, !.evict = task[t].evict]
    BY <1>3 DEF Managing!Done
  <2>2. task[t].for \in ManagerSids \cup {"none"} /\ task[t].evict \in SUBSET ManagerSids
    BY <1>1 DEF LimitedStates
  <2>3. w \in LimitedStates /\ w.pc = "evict" /\ w.for = task[t].for /\ w.evict = task[t].evict
    <3>1. PICK f \in ManagerSids \cup {"none"}, e \in SUBSET ManagerSids :
            f = task[t].for /\ e = task[t].evict
      BY <2>2
    <3>2. w = [Managing(Limited)!Idle EXCEPT !.pc = "evict", !.for = f, !.evict = e]
      BY <2>1, <3>1
    <3>3. w \in LimitedStates /\ w.pc = "evict" /\ w.for = f /\ w.evict = e
      BY ONLY <3>2 DEF Managing!Idle, LimitedStates
    <3> QED
      BY <3>1, <3>3
  <2> QED
    BY <1>3, <2>3
<1> QED
  BY <1>2, <1>3

LEMMA Takes ==
    ASSUME LimitInv, NEW t \in LimitedTasks, Managing(Limited)!TakeSession(t)
    PROVE  LimitInv'
<1>1. PICK k \in LimitedStates : k = task[t]
  BY DEF LimitInv, LimitShape
<1>2. k.pc = "disconnect" /\ k.sid \in ManagerSids
  BY <1>1 DEF LimitInv, RoomWhenClosed, Managing!TakeSession
<1>3. loops' = [loops EXCEPT ![k.sid] = 0] /\ loops' \in [ManagerSids -> Nat]
  BY <1>1, <1>2 DEF Managing!TakeSession, LimitInv, LimitShape
<1>4. Live' = Live \ {k.sid} /\ Live \subseteq ManagerSids
  BY <1>2, <1>3 DEF LimitInv, LimitShape, Live
<1>5. PICK w \in LimitedStates :
        /\ task' = [task EXCEPT ![t] = w]
        /\ \/ w.pc = "emit" /\ w.for = k.for /\ w.evict = k.evict
           \/ k.for = "none" /\ w.pc = "idle" /\ w.for = "none"
           \/ k.for # "none" /\ w.pc = "evict" /\ w.for = k.for /\ w.evict = k.evict
  <2>1. CASE loops[k.sid] = 0
    <3>1. task' = [task EXCEPT ![t] = Managing(Limited)!Done(t)]
      BY <1>1, <2>1 DEF Managing!TakeSession
    <3>2. PICK w : w = Managing(Limited)!Done(t)
      OBVIOUS
    <3> QED
      BY <1>1, <3>1, <3>2, DoneState
  <2>2. CASE loops[k.sid] # 0
    <3>1. PICK w : w = [k EXCEPT !.pc = "emit", !.session = loops[k.sid]]
      OBVIOUS
    <3>2. loops[k.sid] \in Nat
      BY <1>2 DEF LimitInv, LimitShape
    <3>3. w \in LimitedStates /\ w.pc = "emit" /\ w.for = k.for /\ w.evict = k.evict
      BY <3>1, <3>2 DEF LimitedStates
    <3>4. task' = [task EXCEPT ![t] = w]
      BY <1>1, <2>2, <3>1 DEF Managing!TakeSession
    <3> QED
      BY <3>3, <3>4
  <2> QED
    BY <2>1, <2>2
<1>6. CASE t \in ManagerSids
  <2>1. k.for = "none"
    BY <1>1, <1>6 DEF LimitInv, CleanersClose
  <2> QED
    BY <1>3, <1>4, <1>5, <1>6, <2>1, CleanerMoves
<1>7. CASE t = OneRequest
  <2>1. /\ task' \in [LimitedTasks -> LimitedStates] /\ task'[OneRequest] = w
        /\ \A u \in LimitedTasks : u # OneRequest => task'[u] = task[u]
        /\ \A u \in ManagerSids : task'[u] = task[u]
    BY <1>5, <1>7, LimitConstants DEF LimitInv, LimitShape, LimitedTasks
  <2>2. Cardinality(Live') <= LimitedLimit
    BY <1>4, LessRoom, LimitConstants DEF LimitInv, RoomWhenClosed
  <2>3. ASSUME k.for # "none" PROVE Cardinality(Live' \ k.evict) < LimitedLimit
    <3>1. Live' \ k.evict = Live \ (k.evict \cup {k.sid})
      BY <1>4
    <3> QED
      BY <1>1, <1>2, <1>7, <2>3, <3>1 DEF LimitInv, RoomWhenClosed, Spare
  <2>4. LimitShape' /\ CleanersClose'
    BY <1>3, <2>1 DEF LimitInv, LimitShape, CleanersClose
  <2>5. RoomWhenClosed'
    BY ZenonT(40), <1>5, <2>1, <2>2, <2>3 DEF LimitInv, RoomWhenClosed, Spare
  <2> QED
    BY <2>4, <2>5 DEF LimitInv
<1> QED
  BY <1>6, <1>7 DEF LimitedTasks

\* The rest of a close: the session is closed, or its start is waited for.
LEMMA Closes ==
    ASSUME LimitInv, NEW t \in LimitedTasks, Managing(Limited)!EmitStopped(t) \/ Managing(Limited)!WaitEnds(t)
    PROVE  LimitInv'
<1>1. PICK k \in LimitedStates : k = task[t]
  BY DEF LimitInv, LimitShape
<1>2. k.pc \in {"emit", "wait"} /\ loops' = loops
  BY <1>1 DEF Managing!EmitStopped, Managing!WaitEnds
<1>3. PICK w \in LimitedStates :
        /\ task' = [task EXCEPT ![t] = w]
        /\ \/ w.pc = "wait" /\ w.for = k.for /\ w.evict = k.evict
           \/ k.for = "none" /\ w.pc = "idle" /\ w.for = "none"
           \/ k.for # "none" /\ w.pc = "evict" /\ w.for = k.for /\ w.evict = k.evict
  <2>1. CASE task' = [task EXCEPT ![t] = Managing(Limited)!Done(t)]
    <3>1. PICK w : w = Managing(Limited)!Done(t)
      OBVIOUS
    <3> QED
      BY <1>1, <2>1, <3>1, DoneState
  <2>2. CASE task' = [task EXCEPT ![t].pc = "wait"]
    <3>1. PICK w : w = [k EXCEPT !.pc = "wait"]
      OBVIOUS
    <3>2. w \in LimitedStates /\ w.pc = "wait" /\ w.for = k.for /\ w.evict = k.evict
      BY <3>1 DEF LimitedStates
    <3>3. task' = [task EXCEPT ![t] = w]
      BY <1>1, <2>2, <3>1
    <3> QED
      BY <3>2, <3>3
  <2> QED
    BY <2>1, <2>2 DEF Managing!EmitStopped, Managing!WaitEnds
<1>4. CASE t \in ManagerSids
  <2>1. k.for = "none" /\ loops' \in [ManagerSids -> Nat] /\ Live' = Live
    BY <1>1, <1>2, <1>4 DEF LimitInv, CleanersClose, LimitShape, Live
  <2> QED
    BY <1>3, <1>4, <2>1, CleanerMoves
<1>5. CASE t = OneRequest
  <2>1. k.for # "none" => Spare(k.evict)
    BY <1>1, <1>2, <1>5 DEF LimitInv, RoomWhenClosed
  <2> QED
    BY <1>2, <1>3, <1>5, <2>1, RequestMoves
<1> QED
  BY <1>4, <1>5 DEF LimitedTasks

LEMMA Disconnects ==
    ASSUME LimitInv, NEW t \in LimitedTasks, NEW c, Managing(Limited)!DisconnectOne(t, c)
    PROVE  LimitInv'
<1>1. PICK k \in LimitedStates : k = task[t]
  BY DEF LimitInv, LimitShape
<1>2. PICK w : w = [k EXCEPT !.left = k.left \ {c}]
  OBVIOUS
<1>3. w \in LimitedStates /\ w.pc = k.pc /\ w.for = k.for /\ w.evict = k.evict /\ w.sid = k.sid
  BY <1>2 DEF LimitedStates
<1>4. /\ task' = [task EXCEPT ![t] = w] /\ loops' = loops
  BY <1>1, <1>2 DEF Managing!DisconnectOne
<1>5. /\ task' \in [LimitedTasks -> LimitedStates] /\ loops' \in [ManagerSids -> Nat] /\ Live' = Live
      /\ \A u \in LimitedTasks : /\ task'[u].pc = task[u].pc /\ task'[u].for = task[u].for
                                 /\ task'[u].evict = task[u].evict /\ task'[u].sid = task[u].sid
  BY <1>1, <1>3, <1>4 DEF LimitInv, LimitShape, Live
<1>6. CleanersClose'
  BY <1>5 DEF LimitInv, CleanersClose, LimitedTasks
<1>7. /\ \A u \in LimitedTasks : task'[u].pc = "disconnect" => task'[u].sid \in ManagerSids
      /\ OneRequest \in LimitedTasks
  BY <1>5 DEF LimitInv, RoomWhenClosed, LimitedTasks
<1> QED
  BY <1>5, <1>6, <1>7, RoomStays

LEMMA CleanerStates ==
    ASSUME NEW t \in ManagerSids, NEW w, w = [Managing(Limited)!Idle EXCEPT !.pc = "disconnect", !.sid = t]
    PROVE  w \in LimitedStates /\ w.pc = "disconnect" /\ w.sid = t /\ w.for = "none"
BY DEF Managing!Idle, LimitedStates

LEMMA Cleans ==
    ASSUME LimitInv, Managing(Limited)!Cleanup \/ Managing(Limited)!CleanupTimesOut
    PROVE  LimitInv'
<1>1. /\ loops' = loops
      /\ task' = [t \in LimitedTasks |-> task'[t]]
      /\ \A t \in LimitedTasks :
            \/ task'[t] = task[t]
            \/ /\ t \in ManagerSids
               /\ \/ task'[t] = Managing(Limited)!Idle
                  \/ task'[t] = [Managing(Limited)!Idle EXCEPT !.pc = "disconnect", !.sid = t]
  <2>1. CASE Managing(Limited)!Cleanup
    <3>1. PICK S \in SUBSET ManagerSids :
            task' = [t \in LimitedTasks |-> IF t \in S THEN [Managing(Limited)!Idle EXCEPT !.pc = "disconnect", !.sid = t]
                                            ELSE task[t]]
      BY Zenon, <2>1, LimitConstants, LimitFacts DEF Managing!Cleanup
    <3> QED
      BY Zenon, <2>1, <3>1 DEF Managing!Cleanup
  <2>2. CASE Managing(Limited)!CleanupTimesOut
    BY Zenon, <2>2, LimitConstants, LimitFacts DEF Managing!CleanupTimesOut
  <2> QED
    BY Zenon, <2>1, <2>2
<1>2. ASSUME NEW t \in LimitedTasks
      PROVE  /\ task'[t] \in LimitedStates
             /\ \/ task'[t] = task[t]
                \/ /\ t \in ManagerSids /\ task'[t].for = "none" /\ task'[t].pc \in {"idle", "disconnect"}
                   /\ task'[t].pc = "disconnect" => task'[t].sid \in ManagerSids
  <2>1. CASE task'[t] = task[t]
    BY <2>1 DEF LimitInv, LimitShape
  <2>2. CASE t \in ManagerSids /\ task'[t] = Managing(Limited)!Idle
    BY <2>2, LimitFacts
  <2>3. CASE t \in ManagerSids /\ task'[t] = [Managing(Limited)!Idle EXCEPT !.pc = "disconnect", !.sid = t]
    <3>1. PICK w : w = [Managing(Limited)!Idle EXCEPT !.pc = "disconnect", !.sid = t]
      OBVIOUS
    <3>2. w \in LimitedStates /\ w.pc = "disconnect" /\ w.sid = t /\ w.for = "none"
      BY Zenon, <2>3, <3>1, CleanerStates
    <3> QED
      BY <2>3, <3>1, <3>2
  <2> QED
    BY <1>1, <2>1, <2>2, <2>3
<1>3. task' \in [LimitedTasks -> LimitedStates] /\ loops' \in [ManagerSids -> Nat] /\ Live' = Live
  BY <1>1, <1>2 DEF LimitInv, LimitShape, Live
<1>4. task'[OneRequest] = task[OneRequest] /\ CleanersClose'
  BY <1>2, LimitConstants DEF LimitInv, CleanersClose, LimitedTasks
<1>5. \A t \in LimitedTasks : task'[t].pc = "disconnect" => task'[t].sid \in ManagerSids
  BY <1>2 DEF LimitInv, RoomWhenClosed
<1> QED
  BY <1>3, <1>4, <1>5, RoomStays

LEMMA LimitStep == LimitInv /\ (Managing(Limited)!Next \/ UNCHANGED managerVars) => LimitInv'
<1> SUFFICES ASSUME LimitInv, Managing(Limited)!Next \/ UNCHANGED managerVars PROVE LimitInv'
  OBVIOUS
<1>1. ASSUME UNCHANGED <<loops, task>> PROVE LimitInv'
  BY <1>1 DEF LimitInv, LimitShape, CleanersClose, RoomWhenClosed, Spare, Live
<1>2. ASSUME NEW t \in LimitedTasks, Managing(Limited)!CloseStep(t) PROVE LimitInv'
  <2>1. task[t].pc \in {"metadata", "evict"} => t = OneRequest
    BY DEF LimitInv, CleanersClose, LimitedTasks
  <2>2. ASSUME Managing(Limited)!Metadata(t) \/ Managing(Limited)!Evict(t) PROVE LimitInv'
    BY <2>1, <2>2, ReadsMetadata, Evicts DEF Managing!Metadata, Managing!Evict
  <2> QED
    BY <1>2, <2>2, Takes, Closes, Disconnects DEF Managing!CloseStep
<1>3. ASSUME NEW i, Managing(Limited)!StartStep(i) PROVE UNCHANGED <<loops, task>>
  BY <1>3 DEF Managing!StartStep, Managing!StartBegins, Managing!RuntimeReady, Managing!MemoryReady
<1>4. ASSUME NEW c, Managing(Limited)!Leave(c) PROVE UNCHANGED <<loops, task>>
  BY <1>4 DEF Managing!Leave
<1>5. ASSUME NEW t \in {OneRequest}, NEW s \in ManagerSids, NEW c,
             \/ Managing(Limited)!StartRequest(t, s) \/ Managing(Limited)!StopRequest(t, s)
             \/ Managing(Limited)!Join(t, c, s)
      PROVE  LimitInv'
  BY <1>5, RequestStarts, RequestStops DEF Managing!StartRequest, Managing!Join
<1>6. Limited.sids = ManagerSids /\ Limited.requests = {OneRequest} /\ Managing(Limited)!Tasks = LimitedTasks
  BY LimitFacts, LimitConstants
<1> QED
  BY <1>1, <1>2, <1>3, <1>4, <1>5, <1>6, Cleans DEF Managing!Next, managerVars

LEMMA LimitHolds == LimitInv => Managing(Limited)!WithinLimit
BY LimitFacts DEF LimitInv, RoomWhenClosed, Managing!WithinLimit

-----------------------------------------------------------------------------
(* Sums.                                                                   *)

LEMMA LeastOf ==
    ASSUME NEW S \in SUBSET Nat, S # {}
    PROVE  \E m \in S : \A n \in S : m <= n
<1>1. PICK less : less = OpToRel(<, Nat)
  BY Zenon
<1>2. PICK m \in S : \A n \in S : <<n, m>> \notin less
  BY Zenon, <1>1, NatLessThanWellFounded, WFMin
<1>3. less = {ss \in Nat \X Nat : ss[1] < ss[2]}
  BY <1>1 DEF OpToRel
<1>4. ASSUME NEW n \in S PROVE m <= n
  <2>1. m \in Nat /\ n \in Nat /\ <<n, m>> \notin less
    BY <1>2
  <2>2. ~(n < m)
    BY <1>3, <2>1
  <2> QED
    BY <2>1, <2>2
<1> QED
  BY <1>4

LEMMA Inductive ==
    ASSUME NEW S \in SUBSET Nat, 0 \in S, \A n \in S : n + 1 \in S
    PROVE  S = Nat
<1>1. SUFFICES ASSUME Nat \ S # {} PROVE FALSE
  OBVIOUS
<1>2. PICK m \in Nat \ S : \A n \in Nat \ S : m <= n
  BY <1>1, LeastOf
<1>3. m # 0 /\ m - 1 \in Nat
  OBVIOUS
<1>4. m - 1 \in S
  BY <1>2, <1>3
<1> QED
  BY <1>3, <1>4

Any(S) == CHOOSE x \in S : TRUE
FirstAndRest(g, f, s) == IF s = {} THEN 0 ELSE g[Any(s)] + f[s \ {Any(s)}]
SumsUp(f, g, T) == f = [s \in SUBSET T |-> FirstAndRest(g, f, s)]
Sum(g, S) == (CHOOSE f : SumsUp(f, g, S))[S]

LEMMA OneLess ==
    ASSUME NEW s, IsFiniteSet(s), s # {}
    PROVE  /\ Any(s) \in s /\ IsFiniteSet(s \ {Any(s)})
           /\ Cardinality(s) \in Nat /\ Cardinality(s \ {Any(s)}) \in Nat
           /\ Cardinality(s \ {Any(s)}) = Cardinality(s) - 1
<1>1. Any(s) \in s
  BY DEF Any
<1>2. PICK x : x = Any(s)
  OBVIOUS
<1> QED
  BY <1>1, <1>2, FS_RemoveElement, FS_CardinalityType

LEMMA NotEmpty ==
    ASSUME NEW s, NEW n \in Nat, Cardinality(s) = n + 1
    PROVE  s # {}
<1>1. Cardinality({}) = 0
  BY FS_EmptySet
<1>2. n + 1 # 0
  OBVIOUS
<1> QED
  BY <1>1, <1>2

\* The sum of a finite set is defined: it is built up by the number of elements.
LEMMA SumExists ==
    ASSUME NEW g, NEW T, IsFiniteSet(T)
    PROVE  \E f : SumsUp(f, g, T)
<1> DEFINE UpTo(n, f) == \A s \in SUBSET T : Cardinality(s) <= n => f[s] = FirstAndRest(g, f, s)
<1>1. PICK N : N = {n \in Nat : \E f : UpTo(n, f)}
  OBVIOUS
<1>2. ASSUME NEW s \in SUBSET T PROVE IsFiniteSet(s) /\ Cardinality(s) \in Nat
  BY FS_Subset, FS_CardinalityType
<1>3. 0 \in N
  <2>1. PICK f : f = [s \in SUBSET T |-> 0]
    OBVIOUS
  <2>2. ASSUME NEW s \in SUBSET T, Cardinality(s) <= 0 PROVE s = {}
    BY <1>2, <2>2, FS_EmptySet
  <2>3. UpTo(0, f)
    BY <2>1, <2>2 DEF FirstAndRest
  <2> QED
    BY <1>1, <2>3
<1>4. ASSUME NEW n \in N PROVE n + 1 \in N
  <2>1. PICK f : UpTo(n, f)
    BY <1>1
  <2>2. PICK h : h = [s \in SUBSET T |-> FirstAndRest(g, f, s)]
    OBVIOUS
  <2>3. ASSUME NEW s \in SUBSET T, Cardinality(s) <= n + 1 PROVE h[s] = FirstAndRest(g, h, s)
    <3>1. CASE s = {}
      BY <2>2, <3>1 DEF FirstAndRest
    <3>2. CASE s # {}
      <4>1. PICK r : r = s \ {Any(s)}
        OBVIOUS
      <4>2. r \in SUBSET T /\ Cardinality(r) <= n
        BY <1>1, <1>2, <2>3, <3>2, <4>1, OneLess
      <4>3. h[r] = f[r]
        BY <2>1, <2>2, <4>2
      <4> QED
        BY <2>2, <3>2, <4>1, <4>3 DEF FirstAndRest
    <3> QED
      BY <3>1, <3>2
  <2> QED
    BY <1>1, <2>3
<1>5. N = Nat
  <2>1. N \in SUBSET Nat
    BY <1>1
  <2> QED
    BY <1>3, <1>4, <2>1, Inductive
<1>6. PICK f : UpTo(Cardinality(T), f)
  BY <1>1, <1>2, <1>5
<1>7. PICK h : h = [s \in SUBSET T |-> FirstAndRest(g, f, s)]
  OBVIOUS
<1>8. ASSUME NEW s \in SUBSET T PROVE h[s] = f[s]
  BY <1>6, <1>7, FS_Subset
<1>9. ASSUME NEW s \in SUBSET T PROVE FirstAndRest(g, f, s) = FirstAndRest(g, h, s)
  <2>1. s \ {Any(s)} \in SUBSET T
    OBVIOUS
  <2> QED
    BY <1>8, <2>1 DEF FirstAndRest
<1>10. SumsUp(h, g, T)
  BY <1>7, <1>9 DEF SumsUp
<1> QED
  BY <1>10

\* It depends on the terms only, and the order does not matter.
LEMMA SumsAgree ==
    ASSUME NEW T, IsFiniteSet(T), NEW U, IsFiniteSet(U), NEW g, NEW h, NEW f, SumsUp(f, g, T),
           NEW k, SumsUp(k, h, U), NEW S, S \subseteq T, S \subseteq U,
           \A x \in S : g[x] = h[x]
    PROVE  f[S] = k[S]
<1>1. PICK N : N = {n \in Nat : \A s \in SUBSET S : Cardinality(s) = n => f[s] = k[s]}
  OBVIOUS
<1>2. ASSUME NEW s \in SUBSET S
      PROVE  /\ IsFiniteSet(s) /\ Cardinality(s) \in Nat
             /\ f[s] = FirstAndRest(g, f, s) /\ k[s] = FirstAndRest(h, k, s)
  BY FS_Subset, FS_CardinalityType DEF SumsUp
<1>3. 0 \in N
  <2>1. ASSUME NEW s \in SUBSET S, Cardinality(s) = 0 PROVE f[s] = k[s]
    <3>1. s = {}
      BY <1>2, <2>1, FS_EmptySet
    <3> QED
      BY <1>2, <3>1 DEF FirstAndRest
  <2> QED
    BY <1>1, <2>1
<1>4. ASSUME NEW n \in N PROVE n + 1 \in N
  <2>1. ASSUME NEW s \in SUBSET S, Cardinality(s) = n + 1 PROVE f[s] = k[s]
    <3>0. n \in Nat /\ \A t \in SUBSET S : Cardinality(t) = n => f[t] = k[t]
      BY <1>1
    <3>1. s # {}
      BY <2>1, <3>0, NotEmpty
    <3>2. PICK r : r = s \ {Any(s)}
      OBVIOUS
    <3>3. Any(s) \in S /\ r \in SUBSET S /\ Cardinality(r) = n
      BY <1>2, <2>1, <3>0, <3>1, <3>2, OneLess
    <3>4. f[r] = k[r] /\ g[Any(s)] = h[Any(s)]
      BY <3>0, <3>3
    <3> QED
      BY <1>2, <3>1, <3>2, <3>4 DEF FirstAndRest
  <2> QED
    BY <1>1, <2>1
<1>5. N \in SUBSET Nat
  BY <1>1
<1>6. N = Nat
  BY <1>3, <1>4, <1>5, Inductive
<1>7. S \in SUBSET S /\ Cardinality(S) \in N
  BY <1>2, <1>6
<1> QED
  BY <1>1, <1>7

LEMMA SumGrows ==
    ASSUME NEW T, IsFiniteSet(T), NEW g, \A x \in T : g[x] \in Int, NEW f, SumsUp(f, g, T),
           NEW p \in T, NEW S, S \subseteq T, p \notin S
    PROVE  f[S] \in Int /\ f[S \cup {p}] = g[p] + f[S]
<1>1. PICK N : N = {n \in Nat : \A s \in SUBSET T : Cardinality(s) = n =>
                       /\ f[s] \in Int
                       /\ \A q \in T \ s : f[s \cup {q}] = g[q] + f[s]}
  OBVIOUS
<1>2. ASSUME NEW s \in SUBSET T
      PROVE  IsFiniteSet(s) /\ Cardinality(s) \in Nat /\ f[s] = FirstAndRest(g, f, s)
  BY FS_Subset, FS_CardinalityType DEF SumsUp
<1>3. 0 \in N
  <2>1. ASSUME NEW s \in SUBSET T, Cardinality(s) = 0, NEW q \in T
        PROVE  f[s] = 0 /\ f[s \cup {q}] = g[q] + f[s]
    <3>1. s = {} /\ f[s] = 0
      BY <1>2, <2>1, FS_EmptySet DEF FirstAndRest
    <3>2. Any({q}) = q
      BY DEF Any
    <3>3. {q} \ {Any({q})} = {}
      BY <3>2
    <3>4. f[{q}] = g[q] + f[{}]
      BY <1>2, <3>2, <3>3 DEF FirstAndRest
    <3> QED
      BY <3>1, <3>4
  <2>2. ASSUME NEW s \in SUBSET T, Cardinality(s) = 0 PROVE f[s] = 0
    BY <1>2, <2>2, FS_EmptySet DEF FirstAndRest
  <2> QED
    BY <1>1, <2>1, <2>2
<1>4. ASSUME NEW n \in N PROVE n + 1 \in N
  <2>0. n \in Nat /\ \A t \in SUBSET T : Cardinality(t) = n =>
                        /\ f[t] \in Int
                        /\ \A q \in T \ t : f[t \cup {q}] = g[q] + f[t]
    BY <1>1
  <2>1. ASSUME NEW s \in SUBSET T, Cardinality(s) = n + 1 PROVE f[s] \in Int
    <3>1. s # {}
      BY <2>0, <2>1, NotEmpty
    <3>2. PICK r : r = s \ {Any(s)}
      OBVIOUS
    <3>3. /\ Any(s) \in s /\ Cardinality(r) = Cardinality(s) - 1
          /\ f[s] = FirstAndRest(g, f, s)
      BY <1>2, <3>1, <3>2, OneLess
    <3>4. Any(s) \in T /\ r \in SUBSET T /\ Cardinality(r) = n
      BY <2>0, <2>1, <3>2, <3>3
    <3>5. f[r] \in Int /\ g[Any(s)] \in Int
      BY <2>0, <3>4
    <3>6. f[s] = g[Any(s)] + f[r]
      BY <3>1, <3>2, <3>3 DEF FirstAndRest
    <3> QED
      BY <3>5, <3>6
  <2>2. ASSUME NEW s \in SUBSET T, Cardinality(s) = n + 1, NEW q \in T \ s
        PROVE  f[s \cup {q}] = g[q] + f[s]
    <3>1. PICK t : t = s \cup {q}
      OBVIOUS
    <3>2. PICK x : x = Any(t)
      OBVIOUS
    <3>a. t \in SUBSET T /\ t # {}
      BY <3>1
    <3>b. x \in t
      BY <3>2, <3>a DEF Any
    <3>c. f[t] = FirstAndRest(g, f, t)
      BY <1>2, <3>a
    <3>3. t \in SUBSET T /\ t # {} /\ x \in t /\ f[t] = g[x] + f[t \ {x}]
      BY <3>2, <3>a, <3>b, <3>c DEF FirstAndRest
    <3>4. CASE x = q
      <4>1. t \ {x} = s
        BY <3>1, <3>4
      <4> QED
        BY <3>1, <3>3, <3>4, <4>1
    <3>5. CASE x # q
      <4>1. PICK r : r = s \ {x}
        OBVIOUS
      <4>2. /\ x \in s /\ r \in SUBSET T /\ x \in T \ r
        BY <3>1, <3>3, <3>5, <4>1
      <4>a. t \ {x} = r \cup {q} /\ q \in T \ r /\ r \cup {x} = s
        BY <3>1, <3>3, <3>5, <4>1, <4>2
      <4>b. Cardinality(r) = Cardinality(s) - 1
        BY <1>2, <4>1, <4>2, FS_RemoveElement
      <4>c. Cardinality(r) = n
        BY <2>0, <2>2, <4>b
      <4>3. /\ f[r] \in Int /\ f[r \cup {q}] = g[q] + f[r] /\ f[r \cup {x}] = g[x] + f[r]
            /\ g[x] \in Int /\ g[q] \in Int
        BY <2>0, <4>2, <4>a, <4>c
      <4>4. f[t] = g[x] + (g[q] + f[r]) /\ f[s] = g[x] + f[r]
        BY <3>3, <4>a, <4>3
      <4> QED
        BY <3>1, <4>3, <4>4
    <3> QED
      BY <3>4, <3>5
  <2> QED
    BY <1>1, <2>0, <2>1, <2>2
<1>5. N \in SUBSET Nat
  BY <1>1
<1>6. N = Nat
  BY <1>3, <1>4, <1>5, Inductive
<1>7. S \in SUBSET T /\ Cardinality(S) \in N
  BY <1>2, <1>6
<1> QED
  BY <1>1, <1>7

LEMMA SumOfNone == ASSUME NEW g PROVE Sum(g, {}) = 0
<1>1. PICK f : f = CHOOSE k : SumsUp(k, g, {})
  OBVIOUS
<1>2. SumsUp(f, g, {})
  BY <1>1, SumExists, FS_EmptySet
<1>3. f[{}] = 0
  BY <1>2 DEF SumsUp, FirstAndRest
<1> QED
  BY <1>1, <1>3 DEF Sum

LEMMA SumOfMore ==
    ASSUME NEW S, IsFiniteSet(S), NEW p, p \notin S, NEW g, NEW h,
           \A x \in S : g[x] = h[x] /\ g[x] \in Int, h[p] \in Int
    PROVE  /\ Sum(g, S) \in Int
           /\ Sum(h, S \cup {p}) = h[p] + Sum(g, S)
<1>1. PICK T : T = S \cup {p}
  OBVIOUS
<1>2. IsFiniteSet(T)
  BY <1>1, FS_AddElement
<1>3. PICK f : f = CHOOSE k : SumsUp(k, g, S)
  OBVIOUS
<1>4. SumsUp(f, g, S) /\ Sum(g, S) = f[S]
  BY <1>3, SumExists DEF Sum
<1>5. PICK k : k = CHOOSE m : SumsUp(m, h, T)
  OBVIOUS
<1>6. SumsUp(k, h, T) /\ Sum(h, T) = k[T]
  BY <1>2, <1>5, SumExists DEF Sum
<1>7. k[S] \in Int /\ k[T] = h[p] + k[S]
  <2>1. \A x \in T : h[x] \in Int
    BY <1>1
  <2>2. p \in T /\ S \subseteq T
    BY <1>1
  <2> QED
    BY <1>1, <1>2, <1>6, <2>1, <2>2, SumGrows
<1>8. f[S] = k[S]
  <2>1. S \subseteq S /\ S \subseteq T /\ \A x \in S : g[x] = h[x]
    BY <1>1
  <2> QED
    BY <1>2, <1>4, <1>6, <2>1, SumsAgree
<1> QED
  BY <1>1, <1>4, <1>6, <1>7, <1>8

\* BytesRight is about such a sum.
LEMMA BytesSummed ==
    ASSUME NEW b
    PROVE  WebHooked!MapThenSumSet(LAMBDA p : b[p].size, DOMAIN b)
             = Sum([p \in DOMAIN b |-> b[p].size], DOMAIN b)
  BY ZenonT(40) DEF WebHooked!MapThenSumSet, WebHooked!MapThenFoldSet, Sum, SumsUp, FirstAndRest, Any

-----------------------------------------------------------------------------
(* The webhook.                                                            *)

HookWriters == {FirstWriter, SecondWriter}
HookTargets(w) == IF w = FirstWriter THEN FirstPaths \cap HookPaths ELSE HookPaths \ FirstPaths
IsBatch(b) ==
    /\ b = [p \in DOMAIN b |-> b[p]] /\ DOMAIN b \subseteq HookPaths
    /\ \A p \in DOMAIN b : b[p].n \in Nat /\ b[p].size \in Nat
IsSend(s) == s = [batch |-> s.batch, left |-> s.left] /\ s.left \in Nat
SizesOf(b) == [p \in DOMAIN b |-> b[p].size]

HookShape ==
    /\ DOMAIN queued \subseteq HookWriters
    /\ \A w \in DOMAIN queued : /\ queued[w].path \in HookTargets(w)
                                /\ queued[w].update.n \in Nat /\ queued[w].update.size \in Nat
    /\ IsBatch(hookBatch) /\ waiting \in Nat /\ hookUsed.writes \in Nat
    /\ hookUsed = [writes |-> hookUsed.writes, flushes |-> hookUsed.flushes,
                   failures |-> hookUsed.failures]
    /\ latest \in [HookPaths -> Nat] /\ store \in [HookPaths -> Nat]
    /\ IsSend(held) /\ \A s \in sending : IsSend(s) /\ s.left > 0

\* While flush sends under the lock, nothing is queued.
BatchTimed ==
    /\ held # WebHooked!NoSend => hookBatch = WebHooked!Empty
    /\ held = WebHooked!NoSend /\ hookBatch # WebHooked!Empty => timer = "armed" \/ waiting > 0

Holds(b, p, n) == p \in DOMAIN b /\ b[p].n = n
Known(p, n) ==
    \/ Holds(hookBatch, p, n) \/ \E s \in sending : Holds(s.batch, p, n)
    \/ held # WebHooked!NoSend /\ Holds(held.batch, p, n)
    \/ n \in dropped \cup arrived
LatestKnown == \A p \in HookPaths : latest[p] = 0 \/ Known(p, latest[p])
StoredIsLatest ==
    /\ \A p \in HookPaths : (\A w \in DOMAIN queued : queued[w].path # p) => latest[p] = store[p]
    /\ \A w \in DOMAIN queued : queued[w].update.n = store[queued[w].path]

BytesCounted == bytes = Sum(SizesOf(hookBatch), DOMAIN hookBatch)
HookInv == HookShape /\ BytesCounted /\ BatchTimed /\ LatestKnown /\ StoredIsLatest

LEMMA HookConstants ==
    /\ IsFiniteSet(HookPaths) /\ HookSizes \subseteq Nat /\ HookLimit \in Nat \ {0}
    /\ HookAttempts \in Nat \ {0}
  BY InstancesAssumption DEF InstancesAssumption, WebHooked!WebHookAssumption,
     WebHooked!IsFiniteSet, IsFiniteSet

LEMMA EmptyBatch ==
    /\ IsBatch(WebHooked!Empty) /\ DOMAIN WebHooked!Empty = {}
    /\ Sum(SizesOf(WebHooked!Empty), DOMAIN WebHooked!Empty) = 0
    /\ IsSend(WebHooked!NoSend) /\ WebHooked!NoSend.left = 0
<1>1. DOMAIN WebHooked!Empty = {} /\ IsBatch(WebHooked!Empty)
  BY DEF WebHooked!Empty, IsBatch
<1>2. Sum(SizesOf(WebHooked!Empty), {}) = 0
  BY SumOfNone
<1> QED
  BY <1>1, <1>2 DEF WebHooked!NoSend, IsSend

LEMMA BatchSum ==
    ASSUME NEW b, IsBatch(b)
    PROVE  Sum(SizesOf(b), DOMAIN b) \in Int
<1>1. IsFiniteSet(DOMAIN b)
  BY HookConstants, FS_Subset DEF IsBatch
<1>2. CASE DOMAIN b = {}
  BY <1>2, SumOfNone
<1>3. CASE DOMAIN b # {}
  <2>1. PICK p : p \in DOMAIN b
    BY <1>3
  <2>2. PICK S : S = DOMAIN b \ {p}
    OBVIOUS
  <2>3. IsFiniteSet(S) /\ p \notin S /\ S \cup {p} = DOMAIN b
    BY <1>1, <2>1, <2>2, FS_RemoveElement
  <2>4. \A q \in DOMAIN b : SizesOf(b)[q] \in Int
    BY DEF SizesOf, IsBatch
  <2> QED
    BY SMTT(20), <2>1, <2>3, <2>4, SumOfMore
<1> QED
  BY <1>2, <1>3

\* What is added, in place of what it replaces, is what the size changes by.
LEMMA AddedSum ==
    ASSUME IsBatch(hookBatch), NEW p \in HookPaths, NEW u, u.n \in Nat, u.size \in Nat
    PROVE  /\ IsBatch(WebHooked!Added(p, u))
           /\ Sum(SizesOf(WebHooked!Added(p, u)), DOMAIN WebHooked!Added(p, u))
                = Sum(SizesOf(hookBatch), DOMAIN hookBatch) - WebHooked!Previous(p) + u.size
<1>1. PICK b : b = hookBatch
  OBVIOUS
<1>2. PICK c : c = WebHooked!Added(p, u)
  OBVIOUS
<1>3. PICK R : R = DOMAIN b \ {p}
  OBVIOUS
<1>4. /\ DOMAIN c = DOMAIN b \cup {p} /\ DOMAIN c = R \cup {p} /\ p \notin R
      /\ c[p] = u /\ \A q \in R : c[q] = b[q]
  BY <1>1, <1>2, <1>3 DEF WebHooked!Added
<1>5. IsBatch(b) /\ IsFiniteSet(DOMAIN b) /\ IsFiniteSet(R)
  BY <1>1, <1>3, HookConstants, FS_Subset, FS_RemoveElement DEF IsBatch
<1>6. IsBatch(c)
  <2>1. c = [q \in DOMAIN b \cup {p} |-> c[q]]
    BY <1>1, <1>2 DEF WebHooked!Added
  <2>2. \A q \in DOMAIN c : c[q].n \in Nat /\ c[q].size \in Nat
    BY <1>3, <1>4, <1>5 DEF IsBatch
  <2> QED
    BY <1>4, <1>5, <2>1, <2>2 DEF IsBatch
<1>7. PICK g : g = SizesOf(b)
  OBVIOUS
<1>8. PICK h : h = SizesOf(c)
  OBVIOUS
<1>9. /\ \A q \in R : g[q] = h[q] /\ g[q] = g[q] /\ g[q] \in Int
      /\ h[p] = u.size /\ h[p] \in Int
      /\ p \in DOMAIN b => g[p] = b[p].size /\ g[p] \in Int
  BY <1>3, <1>4, <1>5, <1>7, <1>8 DEF SizesOf, IsBatch
<1>10. Sum(g, R) \in Int /\ Sum(h, R \cup {p}) = h[p] + Sum(g, R)
  <2>1. /\ IsFiniteSet(R) /\ p \notin R
        /\ \A q \in R : g[q] = h[q] /\ g[q] \in Int
        /\ h[p] \in Int
    BY <1>4, <1>5, <1>9
  <2> QED
    BY <2>1, SumOfMore
<1>11. CASE p \in DOMAIN b
  <2>1. DOMAIN b = R \cup {p}
    BY <1>3, <1>11
  <2>2. Sum(g, R \cup {p}) = g[p] + Sum(g, R)
    BY <1>4, <1>5, <1>9, <1>11, SumOfMore
  <2>3. WebHooked!Previous(p) = g[p]
    BY <1>1, <1>9, <1>11 DEF WebHooked!Previous
  <2>4. Sum(h, R \cup {p}) = Sum(g, DOMAIN b) - g[p] + u.size
    BY <1>9, <1>10, <1>11, <2>1, <2>2
  <2> QED
    BY <1>1, <1>2, <1>4, <1>6, <1>7, <1>8, <2>3, <2>4
<1>12. CASE p \notin DOMAIN b
  <2>1. DOMAIN b = R /\ WebHooked!Previous(p) = 0
    BY <1>1, <1>3, <1>12 DEF WebHooked!Previous
  <2>2. Sum(h, R \cup {p}) = Sum(g, DOMAIN b) - 0 + u.size
    BY <1>9, <1>10, <2>1
  <2> QED
    BY <1>1, <1>2, <1>4, <1>6, <1>7, <1>8, <2>1, <2>2
<1> QED
  BY <1>11, <1>12

LEMMA HookBegins == WebHooked!Init => HookInv
<1> SUFFICES ASSUME WebHooked!Init PROVE HookInv
  OBVIOUS
<1>1. /\ queued = [w \in {} |-> 0] /\ hookBatch = WebHooked!Empty /\ bytes = 0 /\ waiting = 0
      /\ held = WebHooked!NoSend /\ sending = {}
      /\ hookUsed = [writes |-> 0, flushes |-> 0, failures |-> 0]
      /\ store = [p \in HookPaths |-> 0] /\ latest = store
  BY DEF WebHooked!Init
<1> QED
  BY <1>1, EmptyBatch DEF HookInv, HookShape, BytesCounted, BatchTimed, LatestKnown, StoredIsLatest

LEMMA WriteHook ==
    ASSUME HookInv, NEW w \in HookWriters, NEW p \in HookTargets(w),
           NEW much \in HookSizes \cup {0}, WebHooked!Write(w, p, much)
    PROVE  HookInv'
<1>1. HookShape
  BY DEF HookInv
<1>2. PICK n \in Nat : n = hookUsed.writes + 1
  BY <1>1 DEF HookShape
<1>3. PICK u : u = [n |-> n, size |-> much]
  OBVIOUS
<1>4. /\ w \notin DOMAIN queued /\ hookUsed' = [hookUsed EXCEPT !.writes = @ + 1]
      /\ store' = [store EXCEPT ![p] = n]
      /\ queued' = [v \in DOMAIN queued \cup {w} |->
                      IF v = w THEN [path |-> p, update |-> u] ELSE queued[v]]
      /\ UNCHANGED <<hookBatch, bytes, timer, waiting, held, sending, hook, arrived, latest,
                     dropped>>
  BY <1>2, <1>3 DEF WebHooked!Write
<1>5. p \in HookPaths /\ much \in Nat /\ u.n = n /\ u.size = much
  <2>1. p \in HookPaths
    BY DEF HookTargets
  <2>2. much \in Nat
    BY HookConstants
  <2> QED
    BY <1>3, <2>1, <2>2
<1>6. HookShape'
  <2>1. /\ DOMAIN queued' \subseteq HookWriters
        /\ \A v \in DOMAIN queued' : /\ queued'[v].path \in HookTargets(v)
                                     /\ queued'[v].update.n \in Nat /\ queued'[v].update.size \in Nat
    BY <1>1, <1>4, <1>5 DEF HookShape
  <2>2. store' \in [HookPaths -> Nat]
    BY <1>1, <1>4 DEF HookShape
  <2>3. /\ hookUsed'.writes \in Nat
        /\ hookUsed' = [writes |-> hookUsed'.writes, flushes |-> hookUsed'.flushes,
                        failures |-> hookUsed'.failures]
    BY <1>1, <1>4 DEF HookShape
  <2>4. /\ IsBatch(hookBatch) /\ IsSend(held) /\ (\A s \in sending : IsSend(s) /\ s.left > 0)
        /\ waiting \in Nat /\ latest \in [HookPaths -> Nat]
    BY <1>1 DEF HookShape
  <2>5. /\ IsBatch(hookBatch)' /\ IsSend(held)' /\ waiting' \in Nat
        /\ (\A s \in sending' : IsSend(s) /\ s.left > 0) /\ latest' \in [HookPaths -> Nat]
    BY <1>4, <2>4 DEF IsBatch, IsSend
  <2> QED
    BY <2>1, <2>2, <2>3, <2>5 DEF HookShape
<1>7. StoredIsLatest'
  <2>1. ASSUME NEW v \in DOMAIN queued PROVE queued[v].path # p
    <3>1. v # w /\ v \in HookWriters /\ queued[v].path \in HookTargets(v)
      BY <1>1, <1>4 DEF HookShape
    <3> QED
      BY <3>1 DEF HookTargets, HookWriters
  <2>2. \A v \in DOMAIN queued : queued[v].path \in HookPaths
    BY <1>1 DEF HookShape, HookTargets
  <2>3. /\ store'[p] = n /\ \A q \in HookPaths : q # p => store'[q] = store[q]
    BY <1>1, <1>4, <1>5 DEF HookShape
  <2>4. /\ DOMAIN queued' = DOMAIN queued \cup {w} /\ queued'[w].path = p
        /\ queued'[w].update.n = n /\ \A v \in DOMAIN queued : queued'[v] = queued[v]
    BY <1>4, <1>5
  <2>5. ASSUME NEW v \in DOMAIN queued' PROVE queued'[v].update.n = store'[queued'[v].path]
    BY <2>1, <2>2, <2>3, <2>4 DEF HookInv, StoredIsLatest
  <2>6. ASSUME NEW q \in HookPaths, \A v \in DOMAIN queued' : queued'[v].path # q
        PROVE  latest'[q] = store'[q]
    BY ZenonT(40), <1>4, <2>3, <2>4, <2>6 DEF HookInv, StoredIsLatest
  <2> QED
    BY <2>5, <2>6 DEF StoredIsLatest
<1> QED
  BY <1>4, <1>6, <1>7 DEF HookInv, BytesCounted, BatchTimed, LatestKnown, Known, Holds

\* A batch is handed to the executor.
LEMMA Enqueued ==
    ASSUME HookInv, held = WebHooked!NoSend, NEW b, IsBatch(b), WebHooked!EnqueueBatch(b)
    PROVE  /\ IsBatch(hookBatch)' /\ \A s \in sending' : IsSend(s) /\ s.left > 0
           /\ BytesCounted' /\ hookBatch' = WebHooked!Empty
           /\ \A p \in HookPaths, n \in Nat :
                Holds(b, p, n) \/ (\E s \in sending : Holds(s.batch, p, n))
                  => \E s \in sending' : Holds(s.batch, p, n)
<1>1. /\ hookBatch' = WebHooked!Empty /\ bytes' = 0
      /\ sending' = IF b = WebHooked!Empty THEN sending
                    ELSE sending \cup {[batch |-> b, left |-> HookAttempts]}
  BY DEF WebHooked!EnqueueBatch
<1>2. IsBatch(hookBatch)' /\ BytesCounted'
  BY <1>1, EmptyBatch DEF IsBatch, BytesCounted, SizesOf
<1>3. PICK t : t = [batch |-> b, left |-> HookAttempts]
  OBVIOUS
<1>4. IsSend(t) /\ t.left > 0 /\ t.batch = b
  BY <1>3, HookConstants DEF IsSend
<1>5. \A s \in sending : IsSend(s) /\ s.left > 0
  BY DEF HookInv, HookShape
<1>6. ASSUME NEW p \in HookPaths, NEW n \in Nat, Holds(b, p, n) PROVE b # WebHooked!Empty
  BY <1>6, EmptyBatch DEF Holds
<1> QED
  BY <1>1, <1>2, <1>3, <1>4, <1>5, <1>6

LEMMA QueueHook ==
    ASSUME HookInv, NEW w \in HookWriters, WebHooked!QueueUpdate(w)
    PROVE  HookInv'
<1>1. HookShape
  BY DEF HookInv
<1>2. PICK p : p = queued[w].path
  OBVIOUS
<1>3. PICK u : u = queued[w].update
  OBVIOUS
<1>4. PICK total : total = bytes - WebHooked!Previous(p) + u.size
  OBVIOUS
<1>5. PICK b : b = WebHooked!Added(p, u)
  OBVIOUS
<1>6. /\ w \in DOMAIN queued /\ held = WebHooked!NoSend
      /\ latest' = [latest EXCEPT ![p] = u.n]
      /\ \/ WebHooked!EnqueueBatch(b)
         \/ hookBatch' = b /\ bytes' = total /\ timer' = "armed" /\ UNCHANGED sending
      /\ queued' = [v \in DOMAIN queued \ {w} |-> queued[v]]
      /\ UNCHANGED <<store, waiting, held, hook, arrived, dropped, hookUsed>>
  <2>1. queued' = WebHooked!Restrict(queued, DOMAIN queued \ {w})
    BY DEF WebHooked!QueueUpdate
  <2>2. queued' = [v \in DOMAIN queued \ {w} |-> queued[v]]
    BY <2>1 DEF WebHooked!Restrict
  <2> QED
    BY <1>2, <1>3, <1>4, <1>5, <2>2 DEF WebHooked!QueueUpdate, WebHooked!LockFree, WebHooked!Rearmed
<1>7. /\ p \in HookPaths /\ u.n \in Nat /\ u.size \in Nat /\ IsBatch(hookBatch)
  BY <1>1, <1>2, <1>3, <1>6 DEF HookShape, HookTargets
<1>8. IsBatch(b) /\ Sum(SizesOf(b), DOMAIN b) = total
  <2>1. bytes = Sum(SizesOf(hookBatch), DOMAIN hookBatch)
    BY DEF HookInv, BytesCounted
  <2> QED
    BY <1>4, <1>5, <1>7, <2>1, AddedSum
<1>9. /\ Holds(b, p, u.n)
      /\ \A q \in HookPaths, n \in Nat : q # p /\ Holds(hookBatch, q, n) => Holds(b, q, n)
  BY <1>5 DEF WebHooked!Added, Holds
<1>10. /\ IsBatch(hookBatch)' /\ \A s \in sending' : IsSend(s) /\ s.left > 0
       /\ BytesCounted'
       /\ hookBatch' = WebHooked!Empty \/ timer' = "armed"
       /\ \A q \in HookPaths, n \in Nat :
            Holds(b, q, n) \/ (\E s \in sending : Holds(s.batch, q, n))
              => Known(q, n)'
  <2>1. CASE WebHooked!EnqueueBatch(b)
    BY <1>6, <1>8, <2>1, Enqueued DEF Known
  <2>2. CASE hookBatch' = b /\ bytes' = total /\ timer' = "armed" /\ UNCHANGED sending
    BY <1>1, <1>8, <2>2 DEF HookShape, BytesCounted, Known, IsBatch, SizesOf
  <2> QED
    BY <1>6, <2>1, <2>2
<1>11. latest' \in [HookPaths -> Nat] /\ latest'[p] = u.n
       /\ \A q \in HookPaths : q # p => latest'[q] = latest[q]
  BY <1>1, <1>6, <1>7 DEF HookShape
<1>12. /\ DOMAIN queued' = DOMAIN queued \ {w}
       /\ \A v \in DOMAIN queued' : queued'[v] = queued[v]
  BY <1>6
<1>13. HookShape'
  <2>1. /\ DOMAIN queued' \subseteq HookWriters
        /\ \A v \in DOMAIN queued' : /\ queued'[v].path \in HookTargets(v)
                                     /\ queued'[v].update.n \in Nat /\ queued'[v].update.size \in Nat
    BY <1>1, <1>12 DEF HookShape
  <2>2. /\ waiting' \in Nat /\ hookUsed'.writes \in Nat
        /\ hookUsed' = [writes |-> hookUsed'.writes, flushes |-> hookUsed'.flushes,
                        failures |-> hookUsed'.failures]
        /\ store' \in [HookPaths -> Nat]
    BY <1>1, <1>6 DEF HookShape
  <2>3. IsSend(held)'
    BY <1>6, EmptyBatch DEF IsSend
  <2> QED
    BY <1>10, <1>11, <2>1, <2>2, <2>3 DEF HookShape
<1>14. BatchTimed'
  BY <1>6, <1>10 DEF BatchTimed
<1>15. LatestKnown'
  <2>1. ASSUME NEW q \in HookPaths, q # p, latest[q] # 0 PROVE Known(q, latest[q])'
    <3>1. Known(q, latest[q]) /\ latest[q] \in Nat
      BY <1>1, <2>1 DEF HookInv, HookShape, LatestKnown
    <3> QED
      BY <1>6, <1>9, <1>10, <1>11, <2>1, <3>1 DEF Known
  <2>2. Known(p, u.n)'
    BY <1>7, <1>9, <1>10
  <2>3. ASSUME NEW q \in HookPaths PROVE latest'[q] = 0 \/ Known(q, latest[q])'
    <3>1. CASE q = p
      BY <1>11, <2>2, <3>1 DEF Known
    <3>2. CASE q # p
      BY <1>11, <2>1, <3>2 DEF Known
    <3> QED
      BY <3>1, <3>2
  <2> QED
    BY <2>3 DEF LatestKnown
<1>16. StoredIsLatest'
  <2>1. u.n = store[p]
    BY <1>2, <1>3, <1>6 DEF HookInv, StoredIsLatest
  <2>2. ASSUME NEW q \in HookPaths, q # p, \A v \in DOMAIN queued' : queued'[v].path # q
        PROVE  latest[q] = store[q]
    <3>1. \A v \in DOMAIN queued : queued[v].path # q
      BY <1>2, <1>12, <2>2
    <3> QED
      BY <3>1 DEF HookInv, StoredIsLatest
  <2>3. \A v \in DOMAIN queued' : queued'[v].update.n = store[queued'[v].path]
    BY <1>12 DEF HookInv, StoredIsLatest
  <2> QED
    BY <1>6, <1>11, <2>1, <2>2, <2>3 DEF StoredIsLatest
<1> QED
  BY <1>10, <1>13, <1>14, <1>15, <1>16 DEF HookInv

\* What the other steps leave as it is.
LEMMA HookKept ==
    ASSUME HookInv, UNCHANGED <<queued, latest, store>>, hookUsed'.writes \in Nat,
           hookUsed' = [writes |-> hookUsed'.writes, flushes |-> hookUsed'.flushes,
                        failures |-> hookUsed'.failures],
           IsBatch(hookBatch)', waiting' \in Nat, IsSend(held)',
           \A s \in sending' : IsSend(s) /\ s.left > 0,
           BytesCounted', BatchTimed',
           \A p \in HookPaths, n \in Nat : Known(p, n) => Known(p, n)'
    PROVE  HookInv'
<1>1. HookShape'
  <2>1. HookShape
    BY DEF HookInv
  <2> QED
    BY <2>1 DEF HookShape
<1>2. StoredIsLatest'
  BY DEF HookInv, StoredIsLatest
<1>3. LatestKnown'
  <2>1. ASSUME NEW p \in HookPaths, latest[p] # 0 PROVE Known(p, latest[p])'
    <3>1. Known(p, latest[p]) /\ latest[p] \in Nat
      BY <2>1 DEF HookInv, HookShape, LatestKnown
    <3>2. PICK n \in Nat : n = latest[p]
      BY <3>1
    <3>3. Known(p, n)'
      BY <3>1, <3>2
    <3> QED
      BY <3>2, <3>3 DEF Known
  <2> QED
    BY <2>1 DEF LatestKnown
<1> QED
  BY <1>1, <1>2, <1>3 DEF HookInv

LEMMA FireHook ==
    ASSUME HookInv, WebHooked!Fire
    PROVE  HookInv'
<1>1. /\ waiting' = waiting + 1
      /\ UNCHANGED <<store, queued, hookBatch, bytes, held, sending, hook, arrived, latest,
                     dropped, hookUsed>>
  BY DEF WebHooked!Fire
<1>2. waiting \in Nat
  BY DEF HookInv, HookShape
<1>3. BytesCounted' /\ BatchTimed'
  BY <1>1, <1>2 DEF HookInv, BytesCounted, BatchTimed
<1>4. /\ IsBatch(hookBatch)' /\ IsSend(held)' /\ \A s \in sending' : IsSend(s) /\ s.left > 0
      /\ hookUsed'.writes \in Nat
      /\ hookUsed' = [writes |-> hookUsed'.writes, flushes |-> hookUsed'.flushes,
                      failures |-> hookUsed'.failures]
  BY <1>1 DEF HookInv, HookShape, IsBatch, IsSend
<1>5. \A p \in HookPaths, n \in Nat : Known(p, n) => Known(p, n)'
  BY <1>1 DEF Known
<1> QED
  BY <1>1, <1>2, <1>3, <1>4, <1>5, HookKept

LEMMA TimerHook ==
    ASSUME HookInv, WebHooked!EnqueueFromTimer
    PROVE  HookInv'
<1>1. /\ waiting > 0 /\ held = WebHooked!NoSend /\ waiting' = waiting - 1
      /\ WebHooked!EnqueueBatch(hookBatch)
      /\ UNCHANGED <<store, queued, held, hook, arrived, latest, dropped, hookUsed>>
  BY DEF WebHooked!EnqueueFromTimer, WebHooked!LockFree
<1>2. waiting \in Nat /\ IsBatch(hookBatch)
  BY DEF HookInv, HookShape
<1>3. /\ IsBatch(hookBatch)' /\ \A s \in sending' : IsSend(s) /\ s.left > 0
      /\ BytesCounted' /\ hookBatch' = WebHooked!Empty
      /\ \A p \in HookPaths, n \in Nat :
           Holds(hookBatch, p, n) \/ (\E s \in sending : Holds(s.batch, p, n))
             => \E s \in sending' : Holds(s.batch, p, n)
  BY <1>1, <1>2, Enqueued
<1>4. /\ IsSend(held)' /\ hookUsed'.writes \in Nat
      /\ hookUsed' = [writes |-> hookUsed'.writes, flushes |-> hookUsed'.flushes,
                      failures |-> hookUsed'.failures]
  BY <1>1 DEF HookInv, HookShape, IsSend
<1>5. \A p \in HookPaths, n \in Nat : Known(p, n) => Known(p, n)'
  BY <1>1, <1>3 DEF Known
<1>6. BatchTimed' /\ waiting' \in Nat
  BY <1>1, <1>2, <1>3 DEF BatchTimed
<1> QED
  BY <1>1, <1>3, <1>4, <1>5, <1>6, HookKept

LEMMA FlushHook ==
    ASSUME HookInv, WebHooked!Flush
    PROVE  HookInv'
<1>1. PICK h : h = [batch |-> hookBatch, left |-> HookAttempts]
  OBVIOUS
<1>2. /\ held = WebHooked!NoSend /\ hookUsed' = [hookUsed EXCEPT !.flushes = @ + 1]
      /\ hookBatch' = WebHooked!Empty /\ bytes' = 0
      /\ IF hookBatch = WebHooked!Empty THEN UNCHANGED held ELSE held' = h
      /\ UNCHANGED <<store, queued, waiting, sending, hook, arrived, latest, dropped>>
  BY <1>1 DEF WebHooked!Flush, WebHooked!LockFree
<1>3. IsSend(h) /\ h.batch = hookBatch /\ h # WebHooked!NoSend
  BY <1>1, HookConstants, EmptyBatch DEF IsSend
<1>4. /\ IsBatch(hookBatch)' /\ BytesCounted' /\ BatchTimed'
  BY <1>2, EmptyBatch DEF IsBatch, BytesCounted, BatchTimed, SizesOf
<1>5. /\ hookUsed'.writes \in Nat
      /\ hookUsed' = [writes |-> hookUsed'.writes, flushes |-> hookUsed'.flushes,
                      failures |-> hookUsed'.failures]
  BY <1>2 DEF HookInv, HookShape
<1>6. IsSend(held)' /\ waiting' \in Nat /\ \A s \in sending' : IsSend(s) /\ s.left > 0
  BY <1>2, <1>3 DEF HookInv, HookShape, IsSend
<1>7. \A p \in HookPaths, n \in Nat : ~Holds(WebHooked!Empty, p, n)
  BY EmptyBatch DEF Holds
<1>8. \A p \in HookPaths, n \in Nat : Known(p, n) => Known(p, n)'
  BY <1>2, <1>3, <1>7 DEF Known
<1> QED
  BY <1>2, <1>4, <1>5, <1>6, <1>8, HookKept

\* A request ends: its updates have arrived or were given up.
LEMMA EndsHook ==
    ASSUME HookInv, NEW s \in WebHooked!Sends, WebHooked!Done(s),
           UNCHANGED <<store, queued, hookBatch, bytes, waiting, latest>>,
           hookUsed'.writes \in Nat,
           hookUsed' = [writes |-> hookUsed'.writes, flushes |-> hookUsed'.flushes,
                        failures |-> hookUsed'.failures],
           dropped \cup arrived \cup WebHooked!Numbers(s.batch) \subseteq dropped' \cup arrived'
    PROVE  HookInv'
<1>1. HookShape
  BY DEF HookInv
<1>2. \/ s = held /\ held # WebHooked!NoSend
      \/ s # held /\ s \in sending
  <2>1. \A t \in sending : t # WebHooked!NoSend
    BY <1>1, EmptyBatch DEF HookShape
  <2> QED
    BY <2>1 DEF WebHooked!Sends, WebHooked!LockFree
<1>3. /\ s = held => held' = WebHooked!NoSend /\ UNCHANGED sending
      /\ s # held => sending' = sending \ {s} /\ UNCHANGED <<held, timer>>
  BY DEF WebHooked!Done
<1>4. /\ IsBatch(hookBatch)' /\ BytesCounted' /\ waiting' \in Nat
  BY <1>1 DEF HookInv, HookShape, IsBatch, BytesCounted
<1>5. BatchTimed'
  BY <1>2, <1>3 DEF HookInv, BatchTimed
<1>6. IsSend(held)' /\ \A t \in sending' : IsSend(t) /\ t.left > 0
  BY <1>1, <1>3, EmptyBatch DEF HookShape, IsSend
<1>7. ASSUME NEW p \in HookPaths, NEW n \in Nat, Known(p, n) PROVE Known(p, n)'
  <2>1. Holds(s.batch, p, n) => n \in dropped' \cup arrived'
    BY DEF Holds, WebHooked!Numbers
  <2> QED
    BY <1>2, <1>3, <1>7, <2>1 DEF Known
<1> QED
  BY <1>4, <1>5, <1>6, <1>7, HookKept

LEMMA DeliverHook ==
    ASSUME HookInv, NEW s \in WebHooked!Sends, WebHooked!Deliver(s)
    PROVE  HookInv'
<1>1. /\ WebHooked!Done(s) /\ arrived' = arrived \cup WebHooked!Numbers(s.batch)
      /\ UNCHANGED <<store, queued, hookBatch, bytes, waiting, latest, dropped, hookUsed>>
  BY DEF WebHooked!Deliver, WebHooked!Apply
<1>2. /\ hookUsed.writes \in Nat
      /\ hookUsed = [writes |-> hookUsed.writes, flushes |-> hookUsed.flushes,
                     failures |-> hookUsed.failures]
  BY DEF HookInv, HookShape
<1> QED
  BY <1>1, <1>2, EndsHook

LEMMA FailHook ==
    ASSUME HookInv, NEW s \in WebHooked!Sends, WebHooked!Fail(s)
    PROVE  HookInv'
<1>0. HookShape
  BY DEF HookInv
<1>1. /\ hookUsed' = [hookUsed EXCEPT !.failures = @ + 1]
      /\ UNCHANGED <<store, queued, hookBatch, bytes, waiting, latest>>
      /\ arrived \subseteq arrived'
      /\ IF s.left > 1 THEN WebHooked!Retry(s) ELSE WebHooked!GiveUp(s)
  BY DEF WebHooked!Fail, WebHooked!Apply
<1>2. /\ hookUsed'.writes \in Nat
      /\ hookUsed' = [writes |-> hookUsed'.writes, flushes |-> hookUsed'.flushes,
                      failures |-> hookUsed'.failures]
  BY <1>0, <1>1 DEF HookShape
<1>3. CASE ~(s.left > 1)
  <2>1. WebHooked!Done(s) /\ dropped' = dropped \cup WebHooked!Numbers(s.batch)
    BY <1>1, <1>3 DEF WebHooked!GiveUp
  <2> QED
    BY <1>1, <1>2, <2>1, EndsHook
<1>4. CASE s.left > 1
  <2>1. PICK t : t = [s EXCEPT !.left = @ - 1]
    OBVIOUS
  <2>2. /\ IF s = held THEN held' = t /\ UNCHANGED sending
                       ELSE sending' = (sending \ {s}) \cup {t} /\ UNCHANGED held
        /\ UNCHANGED <<timer, dropped>>
    BY <1>1, <1>4, <2>1 DEF WebHooked!Retry
  <2>3. IsSend(s)
    BY <1>0 DEF HookShape, WebHooked!Sends
  <2>4. IsSend(t) /\ t.left > 0 /\ t.batch = s.batch
    BY <1>4, <2>1, <2>3 DEF IsSend
  <2>5. t # WebHooked!NoSend /\ s # WebHooked!NoSend
    BY <1>4, <2>4, EmptyBatch
  <2>6. s = held \/ s \in sending
    BY DEF WebHooked!Sends
  <2>7. IsBatch(hookBatch)' /\ BytesCounted' /\ waiting' \in Nat
    BY <1>0, <1>1 DEF HookInv, HookShape, IsBatch, BytesCounted
  <2>8. BatchTimed'
    BY <1>1, <2>2, <2>5 DEF HookInv, BatchTimed
  <2>9. IsSend(held)' /\ \A r \in sending' : IsSend(r) /\ r.left > 0
    BY <1>0, <2>2, <2>4 DEF HookShape, IsSend
  <2>10. ASSUME NEW p \in HookPaths, NEW n \in Nat, Known(p, n) PROVE Known(p, n)'
    <3>1. Holds(s.batch, p, n) <=> Holds(t.batch, p, n)
      BY <2>4 DEF Holds
    <3>2. CASE s = held
      BY <1>1, <2>2, <2>5, <2>10, <3>1, <3>2 DEF Known
    <3>3. CASE s # held
      BY <1>1, <2>2, <2>5, <2>10, <3>1, <3>3 DEF Known
    <3> QED
      BY <3>2, <3>3
  <2> QED
    BY <1>1, <1>2, <2>7, <2>8, <2>9, <2>10, HookKept
<1> QED
  BY <1>3, <1>4

LEMMA HookStep ==
    ASSUME HookInv, [WebHooked!Next]_hookVars
    PROVE  HookInv'
<1>1. ASSUME NEW w \in HookWriters, NEW p \in HookTargets(w), NEW much \in HookSizes \cup {0},
             WebHooked!Write(w, p, much)
      PROVE  HookInv'
  BY <1>1, WriteHook
<1>2. ASSUME NEW w \in HookWriters, WebHooked!QueueUpdate(w) PROVE HookInv'
  BY <1>2, QueueHook
<1>3. CASE WebHooked!Fire \/ WebHooked!EnqueueFromTimer \/ WebHooked!Flush
  BY <1>3, FireHook, TimerHook, FlushHook
<1>4. ASSUME NEW s \in WebHooked!Sends, WebHooked!Deliver(s) \/ WebHooked!Fail(s) PROVE HookInv'
  BY <1>4, DeliverHook, FailHook
<1>5. CASE UNCHANGED hookVars
  BY <1>5 DEF hookVars, HookInv, HookShape, BytesCounted, BatchTimed, LatestKnown, Known,
     StoredIsLatest, Holds, IsBatch, IsSend
<1>6. CASE WebHooked!Next
  <2>1. CASE \E w \in HookWriters : \E p \in HookTargets(w), much \in HookSizes \cup {0} :
                WebHooked!Write(w, p, much)
    BY <1>1, <2>1
  <2> QED
    BY <1>2, <1>3, <1>4, <1>6, <2>1 DEF WebHooked!Next, HookWriters, HookTargets
<1> QED
  BY <1>5, <1>6

LEMMA HookHolds ==
    ASSUME HookInv
    PROVE  WebHooked!BytesRight /\ WebHooked!PendingTimed /\ WebHooked!NothingForgotten
<1>1. WebHooked!BytesRight
  BY BytesSummed DEF HookInv, BytesCounted, WebHooked!BytesRight, SizesOf
<1>2. WebHooked!PendingTimed
  BY DEF HookInv, BatchTimed, WebHooked!PendingTimed, WebHooked!LockFree
<1>3. ASSUME NEW p, NEW n PROVE WebHooked!InBatches(p, n) \/ n \in dropped \cup arrived <=> Known(p, n)
  BY DEF Known, Holds, WebHooked!InBatches, WebHooked!Sends, WebHooked!LockFree
<1>4. WebHooked!NothingForgotten
  BY <1>3 DEF HookInv, LatestKnown, StoredIsLatest, WebHooked!NothingForgotten
<1> QED
  BY <1>1, <1>2, <1>4

\* At every step of the webhook's part.
LEMMA HookStays == Spec => [](part = "hook" => HookInv)
<1> DEFINE Hooked == part = "hook" => HookInv
<1>1. Init => Hooked
  BY HookBegins DEF Init
<1>2. Hooked /\ [Next]_vars => Hooked'
  <2> SUFFICES ASSUME Hooked, [Next]_vars, (part = "hook")' PROVE HookInv'
    OBVIOUS
  <2>1. part = "hook" /\ [WebHooked!Next]_hookVars
    BY DEF Next, vars
  <2> QED
    BY <2>1, HookStep
<1> QED
  BY <1>1, <1>2, PTL DEF Spec

-----------------------------------------------------------------------------
(* The sessions that are kept.                                             *)

KeptSessions ==
    /\ part = "served" => ManagerInv(Served)
    /\ part = "again" => ManagerInv(Again)
    /\ part = "limited" => LimitInv
    /\ part = "nested" => NestedInv

\* A step of the behaviour is one of the part that it runs.
LEMMA SessionParts ==
    ASSUME [Next]_vars
    PROVE  /\ UNCHANGED part
           /\ part = "served" => Managing(Served)!Next \/ UNCHANGED managerVars
           /\ part = "again" => Managing(Again)!Next \/ UNCHANGED managerVars
           /\ part = "limited" => Managing(Limited)!Next \/ UNCHANGED managerVars
           /\ part = "nested" => [Nested!Next]_nestedVars
<1>1. CASE UNCHANGED vars
  BY <1>1 DEF vars
<1>2. CASE Next
  <2>1. UNCHANGED part
    BY <1>2 DEF Next
  <2>2. ASSUME part = "served" PROVE Managing(Served)!Next
    BY <1>2, <2>2 DEF Next
  <2>3. ASSUME part = "again" PROVE Managing(Again)!Next
    BY <1>2, <2>3 DEF Next
  <2>4. ASSUME part = "limited" PROVE Managing(Limited)!Next
    BY <1>2, <2>4 DEF Next
  <2>5. ASSUME part = "nested" PROVE Nested!Next
    BY <1>2, <2>5 DEF Next
  <2> QED
    BY <2>1, <2>2, <2>3, <2>4, <2>5
<1> QED
  BY <1>1, <1>2

LEMMA SessionsStart == Init => KeptSessions
<1> SUFFICES ASSUME Init PROVE KeptSessions
  OBVIOUS
<1>1. /\ Nested!Init
      /\ part = "served" => Managing(Served)!Init
      /\ part = "again" => Managing(Again)!Init
      /\ part = "limited" => Managing(Limited)!Init
  BY DEF Init
<1> QED
  BY <1>1, NestedStarts, ManagerBegins, LimitBegins DEF KeptSessions

LEMMA SessionsStep == KeptSessions /\ [Next]_vars => KeptSessions'
<1> SUFFICES ASSUME KeptSessions, [Next]_vars PROVE KeptSessions'
  OBVIOUS
<1>1. UNCHANGED part
  BY SessionParts
<1>2. ASSUME part = "served" PROVE ManagerInv(Served)'
  BY <1>2, SessionParts, ManagerStep DEF KeptSessions
<1>3. ASSUME part = "again" PROVE ManagerInv(Again)'
  BY <1>3, SessionParts, ManagerStep DEF KeptSessions
<1>4. ASSUME part = "limited" PROVE LimitInv'
  BY <1>4, SessionParts, LimitStep DEF KeptSessions
<1>5. ASSUME part = "nested" PROVE NestedInv'
  BY <1>5, SessionParts, NestedStep DEF KeptSessions
<1> QED
  BY <1>1, <1>2, <1>3, <1>4, <1>5 DEF KeptSessions

\* Whatever the numbers of conversations, connections, requests and sessions are: no session
\* is lost before it is closed, a closed one keeps nothing, and requests one after another
\* keep the limit; and a conversation with a runtime of its own is started once.
THEOREM SessionsStay == Spec => []SessionsKept
<1>1. KeptSessions => SessionsKept
  <2> SUFFICES ASSUME KeptSessions PROVE SessionsKept
    OBVIOUS
  <2>1. ASSUME part = "served" PROVE Managing(Served)!OpenIsKnown /\ Managing(Served)!ClosedIsReleased
    BY <2>1, ManagerHolds DEF KeptSessions
  <2>2. ASSUME part = "again" PROVE Managing(Again)!OpenIsKnown /\ Managing(Again)!ClosedIsReleased
    BY <2>2, ManagerHolds DEF KeptSessions
  <2>3. ASSUME part = "limited" PROVE Managing(Limited)!WithinLimit
    BY <2>3, LimitHolds DEF KeptSessions
  <2>4. ASSUME part = "nested"
        PROVE  /\ Nested!OneStart /\ Nested!StartJustified
               /\ Nested!RunningIsServed /\ Nested!MarkedIsStarting
    BY <2>4, NestedHolds DEF KeptSessions
  <2> QED
    BY <2>1, <2>2, <2>3, <2>4 DEF SessionsKept
<1> QED
  BY <1>1, SessionsStart, SessionsStep, PTL DEF Spec
=============================================================================
