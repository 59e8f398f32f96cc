---------------------------- MODULE AttemptProofs ----------------------------
(***************************************************************************)
(* Proofs about SWE-agent: an attempt at an instance, the retries, and the *)
(* batch that runs them.                                                   *)
(***************************************************************************)
EXTENDS MCBatch, FiniteSetTheorems, WellFoundedInduction, TLAPS

-----------------------------------------------------------------------------
(* One attempt.                                                            *)

Sights == [step : Int, git : {"taken", "no_add", "no_diff", "unread"}]

\* While an attempt goes on, the patch file has what the last state command saw.  What an
\* attempt that has ended submits is as the last command that took the diff came out.
AgentInv ==
    /\ agentEnv \in [alive : BOOLEAN, tree : AgentVersions, patch : AgentVersions,
                     diff : AgentVersions]
    /\ ~done => agentEnv.patch = agentEnv.diff
    /\ seen \in Sights
    /\ Agent!PatchOfTheLiving

LEMMA AgentInit == Agent!Init => AgentInv
<1> SUFFICES ASSUME Agent!Init PROVE AgentInv
  OBVIOUS
<1>1. 0 \in AgentVersions
  BY InstancesAssumption DEF InstancesAssumption, Agent!SweAgentAssumption
<1>2. agentEnv = [alive |-> TRUE, tree |-> 0, patch |-> 0, diff |-> 0] /\ ~done
  BY DEF Agent!Init
<1>3. seen \in Sights
  <2>1. seen = [step |-> Agent!NoStep, git |-> "taken"]
    BY DEF Agent!Init
  <2>2. Agent!NoStep \in Int
    BY DEF Agent!NoStep
  <2> QED
    BY <2>1, <2>2 DEF Sights
<1> QED
  BY <1>1, <1>2, <1>3 DEF AgentInv, Agent!PatchOfTheLiving, Agent!Ended

\* A container whose patch file has what its last state command saw.
Boxes == {b \in [alive : BOOLEAN, tree : AgentVersions, patch : AgentVersions,
                 diff : AgentVersions] : b.patch = b.diff}

\* The outcomes of taking the diff: the tree, the old file, or nothing.
LEMMA GitComes ==
    ASSUME NEW box \in Boxes, NEW git \in Agent!Git(box.patch, box.tree)
    PROVE  /\ git.patch \in AgentVersions
           /\ \/ git.came = "taken" /\ git.patch = box.tree
              \/ git.came = "no_add" /\ git.patch = box.diff
              \/ git.came = "no_diff" /\ git.patch = 0
<1>1. 0 \in AgentVersions
  BY InstancesAssumption DEF InstancesAssumption, Agent!SweAgentAssumption
<1> QED
  BY <1>1 DEF Boxes, Agent!Git

LEMMA Autosubmitted ==
    ASSUME NEW box \in Boxes, NEW why, seen \in Sights, Agent!Autosubmit(why, box)
    PROVE  AgentInv'
<1>1. CASE box.alive
  <2>1. PICK git \in Agent!Git(box.patch, box.tree), read \in BOOLEAN :
          /\ agentEnv' = [box EXCEPT !.patch = git.patch]
          /\ seen' = [seen EXCEPT !.git = IF read THEN git.came ELSE "unread"]
          /\ info'.sub = IF read THEN git.patch ELSE 0
          /\ done'
    BY <1>1 DEF Agent!Autosubmit, Agent!FromContainer, Agent!Records, Agent!Forced, Agent!None
  <2>2. /\ agentEnv' \in [alive : BOOLEAN, tree : AgentVersions, patch : AgentVersions,
                          diff : AgentVersions]
        /\ agentEnv'.tree = box.tree /\ agentEnv'.diff = box.diff
    BY <2>1, GitComes DEF Boxes
  <2>3. seen' \in Sights /\ seen'.git = IF read THEN git.came ELSE "unread"
    BY <2>1, GitComes DEF Sights
  <2>4. info'.sub = CASE seen'.git = "taken" -> agentEnv'.tree
                      [] seen'.git = "no_add" -> agentEnv'.diff
                      [] OTHER -> 0
    BY <2>1, <2>2, <2>3, GitComes
  <2> QED
    BY <2>1, <2>2, <2>3, <2>4 DEF AgentInv, Agent!PatchOfTheLiving, Agent!Ended, Agent!None
<1>2. CASE ~box.alive
  <2>1. agentEnv' = box /\ done' /\ seen' = seen
    BY <1>2 DEF Agent!Autosubmit, Agent!FromTrajectory, Agent!Records
  <2> QED
    BY <1>2, <2>1 DEF AgentInv, Agent!PatchOfTheLiving, Agent!Ended, Boxes
<1> QED
  BY <1>1, <1>2 DEF Boxes

\* What the state command comes to in a container.
LEMMA ShownBox ==
    ASSUME NEW box \in Boxes, NEW view \in Agent!Shown(box)
    PROVE  /\ view.box \in Boxes /\ view.box.tree = box.tree /\ view.box.alive = box.alive
           /\ \/ view.came = "taken" /\ view.box.patch = box.tree
              \/ view.came = "no_add"
              \/ view.came = "no_diff" /\ view.box.patch = 0
<1>1. PICK git \in Agent!Git(box.patch, box.tree) :
        view = [came |-> git.came, box |-> [box EXCEPT !.patch = git.patch, !.diff = git.patch]]
  BY Zenon DEF Agent!Shown
<1>2. view.box \in Boxes /\ view.box.tree = box.tree /\ view.box.alive = box.alive
      /\ view.box.patch = git.patch /\ view.came = git.came
  BY <1>1, GitComes DEF Boxes
<1> QED
  BY <1>1, <1>2, GitComes

\* A step that goes on, or submits the patch that the state command left.
LEMMA Stepped ==
    ASSUME NEW box \in Boxes, NEW view \in Agent!Shown(box), NEW sub, NEW exit, NEW ends,
           Agent!Steps(view, sub, exit, ends),
           ~ends \/ exit.why = "exit_command" \/ sub = view.box.patch
    PROVE  AgentInv'
<1>1. agentEnv' = view.box /\ seen' = [step |-> view.box.diff, git |-> view.came]
      /\ info' = [sub |-> sub, exit |-> exit] /\ done' = ends
  BY DEF Agent!Steps, Agent!Records
<1>2. /\ agentEnv' \in [alive : BOOLEAN, tree : AgentVersions, patch : AgentVersions,
                        diff : AgentVersions]
      /\ agentEnv'.patch = agentEnv'.diff
      /\ seen' \in Sights /\ seen'.git = view.came
  <2>1. AgentVersions \subseteq Int
    BY InstancesAssumption DEF InstancesAssumption, Agent!SweAgentAssumption
  <2> QED
    BY <1>1, <2>1, ShownBox DEF Boxes, Sights
<1>3. done' /\ info'.exit.why # "exit_command" => info'.sub = agentEnv'.patch
  BY <1>1
<1>4. CASE view.came = "taken"
  BY <1>1, <1>2, <1>3, <1>4, ShownBox DEF AgentInv, Agent!PatchOfTheLiving, Agent!Ended
<1>5. CASE view.came = "no_add"
  BY <1>1, <1>2, <1>3, <1>5 DEF AgentInv, Agent!PatchOfTheLiving, Agent!Ended
<1>6. CASE view.came = "no_diff" /\ view.box.patch = 0
  BY <1>1, <1>2, <1>3, <1>6 DEF AgentInv, Agent!PatchOfTheLiving, Agent!Ended, Agent!None
<1> QED
  BY <1>4, <1>5, <1>6, ShownBox

LEMMA AgentStep ==
    ASSUME AgentInv, [Agent!Next]_agentVars
    PROVE  AgentInv'
<1>1. CASE UNCHANGED agentVars
  BY <1>1 DEF AgentInv, Agent!PatchOfTheLiving, Agent!Ended, agentVars
<1>2. CASE Agent!EnvDies
  BY <1>2 DEF AgentInv, Agent!PatchOfTheLiving, Agent!Ended, Agent!EnvDies
<1>3. CASE Agent!Forward
  <2>1. ~done /\ agentEnv \in Boxes /\ seen \in Sights
    BY <1>3 DEF Agent!Forward, AgentInv, Boxes
  <2>2. ASSUME NEW box \in Agent!Edited PROVE box \in Boxes
    <3>1. PICK left \in [tree : AgentVersions, alive : BOOLEAN] :
            box = [agentEnv EXCEPT !.tree = left.tree, !.alive = left.alive]
      BY Zenon, <2>2 DEF Agent!Edited
    <3> QED
      BY <2>1, <3>1 DEF Boxes
  <2>3. CASE \E why : Agent!Autosubmit(why, agentEnv)
    BY <2>1, <2>3, Autosubmitted
  <2>4. ASSUME NEW box \in Agent!Edited, NEW why, Agent!Autosubmit(why, box)
        PROVE  AgentInv'
    BY <2>1, <2>2, <2>4, Autosubmitted
  <2>5. CASE Agent!Fault /\ ~(\E why : Agent!Autosubmit(why, agentEnv))
    BY <2>1, <2>5 DEF Agent!Fault, AgentInv, Boxes, Agent!PatchOfTheLiving, Agent!Ended
  <2>6. CASE Agent!Exits
    <3>1. PICK view \in Agent!Shown(agentEnv) :
            Agent!Steps(view, Agent!None, Agent!Status("exit_command", FALSE), TRUE)
      BY <2>6 DEF Agent!Exits
    <3>2. Agent!Status("exit_command", FALSE).why = "exit_command"
      BY DEF Agent!Status
    <3> QED
      BY <2>1, <3>1, <3>2, Stepped
  <2>7. ASSUME NEW box \in Agent!Edited, NEW view \in Agent!Shown(box), Agent!Retries(view)
        PROVE  AgentInv'
    <3>1. agentEnv' = view.box /\ done' = done
          /\ seen' \in {[step |-> view.box.diff, git |-> view.came], [seen EXCEPT !.git = view.came]}
      BY <2>7 DEF Agent!Retries
    <3>2. view.box \in Boxes /\ view.came \in {"taken", "no_add", "no_diff"}
      BY <2>2, <2>7, ShownBox
    <3>3. AgentVersions \subseteq Int
      BY InstancesAssumption DEF InstancesAssumption, Agent!SweAgentAssumption
    <3>4. seen' \in Sights
      BY <2>1, <3>1, <3>2, <3>3 DEF Boxes, Sights
    <3> QED
      BY <2>1, <3>1, <3>2, <3>4 DEF AgentInv, Boxes, Agent!PatchOfTheLiving, Agent!Ended
  <2>8. CASE Agent!Completes
    <3>1. PICK box \in Agent!Edited :
            \/ \E view \in Agent!Shown(box) :
                 \/ Agent!Steps(view, Agent!None, Agent!Status("", FALSE), FALSE)
                 \/ Agent!Steps(view, view.box.patch, Agent!Status("", TRUE), TRUE)
                 \/ Agent!Retries(view)
                 \/ \E why : Agent!Autosubmit(why, view.box)
            \/ Agent!Autosubmit("exit_environment_error", box)
      BY Zenon, <2>8 DEF Agent!Completes
    <3>2. ASSUME NEW view \in Agent!Shown(box), NEW why, Agent!Autosubmit(why, view.box)
          PROVE  AgentInv'
      BY <2>1, <2>2, <3>2, ShownBox, Autosubmitted
    <3> QED
      BY <2>2, <2>4, <2>7, <3>1, <3>2, Stepped
  <2>9. CASE Agent!TimesOut
    <3>1. PICK box \in Agent!Edited :
            \/ \E why : Agent!Autosubmit(why, box)
            \/ \E view \in Agent!Shown(box) :
                 Agent!Steps(view, Agent!None, Agent!Status("", FALSE), FALSE)
      BY Zenon, <2>9 DEF Agent!TimesOut
    <3> QED
      BY <2>2, <2>4, <3>1, Stepped
  <2> QED
    BY <1>3, <2>3, <2>5, <2>6, <2>8, <2>9 DEF Agent!Forward, Agent!Stops, Agent!Broken
<1> QED
  BY <1>1, <1>2, <1>3 DEF Agent!Next

-----------------------------------------------------------------------------
(* Least and greatest elements.                                            *)

LEMMA LeastOf ==
    ASSUME NEW S \in SUBSET Nat, S # {}
    PROVE  \E m \in S : \A n \in S : m <= n
<1>1. PICK less : less = OpToRel(<, Nat)
  OBVIOUS
<1>2. PICK m \in S : \A n \in S : <<n, m>> \notin less
  BY <1>1, NatLessThanWellFounded, WFMin
<1>3. less = {ss \in Nat \X Nat : ss[1] < ss[2]}
  BY <1>1 DEF OpToRel
<1>4. ASSUME NEW n \in S PROVE m <= n
  <2>1. m \in Nat /\ n \in Nat /\ <<n, m>> \notin less
    BY <1>2
  <2>2. ~(n < m)
    BY <1>3, <2>1
  <2> QED
    BY <2>1, <2>2
<1> QED
  BY <1>4

LEMMA Inductive ==
    ASSUME NEW S \in SUBSET Nat, 0 \in S, \A n \in S : n + 1 \in S
    PROVE  S = Nat
<1>1. SUFFICES ASSUME Nat \ S # {} PROVE FALSE
  OBVIOUS
<1>2. PICK m \in Nat \ S : \A n \in Nat \ S : m <= n
  BY <1>1, LeastOf
<1>3. m # 0 /\ m - 1 \in Nat
  OBVIOUS
<1>4. m - 1 \in S
  BY <1>2, <1>3
<1> QED
  BY <1>3, <1>4

LEMMA GreatestOf ==
    ASSUME NEW n \in Nat, n > 0, NEW f, \A i \in 1..n : f[i] \in Int
    PROVE  \E i \in 1..n : \A j \in 1..n : f[j] <= f[i]
<1>1. PICK S : S = {k \in Nat : k \in 1..n => \E i \in 1..k : \A j \in 1..k : f[j] <= f[i]}
  OBVIOUS
<1>2. ASSUME NEW k \in S PROVE k + 1 \in S
  <2>1. SUFFICES ASSUME k + 1 \in 1..n
                 PROVE  \E i \in 1..(k + 1) : \A j \in 1..(k + 1) : f[j] <= f[i]
    BY <1>1
  <2>2. CASE k = 0
    <3>1. 1 \in 1..(k + 1) /\ \A j \in 1..(k + 1) : j = 1
      BY <2>2
    <3>2. f[1] \in Int
      OBVIOUS
    <3> QED
      BY <3>1, <3>2
  <2>3. CASE k # 0
    <3>1. k \in Nat /\ k \in 1..n
      BY <1>1, <2>1, <2>3
    <3>2. PICK i \in 1..k : \A j \in 1..k : f[j] <= f[i]
      BY <1>1, <3>1
    <3>3. f[i] \in Int /\ f[k + 1] \in Int /\ \A j \in 1..k : f[j] \in Int
      BY <2>1, <3>1
    <3>4. i \in 1..(k + 1) /\ k + 1 \in 1..(k + 1) /\ \A j \in 1..(k + 1) : j \in 1..k \/ j = k + 1
      BY <3>1
    <3>5. CASE f[k + 1] <= f[i]
      BY <3>2, <3>4, <3>5
    <3>6. CASE f[i] <= f[k + 1]
      <4>1. \A j \in 1..(k + 1) : f[j] <= f[k + 1]
        BY <3>2, <3>3, <3>4, <3>6
      <4> QED
        BY <3>4, <4>1
    <3> QED
      BY <3>3, <3>5, <3>6
  <2> QED
    BY <2>2, <2>3
<1>3. S \in SUBSET Nat /\ 0 \in S
  BY <1>1
<1>4. S = Nat
  BY <1>2, <1>3, Inductive
<1>5. n \in S /\ n \in 1..n
  BY <1>4
<1> QED
  BY <1>1, <1>5

LEMMA GreatestIn ==
    ASSUME NEW S, S \subseteq Nat, NEW n \in Nat, n > 0, NEW f \in [1..n -> S],
           \A s \in S : \E i \in 1..n : f[i] = s
    PROVE  \E m \in S : \A s \in S : s <= m
<1>1. ASSUME NEW i \in 1..n PROVE f[i] \in Int
  <2>1. f[i] \in S
    OBVIOUS
  <2>2. \A s \in S : s \in Int
    OBVIOUS
  <2> QED
    BY <2>1, <2>2
<1>2. PICK i \in 1..n : \A j \in 1..n : f[j] <= f[i]
  BY <1>1, GreatestOf
<1> QED
  BY <1>2

LEMMA Enumerated ==
    ASSUME NEW S, IsFiniteSet(S), S # {}
    PROVE  \E n, f : /\ n \in Nat /\ n > 0 /\ f \in [1..n -> S]
                     /\ \A s \in S : \E i \in 1..n : f[i] = s
<1>1. PICK n : n = Cardinality(S)
  OBVIOUS
<1>2. n \in Nat /\ \E f : f \in [1..n -> S] /\ \A s \in S : \E i \in 1..n : f[i] = s
  BY <1>1, FS_CardinalityType DEF ExistsBijection, Bijection, Injection, Surjection
<1>3. n > 0
  BY <1>1, <1>2, FS_EmptySet
<1> QED
  BY Zenon, <1>2, <1>3

-----------------------------------------------------------------------------
(* The retries.                                                            *)

Exited == {"", "submitted", "exit_cost", "exit_error"}
Tries == [limit : Int, cost : Nat, calls : Nat, work : BOOLEAN, patch : BOOLEAN,
          exit : Exited, failed : BOOLEAN]
RatedTries == [limit : Int, cost : Nat, calls : Nat, work : BOOLEAN, patch : BOOLEAN,
               exit : Exited, failed : BOOLEAN, score : Int]

RetryShape ==
    /\ retryPc \in {"attempt", "submitted", "saving", "returning", "over"}
    /\ cur \in Tries /\ attempts \in Seq(RatedTries)
    /\ spent \in Nat /\ reviews \in Nat

LeastLeft(choose) == IF choose THEN ChoosingBudget ELSE ScoringBudget

\* What the attempt at work may still cost is in the budget when something was left of it;
\* the attempt ends after the query that goes over its limit.
InBudget(choose, most, dearest) ==
    /\ retryPc \in {"attempt", "submitted"} =>
        /\ spent + reviews <= most
        /\ LeastLeft(choose) > 0 => spent + reviews < most
    /\ retryPc = "attempt" /\ spent + reviews < most =>
        0 < cur.limit /\ cur.cost <= cur.limit /\ spent + reviews + cur.limit <= most
    /\ retryPc = "submitted" /\ spent + reviews < most =>
        spent + reviews + cur.cost <= most + dearest

Highest(i) == i \in DOMAIN attempts /\ \A j \in DOMAIN attempts : attempts[j].score <= attempts[i].score

Submissions == {i \in DOMAIN attempts : attempts[i].exit = "submitted"}

ChosenWell ==
    /\ retryPc \in {"attempt", "submitted", "saving"} => chosen = 0
    /\ chosen # 0 /\ Cardinality(Submissions) >= 2 => chosen \in Submissions

RetryInv(choose, most, dearest) ==
    /\ RetryShape
    /\ most > 0 /\ AttemptLimit > 0 => InBudget(choose, most, dearest)
    /\ ~choose /\ retryPc = "over" => Highest(returned)
    /\ ChosenWell

LEMMA SetUp ==
    ASSUME NEW left \in Int, NEW most \in Nat
    PROVE  \E limit \in Int :
             /\ limit = IF left < most THEN left ELSE most
             /\ limit <= left /\ (left > 0 /\ most > 0 => limit > 0)
OBVIOUS

LEMMA Fresh ==
    ASSUME NEW limit \in Int, NEW try,
           try = [limit |-> limit, cost |-> 0, calls |-> 0,
                  work |-> FALSE, patch |-> FALSE, exit |-> "", failed |-> FALSE]
    PROVE  try \in Tries /\ try.cost = 0 /\ try.limit = limit
BY DEF Tries, Exited

LEMMA RetryInit ==
    ASSUME NEW choose \in BOOLEAN, NEW most \in Nat, NEW costs, NEW dearest,
           AttemptLimit \in Nat, Retrying(choose, most, costs)!Init
    PROVE  RetryInv(choose, most, dearest)
<1>1. /\ retryPc = "attempt" /\ cur = Retrying(choose, most, costs)!Setup(most)
      /\ attempts = <<>> /\ spent = 0 /\ reviews = 0 /\ chosen = 0
  BY DEF Retrying!Init, Retrying!NoIndex
<1>2. /\ cur \in Tries /\ cur.cost = 0 /\ cur.limit <= most
      /\ most > 0 /\ AttemptLimit > 0 => cur.limit > 0
  <2>1. PICK limit \in Int :
          /\ limit = IF most < AttemptLimit THEN most ELSE AttemptLimit
          /\ limit <= most /\ (most > 0 /\ AttemptLimit > 0 => limit > 0)
    BY SetUp
  <2>2. cur = [limit |-> limit, cost |-> 0, calls |-> 0, work |-> FALSE, patch |-> FALSE,
               exit |-> "", failed |-> FALSE]
    BY <1>1, <2>1 DEF Retrying!Setup
  <2>3. cur \in Tries /\ cur.cost = 0 /\ cur.limit = limit
    BY <2>2, Fresh
  <2> QED
    BY <2>1, <2>3
<1>3. RetryShape
  BY <1>1, <1>2 DEF RetryShape
<1>4. most > 0 /\ AttemptLimit > 0 => InBudget(choose, most, dearest)
  <2>1. cur.limit \in Int
    BY <1>2 DEF Tries
  <2> QED
    BY <1>1, <1>2, <2>1 DEF InBudget
<1> QED
  BY <1>1, <1>3, <1>4 DEF RetryInv, ChosenWell

\* A query costs what it does, and an attempt goes on while it is in its limit.
LEMMA StepGoes ==
    ASSUME NEW choose, NEW most, NEW costs, costs \subseteq Nat, RetryShape,
           Retrying(choose, most, costs)!Step
    PROVE  /\ retryPc = "attempt" /\ retryPc' \in {"attempt", "submitted"}
           /\ UNCHANGED <<attempts, spent, reviews, chosen, saved, returned>>
           /\ cur' \in Tries
           /\ \E c \in costs \cup {0} :
                /\ cur'.limit = cur.limit /\ cur'.cost = cur.cost + c
                /\ retryPc' = "attempt" => ~(0 < cur.limit /\ cur.limit < cur.cost + c)
<1>1. retryPc = "attempt" /\ UNCHANGED <<attempts, spent, reviews, chosen, saved, returned>>
  BY Zenon DEF Retrying!Step
<1>2. CASE Retrying(choose, most, costs)!Extracts
  <2>1. cur' \in Tries /\ cur'.limit = cur.limit /\ cur'.cost = cur.cost
    BY <1>2 DEF Retrying!Extracts, RetryShape, Tries
  <2>2. retryPc' = "submitted" /\ cur.cost + 0 = cur.cost
    BY <1>2 DEF Retrying!Extracts, RetryShape, Tries
  <2> QED
    BY <1>1, <2>1, <2>2
<1>3. CASE ~Retrying(choose, most, costs)!Extracts
  <2>1. PICK c, w, a :
          /\ c \in costs /\ w \in BOOLEAN
          /\ a = [cur EXCEPT !.cost = @ + c, !.calls = @ + 1, !.work = w]
          /\ \/ ~(0 < a.limit /\ a.limit < a.cost) /\ cur' = a /\ retryPc' = "attempt"
             \/ /\ \E e \in Exited : cur' = [a EXCEPT !.patch = w, !.exit = e]
                /\ retryPc' = "submitted"
    <3>1. PICK c \in costs, w \in BOOLEAN :
            LET a == [cur EXCEPT !.cost = @ + c, !.calls = @ + 1, !.work = w]
            IN  \/ ~(0 < a.limit /\ a.limit < a.cost) /\ cur' = a /\ retryPc' = "attempt"
                \/ /\ \E e \in Exited : cur' = [a EXCEPT !.patch = w, !.exit = e]
                   /\ retryPc' = "submitted"
      BY Zenon, <1>3 DEF Retrying!Step, Exited
    <3> QED
      BY Zenon, <3>1
  <2>2. cur \in Tries /\ c \in Nat /\ w \in BOOLEAN
    BY <2>1 DEF RetryShape
  <2>3. a \in Tries /\ a.limit = cur.limit /\ a.cost = cur.cost + c
    <3>1. a = [cur EXCEPT !.cost = @ + c, !.calls = @ + 1, !.work = w]
      BY <2>1
    <3>2. cur.cost \in Nat /\ cur.calls \in Nat
      BY <2>2 DEF Tries
    <3>3. cur.cost + c \in Nat /\ cur.calls + 1 \in Nat
      BY <2>2, <3>2
    <3>4. a.limit = cur.limit /\ a.cost = cur.cost + c
      BY <2>2, <3>1 DEF Tries
    <3>5. a \in Tries
      BY <2>2, <3>1, <3>3 DEF Tries
    <3> QED
      BY <3>4, <3>5
  <2>4. cur' \in Tries /\ cur'.limit = a.limit /\ cur'.cost = a.cost
    <3>1. CASE cur' = a
      BY <2>3, <3>1
    <3>2. CASE \E e \in Exited : cur' = [a EXCEPT !.patch = w, !.exit = e]
      BY <2>2, <2>3, <3>2 DEF Tries
    <3> QED
      BY <2>1, <3>1, <3>2
  <2>5. retryPc' \in {"attempt", "submitted"}
    BY <2>1
  <2>6. retryPc' = "attempt" => ~(0 < a.limit /\ a.limit < a.cost)
    BY <2>1
  <2> QED
    BY <1>1, <2>1, <2>3, <2>4, <2>5, <2>6
<1> QED
  BY <1>2, <1>3

\* What the reviewer and the retry loop assume of their settings.
RetryNumbers ==
    /\ AttemptLimit \in Nat /\ Penalty \in Nat
    /\ ScoringBudget \in Nat /\ ChoosingBudget \in Nat
    /\ AcceptScore \in Int /\ Scores \subseteq Int

LEMMA RetrySettings ==
    RetryNumbers
BY InstancesAssumption DEF InstancesAssumption, Retrying!SweRetryAssumption, RetryNumbers

LEMMA RatedTry ==
    ASSUME NEW score \in Int, NEW try \in Tries, NEW r,
           r = [x \in DOMAIN try \cup {"score"} |-> IF x = "score" THEN score ELSE try[x]]
    PROVE  r \in RatedTries
<1>1. DOMAIN try = {"limit", "cost", "calls", "work", "patch", "exit", "failed"}
  BY DEF Tries
<1>2. /\ try.limit \in Int /\ try.cost \in Nat /\ try.calls \in Nat /\ try.exit \in Exited
      /\ {try.work, try.patch, try.failed} \subseteq BOOLEAN
  BY DEF Tries
<1>3. r = [limit |-> try.limit, cost |-> try.cost, calls |-> try.calls, work |-> try.work,
           patch |-> try.patch, exit |-> try.exit, failed |-> try.failed, score |-> score]
  BY <1>1
<1> QED
  BY <1>2, <1>3 DEF RatedTries

LEMMA SubmitGoes ==
    ASSUME NEW choose \in BOOLEAN, NEW most \in Nat, NEW costs, costs \subseteq Nat, RetryShape,
           Retrying(choose, most, costs)!Submit
    PROVE  \E r \in RatedTries, c \in Nat, total \in Nat :
             /\ retryPc = "submitted" /\ UNCHANGED <<chosen, saved, returned>>
             /\ attempts' = Append(attempts, r)
             /\ spent' = spent + cur.cost /\ reviews' = reviews + c
             /\ total = spent' + reviews'
             /\ \/ retryPc' = "saving" /\ cur' = cur
                \/ /\ retryPc' = "attempt"
                   /\ cur' = Retrying(choose, most, costs)!Setup(most - total)
                   /\ most > 0 => total <= most
                   /\ LeastLeft(choose) > 0 => total < most
<1>1. PICK raw, c, total, r :
        /\ raw \in Scores \cup {-100} /\ c \in Nat
        /\ r = Retrying(choose, most, costs)!Rated(Retrying(choose, most, costs)!Reviewed(raw))
        /\ total = spent + reviews + cur.cost + c
        /\ attempts' = Append(attempts, r)
        /\ spent' = spent + cur.cost /\ reviews' = reviews + c
        /\ \/ retryPc' = "saving" /\ cur' = cur
           \/ /\ retryPc' = "attempt"
              /\ cur' = Retrying(choose, most, costs)!Setup(most - total)
              /\ Retrying(choose, most, costs)!Retry(attempts', total)
  BY ZenonT(40) DEF Retrying!Submit, Retrying!Total, Retrying!NoScore, Retrying!Ratings
<1>2. Retrying(choose, most, costs)!Reviewed(raw) \in Int
  BY <1>1, RetrySettings DEF RetryNumbers, Retrying!Reviewed
<1>3. r \in RatedTries
  BY <1>1, <1>2, RatedTry DEF RetryShape, Retrying!Rated
<1>4. cur.cost \in Nat /\ spent \in Nat /\ reviews \in Nat
  BY DEF RetryShape, Tries
<1>5. total \in Nat /\ total = spent' + reviews'
  BY <1>1, <1>4
<1>6. retryPc = "submitted" /\ UNCHANGED <<chosen, saved, returned>>
  BY DEF Retrying!Submit
<1>7. Retrying(choose, most, costs)!Retry(attempts', total)
        => (most > 0 => total <= most) /\ (LeastLeft(choose) > 0 => total < most)
  BY <1>5, RetrySettings DEF RetryNumbers, LeastLeft, Retrying!Retry
<1> QED
  BY <1>1, <1>3, <1>5, <1>6, <1>7

LEMMA ScoredIsHighest ==
    ASSUME NEW choose, NEW most, NEW costs, RetryShape, attempts # <<>>
    PROVE  Highest(Retrying(choose, most, costs)!Scored(attempts))
<1>1. PICK n : n = Len(attempts)
  OBVIOUS
<1>2. n \in Nat /\ n > 0 /\ DOMAIN attempts = 1..n
  BY <1>1 DEF RetryShape
<1>3. \A i \in 1..n : attempts[i].score \in Int /\ attempts[i].calls \in Nat
  <2> TAKE i \in 1..n
  <2>1. attempts[i] \in RatedTries
    BY <1>1 DEF RetryShape
  <2> QED
    BY <2>1 DEF RatedTries
<1>4. PICK score : score = [i \in 1..n |-> attempts[i].score]
  OBVIOUS
<1>5. PICK queries : queries = [i \in 1..n |-> Retrying(choose, most, costs)!Queries(attempts[i])]
  OBVIOUS
<1>6. PICK top : top = {i \in 1..n : \A j \in 1..n : score[j] <= score[i]}
  OBVIOUS
<1>7. top # {} /\ top \subseteq 1..n
  <2>1. \A i \in 1..n : score[i] \in Int
    BY <1>3, <1>4
  <2> QED
    BY <1>2, <1>6, <2>1, GreatestOf
<1>8. PICK best : best = {i \in top : \A j \in top : queries[i] <= queries[j]}
  OBVIOUS
<1>9. best # {}
  <2>1. PICK S : S = {queries[i] : i \in top}
    OBVIOUS
  <2>2. \A i \in top : queries[i] \in Nat
    <3>1. \A i \in 1..n : Retrying(choose, most, costs)!Queries(attempts[i]) \in Nat
      BY <1>3 DEF Retrying!Queries
    <3> QED
      BY <1>5, <1>7, <3>1
  <2>3. S \in SUBSET Nat /\ S # {}
    BY <1>7, <2>1, <2>2
  <2>4. PICK m \in S : \A k \in S : m <= k
    BY <2>3, LeastOf
  <2>5. PICK i \in top : queries[i] = m
    BY <2>1
  <2>6. \A j \in top : queries[i] <= queries[j]
    BY <2>1, <2>4, <2>5
  <2> QED
    BY <1>8, <2>6
<1>10. \E i \in best : \A j \in best : i <= j
  <2>1. best \in SUBSET Nat
    <3>1. best \subseteq top
      BY <1>8
    <3>2. \A i \in 1..n : i \in Nat
      OBVIOUS
    <3> QED
      BY <1>7, <3>1, <3>2
  <2> QED
    BY <1>9, <2>1, LeastOf
<1>11. Retrying(choose, most, costs)!Scored(attempts) = CHOOSE i \in best : \A j \in best : i <= j
  <2>1. top = {i \in DOMAIN attempts : \A j \in DOMAIN attempts : attempts[j].score <= attempts[i].score}
    BY <1>2, <1>4, <1>6
  <2>2. best = {i \in top : \A j \in top :
                  Retrying(choose, most, costs)!Queries(attempts[i])
                    <= Retrying(choose, most, costs)!Queries(attempts[j])}
    BY <1>5, <1>7, <1>8
  <2> QED
    BY <2>1, <2>2 DEF Retrying!Scored, Retrying!Min
<1>12. Retrying(choose, most, costs)!Scored(attempts) \in best
  BY <1>10, <1>11
<1> QED
  BY <1>2, <1>4, <1>6, <1>8, <1>12 DEF Highest

LEMMA BudgetStep ==
    ASSUME NEW choose \in BOOLEAN, NEW most \in Nat, NEW costs, costs \subseteq Nat,
           NEW dearest \in Nat, \A c \in costs : c <= dearest,
           RetryShape, AttemptLimit > 0, most > 0, InBudget(choose, most, dearest),
           Retrying(choose, most, costs)!Step \/ Retrying(choose, most, costs)!Submit
    PROVE  InBudget(choose, most, dearest)'
<1>1. cur.cost \in Nat /\ cur.limit \in Int /\ spent \in Nat /\ reviews \in Nat
  BY DEF RetryShape, Tries
<1>2. CASE Retrying(choose, most, costs)!Step
  <2>1. PICK c \in costs \cup {0} :
          /\ cur'.limit = cur.limit /\ cur'.cost = cur.cost + c
          /\ retryPc' = "attempt" => ~(0 < cur.limit /\ cur.limit < cur.cost + c)
    BY <1>2, StepGoes
  <2>2. retryPc = "attempt" /\ UNCHANGED <<spent, reviews>>
    BY <1>2, StepGoes
  <2>3. c \in Nat /\ c <= dearest
    OBVIOUS
  <2>4. spent + reviews < most
          => 0 < cur.limit /\ cur.cost <= cur.limit /\ spent + reviews + cur.limit <= most
    BY <2>2 DEF InBudget
  <2>5. spent + reviews < most => spent + reviews + (cur.cost + c) <= most + dearest
    BY <1>1, <2>3, <2>4
  <2>6. spent + reviews < most /\ retryPc' = "attempt" => cur.cost + c <= cur.limit
    BY <1>1, <2>1, <2>3, <2>4
  <2> QED
    BY <2>1, <2>2, <2>4, <2>5, <2>6 DEF InBudget
<1>3. CASE Retrying(choose, most, costs)!Submit
  <2>1. PICK r \in RatedTries, c \in Nat, total \in Nat :
          /\ total = spent' + reviews'
          /\ \/ retryPc' = "saving" /\ cur' = cur
             \/ /\ retryPc' = "attempt"
                /\ cur' = Retrying(choose, most, costs)!Setup(most - total)
                /\ most > 0 => total <= most
                /\ LeastLeft(choose) > 0 => total < most
    BY <1>3, SubmitGoes
  <2>2. CASE retryPc' = "saving"
    BY <2>2 DEF InBudget
  <2>3. CASE retryPc' = "attempt"
    <3>1. PICK left \in Int : left = most - total
      OBVIOUS
    <3>2. PICK limit \in Int :
            /\ limit = IF left < AttemptLimit THEN left ELSE AttemptLimit
            /\ limit <= left /\ (left > 0 => limit > 0)
      BY <3>1, SetUp, RetrySettings DEF RetryNumbers
    <3>3. cur' = [limit |-> limit, cost |-> 0, calls |-> 0, work |-> FALSE, patch |-> FALSE,
                  exit |-> "", failed |-> FALSE]
      BY <2>1, <2>3, <3>1, <3>2 DEF Retrying!Setup
    <3>4. cur'.cost = 0 /\ cur'.limit = limit
      BY <3>3
    <3>5. total + limit <= most /\ (total < most => limit > 0)
      BY <3>1, <3>2
    <3> QED
      BY <2>1, <2>3, <3>2, <3>4, <3>5 DEF InBudget
  <2> QED
    BY <2>1, <2>2, <2>3
<1> QED
  BY <1>2, <1>3

\* Whatever the preselection and the chooser answer.
LEMMA GetsBest ==
    ASSUME NEW choose \in BOOLEAN, NEW most, NEW costs, RetryShape,
           NEW best \in DOMAIN attempts, NEW cache,
           Retrying(choose, most, costs)!GetBest(best, cache)
    PROVE  /\ cache # 0 /\ cache # chosen /\ Cardinality(Submissions) >= 2 => cache \in Submissions
           /\ ~choose => Highest(best)
<1>1. CASE ~choose
  <2>1. best = Retrying(choose, most, costs)!Scored(attempts) /\ cache = chosen
    BY <1>1 DEF Retrying!GetBest
  <2>2. attempts # <<>>
    BY DEF RetryShape
  <2> QED
    BY <2>1, <2>2, ScoredIsHighest
<1>2. CASE choose /\ cache # 0 /\ cache # chosen /\ Cardinality(Submissions) >= 2
  <2>1. PICK S \in Retrying(choose, most, costs)!Preselections(Retrying(choose, most, costs)!Candidates) :
          best \in S /\ cache = best
    BY <1>2 DEF Retrying!GetBest, Retrying!NoIndex
  <2>2. S \subseteq Retrying(choose, most, costs)!Candidates
    BY <2>1 DEF Retrying!Preselections
  <2>3. Retrying(choose, most, costs)!Candidates = Submissions
    BY <1>2 DEF Retrying!Candidates, Submissions, Retrying!Cardinality, Cardinality
  <2>4. cache \in Submissions
    BY <2>1, <2>2, <2>3
  <2> QED
    BY <1>2, <2>4
<1> QED
  BY <1>1, <1>2

LEMMA ShapeStep ==
    ASSUME NEW choose \in BOOLEAN, NEW most \in Nat, NEW costs, costs \subseteq Nat, RetryShape,
           Retrying(choose, most, costs)!Next
    PROVE  RetryShape'
<1>1. CASE Retrying(choose, most, costs)!Step
  BY <1>1, StepGoes DEF RetryShape
<1>2. CASE Retrying(choose, most, costs)!Submit
  <2>1. PICK r \in RatedTries, c \in Nat, total \in Nat :
          /\ attempts' = Append(attempts, r)
          /\ spent' = spent + cur.cost /\ reviews' = reviews + c
          /\ \/ retryPc' = "saving" /\ cur' = cur
             \/ /\ retryPc' = "attempt"
                /\ cur' = Retrying(choose, most, costs)!Setup(most - total)
    BY <1>2, SubmitGoes
  <2>2. attempts' \in Seq(RatedTries)
    BY <2>1 DEF RetryShape
  <2>3. spent' \in Nat /\ reviews' \in Nat
    BY <2>1 DEF RetryShape, Tries
  <2>4. cur' \in Tries
    <3>1. CASE cur' = cur
      BY <3>1 DEF RetryShape
    <3>2. CASE cur' = Retrying(choose, most, costs)!Setup(most - total)
      <4>1. PICK left \in Int : left = most - total
        OBVIOUS
      <4>2. PICK limit \in Int : limit = IF left < AttemptLimit THEN left ELSE AttemptLimit
        BY SetUp, RetrySettings DEF RetryNumbers
      <4>3. cur' = [limit |-> limit, cost |-> 0, calls |-> 0, work |-> FALSE, patch |-> FALSE,
                    exit |-> "", failed |-> FALSE]
        BY <3>2, <4>1, <4>2 DEF Retrying!Setup
      <4> QED
        BY <4>3 DEF Tries, Exited
    <3> QED
      BY <2>1, <3>1, <3>2
  <2> QED
    BY <2>1, <2>2, <2>3, <2>4 DEF RetryShape
<1>3. CASE Retrying(choose, most, costs)!Save
  BY <1>3 DEF RetryShape, Retrying!Save
<1>4. CASE Retrying(choose, most, costs)!Return
  BY <1>4 DEF RetryShape, Retrying!Return
<1> QED
  BY <1>1, <1>2, <1>3, <1>4 DEF Retrying!Next

LEMMA RetryStep ==
    ASSUME NEW choose \in BOOLEAN, NEW most \in Nat, NEW costs, costs \subseteq Nat,
           NEW dearest \in Nat, \A c \in costs : c <= dearest,
           RetryInv(choose, most, dearest), [Retrying(choose, most, costs)!Next]_retryVars
    PROVE  RetryInv(choose, most, dearest)'
<1>1. RetryShape /\ ChosenWell
  BY DEF RetryInv
<1>2. CASE UNCHANGED retryVars
  BY <1>2 DEF RetryInv, RetryShape, InBudget, Highest, ChosenWell, Submissions, retryVars
<1>3. CASE Retrying(choose, most, costs)!Step
  <2>1. retryPc = "attempt" /\ retryPc' \in {"attempt", "submitted"} /\ chosen' = chosen
    BY <1>1, <1>3, StepGoes
  <2>2. ChosenWell'
    BY <1>1, <2>1 DEF ChosenWell
  <2>3. RetryShape'
    BY <1>1, <1>3, ShapeStep DEF Retrying!Next
  <2>4. most > 0 /\ AttemptLimit > 0 => InBudget(choose, most, dearest)'
    BY <1>1, <1>3, BudgetStep DEF RetryInv
  <2> QED
    BY <2>1, <2>2, <2>3, <2>4 DEF RetryInv
<1>4. CASE Retrying(choose, most, costs)!Submit
  <2>1. retryPc = "submitted" /\ retryPc' \in {"attempt", "saving"} /\ chosen' = chosen
    BY <1>1, <1>4, SubmitGoes
  <2>2. ChosenWell'
    BY <1>1, <2>1 DEF ChosenWell
  <2>3. RetryShape'
    BY <1>1, <1>4, ShapeStep DEF Retrying!Next
  <2>4. most > 0 /\ AttemptLimit > 0 => InBudget(choose, most, dearest)'
    BY <1>1, <1>4, BudgetStep DEF RetryInv
  <2> QED
    BY <2>1, <2>2, <2>3, <2>4 DEF RetryInv
<1>5. CASE Retrying(choose, most, costs)!Save \/ Retrying(choose, most, costs)!Return
  <2>1. /\ retryPc \in {"saving", "returning"} /\ retryPc' \in {"returning", "over"}
        /\ UNCHANGED attempts
        /\ \E i \in DOMAIN attempts :
             /\ Retrying(choose, most, costs)!GetBest(i, chosen')
             /\ retryPc' = "over" => returned' = i
    BY <1>5 DEF Retrying!Save, Retrying!Return
  <2>2. PICK i \in DOMAIN attempts :
          /\ Retrying(choose, most, costs)!GetBest(i, chosen')
          /\ retryPc' = "over" => returned' = i
    BY <2>1
  <2>3. /\ chosen' # 0 /\ chosen' # chosen /\ Cardinality(Submissions) >= 2
            => chosen' \in Submissions
        /\ ~choose => Highest(i)
    BY <1>1, <2>2, GetsBest
  <2>4. Submissions' = Submissions
    BY <2>1 DEF Submissions
  <2>5. ChosenWell'
    BY <1>1, <2>1, <2>3, <2>4 DEF ChosenWell
  <2>6. ~choose /\ retryPc' = "over" => Highest(returned)'
    BY <2>1, <2>2, <2>3 DEF Highest
  <2>7. RetryShape'
    BY <1>1, <1>5, ShapeStep DEF Retrying!Next
  <2> QED
    BY <2>1, <2>5, <2>6, <2>7 DEF RetryInv, InBudget
<1> QED
  BY <1>2, <1>3, <1>4, <1>5 DEF Retrying!Next

LEMMA DearestOf ==
    ASSUME NEW costs, costs \subseteq Nat, IsFiniteSet(costs), costs # {}
    PROVE  \E dearest \in Nat :
             /\ dearest = CHOOSE x \in costs : \A y \in costs : x >= y
             /\ \A c \in costs : c <= dearest
<1>1. PICK n, f : /\ n \in Nat /\ n > 0 /\ f \in [1..n -> costs]
                  /\ \A s \in costs : \E i \in 1..n : f[i] = s
  BY Enumerated
<1>2. \E m \in costs : \A s \in costs : s <= m
  BY <1>1, GreatestIn
<1>3. \E m \in costs : \A s \in costs : m >= s
  BY <1>2
<1>4. PICK dearest : dearest = CHOOSE x \in costs : \A y \in costs : x >= y
  OBVIOUS
<1>5. dearest \in costs /\ \A s \in costs : dearest >= s
  BY <1>3, <1>4
<1>6. dearest \in Nat /\ \A c \in costs : c <= dearest
  BY <1>5
<1> QED
  BY <1>4, <1>6

LEMMA RetryKeeps ==
    ASSUME NEW choose \in BOOLEAN, NEW most \in Nat, NEW costs, NEW dearest \in Nat,
           dearest = CHOOSE x \in costs : \A y \in costs : x >= y,
           RetryInv(choose, most, dearest)
    PROVE  /\ Retrying(choose, most, costs)!BudgetKept
           /\ ~choose => Retrying(choose, most, costs)!AcceptedIsReturned
           /\ Retrying(choose, most, costs)!ChoiceIsSubmitted
<1>1. Retrying(choose, most, costs)!Max(costs) = dearest
  BY DEF Retrying!Max
<1>2. ASSUME most > 0, AttemptLimit > 0, retryPc \in {"attempt", "submitted"}
      PROVE  /\ spent + reviews <= most
             /\ LeastLeft(choose) > 0 => spent + reviews < most
             /\ spent + reviews < most => spent + reviews + cur.cost <= most + dearest
  <2>1. cur.cost \in Nat /\ cur.limit \in Int /\ spent \in Nat /\ reviews \in Nat
    BY DEF RetryInv, RetryShape, Tries
  <2> QED
    BY <1>2, <2>1 DEF RetryInv, InBudget
<1>3. Retrying(choose, most, costs)!BudgetKept
  BY <1>1, <1>2 DEF Retrying!BudgetKept, Retrying!Total, LeastLeft
<1>4. ASSUME ~choose, retryPc = "over", Retrying(choose, most, costs)!Accepted(attempts) > 0
      PROVE  attempts[returned].score >= AcceptScore
  <2>1. PICK accepted : accepted = {i \in DOMAIN attempts : attempts[i].score >= AcceptScore}
    OBVIOUS
  <2>2. Cardinality(accepted) > 0
    BY <1>4, <2>1 DEF Retrying!Accepted, Retrying!Cardinality, Cardinality
  <2>3. PICK i \in accepted : TRUE
    BY <2>2, FS_EmptySet
  <2>4. Highest(returned)
    BY <1>4 DEF RetryInv
  <2>5. attempts[i].score >= AcceptScore /\ attempts[i].score <= attempts[returned].score
    BY <2>1, <2>3, <2>4 DEF Highest
  <2>6. attempts[i] \in RatedTries /\ attempts[returned] \in RatedTries
    BY <2>1, <2>3, <2>4 DEF Highest, RetryInv, RetryShape
  <2>7. attempts[i].score \in Int /\ attempts[returned].score \in Int /\ AcceptScore \in Int
    BY <2>6, RetrySettings DEF RatedTries, RetryNumbers
  <2> QED
    BY <2>5, <2>7
<1>5. ~choose => Retrying(choose, most, costs)!AcceptedIsReturned
  BY <1>4 DEF Retrying!AcceptedIsReturned
<1>6. Retrying(choose, most, costs)!ChoiceIsSubmitted
  BY DEF RetryInv, ChosenWell, Submissions, Retrying!ChoiceIsSubmitted, Retrying!Submitted,
         Retrying!NoIndex, Retrying!Cardinality, Cardinality
<1> QED
  BY <1>3, <1>5, <1>6

-----------------------------------------------------------------------------
(* The batch runner.                                                       *)

\* A prediction is written for the trajectory of this process, and an agent runs only where
\* there is none.
Kept(kept, made, step) ==
    /\ made > 0 => kept = made
    /\ step = "agent" => ~(made > 0)
    /\ step \in {"closing", "saving"} => kept = run /\ ~(made > 0)

BatchShape ==
    /\ run \in Nat \ {0}
    /\ traj \in [BatchInstances -> Nat \cup {-1}] /\ pred \in [BatchInstances -> Nat \cup {-1}]
    /\ batchPhase \in [BatchInstances -> Batch!Phases]

BatchInv == BatchShape /\ \A i \in BatchInstances : Kept(traj[i], pred[i], batchPhase[i])

LEMMA BatchInit == Batch!Init => BatchInv
<1> SUFFICES ASSUME Batch!Init PROVE BatchInv
  OBVIOUS
<1>1. BatchShape
  BY DEF Batch!Init, Batch!NoFile, BatchShape, Batch!Phases
<1>2. ASSUME NEW i \in BatchInstances PROVE Kept(traj[i], pred[i], batchPhase[i])
  BY <1>2 DEF Batch!Init, Batch!NoFile, Kept
<1> QED
  BY <1>1, <1>2 DEF BatchInv

\* The process goes on with one instance.
LEMMA OneGoes ==
    ASSUME BatchInv, NEW i \in BatchInstances, run' = run,
           NEW kept \in Nat \cup {-1}, NEW made \in Nat \cup {-1}, NEW step \in Batch!Phases,
           traj' = [traj EXCEPT ![i] = kept], pred' = [pred EXCEPT ![i] = made],
           batchPhase' = [batchPhase EXCEPT ![i] = step],
           Kept(kept, made, step)
    PROVE  BatchInv'
<1>1. BatchShape'
  BY DEF BatchInv, BatchShape
<1>2. ASSUME NEW j \in BatchInstances PROVE Kept(traj[j], pred[j], batchPhase[j])'
  <2>1. CASE j = i
    <3>1. traj'[j] = kept /\ pred'[j] = made /\ batchPhase'[j] = step
      BY <2>1 DEF BatchInv, BatchShape
    <3> QED
      BY <3>1 DEF Kept
  <2>2. CASE j # i
    <3>1. traj'[j] = traj[j] /\ pred'[j] = pred[j] /\ batchPhase'[j] = batchPhase[j]
      BY <2>2 DEF BatchInv, BatchShape
    <3>2. Kept(traj[j], pred[j], batchPhase[j])
      BY DEF BatchInv
    <3> QED
      BY <3>1, <3>2 DEF Kept
  <2> QED
    BY <2>1, <2>2
<1> QED
  BY <1>1, <1>2 DEF BatchInv

LEMMA BatchStep ==
    ASSUME BatchInv, [Batch!Next]_batchVars
    PROVE  BatchInv'
<1>1. CASE UNCHANGED batchVars
  BY <1>1 DEF BatchInv, BatchShape, Kept, batchVars
<1>2. ASSUME NEW i \in BatchInstances,
             \/ Batch!Take(i) \/ Batch!AgentSteps(i) \/ Batch!AgentEnds(i) \/ Batch!AgentRaises(i)
             \/ Batch!Closes(i) \/ Batch!SaveBegins(i) \/ Batch!SaveEnds(i)
      PROVE  BatchInv'
  <2>1. /\ run' = run /\ run \in Nat \ {0}
        /\ traj[i] \in Nat \cup {-1} /\ pred[i] \in Nat \cup {-1} /\ batchPhase[i] \in Batch!Phases
        /\ Kept(traj[i], pred[i], batchPhase[i])
    BY <1>2 DEF BatchInv, BatchShape, Batch!Take, Batch!AgentSteps, Batch!AgentEnds,
                Batch!AgentRaises, Batch!Closes, Batch!SaveBegins, Batch!SaveEnds
  <2>2. traj = [traj EXCEPT ![i] = traj[i]] /\ pred = [pred EXCEPT ![i] = pred[i]]
    BY DEF BatchInv, BatchShape
  <2>3. batchPhase = [batchPhase EXCEPT ![i] = batchPhase[i]]
    BY DEF BatchInv, BatchShape
  <2>4. CASE Batch!Take(i) /\ traj[i] > 0
    <3>1. traj' = traj /\ pred' = pred /\ batchPhase' = [batchPhase EXCEPT ![i] = "skipped"]
      BY <2>4 DEF Batch!Take, Batch!Skips
    <3>2. Kept(traj[i], pred[i], "skipped") /\ "skipped" \in Batch!Phases
      BY <2>1 DEF Kept, Batch!Phases
    <3> QED
      BY <2>1, <2>2, <3>1, <3>2, OneGoes
  <2>5. CASE Batch!Take(i) /\ ~(traj[i] > 0)
    <3>1. /\ traj' = [traj EXCEPT ![i] = 0] /\ pred' = pred
          /\ batchPhase' = [batchPhase EXCEPT ![i] = "agent"]
      BY <2>5 DEF Batch!Take, Batch!Skips, Batch!NoFile
    <3>2. Kept(0, pred[i], "agent") /\ "agent" \in Batch!Phases
      BY <2>1, <2>5 DEF Kept, Batch!Phases
    <3> QED
      BY <2>1, <2>2, <3>1, <3>2, OneGoes
  <2>6. CASE Batch!AgentSteps(i)
    <3>1. /\ traj' = [traj EXCEPT ![i] = -1] /\ pred' = pred /\ batchPhase' = batchPhase
          /\ batchPhase[i] = "agent"
      BY <2>6 DEF Batch!AgentSteps, Batch!Partial
    <3>2. Kept(-1, pred[i], batchPhase[i])
      BY <2>1, <3>1 DEF Kept
    <3> QED
      BY Zenon, <2>1, <2>2, <2>3, <3>1, <3>2, OneGoes
  <2>7. CASE Batch!AgentEnds(i)
    <3>1. /\ traj' = [traj EXCEPT ![i] = run] /\ pred' = pred
          /\ batchPhase' = [batchPhase EXCEPT ![i] = "closing"] /\ batchPhase[i] = "agent"
      BY <2>7 DEF Batch!AgentEnds
    <3>2. Kept(run, pred[i], "closing") /\ "closing" \in Batch!Phases
      BY <2>1, <3>1 DEF Kept, Batch!Phases
    <3> QED
      BY <2>1, <2>2, <3>1, <3>2, OneGoes
  <2>8. CASE Batch!AgentRaises(i) \/ Batch!Closes(i)
    <3>1. /\ traj' = traj /\ pred' = pred
          /\ \/ batchPhase' = [batchPhase EXCEPT ![i] = "saving"] /\ batchPhase[i] = "closing"
             \/ batchPhase' = [batchPhase EXCEPT ![i] = "failing"]
             \/ batchPhase' = [batchPhase EXCEPT ![i] = "failed"]
      BY <2>8 DEF Batch!AgentRaises, Batch!Closes
    <3>2. PICK step \in {"saving", "failing", "failed"} :
            /\ batchPhase' = [batchPhase EXCEPT ![i] = step]
            /\ step = "saving" => batchPhase[i] = "closing"
      BY <3>1
    <3>3. Kept(traj[i], pred[i], step) /\ step \in Batch!Phases
      BY <2>1, <3>2 DEF Kept, Batch!Phases
    <3> QED
      BY <2>1, <2>2, <3>1, <3>2, <3>3, OneGoes
  <2>9. CASE Batch!SaveBegins(i)
    <3>1. /\ pred' = [pred EXCEPT ![i] = -1] /\ traj' = traj /\ batchPhase' = batchPhase
          /\ batchPhase[i] = "saving"
      BY <2>9 DEF Batch!SaveBegins, Batch!Torn
    <3>2. Kept(traj[i], -1, batchPhase[i])
      BY <2>1, <3>1 DEF Kept
    <3> QED
      BY <2>1, <2>2, <2>3, <3>1, <3>2, OneGoes
  <2>10. CASE Batch!SaveEnds(i)
    <3>1. /\ pred' = [pred EXCEPT ![i] = run] /\ traj' = traj
          /\ batchPhase' = [batchPhase EXCEPT ![i] = "done"] /\ batchPhase[i] = "saving"
      BY <2>10 DEF Batch!SaveEnds
    <3>2. Kept(traj[i], run, "done") /\ "done" \in Batch!Phases
      BY <2>1, <3>1 DEF Kept, Batch!Phases
    <3> QED
      BY <2>1, <2>2, <3>1, <3>2, OneGoes
  <2> QED
    BY <1>2, <2>4, <2>5, <2>6, <2>7, <2>8, <2>9, <2>10
<1>3. CASE Batch!PoolEnds
  BY <1>3 DEF BatchInv, BatchShape, Kept, Batch!PoolEnds
<1>4. CASE Batch!Crash
  <2>1. PICK torn : /\ torn \subseteq {i \in BatchInstances : batchPhase[i] = "agent"}
                    /\ traj' = [i \in BatchInstances |-> IF i \in torn THEN -1 ELSE traj[i]]
    BY <1>4 DEF Batch!Crash, Batch!Partial
  <2>2. /\ batchPhase' = [i \in BatchInstances |-> "todo"] /\ pred' = pred /\ run' = run + 1
    BY <1>4 DEF Batch!Crash
  <2>3. BatchShape'
    BY <2>1, <2>2 DEF BatchInv, BatchShape, Batch!Phases
  <2>4. ASSUME NEW i \in BatchInstances PROVE Kept(traj[i], pred[i], batchPhase[i])'
    <3>1. pred'[i] > 0 => traj'[i] = pred'[i]
      BY <2>1, <2>2 DEF BatchInv, Kept
    <3> QED
      BY <2>2, <3>1 DEF Kept
  <2> QED
    BY <2>3, <2>4 DEF BatchInv
<1> QED
  BY <1>1, <1>2, <1>3, <1>4 DEF Batch!Next

-----------------------------------------------------------------------------
(* The legacy batch.                                                       *)

LegacyFiles == [torn : BOOLEAN, code : BOOLEAN, test : BOOLEAN, lists : BOOLEAN,
                f2p : SUBSET LegacyTests, p2p : SUBSET LegacyTests]
Repairing == {"repair", "gold", "pre", "fill", "write"}

LegacyShape(cases) ==
    /\ at \in Nat \ {0} /\ legacyPc \in Repairing \cup {"idle", "batch"}
    /\ legacyPc \in Repairing => at <= cases
    /\ source \in [1..cases -> LegacyFiles] /\ copy \in [1..cases -> LegacyFiles]

\* The script has given their lists to the instances before the one that it has come to, and
\* only that one differs from its source.
Listed(cases) ==
    /\ legacyPc \in Repairing => \A i \in 1..cases : i < at => copy[i].lists
    /\ legacyPc = "write" => copy[at].lists
    /\ legacyPc = "batch" => \A i \in 1..cases : copy[i].lists
    /\ legacyPc # "idle" =>
        \A i \in 1..cases : i # at \/ legacyPc \in {"repair", "batch"} => copy[i] = source[i]

\* Each case that was run is in the results under its number.
Accounted(cases, rs) ==
    \A k \in 1..cases :
        IF k <= Len(rs) THEN rs[k].id = k /\ (rs[k].rc = 0 <=> out[k]) ELSE ~out[k]

Counted(cases) ==
    /\ results \in Seq([id : Nat, rc : {0, 1}]) /\ legacyBatch \in Seq([id : Nat, rc : {0, 1}])
    /\ out \in [1..cases -> BOOLEAN]
    /\ legacyPc \in Repairing => results = <<>>
    /\ legacyPc # "idle" =>
        /\ legacyBatch = <<>> /\ Accounted(cases, results) /\ Len(results) <= cases
    /\ legacyPc = "batch" =>
        at = IF Len(results) = cases THEN 1 ELSE Len(results) + 1
    /\ legacyBatch # <<>> => Len(legacyBatch) = cases /\ Accounted(cases, legacyBatch)

LegacyInv(cases) == LegacyShape(cases) /\ Listed(cases) /\ Counted(cases)

LEMMA LegacyInit ==
    ASSUME NEW cases \in Nat, NEW most, Legacy(cases, most)!Init
    PROVE  LegacyInv(cases)
<1>1. /\ source \in [1..cases -> {Legacy(cases, most)!Given(FALSE), Legacy(cases, most)!Given(TRUE)}]
      /\ copy = source /\ out = [i \in 1..cases |-> FALSE]
      /\ results = <<>> /\ legacyBatch = <<>> /\ legacyPc = "idle" /\ at = 1
  BY DEF Legacy!Init, Legacy!Instances
<1>2. \A whole \in BOOLEAN : Legacy(cases, most)!Given(whole) \in LegacyFiles
  BY DEF Legacy!Given, LegacyFiles
<1>3. source \in [1..cases -> LegacyFiles]
  <2>1. \A i \in 1..cases : source[i] \in LegacyFiles
    BY <1>1, <1>2
  <2> QED
    BY <1>1, <2>1
<1>4. LegacyShape(cases)
  BY <1>1, <1>3 DEF LegacyShape, Repairing
<1>5. legacyPc \notin Repairing
  BY <1>1 DEF Repairing
<1> QED
  BY <1>1, <1>4, <1>5 DEF LegacyInv, Listed, Counted

\* What the actions of the repair do.
LEMMA RepairGoes ==
    ASSUME NEW cases \in Nat, NEW most, LegacyInv(cases),
           \/ Legacy(cases, most)!Skip \/ Legacy(cases, most)!Rebuild
           \/ Legacy(cases, most)!RunTests("gold", "pre") \/ Legacy(cases, most)!RunTests("pre", "fill")
           \/ Legacy(cases, most)!Fill \/ Legacy(cases, most)!WriteSource
    PROVE  LegacyInv(cases)'
<1>1. /\ legacyPc \in Repairing /\ at \in 1..cases
      /\ UNCHANGED <<results, legacyBatch, out>>
  <2>1. legacyPc \in Repairing /\ UNCHANGED <<results, legacyBatch, out>>
    BY DEF Repairing, Legacy!Skip, Legacy!Rebuild, Legacy!RunTests, Legacy!Fill,
           Legacy!WriteSource
  <2>2. at \in 1..cases
    BY <2>1 DEF LegacyInv, LegacyShape
  <2> QED
    BY <2>1, <2>2
<1>2. copy[at] \in LegacyFiles /\ source[at] \in LegacyFiles
  BY <1>1 DEF LegacyInv, LegacyShape
<1>3. Counted(cases)'
  <2>1. /\ legacyPc' \in Repairing \cup {"batch"}
        /\ legacyPc' = "batch" => at' = 1
    BY DEF Repairing, Legacy!Skip, Legacy!Rebuild, Legacy!RunTests, Legacy!Fill,
         Legacy!WriteSource, Legacy!Next1, Legacy!Advance
  <2> QED
    BY <1>1, <2>1 DEF LegacyInv, Counted, Accounted, Repairing
<1> HIDE DEF Counted
<1>4. ASSUME LegacyShape(cases)', Listed(cases)' PROVE LegacyInv(cases)'
  BY <1>3, <1>4 DEF LegacyInv
<1>5. ASSUME copy[at].lists, copy[at] = source'[at], copy' = copy,
             \A i \in 1..cases : i # at => source'[i] = source[i],
             source' \in [1..cases -> LegacyFiles],
             \A i \in 1..cases : i # at => copy[i] = source[i],
             Legacy(cases, most)!Next1, Legacy(cases, most)!Advance
      PROVE  LegacyInv(cases)'
  <2>1. \A i \in 1..cases : copy'[i] = source'[i]
    BY <1>1, <1>5
  <2>2. \A i \in 1..cases : i <= at => copy'[i].lists
    BY <1>1, <1>5 DEF LegacyInv, Listed
  <2>3. \/ at = cases /\ legacyPc' = "batch" /\ at' = 1
        \/ at # cases /\ legacyPc' = "repair" /\ at' = at + 1
    BY <1>5 DEF Legacy!Next1, Legacy!Advance
  <2>4. LegacyShape(cases)'
    BY <1>1, <1>5, <2>3 DEF LegacyInv, LegacyShape, Repairing
  <2>5. Listed(cases)'
    BY <1>1, <2>1, <2>2, <2>3 DEF Listed, Repairing
  <2> QED
    BY <1>4, <2>4, <2>5
<1>6. CASE Legacy(cases, most)!Skip
  <2>1. /\ legacyPc = "repair" /\ copy' = copy /\ source' = source /\ copy[at].lists
        /\ Legacy(cases, most)!Next1 /\ Legacy(cases, most)!Advance
    BY <1>6 DEF Legacy!Skip, Legacy!NeedsRepair
  <2>2. source \in [1..cases -> LegacyFiles] /\ \A i \in 1..cases : copy[i] = source[i]
    BY <2>1 DEF LegacyInv, LegacyShape, Listed
  <2> QED
    BY <1>1, <1>5, <2>1, <2>2
<1>7. CASE Legacy(cases, most)!Rebuild
  <2>1. PICK code, test, f :
          /\ code \in BOOLEAN /\ test \in BOOLEAN
          /\ f = [copy[at] EXCEPT !.code = code, !.test = test]
          /\ copy' = [copy EXCEPT ![at] = f] /\ source' = source /\ at' = at
          /\ legacyPc = "repair" /\ legacyPc' = "gold"
    BY <1>7 DEF Legacy!Rebuild
  <2>2. f \in LegacyFiles
    BY <1>2, <2>1 DEF LegacyFiles
  <2>3. LegacyShape(cases)'
    BY <1>1, <2>1, <2>2 DEF LegacyInv, LegacyShape, Repairing
  <2>4. Listed(cases)'
    BY <1>1, <2>1 DEF LegacyInv, LegacyShape, Listed, Repairing
  <2> QED
    BY <1>4, <2>3, <2>4
<1>8. CASE Legacy(cases, most)!RunTests("gold", "pre") \/ Legacy(cases, most)!RunTests("pre", "fill")
  <2>1. /\ UNCHANGED <<copy, source, at>>
        /\ legacyPc \in {"gold", "pre"} /\ legacyPc' \in {"pre", "fill"}
    BY <1>8 DEF Legacy!RunTests
  <2>2. LegacyShape(cases)'
    BY <1>1, <2>1 DEF LegacyInv, LegacyShape, Repairing
  <2>3. Listed(cases)'
    BY <1>1, <2>1 DEF LegacyInv, Listed, Repairing
  <2> QED
    BY <1>4, <2>2, <2>3
<1>9. CASE Legacy(cases, most)!Fill
  <2>1. PICK a, b, f, g :
          /\ a \in SUBSET LegacyTests /\ b \in SUBSET LegacyTests
          /\ f = [copy[at] EXCEPT !.lists = TRUE, !.f2p = a, !.p2p = b]
          /\ g = [source[at] EXCEPT !.torn = TRUE]
          /\ copy' = [copy EXCEPT ![at] = f] /\ source' = [source EXCEPT ![at] = g] /\ at' = at
          /\ legacyPc = "fill" /\ legacyPc' = "write"
    <3>1. PICK a \in SUBSET LegacyTests, b \in SUBSET LegacyTests :
            /\ copy' = [copy EXCEPT ![at] = [copy[at] EXCEPT !.lists = TRUE, !.f2p = a, !.p2p = b]]
            /\ source' = [source EXCEPT ![at] = [source[at] EXCEPT !.torn = TRUE]]
            /\ at' = at /\ legacyPc = "fill" /\ legacyPc' = "write"
      BY Zenon, <1>9 DEF Legacy!Fill
    <3> QED
      BY <3>1
  <2>2. f \in LegacyFiles /\ f.lists
    BY <1>2, <2>1 DEF LegacyFiles
  <2>3. g \in LegacyFiles
    BY <1>2, <2>1 DEF LegacyFiles
  <2>4. LegacyShape(cases)'
    BY <1>1, <2>1, <2>2, <2>3 DEF LegacyInv, LegacyShape, Repairing
  <2>5. Listed(cases)'
    BY <1>1, <2>1, <2>2 DEF LegacyInv, LegacyShape, Listed, Repairing
  <2> QED
    BY <1>4, <2>4, <2>5
<1>10. CASE Legacy(cases, most)!WriteSource
  <2>1. /\ legacyPc = "write" /\ copy' = copy /\ source' = [source EXCEPT ![at] = copy[at]]
        /\ Legacy(cases, most)!Next1 /\ Legacy(cases, most)!Advance
    BY <1>10 DEF Legacy!WriteSource
  <2>2. source' \in [1..cases -> LegacyFiles] /\ copy[at] = source'[at]
    BY <1>1, <1>2, <2>1 DEF LegacyInv, LegacyShape
  <2>3. \A i \in 1..cases : i # at => source'[i] = source[i] /\ copy[i] = source[i]
    BY <2>1 DEF LegacyInv, LegacyShape, Listed
  <2>4. copy[at].lists
    BY <2>1 DEF LegacyInv, Listed
  <2> QED
    BY <1>5, <2>1, <2>2, <2>3, <2>4
<1> QED
  BY <1>6, <1>7, <1>8, <1>9, <1>10

\* What the actions of the batch do.
LEMMA CaseGoes ==
    ASSUME NEW cases \in Nat, NEW most, LegacyInv(cases), Legacy(cases, most)!RunCase
    PROVE  LegacyInv(cases)'
<1>1. PICK rc \in {0, 1} :
        /\ legacyPc = "batch" /\ Len(results) < cases
        /\ results' = Append(results, [id |-> at, rc |-> rc])
        /\ out' = [out EXCEPT ![at] = @ \/ rc = 0]
        /\ at' = IF at = cases THEN 1 ELSE at + 1
        /\ UNCHANGED <<source, copy, legacyBatch, legacyPc>>
  BY DEF Legacy!RunCase, Legacy!Advance
<1> PICK n : n = Len(results)
  OBVIOUS
<1>2. results \in Seq([id : Nat, rc : {0, 1}]) /\ out \in [1..cases -> BOOLEAN]
  BY DEF LegacyInv, Counted
<1>3. n \in Nat /\ n < cases /\ at = n + 1 /\ at \in 1..cases
  BY <1>1, <1>2 DEF LegacyInv, Counted
<1>4. /\ Len(results') = n + 1 /\ results'[n + 1] = [id |-> at, rc |-> rc]
      /\ \A k \in 1..n : results'[k] = results[k]
  BY <1>1, <1>2, <1>3
<1>5. Accounted(cases, results)
  BY <1>1 DEF LegacyInv, Counted
<1>6. ASSUME NEW k \in 1..cases
      PROVE  IF k <= Len(results') THEN results'[k].id = k /\ (results'[k].rc = 0 <=> out'[k])
             ELSE ~out'[k]
  <2>1. CASE k <= n
    <3>1. results'[k] = results[k] /\ out'[k] = out[k]
      BY <1>1, <1>2, <1>3, <1>4, <2>1
    <3>2. results[k].id = k /\ (results[k].rc = 0 <=> out[k])
      BY <1>5, <2>1 DEF Accounted
    <3> QED
      BY <1>3, <1>4, <2>1, <3>1, <3>2
  <2>2. CASE k = n + 1
    <3>1. ~out[k]
      BY <1>3, <1>5, <2>2 DEF Accounted
    <3>2. out'[k] <=> rc = 0
      BY <1>1, <1>2, <1>3, <2>2, <3>1
    <3>3. results'[k].id = k /\ results'[k].rc = rc
      BY <1>3, <1>4, <2>2
    <3> QED
      BY <1>4, <2>2, <3>2, <3>3
  <2>3. CASE k > n + 1
    <3>1. ~out[k] /\ out'[k] = out[k]
      BY <1>1, <1>2, <1>3, <1>5, <2>3 DEF Accounted
    <3> QED
      BY <1>3, <1>4, <2>3, <3>1
  <2> QED
    BY <1>3, <2>1, <2>2, <2>3
<1>7. Accounted(cases, results)'
  BY <1>6 DEF Accounted
<1>8. results' \in Seq([id : Nat, rc : {0, 1}])
  <2>1. [id |-> at, rc |-> rc] \in [id : Nat, rc : {0, 1}]
    BY <1>3
  <2> QED
    BY <1>1, <1>2, <2>1
<1>9. /\ at' = IF Len(results') = cases THEN 1 ELSE Len(results') + 1
      /\ Len(results') <= cases /\ at' \in Nat \ {0}
  BY <1>1, <1>3, <1>4
<1>10. out' \in [1..cases -> BOOLEAN]
  BY <1>1, <1>2
<1>11. legacyBatch = <<>> /\ legacyPc \notin Repairing
  BY <1>1 DEF LegacyInv, Counted, Repairing
<1>12. Counted(cases)'
  <2>1. legacyBatch' = <<>> /\ legacyPc' = "batch" /\ legacyPc' \notin Repairing
    BY <1>1, <1>11
  <2>2. legacyBatch' \in Seq([id : Nat, rc : {0, 1}])
    BY <2>1
  <2> QED
    BY <1>7, <1>8, <1>9, <1>10, <2>1, <2>2 DEF Counted
<1>13. LegacyShape(cases)'
  BY <1>1, <1>9, <1>11 DEF LegacyInv, LegacyShape
<1>14. Listed(cases)'
  BY <1>1, <1>11 DEF LegacyInv, Listed
<1> QED
  BY <1>12, <1>13, <1>14 DEF LegacyInv

LEMMA LegacyStep ==
    ASSUME NEW cases \in Nat, NEW most, LegacyInv(cases), [Legacy(cases, most)!Next]_legacyVars
    PROVE  LegacyInv(cases)'
<1>1. CASE UNCHANGED legacyVars
  BY <1>1 DEF LegacyInv, LegacyShape, Listed, Counted, Accounted, legacyVars
<1>2. CASE Legacy(cases, most)!PrepareBatchRoot
  <2>1. /\ copy' = source /\ source' = source /\ out' = [i \in 1..cases |-> FALSE]
        /\ results' = <<>> /\ legacyBatch' = <<>> /\ at' = 1
        /\ legacyPc' = IF cases = 0 THEN "batch" ELSE "repair"
    BY <1>2 DEF Legacy!PrepareBatchRoot, Legacy!NewOut, Legacy!Instances
  <2>2. LegacyShape(cases)'
    BY <2>1 DEF LegacyInv, LegacyShape, Repairing
  <2>3. Listed(cases)'
    BY <2>1 DEF Listed, Repairing
  <2>4. Counted(cases)'
    BY <2>1 DEF Counted, Accounted, Repairing
  <2> QED
    BY <2>2, <2>3, <2>4 DEF LegacyInv
<1>3. CASE \/ Legacy(cases, most)!Skip \/ Legacy(cases, most)!Rebuild
           \/ Legacy(cases, most)!RunTests("gold", "pre") \/ Legacy(cases, most)!RunTests("pre", "fill")
           \/ Legacy(cases, most)!Fill \/ Legacy(cases, most)!WriteSource
  BY <1>3, RepairGoes
<1>4. CASE Legacy(cases, most)!RunCase
  BY <1>4, CaseGoes
<1>5. CASE Legacy(cases, most)!WriteSummary
  <2>1. /\ legacyPc = "batch" /\ Len(results) = cases /\ legacyBatch' = results
        /\ legacyPc' = "idle" /\ UNCHANGED <<source, copy, out, results, at>>
    BY <1>5 DEF Legacy!WriteSummary
  <2>2. LegacyShape(cases)' /\ Listed(cases)'
    BY <2>1 DEF LegacyInv, LegacyShape, Listed, Repairing
  <2>3. Counted(cases)'
    BY <2>1 DEF LegacyInv, Counted, Accounted, Repairing
  <2> QED
    BY <2>2, <2>3 DEF LegacyInv
<1>6. CASE Legacy(cases, most)!Dies
  <2>1. /\ legacyPc # "idle" /\ legacyPc' = "idle"
        /\ UNCHANGED <<source, copy, out, results, legacyBatch, at>>
    BY <1>6 DEF Legacy!Dies
  <2>2. LegacyShape(cases)' /\ Listed(cases)'
    BY <2>1 DEF LegacyInv, LegacyShape, Listed, Repairing
  <2>3. Counted(cases)'
    BY <2>1 DEF LegacyInv, Counted, Accounted, Repairing
  <2> QED
    BY <2>2, <2>3 DEF LegacyInv
<1> QED
  BY <1>1, <1>2, <1>3, <1>4, <1>5, <1>6 DEF Legacy!Next

LEMMA LegacyKeeps ==
    ASSUME NEW cases \in Nat, NEW most, LegacyInv(cases)
    PROVE  Legacy(cases, most)!CaseHasLists /\ Legacy(cases, most)!BatchAccounts
<1>1. Legacy(cases, most)!CaseHasLists
  BY DEF LegacyInv, Listed, Legacy!CaseHasLists, Legacy!Instances
<1>2. ASSUME legacyBatch # <<>>
      PROVE  /\ [k \in DOMAIN legacyBatch |-> legacyBatch[k].id] = [k \in 1..cases |-> k]
             /\ \A k \in DOMAIN legacyBatch : legacyBatch[k].rc = 0 <=> out[legacyBatch[k].id]
  <2>1. DOMAIN legacyBatch = 1..cases /\ Len(legacyBatch) = cases
    BY <1>2 DEF LegacyInv, Counted
  <2>2. \A k \in 1..cases : legacyBatch[k].id = k /\ (legacyBatch[k].rc = 0 <=> out[k])
    BY <1>2, <2>1 DEF LegacyInv, Counted, Accounted
  <2> QED
    BY <2>1, <2>2
<1> QED
  BY <1>1, <1>2 DEF Legacy!BatchAccounts, Legacy!Instances

-----------------------------------------------------------------------------
(* The collection of instances.                                            *)

PullLines == [id : 1..PullCount, st : {"whole", "torn", "junk"}]
PullFiles == [there : BOOLEAN, lines : Seq(PullLines)]
PullKinds == {"unmerged", "empty", "untested", "tested"}
\* The lines that can be read, with what they say; and is there one at the end that cannot?
Sound(ls) == {k \in DOMAIN ls : ls[k].st = "whole"}
Said(ls) == {ls[k].id : k \in Sound(ls)}
Cut(ls) == ls # <<>> /\ ls[Len(ls)].st = "torn"
Rising(ls) == \A j, k \in Sound(ls) : j < k => ls[j].id < ls[k].id

\* What a line adds at the end of others.
Longer(ls, l, new) ==
    /\ new \in Seq(PullLines) /\ Len(new) = Len(ls) + 1 /\ new[Len(new)] = l
    /\ \A k \in 1..Len(ls) : new[k] = ls[k]
WholeAdded(ls, l, new) ==
    /\ Longer(ls, l, new)
    /\ Said(new) = Said(ls) \cup {l.id} /\ Sound(new) = Sound(ls) \cup {Len(ls) + 1} /\ ~Cut(new)
    /\ Rising(ls) /\ (\A j \in Said(ls) : j < l.id) => Rising(new)
TornAdded(ls, l, new) ==
    /\ Longer(ls, l, new) /\ Said(new) = Said(ls) /\ Sound(new) = Sound(ls)
    /\ Rising(ls) => Rising(new)

\* A line is added whole, or torn, or completes a torn one to a line of junk.
LEMMA WholeLine ==
    ASSUME NEW ls \in Seq(PullLines), NEW l \in PullLines, l.st = "whole",
           NEW new, new = Append(ls, l)
    PROVE  WholeAdded(ls, l, new)
<1> PICK n : n = Len(ls)
  OBVIOUS
<1>1. l \in PullLines /\ l.id \in 1..PullCount /\ l.st = "whole"
  BY DEF PullLines
<1>2. /\ n \in Nat /\ new \in Seq(PullLines) /\ Len(new) = n + 1 /\ new[n + 1] = l
      /\ \A k \in 1..n : new[k] = ls[k]
  BY <1>1
<1>3. DOMAIN ls = 1..n /\ DOMAIN new = 1..(n + 1)
  BY <1>2
<1>4. Sound(new) = Sound(ls) \cup {n + 1}
  BY <1>1, <1>2, <1>3 DEF Sound
<1>5. Sound(ls) \subseteq 1..n
  BY <1>3 DEF Sound
<1>6. Said(new) = Said(ls) \cup {l.id}
  BY <1>1, <1>2, <1>4, <1>5 DEF Said
<1>7. ~Cut(new)
  BY <1>1, <1>2 DEF Cut
<1>8. ASSUME Rising(ls), \A j \in Said(ls) : j < l.id PROVE Rising(new)
  <2>1. \A j \in Sound(ls) : new[j].id < l.id
    BY <1>2, <1>5, <1>8 DEF Said
  <2>2. \A j, k \in Sound(ls) : j < k => new[j].id < new[k].id
    BY <1>2, <1>5, <1>8 DEF Rising
  <2>3. \A j \in Sound(ls) : ~(n + 1 < j) /\ new[n + 1].id = l.id
    BY <1>1, <1>2, <1>5
  <2>4. ~(n + 1 < n + 1)
    BY <1>2
  <2> QED
    BY ZenonT(40), <1>4, <2>1, <2>2, <2>3, <2>4 DEF Rising
<1> QED
  BY <1>2, <1>4, <1>6, <1>7, <1>8 DEF WholeAdded, Longer

LEMMA TornLine ==
    ASSUME NEW ls \in Seq(PullLines), NEW l \in PullLines, l.st = "torn",
           NEW new, new = Append(ls, l)
    PROVE  TornAdded(ls, l, new)
<1> PICK n : n = Len(ls)
  OBVIOUS
<1>1. l \in PullLines /\ l.id \in 1..PullCount /\ l.st = "torn"
  BY DEF PullLines
<1>2. /\ n \in Nat /\ new \in Seq(PullLines) /\ Len(new) = n + 1 /\ new[n + 1] = l
      /\ \A k \in 1..n : new[k] = ls[k]
  BY <1>1
<1>3. DOMAIN ls = 1..n /\ DOMAIN new = 1..(n + 1)
  BY <1>2
<1>4. Sound(new) = Sound(ls) /\ Sound(ls) \subseteq 1..n
  BY <1>1, <1>2, <1>3 DEF Sound
<1>5. Said(new) = Said(ls)
  BY <1>2, <1>4 DEF Said
<1>6. Rising(ls) => Rising(new)
  BY <1>2, <1>4 DEF Rising
<1> QED
  BY <1>2, <1>4, <1>5, <1>6 DEF TornAdded, Longer

LEMMA JunkLine ==
    ASSUME NEW ls \in Seq(PullLines), Cut(ls), NEW new, new = [ls EXCEPT ![Len(ls)].st = "junk"]
    PROVE  /\ new \in Seq(PullLines) /\ Said(new) = Said(ls) /\ ~Cut(new)
           /\ Rising(ls) => Rising(new)
<1> PICK n : n = Len(ls)
  OBVIOUS
<1> PICK l : l = [ls[n] EXCEPT !.st = "junk"]
  OBVIOUS
<1>1. n \in Nat \ {0} /\ DOMAIN ls = 1..n /\ ls[n].st = "torn"
  BY DEF Cut
<1>2. ls[n] \in PullLines
  BY <1>1
<1>3. l \in PullLines /\ l.st = "junk"
  BY <1>2 DEF PullLines
<1>4. new = [ls EXCEPT ![n] = l]
  OBVIOUS
<1>5. new \in Seq(PullLines) /\ Len(new) = n /\ new[n] = l /\ \A k \in 1..n : k # n => new[k] = ls[k]
  BY <1>1, <1>3, <1>4
<1>6. Sound(new) = Sound(ls) /\ n \notin Sound(ls) /\ Sound(ls) \subseteq 1..n
  BY <1>1, <1>3, <1>5 DEF Sound
<1>7. Said(new) = Said(ls)
  BY <1>5, <1>6 DEF Said
<1>8. Rising(ls) => Rising(new)
  BY <1>5, <1>6 DEF Rising
<1>9. ~Cut(new)
  BY <1>3, <1>5 DEF Cut
<1> QED
  BY <1>5, <1>7, <1>8, <1>9

\* What Added and Torn do to a file.
SameSaid(f, g) == Said(g.lines) = Said(f.lines) /\ (Rising(f.lines) => Rising(g.lines))
MoreSaid(f, g, i) ==
    /\ Said(g.lines) = Said(f.lines) \cup {i}
    /\ Rising(f.lines) /\ (\A j \in Said(f.lines) : j < i) => Rising(g.lines)
OneLonger(f, g, i) ==
    /\ Len(g.lines) = Len(f.lines) + 1 /\ g.lines[Len(g.lines)].id = i
    /\ \A k \in 1..Len(f.lines) : g.lines[k] = f.lines[k]

LEMMA Adds ==
    ASSUME NEW f \in PullFiles, NEW i \in 1..PullCount, NEW g, g = Collected!Added(f, i)
    PROVE  /\ g \in PullFiles /\ g.there = f.there /\ ~Cut(g.lines)
           /\ Cut(f.lines) => SameSaid(f, g)
           /\ ~Cut(f.lines) =>
                /\ MoreSaid(f, g, i) /\ OneLonger(f, g, i)
                /\ Sound(g.lines) = Sound(f.lines) \cup {Len(g.lines)}
<1> PICK ls : ls = f.lines
  OBVIOUS
<1>1. ls \in Seq(PullLines) /\ f.there \in BOOLEAN
  BY DEF PullFiles
<1>0. i \in 1..PullCount /\ ls \in Seq(PullLines)
  BY <1>1
<1>2. CASE Cut(ls)
  <2>0. PICK new : new = [ls EXCEPT ![Len(ls)].st = "junk"]
    OBVIOUS
  <2>1. g = [f EXCEPT !.lines = new]
    BY <1>2, <2>0 DEF Collected!Added, Collected!EndsTorn, Cut
  <2>2. g = [there |-> f.there, lines |-> new]
    BY <2>1 DEF PullFiles
  <2>3. new \in Seq(PullLines) /\ Said(new) = Said(ls) /\ ~Cut(new) /\ (Rising(ls) => Rising(new))
    BY <1>1, <1>2, <2>0, JunkLine
  <2> QED
    BY <1>1, <1>2, <2>2, <2>3 DEF PullFiles, SameSaid
<1>3. CASE ~Cut(ls)
  <2> PICK l : l = [id |-> i, st |-> "whole"]
    OBVIOUS
  <2>0. PICK new : new = Append(ls, l)
    OBVIOUS
  <2>a. l \in PullLines /\ l.id = i /\ l.st = "whole"
    BY DEF PullLines
  <2>1. g = [f EXCEPT !.lines = new]
    BY <1>3, <2>0 DEF Collected!Added, Collected!EndsTorn, Cut
  <2>2. g = [there |-> f.there, lines |-> new]
    BY <2>1 DEF PullFiles
  <2>3. WholeAdded(ls, l, new)
    BY ONLY <1>0, <2>0, <2>a, WholeLine
  <2>4. new[Len(new)].id = i
    BY <2>3, <2>a DEF Longer, WholeAdded
  <2>5. g \in PullFiles /\ g.lines = new /\ g.there = f.there
    BY <1>1, <2>2, <2>3 DEF PullFiles, Longer, WholeAdded
  <2> QED
    BY <1>3, <2>a, <2>3, <2>4, <2>5 DEF Longer, WholeAdded, MoreSaid, OneLonger
<1> QED
  BY <1>2, <1>3

LEMMA Tears ==
    ASSUME NEW f \in PullFiles, NEW i \in 1..PullCount, NEW g, g = Collected!Torn(f, i)
    PROVE  /\ g \in PullFiles /\ g.there = f.there /\ SameSaid(f, g)
           /\ ~Cut(f.lines) => OneLonger(f, g, i) /\ Sound(g.lines) = Sound(f.lines)
<1> PICK ls : ls = f.lines
  OBVIOUS
<1>1. ls \in Seq(PullLines) /\ f.there \in BOOLEAN
  BY DEF PullFiles
<1>0. i \in 1..PullCount /\ ls \in Seq(PullLines)
  BY <1>1
<1>2. CASE Cut(ls)
  <2>1. g = f
    BY <1>2 DEF Collected!Torn, Collected!EndsTorn, Cut
  <2> QED
    BY <1>2, <2>1 DEF SameSaid
<1>3. CASE ~Cut(ls)
  <2> PICK l : l = [id |-> i, st |-> "torn"]
    OBVIOUS
  <2>0. PICK new : new = Append(ls, l)
    OBVIOUS
  <2>a. l \in PullLines /\ l.id = i /\ l.st = "torn"
    BY DEF PullLines
  <2>1. g = [f EXCEPT !.lines = new]
    BY <1>3, <2>0 DEF Collected!Torn, Collected!EndsTorn, Cut
  <2>2. g = [there |-> f.there, lines |-> new]
    BY <2>1 DEF PullFiles
  <2>3. TornAdded(ls, l, new)
    BY ONLY <1>0, <2>0, <2>a, TornLine
  <2>4. new[Len(new)].id = i
    BY <2>3, <2>a DEF Longer, TornAdded
  <2>5. g \in PullFiles /\ g.lines = new /\ g.there = f.there
    BY <1>1, <2>2, <2>3 DEF PullFiles, Longer, TornAdded
  <2> QED
    BY <1>3, <2>a, <2>3, <2>4, <2>5 DEF Longer, TornAdded, SameSaid, OneLonger
<1> QED
  BY <1>2, <1>3

ValidPulls == {i \in 1..PullCount : pullKind[i] \in {"untested", "tested"}}
TestedPulls == {i \in 1..PullCount : pullKind[i] = "tested"}
Listing(m) == {k \in Sound(prs.lines) : k <= m} \cap ValidPulls
Lost == (TestedPulls \cap Said(all.lines)) \ Said(tasks.lines)

PullShape ==
    /\ pullKind \in [1..PullCount -> PullKinds]
    /\ prs \in PullFiles /\ all \in PullFiles /\ tasks \in PullFiles
    /\ collecting \in {"idle", "list", "open", "build", "second"}
    /\ line \in Nat \ {0} /\ inspected \subseteq 1..PullCount /\ collectKills \in Nat

\* The list is written by one process, from the beginning; a line of it has its own number.
ListWritten ==
    /\ \A k \in DOMAIN prs.lines : prs.lines[k].id = k
    /\ ~prs.there => prs.lines = <<>>
    /\ collecting = "list" => prs.there /\ line = Len(prs.lines) + 1 /\ ~Cut(prs.lines)

\* The instances are the valid ones of a beginning of the list, in order.
InstancesWritten ==
    /\ \E m \in 0..Len(prs.lines) : Said(all.lines) = Listing(m)
    /\ Said(tasks.lines) \subseteq TestedPulls \cap Said(all.lines)
    /\ Rising(all.lines) /\ Rising(tasks.lines)

\* What a process at the line has before it, and what of it it has still to meet.
Building ==
    /\ collecting \in {"build", "second"} =>
           /\ ~Cut(all.lines)
           /\ \A k \in Sound(prs.lines) \cap ValidPulls : k < line => k \in Said(all.lines)
    /\ collecting = "build" => inspected = {i \in Said(all.lines) : i >= line}
    /\ collecting = "second" =>
           /\ inspected = {} /\ line \in Sound(prs.lines) \cap TestedPulls
           /\ line \in Said(all.lines) \ Said(tasks.lines) /\ \A i \in Said(all.lines) : i <= line

\* A torn line at the end of the output has cost one instance, and will cost another.
LossCounted ==
    Cardinality(Lost) + (IF Cut(tasks.lines) THEN 1 ELSE 0)
        <= 2 * collectKills + (IF collecting = "second" THEN 1 ELSE 0)

CollectInv == PullShape /\ ListWritten /\ InstancesWritten /\ Building /\ LossCounted

LEMMA PullSets ==
    ASSUME PullShape
    PROVE  /\ PullCount \in Nat
           /\ Said(prs.lines) \subseteq 1..PullCount /\ Said(all.lines) \subseteq 1..PullCount
           /\ Said(tasks.lines) \subseteq 1..PullCount
           /\ IsFiniteSet(Lost) /\ Cardinality(Lost) \in Nat
           /\ Len(prs.lines) \in Nat /\ DOMAIN prs.lines = 1..Len(prs.lines)
           /\ Sound(prs.lines) \subseteq 1..Len(prs.lines)
<1>1. PullCount \in Nat
  BY InstancesAssumption DEF InstancesAssumption, Collected!CollectAssumption
<1>2. ASSUME NEW f \in PullFiles PROVE Said(f.lines) \subseteq 1..PullCount
  <2>1. f.lines \in Seq(PullLines)
    BY DEF PullFiles
  <2>2. \A k \in DOMAIN f.lines : f.lines[k] \in PullLines
    BY <2>1
  <2>3. \A k \in DOMAIN f.lines : f.lines[k].id \in 1..PullCount
    BY <2>2 DEF PullLines
  <2> QED
    BY <2>3 DEF Said, Sound
<1>3. IsFiniteSet(1..PullCount)
  BY <1>1, FS_Interval
<1>4. Lost \subseteq 1..PullCount
  BY DEF Lost, TestedPulls
<1>5. IsFiniteSet(Lost) /\ Cardinality(Lost) \in Nat
  BY <1>3, <1>4, FS_Subset, FS_CardinalityType
<1>6. prs.lines \in Seq(PullLines)
  BY DEF PullShape, PullFiles
<1> QED
  BY <1>1, <1>2, <1>5, <1>6 DEF PullShape, Sound

LEMMA CollectInit == Collected!Init => CollectInv
<1> SUFFICES ASSUME Collected!Init PROVE CollectInv
  OBVIOUS
<1>1. /\ pullKind \in [1..PullCount -> PullKinds] /\ collecting = "idle" /\ line = 1
      /\ inspected = {} /\ collectKills = 0
  BY DEF Collected!Init, Collected!Pulls, Collected!Kinds, PullKinds
<1>2. /\ prs = [there |-> FALSE, lines |-> <<>>] /\ all = [there |-> FALSE, lines |-> <<>>]
      /\ tasks = [there |-> FALSE, lines |-> <<>>]
  BY DEF Collected!Init, Collected!Absent
<1>3. PullShape
  BY <1>1, <1>2 DEF PullShape, PullFiles
<1>4. /\ prs.lines = <<>> /\ all.lines = <<>> /\ tasks.lines = <<>> /\ ~Cut(<<>>)
      /\ Said(<<>>) = {} /\ Sound(<<>>) = {} /\ Rising(<<>>)
  BY <1>2 DEF Cut, Said, Sound, Rising
<1>5. ListWritten /\ Building
  BY <1>1, <1>4 DEF ListWritten, Building
<1>6. Listing(0) = {} /\ 0 \in 0..Len(prs.lines) /\ Lost = {}
  BY <1>4 DEF Listing, Lost
<1>7. InstancesWritten
  BY <1>4, <1>6 DEF InstancesWritten
<1>8. LossCounted
  BY <1>1, <1>4, <1>6, FS_EmptySet DEF LossCounted
<1> QED
  BY <1>3, <1>5, <1>7, <1>8 DEF CollectInv

\* A step that writes no line.
LEMMA LinesKept ==
    ASSUME CollectInv, PullShape', ListWritten', Building', pullKind' = pullKind,
           prs'.lines = prs.lines, all'.lines = all.lines, tasks'.lines = tasks.lines,
           \/ collectKills' = collectKills /\ (collecting = "second" => collecting' = "second")
           \/ collectKills' = collectKills + 1
    PROVE  CollectInv'
<1>1. Lost' = Lost /\ TestedPulls' = TestedPulls
  BY DEF Lost, TestedPulls
<1>2. \A m : Listing(m)' = Listing(m)
  BY DEF Listing, ValidPulls
<1>3. InstancesWritten'
  BY <1>1, <1>2 DEF CollectInv, InstancesWritten
<1>4. Cardinality(Lost) \in Nat /\ collectKills \in Nat
  BY PullSets DEF CollectInv, PullShape
<1>5. LossCounted'
  BY <1>1, <1>4 DEF CollectInv, LossCounted
<1> QED
  BY <1>3, <1>5 DEF CollectInv

LEMMA OpenGoes ==
    ASSUME CollectInv, Collected!OpenOutputs
    PROVE  CollectInv'
<1>1. PullShape /\ ListWritten
  BY DEF CollectInv
<1>2. /\ pullKind' = pullKind /\ prs' = prs /\ collectKills' = collectKills
      /\ collecting = "open"
  BY DEF Collected!OpenOutputs
<1>3. CASE Collected!Readable(all)
  <2>1. /\ inspected' = Said(all.lines) /\ line' = 1 /\ collecting' = "build"
        /\ all' = [all EXCEPT !.there = TRUE] /\ tasks' = [tasks EXCEPT !.there = TRUE]
    BY <1>3 DEF Collected!OpenOutputs, Collected!SeenBefore, Collected!Ids, Collected!Whole,
       Said, Sound, Collected!Opened
  <2>2. all'.lines = all.lines /\ tasks'.lines = tasks.lines
    BY <1>1, <2>1 DEF PullShape, PullFiles
  <2>3. Said(all.lines) \subseteq 1..PullCount /\ PullCount \in Nat
    BY <1>1, PullSets
  <2>0. all' \in PullFiles /\ tasks' \in PullFiles
    BY <1>1, <2>1 DEF PullShape, PullFiles
  <2>4. PullShape'
    BY <1>1, <1>2, <2>0, <2>1, <2>3 DEF PullShape
  <2>5. ListWritten'
    BY <1>1, <1>2, <2>1 DEF ListWritten
  <2>6. ~Cut(all.lines)
    <3>1. Len(all.lines) \in Nat /\ DOMAIN all.lines = 1..Len(all.lines)
      BY <1>1 DEF PullShape, PullFiles
    <3>2. all.lines = <<>> \/ Len(all.lines) \in DOMAIN all.lines
      BY <1>1, <3>1 DEF PullShape, PullFiles
    <3> QED
      BY <1>3, <3>2 DEF Collected!Readable, Collected!Whole, Cut
  <2>7. \A k \in Sound(prs.lines) : ~(k < 1)
    BY <1>1, PullSets
  <2>8. \A i \in Said(all.lines) : i >= 1
    BY <2>3
  <2>9. Building'
    BY <1>2, <2>1, <2>2, <2>6, <2>7, <2>8 DEF Building
  <2> QED
    BY <1>2, <2>1, <2>2, <2>4, <2>5, <2>9, LinesKept
<1>4. CASE ~Collected!Readable(all)
  <2>1. /\ collecting' = "idle" /\ all' = all /\ tasks' = tasks /\ line' = line
        /\ inspected' = inspected
    BY <1>4 DEF Collected!OpenOutputs
  <2>2. PullShape' /\ ListWritten' /\ Building'
    BY <1>1, <1>2, <2>1 DEF PullShape, ListWritten, Building
  <2> QED
    BY <1>2, <2>1, <2>2, LinesKept
<1> QED
  BY <1>3, <1>4

LEMMA LogGoes ==
    ASSUME CollectInv, Collected!LogPull \/ (collecting = "list" /\ line <= PullCount
               /\ prs' = Collected!Torn(prs, line) /\ UNCHANGED <<pullKind, all, tasks, line, inspected>>
               /\ collecting' = "idle" /\ collectKills' = collectKills + 1)
    PROVE  CollectInv'
<1>1. PullShape /\ ListWritten /\ InstancesWritten /\ collecting = "list" /\ line \in 1..PullCount
  BY PullSets DEF CollectInv, PullShape, Collected!LogPull
<1>2. line = Len(prs.lines) + 1 /\ ~Cut(prs.lines) /\ prs.there
  BY <1>1 DEF ListWritten
<1>3. pullKind' = pullKind /\ all' = all /\ tasks' = tasks /\ inspected' = inspected
  BY DEF Collected!LogPull
<1>4. /\ Len(prs.lines) \in Nat /\ DOMAIN prs.lines = 1..Len(prs.lines)
      /\ Sound(prs.lines) \subseteq 1..Len(prs.lines) /\ PullCount \in Nat
  BY <1>1, PullSets
<1>5. /\ prs' \in PullFiles /\ prs'.there /\ Len(prs'.lines) = line /\ prs'.lines[line].id = line
      /\ \A k \in 1..Len(prs.lines) : prs'.lines[k] = prs.lines[k]
      /\ (Sound(prs'.lines) = Sound(prs.lines) \cup {line} \/ Sound(prs'.lines) = Sound(prs.lines))
      /\ collecting' = "list" => ~Cut(prs'.lines) /\ line' = line + 1 /\ collectKills' = collectKills
      /\ collecting' \in {"list", "idle"} /\ line' \in Nat \ {0}
      /\ collectKills' = collectKills \/ collectKills' = collectKills + 1
  <2>0. prs \in PullFiles
    BY <1>1 DEF PullShape
  <2>1. CASE Collected!LogPull
    <3>1. /\ prs' = Collected!Added(prs, line) /\ line' = line + 1 /\ collecting' = "list"
          /\ collectKills' = collectKills
      BY <1>1, <2>1 DEF Collected!LogPull
    <3>2. /\ prs' \in PullFiles /\ prs'.there = prs.there /\ ~Cut(prs'.lines)
          /\ OneLonger(prs, prs', line) /\ Sound(prs'.lines) = Sound(prs.lines) \cup {Len(prs'.lines)}
      BY ONLY <1>1, <1>2, <2>0, <3>1, Adds
    <3>3. Len(prs'.lines) = line
      BY <1>2, <3>2 DEF OneLonger
    <3>4. /\ prs'.lines[line].id = line /\ \A k \in 1..Len(prs.lines) : prs'.lines[k] = prs.lines[k]
      BY ONLY <3>2, <3>3 DEF OneLonger
    <3>5. line' \in Nat \ {0}
      BY <1>1, <3>1
    <3>6. Sound(prs'.lines) = Sound(prs.lines) \cup {line} \/ Sound(prs'.lines) = Sound(prs.lines)
      BY ONLY <3>2, <3>3
    <3> QED
      BY ONLY <1>2, <3>1, <3>2, <3>3, <3>4, <3>5, <3>6
  <2>2. CASE ~Collected!LogPull
    <3>1. /\ prs' = Collected!Torn(prs, line) /\ line' = line /\ collecting' = "idle"
          /\ collectKills' = collectKills + 1
      BY <2>2
    <3>2. /\ prs' \in PullFiles /\ prs'.there = prs.there
          /\ OneLonger(prs, prs', line) /\ Sound(prs'.lines) = Sound(prs.lines)
      BY ONLY <1>1, <1>2, <2>0, <3>1, Tears
    <3>3. Len(prs'.lines) = line
      BY <1>2, <3>2 DEF OneLonger
    <3>4. /\ prs'.lines[line].id = line /\ \A k \in 1..Len(prs.lines) : prs'.lines[k] = prs.lines[k]
      BY ONLY <3>2, <3>3 DEF OneLonger
    <3>5. line' \in Nat \ {0}
      BY <1>1, <3>1
    <3>6. Sound(prs'.lines) = Sound(prs.lines) \cup {line} \/ Sound(prs'.lines) = Sound(prs.lines)
      BY ONLY <3>2, <3>3
    <3> QED
      BY ONLY <1>2, <3>1, <3>2, <3>3, <3>4, <3>5, <3>6
  <2> QED
    BY <2>1, <2>2
<1>6. PullShape'
  BY <1>1, <1>3, <1>5 DEF PullShape
<1>7. ListWritten'
  <2>1. prs'.lines \in Seq(PullLines) /\ DOMAIN prs'.lines = 1..line
    BY <1>5 DEF PullFiles
  <2>2. \A k \in 1..line : k \in 1..Len(prs.lines) \/ k = line
    BY <1>1, <1>2, <1>4
  <2>3. \A k \in DOMAIN prs'.lines : prs'.lines[k].id = k
    BY <1>1, <1>4, <1>5, <2>1, <2>2 DEF ListWritten
  <2> QED
    BY <1>5, <2>3 DEF ListWritten
<1>8. ASSUME NEW m \in 0..Len(prs.lines)
      PROVE  m \in 0..Len(prs'.lines) /\ Listing(m)' = Listing(m)
  <2>1. m < line /\ line = Len(prs'.lines) /\ m \in Nat
    BY <1>2, <1>4, <1>5, <1>8
  <2>2. {k \in Sound(prs'.lines) : k <= m} = {k \in Sound(prs.lines) : k <= m}
    BY <1>1, <1>5, <2>1
  <2> QED
    BY <1>3, <2>1, <2>2 DEF Listing, ValidPulls
<1>9. InstancesWritten'
  <2>1. PICK m \in 0..Len(prs.lines) : Said(all.lines) = Listing(m)
    BY <1>1 DEF InstancesWritten
  <2>2. m \in 0..Len(prs'.lines) /\ Listing(m)' = Said(all'.lines)
    BY <1>3, <1>8, <2>1
  <2>3. \E n \in 0..Len(prs'.lines) : Listing(n)' = Said(all'.lines)
    BY <2>2
  <2>4. TestedPulls' = TestedPulls
    BY <1>3 DEF TestedPulls
  <2> QED
    BY <1>1, <1>3, <2>3, <2>4 DEF InstancesWritten
<1>10. Building'
  BY <1>5 DEF Building
<1>11. LossCounted'
  <2>1. Lost' = Lost
    BY <1>3 DEF Lost, TestedPulls
  <2>2. Cardinality(Lost) \in Nat /\ collectKills \in Nat
    BY <1>1, PullSets DEF PullShape
  <2> QED
    BY <1>1, <1>3, <1>5, <2>1, <2>2 DEF CollectInv, LossCounted
<1> QED
  BY <1>6, <1>7, <1>9, <1>10, <1>11 DEF CollectInv

LEMMA AtLine ==
    ASSUME CollectInv, Collected!More
    PROVE  /\ collecting = "build" /\ line \in Sound(prs.lines) /\ Collected!Id = line
           /\ line \in 1..PullCount
<1>1. PullShape /\ ListWritten
  BY DEF CollectInv
<1>2. /\ collecting = "build" /\ line <= Len(prs.lines) /\ prs.lines[line].st = "whole"
      /\ Collected!Id = prs.lines[line].id
  BY DEF Collected!More, Collected!Id
<1>3. line \in DOMAIN prs.lines
  BY <1>1, <1>2, PullSets DEF PullShape
<1>4. line \in Sound(prs.lines) /\ prs.lines[line].id = line
  BY <1>1, <1>2, <1>3 DEF Sound, ListWritten
<1>5. line \in Said(prs.lines)
  BY <1>4 DEF Said
<1> QED
  BY <1>1, <1>2, <1>4, <1>5, PullSets

\* An instance that is not seen yet is after all that are written.
LEMMA NewLine ==
    ASSUME CollectInv, Collected!New
    PROVE  /\ line \in ValidPulls /\ line \notin Said(all.lines) /\ inspected = {}
           /\ \A i \in Said(all.lines) : i < line
<1>1. /\ collecting = "build" /\ line \in Sound(prs.lines) /\ Collected!Id = line
      /\ line \in 1..PullCount
  BY AtLine DEF Collected!New
<1>2. line \in ValidPulls /\ line \notin inspected
  BY <1>1 DEF Collected!New, ValidPulls
<1>3. /\ inspected = {i \in Said(all.lines) : i >= line} /\ Said(all.lines) \subseteq 1..PullCount
      /\ Len(prs.lines) \in Nat /\ Sound(prs.lines) \subseteq 1..Len(prs.lines) /\ PullCount \in Nat
  BY <1>1, PullSets DEF CollectInv, Building
<1>4. line \notin Said(all.lines)
  BY <1>1, <1>2, <1>3
<1>5. PICK m \in 0..Len(prs.lines) : Said(all.lines) = Listing(m)
  BY DEF CollectInv, InstancesWritten
<1>6. m < line
  BY <1>1, <1>2, <1>3, <1>4, <1>5 DEF Listing
<1>7. \A i \in Said(all.lines) : i <= m /\ i \in Nat
  BY <1>3, <1>5 DEF Listing
<1>8. \A i \in Said(all.lines) : i < line
  BY <1>1, <1>5, <1>6, <1>7
<1>9. inspected = {}
  BY <1>1, <1>3, <1>8
<1> QED
  BY <1>2, <1>4, <1>8, <1>9

LEMMA SkipGoes ==
    ASSUME CollectInv, Collected!Skip
    PROVE  CollectInv'
<1>1. /\ collecting = "build" /\ line \in Sound(prs.lines) /\ Collected!Id = line
      /\ line \in 1..PullCount
  BY AtLine DEF Collected!Skip
<1>2. /\ line \in inspected \/ pullKind[line] \in {"unmerged", "empty"}
      /\ inspected' = inspected \ {line} /\ line' = line + 1
      /\ pullKind' = pullKind /\ prs' = prs /\ all' = all /\ tasks' = tasks
      /\ collecting' = collecting /\ collectKills' = collectKills
  BY <1>1 DEF Collected!Skip
<1>3. /\ PullShape /\ ListWritten
      /\ ~Cut(all.lines)
      /\ \A k \in Sound(prs.lines) \cap ValidPulls : k < line => k \in Said(all.lines)
      /\ inspected = {i \in Said(all.lines) : i >= line}
  BY <1>1 DEF CollectInv, Building
<1>4. /\ PullCount \in Nat /\ Said(all.lines) \subseteq 1..PullCount
      /\ Sound(prs.lines) \subseteq 1..Len(prs.lines)
  BY <1>3, PullSets
<1>5. PullShape'
  BY <1>1, <1>2, <1>3 DEF PullShape
<1>6. ListWritten'
  BY <1>1, <1>2, <1>3 DEF ListWritten
<1>7. inspected' = {i \in Said(all.lines) : i >= line + 1}
  BY <1>1, <1>2, <1>3, <1>4
<1>8. ASSUME NEW k \in Sound(prs.lines) \cap ValidPulls, k < line + 1
      PROVE  k \in Said(all.lines)
  <2>1. k \in Int
    BY DEF ValidPulls
  <2>2. CASE k = line
    BY <1>2, <1>3, <2>2 DEF ValidPulls
  <2>3. CASE k # line
    BY <1>1, <1>3, <1>8, <2>1, <2>3
  <2> QED
    BY <2>2, <2>3
<1>9. ValidPulls' = ValidPulls
  BY <1>2 DEF ValidPulls
<1>10. Building'
  BY <1>1, <1>2, <1>3, <1>7, <1>8, <1>9 DEF Building
<1> QED
  BY <1>2, <1>5, <1>6, <1>10, LinesKept

LEMMA WriteAllGoes ==
    ASSUME CollectInv, Collected!WriteAll
    PROVE  CollectInv'
<1>1. /\ collecting = "build" /\ line \in Sound(prs.lines) /\ Collected!Id = line
      /\ line \in 1..PullCount
  BY AtLine DEF Collected!WriteAll, Collected!New
<1>2. /\ line \in ValidPulls /\ line \notin Said(all.lines) /\ inspected = {}
      /\ \A i \in Said(all.lines) : i < line
  BY NewLine DEF Collected!WriteAll
<1>3. /\ all' = Collected!Added(all, line)
      /\ \/ pullKind[line] = "tested" /\ collecting' = "second" /\ line' = line
         \/ pullKind[line] # "tested" /\ line' = line + 1 /\ collecting' = collecting
      /\ pullKind' = pullKind /\ prs' = prs /\ tasks' = tasks /\ inspected' = inspected
      /\ collectKills' = collectKills
  BY <1>1 DEF Collected!WriteAll
<1>4. PullShape /\ ListWritten /\ InstancesWritten /\ Building /\ LossCounted
  BY DEF CollectInv
<1>5. /\ ~Cut(all.lines)
      /\ \A k \in Sound(prs.lines) \cap ValidPulls : k < line => k \in Said(all.lines)
  BY <1>1, <1>4 DEF Building
<1>6. all \in PullFiles
  BY <1>4 DEF PullShape
<1>7. all' \in PullFiles /\ ~Cut(all'.lines) /\ MoreSaid(all, all', line)
  BY ONLY <1>1, <1>3, <1>5, <1>6, Adds
<1>8. Said(all'.lines) = Said(all.lines) \cup {line} /\ Rising(all'.lines)
  BY <1>2, <1>4, <1>7 DEF MoreSaid, InstancesWritten
<1>9. /\ Len(prs.lines) \in Nat /\ Sound(prs.lines) \subseteq 1..Len(prs.lines)
      /\ Said(tasks.lines) \subseteq 1..PullCount /\ PullCount \in Nat
      /\ Said(all.lines) \subseteq 1..PullCount
  BY <1>4, PullSets
<1>10. PullShape'
  <2>1. line' \in Nat \ {0} /\ collecting' \in {"idle", "list", "open", "build", "second"}
    BY <1>1, <1>3
  <2> QED
    BY <1>3, <1>4, <1>7, <2>1 DEF PullShape
<1>11. ListWritten'
  BY <1>1, <1>3, <1>4 DEF ListWritten
<1>12. /\ TestedPulls' = TestedPulls /\ ValidPulls' = ValidPulls
       /\ \A m : Listing(m)' = Listing(m)
  BY <1>3 DEF TestedPulls, ValidPulls, Listing
<1>13. InstancesWritten'
  <2> PICK n : n = line
    OBVIOUS
  <2>1. PICK b \in 0..Len(prs.lines) : Said(all.lines) = Listing(b)
    BY <1>4 DEF InstancesWritten
  <2>2. ASSUME NEW k \in Listing(n) PROVE k \in Said(all'.lines)
    <3>1. k \in Sound(prs.lines) \cap ValidPulls /\ k <= line /\ k \in Int
      BY <2>2, <1>9 DEF Listing, ValidPulls
    <3>2. k = line \/ k < line
      BY <1>1, <3>1
    <3> QED
      BY <1>5, <1>8, <3>1, <3>2
  <2>3. ASSUME NEW k \in Said(all.lines) PROVE k \in Listing(n)
    <3>1. k < line /\ k \in Int /\ line \in Int
      BY <1>1, <1>2, <1>9, <2>3
    <3>2. k <= n
      BY <3>1
    <3> QED
      BY <2>1, <3>2 DEF Listing
  <2>4. line \in Listing(n)
    BY <1>1, <1>2 DEF Listing
  <2>a. Said(all'.lines) = Listing(n)
    BY <1>8, <2>2, <2>3, <2>4
  <2>b. n \in 0..Len(prs.lines)
    BY <1>1, <1>9
  <2>5. Said(all'.lines) = Listing(n) /\ n \in 0..Len(prs.lines)
    BY <2>a, <2>b
  <2>6. \E m \in 0..Len(prs'.lines) : Said(all'.lines) = Listing(m)'
    BY <1>3, <1>12, <2>5
  <2>7. Said(tasks.lines) \subseteq TestedPulls \cap Said(all'.lines)
    BY <1>4, <1>8 DEF InstancesWritten
  <2> QED
    BY <1>3, <1>4, <1>8, <1>12, <2>6, <2>7 DEF InstancesWritten
<1>14. Building'
  <2>1. \A i \in Said(all'.lines) : i <= line /\ i \in Int
    BY <1>1, <1>2, <1>8, <1>9
  <2>2. CASE collecting' = "second"
    <3>1. line \in TestedPulls /\ line' = line /\ line \notin Said(tasks.lines)
      BY <1>1, <1>2, <1>3, <1>4, <2>2 DEF TestedPulls, InstancesWritten
    <3> QED
      BY <1>1, <1>2, <1>3, <1>5, <1>7, <1>8, <1>12, <2>1, <2>2, <3>1 DEF Building
  <2>3. CASE collecting' # "second"
    <3>1. line' = line + 1 /\ collecting' = "build"
      BY <1>1, <1>3, <2>3
    <3>2. ASSUME NEW k \in Sound(prs.lines) \cap ValidPulls, k < line + 1
          PROVE  k \in Said(all'.lines)
      <4>1. k \in Int /\ (k = line \/ k < line)
        BY <1>1, <3>2 DEF ValidPulls
      <4> QED
        BY <1>5, <1>8, <4>1
    <3>3. {i \in Said(all'.lines) : i >= line + 1} = {}
      BY <1>1, <2>1
    <3> QED
      BY <1>2, <1>3, <1>7, <1>12, <3>1, <3>2, <3>3 DEF Building
  <2> QED
    BY <2>2, <2>3
<1>15. LossCounted'
  <2>1. IsFiniteSet(Lost) /\ Cardinality(Lost) \in Nat /\ collectKills \in Nat
    BY <1>4, PullSets DEF PullShape
  <2>2. CASE line \in TestedPulls
    <3>1. line \notin Lost /\ Lost' = Lost \cup {line}
      BY <1>2, <1>3, <1>4, <1>8, <1>12, <2>2 DEF Lost, InstancesWritten
    <3>2. Cardinality(Lost') = Cardinality(Lost) + 1
      BY <2>1, <3>1, FS_AddElement
    <3>3. collecting' = "second"
      BY <1>3, <2>2 DEF TestedPulls
    <3> QED
      BY <1>1, <1>3, <1>4, <2>1, <3>2, <3>3 DEF LossCounted
  <2>3. CASE line \notin TestedPulls
    <3>1. Lost' = Lost
      BY <1>3, <1>8, <1>12, <2>3 DEF Lost
    <3>2. collecting' = "build"
      BY <1>1, <1>3, <2>3 DEF TestedPulls
    <3> QED
      BY <1>1, <1>3, <1>4, <2>1, <3>1, <3>2 DEF LossCounted
  <2> QED
    BY <2>2, <2>3
<1> QED
  BY <1>10, <1>11, <1>13, <1>14, <1>15 DEF CollectInv

LEMMA WriteOutputGoes ==
    ASSUME CollectInv, Collected!WriteOutput
    PROVE  CollectInv'
<1>1. PullShape /\ ListWritten /\ InstancesWritten /\ Building /\ LossCounted
  BY DEF CollectInv
<1>2. /\ line \in Sound(prs.lines) \cap TestedPulls /\ ~Cut(all.lines) /\ inspected = {}
      /\ line \in Said(all.lines) \ Said(tasks.lines) /\ (\A i \in Said(all.lines) : i <= line)
      /\ \A k \in Sound(prs.lines) \cap ValidPulls : k < line => k \in Said(all.lines)
      /\ collecting = "second"
  BY <1>1 DEF Collected!WriteOutput, Building
<1>3. line \in 1..PullCount
  BY <1>2 DEF TestedPulls
<1>4. prs.lines[line].id = line
  BY <1>1, <1>2 DEF ListWritten, Sound
<1>5. /\ tasks' = Collected!Added(tasks, line) /\ line' = line + 1 /\ collecting' = "build"
      /\ pullKind' = pullKind /\ prs' = prs /\ all' = all /\ inspected' = inspected
      /\ collectKills' = collectKills
  BY <1>4 DEF Collected!WriteOutput, Collected!Id
<1>6. tasks \in PullFiles
  BY <1>1 DEF PullShape
<1>7. /\ tasks' \in PullFiles /\ ~Cut(tasks'.lines) /\ (Cut(tasks.lines) => SameSaid(tasks, tasks'))
      /\ ~Cut(tasks.lines) => MoreSaid(tasks, tasks', line)
  BY ONLY <1>3, <1>5, <1>6, Adds
<1>8. /\ Said(tasks.lines) \subseteq Said(all.lines) /\ Said(all.lines) \subseteq 1..PullCount
      /\ PullCount \in Nat /\ Said(tasks.lines) \subseteq TestedPulls
  BY <1>1, PullSets DEF InstancesWritten
<1>9. \A j \in Said(tasks.lines) : j < line
  BY <1>2, <1>3, <1>8
<1>10. /\ Rising(tasks'.lines) /\ Said(tasks'.lines) \subseteq Said(tasks.lines) \cup {line}
       /\ ~Cut(tasks.lines) => Said(tasks'.lines) = Said(tasks.lines) \cup {line}
       /\ Cut(tasks.lines) => Said(tasks'.lines) = Said(tasks.lines)
  BY <1>1, <1>7, <1>9 DEF SameSaid, MoreSaid, InstancesWritten
<1>11. PullShape'
  <2>1. line' \in Nat \ {0}
    BY <1>3, <1>5
  <2> QED
    BY <1>1, <1>5, <1>7, <2>1 DEF PullShape
<1>12. ListWritten'
  BY <1>1, <1>5 DEF ListWritten
<1>13. /\ TestedPulls' = TestedPulls /\ ValidPulls' = ValidPulls
       /\ \A m : Listing(m)' = Listing(m)
  BY <1>5 DEF TestedPulls, ValidPulls, Listing
<1>14. InstancesWritten'
  <2>1. \E m \in 0..Len(prs.lines) : Said(all.lines) = Listing(m)
    BY <1>1 DEF InstancesWritten
  <2>2. \E m \in 0..Len(prs'.lines) : Said(all'.lines) = Listing(m)'
    BY <1>5, <1>13, <2>1
  <2>3. Said(tasks'.lines) \subseteq TestedPulls \cap Said(all.lines)
    BY <1>2, <1>8, <1>10
  <2> QED
    BY <1>1, <1>5, <1>10, <1>13, <2>2, <2>3 DEF InstancesWritten
<1>15. Building'
  <2>1. ASSUME NEW k \in Sound(prs.lines) \cap ValidPulls, k < line + 1
        PROVE  k \in Said(all.lines)
    <3>1. k = line \/ k < line
      BY <1>3, <2>1 DEF ValidPulls
    <3> QED
      BY <1>2, <3>1
  <2>2. {i \in Said(all.lines) : i >= line + 1} = {}
    BY <1>2, <1>3, <1>8
  <2> QED
    BY <1>2, <1>5, <1>13, <2>1, <2>2 DEF Building
<1>16. LossCounted'
  <2>1. IsFiniteSet(Lost) /\ Cardinality(Lost) \in Nat /\ collectKills \in Nat
    BY <1>1, PullSets DEF PullShape
  <2>2. CASE Cut(tasks.lines)
    <3>1. Lost' = Lost
      BY <1>5, <1>10, <1>13, <2>2 DEF Lost
    <3> QED
      BY <1>1, <1>2, <1>5, <1>7, <2>1, <2>2, <3>1 DEF LossCounted
  <2>3. CASE ~Cut(tasks.lines)
    <3>1. line \in Lost /\ Lost' = Lost \ {line}
      BY <1>2, <1>5, <1>10, <1>13, <2>3 DEF Lost
    <3>2. Cardinality(Lost') = Cardinality(Lost) - 1
      BY <2>1, <3>1, FS_RemoveElement
    <3> QED
      BY <1>1, <1>2, <1>5, <1>7, <2>1, <2>3, <3>2 DEF LossCounted
  <2> QED
    BY <2>2, <2>3
<1> QED
  BY <1>11, <1>12, <1>14, <1>15, <1>16 DEF CollectInv

LEMMA CollectKill ==
    ASSUME CollectInv, Collected!Kill
    PROVE  CollectInv'
<1>1. PullShape /\ ListWritten /\ InstancesWritten /\ Building /\ LossCounted
  BY DEF CollectInv
<1>2. /\ collectKills' = collectKills + 1 /\ collecting' = "idle" /\ pullKind' = pullKind
      /\ line' = line /\ inspected' = inspected
  BY DEF Collected!Kill
<1>3. collectKills \in Nat /\ IsFiniteSet(Lost) /\ Cardinality(Lost) \in Nat
  BY <1>1, PullSets DEF PullShape
<1>4. Building'
  BY <1>2 DEF Building
<1>5. TestedPulls' = TestedPulls /\ \A m : prs' = prs => Listing(m)' = Listing(m)
  BY <1>2 DEF TestedPulls, ValidPulls, Listing
<1>6. CASE UNCHANGED <<prs, all, tasks>>
  <2>1. PullShape' /\ ListWritten'
    BY <1>1, <1>2, <1>6 DEF PullShape, ListWritten
  <2> QED
    BY <1>2, <1>4, <1>6, <2>1, LinesKept
<1>7. CASE collecting = "list" /\ line <= PullCount /\ prs' = Collected!Torn(prs, line)
           /\ UNCHANGED <<all, tasks>>
  BY <1>2, <1>7, LogGoes
<1>8. CASE Collected!New /\ all' = Collected!Torn(all, Collected!Id) /\ UNCHANGED <<prs, tasks>>
  <2>1. collecting = "build" /\ line \in 1..PullCount /\ all' = Collected!Torn(all, line)
    BY <1>8, AtLine DEF Collected!New
  <2>2. all \in PullFiles
    BY <1>1 DEF PullShape
  <2>3. all' \in PullFiles /\ SameSaid(all, all')
    BY ONLY <2>1, <2>2, Tears
  <2>4. Said(all'.lines) = Said(all.lines) /\ Rising(all'.lines)
    BY <1>1, <2>3 DEF SameSaid, InstancesWritten
  <2>5. PullShape' /\ ListWritten'
    BY <1>1, <1>2, <1>8, <2>3 DEF PullShape, ListWritten
  <2>6. InstancesWritten'
    BY <1>1, <1>5, <1>8, <2>4 DEF InstancesWritten
  <2>7. Lost' = Lost
    BY <1>5, <1>8, <2>4 DEF Lost
  <2>8. LossCounted'
    BY <1>1, <1>2, <1>3, <1>8, <2>7 DEF LossCounted
  <2> QED
    BY <1>4, <2>5, <2>6, <2>8 DEF CollectInv
<1>9. CASE collecting = "second" /\ tasks' = Collected!Torn(tasks, Collected!Id)
           /\ UNCHANGED <<prs, all>>
  <2>1. line \in Sound(prs.lines) /\ line \in TestedPulls
    BY <1>1, <1>9 DEF Building
  <2>2. prs.lines[line].id = line
    BY <1>1, <2>1 DEF ListWritten, Sound
  <2>3. line \in 1..PullCount /\ tasks' = Collected!Torn(tasks, line)
    BY <1>9, <2>1, <2>2 DEF TestedPulls, Collected!Id
  <2>4. tasks \in PullFiles
    BY <1>1 DEF PullShape
  <2>5. tasks' \in PullFiles /\ SameSaid(tasks, tasks')
    BY ONLY <2>3, <2>4, Tears
  <2>6. Said(tasks'.lines) = Said(tasks.lines) /\ Rising(tasks'.lines)
    BY <1>1, <2>5 DEF SameSaid, InstancesWritten
  <2>7. PullShape' /\ ListWritten'
    BY <1>1, <1>2, <1>9, <2>5 DEF PullShape, ListWritten
  <2>8. InstancesWritten'
    BY <1>1, <1>5, <1>9, <2>6 DEF InstancesWritten
  <2>9. Lost' = Lost
    BY <1>5, <1>9, <2>6 DEF Lost
  <2>10. LossCounted'
    BY <1>1, <1>2, <1>3, <1>9, <2>9 DEF LossCounted
  <2> QED
    BY <1>4, <2>7, <2>8, <2>10 DEF CollectInv
<1> QED
  BY <1>6, <1>7, <1>8, <1>9 DEF Collected!Kill

LEMMA CollectStep ==
    ASSUME CollectInv, [Collected!Next]_collectVars
    PROVE  CollectInv'
<1>1. PullShape /\ ListWritten /\ Building
  BY DEF CollectInv
<1>2. CASE UNCHANGED collectVars
  <2>1. PullShape' /\ ListWritten' /\ Building'
    BY <1>1, <1>2 DEF PullShape, ListWritten, Building, ValidPulls, TestedPulls, collectVars
  <2> QED
    BY <1>2, <2>1, LinesKept DEF collectVars
<1>3. CASE Collected!StartPipeline
  <2>1. /\ collecting = "idle" /\ pullKind' = pullKind /\ all' = all /\ tasks' = tasks
        /\ inspected' = inspected /\ collectKills' = collectKills
        /\ \/ /\ ~prs.there /\ prs' = [prs EXCEPT !.there = TRUE] /\ line' = 1
              /\ collecting' = "list"
           \/ prs' = prs /\ line' = line /\ collecting' = "open"
    BY <1>3 DEF Collected!StartPipeline, Collected!Opened
  <2>2. prs' \in PullFiles /\ prs'.lines = prs.lines /\ (collecting' = "list" => prs'.there)
    BY <1>1, <2>1 DEF PullShape, PullFiles
  <2>3. PullShape'
    BY <1>1, <2>1, <2>2 DEF PullShape
  <2>4. prs'.lines = <<>> => line' # 1 \/ (line' = Len(prs'.lines) + 1 /\ ~Cut(prs'.lines))
    BY DEF Cut
  <2>5. ListWritten'
    BY <1>1, <2>1, <2>2, <2>4 DEF ListWritten
  <2>6. Building'
    BY <2>1 DEF Building
  <2> QED
    BY <2>1, <2>2, <2>3, <2>5, <2>6, LinesKept
<1>4. CASE Collected!LogPull
  BY <1>4, LogGoes
<1>5. CASE Collected!Listed \/ Collected!StartBuild \/ Collected!Ends
  <2>1. /\ pullKind' = pullKind /\ prs' = prs /\ all' = all /\ tasks' = tasks /\ line' = line
        /\ inspected' = inspected /\ collectKills' = collectKills /\ collecting' \in {"idle", "open"}
        /\ collecting # "second"
    BY <1>5 DEF Collected!Listed, Collected!StartBuild, Collected!Ends
  <2>2. PullShape' /\ ListWritten' /\ Building'
    BY <1>1, <2>1 DEF PullShape, ListWritten, Building
  <2> QED
    BY <2>1, <2>2, LinesKept
<1>6. CASE Collected!Next /\ ~Collected!LogPull /\ ~Collected!StartPipeline
           /\ ~(Collected!Listed \/ Collected!StartBuild \/ Collected!Ends)
  BY <1>6, OpenGoes, SkipGoes, WriteAllGoes, WriteOutputGoes, CollectKill DEF Collected!Next
<1> QED
  BY <1>2, <1>3, <1>4, <1>5, <1>6

LEMMA CollectKeeps == CollectInv => Collected!InListOrder /\ Collected!LossBounded
<1> SUFFICES ASSUME CollectInv PROVE Collected!InListOrder /\ Collected!LossBounded
  OBVIOUS
<1>1. PullShape /\ ListWritten /\ InstancesWritten /\ LossCounted
  BY DEF CollectInv
<1>2. /\ \A f : Collected!Whole(f) = Sound(f.lines) /\ Collected!Ids(f) = Said(f.lines)
      /\ \A f : Collected!Increasing(f) <=> Rising(f.lines)
  BY DEF Collected!Whole, Collected!Ids, Collected!Increasing, Sound, Said, Rising
<1>3. /\ Len(prs.lines) \in Nat /\ Sound(prs.lines) \subseteq 1..Len(prs.lines)
      /\ Said(prs.lines) \subseteq 1..PullCount /\ Said(all.lines) \subseteq 1..PullCount
      /\ Cardinality(Lost) \in Nat
  BY <1>1, PullSets
<1>4. \A k \in Sound(prs.lines) : prs.lines[k].id = k
  BY <1>1 DEF ListWritten, Sound
<1>5. Rising(prs.lines)
  BY <1>4 DEF Rising
<1>6. \E m \in 0..Len(prs.lines) :
         Said(all.lines) = {i \in {prs.lines[k].id : k \in Sound(prs.lines) \cap 1..m} :
                               pullKind[i] \in {"untested", "tested"}}
  <2>1. PICK m \in 0..Len(prs.lines) : Said(all.lines) = Listing(m)
    BY <1>1 DEF InstancesWritten
  <2>2. \A k \in Sound(prs.lines) : k \in 1..m <=> k <= m
    BY <1>3, <2>1
  <2>3. {prs.lines[k].id : k \in Sound(prs.lines) \cap 1..m} = {k \in Sound(prs.lines) : k <= m}
    BY <1>4, <2>2
  <2>4. Sound(prs.lines) \subseteq 1..PullCount
    BY <1>3, <1>4 DEF Said
  <2> QED
    BY <2>1, <2>3, <2>4 DEF Listing, ValidPulls
<1>7. Collected!InListOrder
  BY <1>1, <1>2, <1>5, <1>6
  DEF InstancesWritten, TestedPulls, Collected!InListOrder, Collected!Valid
<1>8. Collected!LossBounded
  <2>1. Lost = {i \in Said(all.lines) : pullKind[i] = "tested"} \ Said(tasks.lines)
    BY <1>3 DEF Lost, TestedPulls
  <2>2. Collected!Cardinality(Lost) = Cardinality(Lost)
    BY DEF Collected!Cardinality, Cardinality
  <2>3. collectKills \in Nat /\ Cardinality(Lost) <= 2 * collectKills + (IF collecting = "second" THEN 1 ELSE 0)
    BY <1>1, <1>3 DEF LossCounted, PullShape
  <2> QED
    BY <1>2, <2>1, <2>2, <2>3 DEF Collected!LossBounded
<1> QED
  BY <1>7, <1>8

-----------------------------------------------------------------------------
(* The parts together.                                                     *)

Dearest(costs) == CHOOSE x \in costs : \A y \in costs : x >= y

AttemptInv ==
    /\ part = "agent" => AgentInv
    /\ part = "scoring" => RetryInv(FALSE, ScoringLimit, Dearest(ScoringCosts))
    /\ part = "choosing" => RetryInv(TRUE, ChoosingLimit, Dearest(ChoosingCosts))
    /\ part = "batch" => BatchInv
    /\ part = "legacy_two" => LegacyInv(LegacyCases)
    /\ part = "legacy_again" => LegacyInv(1)
    /\ part = "collected" => CollectInv

LEMMA AttemptNumbers ==
    /\ ScoringLimit \in Nat /\ ChoosingLimit \in Nat /\ LegacyCases \in Nat
    /\ ScoringCosts \subseteq Nat /\ ChoosingCosts \subseteq Nat
    /\ Dearest(ScoringCosts) \in Nat /\ \A c \in ScoringCosts : c <= Dearest(ScoringCosts)
    /\ Dearest(ChoosingCosts) \in Nat /\ \A c \in ChoosingCosts : c <= Dearest(ChoosingCosts)
<1>1. /\ ScoringLimit \in Nat /\ ChoosingLimit \in Nat /\ LegacyCases \in Nat
      /\ ScoringCosts \subseteq Nat /\ ScoringCosts # {}
      /\ ChoosingCosts \subseteq Nat /\ ChoosingCosts # {}
  BY InstancesAssumption
  DEF InstancesAssumption, Retrying!SweRetryAssumption, Legacy!LegacyAssumption
<1>2. IsFiniteSet(ScoringCosts) /\ IsFiniteSet(ChoosingCosts)
  BY InstancesAssumption, Zenon
  DEF InstancesAssumption, Retrying!SweRetryAssumption, Retrying!IsFiniteSet, IsFiniteSet
<1>3. Dearest(ScoringCosts) \in Nat /\ \A c \in ScoringCosts : c <= Dearest(ScoringCosts)
  <2>1. \E dearest \in Nat : /\ dearest = CHOOSE x \in ScoringCosts : \A y \in ScoringCosts : x >= y
                             /\ \A c \in ScoringCosts : c <= dearest
    BY <1>1, <1>2, DearestOf
  <2> QED
    BY <2>1 DEF Dearest
<1>4. Dearest(ChoosingCosts) \in Nat /\ \A c \in ChoosingCosts : c <= Dearest(ChoosingCosts)
  <2>1. \E dearest \in Nat : /\ dearest = CHOOSE x \in ChoosingCosts : \A y \in ChoosingCosts : x >= y
                             /\ \A c \in ChoosingCosts : c <= dearest
    BY <1>1, <1>2, DearestOf
  <2> QED
    BY <2>1 DEF Dearest
<1> QED
  BY <1>1, <1>3, <1>4

\* A step of the behaviour is one of the part that it runs.
LEMMA AttemptParts ==
    ASSUME [Next]_vars
    PROVE  /\ UNCHANGED part
           /\ part = "agent" => [Agent!Next]_agentVars
           /\ part = "scoring" => [Retrying(FALSE, ScoringLimit, ScoringCosts)!Next]_retryVars
           /\ part = "choosing" => [Retrying(TRUE, ChoosingLimit, ChoosingCosts)!Next]_retryVars
           /\ part = "batch" => [Batch!Next]_batchVars
           /\ part = "legacy_two" => [Legacy(LegacyCases, 1)!Next]_legacyVars
           /\ part = "legacy_again" => [Legacy(1, MaxLegacyStarts)!Next]_legacyVars
           /\ part = "collected" => [Collected!Next]_collectVars
<1>1. CASE UNCHANGED vars
  BY <1>1 DEF vars
<1>2. CASE Next
  <2>1. UNCHANGED part
    BY <1>2 DEF Next
  <2>2. ASSUME part = "agent" PROVE Agent!Next
    BY <1>2, <2>2 DEF Next
  <2>3. ASSUME part = "scoring" PROVE Retrying(FALSE, ScoringLimit, ScoringCosts)!Next
    BY <1>2, <2>3 DEF Next
  <2>4. ASSUME part = "choosing" PROVE Retrying(TRUE, ChoosingLimit, ChoosingCosts)!Next
    BY <1>2, <2>4 DEF Next
  <2>5. ASSUME part = "batch" PROVE Batch!Next
    BY <1>2, <2>5 DEF Next
  <2>6. ASSUME part = "legacy_two" PROVE Legacy(LegacyCases, 1)!Next
    BY <1>2, <2>6 DEF Next
  <2>7. ASSUME part = "legacy_again" PROVE Legacy(1, MaxLegacyStarts)!Next
    BY <1>2, <2>7 DEF Next
  <2>8. ASSUME part = "collected" PROVE Collected!Next
    BY <1>2, <2>8 DEF Next
  <2> QED
    BY <2>1, <2>2, <2>3, <2>4, <2>5, <2>6, <2>7, <2>8
<1> QED
  BY <1>1, <1>2

LEMMA AttemptStarts == Init => AttemptInv
<1> SUFFICES ASSUME Init PROVE AttemptInv
  OBVIOUS
<1>1. Agent!Init /\ Batch!Init /\ Collected!Init
  BY DEF Init
<1>2. ASSUME part = "scoring" PROVE RetryInv(FALSE, ScoringLimit, Dearest(ScoringCosts))
  <2>1. Retrying(FALSE, ScoringLimit, ScoringCosts)!Init
    BY <1>2 DEF Init
  <2>2. AttemptLimit \in Nat /\ ScoringLimit \in Nat
    BY RetrySettings, AttemptNumbers DEF RetryNumbers
  <2> QED
    BY <2>1, <2>2, RetryInit
<1>3. ASSUME part = "choosing" PROVE RetryInv(TRUE, ChoosingLimit, Dearest(ChoosingCosts))
  <2>1. Retrying(TRUE, ChoosingLimit, ChoosingCosts)!Init
    BY <1>3 DEF Init
  <2>2. AttemptLimit \in Nat /\ ChoosingLimit \in Nat
    BY RetrySettings, AttemptNumbers DEF RetryNumbers
  <2> QED
    BY <2>1, <2>2, RetryInit
<1>4. ASSUME part = "legacy_two" PROVE LegacyInv(LegacyCases)
  <2>1. Legacy(LegacyCases, 1)!Init
    BY <1>4 DEF Init
  <2> QED
    BY <2>1, AttemptNumbers, LegacyInit
<1>5. ASSUME part = "legacy_again" PROVE LegacyInv(1)
  <2>1. Legacy(1, MaxLegacyStarts)!Init
    BY <1>5 DEF Init
  <2> QED
    BY <2>1, LegacyInit
<1> QED
  BY <1>1, <1>2, <1>3, <1>4, <1>5, AgentInit, BatchInit, CollectInit DEF AttemptInv

LEMMA AttemptSteps == AttemptInv /\ [Next]_vars => AttemptInv'
<1> SUFFICES ASSUME AttemptInv, [Next]_vars PROVE AttemptInv'
  OBVIOUS
<1>1. UNCHANGED part
  BY AttemptParts
<1>2. ASSUME part = "agent" PROVE AgentInv'
  BY <1>2, AttemptParts, AgentStep DEF AttemptInv
<1>3. ASSUME part = "scoring" PROVE RetryInv(FALSE, ScoringLimit, Dearest(ScoringCosts))'
  <2>1. /\ RetryInv(FALSE, ScoringLimit, Dearest(ScoringCosts))
        /\ [Retrying(FALSE, ScoringLimit, ScoringCosts)!Next]_retryVars
    BY <1>3, AttemptParts DEF AttemptInv
  <2> QED
    BY ONLY <2>1, AttemptNumbers, RetryStep
<1>4. ASSUME part = "choosing" PROVE RetryInv(TRUE, ChoosingLimit, Dearest(ChoosingCosts))'
  <2>1. /\ RetryInv(TRUE, ChoosingLimit, Dearest(ChoosingCosts))
        /\ [Retrying(TRUE, ChoosingLimit, ChoosingCosts)!Next]_retryVars
    BY <1>4, AttemptParts DEF AttemptInv
  <2> QED
    BY ONLY <2>1, AttemptNumbers, RetryStep
<1>5. ASSUME part = "batch" PROVE BatchInv'
  BY <1>5, AttemptParts, BatchStep DEF AttemptInv
<1>6. ASSUME part = "legacy_two" PROVE LegacyInv(LegacyCases)'
  BY <1>6, AttemptParts, AttemptNumbers, LegacyStep DEF AttemptInv
<1>7. ASSUME part = "legacy_again" PROVE LegacyInv(1)'
  BY <1>7, AttemptParts, LegacyStep DEF AttemptInv
<1>8. ASSUME part = "collected" PROVE CollectInv'
  BY <1>8, AttemptParts, CollectStep DEF AttemptInv
<1> QED
  BY <1>1, <1>2, <1>3, <1>4, <1>5, <1>6, <1>7, <1>8 DEF AttemptInv

\* Whatever ends an attempt whose container lives (an exit, a limit, a failing command, an
\* error of the model), its work is submitted (agents.py: attempt_autosubmission_after_error).
THEOREM WorkSubmitted == Spec => []PatchOfTheLiving
<1>1. AttemptInv => PatchOfTheLiving
  BY DEF AttemptInv, AgentInv, PatchOfTheLiving, Agent!PatchOfTheLiving
<1> QED
  BY <1>1, AttemptStarts, AttemptSteps, PTL DEF Spec

\* Whatever attempts cost, what the retries spend stays below the limit but for one step; an
\* accepted attempt is the one returned, and the chooser's is one that submitted.
THEOREM BestChosen == Spec => []AttemptChosen
<1>1. AttemptInv => AttemptChosen
  <2> SUFFICES ASSUME AttemptInv PROVE AttemptChosen
    OBVIOUS
  <2>1. ASSUME part = "scoring"
        PROVE  /\ Retrying(FALSE, ScoringLimit, ScoringCosts)!BudgetKept
               /\ Retrying(FALSE, ScoringLimit, ScoringCosts)!AcceptedIsReturned
    <3> PICK dearest : dearest = Dearest(ScoringCosts)
      OBVIOUS
    <3>1. RetryInv(FALSE, ScoringLimit, dearest) /\ dearest \in Nat /\ ScoringLimit \in Nat
      BY <2>1, AttemptNumbers DEF AttemptInv
    <3>2. dearest = CHOOSE x \in ScoringCosts : \A y \in ScoringCosts : x >= y
      BY DEF Dearest
    <3> QED
      BY <3>1, <3>2, RetryKeeps
  <2>2. ASSUME part = "choosing"
        PROVE  /\ Retrying(TRUE, ChoosingLimit, ChoosingCosts)!BudgetKept
               /\ Retrying(TRUE, ChoosingLimit, ChoosingCosts)!ChoiceIsSubmitted
    <3> PICK dearest : dearest = Dearest(ChoosingCosts)
      OBVIOUS
    <3>1. RetryInv(TRUE, ChoosingLimit, dearest) /\ dearest \in Nat /\ ChoosingLimit \in Nat
      BY <2>2, AttemptNumbers DEF AttemptInv
    <3>2. dearest = CHOOSE x \in ChoosingCosts : \A y \in ChoosingCosts : x >= y
      BY DEF Dearest
    <3> QED
      BY <3>1, <3>2, RetryKeeps
  <2> QED
    BY <2>1, <2>2 DEF AttemptChosen
<1> QED
  BY <1>1, AttemptStarts, AttemptSteps, PTL DEF Spec

\* Whatever is killed and started again: a prediction is that of the trajectory beside it,
\* the legacy batch gives each session its tests and counts each case as it went, and the
\* collected instances are a beginning of the list, in its order, but for two that each
\* kill may lose.
THEOREM RecordsMatch == Spec => []PredictionMatches
<1>1. AttemptInv => PredictionMatches
  <2> SUFFICES ASSUME AttemptInv PROVE PredictionMatches
    OBVIOUS
  <2>1. ASSUME part = "batch" PROVE Batch!PredictionMatches
    BY <2>1 DEF AttemptInv, BatchInv, Kept, Batch!PredictionMatches
  <2>2. ASSUME part = "legacy_two"
        PROVE  /\ Legacy(LegacyCases, 1)!CaseHasLists /\ Legacy(LegacyCases, 1)!BatchAccounts
    BY <2>2, AttemptNumbers, LegacyKeeps DEF AttemptInv
  <2>3. ASSUME part = "legacy_again"
        PROVE  /\ Legacy(1, MaxLegacyStarts)!CaseHasLists /\ Legacy(1, MaxLegacyStarts)!BatchAccounts
    BY <2>3, LegacyKeeps DEF AttemptInv
  <2>4. ASSUME part = "collected" PROVE Collected!InListOrder /\ Collected!LossBounded
    BY <2>4, CollectKeeps DEF AttemptInv
  <2> QED
    BY <2>1, <2>2, <2>3, <2>4 DEF PredictionMatches
<1> QED
  BY <1>1, AttemptStarts, AttemptSteps, PTL DEF Spec
=============================================================================
