------------------------------- MODULE SweRetry -------------------------------
(***************************************************************************)
(* SWE-agent's RetryAgent (sweagent/agent/agents.py) with its two retry    *)
(* loops (reviewer.py): attempts are made in turn, each in a container of  *)
(* its own, until one is accepted or the budget is used; then the best is  *)
(* chosen, by the scores of the reviewer or by a model that compares them. *)
(* The steps of an attempt are those of SweAgent, seen from outside: what  *)
(* they cost and what is in the attempt's info.                            *)
(***************************************************************************)
EXTENDS Integers, Sequences, FiniteSets, FiniteSetsExt

CONSTANTS
    Chooser,      \* BOOLEAN: ChooserRetryLoop, or ScoreRetryLoop
    Limit,        \* retry_loop.cost_limit
    AgentLimit,   \* per_instance_cost_limit of the attempts
    MinBudget,    \* min_budget_for_new_attempt
    MaxAttempts,  \* max_attempts
    MaxAccepts,   \* max_accepts
    Scores,       \* what a review may come to
    AcceptScore,  \* accept_score
    Penalty,      \* failure_score_penalty
    StepCosts,    \* what a step may cost
    MaxCalls      \* bound: queries of an attempt

SweRetryAssumption ==
    /\ Chooser \in BOOLEAN
    /\ {Limit, AgentLimit, MinBudget, MaxAttempts, MaxAccepts, Penalty, MaxCalls} \subseteq Nat
    /\ AcceptScore \in Int /\ Scores \subseteq Int
    /\ IsFiniteSet(StepCosts) /\ StepCosts \subseteq Nat /\ StepCosts # {}

VARIABLES
    pc,        \* "attempt", "submitted", "saving", "returning", "over"
    cur,       \* the attempt at work
    attempts,  \* _attempt_data, with the review of each
    spent,     \* _total_instance_attempt_stats: cost of the attempts that have ended
    reviews,   \* cost of the reviews
    chosen,    \* _chooser_output of the chooser loop
    saved,     \* best attempt in the trajectory file
    returned   \* best attempt in the result of run

vars == <<pc, cur, attempts, spent, reviews, chosen, saved, returned>>

NoIndex == 0
Exits == {"", "submitted", "exit_cost", "exit_error"}

\* work: the repository has edits; patch: info["submission"] is one; failed: the
\* retry agent had to extract the patch itself.
Attempt == [limit : Int, cost : Nat, calls : Nat, work : BOOLEAN, patch : BOOLEAN,
            exit : Exits, failed : BOOLEAN]

SweRetryTypeOK ==
    /\ pc \in {"attempt", "submitted", "saving", "returning", "over"}
    /\ cur \in Attempt
    /\ \A i \in DOMAIN attempts :
        /\ DOMAIN attempts[i] = DOMAIN cur \cup {"score"}
        /\ attempts[i].score \in Int
    /\ MaxAttempts > 0 => Len(attempts) <= MaxAttempts
    /\ spent \in Nat /\ reviews \in Nat
    /\ {chosen, saved, returned} \subseteq {NoIndex} \cup DOMAIN attempts

\* _total_instance_stats: the attempts that have ended, and the reviews.
Total == spent + reviews

\* _setup_agent: an attempt gets what is left of the budget.
Setup(left) ==
    [limit |-> IF left < AgentLimit THEN left ELSE AgentLimit, cost |-> 0, calls |-> 0,
     work |-> FALSE, patch |-> FALSE, exit |-> "", failed |-> FALSE]

Init ==
    /\ pc = "attempt" /\ cur = Setup(Limit)
    /\ attempts = <<>> /\ spent = 0 /\ reviews = 0
    /\ chosen = NoIndex /\ saved = NoIndex /\ returned = NoIndex

-----------------------------------------------------------------------------
(* The attempt                                                             *)

Failsafe == 10 * Total > 11 * Limit /\ Limit > 0

\* What the retry agent extracts itself is in the step, not in the info.
Extracts ==
    /\ cur' = [cur EXCEPT !.failed = TRUE]
    /\ pc' = "submitted"

Step ==
    /\ pc = "attempt"
    /\ IF Failsafe THEN Extracts
       ELSE \/ Extracts
            \/ cur.calls < MaxCalls /\ \E c \in StepCosts, w \in BOOLEAN :
                LET a == [cur EXCEPT !.cost = @ + c, !.calls = @ + 1, !.work = w]
                    over == 0 < a.limit /\ a.limit < a.cost
                IN  \/ ~over /\ cur' = a /\ pc' = "attempt"
                    \/ ~over /\ cur' = [a EXCEPT !.patch = w, !.exit = "submitted"] /\ pc' = "submitted"
                    \/ /\ cur' = [a EXCEPT !.patch = w, !.exit = IF over THEN "exit_cost" ELSE "exit_error"]
                       /\ pc' = "submitted"
    /\ UNCHANGED <<attempts, spent, reviews, chosen, saved, returned>>

-----------------------------------------------------------------------------
(* The retry loops                                                         *)

\* The review of an attempt that was not submitted is worth less; a reviewer
\* that gives no usable score fails it.  The chooser has no reviews.
NoScore == -100
Ratings == IF Chooser THEN {NoScore} ELSE Scores \cup {NoScore}
Reviewed(raw) == IF cur.exit = "submitted" THEN raw ELSE raw - Penalty

\* _finalize_agent_run, and the review beside it.
Rated(score) ==
    [x \in DOMAIN cur \cup {"score"} |-> IF x = "score" THEN score ELSE cur[x]]

Accepted(as) == Cardinality({i \in DOMAIN as : as[i].score >= AcceptScore})

\* retry: costs, attempts and reviews have been added up.
AttemptsLeft(as) == Len(as) < MaxAttempts \/ MaxAttempts = 0
IgnoresMinimum(as, total) ==
    /\ ~(total > Limit /\ Limit > 0) /\ AttemptsLeft(as)
    /\ Chooser \/ ~(Accepted(as) >= MaxAccepts /\ MaxAccepts > 0)
Retry(as, total) ==
    /\ ~(total > Limit /\ Limit > 0)
    /\ AttemptsLeft(as)
    /\ Chooser \/ ~(Accepted(as) >= MaxAccepts /\ MaxAccepts > 0)
    /\ ~(MinBudget > 0 /\ Limit - total < MinBudget)

\* on_submit, _finalize_agent_run, and the next attempt or the end.
Submit ==
    /\ pc = "submitted"
    /\ \E raw \in Ratings, c \in IF Chooser THEN {0} ELSE StepCosts :
        LET as == Append(attempts, Rated(Reviewed(raw)))
            total == Total + cur.cost + c
        IN  /\ attempts' = as
            /\ spent' = spent + cur.cost /\ reviews' = reviews + c
            /\ IF Retry(as, total)
               THEN cur' = Setup(Limit - total) /\ pc' = "attempt"
               ELSE cur' = cur /\ pc' = "saving"
    /\ UNCHANGED <<chosen, saved, returned>>

\* ScoreRetryLoop.get_best: the highest score, then the fewest calls.
Shortest(as) == Min({i \in DOMAIN as : \A j \in DOMAIN as : as[i].calls <= as[j].calls})
Queries(a) == IF a.calls = 0 THEN 1000 ELSE a.calls
Scored(as) ==
    LET top == {i \in DOMAIN as : \A j \in DOMAIN as : as[j].score <= as[i].score}
    IN  Min({i \in top : \A j \in top : Queries(as[i]) <= Queries(as[j])})

\* ChooserRetryLoop.get_best: among those submitted, when there are two, and of
\* more than two those a model has preselected; its answer may be no index.
Candidates ==
    LET done == {i \in DOMAIN attempts : attempts[i].exit = "submitted"}
    IN  IF Cardinality(done) >= 2 THEN done ELSE DOMAIN attempts

Preselections(S) == IF Cardinality(S) <= 2 THEN {S} ELSE (SUBSET S) \ {{}}

\* A query that fails leaves the response undefined: nothing is cached, and the
\* caller takes the first attempt.
GetBest(best, cache) ==
    IF ~Chooser THEN best = Scored(attempts) /\ cache = chosen
    ELSE IF chosen # NoIndex THEN best = chosen /\ cache = chosen
    ELSE \/ \E S \in Preselections(Candidates) : best \in S /\ cache = best
         \/ best = 1 /\ cache = NoIndex

Save ==
    /\ pc = "saving" /\ pc' = "returning"
    /\ \E i \in DOMAIN attempts, cache \in 0..Len(attempts) :
        GetBest(i, cache) /\ saved' = i /\ chosen' = cache
    /\ UNCHANGED <<cur, attempts, spent, reviews, returned>>

Return ==
    /\ pc = "returning" /\ pc' = "over"
    /\ \E i \in DOMAIN attempts, cache \in 0..Len(attempts) :
        GetBest(i, cache) /\ returned' = i /\ chosen' = cache
    /\ UNCHANGED <<cur, attempts, spent, reviews, saved>>

Next == Step \/ Submit \/ Save \/ Return

Spec == Init /\ [][Next]_vars

-----------------------------------------------------------------------------
(* Properties                                                              *)

\* reviewer.py:217: the limit is on all attempts and reviews except the last review; a query
\* is counted after it was made.  An attempt that starts with something left keeps to the
\* limit but for its last query.  One that starts when exactly the limit is spent is given a
\* limit of 0, which is none; a minimum for new attempts (reviewer.py:186, :211, by default
\* 0) keeps it from starting.
BudgetKept ==
    Limit > 0 /\ AgentLimit > 0 /\ pc \in {"attempt", "submitted"} =>
        /\ Total <= Limit
        /\ MinBudget > 0 => Total < Limit
        /\ Total < Limit => Total + cur.cost <= Limit + Max(StepCosts)

\* An attempt that the reviewer accepted is what is returned, if there is one.
AcceptedIsReturned ==
    (pc = "over" /\ ~Chooser /\ Accepted(attempts) > 0) => attempts[returned].score >= AcceptScore

\* reviewer.py:549: the choice is made once: the file and the result agree.
SavedIsReturned == pc = "over" => saved = returned

Submitted == {i \in DOMAIN attempts : attempts[i].exit = "submitted"}

\* Whatever the preselection and the model answer, with two submitted attempts
\* the chooser takes one of them.
ChoiceIsSubmitted == chosen # NoIndex /\ Cardinality(Submitted) >= 2 => chosen \in Submitted

\* reviewer.py:334: so does the file, also when the chooser fails.
SubmittedPreferred ==
    saved # NoIndex /\ Chooser /\ Cardinality(Submitted) >= 2 => saved \in Submitted

\* agents.py:330: after an error the work is submitted all the same.
FailedIsSubmitted ==
    \A i \in DOMAIN attempts : attempts[i].failed /\ attempts[i].work => attempts[i].patch
=============================================================================
