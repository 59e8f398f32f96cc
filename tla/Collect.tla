-------------------------------- MODULE Collect --------------------------------
(***************************************************************************)
(* SWE-bench's collection of task instances from the pull requests of a    *)
(* repository (SWE-bench/swebench/collect): get_tasks_pipeline.py lists    *)
(* the pull requests (print_pulls.py) and builds the instances from them   *)
(* (build_dataset.py, which can also be started alone).  Each appends to   *)
(* files line by line, and a kill can leave the last line torn.            *)
(***************************************************************************)
EXTENDS Integers, Sequences, FiniteSets

CONSTANTS
    N,                  \* pull requests, in the order in which GitHub lists them
    MaxStarts, MaxKills \* bounds

CollectAssumption == N \in Nat /\ MaxStarts \in Nat /\ MaxKills \in Nat

VARIABLES
    kind,              \* what each pull request turns out to be
    prs, all, output,  \* the list, the valid instances, and those with tests
    pc, at, seen,      \* of the script: step, line of the list, ids not to be repeated
    starts, kills

vars == <<kind, prs, all, output, pc, at, seen, starts, kills>>

Pulls == 1..N
\* Not merged or without issue; without patch or problem; valid; valid and with tests.
Kinds == {"unmerged", "empty", "untested", "tested"}
\* A torn line has no end; what is appended to it makes one line of both, which is junk.
Lines == [id : Pulls, st : {"whole", "torn", "junk"}]
File == [there : BOOLEAN, lines : Seq(Lines)]
Absent == [there |-> FALSE, lines |-> <<>>]
Truncated(f) == [there |-> TRUE, lines |-> <<>>]
Opened(f) == [f EXCEPT !.there = TRUE]

CollectTypeOK ==
    /\ kind \in [Pulls -> Kinds]
    /\ \A f \in {prs, all, output} : f \in File /\ (f.lines # <<>> => f.there)
    /\ pc \in {"idle", "list", "open", "build", "second"} /\ at \in 1..(N + 1)
    /\ seen \subseteq Pulls /\ starts \in 0..MaxStarts /\ kills \in 0..MaxKills

Init ==
    /\ kind \in [Pulls -> Kinds] /\ prs = Absent /\ all = Absent /\ output = Absent
    /\ pc = "idle" /\ at = 1 /\ seen = {} /\ starts = 0 /\ kills = 0

EndsTorn(f) == f.lines # <<>> /\ f.lines[Len(f.lines)].st = "torn"

Added(f, id) ==
    [f EXCEPT !.lines = IF EndsTorn(f) THEN [@ EXCEPT ![Len(@)].st = "junk"]
                        ELSE Append(@, [id |-> id, st |-> "whole"])]

Torn(f, id) ==
    IF EndsTorn(f) THEN f ELSE [f EXCEPT !.lines = Append(@, [id |-> id, st |-> "torn"])]

Whole(f) == {k \in DOMAIN f.lines : f.lines[k].st = "whole"}
Readable(f) == Whole(f) = DOMAIN f.lines
Ids(f) == {f.lines[k].id : k \in Whole(f)}

-----------------------------------------------------------------------------
(* get_tasks_pipeline.py and print_pulls.py                                *)

\* A list that is there is taken as it is, and so are the instances.
StartPipeline ==
    /\ pc = "idle" /\ starts < MaxStarts /\ starts' = starts + 1
    /\ \/ ~prs.there /\ prs' = Opened(prs) /\ at' = 1 /\ pc' = "list"
       \/ prs.there /\ ~output.there /\ pc' = "open" /\ UNCHANGED <<prs, at>>
    /\ UNCHANGED <<kind, all, output, seen, kills>>

LogPull ==
    /\ pc = "list" /\ at <= N /\ prs' = Added(prs, at) /\ at' = at + 1
    /\ UNCHANGED <<kind, all, output, pc, seen, starts, kills>>

Listed ==
    /\ pc = "list" /\ at > N /\ pc' = IF output.there THEN "idle" ELSE "open"
    /\ UNCHANGED <<kind, prs, all, output, at, seen, starts, kills>>

-----------------------------------------------------------------------------
(* build_dataset.py                                                        *)

StartBuild ==
    /\ pc = "idle" /\ prs.there /\ starts < MaxStarts /\ starts' = starts + 1 /\ pc' = "open"
    /\ UNCHANGED <<kind, prs, all, output, at, seen, kills>>

NoneSeen == {}
SeenBefore == Ids(all)

\* "Continue where we left off": json.loads fails on a line that is torn.
OpenOutputs ==
    /\ pc = "open"
    /\ IF Readable(all)
       THEN /\ seen' = SeenBefore /\ at' = 1 /\ pc' = "build"
            /\ all' = Opened(all) /\ output' = Opened(output)
       ELSE pc' = "idle" /\ UNCHANGED <<all, output, at, seen>>
    /\ UNCHANGED <<kind, prs, starts, kills>>

Id == prs.lines[at].id
More == pc = "build" /\ at <= Len(prs.lines) /\ prs.lines[at].st = "whole"

Skip ==
    /\ More /\ (Id \in seen \/ kind[Id] \in {"unmerged", "empty"})
    /\ seen' = seen \ {Id} /\ at' = at + 1
    /\ UNCHANGED <<kind, prs, all, output, pc, starts, kills>>

New == More /\ Id \notin seen /\ kind[Id] \in {"untested", "tested"}

WriteAll ==
    /\ New
    /\ all' = Added(all, Id)
    /\ IF kind[Id] = "tested" THEN pc' = "second" /\ UNCHANGED at
       ELSE at' = at + 1 /\ UNCHANGED pc
    /\ UNCHANGED <<kind, prs, output, seen, starts, kills>>

WriteOutput ==
    /\ pc = "second" /\ output' = Added(output, Id) /\ at' = at + 1 /\ pc' = "build"
    /\ UNCHANGED <<kind, prs, all, seen, starts, kills>>

\* The end of the list, a line of it that is torn, or a call to GitHub that fails.
Ends ==
    /\ pc \in {"list", "open", "build"} /\ pc' = "idle"
    /\ UNCHANGED <<kind, prs, all, output, at, seen, starts, kills>>

\* A kill, which may come while a line is written.
Kill ==
    /\ pc # "idle" /\ kills < MaxKills /\ kills' = kills + 1 /\ pc' = "idle"
    /\ \/ UNCHANGED <<prs, all, output>>
       \/ pc = "list" /\ at <= N /\ prs' = Torn(prs, at) /\ UNCHANGED <<all, output>>
       \/ New /\ all' = Torn(all, Id) /\ UNCHANGED <<prs, output>>
       \/ pc = "second" /\ output' = Torn(output, Id) /\ UNCHANGED <<prs, all>>
    /\ UNCHANGED <<kind, at, seen, starts>>

Next ==
    \/ StartPipeline \/ LogPull \/ Listed \/ StartBuild \/ OpenOutputs \/ Skip \/ WriteAll
    \/ WriteOutput \/ Ends \/ Kill

Spec == Init /\ [][Next]_vars

-----------------------------------------------------------------------------
(* Properties                                                              *)

Valid(i) == kind[i] \in {"untested", "tested"}
Increasing(f) == \A j, k \in Whole(f) : j < k => f.lines[j].id < f.lines[k].id

\* Across kills and restarts the valid instances are those of a beginning of the list, each
\* once and in its order; and what has tests is among them, once and in that order.
InListOrder ==
    /\ \E m \in 0..Len(prs.lines) :
           Ids(all) = {i \in {prs.lines[k].id : k \in Whole(prs) \cap 1..m} : Valid(i)}
    /\ \A i \in Ids(output) : kind[i] = "tested" /\ i \in Ids(all)
    /\ Increasing(prs) /\ Increasing(all) /\ Increasing(output)

\* An instance with tests is in the output, but for two that each kill may lose: the one
\* being written, which counts as inspected, and the one whose line is added to a torn one.
LossBounded ==
    Cardinality({i \in Ids(all) : kind[i] = "tested"} \ Ids(output))
        <= 2 * kills + (IF pc = "second" THEN 1 ELSE 0)

-----------------------------------------------------------------------------
(* What the code does not keep                                             *)

\* After a kill between the two files, its instance is "already inspected", and never
\* reaches the output (build_dataset.py:123, "Continue where we left off").
NoneLost == pc = "build" => \A i \in Ids(all) : kind[i] = "tested" => i \in Ids(output)

\* A list that a kill has cut short is taken for the whole one.
ListIsWhole == pc = "build" => Ids(prs) = Pulls
=============================================================================
