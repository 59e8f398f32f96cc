------------------------------ MODULE BashSession ------------------------------
(***************************************************************************)
(* The shell of an OpenHands sandbox (runtime/utils/bash.py): commands are *)
(* typed into a terminal and what they did is read off its screen.  The    *)
(* session, the terminal with the shell, and the command that runs in it   *)
(* are three processes that share the screen.                              *)
(***************************************************************************)
EXTENDS Integers, Sequences, FiniteSets, SequencesExt

CONSTANTS
    MaxCalls,     \* bound: texts that are sent
    MaxLines,     \* bound: lines that a command writes
    History,      \* HISTORY_LIMIT: entries that the screen keeps
    Inputs,       \* are texts sent as input to the running command?
    Eager,        \* does the shell take what is typed before the next look at the screen?
    Timeouts      \* do calls time out?

BashAssumption ==
    /\ MaxCalls \in Nat /\ MaxLines \in Nat /\ History \in Nat \ {0}
    /\ {Inputs, Eager, Timeouts} \subseteq BOOLEAN

VARIABLES
    pane,     \* the screen: prompts, texts echoed and lines of output
    typed,    \* texts sent to the terminal that nobody has read
    fg,       \* the text that runs as a command, or 0
    wrote,    \* how many lines each has written
    call,     \* the call of execute under way
    prev,     \* prev_status, prev_output
    sent,     \* texts sent, and the last of them that was sent as a command
    told,     \* how often each line of output was shown to the agent
    answer    \* the last observation

vars == <<pane, typed, fg, wrote, call, prev, sent, told, answer>>

Ids == 1..MaxCalls
Lines == Ids \X (1..MaxLines)
Entry(kind, id, n) == [kind |-> kind, id |-> id, n |-> n]
Prompt(id) == Entry("prompt", id, 0)

IsPrompt(e) == e.kind = "prompt"
Prompts(p) == Cardinality({i \in DOMAIN p : IsPrompt(p[i])})
FirstId(p) == Head(SelectSeq(p, IsPrompt)).id
LastId(p) == Last(SelectSeq(p, IsPrompt)).id
Shows(p, e) == LET q == Append(p, e) IN IF Len(q) > History THEN Tail(q) ELSE q
NoCall == [pc |-> "idle", id |-> 0, prompts |-> 0]

BashTypeOK ==
    /\ Len(pane) <= History /\ \A i \in DOMAIN pane : pane[i].kind \in {"prompt", "echo", "out"}
    /\ \A i \in DOMAIN typed : typed[i].id \in Ids
    /\ fg \in {0} \cup Ids /\ wrote \in [Ids -> 0..MaxLines]
    /\ call.pc \in {"idle", "poll"} /\ call.id \in {0} \cup Ids /\ call.prompts \in 0..History
    /\ prev.status \in {"none", "completed", "timeout"}
    /\ sent.last \in 0..MaxCalls /\ sent.command \in 0..sent.last
    /\ \A l \in Lines : told[l] \in 0..2

Init ==
    /\ pane = <<Prompt(0)>> /\ typed = <<>> /\ fg = 0 /\ wrote = [i \in Ids |-> 0]
    /\ call = NoCall /\ prev = [status |-> "none", output |-> <<>>]
    /\ sent = [last |-> 0, command |-> 0] /\ told = [l \in Lines |-> 0]
    /\ answer = [kind |-> "none", exit |-> 0]

-----------------------------------------------------------------------------
(* What is read off the screen                                             *)

IsText(e) == e.kind # "prompt"
Texts(p) == SelectSeq(p, IsText)
From(p) == SubSeq(p, SelectInSeq(p, IsPrompt), Len(p))

\* _combine_outputs_between_matches
Combined(p, before) ==
    IF Prompts(p) = 0 THEN p
    ELSE IF Prompts(p) = 1 /\ before THEN SubSeq(p, 1, SelectInSeq(p, IsPrompt) - 1)
    ELSE Texts(From(p))

\* _get_command_output: what was shown before is not shown again.
Whole(raw) == raw
Fresh(raw) == IF IsPrefix(prev.output, raw) THEN SubSeq(raw, Len(prev.output) + 1, Len(raw)) ELSE raw

Tell(raw) ==
    LET new == Fresh(raw)
    IN  told' = [l \in Lines |->
                    IF \E i \in DOMAIN new : new[i] = Entry("out", l[1], l[2])
                    THEN (IF told[l] = 2 THEN 2 ELSE told[l] + 1) ELSE told[l]]

EndsWithPrompt(p) == p # <<>> /\ IsPrompt(Last(p))

\* execute, 1): a new prompt, or a prompt at the end.
MorePrompts(p) == Prompts(p) > call.prompts
Completed(p) == Prompts(p) > call.prompts \/ EndsWithPrompt(p)

-----------------------------------------------------------------------------
(* execute                                                                 *)

\* Nothing to look at or to interact with is answered at once.  A command is refused
\* while the one that timed out still runs.
NeverRefuses == FALSE
Refuses == prev.status = "timeout" /\ ~EndsWithPrompt(pane)

Look ==
    /\ call.pc = "idle" /\ prev.status = "timeout"
    /\ call' = [pc |-> "poll", id |-> sent.last, prompts |-> Prompts(pane)]
    /\ UNCHANGED <<pane, typed, fg, wrote, prev, sent, told, answer>>

Refuse ==
    /\ call.pc = "idle" /\ Refuses
    /\ Tell(Combined(pane, FALSE)) /\ prev' = [prev EXCEPT !.output = Combined(pane, FALSE)]
    /\ answer' = [kind |-> "refused", exit |-> 0]
    /\ UNCHANGED <<pane, typed, fg, wrote, call, sent>>

MaySend(input) ==
    IF input THEN prev.status = "timeout" ELSE ~Refuses

Send(input) ==
    LET id == sent.last + 1
    IN  /\ call.pc = "idle" /\ sent.last < MaxCalls /\ MaySend(input)
        /\ typed' = Append(typed, [id |-> id, input |-> input])
        /\ call' = [pc |-> "poll", id |-> id, prompts |-> Prompts(pane)]
        /\ sent' = [last |-> id, command |-> IF input THEN sent.command ELSE id]
        /\ UNCHANGED <<pane, fg, wrote, prev, told, answer>>

Looks == call.pc = "poll" /\ (Eager => typed = <<>> \/ fg # 0)

\* _handle_completed_command: the screen is cleared up to the prompt, unless a
\* program that runs gets the key.
PollCompletes ==
    /\ Looks /\ Completed(pane)
    /\ Tell(Combined(pane, Prompts(pane) = 1))
    /\ answer' = [kind |-> "completed", exit |-> LastId(pane)]
    /\ prev' = [status |-> "completed", output |-> <<>>]
    /\ pane' = IF fg = 0 /\ typed = <<>> THEN <<Prompt(LastId(pane))>> ELSE pane
    /\ call' = NoCall
    /\ UNCHANGED <<typed, fg, wrote, sent>>

\* The two timeouts differ in what is said only.
PollTimesOut ==
    /\ Looks /\ Timeouts /\ ~Completed(pane)
    /\ Tell(Combined(pane, FALSE)) /\ prev' = [status |-> "timeout", output |-> Combined(pane, FALSE)]
    /\ answer' = [kind |-> "running", exit |-> 0]
    /\ call' = NoCall
    /\ UNCHANGED <<pane, typed, fg, wrote, sent>>

-----------------------------------------------------------------------------
(* The terminal, the shell and the command                                 *)

\* The shell at its prompt runs what was typed, input or not.
ShellReads ==
    /\ fg = 0 /\ typed # <<>>
    /\ fg' = Head(typed).id /\ typed' = Tail(typed)
    /\ pane' = Shows(pane, Entry("echo", Head(typed).id, 0))
    /\ UNCHANGED <<wrote, call, prev, sent, told, answer>>

ProgramReads ==
    /\ fg # 0 /\ typed # <<>> /\ typed' = Tail(typed)
    /\ pane' = Shows(pane, Entry("echo", Head(typed).id, 0))
    /\ UNCHANGED <<fg, wrote, call, prev, sent, told, answer>>

Writes ==
    /\ fg # 0 /\ wrote[fg] < MaxLines
    /\ wrote' = [wrote EXCEPT ![fg] = @ + 1]
    /\ pane' = Shows(pane, Entry("out", fg, wrote[fg] + 1))
    /\ UNCHANGED <<typed, fg, call, prev, sent, told, answer>>

Exits ==
    /\ fg # 0 /\ fg' = 0 /\ pane' = Shows(pane, Prompt(fg))
    /\ UNCHANGED <<typed, wrote, call, prev, sent, told, answer>>

Next ==
    \/ Look \/ Refuse \/ Send(FALSE) \/ (Inputs /\ Send(TRUE))
    \/ PollCompletes \/ PollTimesOut
    \/ ShellReads \/ ProgramReads \/ Writes \/ Exits

Spec == Init /\ [][Next]_vars

\* The shell and the session go on; a program need not read, write or end.
FairSpec == Spec /\ WF_vars(PollCompletes) /\ WF_vars(ShellReads)

-----------------------------------------------------------------------------
(* Properties                                                              *)

\* What is said to have completed is the command that was sent last.
HonestCompletion == answer.kind = "completed" /\ call.pc = "idle" => answer.exit = sent.command

\* The agent sees each line of output once: no line twice, and none is left out when
\* the command is over.
OutputOnce ==
    /\ \A l \in Lines : told[l] <= 1
    /\ call.pc = "idle" /\ answer.kind = "completed" /\ fg = 0 /\ typed = <<>>
       => \A i \in Ids : \A n \in 1..wrote[i] : told[<<i, n>>] = 1

NoneTwice == \A l \in Lines : told[l] <= 1

\* A command is typed at the prompt, never into a program that runs.
TypesAtPrompt == sent'.command # sent.command => fg = 0 /\ typed = <<>>
SentToShell == [][TypesAtPrompt]_vars

\* Input goes to the program that runs, never to the shell.
InputReachesProgram ==
    [][fg = 0 /\ fg' # 0 => ~Head(typed).input]_vars
=============================================================================
