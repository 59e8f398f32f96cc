------------------------------- MODULE Condensing -------------------------------
(***************************************************************************)
(* What OpenHands lets the model see of a long conversation.  Events stay  *)
(* in the history; a condensation is an event that names others to be      *)
(* forgotten, and may hold a summary of them (memory/view.py).  The        *)
(* default pipeline truncates on request and summarises by size            *)
(* (memory/condenser/impl), and what is left becomes messages              *)
(* (memory/conversation_memory.py).  An event's id is its place.           *)
(***************************************************************************)
EXTENDS Integers, Sequences, FiniteSets
LOCAL INSTANCE SequencesExt
LOCAL INSTANCE FiniteSetsExt

CONSTANTS
    MaxSize, KeepFirst,  \* of the LLMSummarizingCondenser
    MaxCalls,            \* tool calls in one response
    MaxEvents, MaxUser, MaxOverflows  \* bounds: events, messages of the user, overflows

\* The constructor admits a tail of length 0 as well, with which get_condensation raises.
CondensingAssumption ==
    /\ KeepFirst \in Nat \ {0} /\ MaxSize \in Nat /\ MaxSize \div 2 - KeepFirst - 1 > 0
    /\ MaxCalls \in Nat \ {0} /\ MaxEvents \in Nat /\ MaxUser \in Nat /\ MaxOverflows \in Nat

VARIABLES
    history,  \* the events of the conversation
    pending,  \* how many actions of the last response are still to be taken
    size      \* number of calls in each response

vars == <<history, pending, size>>

Event(kind) == [kind |-> kind, response |-> 0, call |-> 0, forgotten |-> {}, covers |-> {}]
Ids == 1..Len(history)
Of(kinds) == {i \in Ids : history[i].kind \in kinds}

CondensingTypeOK ==
    /\ \A i \in Ids : /\ history[i].kind \in {"system", "user", "recall", "recalled", "call",
                                               "result", "request", "truncate", "summarise"}
                      /\ history[i].forgotten \cup history[i].covers \subseteq 1..i - 1
    /\ pending \in 0..MaxCalls - 1 /\ \A r \in DOMAIN size : size[r] \in 1..MaxCalls

\* The system prompt, the task, and what memory recalls for it.
Init ==
    /\ history = <<Event("system"), Event("user"), Event("recall"), Event("recalled")>>
    /\ pending = 0 /\ size = <<>>

-----------------------------------------------------------------------------
(* View.from_events                                                        *)

Summary == 0  \* stands in a view for the AgentCondensationObservation

Hidden == Of({"request", "truncate", "summarise"}) \cup UNION {history[i].forgotten : i \in Ids}
Kept ==
    LET hidden == Hidden
        upTo[n \in 0..Len(history)] ==
            IF n = 0 THEN <<>> ELSE IF n \in hidden THEN upTo[n - 1] ELSE Append(upTo[n - 1], n)
    IN  upTo[Len(history)]

Latest(kinds) == Max(Of(kinds) \cup {0})

\* The summary goes where the latest summarising condensation says, or to the end.
OneLater == KeepFirst + 1
Offset == KeepFirst
View ==
    LET kept == Kept
        place == IF Offset < Len(kept) THEN Offset ELSE Len(kept)
    IN  IF Of({"summarise"}) = {} THEN kept ELSE InsertAt(kept, place + 1, Summary)

Unhandled == Latest({"request"}) > Latest({"truncate", "summarise"})

-----------------------------------------------------------------------------
(* The condensers                                                          *)

Elements(s) == {s[i] : i \in DOMAIN s}
IsObservation(i) == i = Summary \/ history[i].kind \in {"recalled", "result"}

\* ConversationWindowCondenser keeps what came first, and half of the rest from the first
\* action in it on.
Essential == {i \in 1..4 : i \in Elements(View) /\ (i = 4 => 3 \in Elements(View))}
Recent ==
    LET view == View
        others == Len(view) - Cardinality(Essential)
        start == Len(view) - Max({1, others \div 2}) + 1
    IN  {view[j] : j \in {j \in start..Len(view) : \E i \in start..j : ~IsObservation(view[i])}}
Truncation ==
    [Event("truncate") EXCEPT !.forgotten = Elements(View) \ (Essential \cup Recent \cup {Summary})]

\* LLMSummarizingCondenser keeps a head, a summary and a tail, half the size together.
Tail1 == MaxSize \div 2 - KeepFirst
TailSize == MaxSize \div 2 - KeepFirst - 1
IsLong == Len(View) > MaxSize
Summarising ==
    LET view == View
        middle == Elements(SubSeq(view, KeepFirst + 1, Len(view) - TailSize)) \ {Summary}
        previous == IF view[KeepFirst + 1] = Summary
                    THEN history[Latest({"summarise"})].covers ELSE {}
    IN  [Event("summarise") EXCEPT
            !.forgotten = Min(middle)..Max(middle),
            !.covers = previous \cup middle]

-----------------------------------------------------------------------------
(* The agent's steps                                                       *)

Adds(e) == Len(history) < MaxEvents /\ history' = Append(history, e)

\* The action that was taken last has its observation.
Answered ==
    \A i \in Of({"call"}) : \E j \in Of({"result"}) : /\ history[j].response = history[i].response
                                                      /\ history[j].call = history[i].call

Call(r, c) == [Event("call") EXCEPT !.response = r, !.call = c]

\* step: a pending action comes before anything else.
TakePending ==
    /\ Answered /\ pending > 0 /\ pending' = pending - 1
    /\ Adds(Call(Len(size), size[Len(size)] - pending + 1))
    /\ UNCHANGED size

Condense ==
    /\ Answered /\ pending = 0
    /\ \/ Unhandled /\ Adds(Truncation)
       \/ ~Unhandled /\ IsLong /\ Adds(Summarising)
    /\ UNCHANGED <<pending, size>>

CallsModel == Answered /\ pending = 0 /\ ~Unhandled /\ ~IsLong

ModelAnswers ==
    /\ CallsModel
    /\ \E n \in 1..MaxCalls : size' = Append(size, n) /\ pending' = n - 1
    /\ Adds(Call(Len(size) + 1, 1))

\* The context window is exceeded, of the agent's call or of the summariser's: the
\* controller asks for a condensation.
Overflows ==
    /\ Answered /\ pending = 0 /\ ~Unhandled /\ Cardinality(Of({"request"})) < MaxOverflows /\ Adds(Event("request"))
    /\ UNCHANGED <<pending, size>>

Result ==
    /\ \E i \in Of({"call"}) :
         /\ i = Latest({"call"}) /\ ~Answered
         /\ Adds([Event("result") EXCEPT !.response = history[i].response,
                                         !.call = history[i].call])
    /\ UNCHANGED <<pending, size>>

UserSays ==
    /\ Cardinality(Of({"user"})) <= MaxUser /\ Adds(Event("user"))
    /\ UNCHANGED <<pending, size>>

Next ==
    TakePending \/ Condense \/ ModelAnswers \/ Overflows \/ Result \/ UserSays

Spec == Init /\ [][Next]_vars

-----------------------------------------------------------------------------
(* Properties                                                              *)

Conversation == Of({"system", "user", "recall", "recalled", "call", "result"})

\* Through any number of condensations, what the model does not see as it was is behind
\* the summary that it sees, or was cut off when the context window overflowed.
Covered ==
    LET summary == Latest({"summarise"})
        covers == IF summary = 0 THEN {} ELSE history[summary].covers
        cut == UNION {history[i].forgotten : i \in Of({"truncate"})}
    IN  Conversation \subseteq Elements(View) \cup covers \cup cut

\* The system prompt and the task are never forgotten.
TaskKept == {1, 2} \subseteq Elements(View)

\* A summarising condensation leaves half the size, so that the agent goes on.
Shrinks == Latest({"summarise"}) = Len(history) => Len(View) <= MaxSize \div 2

ContextKept == Covered /\ TaskKept /\ Shrinks

-----------------------------------------------------------------------------
(* What the code does not keep                                             *)

\* process_events holds a response back until the results of all its calls have come.
Shown(r) ==
    /\ \E i \in Of({"call"}) \cap Elements(View) : history[i].response = r
    /\ \A c \in 1..size[r] :
         \E i \in Of({"result"}) \cap Elements(View) : history[i].response = r /\ history[i].call = c

\* conversation_window_condenser.py:28: "Ensures action-observation pairs are preserved".
\* Of a response with two calls the first may be cut off, and then no message shows the
\* pair that is kept.
PairsShown ==
    CallsModel =>
        \A i \in Of({"call"}) \cap Elements(View), j \in Of({"result"}) \cap Elements(View) :
            history[i].response = history[j].response /\ history[i].call = history[j].call
            => Shown(history[i].response)
=============================================================================
