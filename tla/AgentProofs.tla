----------------------------- MODULE AgentProofs -----------------------------
(***************************************************************************)
(* Proofs about what agents of OpenHands do: their controllers delegate,   *)
(* their shell runs commands, and their events are stored and handed out.  *)
(***************************************************************************)
EXTENDS SessionProofs

-----------------------------------------------------------------------------
(* Delegation.                                                             *)

DelegateKinds == {"change", "message", "finish", "reject", "ask", "observation", "result",
                  "delegate", "state"}
DelegateStates == Delegates!States \cup {""}
DelegateEvents == [t : DelegateKinds, id : Int, st : DelegateStates]
DelegateCtls == [st : DelegateStates, pend : Int, err : Delegates!Errors]
Own == {i \in DOMAIN delegated : delegated[i].by = 1}

DelegateShape ==
    /\ events \in Seq(DelegateEvents)
    /\ ctl \in [1..3 -> DelegateCtls]
    /\ depth \in 1..3 /\ results \in Nat /\ iter \in Nat
    /\ jobs \subseteq Int /\ used \in [messages : Nat, changes : Nat, failures : Nat]
    /\ delegated \in Seq([by : 1..3, late : BOOLEAN])

\* Before the first controller has delegated with a result still to be handled, no result
\* is in the stream while there is a delegate.
DelegatedClear == \A i \in Own : ~delegated[i].late
AnswersCount ==
    LET answers == results + Cardinality(Delegates!Results(events))
                       + (IF depth > 1 THEN 1 ELSE 0)
    IN  /\ answers <= Cardinality(Own)
        /\ DelegatedClear => answers = Cardinality(Own)
        /\ DelegatedClear /\ depth > 1 => Delegates!Results(events) = {}

DelegateInv == DelegateShape /\ AnswersCount

LEMMA SameCount == \A S : Delegates!Cardinality(S) = Cardinality(S)
BY DEF Delegates!Cardinality, Cardinality

\* The results of a sequence, and of sequences put together.
LEMMA ResultsFinite ==
    ASSUME NEW s \in Seq(DelegateEvents)
    PROVE  /\ IsFiniteSet(Delegates!Results(s))
           /\ Cardinality(Delegates!Results(s)) \in Nat
<1>1. Len(s) \in Nat /\ DOMAIN s = 1..Len(s)
  OBVIOUS
<1>2. IsFiniteSet(1..Len(s))
  BY <1>1, FS_Interval
<1>3. Delegates!Results(s) \subseteq 1..Len(s)
  BY <1>1 DEF Delegates!Results
<1> QED
  BY <1>2, <1>3, FS_Subset, FS_CardinalityType

LEMMA ResultsOfBoth ==
    ASSUME NEW s \in Seq(DelegateEvents), NEW o \in Seq(DelegateEvents)
    PROVE  Delegates!Results(s \o o)
             = Delegates!Results(s) \cup {Len(s) + i : i \in Delegates!Results(o)}
<1>1. /\ DOMAIN s = 1..Len(s) /\ DOMAIN o = 1..Len(o) /\ DOMAIN (s \o o) = 1..(Len(s) + Len(o))
      /\ Len(s) \in Nat /\ Len(o) \in Nat
      /\ \A i \in 1..(Len(s) + Len(o)) :
            (s \o o)[i] = IF i <= Len(s) THEN s[i] ELSE o[i - Len(s)]
  BY ConcatProperties
<1>2. ASSUME NEW i \in Delegates!Results(s \o o)
      PROVE  i \in Delegates!Results(s) \cup {Len(s) + j : j \in Delegates!Results(o)}
  <2>1. i \in 1..(Len(s) + Len(o)) /\ (s \o o)[i].t = "result"
    BY <1>1, <1>2 DEF Delegates!Results
  <2>2. CASE i <= Len(s)
    BY <1>1, <2>1, <2>2 DEF Delegates!Results
  <2>3. CASE i > Len(s)
    <3>1. i - Len(s) \in 1..Len(o) /\ o[i - Len(s)].t = "result" /\ i = Len(s) + (i - Len(s))
      BY <1>1, <2>1, <2>3
    <3> QED
      BY <1>1, <3>1 DEF Delegates!Results
  <2> QED
    BY <1>1, <2>1, <2>2, <2>3
<1>3. ASSUME NEW i \in Delegates!Results(s) PROVE i \in Delegates!Results(s \o o)
  BY <1>1, <1>3 DEF Delegates!Results
<1>4. ASSUME NEW j \in Delegates!Results(o) PROVE Len(s) + j \in Delegates!Results(s \o o)
  BY <1>1, <1>4 DEF Delegates!Results
<1> QED
  BY <1>2, <1>3, <1>4

\* Events among which there is no result.
NoResults(out) == out \in Seq(DelegateEvents) /\ Delegates!Results(out) = {}

LEMMA ResultsAfter ==
    ASSUME NEW s \in Seq(DelegateEvents), NEW o, NoResults(o)
    PROVE  s \o o \in Seq(DelegateEvents) /\ Delegates!Results(s \o o) = Delegates!Results(s)
<1>1. o \in Seq(DelegateEvents) /\ Delegates!Results(o) = {}
  BY DEF NoResults
<1>2. s \o o \in Seq(DelegateEvents)
  BY <1>1, ConcatProperties
<1>3. {Len(s) + i : i \in Delegates!Results(o)} = {}
  BY <1>1
<1>4. Delegates!Results(s \o o)
        = Delegates!Results(s) \cup {Len(s) + i : i \in Delegates!Results(o)}
  BY <1>1, ResultsOfBoth
<1> QED
  BY <1>2, <1>3, <1>4

LEMMA NoneIsQuiet == NoResults(<<>>)
BY DEF NoResults, Delegates!Results

LEMMA OneIsQuiet ==
    ASSUME NEW e \in DelegateEvents, e.t # "result"
    PROVE  NoResults(<<e>>)
<1>1. <<e>> \in Seq(DelegateEvents) /\ DOMAIN <<e>> = {1} /\ <<e>>[1] = e
  OBVIOUS
<1> QED
  BY <1>1 DEF NoResults, Delegates!Results

LEMMA BothAreQuiet ==
    ASSUME NEW s, NEW o, NoResults(s), NoResults(o)
    PROVE  NoResults(s \o o)
BY ResultsAfter DEF NoResults

\* The head of the stream is a result or not.
LEMMA ResultsOfTail ==
    ASSUME NEW s \in Seq(DelegateEvents), s # <<>>
    PROVE  /\ Tail(s) \in Seq(DelegateEvents) /\ Head(s) \in DelegateEvents
           /\ Cardinality(Delegates!Results(s))
                = Cardinality(Delegates!Results(Tail(s)))
                      + (IF Head(s).t = "result" THEN 1 ELSE 0)
<1> DEFINE R == Delegates!Results(s)
           T == Delegates!Results(Tail(s))
<1>1. /\ Tail(s) \in Seq(DelegateEvents) /\ Head(s) \in DelegateEvents /\ Head(s) = s[1]
      /\ Len(s) \in Nat /\ Len(s) >= 1 /\ Len(Tail(s)) = Len(s) - 1
      /\ DOMAIN s = 1..Len(s) /\ DOMAIN Tail(s) = 1..(Len(s) - 1)
      /\ \A i \in 1..(Len(s) - 1) : Tail(s)[i] = s[i + 1]
  BY HeadTailProperties, EmptySeq, LenProperties
<1>2. /\ IsFiniteSet(R) /\ IsFiniteSet(T) /\ Cardinality(R) \in Nat /\ Cardinality(T) \in Nat
  BY <1>1, ResultsFinite
<1>3. /\ R \subseteq 1..Len(s) /\ T \subseteq 1..(Len(s) - 1)
      /\ \A i \in 1..Len(s) : i \in R <=> s[i].t = "result"
      /\ \A i \in 1..(Len(s) - 1) : i \in T <=> s[i + 1].t = "result"
  BY <1>1 DEF Delegates!Results
<1> DEFINE f == [i \in T |-> i + 1]
<1>4. Cardinality(R \ {1}) = Cardinality(T)
  <2>1. \A i \in T : i + 1 \in R \ {1}
    BY <1>1, <1>3
  <2>2. \A j \in R \ {1} : j - 1 \in T /\ j = (j - 1) + 1
    BY <1>1, <1>3
  <2>3. \A i, j \in T : i + 1 = j + 1 => i = j
    BY <1>1, <1>3
  <2>4. f \in Bijection(T, R \ {1})
    BY <2>1, <2>2, <2>3 DEF Bijection, Injection, Surjection, IsInjective
  <2> HIDE DEF f, R, T
  <2> QED
    BY <1>2, <2>4, FS_Bijection DEF ExistsBijection
<1>5. CASE Head(s).t = "result"
  <2>1. 1 \in R
    BY <1>1, <1>3, <1>5
  <2> HIDE DEF R, T
  <2>2. Cardinality(R \ {1}) = Cardinality(R) - 1
    BY <1>2, <2>1, FS_RemoveElement
  <2> QED
    BY <1>1, <1>2, <1>4, <1>5, <2>2 DEF R, T
<1>6. CASE Head(s).t # "result"
  <2>1. R \ {1} = R
    BY <1>1, <1>3, <1>6
  <2> HIDE DEF R, T
  <2>2. Cardinality(R) = Cardinality(T)
    BY <1>4, <2>1
  <2> QED
    BY <1>2, <1>6, <2>2 DEF R, T
<1> QED
  BY <1>5, <1>6

\* What a controller adds to the stream when it handles an event is not a result.
Quietly(x) == x.c \in DelegateCtls /\ NoResults(x.out)

LEMMA WithQuiet ==
    ASSUME NEW c \in DelegateCtls, NEW o, NoResults(o)
    PROVE  Quietly(Delegates!With(c, o))
BY DEF Quietly, Delegates!With

LEMMA SetToQuiet ==
    ASSUME NEW x, Quietly(x), NEW new \in DelegateStates
    PROVE  Quietly(Delegates!SetTo(x, new))
<1> DEFINE reset == new \in {"stopped", "error"}
<1>a. PICK c : c = [x.c EXCEPT !.st = new, !.pend = IF reset THEN 0 ELSE @]
  OBVIOUS
<1>b. PICK reply : reply = IF reset /\ x.c.pend \in Delegates!Actions
                     THEN <<Delegates!Event("observation", x.c.pend, "")>> ELSE <<>>
  BY Zenon
<1>c. PICK o : o = x.out \o reply \o <<Delegates!StateEvent(new)>>
  OBVIOUS
<1>1. x.c \in DelegateCtls /\ x.c.pend \in Int /\ NoResults(x.out)
  BY DEF Quietly, DelegateCtls
<1>2. c \in DelegateCtls
  <2>1. x.c.st \in DelegateStates /\ x.c.err \in Delegates!Errors /\ x.c = [st |-> x.c.st, pend |-> x.c.pend, err |-> x.c.err]
    BY <1>1 DEF DelegateCtls
  <2>2. c = [st |-> new, pend |-> IF reset THEN 0 ELSE x.c.pend, err |-> x.c.err]
    BY <1>a, <2>1
  <2>3. (IF reset THEN 0 ELSE x.c.pend) \in Int
    BY <1>1
  <2> QED
    BY <2>1, <2>2, <2>3 DEF DelegateCtls
<1>3. NoResults(reply)
  <2>1. /\ Delegates!Event("observation", x.c.pend, "") \in DelegateEvents
        /\ Delegates!Event("observation", x.c.pend, "").t # "result"
    BY Zenon, <1>1 DEF Delegates!Event, DelegateEvents, DelegateKinds, DelegateStates
  <2>2. NoResults(<<Delegates!Event("observation", x.c.pend, "")>>)
    BY Zenon, <2>1, OneIsQuiet
  <2> QED
    BY Zenon, <1>b, <2>2, NoneIsQuiet
<1>4. NoResults(<<Delegates!StateEvent(new)>>)
  <2>1. Delegates!StateEvent(new) \in DelegateEvents /\ Delegates!StateEvent(new).t # "result"
    BY DEF Delegates!StateEvent, Delegates!Event, DelegateEvents, DelegateKinds
  <2> QED
    BY <2>1, OneIsQuiet
<1>5. NoResults(o)
  <2>1. NoResults(x.out \o reply)
    BY <1>1, <1>3, BothAreQuiet
  <2> QED
    BY <1>c, <1>4, <2>1, BothAreQuiet
<1>6. Delegates!SetTo(x, new) = IF new = x.c.st THEN x ELSE Delegates!With(c, o)
  BY Zenon, <1>a, <1>b, <1>c DEF Delegates!SetTo, Delegates!Nothing
<1> QED
  BY <1>2, <1>5, <1>6, WithQuiet

LEMMA HandledQuiet ==
    ASSUME NEW e \in DelegateEvents, NEW x, Quietly(x)
    PROVE  Quietly(Delegates!Handled(e, x))
<1>1. x.c \in DelegateCtls /\ NoResults(x.out) /\ e.st \in DelegateStates /\ e.id \in Int
  BY DEF Quietly, DelegateEvents
<1>2. PICK c : c = [x.c EXCEPT !.pend = e.id]
  OBVIOUS
<1>3. PICK d : d = [x.c EXCEPT !.pend = IF @ = e.id THEN 0 ELSE @]
  OBVIOUS
<1>4. Quietly(Delegates!With(c, x.out)) /\ Quietly(Delegates!With(d, x.out))
  <2>1. c \in DelegateCtls /\ d \in DelegateCtls
    BY <1>1, <1>2, <1>3 DEF DelegateCtls
  <2> QED
    BY <1>1, <2>1, WithQuiet
<1>5. /\ Quietly(Delegates!SetTo(x, e.st))
      /\ Quietly(Delegates!SetTo(x, "finished")) /\ Quietly(Delegates!SetTo(x, "rejected"))
      /\ Quietly(Delegates!SetTo(x, "awaiting_user_input"))
      /\ Quietly(Delegates!SetTo(Delegates!With(c, x.out), "running"))
  BY Zenon, <1>1, <1>4, SetToQuiet DEF DelegateStates, Delegates!States
<1>6. Delegates!Handled(e, x) \in
        {Delegates!SetTo(x, e.st), Delegates!SetTo(x, "finished"), Delegates!SetTo(x, "rejected"),
         Delegates!SetTo(x, "awaiting_user_input"), Delegates!With(d, x.out), x,
         Delegates!SetTo(Delegates!With(c, x.out), "running")}
  BY <1>2, <1>3 DEF Delegates!Handled, Delegates!Nothing
<1> QED
  BY <1>4, <1>5, <1>6

\* What the stream becomes when its head is handled and nothing but x's events is added.
LEMMA QuietTail ==
    ASSUME NEW x, Quietly(x), events \in Seq(DelegateEvents), events # <<>>
    PROVE  /\ Tail(events) \o x.out \in Seq(DelegateEvents)
           /\ Delegates!Results(Tail(events) \o x.out) = Delegates!Results(Tail(events))
           /\ \A e \in DelegateEvents : e.t # "result" =>
                 /\ Tail(events) \o x.out \o <<e>> \in Seq(DelegateEvents)
                 /\ Delegates!Results(Tail(events) \o x.out \o <<e>>)
                      = Delegates!Results(Tail(events))
<1>1. Tail(events) \in Seq(DelegateEvents) /\ NoResults(x.out)
  BY ResultsOfTail DEF Quietly
<1>2. PICK s : s = Tail(events) \o x.out
  OBVIOUS
<1>3. s \in Seq(DelegateEvents) /\ Delegates!Results(s) = Delegates!Results(Tail(events))
  BY <1>1, <1>2, ResultsAfter
<1>4. ASSUME NEW e \in DelegateEvents, e.t # "result"
      PROVE  /\ s \o <<e>> \in Seq(DelegateEvents)
             /\ Delegates!Results(s \o <<e>>) = Delegates!Results(s)
  BY <1>3, <1>4, OneIsQuiet, ResultsAfter
<1> QED
  BY <1>2, <1>3, <1>4

\* Handling an event other than a delegation leaves the results that follow it.
Ordinary ==
    /\ events' \in Seq(DelegateEvents) /\ ctl' \in [1..3 -> DelegateCtls]
    /\ Delegates!Results(events') = Delegates!Results(Tail(events))

LEMMA AgentSteps ==
    ASSUME DelegateShape, events # <<>>, NEW k \in 1..2, NEW x, Quietly(x),
           Delegates!Steps(k, x)
    PROVE  Ordinary
<1>1. x.c \in DelegateCtls /\ NoResults(x.out) /\ ctl \in [1..3 -> DelegateCtls] /\ k \in 1..3
      /\ events \in Seq(DelegateEvents)
  BY DEF Quietly, DelegateShape
<1>2. \A c \in DelegateCtls : [ctl EXCEPT ![k] = c] \in [1..3 -> DelegateCtls]
  BY <1>1
<1>3. ASSUME NEW err \in Delegates!Errors
      PROVE  Delegates!SetTo(Delegates!With([x.c EXCEPT !.err = err], <<>>), "error").c
               \in DelegateCtls
  <2>1. PICK c : c = [x.c EXCEPT !.err = err]
    OBVIOUS
  <2>2. c \in DelegateCtls
    BY <1>1, <2>1 DEF DelegateCtls
  <2>3. Quietly(Delegates!With(c, <<>>)) /\ "error" \in DelegateStates
    BY <2>2, NoneIsQuiet, WithQuiet DEF DelegateStates, Delegates!States
  <2> QED
    BY <2>1, <2>3, SetToQuiet DEF Quietly
<1>4. /\ Delegates!StateEvent("error") \in DelegateEvents
      /\ Delegates!StateEvent("error").t # "result"
  BY DEF Delegates!StateEvent, Delegates!Event, DelegateEvents, DelegateKinds, DelegateStates,
         Delegates!States
<1>5. ASSUME NEW t \in {"ask", "finish", "reject", "delegate"}
      PROVE  /\ Delegates!Event(t, 0, "") \in DelegateEvents
             /\ Delegates!Event(t, 0, "").t # "result"
  BY DEF Delegates!Event, DelegateEvents, DelegateKinds, DelegateStates
<1>6. "iteration" \in Delegates!Errors /\ "budget" \in Delegates!Errors /\ "other" \in Delegates!Errors
  BY DEF Delegates!Errors
<1>7. ASSUME NEW err \in Delegates!Errors,
             ctl' = [ctl EXCEPT ![k] =
                    Delegates!SetTo(Delegates!With([x.c EXCEPT !.err = err], <<>>), "error").c],
             events' = Tail(events) \o x.out \o <<Delegates!StateEvent("error")>>
      PROVE  Ordinary
  <2>1. PICK d : d = Delegates!SetTo(Delegates!With([x.c EXCEPT !.err = err], <<>>), "error").c
    OBVIOUS
  <2>2. d \in DelegateCtls /\ ctl' = [ctl EXCEPT ![k] = d]
    BY <1>3, <1>7, <2>1
  <2> QED
    BY <1>1, <1>2, <1>4, <1>7, <2>2, QuietTail DEF Ordinary
<1>8. ASSUME ctl' = [ctl EXCEPT ![k] = [x.c EXCEPT !.pend = iter + 1]],
             events' = Tail(events) \o x.out
      PROVE  Ordinary
  <2>1. PICK d : d = [x.c EXCEPT !.pend = iter + 1]
    OBVIOUS
  <2>a. iter \in Nat /\ x.c.st \in DelegateStates /\ x.c.err \in Delegates!Errors
        /\ x.c = [st |-> x.c.st, pend |-> x.c.pend, err |-> x.c.err]
    BY <1>1 DEF DelegateCtls, DelegateShape
  <2>b. d = [st |-> x.c.st, pend |-> iter + 1, err |-> x.c.err]
    BY <2>1, <2>a
  <2>2. d \in DelegateCtls /\ ctl' = [ctl EXCEPT ![k] = d]
    BY <1>8, <2>1, <2>a, <2>b DEF DelegateCtls
  <2> QED
    BY <1>1, <1>2, <1>8, <2>2, QuietTail DEF Ordinary
<1>9. ASSUME NEW t \in {"ask", "finish", "reject", "delegate"}, ctl' = [ctl EXCEPT ![k] = x.c],
             events' = Tail(events) \o x.out \o <<Delegates!Event(t, 0, "")>>
      PROVE  Ordinary
  BY Zenon, <1>1, <1>2, <1>5, <1>9, QuietTail DEF Ordinary
<1> QED
  BY Zenon, <1>6, <1>7, <1>8, <1>9 DEF Delegates!Steps

LEMMA Handles ==
    ASSUME DelegateShape, events # <<>>, NEW k \in 1..2, Head(events).t # "delegate",
           Delegates!OnEvent(k, Head(events))
    PROVE  /\ Ordinary /\ UNCHANGED <<depth, delegated>> /\ iter' \in Nat /\ jobs' \subseteq Int
           /\ results' = IF k = 1 /\ Head(events).t = "result" THEN results + 1 ELSE results
<1>1. /\ events \in Seq(DelegateEvents) /\ Head(events) \in DelegateEvents
      /\ ctl \in [1..3 -> DelegateCtls] /\ ctl[k] \in DelegateCtls /\ iter \in Nat /\ k \in 1..3
  BY ResultsOfTail DEF DelegateShape
<1>2. PICK x : x = Delegates!Handled(Head(events), Delegates!With(ctl[k], <<>>))
  OBVIOUS
<1>3. Quietly(x)
  BY <1>1, <1>2, NoneIsQuiet, WithQuiet, HandledQuiet
<1>4. /\ UNCHANGED <<depth, delegated>>
      /\ results' = IF k = 1 /\ Head(events).t = "result" THEN results + 1 ELSE results
      /\ \/ Delegates!Steps(k, x)
         \/ /\ ctl' = [ctl EXCEPT ![k] = x.c] /\ events' = Tail(events) \o x.out
            /\ iter' = iter /\ jobs' \subseteq jobs \cup {Head(events).id}
  BY <1>2 DEF Delegates!OnEvent
<1>a. jobs \subseteq Int /\ Head(events).id \in Int
  BY <1>1 DEF DelegateShape, DelegateEvents
<1>5. CASE Delegates!Steps(k, x)
  <2>1. iter' \in Nat
    <3>1. iter' = iter \/ iter' = iter + 1
      BY <1>5, Zenon DEF Delegates!Steps
    <3> QED
      BY <1>1, <3>1
  <2>2. jobs' \subseteq Int
    <3>1. jobs' = jobs \/ jobs' = jobs \cup {iter + 1}
      BY <1>5, Zenon DEF Delegates!Steps
    <3>2. iter + 1 \in Int
      BY <1>1
    <3> QED
      BY <1>a, <3>1, <3>2
  <2> QED
    BY <1>3, <1>4, <1>5, <2>1, <2>2, AgentSteps
<1>6. CASE /\ ctl' = [ctl EXCEPT ![k] = x.c] /\ events' = Tail(events) \o x.out
           /\ iter' = iter /\ jobs' \subseteq jobs \cup {Head(events).id}
  BY <1>1, <1>3, <1>4, <1>6, <1>a, QuietTail DEF Ordinary, Quietly
<1> QED
  BY <1>4, <1>5, <1>6

\* What a delegation, and its end, do to the stream.
LEMMA Delegated ==
    ASSUME DelegateShape, events # <<>>, NEW k \in 1..2, Delegates!Starts(k)
    PROVE  /\ Ordinary /\ depth' = k + 1 /\ UNCHANGED <<iter, jobs>>
           /\ delegated' = Append(delegated, [by |-> k, late |-> Delegates!Results(events) # {}])
<1>1. /\ events \in Seq(DelegateEvents) /\ Tail(events) \in Seq(DelegateEvents)
      /\ ctl \in [1..3 -> DelegateCtls] /\ k + 1 \in 1..3
      /\ Len(delegated) \in Nat
  BY ResultsOfTail DEF DelegateShape
<1>2. PICK n : n = Delegates!TaskRecall(Len(delegated) + 1)
  OBVIOUS
<1>3. n \in Int
  BY <1>1, <1>2, InstancesAssumption DEF InstancesAssumption, Delegates!DelegationAssumption,
     Delegates!TaskRecall
<1>4. NoResults(<<Delegates!Event("message", n, ""), Delegates!StateEvent("running")>>)
  <2>1. PICK e, f : e = Delegates!Event("message", n, "") /\ f = Delegates!StateEvent("running")
    BY Zenon
  <2>2. e = [t |-> "message", id |-> n, st |-> ""] /\ f = [t |-> "state", id |-> 0, st |-> "running"]
    BY Zenon, <2>1 DEF Delegates!Event, Delegates!StateEvent
  <2>3. /\ "message" \in DelegateKinds /\ "state" \in DelegateKinds
        /\ "" \in DelegateStates /\ "running" \in DelegateStates
    BY DEF DelegateKinds, DelegateStates, Delegates!States
  <2>4. e \in DelegateEvents /\ f \in DelegateEvents /\ e.t # "result" /\ f.t # "result"
    <3>1. e \in DelegateEvents
      BY Zenon, <1>3, <2>2, <2>3 DEF DelegateEvents
    <3>2. f \in DelegateEvents
      <4>1. Delegates!StateEvent("running") \in DelegateEvents
        BY DEF DelegateEvents, Delegates!StateEvent, Delegates!Event, DelegateKinds,
               DelegateStates, Delegates!States
      <4> QED
        BY Zenon, <2>1, <4>1
    <3>3. e.t = "message" /\ f.t = "state"
      BY Zenon, <2>2
    <3> QED
      BY <3>1, <3>2, <3>3
  <2>5. <<e, f>> \in Seq(DelegateEvents) /\ DOMAIN <<e, f>> = 1..2
        /\ <<e, f>>[1] = e /\ <<e, f>>[2] = f
    BY <2>4
  <2>6. PICK both : both = <<e, f>>
    OBVIOUS
  <2>7. both \in Seq(DelegateEvents) /\ \A i \in DOMAIN both : both[i].t # "result"
    BY <2>4, <2>5, <2>6
  <2>8. NoResults(both)
    BY <2>7 DEF NoResults, Delegates!Results
  <2> QED
    BY Zenon, <2>1, <2>6, <2>8
<1>5. [Delegates!Fresh EXCEPT !.st = "running"] \in DelegateCtls
  <2>a. PICK c : c = Delegates!Fresh
    OBVIOUS
  <2>b. Delegates!Fresh \in DelegateCtls
    BY DEF Delegates!Fresh, Delegates!Nothing, DelegateCtls, DelegateStates, Delegates!States,
           Delegates!Errors
  <2>1. {"loading", "running"} \subseteq DelegateStates /\ "" \in Delegates!Errors
    BY DEF DelegateStates, Delegates!States, Delegates!Errors
  <2>2. c \in DelegateCtls
    BY <2>a, <2>b
  <2> QED
    BY Zenon, <2>a, <2>1, <2>2 DEF DelegateCtls
<1>6. ctl' \in [1..3 -> DelegateCtls]
  BY Zenon, <1>1, <1>5 DEF Delegates!Starts
<1>7. /\ events' = Tail(events) \o <<Delegates!Event("message", n, ""), Delegates!StateEvent("running")>>
      /\ depth' = k + 1 /\ UNCHANGED <<iter, jobs>>
      /\ delegated' = Append(delegated, [by |-> k, late |-> Delegates!Results(events) # {}])
  BY Zenon, <1>2 DEF Delegates!Starts
<1> QED
  BY Zenon, <1>1, <1>4, <1>6, <1>7, ResultsAfter DEF Ordinary

\* The delegate is closed, and the first controller will be told the result.
LEMMA Ends ==
    ASSUME DelegateShape, events # <<>>, depth > 1, Delegates!EndDelegate(Head(events)),
           UNCHANGED used
    PROVE  /\ DelegateShape' /\ depth' = 1 /\ UNCHANGED <<delegated, results>>
           /\ Cardinality(Delegates!Results(events'))
                = Cardinality(Delegates!Results(Tail(events))) + 1
<1>1. /\ events \in Seq(DelegateEvents) /\ Tail(events) \in Seq(DelegateEvents)
      /\ ctl \in [1..3 -> DelegateCtls] /\ ctl[2] \in DelegateCtls
  BY ResultsOfTail DEF DelegateShape
<1>2. PICK x : x = Delegates!SetTo(Delegates!With(ctl[2], <<>>), "stopped")
  OBVIOUS
<1>3. Quietly(x)
  <2>1. "stopped" \in DelegateStates
    BY DEF DelegateStates, Delegates!States
  <2> QED
    BY <1>1, <1>2, <2>1, NoneIsQuiet, WithQuiet, SetToQuiet
<1>4. PICK r : r = Delegates!Event("result", 0, "")
  BY Zenon
<1>5. r \in DelegateEvents /\ r.t = "result"
  <2>1. /\ Delegates!Event("result", 0, "") \in DelegateEvents
        /\ Delegates!Event("result", 0, "").t = "result"
    BY DEF Delegates!Event, DelegateEvents, DelegateKinds, DelegateStates
  <2> QED
    BY Zenon, <1>4, <2>1
<1>6. PICK s : s = Tail(events) \o x.out
  OBVIOUS
<1>7. /\ s \in Seq(DelegateEvents) /\ Len(s) \in Nat
      /\ Delegates!Results(s) = Delegates!Results(Tail(events))
      /\ x.out \in Seq(DelegateEvents)
  BY <1>1, <1>3, <1>6, QuietTail, LenProperties DEF Quietly, NoResults
<1>8. events' = s \o <<r>>
  <2>1. events' = Tail(events) \o (x.out \o <<r>>)
    BY Zenon, <1>2, <1>4 DEF Delegates!EndDelegate, Delegates!Closing
  <2>2. <<r>> \in Seq(DelegateEvents)
    BY <1>5
  <2>3. PICK u, v, w : u = Tail(events) /\ v = x.out /\ w = <<r>>
    OBVIOUS
  <2>4. u \in Seq(DelegateEvents) /\ v \in Seq(DelegateEvents) /\ w \in Seq(DelegateEvents)
    BY <1>1, <1>7, <2>2, <2>3
  <2>5. (u \o v) \o w = u \o (v \o w)
    BY <2>4, ConcatAssociative
  <2> QED
    BY <1>6, <2>1, <2>3, <2>5
<1>9. events' = Append(s, r)
  BY <1>5, <1>7, <1>8, AppendIsConcat
<1>10. /\ events' \in Seq(DelegateEvents)
       /\ Delegates!Results(events') = Delegates!Results(s) \cup {Len(s) + 1}
       /\ Len(s) + 1 \notin Delegates!Results(s)
  <2>1. /\ events' \in Seq(DelegateEvents) /\ DOMAIN events' = 1..(Len(s) + 1)
        /\ DOMAIN s = 1..Len(s)
        /\ \A i \in 1..Len(s) : events'[i] = s[i]
        /\ events'[Len(s) + 1] = r
    BY <1>5, <1>7, <1>9, AppendProperties
  <2> QED
    BY <1>5, <1>7, <2>1 DEF Delegates!Results
<1>11. Cardinality(Delegates!Results(events')) = Cardinality(Delegates!Results(Tail(events))) + 1
  <2>1. IsFiniteSet(Delegates!Results(s))
    BY <1>7, ResultsFinite
  <2>2. Cardinality(Delegates!Results(s) \cup {Len(s) + 1}) = Cardinality(Delegates!Results(s)) + 1
    BY <1>10, <2>1, FS_AddElement
  <2> QED
    BY <1>7, <1>10, <2>2
<1>12. ctl' \in [1..3 -> DelegateCtls]
  <2>1. Delegates!Fresh \in DelegateCtls
    BY DEF Delegates!Fresh, Delegates!Nothing, DelegateCtls, DelegateStates, Delegates!States,
           Delegates!Errors
  <2>2. ctl' = [k \in 1..3 |-> IF k = 1 THEN ctl[k] ELSE Delegates!Fresh]
    BY DEF Delegates!EndDelegate, Delegates!Levels
  <2> QED
    BY <1>1, <2>1, <2>2
<1>13. depth' = 1 /\ UNCHANGED <<delegated, results, iter, jobs>>
  BY DEF Delegates!EndDelegate
<1> QED
  BY <1>10, <1>11, <1>12, <1>13 DEF DelegateShape

LEMMA DelegationBegins == ASSUME Delegates!Init PROVE DelegateInv
<1>1. /\ events = <<>> /\ depth = 1 /\ results = 0 /\ iter = 0 /\ delegated = <<>> /\ jobs = {}
      /\ used = [messages |-> 0, changes |-> 0, failures |-> 0]
      /\ ctl = [k \in 1..3 |-> Delegates!Fresh]
  BY DEF Delegates!Init, Delegates!Levels
<1>2. Delegates!Fresh \in DelegateCtls
  BY DEF Delegates!Fresh, Delegates!Nothing, DelegateCtls, DelegateStates, Delegates!States,
         Delegates!Errors
<1>3. DelegateShape
  BY <1>1, <1>2 DEF DelegateShape
<1>4. Delegates!Results(events) = {} /\ Own = {}
  BY <1>1 DEF Delegates!Results, Own
<1>5. Cardinality(Delegates!Results(events)) = 0 /\ Cardinality(Own) = 0
  BY <1>4, FS_EmptySet
<1> QED
  BY <1>1, <1>3, <1>4, <1>5 DEF DelegateInv, AnswersCount

LEMMA OwnFinite ==
    ASSUME DelegateShape
    PROVE  IsFiniteSet(Own) /\ Cardinality(Own) \in Nat
<1>1. Own \subseteq 1..Len(delegated) /\ Len(delegated) \in Nat
  BY DEF Own, DelegateShape
<1>2. IsFiniteSet(1..Len(delegated))
  BY <1>1, FS_Interval
<1> QED
  BY <1>1, <1>2, FS_Subset, FS_CardinalityType

\* A delegation of the first controller counts, one of its delegate does not.
LEMMA OwnGrows ==
    ASSUME DelegateShape, NEW k \in 1..2, NEW late \in BOOLEAN,
           delegated' = Append(delegated, [by |-> k, late |-> late])
    PROVE  /\ delegated' \in Seq([by : 1..3, late : BOOLEAN])
           /\ Cardinality(Own') = Cardinality(Own) + (IF k = 1 THEN 1 ELSE 0)
           /\ DelegatedClear' => DelegatedClear /\ (k = 1 => ~late)
<1>1. PICK r : r = [by |-> k, late |-> late]
  OBVIOUS
<1>2. r \in [by : 1..3, late : BOOLEAN] /\ r.by = k /\ r.late = late
  BY <1>1
<1>3. /\ delegated' \in Seq([by : 1..3, late : BOOLEAN])
      /\ DOMAIN delegated' = 1..(Len(delegated) + 1) /\ DOMAIN delegated = 1..Len(delegated)
      /\ \A i \in 1..Len(delegated) : delegated'[i] = delegated[i]
      /\ delegated'[Len(delegated) + 1] = r /\ Len(delegated) \in Nat
  BY <1>1, <1>2, AppendProperties DEF DelegateShape
<1>4. /\ Own \subseteq Own' /\ Len(delegated) + 1 \notin Own
      /\ Own' = IF k = 1 THEN Own \cup {Len(delegated) + 1} ELSE Own
  BY <1>2, <1>3 DEF Own
<1>5. Cardinality(Own \cup {Len(delegated) + 1}) = Cardinality(Own) + 1
  BY <1>4, OwnFinite, FS_AddElement
<1>6. Cardinality(Own') = Cardinality(Own) + (IF k = 1 THEN 1 ELSE 0)
  BY <1>4, <1>5, OwnFinite
<1>7. ASSUME DelegatedClear' PROVE DelegatedClear /\ (k = 1 => ~late)
  <2>1. \A i \in Own : delegated'[i] = delegated[i]
    BY <1>3 DEF Own
  <2> QED
    BY Zenon, <1>2, <1>3, <1>4, <1>7, <2>1 DEF DelegatedClear
<1> QED
  BY <1>3, <1>6, <1>7

LEMMA DelegationSteps ==
    ASSUME DelegateInv, Delegates!HandleEvent
    PROVE  DelegateInv'
<1>1. /\ DelegateShape /\ events # <<>> /\ events \in Seq(DelegateEvents)
      /\ depth \in 1..3 /\ results \in Nat /\ UNCHANGED used
  BY DEF DelegateInv, DelegateShape, Delegates!HandleEvent
<1>2. PICK e : e = Head(events)
  OBVIOUS
<1> DEFINE R == Delegates!Results(events)
           T == Delegates!Results(Tail(events))
           N == Delegates!Results(events')
<1>3. /\ IsFiniteSet(R) /\ Cardinality(R) \in Nat /\ IsFiniteSet(T) /\ Cardinality(T) \in Nat
      /\ Cardinality(R) = Cardinality(T) + (IF e.t = "result" THEN 1 ELSE 0)
      /\ R = {} => Cardinality(T) = 0 /\ T = {} /\ e.t # "result"
  <2>1. /\ IsFiniteSet(R) /\ Cardinality(R) \in Nat /\ IsFiniteSet(T) /\ Cardinality(T) \in Nat
        /\ Cardinality(R) = Cardinality(T) + (IF e.t = "result" THEN 1 ELSE 0)
    BY <1>1, <1>2, ResultsFinite, ResultsOfTail
  <2>2. R = {} => Cardinality(R) = 0
    BY FS_EmptySet
  <2>3. Cardinality(T) = 0 => T = {}
    BY <2>1, FS_EmptySet
  <2> QED
    BY <2>1, <2>2, <2>3
<1>4. Cardinality(Own) \in Nat
  BY <1>1, OwnFinite
<1>5. /\ results + Cardinality(R) + (IF depth > 1 THEN 1 ELSE 0) <= Cardinality(Own)
      /\ DelegatedClear => results + Cardinality(R) + (IF depth > 1 THEN 1 ELSE 0) = Cardinality(Own)
      /\ DelegatedClear /\ depth > 1 => R = {}
  BY DEF DelegateInv, AnswersCount
<1>6. SUFFICES
        /\ DelegateShape'
        /\ results' + Cardinality(N) + (IF depth' > 1 THEN 1 ELSE 0) <= Cardinality(Own')
        /\ DelegatedClear' =>
              results' + Cardinality(N) + (IF depth' > 1 THEN 1 ELSE 0) = Cardinality(Own')
        /\ DelegatedClear' /\ depth' > 1 => N = {}
  BY DEF AnswersCount, DelegateInv
<1> HIDE DEF R, T, N
<1>7. CASE depth > 1 /\ Delegates!EndDelegate(e)
  <2>1. /\ DelegateShape' /\ depth' = 1 /\ UNCHANGED <<delegated, results>>
        /\ Cardinality(N) = Cardinality(T) + 1
    BY <1>1, <1>2, <1>7, Ends DEF N, T
  <2>2. Own' = Own /\ (DelegatedClear' <=> DelegatedClear)
    BY <2>1 DEF Own, DelegatedClear
  <2> QED
    BY <1>1, <1>3, <1>4, <1>5, <1>7, <2>1, <2>2
<1>8. ASSUME NEW k \in 1..2, k = 1 <=> depth = 1, Delegates!OnEvent(k, e), e.t = "delegate"
      PROVE  <1>6!1
  <2>1. /\ Ordinary /\ depth' = k + 1 /\ UNCHANGED <<iter, jobs>> /\ results' = results
        /\ delegated' = Append(delegated, [by |-> k, late |-> R # {}])
    BY <1>1, <1>2, <1>8, Delegated DEF Delegates!OnEvent, R
  <2>2. /\ delegated' \in Seq([by : 1..3, late : BOOLEAN])
        /\ Cardinality(Own') = Cardinality(Own) + (IF k = 1 THEN 1 ELSE 0)
        /\ DelegatedClear' => DelegatedClear /\ (k = 1 => R = {})
    BY <1>1, <2>1, OwnGrows
  <2>3. N = T /\ events' \in Seq(DelegateEvents) /\ ctl' \in [1..3 -> DelegateCtls]
    BY <2>1 DEF Ordinary, N, T
  <2>4. DelegateShape'
    BY <1>1, <1>8, <2>1, <2>2, <2>3 DEF DelegateShape
  <2>5. Cardinality(N) = Cardinality(R)
    BY <1>3, <1>8, <2>3
  <2> QED
    BY <1>1, <1>3, <1>4, <1>5, <1>8, <2>1, <2>2, <2>3, <2>4, <2>5
<1>9. ASSUME NEW k \in 1..2, k = 1 <=> depth = 1, Delegates!OnEvent(k, e), e.t # "delegate"
      PROVE  <1>6!1
  <2>1. /\ Ordinary /\ UNCHANGED <<depth, delegated>> /\ iter' \in Nat /\ jobs' \subseteq Int
        /\ results' = IF k = 1 /\ e.t = "result" THEN results + 1 ELSE results
    BY <1>1, <1>2, <1>9, Handles
  <2>2. N = T /\ events' \in Seq(DelegateEvents) /\ ctl' \in [1..3 -> DelegateCtls]
    BY <2>1 DEF Ordinary, N, T
  <2>3. DelegateShape'
    BY <1>1, <2>1, <2>2 DEF DelegateShape
  <2>4. Own' = Own /\ (DelegatedClear' <=> DelegatedClear)
    BY <2>1 DEF Own, DelegatedClear
  <2>5. results' + Cardinality(N) <= results + Cardinality(R)
    BY <1>1, <1>3, <2>1, <2>2
  <2>6. depth = 1 \/ R = {} => results' + Cardinality(N) = results + Cardinality(R)
    BY <1>1, <1>3, <1>9, <2>1, <2>2
  <2>7. results' \in Nat /\ Cardinality(N) \in Nat
    BY <1>1, <1>3, <2>1, <2>2
  <2>8. DelegatedClear' /\ depth' > 1 => N = {}
    BY <1>3, <1>5, <2>1, <2>2, <2>4
  <2>9. DelegatedClear => depth = 1 \/ R = {}
    BY <1>1, <1>5
  <2> QED
    BY <1>1, <1>3, <1>4, <1>5, <2>1, <2>3, <2>4, <2>5, <2>6, <2>7, <2>8, <2>9
<1>10. \/ depth > 1 /\ Delegates!EndDelegate(e)
       \/ \E k \in 1..2 : (k = 1 <=> depth = 1) /\ Delegates!OnEvent(k, e)
  BY <1>1, <1>2 DEF Delegates!HandleEvent
<1> QED
  BY <1>7, <1>8, <1>9, <1>10

\* The runtime, the memory and the user add no results.
LEMMA OthersAct ==
    ASSUME DelegateInv, NEW o, NoResults(o), events' = events \o o,
           ctl' \in [1..3 -> DelegateCtls], UNCHANGED <<depth, results, iter, delegated>>,
           jobs' \subseteq jobs, used' \in [messages : Nat, changes : Nat, failures : Nat]
    PROVE  DelegateInv'
<1>1. DelegateShape /\ events \in Seq(DelegateEvents)
  BY DEF DelegateInv, DelegateShape
<1>2. /\ events' \in Seq(DelegateEvents)
      /\ Delegates!Results(events') = Delegates!Results(events)
  BY <1>1, ResultsAfter
<1>3. DelegateShape'
  BY <1>1, <1>2 DEF DelegateShape
<1>4. Own' = Own /\ (DelegatedClear' <=> DelegatedClear)
  BY DEF Own, DelegatedClear
<1> QED
  BY <1>2, <1>3, <1>4 DEF DelegateInv, AnswersCount

LEMMA DelegationStep == DelegateInv /\ [Delegates!Next]_delegationVars => DelegateInv'
<1> SUFFICES ASSUME DelegateInv, [Delegates!Next]_delegationVars PROVE DelegateInv'
  OBVIOUS
<1>1. DelegateShape /\ events \in Seq(DelegateEvents) /\ ctl \in [1..3 -> DelegateCtls]
  BY DEF DelegateInv, DelegateShape
<1>2. ASSUME NEW e \in DelegateEvents, e.t # "result", events' = Append(events, e),
             UNCHANGED <<ctl, depth, results, iter, delegated>>, jobs' \subseteq jobs,
             used' \in [messages : Nat, changes : Nat, failures : Nat]
      PROVE  DelegateInv'
  <2>1. events' = events \o <<e>>
    BY <1>1, <1>2, AppendIsConcat
  <2> QED
    BY <1>1, <1>2, <2>1, OneIsQuiet, OthersAct
<1>3. /\ used \in [messages : Nat, changes : Nat, failures : Nat]
      /\ [used EXCEPT !.messages = @ + 1] \in [messages : Nat, changes : Nat, failures : Nat]
      /\ [used EXCEPT !.changes = @ + 1] \in [messages : Nat, changes : Nat, failures : Nat]
      /\ [used EXCEPT !.failures = @ + 1] \in [messages : Nat, changes : Nat, failures : Nat]
  BY <1>1 DEF DelegateShape
<1>4. ASSUME NEW t \in DelegateKinds, NEW id \in Int, NEW st \in DelegateStates
      PROVE  Delegates!Event(t, id, st) \in DelegateEvents /\ Delegates!Event(t, id, st).t = t
  BY DEF Delegates!Event, DelegateEvents
<1>5. /\ "message" \in DelegateKinds /\ "observation" \in DelegateKinds
      /\ "change" \in DelegateKinds /\ "" \in DelegateStates /\ "error" \in DelegateStates
      /\ "stopped" \in DelegateStates /\ "running" \in DelegateStates
  BY DEF DelegateKinds, DelegateStates, Delegates!States
<1>6. CASE Delegates!HandleEvent
  BY <1>6, DelegationSteps
<1>7. CASE Delegates!Write
  <2>1. PICK id : id = Delegates!RecallOf(used.messages + 1)
    OBVIOUS
  <2>2. id \in Int
    BY <1>3, <2>1, InstancesAssumption DEF InstancesAssumption, Delegates!DelegationAssumption,
       Delegates!RecallOf
  <2>3. PICK e : e = Delegates!Event("message", id, "")
    BY Zenon
  <2>4. e \in DelegateEvents /\ e.t # "result"
    BY Zenon, <1>4, <1>5, <2>2, <2>3
  <2> QED
    BY Zenon, <1>2, <1>3, <1>7, <2>1, <2>3, <2>4 DEF Delegates!Write
<1>8. ASSUME NEW j \in jobs, Delegates!JobEnds(j) PROVE DelegateInv'
  <2>1. PICK e : e = Delegates!Event("observation", j, "")
    BY Zenon
  <2>2. e \in DelegateEvents /\ e.t # "result"
    BY Zenon, <1>1, <1>4, <1>5, <2>1 DEF DelegateShape
  <2> QED
    BY Zenon, <1>2, <1>3, <1>8, <2>1, <2>2 DEF Delegates!JobEnds
<1>9. ASSUME NEW j \in jobs, Delegates!JobFails(j) PROVE DelegateInv'
  <2>1. PICK x : x = Delegates!SetTo(Delegates!With(ctl[1], <<>>), "error")
    OBVIOUS
  <2>a. ctl[1] \in DelegateCtls
    BY <1>1
  <2>b. "error" \in DelegateStates
    BY DEF DelegateStates, Delegates!States
  <2>2. Quietly(x)
    BY <2>a, <2>b, <2>1, NoneIsQuiet, WithQuiet, SetToQuiet
  <2> QED
    BY <1>1, <1>3, <1>9, <2>1, <2>2, OthersAct DEF Delegates!JobFails, Quietly
<1>10. ASSUME NEW st \in {"stopped", "running"}, Delegates!AskFor(st) PROVE DelegateInv'
  <2>a. st \in DelegateStates
    BY Zenon, <1>10 DEF DelegateStates, Delegates!States
  <2>2. /\ Delegates!Event("change", 0, st) \in DelegateEvents
        /\ Delegates!Event("change", 0, st).t # "result"
    BY <2>a DEF Delegates!Event, DelegateEvents, DelegateKinds
  <2> QED
    BY <1>2, <1>3, <1>10, <2>2 DEF Delegates!AskFor
<1>11. CASE UNCHANGED delegationVars
  <2>1. /\ UNCHANGED <<ctl, depth, results, iter, delegated, events, jobs, used>>
    BY <1>11 DEF delegationVars
  <2> QED
    BY <2>1 DEF DelegateInv, DelegateShape, AnswersCount, Own, DelegatedClear
<1> QED
  BY <1>6, <1>7, <1>8, <1>9, <1>10, <1>11 DEF Delegates!Next

-----------------------------------------------------------------------------
(* The shell.                                                              *)

LEMMA OneElement ==
    ASSUME NEW S, NEW s \in Seq(S), s # <<>>, Len(s) <= 1
    PROVE  Head(s) \in S /\ Tail(s) = <<>>
<1>1. \A t \in Seq(S) : t # <<>> => Len(t) \in Nat \ {0}
  BY EmptySeq, Zenon
<1>2. Len(s) \in Nat \ {0}
  BY <1>1, Zenon
<1>3. Head(s) \in S /\ Tail(s) \in Seq(S) /\ Len(Tail(s)) = Len(s) - 1
  BY HeadTailProperties, Zenon
<1>4. Len(Tail(s)) \notin Nat \ {0}
  BY <1>2, <1>3
<1>5. Tail(s) = <<>>
  BY <1>1, <1>3, <1>4, Zenon
<1> QED
  BY <1>3, <1>5

LEMMA PromptsCount ==
    ASSUME NEW Entries, NEW p \in Seq(Entries)
    PROVE  /\ IsFiniteSet({i \in DOMAIN p : Shell!IsPrompt(p[i])})
           /\ Shell!Prompts(p) = Cardinality({i \in DOMAIN p : Shell!IsPrompt(p[i])})
           /\ Shell!Prompts(p) \in Nat
<1>1. IsFiniteSet(1..Len(p))
  BY FS_Interval
<1>2. IsFiniteSet({i \in DOMAIN p : Shell!IsPrompt(p[i])})
  BY <1>1, FS_Subset
<1>3. Shell!Prompts(p) = Cardinality({i \in DOMAIN p : Shell!IsPrompt(p[i])})
  BY DEF Shell!Prompts, Shell!Cardinality, Cardinality
<1> QED
  BY <1>2, <1>3, FS_CardinalityType

\* A prompt may scroll off the screen; none is added by an echo or a line of output.
LEMMA ShowsEntry ==
    ASSUME NEW Entries, NEW p \in Seq(Entries), NEW e \in Entries
    PROVE  /\ Shell!Shows(p, e) \in Seq(Entries)
           /\ Shell!EndsWithPrompt(Shell!Shows(p, e)) <=> e.kind = "prompt"
           /\ e.kind # "prompt" => Shell!Prompts(Shell!Shows(p, e)) <= Shell!Prompts(p)
<1>1. PICK q : q = Append(p, e)
  OBVIOUS
<1>2. /\ q \in Seq(Entries) /\ Len(q) = Len(p) + 1 /\ q[Len(q)] = e
      /\ \A i \in 1..Len(p) : q[i] = p[i]
  BY <1>1
<1>3. ShellHistory \in Nat \ {0}
  BY InstancesAssumption DEF InstancesAssumption, Shell!BashAssumption
<1>4. PICK d \in {0, 1} : d = 1 <=> Len(q) > ShellHistory
  OBVIOUS
<1>5. PICK s : s = Shell!Shows(p, e)
  OBVIOUS
<1>6. /\ s \in Seq(Entries) /\ Len(s) = Len(q) - d /\ Len(s) > 0
      /\ \A i \in 1..Len(s) : s[i] = q[i + d]
  <2>1. CASE d = 0
    BY <1>2, <1>4, <1>5, <2>1, <1>1 DEF Shell!Shows
  <2>2. CASE d = 1
    <3>1. s = Tail(q) /\ Len(q) > 1
      BY <1>1, <1>2, <1>3, <1>4, <1>5, <2>2 DEF Shell!Shows
    <3> QED
      BY <1>2, <3>1, <2>2, HeadTailProperties
  <2> QED
    BY <2>1, <2>2
<1>7. s # <<>> /\ s[Len(s)] = e
  BY <1>2, <1>6
<1>8. Shell!EndsWithPrompt(s) <=> e.kind = "prompt"
  BY <1>7 DEF Shell!EndsWithPrompt, Shell!Last, Shell!IsPrompt
<1>9. ASSUME e.kind # "prompt" PROVE Shell!Prompts(s) <= Shell!Prompts(p)
  <2> DEFINE P == {i \in DOMAIN p : Shell!IsPrompt(p[i])}
             S == {i \in DOMAIN s : Shell!IsPrompt(s[i])}
             f == [i \in S |-> i + d]
  <2>1. ASSUME NEW i \in S PROVE i + d \in P
    <3>1. i \in 1..Len(s) /\ s[i].kind = "prompt"
      BY <1>6 DEF Shell!IsPrompt
    <3>2. q[i + d].kind = "prompt" /\ i + d \in 1..Len(q)
      BY <1>2, <1>6, <3>1
    <3>3. i + d # Len(q)
      BY <1>2, <1>9, <3>2
    <3>4. i + d \in 1..Len(p)
      BY <1>2, <3>2, <3>3
    <3> QED
      BY <1>2, <3>2, <3>4 DEF Shell!IsPrompt
  <2>2. f \in Injection(S, P)
    <3>1. f \in [S -> P]
      BY <2>1
    <3>2. ASSUME NEW i \in S, NEW j \in S, f[i] = f[j] PROVE i = j
      <4>1. i \in Int /\ j \in Int /\ f[i] = i + d /\ f[j] = j + d
        BY <1>6
      <4> QED
        BY <3>2, <4>1
    <3> HIDE DEF f, S, P
    <3> QED
      BY <3>1, <3>2 DEF Injection, IsInjective
  <2>3. /\ IsFiniteSet(P) /\ Shell!Prompts(p) = Cardinality(P)
        /\ Shell!Prompts(s) = Cardinality(S)
    BY <1>6, PromptsCount
  <2> HIDE DEF f, S, P
  <2>4. Cardinality(S) <= Cardinality(P)
    BY <2>2, <2>3, FS_Injection
  <2> QED
    BY <2>3, <2>4
<1> QED
  BY <1>5, <1>6, <1>8, <1>9

ShellShape ==
    /\ (\E Entries : pane \in Seq(Entries)) /\ fg \in Int
    /\ typed \in Seq([id : Int, input : BOOLEAN]) /\ Len(typed) <= 1
    /\ call \in [pc : {"idle", "poll"}, id : Int, prompts : Int]
    /\ prev.status \in {"none", "completed", "timeout"}
    /\ sent \in [last : Nat, command : Nat]

\* While a command runs, the screen does not end with a prompt, and has no more prompts
\* than when the call began; between calls nothing is typed, and a command runs only after
\* a timeout.
ShellInv ==
    /\ ShellShape
    /\ Shell!EndsWithPrompt(pane) => fg = 0
    /\ typed # <<>> => fg = 0 /\ call.pc = "poll"
    /\ call.pc = "poll" /\ (fg # 0 \/ typed # <<>>) => Shell!Prompts(pane) <= call.prompts
    /\ call.pc = "idle" /\ prev.status # "timeout" => fg = 0

LEMMA ShellBegins == Shell!Init => ShellInv
<1> SUFFICES ASSUME Shell!Init PROVE ShellInv
  OBVIOUS
<1>1. pane \in Seq({Shell!Prompt(0)})
  BY DEF Shell!Init
<1>2. /\ fg = 0 /\ typed = <<>> /\ call.pc = "idle"
      /\ call \in [pc : {"idle", "poll"}, id : Int, prompts : Int]
      /\ prev.status = "none" /\ sent \in [last : Nat, command : Nat]
  BY DEF Shell!Init, Shell!NoCall
<1> QED
  BY <1>1, <1>2 DEF ShellInv, ShellShape

\* A command is sent only to a shell at its prompt.
LEMMA SendsAtPrompt ==
    ASSUME ShellInv, Shell!Send(FALSE)
    PROVE  fg = 0 /\ typed = <<>>
<1>1. call.pc = "idle" /\ ~Shell!Refuses
  BY DEF Shell!Send, Shell!MaySend
<1>2. prev.status # "timeout" \/ Shell!EndsWithPrompt(pane)
  BY <1>1 DEF Shell!Refuses
<1> QED
  BY <1>1, <1>2 DEF ShellInv

LEMMA ShellStep ==
    ASSUME ShellInv, [Shell!Next]_shellVars
    PROVE  ShellInv'
<1>0. ShellShape
  BY DEF ShellInv
<1>p. PICK Entries : pane \in Seq(Entries)
  BY <1>0 DEF ShellShape
<1>c. Shell!Prompts(pane) \in Nat
  BY <1>p, PromptsCount
<1>s. ASSUME NEW e PROVE pane \in Seq(Entries \cup {e}) /\ e \in Entries \cup {e}
  BY <1>p
<1>1. CASE Shell!Look
  BY <1>1, <1>c DEF ShellInv, ShellShape, Shell!Look
<1>2. CASE Shell!Refuse
  <2>1. UNCHANGED <<pane, typed, fg, wrote, call, sent>> /\ prev'.status = prev.status
    BY <1>0, <1>2 DEF ShellShape, Shell!Refuse
  <2> QED
    BY <2>1 DEF ShellInv, ShellShape
<1>3. CASE Shell!Send(FALSE)
  <2>2. fg = 0 /\ typed = <<>>
    BY <1>3, SendsAtPrompt
  <2>3. PICK id \in Nat : id = sent.last + 1
    BY <1>0 DEF ShellShape
  <2>4. /\ typed' = <<[id |-> id, input |-> FALSE]>> /\ UNCHANGED <<pane, fg, wrote, prev>>
        /\ call' = [pc |-> "poll", id |-> id, prompts |-> Shell!Prompts(pane)]
        /\ sent' = [last |-> id, command |-> id]
    BY <1>3, <2>2, <2>3 DEF Shell!Send
  <2> QED
    BY <1>c, <2>2, <2>4 DEF ShellInv, ShellShape
<1>4. CASE Shell!PollCompletes
  <2>1. typed = <<>> /\ fg = 0
    BY <1>c, <1>4 DEF ShellInv, ShellShape, Shell!PollCompletes, Shell!Looks, Shell!Completed
  <2>2. PICK e : e = Shell!Prompt(Shell!LastId(pane))
    OBVIOUS
  <2>3. /\ pane' \in Seq({e}) /\ prev'.status = "completed"
        /\ call' = [pc |-> "idle", id |-> 0, prompts |-> 0]
        /\ UNCHANGED <<typed, fg, wrote, sent>>
    BY <1>4, <2>1, <2>2 DEF Shell!PollCompletes, Shell!NoCall
  <2> QED
    BY <2>1, <2>3 DEF ShellInv, ShellShape
<1>5. CASE Shell!PollTimesOut
  <2>1. /\ prev'.status = "timeout" /\ call' = [pc |-> "idle", id |-> 0, prompts |-> 0]
        /\ UNCHANGED <<pane, typed, fg, wrote, sent>> /\ Shell!Looks
    BY <1>5 DEF Shell!PollTimesOut, Shell!NoCall
  <2>2. typed = <<>>
    BY <2>1 DEF ShellInv, Shell!Looks
  <2> QED
    BY <2>1, <2>2 DEF ShellInv, ShellShape
<1>6. CASE Shell!ShellReads
  <2>1. PICK e : e = Shell!Entry("echo", Head(typed).id, 0)
    OBVIOUS
  <2>2. /\ e.kind # "prompt" /\ pane' = Shell!Shows(pane, e)
        /\ fg' = Head(typed).id /\ typed' = Tail(typed) /\ typed # <<>>
        /\ UNCHANGED <<wrote, call, prev, sent>>
    BY <1>6, <2>1 DEF Shell!ShellReads, Shell!Entry
  <2>3. typed' = <<>> /\ fg' \in Int /\ call.pc = "poll"
    <3>1. /\ typed \in Seq([id : Int, input : BOOLEAN]) /\ Len(typed) <= 1
          /\ call.pc = "poll"
      BY <1>0, <2>2 DEF ShellInv, ShellShape
    <3>2. Head(typed) \in [id : Int, input : BOOLEAN] /\ Tail(typed) = <<>>
      BY <2>2, <3>1, OneElement
    <3> QED
      BY <2>2, <3>1, <3>2
  <2>4. PICK p : p = Shell!Shows(pane, e)
    OBVIOUS
  <2>5. /\ p \in Seq(Entries \cup {e}) /\ ~Shell!EndsWithPrompt(p)
        /\ Shell!Prompts(p) <= Shell!Prompts(pane) /\ Shell!Prompts(p) \in Nat
    BY <1>s, <2>2, <2>4, ShowsEntry, PromptsCount
  <2>6. Shell!Prompts(p) <= call.prompts
    BY <1>0, <1>c, <2>2, <2>3, <2>5 DEF ShellInv, ShellShape
  <2> QED
    BY <2>2, <2>3, <2>4, <2>5, <2>6 DEF ShellInv, ShellShape
<1>7. CASE Shell!ProgramReads
  BY <1>7 DEF ShellInv, Shell!ProgramReads
<1>8. CASE Shell!Writes
  <2>1. PICK e : e = Shell!Entry("out", fg, wrote[fg] + 1)
    OBVIOUS
  <2>2. /\ e.kind # "prompt" /\ pane' = Shell!Shows(pane, e)
        /\ fg # 0 /\ typed = <<>>
        /\ UNCHANGED <<typed, fg, call, prev, sent>>
    BY <1>8, <2>1 DEF ShellInv, Shell!Writes, Shell!Entry
  <2>4. PICK p : p = Shell!Shows(pane, e)
    OBVIOUS
  <2>5. /\ p \in Seq(Entries \cup {e}) /\ ~Shell!EndsWithPrompt(p)
        /\ Shell!Prompts(p) <= Shell!Prompts(pane) /\ Shell!Prompts(p) \in Nat
    BY <1>s, <2>2, <2>4, ShowsEntry, PromptsCount
  <2>6. call.pc = "poll" => Shell!Prompts(p) <= call.prompts
    BY <1>0, <1>c, <2>2, <2>5 DEF ShellInv, ShellShape
  <2> QED
    BY <2>2, <2>4, <2>5, <2>6 DEF ShellInv, ShellShape
<1>9. CASE Shell!Exits
  <2>1. PICK e : e = Shell!Prompt(fg)
    OBVIOUS
  <2>2. /\ pane' = Shell!Shows(pane, e) /\ fg # 0 /\ typed = <<>> /\ fg' = 0
        /\ UNCHANGED <<typed, wrote, call, prev, sent>>
    BY <1>9, <2>1 DEF ShellInv, Shell!Exits
  <2>3. \E S : pane' \in Seq(S)
    BY <1>s, <2>2, ShowsEntry
  <2> QED
    BY <2>2, <2>3 DEF ShellInv, ShellShape
<1>10. CASE UNCHANGED shellVars
  BY <1>10 DEF shellVars, ShellInv, ShellShape
<1> QED
  BY Zenon, <1>1, <1>2, <1>3, <1>4, <1>5, <1>6, <1>7, <1>8, <1>9, <1>10 DEF Shell!Next

-----------------------------------------------------------------------------
(* The event stream.                                                       *)

StreamIds(h) == 0..(h.most - 1)
StreamEvents(h) == 1..h.most
Adders(h) == [pc : {"idle", "file", "page", "put"}, event : Int, id : Int, page : Int]

StreamShape(h) ==
    /\ made \in 0..h.most /\ curId \in {-1} \cup 0..h.most
    /\ file \in [StreamIds(h) -> 0..h.most]
    /\ lists \in [StreamIds(h) -> Seq(StreamEvents(h))]
    /\ current \in {-1} \cup StreamIds(h)
    /\ prod \in [h.adders -> Adders(h)]
    /\ idOf \in [StreamEvents(h) -> Int]

LineShape(h) ==
    /\ queue \in Seq(StreamEvents(h))
    /\ tasks \in [StreamSubs -> Seq(StreamEvents(h))] /\ seen \in [StreamSubs -> Seq(StreamEvents(h))]
    /\ disp \in [pc : {"get", "pass", "ended", "dead"}, event : Int, todo : SUBSET StreamSubs]
    /\ disp.todo # {} => disp.event \in StreamEvents(h)

\* Ids go up from behind those that have files; an id is given to one event at a time.
IdsGiven(h) ==
    /\ \A i \in StreamIds(h) : file[i] # 0 => i < made /\ file[i] \in 1..made /\ idOf[file[i]] = i
    /\ curId = -1 => /\ current = -1 /\ \A p \in h.adders : prod[p].pc = "idle"
                     /\ \A i \in StreamIds(h) : lists[i] = <<>>
    /\ curId # -1 => curId <= made /\ \A i \in StreamIds(h) : file[i] # 0 => i < curId
    /\ \A p \in h.adders : prod[p].pc # "idle" =>
         /\ prod[p].event \in 1..made /\ prod[p].id \in StreamIds(h) /\ prod[p].id < curId
         /\ prod[p].page \in StreamIds(h) /\ idOf[prod[p].event] = prod[p].id
         /\ file[prod[p].id] = IF prod[p].pc = "file" THEN 0 ELSE prod[p].event
    /\ \A p, q \in h.adders : p # q /\ prod[p].pc # "idle" /\ prod[q].pc # "idle"
                                => prod[p].id # prod[q].id

\* The pages in memory hold the events of consecutive ids, each with its file but for those
\* whose thread has still to write it.
ListsRight(h) ==
    /\ \A first \in StreamIds(h) : \A j \in DOMAIN lists[first] :
         /\ first + j - 1 < curId /\ lists[first][j] \in 1..made
         /\ \/ file[first + j - 1] = lists[first][j]
            \/ \E p \in h.adders : /\ prod[p].pc = "file" /\ prod[p].id = first + j - 1
                                   /\ prod[p].event = lists[first][j]
    /\ current # -1 => current + Len(lists[current]) = curId
    /\ curId # -1 => \A i \in StreamIds(h) : i >= curId => lists[i] = <<>>

PagesStored(h) ==
    /\ pages \in [StreamIds(h) -> Seq(StreamEvents(h))]
    /\ \A first \in StreamIds(h) : \A j \in DOMAIN pages[first] :
         first + j - 1 \in StreamIds(h) /\ file[first + j - 1] = pages[first][j]

\* What is on its way to a callback, or was handled by one.
InLine(e) ==
    \/ \E i \in DOMAIN queue : queue[i] = e
    \/ disp.todo # {} /\ disp.event = e
    \/ \E s \in StreamSubs : \/ \E i \in DOMAIN tasks[s] : tasks[s][i] = e
                             \/ \E i \in DOMAIN seen[s] : seen[s][i] = e
Stored(h, e) == e \in 1..made /\ idOf[e] \in StreamIds(h) /\ file[idOf[e]] = e

LineStored(h) ==
    /\ \A e \in StreamEvents(h) : InLine(e) \/ e \in streamHeard => Stored(h, e)
    /\ streamHeard \subseteq StreamEvents(h)
    /\ \A p \in h.adders : prod[p].pc # "idle" => ~InLine(prod[p].event)

\* One order for all callbacks: that of the queue.
Up(rank, s) == \A i, j \in DOMAIN s : i < j => rank[s[i]] < rank[s[j]]
Below(rank, s, t) == \A i \in DOMAIN s, j \in DOMAIN t : rank[s[i]] < rank[t[j]]
Before(rank, s, e) == \A i \in DOMAIN s : rank[s[i]] < rank[e]
InOrder(rank) ==
    /\ Up(rank, queue)
    /\ disp.todo # {} => \A j \in DOMAIN queue : rank[disp.event] < rank[queue[j]]
    /\ \A s \in StreamSubs :
         /\ Up(rank, seen[s]) /\ Up(rank, tasks[s])
         /\ Below(rank, seen[s], tasks[s]) /\ Below(rank, seen[s], queue)
         /\ Below(rank, tasks[s], queue)
         /\ s \in disp.todo => Before(rank, seen[s], disp.event) /\ Before(rank, tasks[s], disp.event)
OneOrder(h) ==
    \E rank \in [StreamEvents(h) -> Nat], top \in Nat :
        InOrder(rank) /\ \A e \in StreamEvents(h) : rank[e] < top

StreamInv(h) ==
    StreamShape(h) /\ LineShape(h) /\ IdsGiven(h) /\ ListsRight(h) /\ LineStored(h) /\ OneOrder(h)

LEMMA StreamConstants ==
    ASSUME NEW h \in {OneAdds, TwoAdd}
    PROVE  h.most \in Nat /\ StreamCacheSize \in Nat \ {0} /\ StreamSubs \subseteq Nat
<1>1. /\ Streams(OneAdds)!EventStreamAssumption /\ Streams(TwoAdd)!EventStreamAssumption
  BY InstancesAssumption DEF InstancesAssumption
<1>2. Streams(h)!EventStreamAssumption
  BY <1>1
<1> QED
  BY <1>2 DEF Streams!EventStreamAssumption

LEMMA StreamBegins ==
    ASSUME NEW h \in {OneAdds, TwoAdd}, Streams(h)!Init
    PROVE  StreamInv(h) /\ PagesStored(h)
<1>0. h.most \in Nat
  BY StreamConstants
<1>1. /\ file = [i \in StreamIds(h) |-> 0] /\ pages = [i \in StreamIds(h) |-> <<>>]
      /\ curId = -1 /\ lists = [i \in StreamIds(h) |-> <<>>] /\ current = -1
      /\ prod = [p \in h.adders |-> [pc |-> "idle", event |-> 0, id |-> -1, page |-> -1]]
      /\ queue = <<>> /\ disp = [pc |-> "get", event |-> 0, todo |-> {}]
      /\ tasks = [s \in StreamSubs |-> <<>>] /\ seen = [s \in StreamSubs |-> <<>>]
      /\ made = 0 /\ idOf = [e \in StreamEvents(h) |-> -1] /\ streamHeard = {}
  BY DEF Streams!Init, Streams!Fresh, Streams!NoId, Streams!Ids, Streams!Events, Streams!Resting,
     Streams!AtRest, StreamIds, StreamEvents
<1>2. StreamShape(h) /\ PagesStored(h)
  BY <1>0, <1>1 DEF StreamShape, PagesStored, StreamIds, StreamEvents, Adders
<1>3. LineShape(h)
  BY <1>0, <1>1 DEF LineShape
<1>4. IdsGiven(h) /\ ListsRight(h)
  BY <1>0, <1>1 DEF IdsGiven, ListsRight
<1>5. LineStored(h)
  BY <1>0, <1>1 DEF LineStored, InLine
<1>6. OneOrder(h)
  <2>1. PICK rank : rank = [e \in StreamEvents(h) |-> 0]
    OBVIOUS
  <2>2. InOrder(rank)
    BY <1>1 DEF InOrder, Up, Below, Before
  <2>3. rank \in [StreamEvents(h) -> Nat] /\ \A e \in StreamEvents(h) : rank[e] < 1
    BY <2>1
  <2> QED
    BY <2>2, <2>3 DEF OneOrder
<1> QED
  BY <1>2, <1>3, <1>4, <1>5, <1>6 DEF StreamInv

\* _calculate_cur_id: behind every file.
LEMMA CurIdIsFree ==
    ASSUME NEW h \in {OneAdds, TwoAdd}, StreamShape(h), IdsGiven(h)
    PROVE  /\ Streams(h)!CurId \in Nat /\ Streams(h)!CurId <= made
           /\ \A i \in StreamIds(h) : file[i] # 0 => i < Streams(h)!CurId
           /\ curId # -1 => Streams(h)!CurId = curId
<1>0. h.most \in Nat /\ made \in Nat /\ made <= h.most
  BY StreamConstants DEF StreamShape
<1>1. CASE curId # -1
  BY <1>1 DEF Streams!CurId, Streams!NoId, StreamShape, IdsGiven
<1>2. CASE curId = -1
  <2>1. PICK S : S = {i \in StreamIds(h) : \E j \in StreamIds(h) : j >= i /\ file[j] # 0}
    OBVIOUS
  <2>2. PICK c : c = Cardinality(S)
    OBVIOUS
  <2>3. Streams(h)!CurId = c
    BY <1>2, <2>1, <2>2 DEF Streams!CurId, Streams!NoId, Streams!Calculated, Streams!Ids, StreamIds,
       Streams!Cardinality, Cardinality
  <2>4. S \subseteq 0..(made - 1)
    BY <1>0, <2>1 DEF IdsGiven, StreamIds
  <2>5. IsFiniteSet(0..(made - 1)) /\ Cardinality(0..(made - 1)) = made
    <3>1. 0 \in Int /\ made - 1 \in Int
      BY <1>0
    <3>2. /\ IsFiniteSet(0..(made - 1))
          /\ Cardinality(0..(made - 1)) = IF 0 > made - 1 THEN 0 ELSE made - 1 - 0 + 1
      BY <3>1, FS_Interval
    <3> QED
      BY <1>0, <3>2
  <2>6. IsFiniteSet(S) /\ c \in Nat /\ c <= made
    <3>1. IsFiniteSet(S) /\ Cardinality(S) <= Cardinality(0..(made - 1))
      BY <2>4, <2>5, FS_Subset
    <3> QED
      BY <2>2, <2>5, <3>1, FS_CardinalityType
  <2>7. ASSUME NEW i \in StreamIds(h), file[i] # 0 PROVE i < c
    <3>1. 0..i \subseteq S
      BY <1>0, <2>1, <2>7 DEF StreamIds
    <3>2. i \in Nat
      BY <1>0 DEF StreamIds
    <3>3. Cardinality(0..i) = i + 1
      BY <3>2, FS_Interval
    <3>4. Cardinality(0..i) <= c
      BY <2>2, <2>6, <3>1, FS_Subset
    <3> QED
      BY <2>6, <3>2, <3>3, <3>4
  <2> QED
    BY <1>2, <2>3, <2>6, <2>7
<1> QED
  BY <1>1, <1>2

-----------------------------------------------------------------------------
(* Steps that add events.                                                  *)

\* What waits or was handled stays stored, and in order, when its sequences stay.
LEMMA LineKept ==
    ASSUME NEW h \in {OneAdds, TwoAdd}, LineStored(h), OneOrder(h), LineShape(h),
           UNCHANGED <<queue, disp, tasks, seen, streamHeard>>
    PROVE  /\ LineShape(h)' /\ OneOrder(h)'
           /\ \A e : InLine(e)' <=> InLine(e)
<1>1. /\ queue' = queue /\ disp' = disp /\ tasks' = tasks /\ seen' = seen
      /\ streamHeard' = streamHeard
  OBVIOUS
<1>2. LineShape(h)'
  BY <1>1 DEF LineShape
<1>3. OneOrder(h)'
  <2>1. PICK rank \in [StreamEvents(h) -> Nat], top \in Nat :
          InOrder(rank) /\ \A e \in StreamEvents(h) : rank[e] < top
    BY DEF OneOrder
  <2>2. InOrder(rank)'
    BY <1>1, <2>1 DEF InOrder, Up, Below, Before
  <2> QED
    BY <2>1, <2>2 DEF OneOrder
<1>4. ASSUME NEW e PROVE InLine(e)' <=> InLine(e)
  BY <1>1 DEF InLine
<1> QED
  BY <1>2, <1>3, <1>4

LEMMA AddsEvent ==
    ASSUME NEW h \in {OneAdds, TwoAdd}, StreamInv(h), NEW p \in h.adders, Streams(h)!AddEvent(p)
    PROVE  StreamInv(h)'
<1>1. PICK id : id = Streams(h)!CurId
  OBVIOUS
<1>2. PICK first : first = IF current = -1 THEN id ELSE current
  OBVIOUS
<1>3. PICK l : l = Append(lists[first], made + 1)
  OBVIOUS
<1>4. PICK n : n = made + 1
  OBVIOUS
<1>5. PICK new : new = [pc |-> "file", event |-> n, id |-> id, page |-> first]
  OBVIOUS
<1>6. /\ prod[p].pc = "idle" /\ made < h.most /\ made' = n
      /\ idOf' = [idOf EXCEPT ![n] = id] /\ curId' = id + 1
      /\ lists' = [lists EXCEPT ![first] = l]
      /\ current' \in {-1, first} /\ prod' = [prod EXCEPT ![p] = new]
      /\ UNCHANGED <<file, pages, queue, disp, tasks, seen, streamHeard>>
  BY SMTT(20), <1>1, <1>2, <1>3, <1>4, <1>5 DEF Streams!AddEvent, Streams!NoId, Streams!After,
     Streams!storeVars, Streams!passVars
<1>7. StreamShape(h) /\ LineShape(h) /\ IdsGiven(h) /\ ListsRight(h) /\ LineStored(h) /\ OneOrder(h)
  BY DEF StreamInv
<1>8. /\ h.most \in Nat /\ made \in Nat /\ n = made + 1 /\ n \in StreamEvents(h)
  BY <1>4, <1>6, <1>7, StreamConstants DEF StreamShape, StreamEvents
<1>9. /\ id \in Nat /\ id <= made /\ id \in StreamIds(h)
      /\ \A i \in StreamIds(h) : file[i] # 0 => i < id
      /\ curId # -1 => id = curId
  BY <1>1, <1>6, <1>7, <1>8, CurIdIsFree DEF StreamIds
<1>10. /\ first \in StreamIds(h) /\ first <= id
       /\ first + Len(lists[first]) = id /\ lists[first] \in Seq(StreamEvents(h))
  <2>1. CASE current = -1
    <3>1. first = id
      BY <1>2, <2>1
    <3>2. lists[id] = <<>>
      BY <1>7, <1>9 DEF IdsGiven, ListsRight, StreamShape
    <3> QED
      BY <1>9, <3>1, <3>2
  <2>2. CASE current # -1
    <3>1. first = current /\ current \in StreamIds(h) /\ curId # -1
      BY <1>2, <1>7, <2>2 DEF StreamShape, IdsGiven
    <3>2. first + Len(lists[first]) = id /\ lists[first] \in Seq(StreamEvents(h))
      BY <1>7, <1>9, <3>1, <2>2 DEF ListsRight, StreamShape
    <3>3. Len(lists[first]) \in Nat /\ first \in Int
      BY <3>1, <3>2 DEF StreamIds
    <3> QED
      BY <1>9, <3>1, <3>2, <3>3
  <2> QED
    BY <2>1, <2>2
<1>11. /\ l \in Seq(StreamEvents(h)) /\ Len(l) = Len(lists[first]) + 1 /\ l[Len(l)] = n
       /\ \A j \in DOMAIN lists[first] : l[j] = lists[first][j]
       /\ DOMAIN l = 1..Len(l) /\ DOMAIN lists[first] = 1..(Len(l) - 1)
       /\ Len(l) \in Nat
  BY <1>3, <1>4, <1>8, <1>10
<1>12. StreamShape(h)'
  <2>1. /\ made' \in 0..h.most /\ curId' \in {-1} \cup 0..h.most
        /\ file' \in [StreamIds(h) -> 0..h.most]
        /\ current' \in {-1} \cup StreamIds(h)
    BY <1>6, <1>7, <1>8, <1>9, <1>10 DEF StreamShape
  <2>2. lists' \in [StreamIds(h) -> Seq(StreamEvents(h))]
    BY <1>6, <1>7, <1>11 DEF StreamShape
  <2>3. new \in Adders(h)
    BY <1>5, <1>8, <1>9, <1>10 DEF Adders, StreamIds
  <2>4. prod' \in [h.adders -> Adders(h)]
    BY <1>6, <1>7, <2>3 DEF StreamShape
  <2>5. idOf' \in [StreamEvents(h) -> Int]
    <3>1. idOf \in [StreamEvents(h) -> Int] /\ id \in Int
      BY <1>7, <1>9 DEF StreamShape
    <3> QED
      BY <1>6, <3>1
  <2> QED
    BY <2>1, <2>2, <2>4, <2>5 DEF StreamShape
<1>13. /\ \A e \in 1..made : idOf'[e] = idOf[e]
       /\ idOf'[n] = id /\ prod'[p] = new
       /\ \A q \in h.adders : q # p => prod'[q] = prod[q]
       /\ \A i \in StreamIds(h) : i # first => lists'[i] = lists[i]
       /\ lists'[first] = l
  <2>1. \A e \in 1..made : e # n /\ e \in StreamEvents(h)
    BY <1>6, <1>8 DEF StreamEvents
  <2> QED
    BY <1>6, <1>7, <1>8, <1>10, <2>1 DEF StreamShape
<1>14. \A q \in h.adders : q # p /\ prod[q].pc # "idle" => prod[q].id < id
  BY <1>7, <1>9 DEF IdsGiven
<1>15. IdsGiven(h)'
  <2>1. \A i \in StreamIds(h) : file[i] # 0 =>
            i < made' /\ file[i] \in 1..made' /\ idOf'[file[i]] = i /\ i < curId'
    BY <1>6, <1>7, <1>8, <1>9, <1>13 DEF IdsGiven, StreamIds
  <2>2. curId' # -1 /\ curId' <= made'
    BY <1>6, <1>8, <1>9
  <2>3. file[id] = 0
    BY <1>9
  <2>4. ASSUME NEW q \in h.adders, prod'[q].pc # "idle"
        PROVE  /\ prod'[q].event \in 1..made' /\ prod'[q].id \in StreamIds(h) /\ prod'[q].id < curId'
               /\ prod'[q].page \in StreamIds(h) /\ idOf'[prod'[q].event] = prod'[q].id
               /\ file[prod'[q].id] = IF prod'[q].pc = "file" THEN 0 ELSE prod'[q].event
    <3>1. CASE q = p
      BY <1>5, <1>6, <1>8, <1>9, <1>10, <1>13, <2>3, <3>1
    <3>2. CASE q # p
      <4>1. /\ prod[q].event \in 1..made /\ prod[q].id \in StreamIds(h) /\ prod[q].id < id
            /\ prod[q].page \in StreamIds(h) /\ idOf[prod[q].event] = prod[q].id
            /\ file[prod[q].id] = IF prod[q].pc = "file" THEN 0 ELSE prod[q].event
        BY <1>7, <1>13, <1>14, <2>4, <3>2 DEF IdsGiven
      <4>2. prod[q].id < curId' /\ prod[q].event \in 1..made'
        BY <1>6, <1>8, <1>9, <4>1 DEF StreamIds
      <4> QED
        BY <1>13, <3>2, <4>1, <4>2
    <3> QED
      BY <3>1, <3>2
  <2>5. ASSUME NEW q \in h.adders, NEW r \in h.adders, q # r,
               prod'[q].pc # "idle", prod'[r].pc # "idle"
        PROVE  prod'[q].id # prod'[r].id
    <3>1. new.id = id /\ \A x \in h.adders : x # p /\ prod[x].pc # "idle" => prod[x].id # id
      BY <1>5, <1>7, <1>9, <1>14 DEF IdsGiven, StreamIds
    <3>2. CASE q = p \/ r = p
      BY <1>13, <2>5, <3>1, <3>2
    <3>3. CASE q # p /\ r # p
      BY <1>7, <1>13, <2>5, <3>3 DEF IdsGiven
    <3> QED
      BY <3>2, <3>3
  <2> QED
    BY <1>6, <2>1, <2>2, <2>4, <2>5 DEF IdsGiven
<1>16. ListsRight(h)'
  <2>1. ASSUME NEW i \in StreamIds(h), NEW j \in DOMAIN lists'[i]
        PROVE  /\ i + j - 1 < curId' /\ lists'[i][j] \in 1..made'
               /\ \/ file[i + j - 1] = lists'[i][j]
                  \/ \E q \in h.adders : /\ prod'[q].pc = "file" /\ prod'[q].id = i + j - 1
                                         /\ prod'[q].event = lists'[i][j]
    <3>1. CASE j \in DOMAIN lists[i] /\ lists'[i][j] = lists[i][j]
      <4>1. /\ i + j - 1 < curId /\ lists[i][j] \in 1..made
            /\ \/ file[i + j - 1] = lists[i][j]
               \/ \E q \in h.adders : /\ prod[q].pc = "file" /\ prod[q].id = i + j - 1
                                      /\ prod[q].event = lists[i][j]
        BY <1>7, <3>1 DEF ListsRight
      <4>2. curId # -1
        BY <1>7, <3>1 DEF IdsGiven
      <4>3. i + j - 1 < curId' /\ lists[i][j] \in 1..made'
        <5>1. i \in Int /\ j \in Int
          BY <1>7, <3>1 DEF StreamShape, StreamIds
        <5> QED
          BY <1>6, <1>8, <1>9, <4>1, <4>2, <5>1
      <4> QED
        BY <1>6, <1>13, <3>1, <4>1, <4>3
    <3>2. CASE ~(j \in DOMAIN lists[i] /\ lists'[i][j] = lists[i][j])
      <4>1. i = first /\ j = Len(l)
        BY SMTT(20), <1>11, <1>13, <2>1, <3>2
      <4>2. i + j - 1 = id
        BY <1>9, <1>10, <1>11, <4>1 DEF StreamIds
      <4>3. lists'[i][j] = n
        BY <1>11, <1>13, <4>1
      <4>4. new.pc = "file" /\ new.id = id /\ new.event = n
        BY <1>5
      <4> QED
        BY <1>6, <1>8, <1>9, <1>13, <4>2, <4>3, <4>4
    <3> QED
      BY <3>1, <3>2
  <2>2. current' # -1 => current' + Len(lists'[current']) = curId'
    <3>1. first + Len(l) = id + 1
      BY <1>9, <1>10, <1>11 DEF StreamIds
    <3> QED
      BY <1>6, <1>13, <3>1
  <2>3. ASSUME NEW i \in StreamIds(h), i >= curId' PROVE lists'[i] = <<>>
    <3>1. i # first /\ i >= id /\ i \in Int
      BY <1>6, <1>9, <1>10, <2>3 DEF StreamIds
    <3>2. lists[i] = <<>>
      BY <1>7, <1>9, <3>1 DEF ListsRight, IdsGiven
    <3> QED
      BY <1>13, <3>1, <3>2
  <2> QED
    BY <1>6, <2>1, <2>2, <2>3 DEF ListsRight
<1>17. /\ LineShape(h)' /\ OneOrder(h)' /\ \A e : InLine(e)' <=> InLine(e)
  BY <1>6, <1>7, LineKept
<1>18. LineStored(h)'
  <2>1. ASSUME NEW e \in StreamEvents(h), InLine(e)' \/ e \in streamHeard' PROVE Stored(h, e)'
    <3>1. e \in 1..made /\ idOf[e] \in StreamIds(h) /\ file[idOf[e]] = e
      BY <1>6, <1>7, <1>17, <2>1 DEF LineStored, Stored
    <3> QED
      BY <1>6, <1>8, <1>13, <3>1 DEF Stored
  <2>2. ~InLine(n)
    BY <1>7, <1>8 DEF LineStored, Stored
  <2>3. ASSUME NEW q \in h.adders, prod'[q].pc # "idle" PROVE ~InLine(prod'[q].event)
    <3>1. new.event = n
      BY <1>5
    <3> QED
      BY <1>7, <1>13, <2>2, <2>3, <3>1 DEF LineStored
  <2>4. \A q \in h.adders : prod'[q].pc # "idle" => ~InLine(prod'[q].event)
    BY <2>3
  <2> QED
    BY <1>6, <1>7, <1>17, <2>1, <2>4 DEF LineStored, InLine
<1> QED
  BY <1>12, <1>15, <1>16, <1>17, <1>18 DEF StreamInv

\* What the store knows stays, and no file is taken back.
LEMMA WritesFile ==
    ASSUME NEW h \in {OneAdds, TwoAdd}, StreamInv(h), NEW p \in h.adders, Streams(h)!WriteFile(p)
    PROVE  /\ StreamInv(h)'
           /\ PagesStored(h) => PagesStored(h)'
<1>1. PICK a : a = prod[p]
  OBVIOUS
<1>2. PICK b : b = [a EXCEPT !.pc = "page"]
  OBVIOUS
<1>3. /\ a.pc = "file" /\ file' = [file EXCEPT ![a.id] = a.event]
      /\ prod' = [prod EXCEPT ![p] = b]
      /\ UNCHANGED <<pages, curId, lists, current, made, idOf, queue, disp, tasks, seen,
                     streamHeard>>
  <2>1. prod' = [prod EXCEPT ![p] = IF Streams(h)!After(a.pc) = "idle" THEN Streams(h)!Resting
                                    ELSE [prod[p] EXCEPT !.pc = Streams(h)!After(a.pc)]]
    BY <1>1 DEF Streams!WriteFile, Streams!Goes
  <2>2. a.pc = "file"
    BY <1>1 DEF Streams!WriteFile
  <2>3. Streams(h)!After(a.pc) = "page"
    BY <2>2 DEF Streams!After
  <2> QED
    BY <1>1, <1>2, <2>1, <2>3 DEF Streams!WriteFile, Streams!passVars
<1>4. StreamShape(h) /\ LineShape(h) /\ IdsGiven(h) /\ ListsRight(h) /\ LineStored(h) /\ OneOrder(h)
  BY DEF StreamInv
<1>5. h.most \in Nat /\ made \in Nat /\ made <= h.most
  BY <1>4, StreamConstants DEF StreamShape
<1>6. /\ a.event \in 1..made /\ a.id \in StreamIds(h) /\ a.id < curId /\ a.page \in StreamIds(h)
      /\ idOf[a.event] = a.id /\ file[a.id] = 0 /\ curId # -1 /\ a.id \in Int
      /\ a \in Adders(h)
  BY <1>1, <1>3, <1>4 DEF IdsGiven, StreamIds, StreamShape
<1>7. /\ b \in Adders(h) /\ b.pc = "page" /\ b.event = a.event /\ b.id = a.id /\ b.page = a.page
      /\ a.event \in 0..h.most
  BY <1>2, <1>5, <1>6 DEF Adders
<1>8. /\ prod'[p] = b /\ \A q \in h.adders : q # p => prod'[q] = prod[q]
      /\ file'[a.id] = a.event /\ \A i \in StreamIds(h) : i # a.id => file'[i] = file[i]
  BY <1>3, <1>4, <1>6 DEF StreamShape
<1>9. StreamShape(h)'
  <2>1. file' \in [StreamIds(h) -> 0..h.most] /\ prod' \in [h.adders -> Adders(h)]
    BY <1>3, <1>4, <1>7 DEF StreamShape
  <2> QED
    BY <1>3, <1>4, <2>1 DEF StreamShape
<1>10. IdsGiven(h)'
  <2>1. \A i \in StreamIds(h) : file'[i] # 0 =>
            i < made /\ file'[i] \in 1..made /\ idOf[file'[i]] = i /\ i < curId
    <3>1. a.id < made
      BY <1>4, <1>5, <1>6 DEF IdsGiven, StreamShape
    <3> QED
      BY <1>4, <1>6, <1>8, <3>1 DEF IdsGiven
  <2>2. ASSUME NEW q \in h.adders, prod'[q].pc # "idle"
        PROVE  /\ prod'[q].event \in 1..made /\ prod'[q].id \in StreamIds(h) /\ prod'[q].id < curId
               /\ prod'[q].page \in StreamIds(h) /\ idOf[prod'[q].event] = prod'[q].id
               /\ file'[prod'[q].id] = IF prod'[q].pc = "file" THEN 0 ELSE prod'[q].event
    <3>1. CASE q = p
      BY <1>6, <1>7, <1>8, <3>1
    <3>2. CASE q # p
      <4>1. prod[q].pc # "idle" /\ prod[q].id # a.id
        BY <1>1, <1>3, <1>4, <1>8, <2>2, <3>2 DEF IdsGiven
      <4> QED
        BY <1>4, <1>8, <3>2, <4>1 DEF IdsGiven
    <3> QED
      BY <3>1, <3>2
  <2>3. ASSUME NEW q \in h.adders, NEW r \in h.adders, q # r,
               prod'[q].pc # "idle", prod'[r].pc # "idle"
        PROVE  prod'[q].id # prod'[r].id
    <3>1. \A x \in h.adders : prod'[x].id = prod[x].id /\ (prod'[x].pc # "idle" => prod[x].pc # "idle")
      BY <1>1, <1>3, <1>7, <1>8
    <3> QED
      BY <1>4, <2>3, <3>1 DEF IdsGiven
  <2> QED
    BY <1>3, <1>4, <1>6, <2>1, <2>2, <2>3 DEF IdsGiven
<1>11. ListsRight(h)'
  <2>1. ASSUME NEW i \in StreamIds(h), NEW j \in DOMAIN lists[i]
        PROVE  /\ i + j - 1 < curId /\ lists[i][j] \in 1..made
               /\ \/ file'[i + j - 1] = lists[i][j]
                  \/ \E q \in h.adders : /\ prod'[q].pc = "file" /\ prod'[q].id = i + j - 1
                                         /\ prod'[q].event = lists[i][j]
    <3>1. /\ i + j - 1 < curId /\ lists[i][j] \in 1..made
          /\ \/ file[i + j - 1] = lists[i][j]
             \/ \E q \in h.adders : /\ prod[q].pc = "file" /\ prod[q].id = i + j - 1
                                    /\ prod[q].event = lists[i][j]
      BY <1>4 DEF ListsRight
    <3>2. i + j - 1 \in StreamIds(h)
      <4>1. i \in Nat /\ j \in Nat \ {0} /\ curId <= h.most /\ curId \in Int
        BY <1>4, <1>5 DEF StreamShape, StreamIds
      <4> QED
        BY <1>5, <3>1, <4>1 DEF StreamIds
    <3>3. CASE file[i + j - 1] = lists[i][j]
      BY <1>6, <1>8, <3>1, <3>2, <3>3
    <3>4. CASE \E q \in h.adders : /\ prod[q].pc = "file" /\ prod[q].id = i + j - 1
                                   /\ prod[q].event = lists[i][j]
      BY <1>1, <1>8, <3>1, <3>4
    <3> QED
      BY <3>1, <3>3, <3>4
  <2> QED
    BY <1>3, <1>4, <2>1 DEF ListsRight
<1>12. /\ LineShape(h)' /\ OneOrder(h)' /\ \A e : InLine(e)' <=> InLine(e)
  BY <1>3, <1>4, LineKept
<1>13. LineStored(h)'
  <2>1. ASSUME NEW e \in StreamEvents(h), InLine(e) \/ e \in streamHeard PROVE Stored(h, e)'
    <3>1. e \in 1..made /\ idOf[e] \in StreamIds(h) /\ file[idOf[e]] = e
      BY <1>4, <2>1 DEF LineStored, Stored
    <3> QED
      BY <1>3, <1>6, <1>8, <3>1 DEF Stored
  <2>2. \A q \in h.adders : prod'[q].pc # "idle" => ~InLine(prod'[q].event)
    BY <1>1, <1>3, <1>4, <1>7, <1>8 DEF LineStored
  <2> QED
    BY <1>3, <1>4, <1>12, <2>1, <2>2 DEF LineStored
<1>14. ASSUME PagesStored(h) PROVE PagesStored(h)'
  <2>1. ASSUME NEW i \in StreamIds(h), NEW j \in DOMAIN pages[i]
        PROVE  i + j - 1 \in StreamIds(h) /\ file'[i + j - 1] = pages[i][j]
    <3>1. i + j - 1 \in StreamIds(h) /\ file[i + j - 1] = pages[i][j]
      BY <1>14 DEF PagesStored
    <3>2. pages[i][j] \in StreamEvents(h)
      BY <1>14 DEF PagesStored
    <3>3. pages[i][j] # 0
      BY <1>5, <3>2 DEF StreamEvents
    <3> QED
      BY <1>6, <1>8, <3>1, <3>3
  <2> QED
    BY <1>3, <1>14, <2>1 DEF PagesStored
<1> QED
  BY <1>9, <1>10, <1>11, <1>12, <1>13, <1>14 DEF StreamInv

\* A thread that goes on with its event: what it has written stays.
LEMMA ThreadGoes ==
    ASSUME NEW h \in {OneAdds, TwoAdd}, StreamInv(h), NEW p \in h.adders, NEW b \in Adders(h),
           prod[p].pc \in {"page", "put"}, prod' = [prod EXCEPT ![p] = b],
           \/ b.pc = "idle"
           \/ /\ b.pc = "put" /\ b.event = prod[p].event
              /\ b.id = prod[p].id /\ b.page = prod[p].page,
           UNCHANGED <<file, curId, lists, current, made, idOf>>
    PROVE  StreamShape(h)' /\ IdsGiven(h)' /\ ListsRight(h)'
<1>1. StreamShape(h) /\ IdsGiven(h) /\ ListsRight(h)
  BY DEF StreamInv
<1>2. /\ prod'[p] = b /\ \A q \in h.adders : q # p => prod'[q] = prod[q]
      /\ prod' \in [h.adders -> Adders(h)]
  BY <1>1 DEF StreamShape
<1>3. StreamShape(h)'
  BY <1>1, <1>2 DEF StreamShape
<1>4. \A q \in h.adders : prod'[q].pc = "file" <=> prod[q].pc = "file" /\ q # p
  BY <1>2
<1>5. IdsGiven(h)'
  <2>1. ASSUME NEW q \in h.adders, prod'[q].pc # "idle"
        PROVE  /\ prod[q].pc # "idle" /\ prod'[q].id = prod[q].id /\ prod'[q].event = prod[q].event
               /\ prod'[q].page = prod[q].page
               /\ file[prod[q].id] = IF prod'[q].pc = "file" THEN 0 ELSE prod[q].event
    <3>1. prod[q].pc # "idle" /\ prod'[q].id = prod[q].id /\ prod'[q].event = prod[q].event
          /\ prod'[q].page = prod[q].page
      BY <1>2, <2>1
    <3>2. file[prod[q].id] = IF prod[q].pc = "file" THEN 0 ELSE prod[q].event
      BY <1>1, <3>1 DEF IdsGiven
    <3> QED
      BY <1>4, <3>1, <3>2
  <2>2. \A i \in StreamIds(h) : file'[i] # 0 => i < made' /\ file'[i] \in 1..made' /\ idOf'[file'[i]] = i
    BY <1>1 DEF IdsGiven
  <2>3. curId' # -1
    BY <1>1 DEF IdsGiven
  <2>4. curId' # -1 => curId' <= made' /\ \A i \in StreamIds(h) : file'[i] # 0 => i < curId'
    BY <1>1 DEF IdsGiven
  <2>5. ASSUME NEW q \in h.adders, prod'[q].pc # "idle"
        PROVE  /\ prod'[q].event \in 1..made' /\ prod'[q].id \in StreamIds(h) /\ prod'[q].id < curId'
               /\ prod'[q].page \in StreamIds(h) /\ idOf'[prod'[q].event] = prod'[q].id
               /\ file'[prod'[q].id] = IF prod'[q].pc = "file" THEN 0 ELSE prod'[q].event
    BY <1>1, <2>1, <2>5 DEF IdsGiven
  <2>6. \A q, r \in h.adders : q # r /\ prod'[q].pc # "idle" /\ prod'[r].pc # "idle"
                                 => prod'[q].id # prod'[r].id
    BY <1>1, <2>1 DEF IdsGiven
  <2> QED
    BY <2>2, <2>3, <2>4, <2>5, <2>6 DEF IdsGiven
<1>6. ListsRight(h)'
  <2>1. ASSUME NEW q \in h.adders, prod[q].pc = "file"
        PROVE  prod'[q] = prod[q]
    BY <1>2, <2>1
  <2>2. ASSUME NEW i \in StreamIds(h), NEW j \in DOMAIN lists[i]
        PROVE  /\ i + j - 1 < curId /\ lists[i][j] \in 1..made
               /\ \/ file[i + j - 1] = lists[i][j]
                  \/ \E q \in h.adders : /\ prod'[q].pc = "file" /\ prod'[q].id = i + j - 1
                                         /\ prod'[q].event = lists[i][j]
    BY <1>1, <2>1 DEF ListsRight
  <2> QED
    BY <1>1, <2>2 DEF ListsRight
<1> QED
  BY <1>3, <1>5, <1>6

LEMMA StoresPage ==
    ASSUME NEW h \in {OneAdds, TwoAdd}, StreamInv(h), NEW p \in h.adders, Streams(h)!StorePage(p)
    PROVE  /\ StreamInv(h)'
           /\ h.adders = {p} /\ PagesStored(h) => PagesStored(h)'
<1>1. PICK b : b = [prod[p] EXCEPT !.pc = "put"]
  OBVIOUS
<1>2. PICK at : at = prod[p].page
  OBVIOUS
<1>3. /\ prod[p].pc = "page" /\ prod' = [prod EXCEPT ![p] = b]
      /\ pages' \in {pages, [pages EXCEPT ![at] = lists[at]]}
      /\ UNCHANGED <<file, curId, lists, current, made, idOf, queue, disp, tasks, seen, streamHeard>>
  <2>1. prod' = [prod EXCEPT ![p] = IF Streams(h)!After(prod[p].pc) = "idle" THEN Streams(h)!Resting
                                    ELSE [prod[p] EXCEPT !.pc = Streams(h)!After(prod[p].pc)]]
    BY DEF Streams!StorePage, Streams!Goes
  <2>2. prod[p].pc = "page"
    BY DEF Streams!StorePage
  <2>3. Streams(h)!After(prod[p].pc) = "put"
    BY <2>2 DEF Streams!After
  <2> QED
    BY <1>1, <1>2, <2>1, <2>3 DEF Streams!StorePage, Streams!passVars
<1>4. StreamShape(h) /\ LineShape(h) /\ IdsGiven(h) /\ ListsRight(h) /\ LineStored(h) /\ OneOrder(h)
  BY DEF StreamInv
<1>5. /\ b \in Adders(h) /\ b.pc = "put" /\ b.event = prod[p].event /\ b.id = prod[p].id
      /\ b.page = prod[p].page
  <2>1. prod[p] \in Adders(h)
    BY <1>4 DEF StreamShape
  <2> QED
    BY <1>1, <2>1 DEF Adders
<1>6. StreamShape(h)' /\ IdsGiven(h)' /\ ListsRight(h)'
  BY <1>3, <1>5, ThreadGoes
<1>7. /\ LineShape(h)' /\ OneOrder(h)' /\ \A e : InLine(e)' <=> InLine(e)
  BY <1>3, <1>4, LineKept
<1>8. LineStored(h)'
  <2>1. \A q \in h.adders : prod'[q].pc # "idle" => ~InLine(prod'[q].event)
    BY <1>3, <1>4, <1>5 DEF LineStored, StreamShape
  <2>2. \A e : Stored(h, e)' <=> Stored(h, e)
    BY <1>3 DEF Stored
  <2> QED
    BY <1>3, <1>4, <1>7, <2>1, <2>2 DEF LineStored
<1>9. ASSUME h.adders = {p}, PagesStored(h) PROVE PagesStored(h)'
  <2>1. \A q \in h.adders : prod[q].pc # "file"
    BY <1>3, <1>9
  <2>2. h.most \in Nat /\ curId <= h.most /\ curId \in Int /\ at \in StreamIds(h)
    BY <1>2, <1>3, <1>4, StreamConstants DEF StreamShape, IdsGiven
  <2>3. ASSUME NEW j \in DOMAIN lists[at]
        PROVE  at + j - 1 \in StreamIds(h) /\ file[at + j - 1] = lists[at][j]
    <3>1. at + j - 1 < curId /\ file[at + j - 1] = lists[at][j]
      BY <1>4, <2>1, <2>2 DEF ListsRight
    <3>2. at \in Nat /\ j \in Nat \ {0}
      BY <1>4, <2>2 DEF StreamShape, StreamIds
    <3> QED
      BY <2>2, <3>1, <3>2 DEF StreamIds
  <2>4. CASE pages' = pages
    BY <1>3, <1>9, <2>4 DEF PagesStored
  <2>5. CASE pages' = [pages EXCEPT ![at] = lists[at]]
    <3>1. pages' \in [StreamIds(h) -> Seq(StreamEvents(h))]
      BY <1>4, <1>9, <2>2, <2>5 DEF PagesStored, StreamShape
    <3>2. /\ pages'[at] = lists[at]
          /\ \A i \in StreamIds(h) : i # at => pages'[i] = pages[i]
      BY <1>9, <2>2, <2>5 DEF PagesStored
    <3> QED
      BY <1>3, <1>9, <2>3, <3>1, <3>2 DEF PagesStored
  <2> QED
    BY <1>3, <2>4, <2>5
<1> QED
  BY <1>6, <1>7, <1>8, <1>9 DEF StreamInv

\* Put: behind everything that waits or was handled.
LEMMA PutsEvent ==
    ASSUME NEW h \in {OneAdds, TwoAdd}, StreamInv(h), NEW p \in h.adders, Streams(h)!Put(p)
    PROVE  StreamInv(h)'
<1>1. PICK n : n = prod[p].event
  OBVIOUS
<1>2. PICK b : b = [pc |-> "idle", event |-> 0, id |-> -1, page |-> -1]
  OBVIOUS
<1>3. /\ prod[p].pc = "put" /\ prod' = [prod EXCEPT ![p] = b] /\ queue' = Append(queue, n)
      /\ UNCHANGED <<pages, file, curId, lists, current, made, idOf, disp, tasks, seen, streamHeard>>
  <2>1. prod' = [prod EXCEPT ![p] = IF Streams(h)!After(prod[p].pc) = "idle" THEN Streams(h)!Resting
                                    ELSE [prod[p] EXCEPT !.pc = Streams(h)!After(prod[p].pc)]]
    BY DEF Streams!Put, Streams!Goes
  <2>2. prod[p].pc = "put"
    BY DEF Streams!Put
  <2>3. Streams(h)!After(prod[p].pc) = "idle"
    BY <2>2 DEF Streams!After
  <2>4. b = Streams(h)!Resting
    BY <1>2 DEF Streams!Resting, Streams!NoId
  <2> QED
    BY <1>1, <2>1, <2>3, <2>4 DEF Streams!Put, Streams!passVars, Streams!storeVars
<1>4. StreamShape(h) /\ LineShape(h) /\ IdsGiven(h) /\ ListsRight(h) /\ LineStored(h) /\ OneOrder(h)
  BY DEF StreamInv
<1>5. b \in Adders(h) /\ b.pc = "idle"
  BY <1>2 DEF Adders
<1>6. StreamShape(h)' /\ IdsGiven(h)' /\ ListsRight(h)'
  BY <1>3, <1>5, ThreadGoes
<1>7. /\ n \in 1..made /\ n \in StreamEvents(h) /\ idOf[n] = prod[p].id /\ prod[p].id \in StreamIds(h)
      /\ file[idOf[n]] = n /\ ~InLine(n)
  <2>1. n \in 1..made /\ idOf[n] = prod[p].id /\ prod[p].id \in StreamIds(h) /\ file[prod[p].id] = n
    BY <1>1, <1>3, <1>4 DEF IdsGiven
  <2>2. n \in StreamEvents(h)
    BY <1>4, <2>1, StreamConstants DEF StreamShape, StreamEvents
  <2>3. ~InLine(n)
    BY <1>1, <1>3, <1>4 DEF LineStored
  <2> QED
    BY <2>1, <2>2, <2>3
<1>8. /\ queue' \in Seq(StreamEvents(h)) /\ Len(queue') = Len(queue) + 1 /\ queue'[Len(queue')] = n
      /\ DOMAIN queue' = 1..Len(queue') /\ DOMAIN queue = 1..Len(queue) /\ Len(queue) \in Nat
      /\ \A i \in DOMAIN queue : queue'[i] = queue[i]
  BY <1>3, <1>4, <1>7 DEF LineShape
<1>9. ASSUME NEW i \in DOMAIN queue' PROVE i = Len(queue') \/ (i \in DOMAIN queue /\ i < Len(queue'))
  BY <1>8
<1>10. LineShape(h)'
  BY <1>3, <1>4, <1>8 DEF LineShape
<1>11. ASSUME NEW e, InLine(e)' PROVE InLine(e) \/ e = n
  BY <1>3, <1>8, <1>9, <1>11 DEF InLine
<1>12. LineStored(h)'
  <2>1. \A e : Stored(h, e)' <=> Stored(h, e)
    BY <1>3 DEF Stored
  <2>2. ASSUME NEW q \in h.adders, prod'[q].pc # "idle", NEW m, m = prod'[q].event
        PROVE  ~InLine(m)'
    <3>1. q # p /\ prod'[q] = prod[q]
      BY <1>3, <1>4, <1>5, <2>2 DEF StreamShape
    <3>2. prod[q].pc # "idle" /\ prod[q].id # prod[p].id /\ idOf[prod[q].event] = prod[q].id
      BY <1>3, <1>4, <2>2, <3>1 DEF IdsGiven
    <3>3. m # n /\ ~InLine(m)
      BY <1>4, <1>7, <2>2, <3>1, <3>2 DEF LineStored
    <3> QED
      BY <1>11, <3>3
  <2>3. Stored(h, n)
    BY <1>7 DEF Stored
  <2>4. \A e \in StreamEvents(h) : InLine(e)' \/ e \in streamHeard' => Stored(h, e)'
    BY <1>3, <1>4, <1>11, <2>1, <2>3 DEF LineStored
  <2>5. \A m : \A q \in h.adders : prod'[q].pc # "idle" /\ m = prod'[q].event => ~InLine(m)'
    BY <2>2
  <2>6. streamHeard' \subseteq StreamEvents(h)
    BY <1>3, <1>4 DEF LineStored
  <2> QED
    BY <2>4, <2>5, <2>6 DEF LineStored, InLine
<1>13. OneOrder(h)'
  <2>1. PICK old \in [StreamEvents(h) -> Nat], top \in Nat :
          InOrder(old) /\ \A e \in StreamEvents(h) : old[e] < top
    BY <1>4 DEF OneOrder
  <2>2. PICK rank : rank = [old EXCEPT ![n] = top]
    OBVIOUS
  <2>3. /\ rank \in [StreamEvents(h) -> Nat] /\ rank[n] = top
        /\ \A e \in StreamEvents(h) : rank[e] < top + 1 /\ (e # n => rank[e] = old[e] /\ rank[e] < top)
    BY <1>7, <2>1, <2>2
  <2>4. \A e \in StreamEvents(h) : InLine(e) => rank[e] = old[e] /\ rank[e] < rank[n]
    BY <1>7, <2>3
  <2>5. /\ \A i \in DOMAIN queue : /\ queue[i] \in StreamEvents(h) /\ rank[queue[i]] = old[queue[i]]
                                   /\ rank[queue[i]] < rank[n]
        /\ disp.todo # {} => rank[disp.event] = old[disp.event] /\ rank[disp.event] < rank[n]
        /\ \A s \in StreamSubs :
             /\ \A i \in DOMAIN tasks[s] : /\ rank[tasks[s][i]] = old[tasks[s][i]]
                                           /\ rank[tasks[s][i]] < rank[n]
             /\ \A i \in DOMAIN seen[s] : /\ rank[seen[s][i]] = old[seen[s][i]]
                                          /\ rank[seen[s][i]] < rank[n]
    BY <1>4, <2>4 DEF InLine, LineShape
  <2>6. Up(rank, queue)'
    <3>1. ASSUME NEW i \in DOMAIN queue', NEW j \in DOMAIN queue', i < j
          PROVE  rank[queue'[i]] < rank[queue'[j]]
      <4>1. i \in DOMAIN queue
        BY <1>8, <1>9, <3>1
      <4>2. CASE j = Len(queue')
        BY <1>8, <2>5, <4>1, <4>2
      <4>3. CASE j \in DOMAIN queue
        BY <1>8, <2>1, <2>5, <3>1, <4>1, <4>3 DEF InOrder, Up
      <4> QED
        BY <1>9, <4>2, <4>3
    <3> QED
      BY <3>1 DEF Up
  <2>7. \A j \in DOMAIN queue' : queue'[j] = n \/ (j \in DOMAIN queue /\ queue'[j] = queue[j])
    BY <1>8, <1>9
  <2>8. ASSUME disp.todo # {}, NEW j \in DOMAIN queue' PROVE rank[disp.event] < rank[queue'[j]]
    BY <2>1, <2>5, <2>7, <2>8 DEF InOrder
  <2>9. ASSUME NEW s \in StreamSubs
        PROVE  /\ Up(rank, seen[s]) /\ Up(rank, tasks[s]) /\ Below(rank, seen[s], tasks[s])
               /\ s \in disp.todo => Before(rank, seen[s], disp.event) /\ Before(rank, tasks[s], disp.event)
    BY <2>1, <2>5 DEF InOrder, Up, Below, Before
  <2>10. ASSUME NEW s \in StreamSubs, NEW j \in DOMAIN queue'
         PROVE  /\ \A i \in DOMAIN seen[s] : rank[seen[s][i]] < rank[queue'[j]]
                /\ \A i \in DOMAIN tasks[s] : rank[tasks[s][i]] < rank[queue'[j]]
    BY <2>1, <2>5, <2>7 DEF InOrder, Below
  <2>11. InOrder(rank)'
    <3>1. /\ \A s \in StreamSubs : Up(rank, seen'[s]) /\ Up(rank, tasks'[s]) /\ Below(rank, seen'[s], tasks'[s])
          /\ \A s \in disp'.todo : s \in StreamSubs =>
                Before(rank, seen'[s], disp'.event) /\ Before(rank, tasks'[s], disp'.event)
      BY <1>3, <2>9
    <3>2. \A s \in StreamSubs : Below(rank, seen'[s], queue') /\ Below(rank, tasks'[s], queue')
      BY <1>3, <2>10 DEF Below
    <3>3. disp'.todo # {} => \A j \in DOMAIN queue' : rank[disp'.event] < rank[queue'[j]]
      BY <1>3, <2>8
    <3> QED
      BY <2>6, <3>1, <3>2, <3>3 DEF InOrder, Up, Below, Before
  <2>12. top + 1 \in Nat /\ \A e \in StreamEvents(h) : rank[e] < top + 1
    BY <2>3
  <2> QED
    BY <2>3, <2>11, <2>12 DEF OneOrder
<1> QED
  BY <1>6, <1>10, <1>12, <1>13 DEF StreamInv

-----------------------------------------------------------------------------
(* Steps that hand events on.                                              *)

LEMMA LineMoves ==
    ASSUME NEW h \in {OneAdds, TwoAdd}, StreamInv(h),
           UNCHANGED <<file, curId, lists, current, prod, made, idOf>>,
           LineShape(h)', OneOrder(h)', \A e : InLine(e)' => InLine(e),
           \A e \in streamHeard' : e \in streamHeard \/ (e \in StreamEvents(h) /\ InLine(e))
    PROVE  StreamInv(h)'
<1>1. StreamShape(h) /\ IdsGiven(h) /\ ListsRight(h) /\ LineStored(h)
  BY DEF StreamInv
<1>2. StreamShape(h)'
  BY <1>1 DEF StreamShape
<1>3. IdsGiven(h)'
  BY <1>1 DEF IdsGiven
<1>4. ListsRight(h)'
  BY <1>1 DEF ListsRight
<1>5. LineStored(h)'
  <2>1. \A e : Stored(h, e)' <=> Stored(h, e)
    BY DEF Stored
  <2>2. \A e \in StreamEvents(h) : InLine(e)' \/ e \in streamHeard' => Stored(h, e)'
    BY <1>1, <2>1 DEF LineStored
  <2>3. streamHeard' \subseteq StreamEvents(h)
    BY <1>1 DEF LineStored
  <2>4. ASSUME NEW q \in h.adders, prod'[q].pc # "idle", NEW m, m = prod'[q].event
        PROVE  ~InLine(m)'
    BY <1>1, <2>4 DEF LineStored
  <2>5. \A m : \A q \in h.adders : prod'[q].pc # "idle" /\ m = prod'[q].event => ~InLine(m)'
    BY <2>4
  <2> QED
    BY <2>2, <2>3, <2>5 DEF LineStored, InLine
<1> QED
  BY <1>2, <1>3, <1>4, <1>5 DEF StreamInv

LEMMA PagesStay ==
    ASSUME NEW h \in {OneAdds, TwoAdd}, PagesStored(h), UNCHANGED <<file, pages>>
    PROVE  PagesStored(h)'
BY DEF PagesStored

LEMMA TailOf ==
    ASSUME NEW E, NEW s \in Seq(E), s # <<>>, NEW t, t = Tail(s)
    PROVE  /\ t \in Seq(E) /\ Head(s) = s[1] /\ 1 \in DOMAIN s /\ s[1] \in E
           /\ \A j \in DOMAIN t : /\ j + 1 \in DOMAIN s /\ t[j] = s[j + 1]
                                  /\ j \in Nat \ {0} /\ 1 < j + 1
<1>1. Len(s) \in Nat \ {0} /\ DOMAIN s = 1..Len(s)
  BY EmptySeq
<1>2. Len(t) = Len(s) - 1 /\ t \in Seq(E) /\ DOMAIN t = 1..Len(t)
  BY <1>1
<1> QED
  BY <1>1, <1>2

LEMMA TakesEvent ==
    ASSUME NEW h \in {OneAdds, TwoAdd}, StreamInv(h), Streams(h)!Take
    PROVE  StreamInv(h)'
<1>1. PICK e : e = Head(queue)
  OBVIOUS
<1>2. PICK t : t = Tail(queue)
  OBVIOUS
<1>3. /\ queue # <<>> /\ disp' = [pc |-> "pass", event |-> e, todo |-> StreamSubs] /\ queue' = t
      /\ UNCHANGED <<file, pages, curId, lists, current, prod, made, idOf, tasks, seen, streamHeard>>
  BY <1>1, <1>2 DEF Streams!Take, Streams!storeVars, Streams!addVars
<1>4. LineShape(h) /\ OneOrder(h)
  BY DEF StreamInv
<1>5. /\ t \in Seq(StreamEvents(h)) /\ e = queue[1] /\ 1 \in DOMAIN queue /\ e \in StreamEvents(h)
      /\ \A j \in DOMAIN t : /\ j + 1 \in DOMAIN queue /\ t[j] = queue[j + 1]
                             /\ j \in Nat \ {0} /\ 1 < j + 1
  BY <1>1, <1>2, <1>3, <1>4, TailOf DEF LineShape
<1>6. LineShape(h)'
  <2>1. e \in Int
    BY <1>5, StreamConstants DEF StreamEvents
  <2>2. disp' \in [pc : {"get", "pass", "ended", "dead"}, event : Int, todo : SUBSET StreamSubs]
    BY <1>3, <2>1
  <2> QED
    BY <1>3, <1>4, <1>5, <2>2 DEF LineShape
<1>7. ASSUME NEW x, InLine(x)' PROVE InLine(x)
  BY <1>3, <1>5, <1>7 DEF InLine
<1>8. OneOrder(h)'
  <2>1. PICK rank \in [StreamEvents(h) -> Nat], top \in Nat :
          InOrder(rank) /\ \A x \in StreamEvents(h) : rank[x] < top
    BY <1>4 DEF OneOrder
  <2>2. Up(rank, t)
    <3>1. ASSUME NEW i \in DOMAIN t, NEW j \in DOMAIN t, i < j PROVE rank[t[i]] < rank[t[j]]
      <4>1. i + 1 < j + 1
        BY <1>5, <3>1
      <4> QED
        BY <1>5, <2>1, <4>1 DEF InOrder, Up
    <3> QED
      BY <3>1 DEF Up
  <2>3. \A j \in DOMAIN t : rank[e] < rank[t[j]]
    BY <1>5, <2>1 DEF InOrder, Up
  <2>4. ASSUME NEW s \in StreamSubs
        PROVE  /\ Up(rank, seen[s]) /\ Up(rank, tasks[s]) /\ Below(rank, seen[s], tasks[s])
               /\ Below(rank, seen[s], t) /\ Below(rank, tasks[s], t)
               /\ Before(rank, seen[s], e) /\ Before(rank, tasks[s], e)
    BY <1>5, <2>1 DEF InOrder, Below, Before
  <2>5. InOrder(rank)'
    BY <1>3, <2>2, <2>3, <2>4 DEF InOrder, Up, Below, Before
  <2> QED
    BY <2>1, <2>5 DEF OneOrder
<1> QED
  BY <1>3, <1>6, <1>7, <1>8, LineMoves

\* A step that only takes callbacks or events off the way.
LEMMA LineShrinks ==
    ASSUME NEW h \in {OneAdds, TwoAdd}, StreamInv(h), NEW clear \in SUBSET StreamSubs,
           UNCHANGED <<file, curId, lists, current, prod, made, idOf, tasks, streamHeard>>,
           queue' \in {queue, <<>>}, disp'.event = disp.event, disp'.todo \subseteq disp.todo,
           disp' \in [pc : {"get", "pass", "ended", "dead"}, event : Int, todo : SUBSET StreamSubs],
           seen' = [s \in StreamSubs |-> IF s \in clear THEN <<>> ELSE seen[s]]
    PROVE  StreamInv(h)'
<1>1. LineShape(h) /\ OneOrder(h)
  BY DEF StreamInv
<1>2. \A s \in StreamSubs : seen'[s] \in {seen[s], <<>>}
  OBVIOUS
<1>3. LineShape(h)'
  <2>1. seen' \in [StreamSubs -> Seq(StreamEvents(h))]
    BY <1>1 DEF LineShape
  <2>2. queue' \in Seq(StreamEvents(h))
    <3>1. CASE queue' = queue
      BY <1>1, <3>1 DEF LineShape
    <3>2. CASE queue' = <<>>
      BY <3>2
    <3> QED
      BY <3>1, <3>2
  <2> QED
    BY <1>1, <2>1, <2>2 DEF LineShape
<1>4. ASSUME NEW e, InLine(e)' PROVE InLine(e)
  <2>1. DOMAIN queue' = {} \/ queue' = queue
    OBVIOUS
  <2>2. \A s \in StreamSubs : DOMAIN seen'[s] = {} \/ seen'[s] = seen[s]
    BY <1>2
  <2> QED
    BY <1>4, <2>1, <2>2 DEF InLine
<1>5. OneOrder(h)'
  <2>1. PICK rank \in [StreamEvents(h) -> Nat], top \in Nat :
          InOrder(rank) /\ \A x \in StreamEvents(h) : rank[x] < top
    BY <1>1 DEF OneOrder
  <2>2. DOMAIN queue' = {} \/ queue' = queue
    OBVIOUS
  <2>3. \A s \in StreamSubs : DOMAIN seen'[s] = {} \/ seen'[s] = seen[s]
    BY <1>2
  <2>4. Up(rank, queue)' /\ (disp'.todo # {} => \A j \in DOMAIN queue' : rank[disp'.event] < rank[queue'[j]])
    BY <2>1, <2>2 DEF InOrder, Up
  <2>5. ASSUME NEW s \in StreamSubs
        PROVE  /\ Up(rank, seen[s])' /\ Up(rank, tasks[s])'
               /\ Below(rank, seen[s], tasks[s])' /\ Below(rank, seen[s], queue)'
               /\ Below(rank, tasks[s], queue)'
               /\ (s \in disp.todo => Before(rank, seen[s], disp.event) /\ Before(rank, tasks[s], disp.event))'
    BY <2>1, <2>2, <2>3 DEF InOrder, Up, Below, Before
  <2>6. InOrder(rank)'
    BY <2>4, <2>5 DEF InOrder, Up, Below, Before
  <2> QED
    BY <2>1, <2>6 DEF OneOrder
<1> QED
  BY <1>3, <1>4, <1>5, LineMoves

LEMMA PassesEvent ==
    ASSUME NEW h \in {OneAdds, TwoAdd}, StreamInv(h), Streams(h)!Pass
    PROVE  StreamInv(h)'
<1>1. PICK e : e = disp.event
  OBVIOUS
<1>2. PICK c : c = Streams(h)!Least(disp.todo)
  OBVIOUS
<1>3. LineShape(h) /\ OneOrder(h)
  BY DEF StreamInv
<1>4. disp.todo # {} /\ disp.todo \subseteq StreamSubs /\ disp.todo \subseteq Nat
  BY <1>3, StreamConstants DEF LineShape, Streams!Pass
<1>5. c \in disp.todo
  <2>1. \E m \in disp.todo : \A n \in disp.todo : m <= n
    BY <1>4, LeastOf
  <2> QED
    BY <1>2, <2>1 DEF Streams!Least
<1>6. /\ disp' \in [pc : {"get", "pass", "ended", "dead"}, event : Int, todo : SUBSET StreamSubs]
      /\ disp'.event = e /\ disp'.todo \subseteq disp.todo
      /\ \/ tasks' = tasks
         \/ tasks' = [tasks EXCEPT ![c] = Append(tasks[c], e)] /\ c \notin disp'.todo
      /\ UNCHANGED <<file, pages, curId, lists, current, prod, made, idOf, queue, seen, streamHeard>>
  <2>1. /\ \/ disp' = [disp EXCEPT !.todo = disp.todo \ {c},
                                   !.pc = IF disp.todo \ {c} = {} THEN "get" ELSE "pass"]
           \/ disp' = [disp EXCEPT !.pc = "dead"] /\ tasks' = tasks
        /\ tasks' = tasks \/ tasks' = [tasks EXCEPT ![c] = Append(tasks[c], e)]
        /\ UNCHANGED <<file, pages, curId, lists, current, prod, made, idOf, queue, seen, streamHeard>>
    BY <1>1, <1>2 DEF Streams!Pass, Streams!storeVars, Streams!addVars
  <2>2. disp \in [pc : {"get", "pass", "ended", "dead"}, event : Int, todo : SUBSET StreamSubs]
    BY <1>3 DEF LineShape
  <2>3. CASE disp' = [disp EXCEPT !.pc = "dead"] /\ tasks' = tasks
    BY <1>1, <2>1, <2>2, <2>3
  <2>4. CASE disp' = [disp EXCEPT !.todo = disp.todo \ {c},
                                  !.pc = IF disp.todo \ {c} = {} THEN "get" ELSE "pass"]
    BY Zenon, <1>1, <2>1, <2>2, <2>4
  <2> QED
    BY <2>1, <2>3, <2>4
<1>7. CASE tasks' = tasks
  <2>1. seen' = [s \in StreamSubs |-> IF s \in {} THEN <<>> ELSE seen[s]]
    BY <1>3, <1>6 DEF LineShape
  <2>2. {} \in SUBSET StreamSubs /\ queue' \in {queue, <<>>} /\ disp'.event = disp.event
    BY <1>1, <1>6
  <2> QED
    BY <1>6, <1>7, <2>1, <2>2, LineShrinks
<1>8. CASE tasks' = [tasks EXCEPT ![c] = Append(tasks[c], e)] /\ c \notin disp'.todo
  <2>1. PICK t : t = Append(tasks[c], e)
    OBVIOUS
  <2>2. /\ e \in StreamEvents(h) /\ c \in StreamSubs /\ tasks[c] \in Seq(StreamEvents(h))
        /\ tasks'[c] = t /\ \A s \in StreamSubs : s # c => tasks'[s] = tasks[s]
    BY <1>1, <1>3, <1>4, <1>5, <1>8, <2>1 DEF LineShape
  <2>3. /\ t \in Seq(StreamEvents(h)) /\ t[Len(t)] = e
        /\ \A i \in DOMAIN t : i = Len(t) \/ (i \in DOMAIN tasks[c] /\ i < Len(t) /\ t[i] = tasks[c][i])
        /\ \A i \in DOMAIN t : i <= Len(t)
    BY <2>1, <2>2
  <2>4. LineShape(h)'
    BY <1>1, <1>3, <1>4, <1>6, <1>8, <2>1, <2>2, <2>3 DEF LineShape
  <2>5. ASSUME NEW x, InLine(x)' PROVE InLine(x)
    <3>1. ASSUME NEW s \in StreamSubs, NEW i \in DOMAIN tasks'[s], tasks'[s][i] = x PROVE InLine(x)
      BY <1>1, <1>4, <2>2, <2>3, <3>1 DEF InLine
    <3> QED
      BY <1>1, <1>4, <1>6, <2>5, <3>1 DEF InLine
  <2>6. OneOrder(h)'
    <3>1. PICK rank \in [StreamEvents(h) -> Nat], top \in Nat :
            InOrder(rank) /\ \A x \in StreamEvents(h) : rank[x] < top
      BY <1>3 DEF OneOrder
    <3>2. /\ Before(rank, seen[c], e) /\ Before(rank, tasks[c], e)
          /\ \A j \in DOMAIN queue : rank[e] < rank[queue[j]]
      BY <1>1, <1>4, <1>5, <2>2, <3>1 DEF InOrder
    <3>3. Up(rank, t)
      <4>1. ASSUME NEW i \in DOMAIN t, NEW j \in DOMAIN t, i < j PROVE rank[t[i]] < rank[t[j]]
        <5>1. i # Len(t) /\ i \in DOMAIN tasks[c] /\ t[i] = tasks[c][i]
          <6>1. j <= Len(t) /\ Len(t) \in Int /\ i \in Int /\ j \in Int
            BY <2>3
          <6> QED
            BY <2>3, <4>1, <6>1
        <5>2. CASE j = Len(t)
          BY <2>3, <3>2, <5>1, <5>2 DEF Before
        <5>3. CASE j # Len(t)
          BY <2>2, <2>3, <3>1, <4>1, <5>1, <5>3 DEF InOrder, Up
        <5> QED
          BY <5>2, <5>3
      <4> QED
        BY <4>1 DEF Up
    <3>4. Below(rank, seen[c], t)
      BY <2>2, <2>3, <3>1, <3>2 DEF InOrder, Below, Before
    <3>5. Below(rank, t, queue)
      BY <2>2, <2>3, <3>1, <3>2 DEF InOrder, Below
    <3>6. ASSUME NEW s \in StreamSubs
          PROVE  /\ Up(rank, seen[s]) /\ Up(rank, tasks'[s]) /\ Below(rank, seen[s], tasks'[s])
                 /\ Below(rank, seen[s], queue) /\ Below(rank, tasks'[s], queue)
                 /\ s \in disp'.todo => Before(rank, seen[s], e) /\ Before(rank, tasks'[s], e)
      <4>1. CASE s = c
        BY <1>8, <2>2, <3>1, <3>3, <3>4, <3>5, <4>1 DEF InOrder
      <4>2. CASE s # c
        BY <1>1, <1>6, <2>2, <3>1, <4>2 DEF InOrder
      <4> QED
        BY <4>1, <4>2
    <3>7. Up(rank, queue)
      BY SMTT(20), <3>1 DEF InOrder
    <3>8. InOrder(rank)'
      BY <1>6, <3>2, <3>6, <3>7 DEF InOrder, Up, Below, Before
    <3> QED
      BY <3>1, <3>8 DEF OneOrder
  <2> QED
    BY <1>6, <2>4, <2>5, <2>6, LineMoves
<1> QED
  BY <1>6, <1>7, <1>8

\* One worker: the first of what was submitted.
LEMMA HandlesEvent ==
    ASSUME NEW h \in {OneAdds, TwoAdd}, StreamInv(h), NEW c \in StreamSubs, Streams(h)!Handle(c)
    PROVE  StreamInv(h)'
<1>1. PICK t : t = Tail(tasks[c])
  OBVIOUS
<1>2. PICK e : e = tasks[c][1]
  OBVIOUS
<1>3. PICK d : d = Append(seen[c], e)
  OBVIOUS
<1>4. LineShape(h) /\ OneOrder(h)
  BY DEF StreamInv
<1>5. tasks[c] \in Seq(StreamEvents(h)) /\ seen[c] \in Seq(StreamEvents(h))
  BY <1>4 DEF LineShape
<1>6. /\ tasks[c] # <<>> /\ seen' = [seen EXCEPT ![c] = d] /\ streamHeard' = streamHeard \cup {e}
      /\ tasks' = [tasks EXCEPT ![c] = t]
      /\ UNCHANGED <<file, pages, curId, lists, current, prod, made, idOf, queue, disp>>
  <2>1. PICK i \in 1..1 :
          /\ i <= Len(tasks[c]) /\ seen' = [seen EXCEPT ![c] = Append(@, tasks[c][i])]
          /\ streamHeard' = streamHeard \cup {tasks[c][i]}
          /\ tasks' = [tasks EXCEPT ![c] = SubSeq(@, 1, i - 1) \o SubSeq(@, i + 1, Len(@))]
    BY DEF Streams!Handle, Streams!Workers
  <2>2. i = 1 /\ tasks[c] # <<>>
    BY <1>5, <2>1
  <2>3. SubSeq(tasks[c], 1, 0) \o SubSeq(tasks[c], 2, Len(tasks[c])) = t
    <3>1. SubSeq(tasks[c], 1, 0) = <<>>
      BY <1>5
    <3>2. SubSeq(tasks[c], 2, Len(tasks[c])) = t
      BY <1>1, <1>5, <2>2
    <3>3. t \in Seq(StreamEvents(h))
      BY <1>1, <1>5, <2>2
    <3> QED
      BY <3>1, <3>2, <3>3
  <2>4. tasks' = [tasks EXCEPT ![c] = SubSeq(tasks[c], 1, 0) \o SubSeq(tasks[c], 2, Len(tasks[c]))]
    <3>1. i - 1 = 0 /\ i + 1 = 2
      BY <2>2
    <3> QED
      BY <2>1, <3>1
  <2> QED
    BY <1>2, <1>3, <2>1, <2>2, <2>3, <2>4 DEF Streams!Handle, Streams!storeVars, Streams!addVars
<1>7. /\ t \in Seq(StreamEvents(h)) /\ 1 \in DOMAIN tasks[c] /\ e \in StreamEvents(h)
      /\ \A j \in DOMAIN t : /\ j + 1 \in DOMAIN tasks[c] /\ t[j] = tasks[c][j + 1]
                             /\ j \in Nat \ {0} /\ 1 < j + 1
  BY <1>1, <1>2, <1>5, <1>6, TailOf
<1>8. /\ d \in Seq(StreamEvents(h)) /\ d[Len(d)] = e
      /\ \A i \in DOMAIN d : i = Len(d) \/ (i \in DOMAIN seen[c] /\ i < Len(d) /\ d[i] = seen[c][i])
      /\ \A i \in DOMAIN d : i <= Len(d)
  BY <1>3, <1>5, <1>7
<1>9. /\ tasks'[c] = t /\ seen'[c] = d
      /\ \A s \in StreamSubs : s # c => tasks'[s] = tasks[s] /\ seen'[s] = seen[s]
  BY <1>4, <1>6 DEF LineShape
<1>10. LineShape(h)'
  BY <1>4, <1>6, <1>7, <1>8 DEF LineShape
<1>11. InLine(e)
  BY <1>2, <1>7 DEF InLine
<1>12. ASSUME NEW x, InLine(x)' PROVE InLine(x)
  <2>1. ASSUME NEW s \in StreamSubs, NEW i \in DOMAIN tasks'[s], tasks'[s][i] = x PROVE InLine(x)
    BY <1>7, <1>9, <2>1 DEF InLine
  <2>2. ASSUME NEW s \in StreamSubs, NEW i \in DOMAIN seen'[s], seen'[s][i] = x PROVE InLine(x)
    BY <1>8, <1>9, <1>11, <2>2 DEF InLine
  <2> QED
    BY <1>6, <1>12, <2>1, <2>2 DEF InLine
<1>13. OneOrder(h)'
  <2>1. PICK rank \in [StreamEvents(h) -> Nat], top \in Nat :
          InOrder(rank) /\ \A x \in StreamEvents(h) : rank[x] < top
    BY <1>4 DEF OneOrder
  <2>2. /\ Up(rank, seen[c]) /\ Up(rank, tasks[c]) /\ Below(rank, seen[c], tasks[c])
        /\ Below(rank, seen[c], queue) /\ Below(rank, tasks[c], queue)
        /\ c \in disp.todo => Before(rank, seen[c], disp.event) /\ Before(rank, tasks[c], disp.event)
    BY <2>1 DEF InOrder
  <2>3. /\ Before(rank, seen[c], e) /\ \A j \in DOMAIN queue : rank[e] < rank[queue[j]]
        /\ \A j \in DOMAIN t : rank[e] < rank[t[j]]
        /\ c \in disp.todo => rank[e] < rank[disp.event]
    BY <1>2, <1>7, <2>2 DEF Up, Below, Before
  <2>4. Up(rank, t)
    <3>1. ASSUME NEW i \in DOMAIN t, NEW j \in DOMAIN t, i < j PROVE rank[t[i]] < rank[t[j]]
      <4>1. i + 1 < j + 1
        BY <1>7, <3>1
      <4> QED
        BY <1>7, <2>2, <4>1 DEF Up
    <3> QED
      BY <3>1 DEF Up
  <2>5. Up(rank, d)
    <3>1. ASSUME NEW i \in DOMAIN d, NEW j \in DOMAIN d, i < j PROVE rank[d[i]] < rank[d[j]]
      <4>1. i # Len(d) /\ i \in DOMAIN seen[c] /\ d[i] = seen[c][i]
        <5>1. j <= Len(d) /\ Len(d) \in Int /\ i \in Int /\ j \in Int
          BY <1>8
        <5> QED
          BY <1>8, <3>1, <5>1
      <4>2. CASE j = Len(d)
        BY <1>8, <2>3, <4>1, <4>2 DEF Before
      <4>3. CASE j # Len(d)
        BY <1>8, <2>2, <3>1, <4>1, <4>3 DEF Up
      <4> QED
        BY <4>2, <4>3
    <3> QED
      BY <3>1 DEF Up
  <2>a. /\ \A i \in DOMAIN d : d[i] = e \/ (i \in DOMAIN seen[c] /\ d[i] = seen[c][i])
        /\ \A j \in DOMAIN t : \E i \in DOMAIN tasks[c] : t[j] = tasks[c][i]
    BY <1>7, <1>8
  <2>b. Below(rank, d, t)
    BY <2>2, <2>3, <2>a DEF Below
  <2>c. Below(rank, d, queue)
    BY <2>2, <2>3, <2>a DEF Below
  <2>d. Below(rank, t, queue)
    BY <2>2, <2>a DEF Below
  <2>7. c \in disp.todo => Before(rank, d, disp.event) /\ Before(rank, t, disp.event)
    BY <2>2, <2>3, <2>a DEF Before
  <2>8. ASSUME NEW s \in StreamSubs
        PROVE  /\ Up(rank, seen'[s]) /\ Up(rank, tasks'[s]) /\ Below(rank, seen'[s], tasks'[s])
               /\ Below(rank, seen'[s], queue) /\ Below(rank, tasks'[s], queue)
               /\ s \in disp.todo => Before(rank, seen'[s], disp.event) /\ Before(rank, tasks'[s], disp.event)
    <3>1. CASE s = c
      BY <1>9, <2>4, <2>5, <2>b, <2>c, <2>d, <2>7, <3>1
    <3>2. CASE s # c
      BY <1>9, <2>1, <3>2 DEF InOrder
    <3> QED
      BY <3>1, <3>2
  <2>9. Up(rank, queue) /\ (disp.todo # {} => \A j \in DOMAIN queue : rank[disp.event] < rank[queue[j]])
    BY <2>1 DEF InOrder
  <2>10. InOrder(rank)'
    BY SMTT(20), <1>6, <2>8, <2>9 DEF InOrder, Up, Below, Before
  <2> QED
    BY <2>1, <2>10 DEF OneOrder
<1> QED
  BY <1>6, <1>7, <1>10, <1>11, <1>12, <1>13, LineMoves

-----------------------------------------------------------------------------
(* Subscriptions, close and a crash; the whole stream.                     *)

LEMMA SubscriptionGoes ==
    ASSUME NEW h \in {OneAdds, TwoAdd}, StreamInv(h),
           Streams(h)!Subscription \/ Streams(h)!Close \/ Streams(h)!CloseEnds \/ Streams(h)!EndLoop
    PROVE  StreamInv(h)' /\ UNCHANGED <<file, pages>>
<1>1. LineShape(h)
  BY SMTT(20) DEF StreamInv
<1>2. /\ UNCHANGED <<file, pages, curId, lists, current, prod, made, idOf, tasks, streamHeard>>
      /\ queue' \in {queue, <<>>} /\ disp' \in {disp, [disp EXCEPT !.pc = "ended"]}
      /\ seen' = seen \/ \E c \in StreamSubs : seen' = [seen EXCEPT ![c] = <<>>]
  BY SMTT(20) DEF Streams!Subscription, Streams!Subscribe, Streams!SubscribeOpens, Streams!Unsubscribe,
     Streams!UnsubscribeEnds, Streams!Close, Streams!CloseEnds, Streams!EndLoop, Streams!storeVars,
     Streams!addVars, Streams!passVars
<1>3. /\ disp' \in [pc : {"get", "pass", "ended", "dead"}, event : Int, todo : SUBSET StreamSubs]
      /\ disp'.event = disp.event /\ disp'.todo = disp.todo
  <2>1. disp \in [pc : {"get", "pass", "ended", "dead"}, event : Int, todo : SUBSET StreamSubs]
    BY <1>1 DEF LineShape
  <2> QED
    BY <1>2, <2>1
<1>4. \E clear \in SUBSET StreamSubs :
        seen' = [s \in StreamSubs |-> IF s \in clear THEN <<>> ELSE seen[s]]
  <2>1. CASE seen' = seen
    <3>1. PICK none : none = {}
      OBVIOUS
    <3>2. seen' = [s \in StreamSubs |-> IF s \in none THEN <<>> ELSE seen[s]]
      BY <1>1, <2>1, <3>1 DEF LineShape
    <3> QED
      BY <3>1, <3>2
  <2>2. ASSUME NEW c \in StreamSubs, seen' = [seen EXCEPT ![c] = <<>>]
        PROVE  \E clear \in SUBSET StreamSubs :
                 seen' = [s \in StreamSubs |-> IF s \in clear THEN <<>> ELSE seen[s]]
    <3>1. seen' = [s \in StreamSubs |-> IF s \in {c} THEN <<>> ELSE seen[s]]
      BY <1>1, <2>2 DEF LineShape
    <3> QED
      BY <2>2, <3>1
  <2> QED
    BY <1>2, <2>1, <2>2
<1> QED
  BY <1>2, <1>3, <1>4, LineShrinks

\* The next process knows nothing of what was in memory.
LEMMA StreamCrashes ==
    ASSUME NEW h \in {OneAdds, TwoAdd}, StreamInv(h), Streams(h)!Crash
    PROVE  StreamInv(h)'
<1>1. StreamShape(h) /\ IdsGiven(h) /\ LineStored(h)
  BY DEF StreamInv
<1>2. PICK idle : idle = [pc |-> "idle", event |-> 0, id |-> -1, page |-> -1]
  OBVIOUS
<1>3. /\ UNCHANGED <<file, pages, made, idOf, streamHeard>>
      /\ curId' = -1 /\ current' = -1 /\ lists' = [i \in StreamIds(h) |-> <<>>]
      /\ prod' = [p \in h.adders |-> idle] /\ queue' = <<>>
      /\ disp' = [pc |-> "get", event |-> 0, todo |-> {}]
      /\ tasks' = [s \in StreamSubs |-> <<>>] /\ seen' = [s \in StreamSubs |-> <<>>]
  BY <1>2 DEF Streams!Crash, Streams!Fresh, Streams!NoId, Streams!Ids, Streams!Resting,
     Streams!AtRest, StreamIds, Streams!storeVars
<1>4. idle \in Adders(h) /\ idle.pc = "idle"
  BY <1>2 DEF Adders
<1>5. StreamShape(h)'
  BY <1>1, <1>3, <1>4 DEF StreamShape
<1>6. LineShape(h)'
  BY <1>3 DEF LineShape
<1>7. IdsGiven(h)'
  BY <1>1, <1>3, <1>4 DEF IdsGiven
<1>8. ListsRight(h)'
  BY <1>3 DEF ListsRight
<1>9. LineStored(h)'
  <2>1. \A e : ~InLine(e)'
    BY <1>3 DEF InLine
  <2>2. \A e : Stored(h, e)' <=> Stored(h, e)
    BY <1>3 DEF Stored
  <2>3. \A p \in h.adders : ~(prod'[p].pc # "idle")
    BY <1>3, <1>4
  <2> QED
    BY <1>1, <1>3, <2>1, <2>2, <2>3 DEF LineStored
<1>10. OneOrder(h)'
  <2>1. PICK rank : rank = [e \in StreamEvents(h) |-> 0]
    OBVIOUS
  <2>2. InOrder(rank)'
    BY <1>3 DEF InOrder, Up, Below, Before
  <2>3. rank \in [StreamEvents(h) -> Nat] /\ \A e \in StreamEvents(h) : rank[e] < 1
    BY <2>1
  <2> QED
    BY <2>2, <2>3 DEF OneOrder
<1> QED
  BY <1>5, <1>6, <1>7, <1>8, <1>9, <1>10 DEF StreamInv

LEMMA StreamStep ==
    ASSUME NEW h \in {OneAdds, TwoAdd}, StreamInv(h), [Streams(h)!Next]_streamVars
    PROVE  /\ StreamInv(h)'
           /\ PagesStored(h) /\ h = OneAdds => PagesStored(h)'
<1> DEFINE P == /\ StreamInv(h)'
                /\ PagesStored(h) /\ h = OneAdds => PagesStored(h)'
<1>1. ASSUME NEW p \in h.adders, Streams(h)!Produce(p) PROVE P
  <2>1. CASE Streams(h)!AddEvent(p)
    <3>1. UNCHANGED <<file, pages>>
      BY <2>1 DEF Streams!AddEvent, Streams!storeVars
    <3> QED
      BY <2>1, <3>1, AddsEvent, PagesStay
  <2>2. CASE Streams(h)!WriteFile(p)
    BY <2>2, WritesFile
  <2>3. CASE Streams(h)!StorePage(p)
    <3>1. h = OneAdds => h.adders = {p}
      BY DEF OneAdds
    <3> QED
      BY <2>3, <3>1, StoresPage
  <2>4. CASE Streams(h)!Put(p)
    <3>1. UNCHANGED <<file, pages>>
      BY <2>4 DEF Streams!Put, Streams!storeVars
    <3> QED
      BY <2>4, <3>1, PutsEvent, PagesStay
  <2> QED
    BY <1>1, <2>1, <2>2, <2>3, <2>4 DEF Streams!Produce
<1>2. CASE Streams(h)!Take \/ Streams(h)!Pass \/ Streams(h)!Crash
  <2>1. UNCHANGED <<file, pages>>
    BY <1>2 DEF Streams!Take, Streams!Pass, Streams!Crash, Streams!storeVars
  <2> QED
    BY <1>2, <2>1, TakesEvent, PassesEvent, StreamCrashes, PagesStay
<1>3. ASSUME NEW c \in StreamSubs, Streams(h)!Handle(c) PROVE P
  <2>1. UNCHANGED <<file, pages>>
    BY <1>3 DEF Streams!Handle, Streams!storeVars
  <2> QED
    BY <1>3, <2>1, HandlesEvent, PagesStay
<1>4. CASE Streams(h)!Subscription \/ Streams(h)!Close \/ Streams(h)!CloseEnds \/ Streams(h)!EndLoop
  BY <1>4, SubscriptionGoes, PagesStay
<1>5. CASE UNCHANGED streamVars
  <2>1. UNCHANGED <<file, curId, lists, current, prod, made, idOf, pages, queue, disp, tasks, seen,
                    streamHeard>>
    BY <1>5 DEF streamVars
  <2>2. LineShape(h) /\ OneOrder(h) /\ LineStored(h)
    BY DEF StreamInv
  <2>3. LineShape(h)' /\ OneOrder(h)' /\ \A e : InLine(e)' <=> InLine(e)
    BY <2>1, <2>2, LineKept
  <2>4. \A e \in streamHeard' : e \in streamHeard
    BY <2>1
  <2> QED
    BY <2>1, <2>3, <2>4, LineMoves, PagesStay
<1> QED
  BY <1>1, <1>2, <1>3, <1>4, <1>5 DEF Streams!Next, Streams!Dispatch

\* What the invariant says to a reader of the stream.
LEMMA StreamHolds ==
    ASSUME NEW h \in {OneAdds, TwoAdd}, StreamInv(h)
    PROVE  /\ Streams(h)!HandledIsStored /\ Streams(h)!SameOrder
           /\ PagesStored(h) => Streams(h)!PagesAgree
<1>1. LineStored(h) /\ LineShape(h) /\ OneOrder(h)
  BY DEF StreamInv
<1>2. Streams(h)!HandledIsStored
  BY <1>1 DEF LineStored, Stored, Streams!HandledIsStored
<1>3. Streams(h)!SameOrder
  <2>1. PICK rank \in [StreamEvents(h) -> Nat], top \in Nat : InOrder(rank)
    BY <1>1 DEF OneOrder
  <2>2. SUFFICES ASSUME NEW s \in StreamSubs, NEW t \in StreamSubs,
                        NEW i \in DOMAIN seen[s], NEW j \in DOMAIN seen[s],
                        NEW m \in DOMAIN seen[t], NEW l \in DOMAIN seen[t],
                        i < j, seen[s][i] = seen[t][l], seen[s][j] = seen[t][m]
                 PROVE  m > l
    BY DEF Streams!SameOrder
  <2>3. rank[seen[t][l]] < rank[seen[t][m]]
    BY <2>1, <2>2 DEF InOrder, Up
  <2>4. m \in Int /\ l \in Int /\ seen[t][m] \in StreamEvents(h) /\ seen[t][l] \in StreamEvents(h)
    <3>1. seen[t] \in Seq(StreamEvents(h))
      BY <1>1 DEF LineShape
    <3>2. DOMAIN seen[t] = 1..Len(seen[t]) /\ Len(seen[t]) \in Nat
      BY <3>1
    <3> QED
      BY <2>2, <3>1, <3>2
  <2>5. /\ m < l => rank[seen[t][m]] < rank[seen[t][l]]
        /\ rank[seen[t][m]] \in Nat /\ rank[seen[t][l]] \in Nat
    <3>1. m < l => rank[seen[t][m]] < rank[seen[t][l]]
      BY <2>1, <2>2 DEF InOrder, Up
    <3> QED
      BY <2>1, <2>4, <3>1
  <2>6. m # l /\ ~(m < l)
    BY <2>3, <2>5
  <2> QED
    BY <2>4, <2>6
<1>4. PagesStored(h) => Streams(h)!PagesAgree
  BY DEF PagesStored, Streams!PagesAgree, Streams!Ids, StreamIds
<1> QED
  BY <1>2, <1>3, <1>4

-----------------------------------------------------------------------------
(* What holds of the parts.                                                *)

\* However messages, stops and failures arrive, and whatever the bounds are: no delegation
\* is answered twice, and each is answered unless the first controller delegated again
\* with a result still to be handled.
THEOREM AnsweredOnce == Spec => []EachAnsweredOnce
<1> DEFINE I == part = "delegates" => DelegateInv
<1>1. Init => I
  BY DelegationBegins DEF Init
<1>2. I /\ [Next]_vars => I'
  <2> SUFFICES ASSUME I, [Next]_vars, (part = "delegates")' PROVE DelegateInv'
    OBVIOUS
  <2>1. part = "delegates" /\ [Delegates!Next]_delegationVars
    BY DEF Next, vars
  <2> QED
    BY <2>1, DelegationStep
<1>3. I => EachAnsweredOnce
  BY SameCount DEF DelegateInv, AnswersCount, DelegatedClear, Own, EachAnsweredOnce,
     Delegates!EachAnsweredOnce
<1> QED
  BY <1>1, <1>2, <1>3, PTL DEF Spec

\* However commands outlive their calls: the agent's next command is typed at the prompt of
\* the shell, never into a program that still runs.
THEOREM CommandsReachShell == Spec => SentToShell
<1> DEFINE I == part = "shell" => ShellInv
<1>1. Init => I
  BY ShellBegins DEF Init
<1>2. I /\ [Next]_vars => I'
  <2> SUFFICES ASSUME I, [Next]_vars, (part = "shell")' PROVE ShellInv'
    OBVIOUS
  <2>1. part = "shell" /\ [Shell!Next]_shellVars
    BY DEF Next, vars
  <2> QED
    BY <2>1, ShellStep
<1>3. I /\ [Next]_vars => [part = "shell" => Shell!TypesAtPrompt]_vars
  <2> SUFFICES ASSUME I, [Next]_vars, part = "shell", sent'.command # sent.command
               PROVE  fg = 0 /\ typed = <<>>
    BY SMTT(20) DEF Shell!TypesAtPrompt
  <2>1. ShellInv /\ [Shell!Next]_shellVars
    BY DEF Next, vars
  <2>2. Shell!Send(FALSE)
    BY <2>1 DEF Shell!Next, shellVars, Shell!Look, Shell!Refuse, Shell!PollCompletes,
       Shell!PollTimesOut, Shell!ShellReads, Shell!ProgramReads, Shell!Writes, Shell!Exits
  <2> QED
    BY <2>1, <2>2, SendsAtPrompt
<1> QED
  BY <1>1, <1>2, <1>3, PTL DEF Spec, SentToShell

\* Whatever threads add events, close and crash: what a callback has acted on is stored,
\* the pages that one thread stores are those of its files, and all callbacks handle events
\* in one order.  And whatever timers, flushes and failures meet: the update of a file that
\* is stored last is delivered, waits with its bytes counted, or was given up.
THEOREM StreamsKeep == Spec => []StreamKept
<1> DEFINE One == part = "one" => StreamInv(OneAdds) /\ PagesStored(OneAdds)
           Two == part = "two" => StreamInv(TwoAdd)
<1>1. Init => One /\ Two
  BY StreamBegins DEF Init
<1>2. One /\ Two /\ [Next]_vars => One' /\ Two'
  <2> SUFFICES ASSUME One, Two, [Next]_vars PROVE One' /\ Two'
    OBVIOUS
  <2>1. ASSUME (part = "one")' PROVE StreamInv(OneAdds)' /\ PagesStored(OneAdds)'
    <3>1. part = "one" /\ [Streams(OneAdds)!Next]_streamVars
      BY <2>1 DEF Next, vars
    <3> QED
      BY <3>1, StreamStep
  <2>2. ASSUME (part = "two")' PROVE StreamInv(TwoAdd)'
    <3>1. part = "two" /\ [Streams(TwoAdd)!Next]_streamVars
      BY <2>2 DEF Next, vars
    <3> QED
      BY <3>1, StreamStep
  <2> QED
    BY <2>1, <2>2
<1>3. One /\ Two /\ (part = "hook" => HookInv) => StreamKept
  BY StreamHolds, HookHolds DEF StreamKept
<1> QED
  BY <1>1, <1>2, <1>3, HookStays, PTL DEF Spec
=============================================================================
