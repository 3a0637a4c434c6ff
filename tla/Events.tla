------------------------------ MODULE Events ------------------------------
(***************************************************************************)
(* The event table of src/event.c.  Times are relative to CurrentTime, so  *)
(* that the table stays finite: an event is due when its when is not       *)
(* positive.  An event has one slot; Order is the order of the slots.      *)
(***************************************************************************)
EXTENDS Integers, FiniteSetsExt, SequencesExt

CONSTANTS
    Order,          \* the events, a sequence
    Period,         \* the frequency of each
    Never           \* an inactive slot, and event_time_min when it is -1

ASSUME EventsAssumption ==
    /\ Order \in Seq(Range(Order)) /\ Period \in [Range(Order) -> Nat \ {0}]
    /\ Never \notin Int

Names == Range(Order)
Tables == [when : [Names -> Int \cup {Never}], min : Int \cup {Never}]

Active(t) == {e \in Names : t.when[e] # Never}
IsDue(t, e) == e \in Active(t) /\ t.when[e] <= 0

\* eventAdd of the events in es, when the server starts.
Started(es) ==
    [when |-> [e \in Names |-> IF e \in es THEN Period[e] ELSE Never],
     min |-> Min({Period[e] : e \in es})]

\* Mutation: the minimum becomes the new event's time.
eventAdd_TakesOver(t, e) == [when |-> [t.when EXCEPT ![e] = Period[e]], min |-> Period[e]]

\* eventAdd.  A minimum that is not known is taken to be the new event's time.
eventAdd(t, e) ==
    [when |-> [t.when EXCEPT ![e] = Period[e]],
     min |-> IF t.min = Never THEN Period[e] ELSE Min({t.min, Period[e]})]

\* eventDelete; the minimum is left as it is.
eventDelete(t, e) == [t EXCEPT !.when[e] = Never]

\* eventNextTime computes the minimum if it is not known.
eventNextTime(t) ==
    IF t.min = Never THEN [t EXCEPT !.min = Min({t.when[e] : e \in Active(t)})] ELSE t

\* What eventRun does to the table when e has run; e may have been deleted.
Ran(t, e) == [when |-> [t.when EXCEPT ![e] = IF @ = Never THEN Never ELSE Period[e]], min |-> Never]

Later(x, d) == IF x = Never THEN Never ELSE x - d

\* The clock goes on by d.
Passed(t, d) == [when |-> [e \in Names |-> Later(t.when[e], d)], min |-> Later(t.min, d)]

\* set_time and set_back_events: the clock goes back by d, and so do all events but
\* not the minimum.
SetBack(t, d) == [t EXCEPT !.min = Later(@, -d)]
==========================================================================
