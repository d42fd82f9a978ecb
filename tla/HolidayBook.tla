----------------------------- MODULE HolidayBook -----------------------------
(***************************************************************************)
(* What addHolidays and removeHolidays promise: one book of business days  *)
(* per market, written under any of the market's names, where the last     *)
(* word on a day counts, and a context that shows the book of the market   *)
(* it was set to as the book stands now.                                   *)
(***************************************************************************)
CONSTANTS Markets, Days, Regular, Target

VARIABLES
    open,     \* [market |-> the days that are business days there]
    context   \* the market setCalendarContext chose last

Init ==
    /\ open = Regular
    /\ context = Target

Close(m, ds) ==
    /\ open' = [open EXCEPT ![m] = @ \ ds]
    /\ UNCHANGED context

Reopen(m, ds) ==
    /\ open' = [open EXCEPT ![m] = @ \cup ds]
    /\ UNCHANGED context

Choose(m) ==
    /\ context' = m
    /\ UNCHANGED open

Next ==
    \E m \in Markets :
        \/ Choose(m)
        \/ \E ds \in SUBSET Days : Close(m, ds) \/ Reopen(m, ds)

Spec == Init /\ [][Next]_<<open, context>>
=============================================================================
