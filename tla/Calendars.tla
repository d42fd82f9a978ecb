------------------------------ MODULE Calendars ------------------------------
(***************************************************************************)
(* The calendars of an R session.  getCalendar turns a name into a         *)
(* Calendar object; objects of one market share one implementation, with   *)
(* the holidays added to it and removed from it, for as long as the        *)
(* process lives.  A bespoke calendar is the exception: every lookup       *)
(* makes a new implementation.  RQLContext holds a Calendar by value, that *)
(* is, a reference to the implementation the lookup gave.                  *)
(***************************************************************************)
EXTENDS Naturals

CONSTANTS
    Names,       \* what callers pass for a calendar
    Markets,     \* the markets whose objects share an implementation
    Days,        \* the modelled stretch of days
    Regular,     \* [market |-> the days that are business days by its rules]
    Lookup,      \* [name |-> its market, Bespoke or Unknown]
    Target,      \* the market a fresh RQLContext holds
    Bespoke,     \* looked up afresh each time
    Unknown      \* not recognised

ASSUME CalendarsAssumption ==
    /\ Target \in Markets
    /\ Bespoke \notin Markets /\ Unknown \notin Markets /\ Bespoke # Unknown
    /\ Lookup \in [Names -> Markets \cup {Bespoke, Unknown}]
    /\ Regular \in [Markets -> SUBSET Days]

VARIABLES
    added,       \* [market |-> holidays added to its implementation]
    removed,     \* [market |-> holidays removed from its implementation]
    context,     \* the implementation in RQLContext: a market's or a bespoke one
    asked,       \* ghost: [name |-> days the caller has closed and not reopened]
    failed       \* whether the last call threw

vars == <<added, removed, context, asked, failed>>

\* A bespoke calendar knows no weekends: every day is a business day.
RegularOf(impl) == IF impl \in Markets THEN Regular[impl] ELSE Days

\* Calendar::isBusinessDay
isBusinessDay(impl, d) ==
    /\ d \in RegularOf(impl) \/ (impl \in Markets /\ d \in removed[impl])
    /\ ~(impl \in Markets /\ d \in added[impl])

BusinessDays(impl) == {d \in Days : isBusinessDay(impl, d)}

TypeOK ==
    /\ added \in [Markets -> SUBSET Days]
    /\ removed \in [Markets -> SUBSET Days]
    /\ context \in Markets \cup {Bespoke}
    /\ asked \in [Names -> SUBSET Days]
    /\ failed \in BOOLEAN

Init ==
    /\ added = [m \in Markets |-> {}]
    /\ removed = [m \in Markets |-> {}]
    /\ context = Target
    /\ asked = [n \in Names |-> {}]
    /\ failed = FALSE

Throw ==
    /\ failed' = TRUE
    /\ UNCHANGED <<added, removed, context, asked>>

CloseDaysBlindly(m, ds) ==
    /\ UNCHANGED removed
    /\ added' = [added EXCEPT ![m] = @ \cup (ds \cap Regular[m])]

CloseDaysInAllMarkets(m, ds) ==
    /\ UNCHANGED removed
    /\ added' = [k \in Markets |-> added[k] \cup (ds \cap Regular[k])]

\* Calendar::addHoliday on each of the days: a removal is taken back, and the
\* day is added only if the rules alone make it a business day.
CloseDays(m, ds) ==
    /\ removed' = [removed EXCEPT ![m] = @ \ ds]
    /\ added' = [added EXCEPT ![m] = @ \cup (ds \cap Regular[m])]

ReopenDaysBlindly(m, ds) ==
    /\ added' = [added EXCEPT ![m] = @ \ ds]
    /\ removed' = [removed EXCEPT ![m] = @ \cup ds]

\* Calendar::removeHoliday on each of the days.
ReopenDays(m, ds) ==
    /\ added' = [added EXCEPT ![m] = @ \ ds]
    /\ removed' = [removed EXCEPT ![m] = @ \cup (ds \ Regular[m])]

\* A bespoke calendar is made, changed and dropped within the call.
addHolidays(n, ds) ==
    /\ Lookup[n] # Unknown
    /\ IF Lookup[n] \in Markets
       THEN CloseDays(Lookup[n], ds)
       ELSE UNCHANGED <<added, removed>>
    /\ asked' = [k \in Names |->
                   IF Lookup[k] = Lookup[n] THEN asked[k] \cup ds ELSE asked[k]]
    /\ failed' = FALSE
    /\ UNCHANGED context

removeHolidays(n, ds) ==
    /\ Lookup[n] # Unknown
    /\ IF Lookup[n] \in Markets
       THEN ReopenDays(Lookup[n], ds)
       ELSE UNCHANGED <<added, removed>>
    /\ asked' = [k \in Names |->
                   IF Lookup[k] = Lookup[n] THEN asked[k] \ ds ELSE asked[k]]
    /\ failed' = FALSE
    /\ UNCHANGED context

ContextUnderAnyName(n) ==
    /\ context' = Lookup[n]
    /\ failed' = FALSE
    /\ UNCHANGED <<added, removed, asked>>

setCalendarContext(n) ==
    /\ Lookup[n] # Unknown
    /\ context' = Lookup[n]
    /\ failed' = FALSE
    /\ UNCHANGED <<added, removed, asked>>

LookupFails(n) ==
    /\ Lookup[n] = Unknown
    /\ Throw

Next ==
    \E n \in Names :
        \/ LookupFails(n)
        \/ setCalendarContext(n)
        \/ \E ds \in SUBSET Days : addHolidays(n, ds) \/ removeHolidays(n, ds)

Spec == Init /\ [][Next]_vars

-----------------------------------------------------------------------------
(* Properties.                                                             *)

\* The two sets only ever record exceptions to the rules: a day is never
\* both, and undoing an exception leaves no trace of it.
OnlyExceptions ==
    \A m \in Markets :
        added[m] \subseteq Regular[m] /\ removed[m] \cap Regular[m] = {}

\* A holiday declared under one name of a market holds under each of its
\* names, and in the context, until it is removed under any of them.
HeardUnderEveryName ==
    \A n \in Names : Lookup[n] \in Markets =>
        asked[n] \cap BusinessDays(Lookup[n]) = {}

\* A market's book shows its business days; the bespoke book is always blank,
\* because that calendar forgets its holidays when the call ends.
Open == [m \in Markets \cup {Bespoke} |-> BusinessDays(m)]
RegularOpen == [m \in Markets \cup {Bespoke} |-> RegularOf(m)]

Book == INSTANCE HolidayBook WITH
            Markets <- Markets \cup {Bespoke},
            Regular <- RegularOpen,
            open <- Open

\* Every call on a market's calendar is one entry in its book, under
\* whatever name it was made.
ImplementsBook == Book!Spec
=============================================================================
