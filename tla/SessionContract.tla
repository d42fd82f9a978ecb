--------------------------- MODULE SessionContract ---------------------------
(***************************************************************************)
(* What a caller of RQuantLib may rely on: a call, seen from R, changes    *)
(* the process-wide settings once, when it ends.  A call that returns      *)
(* leaves what its arguments say.  A call that throws leaves what it found *)
(* or one of a few settings named here; in particular the settlement date  *)
(* of the context and the evaluation date change as the pair the caller    *)
(* gave for one curve, and only setCalendarContext touches the rest.       *)
(***************************************************************************)
EXTENDS Naturals

CONSTANTS MaxDay, Calls, Calendars, Target, Retreat, None

VARIABLES
    evalDate, settleDate, calendar, fixingDays, today,
    call         \* the last call: engine, arguments, first day and status

settings == <<evalDate, settleDate, calendar, fixingDays>>
vars == <<settings, today, call>>

\* The engines by what they write.
Dated ==
    {"setEvaluationDate", "ZeroBondWithRebuiltCurve",
     "convertibleFixedBondEngine", "fittedBondCurveEngine", "sabrengine",
     "calibrateHullWhiteUsingCapsEngine",
     "calibrateHullWhiteUsingSwapsEngine"}
Quoted ==
    {"bermudanFromYieldEngine", "bermudanWithRebuiltCurveEngine",
     "affineWithRebuiltCurveEngine"}
TwoCurves == {"FloatBond1", "FloatBond2", "FloatBond3", "FloatBond4"}
DatedToday == {"asianOptionEngine", "europeanOptionArraysEngine"}
DatedByContext ==
    {"zeroPriceByYieldEngine", "zeroYieldByPriceEngine", "zeroprice",
     "zeroyield"}

Init ==
    /\ evalDate = None
    /\ settleDate = 2
    /\ calendar = Target
    /\ fixingDays = 2
    /\ today = 0
    /\ call \in Calls
    /\ call.status = "idle"

Begin ==
    /\ call.status # "running"
    /\ call' \in Calls
    /\ call'.status = "running"
    /\ call'.began = today
    /\ UNCHANGED <<settings, today>>

Midnight ==
    /\ today < MaxDay
    /\ today' = today + 1
    /\ UNCHANGED <<settings, call>>

End(how) ==
    /\ call.status = "running"
    /\ call' = [call EXCEPT !.status = how]
    /\ UNCHANGED today

-----------------------------------------------------------------------------
(* Outcomes as pairs of evaluation date and settlement date.               *)

Found == <<evalDate, settleDate>>
Flat(k) == <<call.d[k], settleDate>>
Quotes(k) == <<call.d[k], call.s[k]>>

\* What the engine leaves when it returns; more than one where the clock
\* decides.  A curve's trade date leaves no trace, but a date that floated
\* stands still at some day of the call.
Whole ==
    CASE call.op \in Dated \cup {"FloatBond1"} ->
           {Flat(IF call.op = "FloatBond1" THEN 2 ELSE 1)}
      [] call.op \in Quoted \cup {"FloatBond3", "FloatBond4"} -> {Quotes(1)}
      [] call.op = "FloatBond2" -> {Quotes(2)}
      [] call.op \in DatedToday -> {<<e, settleDate>> : e \in call.began..today}
      [] call.op \in DatedByContext ->
           {<<e, settleDate>> :
               e \in {Retreat[calendar, call.d[1], fixingDays]} \ {None}}
      [] call.op = "discountCurveEngine" ->
           {<<e, call.s[1]>> :
               e \in IF evalDate = None THEN call.began..today ELSE {evalDate}}
      [] OTHER -> {Found}

\* What the engine may have left when it throws before that: the dates of the
\* first of two curves, or a curve's trade date.
Part ==
    CASE call.op \in {"FloatBond1", "FloatBond2"} -> {Flat(1)}
      [] call.op = "FloatBond3" -> {Flat(2)}
      [] call.op = "FloatBond4" -> {Quotes(2)}
      [] call.op = "discountCurveEngine" -> {Quotes(1)}
      [] OTHER -> {}

Returns ==
    /\ End("returned")
    /\ call.op # "setCalendarContext"
    /\ <<evalDate', settleDate'>> \in Whole
    /\ UNCHANGED <<calendar, fixingDays>>

Throws ==
    /\ End("threw")
    /\ call.op # "setCalendarContext"
    /\ <<evalDate', settleDate'>> \in {Found} \cup Part \cup Whole
    /\ UNCHANGED <<calendar, fixingDays>>

ContextSet ==
    /\ End("returned")
    /\ call.op = "setCalendarContext"
    /\ call.name \in Calendars
    /\ calendar' = call.name
    /\ fixingDays' = call.lag
    /\ settleDate' = call.s[1]
    /\ UNCHANGED evalDate

\* A call that is refused its first argument leaves the context alone; one
\* that names a calendar nobody knows leaves the new days with the old one.
ContextRefused ==
    /\ End("threw")
    /\ call.op = "setCalendarContext"
    /\ UNCHANGED settings

ContextHalfSet ==
    /\ End("threw")
    /\ call.op = "setCalendarContext"
    /\ call.name \notin Calendars
    /\ fixingDays' = call.lag
    /\ settleDate' = call.s[1]
    /\ UNCHANGED <<evalDate, calendar>>

Next ==
    \/ Begin \/ Midnight
    \/ Returns \/ Throws
    \/ ContextSet \/ ContextRefused \/ ContextHalfSet

Spec == Init /\ [][Next]_vars
=============================================================================
