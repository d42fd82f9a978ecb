----------------------------- MODULE RQLSession -----------------------------
(***************************************************************************)
(* One R process running RQuantLib.  Every exported engine is a C++ call   *)
(* that runs to its return or to its first exception, and every engine     *)
(* communicates with the others, wittingly or not, through four process-   *)
(* wide settings: QuantLib's evaluation date and the three members of the  *)
(* RQLContext singleton.  An engine is described by the ordered list of    *)
(* the steps it takes on those settings; a step that reads arguments or    *)
(* computes may throw, and nothing written before it is undone.            *)
(***************************************************************************)
EXTENDS Naturals, Sequences

CONSTANTS
    MaxDay,      \* the last day of the modelled stretch of days
    Given,       \* the dates callers pass
    Calendars,   \* the calendars getCalendar recognises
    Target,      \* the one a fresh RQLContext holds
    Names,       \* the calendar names callers pass, unknown ones included
    Offsets,     \* the values of fixingDays that occur
    Retreat,     \* [calendar, day, n] |-> the business day n before, or None
    None,        \* no day: nothing recorded, or a date QuantLib refuses
    Ops          \* the engines the callers of this instance use

Dates == 0..MaxDay

ASSUME SessionAssumption ==
    /\ MaxDay \in Nat /\ MaxDay >= 2
    /\ Target \in Calendars /\ Calendars \subseteq Names
    /\ Offsets \subseteq Nat /\ 2 \in Offsets
    /\ None \notin Nat
    /\ 0 \in Given /\ Given \subseteq Dates
    /\ Retreat \in [Calendars \X Dates \X Offsets -> Dates \cup {None}]

VARIABLES
    evalDate,    \* Settings::evaluationDate(); None while nobody has set it
    settleDate,  \* RQLContext: the settlement date curve helpers start from
    calendar,    \* RQLContext: the calendar engines take when given none
    fixingDays,  \* RQLContext: the fixing lag of the zero-coupon engines
    today,       \* Date::todaysDate(), which moves on while the process lives
    call         \* the C++ call that runs, or the last one that ended

settings == <<evalDate, settleDate, calendar, fixingDays>>
vars == <<settings, today, call>>

\* Reading an evaluation date nobody has set gives the current day.
EvaluationDate == IF evalDate = None THEN today ELSE evalDate

-----------------------------------------------------------------------------
(* The engines.  The steps are:                                            *)
(*   check     read or validate arguments                        may throw *)
(*   find      getCalendar(name)                 throws on an unknown name *)
(*             (engines that skip an empty name treat it like a known one)   *)
(*   context   copy RQLContext's calendar and fixingDays                   *)
(*   settleK   RQLContext.settleDate := settlement date of curve K         *)
(*   evalK     evaluationDate := the date given for curve (argument) K     *)
(*   evalToday evaluationDate := todaysDate()                              *)
(*   evalBack  evaluationDate := fixingDays business days before date 1    *)
(*   save, restore  keep the evaluation date in a local and put it back    *)
(*   base      take the evaluation date as the reference date of curves    *)
(*   buildK    make curve K's rate helpers                       may throw *)
(*   price     ask for results: lazy curves bootstrap now        may throw *)
(*   table     tabulate zero rates along the context calendar    may throw *)
(*   fixing, calendar  RQLContext.fixingDays, RQLContext.calendar := ...   *)

evalStep == <<"eval1", "eval2">>
settleStep == <<"settle1", "settle2">>
buildStep == <<"build1", "build2">>

\* Setters and calendar functions.
setEvaluationDate == <<"check", "eval1">>
setCalendarContextCalendarFirst ==
    <<"check", "find", "calendar", "fixing", "settle1">>
setCalendarContext == <<"check", "fixing", "settle1", "find", "calendar">>
calendarQuery == <<"check", "find">>
advanceDate == <<"context", "check">>

\* Helpers shared by engines.  Curve 1 discounts, curve 2 forecasts.
getFlatCurve(k) == <<"check", evalStep[k]>>
buildTermStructureEarly(k) ==
    <<"check", buildStep[k], settleStep[k], evalStep[k], "check", "context">>
buildTermStructureChecksBetween(k) ==
    <<"check", settleStep[k], "check", evalStep[k], "context", buildStep[k]>>
buildTermStructure(k) ==
    <<"check", settleStep[k], evalStep[k], "check", "context", buildStep[k]>>

getSchedule == <<"check", "find", "check">>
CreateSchedule == getSchedule

\* Discount curve.
discountCurveSavesLate ==
    <<"check", "settle1", "eval1", "save", "check", "context", "build1",
      "price", "restore", "table">>
discountCurveSettlesLate ==
    <<"check", "save", "eval1", "check", "context", "build1", "settle1",
      "price", "restore", "table">>
discountCurveEngine ==
    <<"check", "settle1", "save", "eval1", "check", "context", "build1",
      "price", "restore", "table">>

\* Bonds.
FloatingBond == <<"check", "find", "check", "price">>
FloatBond1 == getFlatCurve(1) \o getFlatCurve(2) \o FloatingBond
FloatBond2 == getFlatCurve(1) \o buildTermStructure(2) \o FloatingBond
FloatBond3 == getFlatCurve(2) \o buildTermStructure(1) \o FloatingBond
FloatBond4 == buildTermStructure(2) \o buildTermStructure(1) \o FloatingBond
floatingWithRebuiltCurveEngine == <<"check">> \o FloatingBond
zeroPriceByYieldEngine == <<"check", "context", "evalBack", "check", "price">>
zeroYieldByPriceEngine == <<"check", "context", "evalBack", "check", "price">>
zeroprice == <<"check", "context", "evalBack", "check", "price">>
zeroyield == <<"check", "context", "evalBack", "check", "price">>
fixedRateBondYieldByPriceEngine == <<"check", "find", "price">>
fixedRateBondPriceByYieldEngine == <<"check", "find", "price">>
getFixedRateBond == <<"check">> \o getSchedule \o <<"check">>
FixedRateWithYield == <<"check">> \o getFixedRateBond \o <<"price">>
FixedRateWithPrice == <<"check">> \o getFixedRateBond \o <<"price">>
FixedRateWithRebuiltCurve ==
    <<"check">> \o getFixedRateBond \o <<"check", "price">>
zeroBondEngine == <<"check", "eval1", "find", "price">>
ZeroBondWithRebuiltCurve == <<"check">> \o zeroBondEngine
convertibleZeroBondEngine == <<"check", "find", "check", "price">>
convertibleFixedBondEngine == <<"check", "eval1", "find", "check", "price">>
convertibleFloatingBondEngine == <<"check", "find", "check", "price">>
callableBondEngine == <<"check", "find", "check", "price">>
fittedBondCurveEngine == <<"check", "eval1", "context", "check", "price">>

\* Swaptions and short-rate models: the last check is the unknown method.
bermudanFromYieldEngine ==
    <<"check", "settle1", "eval1", "check", "context", "check", "price",
      "check">>
bermudanWithRebuiltCurveEngine ==
    <<"check", "settle1", "eval1", "context", "check", "price", "check">>
affineDropsDate == <<"check", "settle1", "context", "check", "price", "check">>
affineWithRebuiltCurveEngine ==
    <<"check", "settle1", "eval1", "context", "check", "price", "check">>
sabrengine == <<"check", "eval1", "check", "price">>
calibrateHullWhiteUsingCapsEngine == <<"check", "eval1", "check", "price">>
calibrateHullWhiteUsingSwapsEngine == <<"check", "eval1", "check", "price">>

\* Options on a single asset.
europeanOptionEngine == <<"check", "base", "check", "price">>
americanOptionEngine == <<"check", "base", "check", "price">>
binaryOptionEngine == <<"check", "base", "check", "price">>
barrierOptionEngine == <<"check", "base", "check", "price">>
europeanOptionImpliedVolatilityEngine == <<"check", "base", "check", "price">>
americanOptionImpliedVolatilityEngine == <<"check", "base", "check", "price">>
binaryOptionImpliedVolatilityEngine == <<"check", "base", "check", "price">>
europeanOptionArraysEngine == <<"check", "evalToday", "check", "price">>
asianOptionEngine == <<"check", "evalToday", "check", "price">>

\* The exported engines by name.
Code ==
    [setEvaluationDate |-> setEvaluationDate,
     setCalendarContext |-> setCalendarContext,
     calendarQuery |-> calendarQuery,
     advanceDate |-> advanceDate, CreateSchedule |-> CreateSchedule,
     discountCurveEngine |-> discountCurveEngine,
     FloatBond1 |-> FloatBond1, FloatBond2 |-> FloatBond2,
     FloatBond3 |-> FloatBond3, FloatBond4 |-> FloatBond4,
     floatingWithRebuiltCurveEngine |-> floatingWithRebuiltCurveEngine,
     zeroPriceByYieldEngine |-> zeroPriceByYieldEngine,
     zeroYieldByPriceEngine |-> zeroYieldByPriceEngine,
     zeroprice |-> zeroprice, zeroyield |-> zeroyield,
     fixedRateBondYieldByPriceEngine |-> fixedRateBondYieldByPriceEngine,
     fixedRateBondPriceByYieldEngine |-> fixedRateBondPriceByYieldEngine,
     FixedRateWithYield |-> FixedRateWithYield,
     FixedRateWithPrice |-> FixedRateWithPrice,
     FixedRateWithRebuiltCurve |-> FixedRateWithRebuiltCurve,
     ZeroBondWithRebuiltCurve |-> ZeroBondWithRebuiltCurve,
     convertibleZeroBondEngine |-> convertibleZeroBondEngine,
     convertibleFixedBondEngine |-> convertibleFixedBondEngine,
     convertibleFloatingBondEngine |-> convertibleFloatingBondEngine,
     callableBondEngine |-> callableBondEngine,
     fittedBondCurveEngine |-> fittedBondCurveEngine,
     bermudanFromYieldEngine |-> bermudanFromYieldEngine,
     bermudanWithRebuiltCurveEngine |-> bermudanWithRebuiltCurveEngine,
     affineWithRebuiltCurveEngine |-> affineWithRebuiltCurveEngine,
     sabrengine |-> sabrengine,
     calibrateHullWhiteUsingCapsEngine |-> calibrateHullWhiteUsingCapsEngine,
     calibrateHullWhiteUsingSwapsEngine |-> calibrateHullWhiteUsingSwapsEngine,
     europeanOptionEngine |-> europeanOptionEngine,
     americanOptionEngine |-> americanOptionEngine,
     binaryOptionEngine |-> binaryOptionEngine,
     barrierOptionEngine |-> barrierOptionEngine,
     europeanOptionImpliedVolatilityEngine |->
         europeanOptionImpliedVolatilityEngine,
     americanOptionImpliedVolatilityEngine |->
         americanOptionImpliedVolatilityEngine,
     binaryOptionImpliedVolatilityEngine |->
         binaryOptionImpliedVolatilityEngine,
     europeanOptionArraysEngine |-> europeanOptionArraysEngine,
     asianOptionEngine |-> asianOptionEngine]

ASSUME OpsAssumption == Ops \subseteq DOMAIN Code

Does(op, step) == \E i \in 1..Len(Code[op]) : Code[op][i] = step

\* What a caller passes: only the arguments the engine looks at vary, and of
\* the known calendars only the one that is stored.
Arguments(op) ==
    [d : {d \in Given \X Given :
            /\ Does(op, "eval1") \/ Does(op, "evalBack") \/ d[1] = 0
            /\ Does(op, "eval2") \/ d[2] = 0},
     s : {s \in Given \X Given :
            /\ Does(op, "settle1") \/ s[1] = 0
            /\ Does(op, "settle2") \/ s[2] = 0},
     name : IF Does(op, "calendar") THEN Names
            ELSE IF Does(op, "find") THEN {Target} \cup (Names \ Calendars)
            ELSE {Target},
     lag : IF Does(op, "fixing") THEN Offsets ELSE {2}]

-----------------------------------------------------------------------------
(* The call in progress.                                                   *)

Entry == [evalDate |-> evalDate, settleDate |-> settleDate,
          calendar |-> calendar, fixingDays |-> fixingDays, today |-> today]

\* Locals of the C++ call: saved is the date kept by save; cal and fix the
\* copies of the context; base the reference date of the curves built from
\* the evaluation date; imm[k] the date the futures of curve k start from;
\* at and tab the evaluation dates the results and the table came from;
\* entry what the settings were when the call began.
NewCall(op, args) ==
    [op |-> op, d |-> args.d, s |-> args.s, name |-> args.name,
     lag |-> args.lag, pc |-> 1, status |-> "running", saved |-> None,
     cal |-> Target, fix |-> 2, base |-> None, imm |-> <<None, None>>,
     at |-> None, tab |-> None, entry |-> Entry]

Moment == Dates \cup {None}

CallType ==
    [op : Ops, d : Dates \X Dates, s : Dates \X Dates, name : Names,
     lag : Offsets, pc : Nat \ {0},
     status : {"idle", "running", "returned", "threw"},
     saved : Moment, cal : Calendars, fix : Offsets, base : Moment,
     imm : Moment \X Moment, at : Moment, tab : Moment,
     entry : [evalDate : Moment, settleDate : Dates, calendar : Calendars,
              fixingDays : Offsets, today : Dates]]

TypeOK ==
    /\ evalDate \in Moment
    /\ settleDate \in Dates
    /\ calendar \in Calendars
    /\ fixingDays \in Offsets
    /\ today \in Dates
    /\ call \in CallType

\* A fresh process.  The context comes to life on first use with a date two
\* days ahead; no engine reads that date before writing its own
\* (FuturesFromOwnSettle), so the day it is made on is left out.
Init ==
    /\ evalDate = None
    /\ today = 0
    /\ settleDate = 2
    /\ calendar = Target
    /\ fixingDays = 2
    /\ \E op \in Ops :
         call = [NewCall(op, [d |-> <<0, 0>>, s |-> <<0, 0>>,
                              name |-> Target, lag |-> 2])
                   EXCEPT !.status = "idle"]

At(step) ==
    /\ call.status = "running"
    /\ call.pc \in 1..Len(Code[call.op])
    /\ Code[call.op][call.pc] = step

Begin(op) ==
    /\ call.status # "running"
    /\ \E args \in Arguments(op) : call' = NewCall(op, args)
    /\ UNCHANGED <<settings, today>>

Check ==
    /\ At("check")
    /\ call' = [call EXCEPT !.pc = @ + 1]
    /\ UNCHANGED <<settings, today>>

getCalendarUnchecked ==
    /\ At("find")
    /\ call' = [call EXCEPT !.pc = @ + 1]
    /\ UNCHANGED <<settings, today>>

getCalendar ==
    /\ At("find")
    /\ call.name \in Calendars
    /\ call' = [call EXCEPT !.pc = @ + 1]
    /\ UNCHANGED <<settings, today>>

CopyContext ==
    /\ At("context")
    /\ call' = [call EXCEPT !.pc = @ + 1, !.cal = calendar, !.fix = fixingDays]
    /\ UNCHANGED <<settings, today>>

SetSettleDate(k) ==
    /\ At(settleStep[k])
    /\ settleDate' = call.s[k]
    /\ call' = [call EXCEPT !.pc = @ + 1]
    /\ UNCHANGED <<evalDate, calendar, fixingDays, today>>

SetEvaluationDate(k) ==
    /\ At(evalStep[k])
    /\ evalDate' = call.d[k]
    /\ call' = [call EXCEPT !.pc = @ + 1]
    /\ UNCHANGED <<settleDate, calendar, fixingDays, today>>

\* The engine keeps the date it wrote and makes its curves start there.
EvaluateToday ==
    /\ At("evalToday")
    /\ evalDate' = today
    /\ call' = [call EXCEPT !.pc = @ + 1, !.base = today]
    /\ UNCHANGED <<settleDate, calendar, fixingDays, today>>

FixingDateLive == Retreat[calendar, call.d[1], 2]
FixingDate == Retreat[call.cal, call.d[1], call.fix]

EvaluateAtFixing ==
    /\ At("evalBack")
    /\ FixingDate # None
    /\ evalDate' = FixingDate
    /\ call' = [call EXCEPT !.pc = @ + 1]
    /\ UNCHANGED <<settleDate, calendar, fixingDays, today>>

SaveFloating ==
    /\ At("save")
    /\ call' = [call EXCEPT !.pc = @ + 1, !.saved = evalDate]
    /\ UNCHANGED <<settings, today>>

\* Reading through the proxy turns a date nobody set into the current day.
SaveEvaluationDate ==
    /\ At("save")
    /\ call' = [call EXCEPT !.pc = @ + 1, !.saved = EvaluationDate]
    /\ UNCHANGED <<settings, today>>

RestoreEvaluationDate ==
    /\ At("restore")
    /\ evalDate' = call.saved
    /\ call' = [call EXCEPT !.pc = @ + 1]
    /\ UNCHANGED <<settleDate, calendar, fixingDays, today>>

TakeBaseToday ==
    /\ At("base")
    /\ call' = [call EXCEPT !.pc = @ + 1, !.base = today]
    /\ UNCHANGED <<settings, today>>

TakeBase ==
    /\ At("base")
    /\ call' = [call EXCEPT !.pc = @ + 1, !.base = EvaluationDate]
    /\ UNCHANGED <<settings, today>>

\* Quotes become rate helpers; a futures quote starts from the context.
BuildHelpers(k) ==
    /\ At(buildStep[k])
    /\ call' = [call EXCEPT !.pc = @ + 1, !.imm[k] = settleDate]
    /\ UNCHANGED <<settings, today>>

\* A flat quote needs no helpers.
BuildFlat(k) ==
    /\ At(buildStep[k])
    /\ call' = [call EXCEPT !.pc = @ + 1]
    /\ UNCHANGED <<settings, today>>

Price ==
    /\ At("price")
    /\ call' = [call EXCEPT !.pc = @ + 1, !.at = EvaluationDate]
    /\ UNCHANGED <<settings, today>>

Tabulate ==
    /\ At("table")
    /\ call' = [call EXCEPT !.pc = @ + 1, !.tab = EvaluationDate]
    /\ UNCHANGED <<settings, today>>

SetFixingDays ==
    /\ At("fixing")
    /\ fixingDays' = call.lag
    /\ call' = [call EXCEPT !.pc = @ + 1]
    /\ UNCHANGED <<evalDate, settleDate, calendar, today>>

SetCalendar ==
    /\ At("calendar")
    /\ calendar' = call.name
    /\ call' = [call EXCEPT !.pc = @ + 1]
    /\ UNCHANGED <<evalDate, settleDate, fixingDays, today>>

\* The exception leaves the C++ call; what it wrote so far stays written.
Throw ==
    /\ \/ \E step \in {"check", "build1", "build2", "price", "table"} : At(step)
       \/ At("find") /\ call.name \notin Calendars
       \/ At("evalBack") /\ FixingDate = None
    /\ call' = [call EXCEPT !.status = "threw"]
    /\ UNCHANGED <<settings, today>>

Return ==
    /\ call.status = "running"
    /\ call.pc = Len(Code[call.op]) + 1
    /\ call' = [call EXCEPT !.status = "returned"]
    /\ UNCHANGED <<settings, today>>

Midnight ==
    /\ today < MaxDay
    /\ today' = today + 1
    /\ UNCHANGED <<settings, call>>

Step ==
    \/ Check \/ getCalendar \/ CopyContext \/ EvaluateToday \/ EvaluateAtFixing
    \/ SaveEvaluationDate \/ RestoreEvaluationDate \/ TakeBase \/ Price
    \/ Tabulate \/ SetFixingDays \/ SetCalendar \/ Throw \/ Return
    \/ \E k \in 1..2 : \/ SetSettleDate(k) \/ SetEvaluationDate(k)
                       \/ BuildHelpers(k) \/ BuildFlat(k)

Next == Step \/ Midnight \/ \E op \in Ops : Begin(op)

Spec == Init /\ [][Next]_vars

-----------------------------------------------------------------------------
(* Properties.                                                             *)

\* The engines whose caller names the date to evaluate under.
DatedByCaller ==
    {"discountCurveEngine", "FloatBond1", "FloatBond2", "FloatBond3",
     "FloatBond4", "ZeroBondWithRebuiltCurve",
     "convertibleFixedBondEngine", "fittedBondCurveEngine",
     "bermudanFromYieldEngine", "bermudanWithRebuiltCurveEngine",
     "affineWithRebuiltCurveEngine", "sabrengine",
     "calibrateHullWhiteUsingCapsEngine",
     "calibrateHullWhiteUsingSwapsEngine"}

\* The engines that count back from the settlement date they are given.
DatedByContext ==
    {"zeroPriceByYieldEngine", "zeroYieldByPriceEngine", "zeroprice",
     "zeroyield"}

\* Results never depend on who evaluated what before: an engine that is
\* given dates prices under the date it was given last, and a zero-coupon
\* engine under the date the context at its entry puts before settlement.
PricedUnderOwnDate ==
    call.at # None =>
        /\ call.op \in DatedByCaller =>
             call.at = IF call.op \in {"FloatBond1", "FloatBond2"}
                       THEN call.d[2] ELSE call.d[1]
        /\ call.op \in DatedByContext =>
             call.at = Retreat[call.entry.calendar, call.d[1],
                               call.entry.fixingDays]

\* getRateHelper takes the date futures start from out of the context, not
\* out of its arguments: each curve of a call that builds two must still find
\* its own settlement date there, whatever earlier calls left behind.
FuturesFromOwnSettle ==
    \A k \in 1..2 : call.imm[k] # None => call.imm[k] = call.s[k]

\* DiscountCurve evaluates under its trade date and puts the date it found
\* back; only a date that floated with the day comes back fixed.  The table
\* is made after that, under the restored date.
DiscountCurveRestores ==
    call.op = "discountCurveEngine" /\ call.status = "returned" =>
        /\ call.at = call.d[1]
        /\ IF call.entry.evalDate = None
           THEN evalDate \in call.entry.today..today
           ELSE evalDate = call.entry.evalDate
        /\ call.tab = evalDate
        /\ settleDate = call.s[1]
        /\ calendar = call.entry.calendar
        /\ fixingDays = call.entry.fixingDays

\* An option engine builds its curves on the evaluation date it read and the
\* results are then computed under the evaluation date: the two agree unless
\* the date floats and midnight falls inside the call.
OptionsOnOneDate ==
    call.base # None /\ call.at # None =>
        \/ call.at = call.base
        \/ /\ call.entry.evalDate = None
           /\ call.entry.today <= call.base /\ call.base < call.at

\* Once a call has fixed the evaluation date no call gives it back to the
\* clock: from then on results age with the last date somebody wrote.
PinnedForGood ==
    [][evalDate # None => evalDate' # None]_vars

\* The context's calendar is replaced only after the same call has stored
\* its fixing days and settlement date: a name getCalendar refuses leaves
\* the old calendar with the new days, never the new calendar with old ones.
CalendarAfterDays ==
    [][calendar' # calendar =>
         /\ call.op = "setCalendarContext"
         /\ fixingDays = call.lag
         /\ settleDate = call.s[1]]_vars

\* ChangeLog 2011-09-09 on DiscountCurve: "Cache the (global) value of
\* QuantLib::Settings::instance().evaluationDate() and reset it at end".
\* A call that ends by an exception has not reset it.
EvaluationDateResetAtEnd ==
    /\ call.op = "discountCurveEngine"
    /\ call.status \in {"returned", "threw"}
    /\ call.entry.evalDate # None
    => evalDate = call.entry.evalDate

\* man/Calendars.Rd: "The setEvaluationDate function sets the evaluation date
\* used by the QuantLib pricing engines."  An engine that takes no date of
\* its own should then price under it.
SetDateIsUsed ==
    /\ call.op \notin DatedByCaller \cup DatedByContext
    /\ call.at # None
    /\ call.entry.evalDate # None
    => call.at = call.entry.evalDate
=============================================================================
