------------------------------ MODULE CurveTable ------------------------------
(***************************************************************************)
(* The table of zero rates discountCurveEngine returns, and what becomes   *)
(* of it: R hands the two columns to another engine, which rebuilds a      *)
(* curve from them and prices some instrument on it.  The table samples    *)
(* the curve at the settlement date and then at every Stride-th business   *)
(* day of the calendar in RQLContext, up to the curve's end or 2150.       *)
(***************************************************************************)
EXTENDS Naturals, FiniteSets, Sequences, Functions

CONSTANTS
    LastDate,    \* the last date QuantLib can represent
    Horizon,     \* 31 December 2150
    Stride       \* business days between two rows (21)

Days == 0..LastDate

ASSUME TableAssumption ==
    /\ LastDate \in Nat
    /\ Horizon \in Days
    /\ Stride \in Nat \ {0}

VARIABLES
    business,    \* the business days of the context's calendar
    curveMax,    \* the last date of the curve; LastDate for a flat one
    settle,      \* its settlement date
    d,           \* the date the loop has reached
    rows,        \* the dates tabulated so far
    phase,       \* where the table is
    maturity     \* the last date the instrument priced on it needs

vars == <<business, curveMax, settle, d, rows, phase, maturity>>

BusinessBetween(a, b) == {e \in business : a < e /\ e <= b}

\* Calendar::advance by a positive number of days: none left is an exception.
Reaches(a, e) == e \in business /\ a < e /\ Cardinality(BusinessBetween(a, e)) = Stride
CanAdvance(a) == \E e \in business : Reaches(a, e)

advanceDateWeeks(a) == a + 7 * Stride
advanceDate(a) == CHOOSE e \in business : Reaches(a, e)

Limit == IF curveMax < Horizon THEN curveMax ELSE Horizon

InRangeNoHorizon(a) == a < curveMax
InRangeInclusive(a) == a <= curveMax /\ a < Horizon
InRangeLooksAhead(a) == CanAdvance(a) /\ advanceDate(a) < Limit
InRange(a) == a < curveMax /\ a < Horizon

TypeOK ==
    /\ business \in SUBSET Days
    /\ curveMax \in Days /\ settle \in Days /\ d \in Days
    /\ rows \in Seq(Days)
    /\ phase \in {"tabulating", "made", "threw", "rebuilt", "refused",
                  "priced", "beyond"}
    /\ maturity \in Days

Init ==
    /\ business \in SUBSET Days
    /\ curveMax \in Days
    /\ settle \in Days
    /\ d = settle
    /\ rows = <<>>
    /\ phase = "tabulating"
    /\ maturity = settle

\* One turn of the loop: the row is pushed, then the date moves on.
AddRow ==
    /\ phase = "tabulating"
    /\ InRange(d)
    /\ CanAdvance(d)
    /\ rows' = Append(rows, d)
    /\ d' = advanceDate(d)
    /\ UNCHANGED <<business, curveMax, settle, phase, maturity>>

AdvanceStandsStill ==
    /\ phase = "tabulating"
    /\ InRange(d)
    /\ ~CanAdvance(d)
    /\ UNCHANGED vars

\* Past the last date QuantLib knows there is nothing to advance to.
AdvanceThrows ==
    /\ phase = "tabulating"
    /\ InRange(d)
    /\ ~CanAdvance(d)
    /\ phase' = "threw"
    /\ UNCHANGED <<business, curveMax, settle, d, rows, maturity>>

TableMade ==
    /\ phase = "tabulating"
    /\ ~InRange(d)
    /\ phase' = "made"
    /\ UNCHANGED <<business, curveMax, settle, d, rows, maturity>>

\* rebuildCurveFromZeroRates: log-linear interpolation wants two points, in
\* increasing order.
Interpolable ==
    /\ Len(rows) >= 2
    /\ \A i \in 1..(Len(rows) - 1) : rows[i] < rows[i + 1]

rebuildCurveFromZeroRates ==
    /\ phase = "made"
    /\ phase' = IF Interpolable THEN "rebuilt" ELSE "refused"
    /\ UNCHANGED <<business, curveMax, settle, d, rows, maturity>>

\* The rebuilt curve ends at the last row and does not extrapolate.
PriceOnTable ==
    /\ phase = "rebuilt"
    /\ \E m \in Days :
         /\ settle <= m
         /\ maturity' = m
         /\ phase' = IF m <= rows[Len(rows)] THEN "priced" ELSE "beyond"
    /\ UNCHANGED <<business, curveMax, settle, d, rows>>

Loop == AddRow \/ AdvanceThrows \/ TableMade
Next == Loop \/ rebuildCurveFromZeroRates \/ PriceOnTable

\* The loop is C++ code that runs on; what R does with the table is its own
\* choice.
Spec == Init /\ [][Next]_vars /\ WF_vars(Loop)

-----------------------------------------------------------------------------
(* Properties.                                                             *)

\* The rows a reader expects: the settlement date, and each business day
\* that has a multiple of Stride business days behind it since then.
Expected ==
    {e \in Days :
        /\ settle <= e /\ e < Limit
        /\ e = settle \/ e \in business
        /\ Cardinality(BusinessBetween(settle, e)) % Stride = 0}

\* The finished table holds these rows, each once and in order: the loop,
\* which knows only its current date, never drifts, even from a settlement
\* date that is a holiday.
TableIsExpected ==
    phase = "made" =>
        /\ Range(rows) = Expected
        /\ \A i, j \in 1..Len(rows) : i < j => rows[i] < rows[j]

\* The horizon is what keeps the table of a flat curve, which has no end,
\* from running off QuantLib's calendar: as long as Stride business days
\* follow it, no table throws.
HorizonIsFarEnough ==
    Cardinality(BusinessBetween(Horizon, LastDate)) >= Stride => phase # "threw"

\* An instrument the tabulated curve could still have priced is turned down
\* only if it needs the stretch after the last row, which is at most Stride
\* business days long, or lies beyond the horizon.
TurnedDownOnlyNearTheEnd ==
    phase = "beyond" /\ maturity < Limit =>
        Cardinality(BusinessBetween(rows[Len(rows)], maturity)) < Stride

\* Every table is finished, or ends in an exception.
LoopEnds == <>(phase # "tabulating")
=============================================================================
