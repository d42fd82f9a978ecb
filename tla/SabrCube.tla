-------------------------------- MODULE SabrCube --------------------------------
(***************************************************************************)
(* One call of SabrSwaption (src/R/sabr.R, src/src/sabr.cpp).  R fills in  *)
(* missing dates, cuts a cube of volatilities out of a table of quotes, so *)
(* that the cube starts at the swaption's own expiry and tenor, and calls  *)
(* sabrengine once for the price and once more for every sensitivity.  The *)
(* cube crosses to C++ as vectors and a flat matrix whose row order both   *)
(* sides must know.                                                        *)
(*                                                                         *)
(* Dates are days since the trade date.  A volatility is the cell of the   *)
(* table it was quoted in, and a cube is where it was cut.                 *)
(***************************************************************************)
EXTENDS Integers, Sequences, FiniteSets

CONSTANTS
    Expiries,      \* months to expiry in the table, ascending
    Tenors,        \* years of the swap in the table, ascending
    Spreads,       \* strikes relative to the forward rate, ascending
    Asks,          \* what callers ask for
    LeapDays,      \* the 29ths of February
    UsMoves,       \* where following moves the holidays of the US calendar
    TargetMoves,   \* where modified following moves TARGET's holidays
    None

Ascending(s) == \A m, n \in DOMAIN s : m < n => s[m] < s[n]

\* The three vectors are constants of volDF2CubeK; swaps begin at one year.
ASSUME GridAssumption ==
    /\ Expiries \in Seq(Nat \ {0}) /\ Len(Expiries) >= 4 /\ Ascending(Expiries)
    /\ Tenors \in Seq(Nat \ {0}) /\ Len(Tenors) >= 4 /\ Ascending(Tenors)
    /\ Tenors[1] = 1
    /\ Spreads \in Seq(Int) /\ 0 \in {Spreads[n] : n \in DOMAIN Spreads}
    /\ Ascending(Spreads)

ASSUME NoneAssumption == None \notin Int /\ None \notin Nat \X Nat \X Nat

Cells == (DOMAIN Expiries) \X (DOMAIN Tenors) \X (DOMAIN Spreads)

ASSUME AsksAssumption ==
    \A a \in Asks :
        /\ a.start \in Int \cup {None} /\ a.expiry \in Int \cup {None}
        /\ a.maturity \in Int \cup {None} /\ a.settle \in Int
        /\ a.quoted \in SUBSET Cells
        /\ \A flag \in {a.european, a.vega, a.isCurve, a.tsUp01, a.tsDn01, a.roundsDown} :
             flag \in BOOLEAN

\* Leap days are four years apart or eight, and a holiday is moved to a day
\* that is none.
ASSUME CalendarAssumption ==
    /\ LeapDays \in SUBSET Int
    /\ \A k, l \in LeapDays : k < l => l - k > 4 * 365
    /\ UsMoves \in [DOMAIN UsMoves -> Int]
    /\ TargetMoves \in [DOMAIN TargetMoves -> Int]
    /\ \A d \in DOMAIN TargetMoves : TargetMoves[d] \notin DOMAIN TargetMoves

VARIABLES
    ask,      \* the arguments
    phase,    \* how far the call has come
    dates,    \* start, expiry and maturity, once known
    cube,     \* the cube that prices are taken from
    cubeUp,   \* the cube of the raised volatilities
    vals      \* what sabrengine answered, by scenario

vars == <<ask, phase, dates, cube, cubeUp, vals>>

Nothing == <<>>
Scenario == {"price", "vega", "up", "down"}

TypeOK ==
    /\ phase \in {"called", "dated", "cut", "ready", "done", "error"}
    /\ phase \notin {"called", "error"} =>
         dates \in [start : Int, expiry : Int, maturity : Int]
    /\ DOMAIN vals \subseteq Scenario
    /\ phase = "error" => vals = Nothing

Init ==
    /\ ask \in Asks
    /\ phase = "called"
    /\ dates = Nothing /\ cube = Nothing /\ cubeUp = Nothing /\ vals = Nothing

\* An R error or a C++ exception: nothing is returned.
Fails ==
    /\ phase' = "error"
    /\ vals' = Nothing
    /\ UNCHANGED <<ask, dates, cube, cubeUp>>

-----------------------------------------------------------------------------
(* Dates.                                                                  *)

Moved(moves, d) == IF d \in DOMAIN moves THEN moves[d] ELSE d

\* n years after a day is 365 * n days and the leap days passed.  QuantLib
\* takes a 29th of February for the 28th in a year that has none.
SameDay(d, n) ==
    LET Leaps(k) == Cardinality({l \in LeapDays : d < l /\ l <= d + 365 * n + k})
    IN  d + 365 * n + (CHOOSE k \in 0..(n + 1) :
                         k = Leaps(k) /\ d + 365 * n + k \notin LeapDays)

YearsAfter(d, n) ==
    IF d \notin LeapDays THEN SameDay(d, n)
    ELSE IF SameDay(d - 1, n) + 1 \in LeapDays THEN SameDay(d - 1, n) + 1
    ELSE SameDay(d - 1, n)

advance(d, n) == Moved(UsMoves, YearsAfter(d, n))

Given(date, otherwise) == IF date = None THEN otherwise ELSE date

SetDatesNoExpiry ==
    LET start == Given(ask.start, advance(0, 1))
    IN  /\ phase = "called"
        /\ dates' = [start |-> start, expiry |-> ask.expiry,
                     maturity |-> Given(ask.maturity, advance(start, 5))]
        /\ phase' = "dated"
        /\ UNCHANGED <<ask, cube, cubeUp, vals>>
SetDates ==
    LET start == Given(ask.start, advance(0, 1))
    IN  /\ phase = "called"
        /\ dates' = [start |-> start, expiry |-> Given(ask.expiry, start),
                     maturity |-> Given(ask.maturity, advance(start, 5))]
        /\ phase' = "dated"
        /\ UNCHANGED <<ask, cube, cubeUp, vals>>

-----------------------------------------------------------------------------
(* volDF2CubeK: where the cube is cut.                                     *)

Least(a, b) == IF a <= b THEN a ELSE b
Greatest(a, b) == IF a >= b THEN a ELSE b

\* Four expiries and four tenors are always kept, if the first of them has
\* been reached.  Years are days / 365 in doubles, and the difference of two
\* such quotients may come out just below a whole number of years.
expiryIDXFromFirst ==
    LET reached == Cardinality({i \in DOMAIN Expiries :
                       365 * Expiries[i] <= 12 * dates.expiry})
    IN  Least(Greatest(reached, 1), Len(Expiries) - 3)
expiryIDX ==
    LET reached == Cardinality({i \in DOMAIN Expiries :
                       365 * Expiries[i] <= 12 * dates.expiry})
    IN  Least(reached, Len(Expiries) - 3)

SwapDays == dates.maturity - dates.expiry
tenorIDXNext ==
    LET reached == Cardinality({j \in DOMAIN Tenors : 365 * Tenors[j] <= SwapDays})
    IN  Least(reached + 1, Len(Tenors) - 3)
tenorIDX ==
    LET days == IF ask.roundsDown THEN SwapDays - 1 ELSE SwapDays
        reached == Cardinality({j \in DOMAIN Tenors : 365 * Tenors[j] <= days})
    IN  Least(Greatest(reached, 1), Len(Tenors) - 3)

\* The first strike quoted at the corner of the cube.
CornerQuotedNextTenor ==
    {n \in DOMAIN Spreads : <<expiryIDX, tenorIDX + 1, n>> \in ask.quoted}
CornerQuoted == {n \in DOMAIN Spreads : <<expiryIDX, tenorIDX, n>> \in ask.quoted}
strikeIDX == CHOOSE n \in CornerQuoted : \A m \in CornerQuoted : n <= m

\* Without a first expiry there is no quote to compare with; without the
\* column of spread zero there are no volatilities at the money.
Cuttable ==
    /\ expiryIDX > 0
    /\ CornerQuoted # {}
    /\ Spreads[strikeIDX] <= 0

volDF2CubeK(raised) ==
    [row |-> expiryIDX, column |-> tenorIDX, strike |-> strikeIDX, raised |-> raised]

expiries(c) == SubSeq(Expiries, c.row, Len(Expiries))
tenors(c) == SubSeq(Tenors, c.column, Len(Tenors))
strikes(c) == SubSeq(Spreads, c.strike, Len(Spreads))

Quote(i, j, n) == IF <<i, j, n>> \in ask.quoted THEN <<i, j, n>> ELSE None

AtTheMoney == CHOOSE n \in DOMAIN Spreads : Spreads[n] = 0
atmVol(c, i, j) == Quote(c.row + i - 1, c.column + j - 1, AtTheMoney)

\* Row k of smirk is the k-th turn of the loops over expiries and tenors; a
\* cell is a difference of two quotes, and na.spline's where one is missing.
SmirkRowByTenor(c, k) ==
    [row |-> (k - 1) % Len(expiries(c)), column |-> (k - 1) \div Len(expiries(c))]
SmirkRow(c, k) ==
    [row |-> (k - 1) \div Len(tenors(c)), column |-> (k - 1) % Len(tenors(c))]

smirk(c, k, n) ==
    LET i == c.row + SmirkRow(c, k).row
        j == c.column + SmirkRow(c, k).column
    IN  [wing |-> Quote(i, j, c.strike + n - 1), atm |-> Quote(i, j, AtTheMoney)]

Splined(cell) == None \in {cell.wing, cell.atm}

\* With vega asked for, the same cut of the same table, every volatility
\* raised by a hundredth.
CutCubeOfRaised ==
    /\ phase = "dated" /\ Cuttable
    /\ cube' = volDF2CubeK(ask.vega)
    /\ phase' = "cut"
    /\ UNCHANGED <<ask, dates, cubeUp, vals>>
CutCube ==
    /\ phase = "dated" /\ Cuttable
    /\ cube' = volDF2CubeK(FALSE)
    /\ phase' = "cut"
    /\ UNCHANGED <<ask, dates, cubeUp, vals>>

CutFails == phase = "dated" /\ ~Cuttable /\ Fails

CutCubeUp ==
    /\ phase = "cut"
    /\ cubeUp' = IF ask.vega THEN volDF2CubeK(TRUE) ELSE Nothing
    /\ phase' = "ready"
    /\ UNCHANGED <<ask, dates, cube, vals>>

-----------------------------------------------------------------------------
(* sabrengine.                                                             *)

\* Days / 365, cut to whole years.
WholeYears(days) == IF days < 0 THEN -((-days) \div 365) ELSE days \div 365

\* The years of the Bermudan's swap.  QuantLib counts them back from its end:
\* of a swap that starts on a 29th of February and does not end on one, all
\* the later years begin on a 28th.
YearsOfSwap == WholeYears(dates.maturity - dates.start)
EndsOnLeapDay == YearsAfter(dates.start, YearsOfSwap) \in LeapDays

AccrualStart(n) ==
    IF n > 0 /\ dates.start \in LeapDays /\ ~EndsOnLeapDay
    THEN YearsAfter(dates.start - 1, n)
    ELSE YearsAfter(dates.start, n)

\* A Bermudan is exercised where the years of its swap begin.
ExerciseDatesBeforeExpiry ==
    {d \in {Moved(TargetMoves, AccrualStart(n)) : n \in 0..(YearsOfSwap - 1)} :
        dates.start <= d /\ d < dates.expiry}
ExerciseDates ==
    {d \in {Moved(TargetMoves, AccrualStart(n)) : n \in 0..(YearsOfSwap - 1)} :
        dates.start <= d /\ d <= dates.expiry}

\* QuantLib makes no swap of no years and no exercise without a date.
Priceable ==
    /\ WholeYears(SwapDays) >= 1
    /\ ~ask.european => ExerciseDates # {}

\* What one call of sabrengine takes and makes: the scenario's curve and
\* cube; for how many years and in how many years the volatility is looked
\* up, and when the holder may exercise.
Valuation(curve, volCube) ==
    [curve |-> curve, cube |-> volCube,
     swapYears |-> WholeYears(SwapDays),
     optionYears |-> WholeYears(dates.expiry - ask.settle),
     exercise |-> IF ask.european THEN {dates.start} ELSE ExerciseDates]

\* The calls in R's order: shifted curves are only looked at with vega, the
\* curve shifted down only with the one shifted up.
NextScenario ==
    IF "price" \notin DOMAIN vals THEN "price"
    ELSE IF ~ask.vega THEN "none"
    ELSE IF "vega" \notin DOMAIN vals THEN "vega"
    ELSE IF ask.tsUp01 /\ "up" \notin DOMAIN vals THEN "up"
    ELSE IF ask.tsUp01 /\ ask.tsDn01 /\ "down" \notin DOMAIN vals THEN "down"
    ELSE "none"

ScenarioInput(s) ==
    CASE s = "price" -> Valuation("ts", cube)
      [] s = "vega" -> Valuation("ts", cubeUp)
      [] s = "up" -> Valuation("tsUp01", cube)
      [] s = "down" -> Valuation("tsDn01", cube)

sabrengine ==
    /\ phase = "ready" /\ ask.isCurve /\ NextScenario # "none"
    /\ Priceable
    /\ vals' = [s \in DOMAIN vals \cup {NextScenario} |->
                  IF s = NextScenario THEN ScenarioInput(s) ELSE vals[s]]
    /\ UNCHANGED <<ask, phase, dates, cube, cubeUp>>

\* Calibration and pricing may fail for any input.
Throw == phase = "ready" /\ ask.isCurve /\ NextScenario # "none" /\ Fails

NotACurve == phase = "ready" /\ ~ask.isCurve /\ Fails

Answer ==
    /\ phase = "ready" /\ ask.isCurve /\ NextScenario = "none"
    /\ phase' = "done"
    /\ UNCHANGED <<ask, dates, cube, cubeUp, vals>>

Next ==
    \/ SetDates \/ CutCube \/ CutFails \/ CutCubeUp
    \/ sabrengine \/ Throw \/ NotACurve \/ Answer

Spec == Init /\ [][Next]_vars

-----------------------------------------------------------------------------
(* Properties.                                                             *)

InCube == phase \in {"cut", "ready", "done"}

\* SabrSwaptionVolatilityCube reads row (i - 1) * #tenors + j for the i-th
\* expiry and the j-th tenor.
ReadSmile(c, i, j, n) == smirk(c, (i - 1) * Len(tenors(c)) + j, n)

\* The three vectors and two matrices R hands over, cut and flattened one by
\* one (sabr.R 129-160), still belong together where swptnVolCube puts them
\* next to each other: the volatility at an expiry, tenor and strike is the
\* quote for just these, less the quote at the money of the same swap.
CubeHoldsQuotes ==
    InCube =>
        \A i \in DOMAIN expiries(cube), j \in DOMAIN tenors(cube),
           n \in DOMAIN strikes(cube) :
            LET smile == ReadSmile(cube, i, j, n)
                atm == atmVol(cube, i, j)
            IN  /\ atm # None =>
                     /\ Expiries[atm[1]] = expiries(cube)[i]
                     /\ Tenors[atm[2]] = tenors(cube)[j]
                     /\ Spreads[atm[3]] = 0
                /\ ~Splined(smile) =>
                     /\ smile.atm = atm
                     /\ Expiries[smile.wing[1]] = expiries(cube)[i]
                     /\ Tenors[smile.wing[2]] = tenors(cube)[j]
                     /\ Spreads[smile.wing[3]] = strikes(cube)[n]

\* Quotes run out at low strikes, for short expiries and tenors first.
Staircase ==
    \A q \in ask.quoted :
        \A i \in q[1]..Len(Expiries), j \in q[2]..Len(Tenors), n \in q[3]..Len(Spreads) :
            <<i, j, n>> \in ask.quoted

\* Looking for the first strike at one corner (sabr.R 125-128) is enough for
\* such a table: na.spline (163) then has nothing to invent, and the numbers
\* that calibrate the smile are all quotes.
NothingInvented ==
    InCube /\ Staircase =>
        \A i \in DOMAIN expiries(cube), j \in DOMAIN tenors(cube),
           n \in DOMAIN strikes(cube) :
            /\ ~Splined(ReadSmile(cube, i, j, n))
            /\ atmVol(cube, i, j) # None

\* The cut stops in an error for an option before the first expiry of the
\* table, where findInterval answers 0 (sabr.R 118) and nothing raises it to
\* 1 as it does for the tenor (116); and for one with nothing quoted at or
\* below the money at the corner.  It stops for no other: the table has a row
\* for every expiry, tenor and spread, filled or not.
CutFailsExactlyWhen ==
    phase \in {"cut", "error"} =>
        (cube = Nothing <=> \/ 12 * dates.expiry < 365 * Expiries[1]
                            \/ \A n \in CornerQuoted : Spreads[n] > 0)

\* The cube is cut in R from fractions of years, the volatility looked up in
\* C++ at whole years counted from another day: the swap's years are not
\* fewer than the first tenor, so the smile of a shorter swap is never made
\* up, and the option's, short of the days to settlement, are at most a year
\* short of the first expiry.
LookedUpInTheCube ==
    phase = "done" /\ ask.settle \in 0..30 =>
        /\ vals["price"].swapYears >= tenors(cube)[1]
        /\ 12 * vals["price"].optionYears >= expiries(cube)[1] - 12
        /\ Len(tenors(cube)) >= 4 /\ Len(expiries(cube)) >= 4

\* A sensitivity is the difference of two values that differ in one input:
\* vega in the volatilities and nothing else, the others in the curve and
\* nothing else; and the cube the price comes from is the one quoted,
\* although R raises the quotes in place (sabr.R 54) before it prices.
SensitivityIsOneBump ==
    phase = "done" =>
        LET price == vals["price"]
        IN  /\ price.curve = "ts" /\ ~price.cube.raised
            /\ "vega" \in DOMAIN vals =>
                 vals["vega"] = [price EXCEPT !.cube.raised = TRUE]
            /\ "up" \in DOMAIN vals => vals["up"] = [price EXCEPT !.curve = "tsUp01"]
            /\ "down" \in DOMAIN vals =>
                 /\ "up" \in DOMAIN vals
                 /\ vals["down"] = [price EXCEPT !.curve = "tsDn01"]

\* A Bermudan can be exercised on every anniversary of its start, from the
\* start to the expiry, both included, and on no other day but the one an
\* anniversary is moved to that TARGET is closed on.  The anniversary on a
\* 29th of February may be taken for the 28th, by the year the swap ends in.
\* With the default expiry, its start, this is the only day it has: a start on
\* a holiday of TARGET that is none of the United States leaves it without
\* any, and without a price.
ExercisedOnAnniversaries ==
    phase = "done" /\ ~ask.european =>
        LET days == vals["price"].exercise
            years == 0..(YearsOfSwap - 1)
            Anniversary(n) ==
                LET d == YearsAfter(dates.start, n)
                IN  IF d \in LeapDays THEN {d - 1, d} ELSE {d}
        IN  /\ \A d \in days :
                 /\ dates.start <= d /\ d <= dates.expiry
                 /\ \E n \in years : \E a \in Anniversary(n) : d = Moved(TargetMoves, a)
            /\ \A n \in years :
                 /\ \A a \in Anniversary(n) : a <= dates.expiry /\ a \notin DOMAIN TargetMoves
                 => \E a \in Anniversary(n) : a \in days
            /\ dates.expiry = dates.start => dates.start \notin DOMAIN TargetMoves
=============================================================================
