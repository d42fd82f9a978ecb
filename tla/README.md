# A TLA+ model of RQuantLib

RQuantLib is the R front end to the QuantLib C++ library.  An R function checks
and completes its arguments, calls one C++ *engine*, and the engine builds
QuantLib objects, prices, and returns a list.  Each call looks self-contained.
It is not: QuantLib keeps one process-wide **evaluation date**, RQuantLib adds
the process-wide `RQLContext` (settlement date, calendar, fixing days), and
QuantLib calendars share their holidays between all objects of a market.  What
an engine computes can therefore depend on which calls came before it, on
whether they returned or threw, and on the day it is.  Inside a call, what the
caller wrote crosses two languages: words become numbers in R and enumerators
in C++, tables are cut, flattened and read back.  These are the parts of the
program tests hardly reach, and what this project models.

## Inventory

| Part | State | Operations | Talks to | What makes it correct |
|---|---|---|---|---|
| Settings and engines (`src/src/*.cpp`, `rquantlib_internal.h`) | QuantLib's evaluation date; `RQLContext` | `setEvaluationDate`, `setCalendarContext`, 41 exported entry points | R calls one at a time; all share the four settings; `todaysDate()` moves underneath | results come from the dates the caller gave; what a call leaves behind is one of a few known outcomes |
| Calendars and holidays (`calendars.cpp`) | per market: added and removed holidays; the calendar in `RQLContext` | `addHolidays`, `removeHolidays`, `setCalendarContext`, the queries | QuantLib shares an implementation between the objects of a market | one book of business days per market, under all its names |
| Curve table (`discount.cpp` 105-117, `rebuildCurveFromZeroRates`) | the rows of one table | the loop; rebuilding a curve from it in a later call; pricing on it | R carries the table from one engine to the next | the rows are the expected dates, the loop ends, the rebuilt curve loses little |
| Rate helpers (`curves.cpp`) | the ticker database, constant after construction; the helpers of one curve | `getRateHelper` (two overloads), `getTermStructure` | reads `RQLContext`; `DiscountCurve` and `buildTermStructure` call it | one helper for each quote; the two overloads agree; futures start on IMM dates |
| Convention codes (`R/bond.R` `match*`, `utils.cpp` `get*`) | none | two tables that must agree | R sends numbers, C++ decodes them | a name means the same convention on both sides |
| R front end (`R/bond.R`, `schedule.R`, `discount.R`, `affine.R`) | the argument lists of one call | defaults, signatures, `matchParams`, dispatch | one engine call each | an instrument has the terms its caller wrote, or the documented ones |
| Swaption quotes (`R/affine.R`, `R/bermudan.R`) | the quotes chosen so far | choosing five quotes from a matrix | feeds the calibration engines | chosen triples stay aligned and in bounds |
| SABR cube (`R/sabr.R`, `sabr.cpp`) | the cubes and the values so far | cutting a quote table, flattening a cube, up to four calls of `sabrengine` | row order shared by R and C++ | every volatility is at its expiry, tenor and strike; a sensitivity is one bump |
| Date conversion (`rquantlib_impl.h`, `utils.cpp` 657-693) | none | R date to QuantLib date and back; years to a date | every engine | round trip; order is kept |
| Generated glue (`RcppExports.*`) | none | marshalling, exceptions to R errors | one engine call each | nothing written is undone |

There is one thread.  The hard behaviours are *orders of calls* (each legal by
itself), *exceptions half-way through* a call that has already written, the
*clock* moving under a date that floats, *values read from a global* that
somebody else wrote last, and *two tables in two languages* that nothing keeps in
step.  `PROJECT.json` lists the hazards line by line.

## Modules

| Module | What it is |
|---|---|
| `RQLSession` | the settings, and every exported engine that touches them, as a list of steps |
| `SessionContract` | what a caller may rely on between calls: whole outcomes only |
| `SessionRefinement` | `RQLSession` implements `SessionContract` |
| `MCRQLSession` | constants for TLC: three days, two calendars, sets of engines |
| `RQLSessionProofs`, `SessionDatesProofs`, `SessionContractProofs` | theorems about `RQLSession`, the refinement among them |
| `Calendars` | lookup, shared implementations, their added and removed sets, the context |
| `HolidayBook` | the abstract calendar: one book of business days per market |
| `MCCalendars`, `CalendarsProofs` | constants for TLC; theorems, the refinement among them, and those about `Dates` |
| `CurveTable`, `CurveTableProofs` | the zero-rate table, the curve rebuilt from it, and pricing on that; theorems |
| `SwaptionGrid`, `MCSwaptionGrid` | the search for calibration quotes in a volatility matrix, and what the two engines calibrate to; the grids |
| `SwaptionGridProofs` | theorems about every property of the search |
| `Conventions` | words, numbers and enumerators: the tables of `R/bond.R` and the decoders of `utils.cpp` |
| `RateHelpers` | the ticker database and the helper each quote becomes (extends `Conventions`) |
| `FrontEnd` | one call from its R lists to the curve or bond that is built (extends `RateHelpers`) |
| `MCFrontEnd`, `FrontEndProofs` | the calls TLC makes; theorems |
| `SabrCube`, `MCSabrCube`, `SabrCubeProofs` | one call of `SabrSwaption`; constants for TLC; theorems |
| `Dates` | the conversion of dates, as functions; its theorems are in `CalendarsProofs` |

### RQLSession and the code

A C++ call runs until it returns or throws; nobody interrupts it except the
clock.  So the state has one call (`call`), and each engine is the sequence of
its *steps on the settings*, in source order: `discountCurveEngine` is check,
settle, save, evaluate, check, context, build, price, restore, table.  Helpers
that several engines call (`getFlatCurve`, `buildTermStructure`,
`getFixedRateBond`, ...) are sequences too, and the callers concatenate them.
One action per kind of step says what the step does to the settings.

* `evalDate = None` is QuantLib's default: reading the date through its proxy
  then gives the current day (`EvaluationDate`).  `SaveEvaluationDate` reads
  through the proxy, hence stores a day, hence `RestoreEvaluationDate` pins it.
* Steps that read arguments, look up names, build helpers or compute may take
  `Throw`.  `Throw` undoes nothing: `END_RCPP` turns the exception into an R
  error and the settings stay as they are.
* `getCalendar` throws exactly on names outside `Calendars`.  Some engines skip
  the lookup of an empty name; an empty name then behaves as a known one.
* Curves are lazy: they are bootstrapped at the first `price`, under the
  evaluation date of that moment.  `call.at` records it; `call.tab` records the
  date under which `discountCurveEngine` makes its table.
* `call.imm[k]` is the settlement date that the futures of curve `k` found in
  the context (`curves.cpp` 85, 115).
* The branch of `setCalendarContext` for a date with serial number 0 is never
  taken: the conversion from R refuses such a date.
* `FloatBond1`-`FloatBond4` are exported from C++ although the current R
  front end always goes through `floatingWithRebuiltCurveEngine`.

Prices, quotes and rates are left out: the properties are about *which dates
and calendars* a number comes from.

### Calendars and the code

An implementation is a market (or a bespoke calendar, made afresh by each
lookup).  `CloseDays` and `ReopenDays` are QuantLib's `addHoliday` and
`removeHoliday`, which keep two sets of exceptions to the rules and touch a set
only when the rules alone say otherwise.  `asked` is a ghost: what callers have
closed and not reopened under each name.

### CurveTable and the code

Days are numbers; `business` is any subset of them.  `AddRow` is one turn of
the loop at `discount.cpp` 109-114; `advanceDate` counts `Stride` (21 in the
code) business days on; running past the last representable date is QuantLib's
exception (`AdvanceThrows`).  `rebuildCurveFromZeroRates` and `PriceOnTable` are
the later call that gets the table back from R.  The rebuilt curve does not
extrapolate.

### SwaptionGrid and the code

One call of `AffineSwaption` or `BermudanSwaption`, from the search in R to the
calibration helpers in C++.  `SelectClosest` is the first observation,
`SelectNext` a turn of the loop `for(i in 2:numObs)`, `Gather` the filter and the
cut to five (`NonZero` and `Quotes` keep the places that pass, in their order: `Nth` is
the n-th of them), `CalibrateToChosen` and `CalibrateToDiagonal` the helpers the engines
make.  The R text of the search is the same in both functions.  Times are counted
in sixths of a year, so that `min(matYears/6, 1)` is whole for whole years; for
those the double arithmetic of R agrees with the exact one.  Swaptions have whole
years; expiries and tenors of the matrix may have fractions, which
`QuantLib::Period(n, Years)` cuts off when it takes an `int` (`Years`;
`AffineSwaption.Rd` 76-78 calls a six-month expiry unsupported, but nothing refuses it).

A volatility is its cell in the matrix, and `ask.zeros` are the cells that hold a
zero.  Line 95 of `affine.R` filters each vector by its own values: where a search
outside the grid put three zeros, all three go; where the matrix holds a zero, only the
volatility goes, and those after it move up against their expiries and tenors (`Quotes`).
`vol[1:5]` of a vector that has become too short ends in missing values (`Filled`).
A helper of no years, or with no volatility above zero, is not `Usable`: QuantLib may refuse it or go on,
so the call then ends either way (`Outcomes`).  R stops at a subscript outside the matrix and at the
assignment of the empty vector that index 0 gives (`Stop`); C++ does not stop
for a column below zero, so what is read there is a choice (`HelperAt`,
`CalibrateToDiagonal`).

### Conventions, RateHelpers, FrontEnd and the code

An argument is `Word(w)` or `Code(n)`.  Each table of `R/bond.R` 516-624 is a
function from words to numbers, each decoder of `utils.cpp` 329-604 a function
from numbers to enumerators; a decoder's `default` (or the `else` at its end) is
its value on every other number, `Stopped` where it calls `Rcpp::stop`.  `match.arg`
takes a word of the table, or the beginning of exactly one of them (`matchArg`):
"Semi" is `Semiannual`, "Actual365" is `Actual365NoLeap`, and "S" is `Semiannual` as a frequency but
refused as a compounding, where it begins two words.  `FrequenciesApart` is the one
fact about the strings themselves that the proofs use, that no frequency's name begins
another's; TLC evaluates it.

`FrontEnd` follows one call: `FillDefaults` is the run of `if(is.null(...))` at the
head of the R function and the lists of its signature, `matchParams` the loop over
`names(params)`, `WordRefused` the `match.arg` or table lookup that stops.  A curve
then gets its helpers one at a time (`PushHelper` is a turn of the loops at
`discount.cpp` 68-89 and `utils.cpp` 138-148) and is interpolated
(`getTermStructure`); a bond is built from what its engine reads (`BuildBond`):
`Reads` names the list elements, `Decoded` and `OwnSchedule` what becomes of them,
`Accepted` what QuantLib refuses.  An error anywhere leaves no result (`Fails`).
Elements are addressed as `<<list, name>>` because `FixedRateBond` has three lists
with the same names in them.  IMM dates are any set of days; `immDate` is the loop
over `IMM::nextDate`.

### SabrCube and the code

One call of `SabrSwaption`.  `SetDates` fills in the missing dates with the calendar
of the United States, `CutCube` is `volDF2CubeK` and `CutCubeUp` the second call of it
that vega needs; `sabrengine` is one valuation, and `NextScenario` the order R asks
for them in.  A volatility is the cell of the quote table it stands in, so "the
right number in the right place" is an equation between cells.  `Quote` is `None`
where the table has a hole.  R's `dayDiff/365` is compared without rounding by
multiplying out, except in the one place where a double can fall below the
whole number it should be: `ask.roundsDown` chooses.  Exercise dates follow
`sabr.cpp` 234-270, with TARGET's calendar: they are where the years of the swap begin
(`AccrualStart`), and QuantLib makes a swap's schedule backward from its end.  That matters for a
swap that starts on a 29th of February: unless it ends on one too, all its later years
begin on a 28th, in leap years as well.  The table has a row for every expiry, tenor and
spread, with or without a quote; a table without the row itself stops R as well (`sabr.R` 126, 144, 156),
and is not among the inputs.

### Dates and the code

`as` and `wrap` are the two conversions of `rquantlib_impl.h`, with the cast to `int`
(towards zero) before the offset is added; `getFutureDate` is `utils.cpp` 657-671 in
minutes, a year having 360 days.  There is no state and so no run; its theorems, in
`CalendarsProofs`, are about every value.

## Checks

| Run | Question | Size |
|---|---|---|
| `session_engines` | all operations but those that build two curves, interleaved in any order, with exceptions and midnights | 3 days, two given dates, 2 calendars, 1 unknown name, lags 1 and 2; of the known calendars only one that is stored varies; 151,000 states, about a minute |
| `session_two_curves` | engines that build two curves share one evaluation date and one settlement date | the same bounds; 80,000 states |
| `session_reset_at_end` | violation: the evaluation date is not reset when a curve throws | |
| `session_set_date` | violation: two engines ignore the date that was set | |
| `calendars` | holidays under all names; refinement of `HolidayBook` | 2 markets, 3 days, 5 names |
| `curve_table` | rows, end of the loop, coverage of the rebuilt curve | 10 days, every calendar, every settlement and end |
| `swaption_grid` | which quotes are chosen, that they stay with their expiry and tenor, when the search fails | 7 maturities, 4 starts, 6 grids each way, matrix straight or transposed, no, one or several zero volatilities; 95,939 states |
| `swaption_closest` | violation: the closest quote is not calibrated to | 3 maturities, 5 grids of whole years |
| `swaption_zeros` | violation: a zero volatility is removed without its expiry and tenor | the same |
| `front_end` | what a call is built from, for every word, seventeen beginnings of words and fifteen numbers of every list element, and for lists of up to three quotes | 29,743 states |
| `floating_index` | violation: the index a caller names is not the one used | the same |
| `sabr_cube` | where the cube is cut, what crosses to C++, what each sensitivity compares | 24,668 states |

The properties in words.  The session:

* `PricedUnderOwnDate`: an engine that is given a date prices under it (the
  last one, when it is given two), and a zero-coupon engine under the date that
  the context *at its entry* puts before settlement; never under a date left
  over by another call.
* `FuturesFromOwnSettle`: although `getRateHelper` reads a global, each curve of
  each call finds its own settlement date there.
* `DiscountCurveRestores`: what a returned `DiscountCurve` leaves of the four
  settings, and under which date each half of its result was computed.
* `OptionsOnOneDate`: an option engine uses one date throughout, except when
  the date floats and midnight falls inside the call.
* `PinnedForGood`, `CalendarAfterDays`: action properties about floating dates
  and about the half-done `setCalendarContext`.  `PinnedForGood` only says that a
  fixed date stays fixed; that it stays the caller's is `SetDateIsUsed`, which two
  engines break.
* `ImplementsContract`: atomicity as a caller sees it, for all engines (the
  two session runs check it for their share).  A call that returns leaves
  exactly what its engine and arguments say; a call that throws leaves what it
  found, the whole outcome, or a part the contract names.  Three parts exist: a
  curve's trade date (`DiscountCurve`), the dates of the first of two curves
  (`FloatBond1`-`4`), and new days under the old calendar (`ContextHalfSet`).

Calendars, table, quotes:

* `OnlyExceptions`, `HeardUnderEveryName`, `ImplementsBook`: the shared
  implementation with its two sets behaves as one book.
* `TableIsExpected`, `HorizonIsFarEnough`, `TurnedDownOnlyNearTheEnd`,
  `LoopEnds`: the table has the rows a reader expects and no other, the
  horizon keeps it inside QuantLib's calendar, little is lost by rebuilding, and
  the loop ends.
* `QuotesOfTheirPair`, `ClosestFirst`, `EndsNearMaturity`: the quotes
  `AffineSwaption` calibrates to are whole triples as far as the search has found no
  volatility of zero, and from the first zero on the property promises nothing, because
  the code shifts the quotes (`OnlyOutOfBoundsRemoved` is violated).  The nearest
  expiry and tenor come first, with their volatility unless that is zero, and the swaps
  end near the swaption's.  What `BermudanSwaption` calibrates to has
  quotes of its own pairs too, zeros or not, under two conditions the code does not check: the
  matrix is not transposed (its check of "compatible dimensions", `bermudan.R` 109,
  compares products) and has no more rows than columns
  (`bermudan.cpp` 173 counts columns back from the last).
* `FailsOnlyWhenShort` says exactly when the search stops in an error: where two
  increments fall short of the first expiry.  An increment is a sixth of the
  swaption's life and at most a year, so this meets swaptions that end before three
  times the first expiry, and every swaption when the first expiry is beyond two
  years.  `NeverTooFew` says that its other way of giving up, the
  warning and `NULL`, is never taken; the same quote found several times counts
  several times, whereas `BermudanSwaption.Rd` 68 asks for five unique points.

Terms and curves:

* `TermsAsAsked`: across both tables and whichever list and function it is in
  (`Offered` is what R would fill in and what the engine reads, so `FittedBondCurve`,
  `AffineSwaption` and the bare arguments of `ZeroYield` and `FixedRateBondYield` are
  included), a word or the beginning of one ends as the enumerator it means, a number as
  what `man/Enum.Rd` says of it, and a missing element as what the manual names: a
  word, or a number for the bare arguments, or QuantLib's own default for the two
  conventions `FixedRateBond.Rd` leaves to it.  The manual's codes (`EnumRd`,
  `ManualWords`, `ManualNumbers`) are written down apart from the code's tables.  Two
  exceptions, both in the property: `CallableBond` never reads its
  `terminationDateConvention`, and a `FixedRateBond` without `calc` takes the duration
  type of its signature.  Two pages disagree with `Enum.Rd`, those of `ZeroYield` and
  `FixedRateBondYield`; the property holds against `Enum.Rd` and would fail against them
  (see the disagreements below).
* `LegsShareTheirWord`: the fixed leg's frequency is coded in payments a year, the
  floating leg's in months; the same word on both still makes both pay equally often.
  The days may differ: the legs have business-day conventions of their own (`affine.cpp` 102-103).
* `SameCurveEitherWay`: the copy of `getRateHelper` that takes no legs makes what
  `DiscountCurve` makes with its default legs, but for the kind of 30/360.
* `OneHelperPerQuote`: no quote goes missing or is doubled; a first quote "flat"
  makes the others irrelevant.
* `FuturesOnImmDates`: `fut n` starts on the n-th IMM date strictly after
  settlement, counted independently of the loop.

The cube:

* `CubeHoldsQuotes`: three vectors and two matrices that R cuts separately still
  belong together when C++ reads row `(i - 1) * tenors + j`.
* `NothingInvented`: a table whose quotes only run out towards short expiries,
  short tenors and low strikes is cut without holes for the spline to fill.
* `CutFailsExactlyWhen`: an option before the table's first expiry stops in an
  error, and so does one with nothing quoted up to the money at the corner; no
  other does, in a table that has all its rows.
* `LookedUpInTheCube`: R cuts the cube from fractions of years and C++ looks up
  whole years from another day; the swap's years still lie in the cube, the
  option's at most a year short of it.
* `SensitivityIsOneBump`: every sensitivity compares two valuations that differ in
  one input, and raising the quotes in place does not reach the price.
* `ExercisedOnAnniversaries`: a Bermudan's dates are the anniversaries of its start up
  to its expiry and no other day; an anniversary TARGET is closed on is moved, one on a
  29th of February may be taken for the 28th, and a start that TARGET is closed on has no
  price when it is the only date.

**Bounds.**  Three days are enough to tell apart the date a caller gives, the
date found and the current day; two calendars with different holidays and two
lags tell apart "the context's" from "somebody's".  Callers give day 0 or day 2:
going back from day 2 ends on three different days, or none, for the four pairs
of calendar and lag.  The state of a session between calls is four small values,
so every pair of consecutive calls over those values occurs, and no property
relates more than a call to its entry.  `MaxDay` also bounds the clock.  In
`CurveTable` the stride is 2 instead of 21 and the last date 9: tables of zero
to several rows, curves ending before, at and after the horizon, and calendars
without enough business days all occur.  In `SwaptionGrid` the maturities lie on
both sides of the six years where the increment stops growing, ten among them for
the first expiry of three years that is too far out for every swaption; the grids
begin late, end early, have gaps, have half years or are longer in one direction; zeros are at
the corner, inside, or fill a block, so that a search finds none, one, or too many; `Needed` is the
five of the code.  In `FrontEnd` list elements do not interact, but for the two
conventions of a schedule and the pairs that make a rate or a pair of legs: these
occur together, everything else one at a time, each with every word, words cut short that are the beginning
of none, one or several, one unknown word, and numbers on both sides of the decoders' ranges and
of the gaps between frequencies.  Two quotes of every
kind and one list of three show the order of helpers; settlement falls before, on and
after an IMM date.  In `SabrCube` the grid is larger than the four by four the cut
always keeps, so that it is cut at its start, inside, and at that limit; quotes
are complete, staircase-shaped, or holed.

**Fairness.**  Only `CurveTable` claims liveness: `WF` of the loop, because a
C++ loop that can take a turn takes it.  What R does with the table is not
fair.  No fairness is assumed of sessions: R may never call again.  Deadlock is
checked except in `CurveTable`, `SwaptionGrid`, `FrontEnd` and `SabrCube`, where a
finished table or an answered call is the end.

## Proofs

Every invariant and every action property of the passing runs is also a theorem.
All theorems hold for every value of the constants that satisfies the named
assumptions, which TLC evaluates on every run:

* any number of days, set of calendars, retreat function and set of engines in use
  (`SessionAssumption`, `OpsAssumption`); any markets, names and days; any stride and
  horizon (`TableAssumption`);
* swaption grids of any length with ascending times, whole years or not, any zeros, any
  maturities and starts (`SwaptionGrid!GridAssumption`), and any number of quotes from one to six: the code
  asks for five, and six is what the search is certain to find after its first
  observation, so that five is not the edge;
* tables of SABR quotes of any size from four by four on, ascending, and with any
  holes (`GridAssumption`, `NoneAssumption`); swaps that begin at one year, as the
  constant vector in `sabr.R` does; any dates (`AsksAssumption`), 29ths of February
  four years or more apart, and holidays of TARGET that are moved to days that
  are none (`CalendarAssumption`);
* any calls (`CallsAssumption`, with `FrequenciesApart` about the words), and IMM dates that are not on consecutive days
  (`ImmAssumption`), eight of them after every settlement date: QuantLib's calendar ends
  in 2199 and there are four a year.

* `RQLSessionProofs`: `TypeCorrect`, `CurveRestores`, `CalendarFollowsDays` and
  `StaysPinned` rest on one inductive invariant, `IInv`: types; `ContextInv`, what
  `setCalendarContext` has stored by each of its steps; and `CurveInv`, what
  `discountCurveEngine` holds at each of its steps: the entry values are untouched
  until written, the saved date is the one found, the results came from the trade
  date.  Types alone are not inductive for the results: at the return the
  invariant must remember what happened several steps before.  The lemmas on the
  table of engines (`CommonCode`, `RareAt`) show that no *other* engine takes a
  save, restore or table step, or touches calendar and fixing days.
* `SessionDatesProofs`: `OwnDate`, `OwnSettlement` and `OneDate`.  The argument is
  about the last write.  `LastIs(c, i, W, w)` says that the last of the steps `W`
  before step `i` of the code `c` is `w`; lemmas say how that carries over when
  sequences are joined, and `AllSettled` and `AllDated` go through the table of
  engines: helpers of a curve are always built after that curve's own settlement
  date, and a price always asked for after the caller's own date, was the last to
  be stored.  The invariant `LastWritten` then says that a setting *holds* what its
  last write stored; it is inductive for all engines at once, whatever they find
  when they begin.  `FixingInv` and `OptionInv` follow the zero-coupon and option
  engines, whose date comes from the context or the clock instead.
* `SessionContractProofs`: `KeepsContract`, that `RQLSession` implements
  `SessionContract`.  The table of engines is gone through once more, now for what a
  call has written when it *ends*: `Fate(c, thrown, end)` says that code `c` stands at
  one of the pairs `thrown` of last writes wherever it may throw, and at `end` when it
  is through; `OneAfterTheOther` composes the fates of two pieces of code, and
  `AllFates` gives every engine's.  `LastWritten` turns the last writes into values;
  `EntryInv` adds that what has not been written is still what the call found, which
  is also what the contract shows while the call runs.  So a step of the call is a
  stutter of the contract, and its end one of `Returns`, `Throws`, `ContextSet`,
  `ContextRefused` and `ContextHalfSet`.  `discountCurveEngine` and
  `setCalendarContext`, which put values back or store the rest of the context, are
  followed step by step (`CurveInv`, `ContextInv`, `ContextKept`).
* `CurveTableProofs`: the invariant says that the loop's date is always a whole
  number of strides from settlement and that the rows are exactly the dates it has
  passed (`RowsInv`), and where the table ends (`EndInv`).  It rests on lemmas that
  count business days in adjacent stretches, and on one (`EnoughLeft`) that finds
  the date to advance to as the least day with enough business days behind it.
  `LoopMovesOn` is what the liveness property `LoopEnds` rests on: every turn that does
  not end the loop moves its date towards a bound.
* `CalendarsProofs`: `TypeCorrect`, `Exceptions`, `Heard`, `Implements`: the two sets
  stay inside and outside the rules; from that follows that a closed day is closed under
  every name and that every step of `Calendars` is a step of `HolidayBook`, or leaves it
  unchanged.
* `SwaptionGridProofs`: three vectors are built by the loop, filtered one by one and
  cut, and the properties are about what is left.  `Observed(k, n)` says that place `k` of
  the vectors holds what observation `n` of the loop put there.  While the loop runs
  (`Searching`) place `n` holds observation `n`; a swaption outside the grid has zeros in
  its first place and nowhere else (`Skipped` is 1 then), so afterwards (`Chosen`) place `k`
  holds observation `k + Skipped`, and the calibrated helpers (`Calibrated`) are made of
  just these.  The invariant must also remember that a search past its second observation
  is not of a short swaption (`Short`), because that is what keeps every later row inside
  the matrix.  Lemmas on `findInterval` (it grows with its argument, and stays inside the
  grid) and on the filter (dropping the first place of a vector, or none, shifts the
  others) carry the rest.  Of the volatilities the invariant only follows the places before
  the first zero: there the filter has shifted all three vectors alike.  `NearestFirst` compares the position `findInterval` counts with
  the largest entry not beyond the swaption's own.
* `SabrCubeProofs`: the invariant `Inv` is that the dates are known once the call is past
  its first step (`Typed`), that both cubes are cut at the same corner inside the grid and
  that a cut fails only where it cannot be made (`AsCut`), and that every value is the one
  its scenario asks for (`AsPriced`).  The rest is arithmetic: `Corner` (the cut stays
  inside the table), `RowOf` (division and remainder undo the flattening), `Cell` and
  `ReadsQuotes`, `AllQuoted` for tables with staircase-shaped holes, `CutAt` and
  `NotCuttable` (where the first expiry and the first quoted strike are), and
  `SomeYearsOn` (anniversaries exist and are in order, leap days or not); the 29th of
  February is a case of its own in each lemma on dates.
  `LookedUp` multiplies out R's fractions and C++'s quotients to compare them.
* `FrontEndProofs`: two invariants.  `HelpersFollowQuotes`: the helpers made so far are those
  of the quotes read so far, and these are known tickers; from it follow `QuotesAllThere`,
  `OneCurveTwoWays` (the two overloads, ticker by ticker) and `FuturesOnImm`, whose lemma
  `NthImmDate` shows that the loop over `nextDate` passes one IMM date a turn.
  `ArgumentsFollow`: what an engine reads is what was given and what R takes for the rest
  (`Asked`), each word replaced by its number, and a bond is built from just that.
  `Terms` then needs that the tables of two languages agree (`WordsArrive`, entry by
  entry), that the decoders agree with `man/Enum.Rd` on every number (`NumbersArrive`),
  that `match.arg` finds the one word an argument begins (`MatchedIs`), that whatever R fills in is the manual's word (`MissingIsManual`,
  `OmittedIsManual`) and that the engine reads it (`MissingIsRead`); `LegsShare` that the
  six words of both frequency tables mean the same months, cut short as well: both tables
  find the same word for the same argument, because no frequency begins another (`SameWord`).
* `Dates`, in `CalendarsProofs`: `RoundTrip`, `TimeOfDay`, `MaturityIsNear`,
  `EarlierStaysEarlier`.

Model-checked only: `LoopEnds`, which is liveness and beyond the prover, and the five
properties that are violated.

## Disagreements found

Each of the first five is a run that ends in the violation:

* `session_reset_at_end`: the ChangeLog of 2011-09-09 says `DiscountCurve` resets
  the evaluation date "at end"; a call that throws does not.
* `session_set_date`: the manual says `setEvaluationDate` sets the date "used by
  the QuantLib pricing engines"; `AsianOption` and `EuropeanOptionArrays`
  overwrite it with today.
* `swaption_closest`: the manual says that one calibration point is the closest
  match; `BermudanSwaption` drops what its search found.
* `swaption_zeros`: a comment in the code says that the filter removes what was found "out of
  bounds"; it also removes a zero volatility found inside, without its expiry and tenor.
* `floating_index`: the manual's only unit for an index, 'Month', is not one
  `FloatingBond` knows: whatever length it is given, the bond is built on six months.

Others need no run, because one look at two lines shows them:

* `BermudanSwaption.Rd` 62 promises a warning and `NULL` where a short swaption stops
  in an error (`FailsOnlyWhenShort` and `NeverTooFew` say when).
* `Calendars.Rd` 82-83 promises holidays for every calendar; those added to `Bespoke` do not outlive
  the call, because every lookup makes a new one (`calendars.cpp` 72).
* What a comment at `bermudan.R` 108 calls a check for "compatible dimensions" compares
  products: a transposed matrix passes.
* The pages of `ZeroYield` (`ZeroCouponBond.Rd` 81) and `FixedRateBondYield` (`FixedRateBond.Rd` 138)
  count frequencies from zero, `getFrequency` and `Enum.Rd` count payments a year: the pages' 3,
  `Semiannual`, is `EveryFourthMonth`.
* `FittedBondCurve.Rd` 27-39 calls `dateparams` and its elements optional and names their defaults;
  none is filled in, and the engine throws.
* `ZeroCouponBond.Rd` 80 says that every day counter but the first six is `Thirty360`, and 83 that
  every convention but the first four is `Unadjusted`; `Enum.Rd` and the code give some of these
  numbers other meanings (7 is `Actual365NoLeap`, 6 `Nearest`), and `getDayCounter` stops at 20 and above.
  `Enum.Rd` lists names, such as `Thirty360.European`, that `matchDayCounter` refuses.
* `CallableBond.Rd` 57-58 describes `terminationDateConvention`, which is never read.  The signature of
  `FixedRateBond` has the duration type 'Modified', its manual and the code that fills a
  given list 'Simple'.
* `sabr.R`: DV01 and convexity are only computed together with vega; a European swaption
  is exercised at the start date while its swap starts at the expiry date.
* `hullwhite.cpp` 122-125 reads its first column twice and its third never.
* `getFutureDate` says that exactly one of maturity and date is wanted; a date silently
  wins.  A date with a time of day before 1970 becomes the next day (`TimeOfDay`).

## Plan

Done, in this order: `RQLSession` first, because everything else hangs on the
settings; its contract; calendars; table; quote search; then conventions, helpers and
the front end; the cube; dates; and the proofs above.  What is left:

1. The default dates of `AffineSwaption` and `BermudanSwaption`, and the option
   functions of R.

## Not modelled

Numbers: bootstrapping, interpolation, calibration, volatilities; hence nothing about
negative zero rates under log-linear interpolation (`utils.cpp` 246) or about the
meaning of the columns of `hullwhite.cpp` 124, which nothing documents.  The option
functions of R, which pass numbers through.  Printing, plotting, the Shiny
applications, the inline plugin and the build files.
