----------------------------- MODULE SwaptionGrid -----------------------------
(***************************************************************************)
(* How AffineSwaption and BermudanSwaption choose the quotes a short-rate  *)
(* model is calibrated to.  The caller gives a matrix of volatilities with *)
(* one row per expiry and one column per swap tenor.  An R loop picks the  *)
(* quote nearest the swaption and then walks down towards its maturity;    *)
(* three vectors (expiry, tenor, vol) carry the picks.  AffineSwaption     *)
(* calibrates to the first Needed of them; BermudanSwaption throws them    *)
(* away and its engine takes the counter-diagonal of the matrix.           *)
(*                                                                         *)
(* A volatility is its cell <<row, column>>: the properties ask which      *)
(* quote is used, and of its size only whether it is zero, as in a cell    *)
(* the caller had no quote for.                                            *)
(*                                                                         *)
(* Times are in sixths of a year, which makes every increment whole and    *)
(* leaves room for expiries and tenors that are no whole years: R takes    *)
(* them, the engines' QuantLib::Period cuts them.                          *)
(***************************************************************************)
EXTENDS Integers, FiniteSets, Sequences

CONSTANTS
    Maturities,  \* years from the trade date to the end of the swap
    Starts,      \* years from the trade date to its start
    Grids,       \* increasing sequences of sixths: expiries, tenors
    Zeros,       \* sets of cells whose volatility is zero
    Needed       \* quotes a calibration takes: 5, and no more than there are
                 \* observations besides the first

ASSUME GridAssumption ==
    /\ Maturities \subseteq Nat \ {0} /\ Starts \subseteq Nat
    /\ Needed \in 1..6
    /\ \A g \in Grids :
         /\ g \in Seq(Nat \ {0}) /\ g # <<>>
         /\ \A m, n \in DOMAIN g : m < n => g[m] < g[n]

Funs == {"AffineSwaption", "BermudanSwaption"}

\* What callers pass: a swaption, and a matrix with its margins, or the same
\* matrix transposed.
Asks ==
    {a \in [mat : Maturities, start : Starts, expiries : Grids, tenors : Grids,
            zeros : Zeros, transposed : BOOLEAN] : a.start < a.mat}

VARIABLES
    fun,         \* the function called
    ask,         \* its arguments
    i,           \* the observation the loop is at
    expiry, tenor, vol,  \* the three vectors
    reply,       \* how far the call has come
    helpers      \* the calibration helpers the engine makes

vars == <<fun, ask, i, expiry, tenor, vol, reply, helpers>>
given == <<fun, ask>>
vectors == <<expiry, tenor, vol>>

-----------------------------------------------------------------------------
(* The observations.                                                       *)

Year == 6
matYears == Year * ask.mat
expYears == Year * ask.start

incrementLargest == IF matYears \div 6 > Year THEN matYears \div 6 ELSE Year
increment == IF matYears \div 6 < Year THEN matYears \div 6 ELSE Year

numObs == matYears \div increment + 1

\* R's findInterval: 0 below the grid, its length at and above its end.
findInterval(x, grid) == Cardinality({k \in DOMAIN grid : grid[k] <= x})

rows == IF ask.transposed THEN Len(ask.tenors) ELSE Len(ask.expiries)
cols == IF ask.transposed THEN Len(ask.expiries) ELSE Len(ask.tenors)
InMatrix(r, c) == r \in 1..rows /\ c \in 1..cols

\* No quote: the zero R puts into a vector, a missing value, or what lies
\* outside the matrix.
NoQuote == <<0, 0>>

-----------------------------------------------------------------------------
Init ==
    /\ fun \in Funs
    /\ ask \in Asks
    /\ i = 1
    /\ expiry = <<>> /\ tenor = <<>> /\ vol = <<>>
    /\ reply = "searching"
    /\ helpers = <<>>

Put(e, t, v) ==
    /\ expiry' = Append(expiry, e)
    /\ tenor' = Append(tenor, t)
    /\ vol' = Append(vol, v)

\* Reading outside the matrix, or assigning the empty result of index 0,
\* stops the R function.
Stop ==
    /\ reply' = "error"
    /\ UNCHANGED <<given, i, vectors, helpers>>

\* The first observation: the quote at or below the swaption's own expiry and
\* tenor, or zeros when the grid starts later.
ClosestRow == findInterval(expYears, ask.expiries)
ClosestColumn == findInterval(matYears - expYears, ask.tenors)
OnGrid == ClosestRow > 0 /\ ClosestColumn > 0

SelectClosestOrSkip ==
    /\ reply = "searching" /\ i = 1
    /\ \/ /\ OnGrid /\ InMatrix(ClosestRow, ClosestColumn)
          /\ Put(ask.expiries[ClosestRow], ask.tenors[ClosestColumn],
                 <<ClosestRow, ClosestColumn>>)
       \/ ~OnGrid /\ UNCHANGED vectors
    /\ i' = 2
    /\ UNCHANGED <<given, reply, helpers>>
SelectClosest ==
    /\ reply = "searching" /\ i = 1
    /\ \/ /\ OnGrid /\ InMatrix(ClosestRow, ClosestColumn)
          /\ Put(ask.expiries[ClosestRow], ask.tenors[ClosestColumn],
                 <<ClosestRow, ClosestColumn>>)
       \/ ~OnGrid /\ Put(0, 0, NoQuote)
    /\ i' = 2
    /\ UNCHANGED <<given, reply, helpers>>

ClosestFails ==
    /\ reply = "searching" /\ i = 1
    /\ OnGrid /\ ~InMatrix(ClosestRow, ClosestColumn)
    /\ Stop

\* The other observations: one increment further out in expiry and nearer in
\* tenor each time.  Below the first tenor the first column serves.
ExpiryRowPrevious(k) == findInterval((k - 1) * increment, ask.expiries)
ExpiryRow(k) == findInterval(k * increment, ask.expiries)

TenorColumnTooFar(k) ==
    LET c == findInterval(matYears - (k - 2) * increment, ask.tenors)
    IN  IF c > 0 THEN c ELSE c + 1
TenorColumn(k) ==
    LET c == findInterval(matYears - (k - 1) * increment, ask.tenors)
    IN  IF c > 0 /\ ExpiryRow(k) > 0 THEN c ELSE c + 1

SelectNext ==
    /\ reply = "searching" /\ i \in 2..numObs
    /\ InMatrix(ExpiryRow(i), TenorColumn(i))
    /\ Put(ask.expiries[ExpiryRow(i)], ask.tenors[TenorColumn(i)],
           <<ExpiryRow(i), TenorColumn(i)>>)
    /\ i' = i + 1
    /\ UNCHANGED <<given, reply, helpers>>

NextFails ==
    /\ reply = "searching" /\ i \in 2..numObs
    /\ ~InMatrix(ExpiryRow(i), TenorColumn(i))
    /\ Stop

\* R's v[keep]: the elements at the positions kept, in their order.
Nth(keep, n) == CHOOSE k \in keep : Cardinality({m \in keep : m <= k}) = n
At(v, keep) == [n \in 1..Cardinality(keep) |-> v[Nth(keep, n)]]

\* Zeros are dropped from each vector by itself: a zero volatility goes, the
\* expiry and the tenor found with it stay.  Fewer than Needed expiries end
\* the call with a warning and NULL; fewer volatilities are filled up with
\* missing values.
Positive(quote) == quote # NoQuote /\ quote \notin ask.zeros
NonZero(v) == At(v, {k \in DOMAIN v : v[k] # 0})
Quotes(v) == At(v, {k \in DOMAIN v : Positive(v[k])})
FirstFew(v) == SubSeq(v, 1, IF Len(v) < Needed THEN Len(v) ELSE Needed)
Filled(v) == [k \in 1..Needed |-> IF k <= Len(v) THEN v[k] ELSE NoQuote]

GatherKeepsZeroVols ==
    /\ reply = "searching" /\ i > numObs
    /\ reply' = IF Len(NonZero(expiry)) < Needed THEN "null" ELSE "chosen"
    /\ expiry' = FirstFew(NonZero(expiry))
    /\ tenor' = FirstFew(NonZero(tenor))
    /\ vol' = Filled(vol)
    /\ UNCHANGED <<given, i, helpers>>
GatherLast ==
    /\ reply = "searching" /\ i > numObs
    /\ LET last(v) == SubSeq(v, Len(v) - Needed + 1, Len(v))
       IN  /\ expiry' = last(NonZero(expiry))
           /\ tenor' = last(NonZero(tenor))
           /\ vol' = Filled(last(vol))
    /\ reply' = IF Len(NonZero(expiry)) < Needed THEN "null" ELSE "chosen"
    /\ UNCHANGED <<given, i, helpers>>
Gather ==
    /\ reply = "searching" /\ i > numObs
    /\ reply' = IF Len(NonZero(expiry)) < Needed THEN "null" ELSE "chosen"
    /\ expiry' = FirstFew(NonZero(expiry))
    /\ tenor' = FirstFew(NonZero(tenor))
    /\ vol' = Filled(Quotes(vol))
    /\ UNCHANGED <<given, i, helpers>>

\* QuantLib::Period(n, Years) takes an int: a fraction of a year is cut off.
Years(time) == time \div Year

\* What QuantLib can build a swaption from and fit a model to.  Of anything
\* else it may make an error or go on, depending on its numbers.
Usable(helper) == helper.expiry > 0 /\ helper.tenor > 0 /\ Positive(helper.quote)
Outcomes(hs) ==
    IF \A k \in DOMAIN hs : Usable(hs[k]) THEN {"calibrated"} ELSE {"calibrated", "error"}

\* affineWithRebuiltCurveEngine: one helper per chosen quote.
CalibrateToChosen ==
    /\ reply = "chosen" /\ fun = "AffineSwaption"
    /\ helpers' = [k \in 1..Len(vol) |-> [expiry |-> Years(expiry[k]),
                       tenor |-> Years(tenor[k]), quote |-> vol[k]]]
    /\ reply' \in Outcomes(helpers')
    /\ UNCHANGED <<given, i, vectors>>

\* BermudanSwaption compares the sizes of matrix and margins.
SizesAgree == rows * cols = Len(ask.expiries) * Len(ask.tenors)

\* The engines of bermudan.cpp: one helper per expiry, its tenor counted from
\* the end of the tenors.  Nothing keeps that count above zero, nor inside a
\* matrix of another shape: what is read there is either refused by QuantLib
\* or passes for a volatility.
Diagonal(k) == Len(ask.tenors) - k + 1
HelperAt(k) ==
    IF InMatrix(k, Diagonal(k)) /\ Diagonal(k) <= Len(ask.tenors)
    THEN [expiry |-> Years(ask.expiries[k]),
          tenor |-> Years(ask.tenors[Diagonal(k)]), quote |-> <<k, Diagonal(k)>>]
    ELSE [expiry |-> Years(ask.expiries[k]), tenor |-> 0, quote |-> NoQuote]

CalibrateToDiagonal ==
    /\ reply = "chosen" /\ fun = "BermudanSwaption"
    /\ SizesAgree
    /\ helpers' = [k \in 1..Len(ask.expiries) |-> HelperAt(k)]
    /\ reply' \in Outcomes(helpers')
    /\ UNCHANGED <<given, i, vectors>>

Next ==
    \/ SelectClosest \/ ClosestFails
    \/ SelectNext \/ NextFails
    \/ Gather
    \/ CalibrateToChosen \/ CalibrateToDiagonal

Spec == Init /\ [][Next]_vars

-----------------------------------------------------------------------------
(* Properties.                                                             *)

Replies == {"searching", "null", "chosen", "error", "calibrated"}
Cells == {NoQuote} \cup (Nat \X Nat)

\* While it searches the call keeps one entry per observation in each vector.
TypeOK ==
    /\ fun \in Funs /\ ask \in Asks
    /\ i \in 1..(numObs + 1)
    /\ expiry \in Seq(Nat) /\ tenor \in Seq(Nat) /\ vol \in Seq(Cells)
    /\ reply \in Replies
    /\ reply = "searching" =>
         Len(expiry) = i - 1 /\ Len(tenor) = i - 1 /\ Len(vol) = i - 1

Fits == rows = Len(ask.expiries) /\ cols = Len(ask.tenors)

\* The cell the n-th observation reads.  Only the first can be without one.
Row(n) == IF n = 1 THEN ClosestRow ELSE ExpiryRow(n)
Column(n) == IF n = 1 THEN ClosestColumn ELSE TenorColumn(n)
Skipped == IF OnGrid THEN 0 ELSE 1
ZeroAmong(n) ==
    \E m \in 1..n : m > Skipped /\ <<Row(m), Column(m)>> \in ask.zeros

\* A helper's quote stands in the row of its expiry and the column of its
\* tenor.
OwnQuote(helper) ==
    /\ helper.quote # NoQuote
    /\ helper.expiry = Years(ask.expiries[helper.quote[1]])
    /\ helper.tenor = Years(ask.tenors[helper.quote[2]])

\* Three vectors filtered one by one and cut to five still belong together as
\* far as no zero volatility was found on the way: up to there every quote is
\* that of the expiry and the tenor it is handed over with, and from the first
\* zero on nothing is said.  The counter-diagonal of BermudanSwaption has that
\* too, zeros or not, but only in a matrix of the right shape with at least as
\* many columns as rows.
QuotesOfTheirPair ==
    reply = "calibrated" /\ (fun = "BermudanSwaption" => Fits /\ rows <= cols) =>
        \A k \in DOMAIN helpers :
            \/ fun = "AffineSwaption" /\ ZeroAmong(k + Skipped)
            \/ OwnQuote(helpers[k])

\* The largest entry of a grid that is not beyond x.
AtOrBelow(grid, x) ==
    CHOOSE g \in {grid[k] : k \in DOMAIN grid} :
        /\ g <= x
        /\ \A k \in DOMAIN grid : grid[k] <= x => grid[k] <= g

\* Whatever is dropped and cut, AffineSwaption calibrates first to the expiry
\* and the tenor nearest below the swaption's own, if the grid starts early
\* enough to have them, and to the volatility quoted for the two unless that
\* is zero.
ClosestFirst ==
    reply = "calibrated" /\ fun = "AffineSwaption" /\ OnGrid =>
        /\ helpers[1].expiry = Years(AtOrBelow(ask.expiries, expYears))
        /\ helpers[1].tenor = Years(AtOrBelow(ask.tenors, matYears - expYears))
        /\ \/ <<ClosestRow, ClosestColumn>> \in ask.zeros
           \/ helpers[1].quote = <<ClosestRow, ClosestColumn>>

\* A swap AffineSwaption calibrates to ends at most one increment after the
\* swaption's own swap; it can be longer only where the grid has no shorter
\* tenor.
EndsNearMaturity ==
    reply = "calibrated" /\ fun = "AffineSwaption" =>
        \A k \in DOMAIN helpers :
            \/ Year * (helpers[k].expiry + helpers[k].tenor) <= matYears + increment
            \/ helpers[k].tenor = Years(ask.tenors[1])

\* There are always at least six observations after the first and none of
\* them loses its expiry, so the search never comes back with too few.
NeverTooFew == reply # "null"

\* In a matrix of the right shape the search fails only where the second
\* observation, two increments out, lies before the first expiry.  An
\* increment is a sixth of the swaption's life but never more than a year: so
\* it fails for the swaptions that end before three times the first expiry,
\* and for every swaption when the first expiry is more than two years out.
FailsOnlyWhenShort ==
    Fits /\ reply \in {"error", "chosen"} /\ helpers = <<>> =>
        (reply = "error" <=> matYears < 3 * ask.expiries[1]
                             \/ 2 * Year < ask.expiries[1])

(* Properties the documentation states and the code does not have.         *)

\* man/BermudanSwaption.Rd: one of the calibration points is the closest
\* match in expiration and maturity.
ClosestIsCalibrated ==
    reply = "calibrated" /\ fun = "BermudanSwaption" /\ Fits /\ rows <= cols /\ OnGrid =>
        \E k \in DOMAIN helpers :
            helpers[k].quote = <<ClosestRow, ClosestColumn>>

\* affine.R, "remove if search was out of bounds": of what the search found
\* within the matrix nothing is removed, so no expiry and tenor is handed over
\* with the volatility of another.
OnlyOutOfBoundsRemoved ==
    reply = "calibrated" /\ fun = "AffineSwaption" =>
        \A k \in DOMAIN helpers :
            helpers[k].quote = NoQuote \/ OwnQuote(helpers[k])
=============================================================================
