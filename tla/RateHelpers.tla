------------------------------ MODULE RateHelpers ------------------------------
(***************************************************************************)
(* src/curves.cpp: the instruments a curve can be built from.  A quote is  *)
(* named by a ticker; ObservableDB knows what contract that is, and        *)
(* getRateHelper makes QuantLib's helper for it.  The calendar and the     *)
(* fixing days of RQLContext, the same for every helper of a curve, are in *)
(* RQLSession.                                                             *)
(***************************************************************************)
EXTENDS Conventions, FiniteSets

CONSTANTS ImmDates    \* the IMM dates of the main cycle, as day numbers

\* They are months apart.
ASSUME ImmAssumption ==
    /\ ImmDates \in SUBSET Nat /\ IsFiniteSet(ImmDates)
    /\ \A d, e \in ImmDates : d < e => e - d > 1

-----------------------------------------------------------------------------
(* ObservableDB.                                                           *)

Deposits ==
    [d1w |-> <<1, "Weeks">>, d1m |-> <<1, "Months">>, d2m |-> <<2, "Months">>,
     d3m |-> <<3, "Months">>, d6m |-> <<6, "Months">>, d9m |-> <<9, "Months">>,
     d1y |-> <<1, "Years">>]

\* Years.
Swaps ==
    [s2y |-> 2, s3y |-> 3, s4y |-> 4, s5y |-> 5, s6y |-> 6, s7y |-> 7,
     s8y |-> 8, s9y |-> 9, s10y |-> 10, s12y |-> 12, s15y |-> 15, s20y |-> 20,
     s25y |-> 25, s30y |-> 30, s40y |-> 40, s50y |-> 50, s60y |-> 60,
     s70y |-> 70, s80y |-> 80, s90y |-> 90, s100y |-> 100]

\* How many IMM dates ahead.
Futures ==
    [fut1 |-> 1, fut2 |-> 2, fut3 |-> 3, fut4 |-> 4, fut5 |-> 5, fut6 |-> 6,
     fut7 |-> 7, fut8 |-> 8]

\* Months to the start and to the end.
FRAs == [fra3x6 |-> <<3, 6>>, fra6x9 |-> <<6, 9>>, fra6x12 |-> <<6, 12>>]

InDatabase(ticker) ==
    \/ ticker \in DOMAIN Deposits \/ ticker \in DOMAIN Swaps
    \/ ticker \in DOMAIN Futures \/ ticker \in DOMAIN FRAs

-----------------------------------------------------------------------------
(* getRateHelper.                                                          *)

\* QuantLib::IMM::nextDate: strictly after the date given.
nextDate(d) == CHOOSE e \in ImmDates :
                   e > d /\ \A f \in ImmDates : f > d => e <= f

\* The loop over nextDate.
immDateOneLate(settle, n) ==
    LET imm[k \in 0..n] == IF k = 0 THEN nextDate(settle)
                                    ELSE nextDate(imm[k - 1] + 1)
    IN  imm[n]
immDate(settle, n) ==
    LET imm[k \in 1..n] == IF k = 1 THEN nextDate(settle)
                                    ELSE nextDate(imm[k - 1] + 1)
    IN  imm[n]

SwapHelper(ticker, fixFreq, dayCounter, floatMonths) ==
    [kind |-> "swap", years |-> Swaps[ticker], fixFreq |-> fixFreq,
     convention |-> "Unadjusted", dayCounter |-> dayCounter,
     floatMonths |-> floatMonths]

\* Everything but swaps, the same in both overloads.
PlainHelper(ticker, settle) ==
    CASE ticker \in DOMAIN Deposits ->
           [kind |-> "deposit", tenor |-> Deposits[ticker],
            convention |-> "ModifiedFollowing", dayCounter |-> "Actual360"]
      [] ticker \in DOMAIN Futures ->
           [kind |-> "future", start |-> immDate(settle, Futures[ticker]),
            months |-> 3, convention |-> "ModifiedFollowing",
            dayCounter |-> "Actual360"]
      [] ticker \in DOMAIN FRAs ->
           [kind |-> "fra", months |-> FRAs[ticker],
            convention |-> "ModifiedFollowing", dayCounter |-> "Actual360"]

\* The overload DiscountCurve uses, which takes the legs of swaps ...
getRateHelper(ticker, settle, legs) ==
    IF ticker \in DOMAIN Swaps
    THEN SwapHelper(ticker, legs.fixFreq, legs.dayCounter, legs.floatFreq)
    ELSE PlainHelper(ticker, settle)

\* ... and the one buildTermStructure uses, which fixes them.
getRateHelperFixedQuarterly(ticker, settle) ==
    IF ticker \in DOMAIN Swaps
    THEN SwapHelper(ticker, "Annual", "Thirty360.European", 3)
    ELSE PlainHelper(ticker, settle)
getRateHelperFixed(ticker, settle) ==
    IF ticker \in DOMAIN Swaps
    THEN SwapHelper(ticker, "Annual", "Thirty360.European", 6)
    ELSE PlainHelper(ticker, settle)

\* QuantLib makes no swap helper without a fixed period.
HelperMade(helper) == helper.kind = "swap" => IsPeriod(helper.fixFreq)

\* getTermStructure.
Interpolations == {"discount", "forward", "zero"} \X {"linear", "loglinear", "spline"}
=============================================================================
