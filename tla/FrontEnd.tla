------------------------------- MODULE FrontEnd -------------------------------
(***************************************************************************)
(* How the terms of a call reach QuantLib.  An R function receives lists   *)
(* of named elements, fills in what is missing, lets matchParams turn      *)
(* words into numbers, and calls an engine; the engine decodes the numbers *)
(* it reads, builds a curve or a bond from them, or throws.  A call that   *)
(* fails returns nothing.  What engines do to the evaluation date and the  *)
(* context is in RQLSession.                                               *)
(*                                                                         *)
(* An element is addressed by <<list, name>>; dates, amounts and names of  *)
(* calendars are left out.                                                 *)
(***************************************************************************)
EXTENDS RateHelpers

CONSTANTS Calls    \* what callers ask for


CurveFuns == {"DiscountCurve", "buildTermStructure"}
LegFuns == {"DiscountCurve", "AffineSwaption"}
NumberFuns == {"ZeroYield", "FixedRateBondYield"}
IndexFuns == {"FloatingRateBond", "ConvertibleFloatingCouponBond"}
BondFuns ==
    IndexFuns \cup NumberFuns \cup
    {"FixedRateBond", "Schedule", "CallableBond", "ConvertibleZeroCouponBond",
     "ConvertibleFixedCouponBond", "ZeroCouponBond", "FittedBondCurve", "AffineSwaption"}

\* A curve settles long before QuantLib runs out of IMM dates, in 2199.
ASSUME CallsAssumption ==
    \A c \in Calls :
        /\ c.fun \in CurveFuns \cup BondFuns
        /\ c.quotes \in Seq(STRING)
        /\ c.settle \in Nat /\ Cardinality({d \in ImmDates : c.settle < d}) >= 8

VARIABLES
    call,      \* the call: its function and arguments
    phase,     \* how far it has come
    params,    \* its lists, as a function from addresses to arguments
    helpers,   \* the rate helpers made so far
    curve,     \* how the curve is interpolated
    terms,     \* the enumerators the instrument is built with
    index      \* the index of a floating bond: length and unit

vars == <<call, phase, params, helpers, curve, terms, index>>
results == <<helpers, curve, terms, index>>

Nothing == <<>>

TypeOK ==
    /\ call.fun \in CurveFuns \cup BondFuns
    /\ phase \in {"called", "filled", "coded", "built", "error"}
    /\ phase \in {"coded", "built"} => \A k \in DOMAIN params : IsCode(params[k])
    /\ Len(helpers) <= Len(call.quotes)
    /\ phase = "error" => results = <<Nothing, Nothing, Nothing, Nothing>>

Init ==
    /\ call \in Calls
    /\ phase = "called"
    /\ params = call.args
    /\ helpers = Nothing /\ curve = Nothing /\ terms = Nothing /\ index = Nothing

\* An R error or a C++ exception: the results so far are lost.
Fails ==
    /\ phase' = "error"
    /\ helpers' = Nothing /\ curve' = Nothing /\ terms' = Nothing /\ index' = Nothing
    /\ UNCHANGED <<call, params>>

-----------------------------------------------------------------------------
(* The R functions.                                                        *)

\* What is given, and what is taken for the rest.
Filled(given, otherwise) ==
    [k \in DOMAIN given \cup DOMAIN otherwise |->
        IF k \in DOMAIN given THEN given[k] ELSE otherwise[k]]

\* The elements of one list.
Elements(list, words) ==
    [k \in {list} \X DOMAIN words |-> Word(words[k[2]])]
Numbers(codes) ==
    [k \in {"arguments"} \X DOMAIN codes |-> Code(codes[k[2]])]

\* A list the caller leaves out altogether is the one in the signature.
OmittedList ==
    IF call.fun \in LegFuns
    THEN Elements("legparams", [dayCounter |-> "Thirty360",
             fixFreq |-> "Annual", floatFreq |-> "Semiannual"])
    ELSE IF call.fun = "FixedRateBond"
    THEN Elements("calc", [dayCounter |-> "ActualActual.ISMA",
             compounding |-> "Compounded", freq |-> "Annual",
             durationType |-> "Modified"])
    ELSE Nothing

Omitted ==
    LET left == {k \in DOMAIN OmittedList : k[1] \notin call.lists}
    IN  [k \in left |-> OmittedList[k]]

\* Elements missing from a list that was given.
ThirtySemiannual ==
    [dayCounter |-> "Thirty360", period |-> "Semiannual",
     businessDayConvention |-> "Following"]
ScheduleWords ==
    [period |-> "Semiannual", businessDayConvention |-> "Following",
     terminationDateConvention |-> "Following", dateGeneration |-> "Backward"]

Missing ==
    CASE call.fun = "FixedRateBond" ->
           Filled(Elements("bond", [dayCounter |-> "Thirty360"]),
           Filled(Elements("schedule", ScheduleWords),
                  Elements("calc", [dayCounter |-> "ActualActual.ISMA",
                      compounding |-> "Compounded", freq |-> "Annual",
                      durationType |-> "Simple"])))
      [] call.fun = "Schedule" -> Elements("schedule", ScheduleWords)
      [] call.fun = "FloatingRateBond" ->
           Elements("dateparams", Filled(ThirtySemiannual, ScheduleWords))
      [] call.fun = "CallableBond" ->
           Elements("dateparams", Filled(ThirtySemiannual,
                  [terminationDateConvention |-> "Following"]))
      [] call.fun \in {"ConvertibleZeroCouponBond", "ConvertibleFixedCouponBond",
                       "ConvertibleFloatingCouponBond"} ->
           Elements("dateparams", ThirtySemiannual)
      [] call.fun = "ZeroCouponBond" ->
           Elements("dateparams", [businessDayConvention |-> "Following"])
      [] call.fun = "ZeroYield" ->
           Numbers([dayCounter |-> 2, freq |-> 2, compounding |-> 0,
                    businessDayConvention |-> 4])
      [] call.fun = "FixedRateBondYield" ->
           Numbers([dayCounter |-> 2, compounding |-> 0,
                    businessDayConvention |-> 0])
      [] OTHER -> Nothing

FillDefaults ==
    /\ phase = "called"
    /\ params' = Filled(call.args, Filled(Omitted, Missing))
    /\ phase' = "filled"
    /\ UNCHANGED <<call, results>>

\* The functions of bare arguments hand them to a double of C++, which takes
\* no words; all others go through matchParams.
Acceptable(k) ==
    IF call.fun \in NumberFuns THEN IsCode(params[k]) ELSE Matches(k[2], params[k])

matchParams ==
    /\ phase = "filled"
    /\ \A k \in DOMAIN params : Acceptable(k)
    /\ params' = [k \in DOMAIN params |-> Match(k[2], params[k])]
    /\ phase' = "coded"
    /\ UNCHANGED <<call, results>>

WordRefused ==
    /\ phase = "filled"
    /\ \E k \in DOMAIN params : ~Acceptable(k)
    /\ Fails

-----------------------------------------------------------------------------
(* Curves: discountCurveEngine and buildTermStructure.                     *)

Flat == call.quotes[1] = "flat"

FlatForward ==
    /\ phase = "coded" /\ call.fun \in CurveFuns /\ Flat
    /\ curve' = <<"flat", "Actual365Fixed">>
    /\ phase' = "built"
    /\ UNCHANGED <<call, params, helpers, terms, index>>

Leg(name) == <<"legparams", name>>
LegsThere ==
    call.fun \in LegFuns =>
        \A name \in {"dayCounter", "fixFreq", "floatFreq"} : Leg(name) \in DOMAIN params

Legs ==
    [dayCounter |-> getDayCounter(params[Leg("dayCounter")][2]),
     fixFreq |-> getFrequency(params[Leg("fixFreq")][2]),
     floatFreq |-> params[Leg("floatFreq")][2]]

\* The swap's day counter is decoded in getRateHelper, for swaps only.
LegsDecode(ticker) ==
    ticker \in DOMAIN Swaps /\ call.fun = "DiscountCurve"
        => Legs.dayCounter # Stopped

HelperFor(ticker) ==
    IF call.fun = "DiscountCurve" THEN getRateHelper(ticker, call.settle, Legs)
    ELSE getRateHelperFixed(ticker, call.settle)

NextTicker == call.quotes[Len(helpers) + 1]
Building ==
    /\ phase = "coded" /\ call.fun \in CurveFuns /\ ~Flat
    /\ Len(helpers) < Len(call.quotes)
HelperPossible ==
    /\ LegsThere
    /\ InDatabase(NextTicker)
    /\ LegsDecode(NextTicker)
    /\ HelperMade(HelperFor(NextTicker))

PushHelperFirstOnly ==
    /\ Building /\ HelperPossible
    /\ helpers' = Append(helpers, HelperFor(call.quotes[1]))
    /\ UNCHANGED <<call, phase, params, curve, terms, index>>
PushHelper ==
    /\ Building /\ HelperPossible
    /\ helpers' = Append(helpers, HelperFor(NextTicker))
    /\ UNCHANGED <<call, phase, params, curve, terms, index>>

HelperRefused == Building /\ ~HelperPossible /\ Fails

getTermStructure ==
    /\ phase = "coded" /\ call.fun \in CurveFuns /\ ~Flat
    /\ Len(helpers) = Len(call.quotes)
    /\ call.interp \in Interpolations
    /\ curve' = call.interp
    /\ phase' = "built"
    /\ UNCHANGED <<call, params, helpers, terms, index>>

InterpolationUnknown ==
    /\ phase = "coded" /\ call.fun \in CurveFuns /\ ~Flat
    /\ Len(helpers) = Len(call.quotes)
    /\ call.interp \notin Interpolations
    /\ Fails

-----------------------------------------------------------------------------
(* Bonds, schedules and the swap of AffineSwaption.                        *)

ScheduleNames == DOMAIN ScheduleWords
OwnScheduleNames == {"dayCounter", "period", "businessDayConvention"}

\* The elements each engine reads.
Reads ==
    CASE call.fun = "FixedRateBond" ->
           ({"bond"} \X {"dayCounter", "paymentConvention", "exCouponConvention"})
           \cup ({"schedule"} \X ScheduleNames)
           \cup ({"calc"} \X {"dayCounter", "compounding", "freq", "durationType"})
      [] call.fun = "Schedule" -> {"schedule"} \X ScheduleNames
      [] call.fun = "FloatingRateBond" ->
           {"dateparams"} \X (ScheduleNames \cup {"dayCounter"})
      [] call.fun = "ZeroCouponBond" -> {<<"dateparams", "businessDayConvention">>}
      [] call.fun = "ZeroYield" ->
           {"arguments"} \X {"dayCounter", "freq", "compounding", "businessDayConvention"}
      [] call.fun = "FixedRateBondYield" ->
           {"arguments"} \X (OwnScheduleNames \cup {"compounding"})
      [] call.fun = "AffineSwaption" ->
           {"legparams"} \X {"dayCounter", "fixFreq", "floatFreq"}
      [] OTHER -> {"dateparams"} \X OwnScheduleNames

\* What getFixedRateBond takes where the list has no such element.
Optional ==
    LET words == [paymentConvention |-> "Following", exCouponConvention |-> "Unadjusted"]
    IN  [k \in {"bond"} \X DOMAIN words |-> words[k[2]]]

Readable == \A k \in Reads : k \in DOMAIN params \cup DOMAIN Optional

Decoded ==
    [k \in Reads |->
        IF k \in DOMAIN params THEN Decode(k[2], params[k][2]) ELSE Optional[k]]

\* Engines that make their schedule themselves, backward and with the same
\* convention for its last date.
OwnSchedule(list) ==
    [k \in {list} \X {"terminationDateConvention", "dateGeneration"} |->
        IF k[2] = "dateGeneration" THEN "Backward"
        ELSE Decoded[<<list, "businessDayConvention">>]]

Decisions ==
    CASE call.fun \in {"CallableBond", "ConvertibleZeroCouponBond",
                       "ConvertibleFixedCouponBond",
                       "ConvertibleFloatingCouponBond", "FittedBondCurve"} ->
           Filled(Decoded, OwnSchedule("dateparams"))
      [] call.fun = "FixedRateBondYield" -> Filled(Decoded, OwnSchedule("arguments"))
      [] OTHER -> Decoded

\* The frequency a yield is compounded at.
RateOf ==
    CASE call.fun = "FixedRateBond" ->
           <<Decoded[<<"calc", "compounding">>], Decoded[<<"calc", "freq">>]>>
      [] call.fun = "ZeroYield" ->
           <<Decoded[<<"arguments", "compounding">>], Decoded[<<"arguments", "freq">>]>>
      [] call.fun = "FixedRateBondYield" ->
           <<Decoded[<<"arguments", "compounding">>], Decoded[<<"arguments", "period">>]>>
      [] call.fun = "CallableBond" ->
           <<"Compounded", Decoded[<<"dateparams", "period">>]>>
      [] OTHER -> <<"Compounded", "Annual">>

\* What QuantLib refuses among the enumerators.
Accepted ==
    /\ \A k \in Reads : k[2] # "floatFreq" => Decoded[k] # Stopped
    /\ \A k \in Reads : k[2] \in {"period", "fixFreq"} => IsPeriod(Decoded[k])
    /\ Compounds(RateOf[1], RateOf[2])
    /\ call.fun = "FixedRateBond" =>
         HasDuration(Decoded[<<"calc", "durationType">>], RateOf[1])

\* FixedRateBond computes from exactly one of discountCurve, yield and price.
OneSought == call.fun = "FixedRateBond" => Cardinality(call.sought) = 1

\* The index of the two floating bonds.
IborIndex ==
    IF call.index.type = "USDLibor" /\ call.index.inTermOf \in {"Months", "Years"}
    THEN <<call.index.length, call.index.inTermOf>>
    ELSE <<6, "Months">>

BuildBond ==
    /\ phase = "coded" /\ call.fun \in BondFuns
    /\ OneSought /\ Readable /\ Accepted
    /\ terms' = Decisions
    /\ index' = IF call.fun \in IndexFuns THEN IborIndex ELSE Nothing
    /\ phase' = "built"
    /\ UNCHANGED <<call, params, helpers, curve>>

BondRefused ==
    /\ phase = "coded" /\ call.fun \in BondFuns
    /\ ~(OneSought /\ Readable /\ Accepted)
    /\ Fails

Next ==
    \/ FillDefaults \/ matchParams \/ WordRefused
    \/ FlatForward \/ PushHelper \/ HelperRefused
    \/ getTermStructure \/ InterpolationUnknown
    \/ BuildBond \/ BondRefused

Spec == Init /\ [][Next]_vars

-----------------------------------------------------------------------------
(* Properties.                                                             *)

Built(funs) == phase = "built" /\ call.fun \in funs

\* The enumerator a word stands for, which is the word itself but for the
\* four conventions that QuantLib has split since.
Meaning(word) ==
    CASE word = "ActualFixed" -> "Actual365Fixed"
      [] word = "ActualActual" -> "ActualActual.ISDA"
      [] word = "Thirty360" -> "Thirty360.BondBasis"
      [] word = "Actual365NoLeap" -> "Actual365Fixed.NoLeap"
      [] OTHER -> word

\* What a word makes of an element; of a floating leg, months.
PaymentsAYear ==
    [Annual |-> 1, Semiannual |-> 2, EveryFourthMonth |-> 3, Quarterly |-> 4,
     Bimonthly |-> 6, Monthly |-> 12]
StandsFor(field, word) ==
    IF field = "floatFreq" THEN 12 \div PaymentsAYear[word] ELSE Meaning(word)

\* man/Enum.Rd, which the pages of the functions refer to for the numbers.
FrequencyFields == {"period", "freq", "fixFreq"}
FromZero(names) == [n \in 0..(Len(names) - 1) |-> names[n + 1]]
FrequencyNumbers ==
    [n \in {-1, 0, 1, 2, 3, 4, 6, 12, 13, 26, 52, 365} |->
        CASE n = -1 -> "NoFrequency"     [] n = 0 -> "Once"
          [] n = 1 -> "Annual"           [] n = 2 -> "Semiannual"
          [] n = 3 -> "EveryFourthMonth" [] n = 4 -> "Quarterly"
          [] n = 6 -> "Bimonthly"        [] n = 12 -> "Monthly"
          [] n = 13 -> "EveryFourthWeek" [] n = 26 -> "Biweekly"
          [] n = 52 -> "Weekly"          [] n = 365 -> "Daily"]
EnumRd(field) ==
    CASE field = "dayCounter" -> FromZero(
           <<"Actual360", "Actual365Fixed", "ActualActual.ISDA", "Business252",
             "OneDayCounter", "SimpleDayCounter", "Thirty360.BondBasis",
             "Actual365Fixed.NoLeap", "ActualActual.ISMA", "ActualActual.Bond",
             "ActualActual.ISDA", "ActualActual.Historical", "ActualActual.AFB",
             "ActualActual.Euro", "Thirty360.USA", "Thirty360.BondBasis",
             "Thirty360.European", "Thirty360.EurobondBasis", "Thirty360.Italian",
             "Thirty360.German">>)
      [] field = "compounding" -> FromZero(
           <<"Simple", "Compounded", "Continuous", "SimpleThenCompounded">>)
      [] field \in FrequencyFields -> FrequencyNumbers
      [] field = "dateGeneration" -> FromZero(
           <<"Backward", "Forward", "Zero", "ThirdWednesday", "Twentieth",
             "TwentiethIMM", "OldCDS", "CDS">>)
      [] field = "durationType" -> FromZero(<<"Simple", "Macaulay", "Modified">>)
      [] OTHER -> FromZero(
           <<"Following", "ModifiedFollowing", "Preceding", "ModifiedPreceding",
             "Unadjusted", "HalfMonthModifiedFollowing", "Nearest">>)

\* Where that page has a line for anything else.
AnythingElse(field) ==
    CASE field \in FrequencyFields -> {"OtherFrequency"}
      [] field = "dateGeneration" -> {"TwentiethIMM"}
      [] field \in {"dayCounter", "compounding", "durationType"} -> {}
      [] OTHER -> {"Unadjusted"}

NumberMeans(n, field, enumerator) ==
    IF field = "floatFreq" THEN enumerator = n
    ELSE IF n \in DOMAIN EnumRd(field) THEN enumerator = EnumRd(field)[n]
    ELSE \A e \in AnythingElse(field) : enumerator = e

\* A number means what the manual says, a word itself, and anything else the
\* one word it begins.
Means(arg, field, enumerator) ==
    IF IsCode(arg) THEN NumberMeans(arg[2], field, enumerator)
    ELSE \E w \in Words(field) :
           /\ arg[2] = w \/ \A v \in Words(field) : Begins(arg[2], v) <=> v = w
           /\ enumerator = StandsFor(field, w)

\* What the manual names for an element that is left out: a word, or for the
\* functions of bare arguments a number.
ManualWords ==
    [dayCounter |-> "Thirty360", period |-> "Semiannual",
     businessDayConvention |-> "Following", terminationDateConvention |-> "Following",
     dateGeneration |-> "Backward", compounding |-> "Compounded", freq |-> "Annual",
     durationType |-> "Simple", fixFreq |-> "Annual", floatFreq |-> "Semiannual"]
ManualNumbers ==
    [ZeroYield |-> [dayCounter |-> 2, freq |-> 2, compounding |-> 0,
                    businessDayConvention |-> 4],
     FixedRateBondYield |-> [dayCounter |-> 2, compounding |-> 0,
                             businessDayConvention |-> 0]]
ManualDefault(k) ==
    IF call.fun \in NumberFuns THEN Code(ManualNumbers[call.fun][k[2]])
    ELSE IF k[1] = "calc" /\ k[2] = "dayCounter" THEN Word("ActualActual.ISMA")
    ELSE Word(ManualWords[k[2]])

\* The conventions a call may set: those R would have filled in, and those
\* the engine reads.
Offered == DOMAIN Missing \cup Reads

\* The two places where a term is not as asked: CallableBond ignores its
\* terminationDateConvention, and FixedRateBond called without calc takes the
\* duration of its signature.
Excepted(k) ==
    \/ call.fun = "CallableBond" /\ k[2] = "terminationDateConvention"
    \/ k[2] = "durationType" /\ "calc" \notin call.lists

\* Two tables in R and C++ apart, and the manual a third: whichever list and
\* function it is, an instrument is built with the convention its caller
\* wrote, as a word, as the beginning of one, or as a number of man/Enum.Rd,
\* or with the one the manual names where the caller wrote none (for the two
\* conventions FixedRateBond.Rd leaves to QuantLib, QuantLib's), but for the
\* two places above.  Two pages contradict man/Enum.Rd and are not followed
\* here: man/ZeroCouponBond.Rd 80-83 and man/FixedRateBond.Rd 138-142 count
\* the frequencies of ZeroYield and FixedRateBondYield from zero, and give
\* day counters and conventions they do not list a meaning of their own.
TermsAsAsked ==
    Built(BondFuns) =>
        \A k \in {j \in Offered : ~Excepted(j)} :
            /\ k \in DOMAIN terms
            /\ IF k \in DOMAIN call.args THEN Means(call.args[k], k[2], terms[k])
               ELSE IF k \in DOMAIN Optional THEN terms[k] = Optional[k]
               ELSE Means(ManualDefault(k), k[2], terms[k])

\* The two periods of every swap: the frequency of the fixed leg and the
\* months of the floating leg.
LegPeriods ==
    IF call.fun = "AffineSwaption"
    THEN {<<terms[Leg("fixFreq")], terms[Leg("floatFreq")]>>}
    ELSE {<<helpers[k].fixFreq, helpers[k].floatMonths>> :
             k \in {j \in DOMAIN helpers : helpers[j].kind = "swap"}}

\* The two legs of a swap code their frequency in different tables, one in
\* payments a year and one in months: the same word on both legs, whole or
\* begun, still means that both pay equally often.
LegsShareTheirWord ==
    /\ Built(LegFuns)
    /\ Leg("fixFreq") \in DOMAIN call.args /\ Leg("floatFreq") \in DOMAIN call.args
    /\ call.args[Leg("fixFreq")] = call.args[Leg("floatFreq")]
    /\ ~IsCode(call.args[Leg("fixFreq")])
    => \A p \in LegPeriods : PaymentsAYear[p[1]] * p[2] = 12

DefaultLegs ==
    [dayCounter |-> getDayCounter(matchDayCounter["Thirty360"]),
     fixFreq |-> getFrequency(matchFrequency["Annual"]),
     floatFreq |-> matchFloatFrequency["Semiannual"]]

\* buildTermStructure kept its own copy of getRateHelper when DiscountCurve
\* was given legs: from the same quotes it makes the helpers DiscountCurve
\* makes with the legs of its signature, but for the kind of 30/360.
SameCurveEitherWay ==
    Built({"buildTermStructure"}) =>
        \A k \in DOMAIN helpers :
            LET other == getRateHelper(call.quotes[k], call.settle, DefaultLegs)
            IN  \/ helpers[k] = other
                \/ /\ helpers[k].kind = "swap"
                   /\ helpers[k] = [other EXCEPT !.dayCounter = "Thirty360.European"]

\* A curve rests on one helper for each quote, in the order of the quotes,
\* or, when the first of them is "flat", on that one alone; a quote that no
\* helper can be made for never goes missing silently.
OneHelperPerQuote ==
    Built(CurveFuns) =>
        IF Flat THEN helpers = Nothing /\ curve[1] = "flat"
        ELSE /\ Len(helpers) = Len(call.quotes)
             /\ \A k \in DOMAIN helpers : helpers[k] = HelperFor(call.quotes[k])
             /\ curve = call.interp

\* The n-th futures contract starts on the n-th IMM date after settlement, also
\* when settlement itself is one.
FuturesOnImmDates ==
    \A k \in DOMAIN helpers :
        helpers[k].kind = "future" =>
            /\ helpers[k].start \in ImmDates
            /\ Cardinality({d \in ImmDates : call.settle < d /\ d <= helpers[k].start})
                 = Futures[call.quotes[k]]

(* A property the documentation states and the code does not have.         *)

\* man/FloatingRateBond.Rd: the unit of an index is the word 'Month'.
IndexAsAsked ==
    Built(IndexFuns) /\ call.index.type = "USDLibor" /\ call.index.inTermOf = "Month"
        => index = <<call.index.length, "Months">>
=============================================================================
