------------------------------ MODULE Conventions ------------------------------
(***************************************************************************)
(* The vocabulary of contract terms, in the three forms it takes on its    *)
(* way from R to QuantLib: a word the caller writes, the number R/bond.R   *)
(* turns it into, and the QuantLib enumerator src/utils.cpp makes of the   *)
(* number.  A caller may also write the number.  The two tables of each    *)
(* convention are kept in two languages, and nothing but these files ties  *)
(* one to the other.                                                       *)
(***************************************************************************)
EXTENDS Integers, Sequences, TLC

\* An argument as it arrives in an R list.
Word(w) == <<"word", w>>
Code(n) == <<"code", n>>
IsCode(arg) == arg[1] = "code"

-----------------------------------------------------------------------------
(* R/bond.R: words to numbers.                                             *)

\* Words numbered from zero in the order they are listed.
Numbered(words) ==
    [w \in {words[k] : k \in DOMAIN words} |->
        (CHOOSE k \in DOMAIN words : words[k] = w) - 1]

matchDayCounter == Numbered(
    <<"Actual360", "ActualFixed", "ActualActual", "Business252",
      "OneDayCounter", "SimpleDayCounter", "Thirty360", "Actual365NoLeap",
      "ActualActual.ISMA", "ActualActual.Bond", "ActualActual.ISDA",
      "ActualActual.Historical", "ActualActual.AFB", "ActualActual.Euro">>)

matchBDC == Numbered(
    <<"Following", "ModifiedFollowing", "Preceding", "ModifiedPreceding",
      "Unadjusted", "HalfMonthModifiedFollowing", "Nearest">>)

matchCompounding == Numbered(
    <<"Simple", "Compounded", "Continuous", "SimpleThenCompounded">>)

\* Payments a year.
matchFrequency ==
    [NoFrequency |-> -1, Once |-> 0, Annual |-> 1, Semiannual |-> 2,
     EveryFourthMonth |-> 3, Quarterly |-> 4, Bimonthly |-> 6,
     Monthly |-> 12, EveryFourthWeek |-> 13, Biweekly |-> 26, Weekly |-> 52,
     Daily |-> 365]

\* Months between payments.
matchFloatFrequencyPerYear ==
    [Annual |-> 1, Semiannual |-> 2, EveryFourthMonth |-> 3,
     Quarterly |-> 4, Bimonthly |-> 6, Monthly |-> 12]
matchFloatFrequency ==
    [Annual |-> 12, Semiannual |-> 6, EveryFourthMonth |-> 4,
     Quarterly |-> 3, Bimonthly |-> 2, Monthly |-> 1]

matchDateGen == Numbered(
    <<"Backward", "Forward", "Zero", "ThirdWednesday", "Twentieth",
      "TwentiethIMM", "OldCDS", "CDS">>)

matchDurationType == Numbered(<<"Simple", "Macaulay", "Modified">>)

\* Which table matchParams applies to which element of a list.
MatchTable ==
    [dayCounter |-> matchDayCounter, compounding |-> matchCompounding,
     period |-> matchFrequency, freq |-> matchFrequency,
     fixFreq |-> matchFrequency, floatFreq |-> matchFloatFrequency,
     businessDayConvention |-> matchBDC,
     terminationDateConvention |-> matchBDC,
     paymentConvention |-> matchBDC, exCouponConvention |-> matchBDC,
     dateGeneration |-> matchDateGen, fixedLegConvention |-> matchBDC,
     fixedLegDayCounter |-> matchDayCounter,
     durationType |-> matchDurationType]

Words(field) == DOMAIN MatchTable[field]

\* A word may be cut short: Begins("Semi", "Semiannual").
Begins(part, word) ==
    Len(part) <= Len(word) /\ SubSeq(word, 1, Len(part)) = part

\* No frequency is the beginning of another: a fact about these strings.
ASSUME FrequenciesApart ==
    \A v, w \in DOMAIN matchFrequency : Begins(v, w) => v = w

\* The words match.arg takes an argument for: a word of the table for itself,
\* anything else for the words it begins.
matchArg(field, part) ==
    IF part \in Words(field) THEN {part} ELSE {w \in Words(field) : Begins(part, w)}

\* It stops at an argument that is not one word; numbers pass.
Matches(field, arg) ==
    ~IsCode(arg) => \E w \in Words(field) : matchArg(field, arg[2]) = {w}
Matched(field, arg) == Code(MatchTable[field][CHOOSE w \in matchArg(field, arg[2]) : TRUE])
MatchUnlessConvention(field, arg) ==
    IF IsCode(arg) \/ field = "exCouponConvention" THEN arg ELSE Matched(field, arg)
Match(field, arg) == IF IsCode(arg) THEN arg ELSE Matched(field, arg)

-----------------------------------------------------------------------------
(* src/utils.cpp: numbers to enumerators.                                  *)

\* What a decoder answers that calls Rcpp::stop.
Stopped == "stop"

EnumeratorAt(names, n, otherwise) ==
    IF n \in 0..(Len(names) - 1) THEN names[n + 1] ELSE otherwise

getDayCounter(n) == EnumeratorAt(
    <<"Actual360", "Actual365Fixed", "ActualActual.ISDA", "Business252",
      "OneDayCounter", "SimpleDayCounter", "Thirty360.BondBasis",
      "Actual365Fixed.NoLeap", "ActualActual.ISMA", "ActualActual.Bond",
      "ActualActual.ISDA", "ActualActual.Historical", "ActualActual.AFB",
      "ActualActual.Euro", "Thirty360.USA", "Thirty360.BondBasis",
      "Thirty360.European", "Thirty360.EurobondBasis", "Thirty360.Italian",
      "Thirty360.German">>, n, Stopped)

getBusinessDayConvention(n) == EnumeratorAt(
    <<"Following", "ModifiedFollowing", "Preceding", "ModifiedPreceding",
      "Unadjusted", "HalfMonthModifiedFollowing", "Nearest">>,
    n, "Unadjusted")

getCompounding(n) == EnumeratorAt(
    <<"Simple", "Compounded", "Continuous">>, n, "SimpleThenCompounded")

getFrequency(n) ==
    CASE n = -1 -> "NoFrequency"     [] n = 0 -> "Once"
      [] n = 1 -> "Annual"           [] n = 2 -> "Semiannual"
      [] n = 3 -> "EveryFourthMonth" [] n = 4 -> "Quarterly"
      [] n = 6 -> "Bimonthly"        [] n = 12 -> "Monthly"
      [] n = 13 -> "EveryFourthWeek" [] n = 26 -> "Biweekly"
      [] n = 52 -> "Weekly"          [] n = 365 -> "Daily"
      [] OTHER -> "OtherFrequency"

getDateGenerationRuleNoOldCDS(n) == EnumeratorAt(
    <<"Backward", "Forward", "Zero", "ThirdWednesday", "Twentieth",
      "TwentiethIMM", "CDS">>, n, "TwentiethIMM")
getDateGenerationRule(n) == EnumeratorAt(
    <<"Backward", "Forward", "Zero", "ThirdWednesday", "Twentieth",
      "TwentiethIMM", "OldCDS", "CDS">>, n, "TwentiethIMM")

getDurationType(n) ==
    EnumeratorAt(<<"Simple", "Macaulay", "Modified">>, n, Stopped)

\* The decoder an engine applies to an element of a list it is given; a
\* floating leg's number is its period in months and needs none.
Decode(field, n) ==
    CASE field = "dayCounter" -> getDayCounter(n)
      [] field = "compounding" -> getCompounding(n)
      [] field \in {"period", "freq", "fixFreq"} -> getFrequency(n)
      [] field = "dateGeneration" -> getDateGenerationRule(n)
      [] field = "durationType" -> getDurationType(n)
      [] field = "floatFreq" -> n
      [] OTHER -> getBusinessDayConvention(n)

\* QuantLib::Period(Frequency) refuses a frequency it does not know.
IsPeriod(frequency) == frequency # "OtherFrequency"

\* QuantLib::InterestRate compounds only at a frequency a year has.
Compounds(compounding, frequency) ==
    compounding \in {"Compounded", "SimpleThenCompounded"} =>
        frequency \notin {"NoFrequency", "Once"}

\* QuantLib::CashFlows::duration.
HasDuration(type, compounding) == type = "Macaulay" => compounding = "Compounded"
=============================================================================
