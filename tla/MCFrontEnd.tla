------------------------------ MODULE MCFrontEnd ------------------------------
(***************************************************************************)
(* Every word, words cut short and a choice of numbers for every element   *)
(* of every list, one element at a time and the two conventions of a       *)
(* schedule together; every pair of quotes of each kind, under legs of     *)
(* every pair of frequencies.                                              *)
(***************************************************************************)
EXTENDS FrontEnd

\* Months 0 to 32 hold eleven IMM dates.
MCImmDates == {3 * k : k \in 1..11}

\* Words cut short, after which one word is left in some table, or more, and
\* some the beginning of a word of one table and a word of another.
Beginnings ==
    {"S", "Semi", "Month", "M", "Every", "Bi", "Actual", "Actual365", "ActualActual.IS",
     "ActualActual.H", "Simpl", "Mod", "Modified", "Follow", "Twent", "OldC", "Cont"}

Values(field) ==
    {Word(w) : w \in Words(field) \cup Beginnings \cup {"Atlantis"}}
    \cup {Code(n) : n \in (-1..8) \cup {12, 13, 19, 20, 26}}

NoIndex == [type |-> "", length |-> 0, inTermOf |-> ""]
Plain(f, lists, args) ==
    [fun |-> f, lists |-> lists, args |-> args, quotes |-> <<>>,
     interp |-> <<>>, settle |-> 0, sought |-> {"yield"}, index |-> NoIndex]

-----------------------------------------------------------------------------
BondKeys ==
    [FixedRateBond |->
        ({"bond"} \X {"dayCounter", "paymentConvention", "exCouponConvention"})
        \cup ({"schedule"} \X DOMAIN ScheduleWords)
        \cup ({"calc"} \X {"dayCounter", "compounding", "freq", "durationType"}),
     Schedule |-> {"schedule"} \X DOMAIN ScheduleWords,
     FloatingRateBond |-> {"dateparams"} \X (DOMAIN ScheduleWords \cup {"dayCounter"}),
     CallableBond |-> {"dateparams"} \X
        {"dayCounter", "period", "businessDayConvention", "terminationDateConvention"},
     ConvertibleZeroCouponBond |-> {"dateparams"} \X DOMAIN ThirtySemiannual,
     ConvertibleFixedCouponBond |-> {"dateparams"} \X DOMAIN ThirtySemiannual,
     ConvertibleFloatingCouponBond |-> {"dateparams"} \X DOMAIN ThirtySemiannual,
     ZeroCouponBond |-> {<<"dateparams", "businessDayConvention">>},
     ZeroYield |-> {"arguments"} \X
        {"dayCounter", "freq", "compounding", "businessDayConvention"},
     FixedRateBondYield |-> {"arguments"} \X (DOMAIN ThirtySemiannual \cup {"compounding"})]

OneElement(f) ==
    UNION {{Plain(f, {j[1] : j \in BondKeys[f]}, k :> v) : v \in Values(k[2])} :
              k \in BondKeys[f]}

Fitted ==
    {Plain("FittedBondCurve", {"dateparams"},
           (<<"dateparams", "dayCounter">> :> Word("Actual360"))
           @@ (<<"dateparams", "period">> :> p)
           @@ (<<"dateparams", "businessDayConvention">> :> b)) :
        p \in Values("period"), b \in Values("businessDayConvention")}

BothEnds(f, list) ==
    {Plain(f, {list},
           <<list, "businessDayConvention">> :> b
           @@ <<list, "terminationDateConvention">> :> t) :
        b, t \in {Word("Preceding"), Word("Unadjusted"), Code(1)}}

Rates ==
    {[Plain("FixedRateBond", {"calc"},
            <<"calc", "compounding">> :> c @@ <<"calc", "freq">> :> q)
        EXCEPT !.sought = s] :
        c \in {Word("Continuous"), Word("SimpleThenCompounded")},
        q \in {Word("Once"), Word("Monthly"), Code(7)},
        s \in {{}, {"price"}, {"price", "yield"}}}
    \cup
    {Plain("FixedRateBond", {"calc"},
           <<"calc", "compounding">> :> c @@ <<"calc", "durationType">> :> d) :
        c \in Values("compounding"), d \in Values("durationType")}

Indices ==
    {[Plain(f, {}, Nothing) EXCEPT
        !.index = [type |-> t, length |-> n, inTermOf |-> u]] :
        f \in IndexFuns, t \in {"USDLibor", "Euribor"}, n \in {3, 6},
        u \in {"Month", "Months", "Years"}}

BondCalls ==
    UNION {OneElement(f) : f \in DOMAIN BondKeys}
    \cup {Plain(f, {}, Nothing) : f \in DOMAIN BondKeys \cup {"FittedBondCurve"}}
    \cup Fitted \cup Rates \cup Indices
    \cup BothEnds("FixedRateBond", "schedule")
    \cup BothEnds("FloatingRateBond", "dateparams")
    \cup BothEnds("CallableBond", "dateparams")

-----------------------------------------------------------------------------
LegWords ==
    {Word(w) : w \in DOMAIN matchFloatFrequency \cup {"Weekly", "Semi", "M", "Every"}}
Legged(f, d, x, l) ==
    Plain(f, {"legparams"}, Leg("dayCounter") :> d @@ Leg("fixFreq") :> x
                            @@ Leg("floatFreq") :> l)
LegCalls(f) ==
    {Plain(f, {}, Nothing),
     Plain(f, {"legparams"}, Leg("fixFreq") :> Word("Annual"))}
    \cup {Legged(f, Word("Thirty360"), x, l) : x, l \in LegWords \cup {Code(6)}}
    \cup {Legged(f, d, Code(7), Word("Annual")) : d \in Values("dayCounter")}
    \cup {Legged(f, d, Word("Annual"), Code(3)) : d \in Values("dayCounter")}

Tickers == {"flat", "d3m", "s2y", "s10y", "fra3x6", "fut1", "fut2", "fut8", "d4m"}
QuoteLists == {<<q>> : q \in Tickers} \cup {<<q, r>> : q, r \in Tickers}
Interps == {<<"discount", "loglinear">>, <<"zero", "spline">>, <<"zero", "cubic">>}

CurveCalls ==
    {[c EXCEPT !.quotes = q, !.interp = <<"forward", "linear">>, !.settle = 4] :
        c \in LegCalls("DiscountCurve"),
        q \in {<<"flat">>, <<"d3m", "s2y">>, <<"fut2", "s10y", "s2y">>}}
    \cup {[Plain(f, {}, Nothing) EXCEPT !.quotes = q, !.interp = h, !.settle = s] :
        f \in CurveFuns, q \in QuoteLists, h \in Interps, s \in {2, 3, 5}}

MCCalls == BondCalls \cup CurveCalls \cup LegCalls("AffineSwaption")
=============================================================================
