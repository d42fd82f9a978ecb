------------------------- MODULE SessionContractProofs -------------------------
(***************************************************************************)
(* RQLSession implements SessionContract: whatever the calendars, the days *)
(* and the calls, a call leaves one of the outcomes its contract names.    *)
(***************************************************************************)
EXTENDS SessionDatesProofs, SessionRefinement

-----------------------------------------------------------------------------
(* What a piece of code has written before a step: of each setting the     *)
(* last of the steps that write it, or "found" if none has.                *)

LastOf(c, i, W, w) ==
    IF w = "found" THEN \A m \in 1..(i - 1) : c[m] \notin W
                   ELSE LastIs(c, i, W, w)

Stands(c, i, p) ==
    LastOf(c, i, EvalWrites, p[1]) /\ LastOf(c, i, SettleWrites, p[2])

\* The steps that may throw.
May == {"check", "find", "evalBack", "build1", "build2", "price", "table"}

\* Code c has written one of the pairs thrown wherever it may throw, and the
\* pair end when it is through.
Fate(c, thrown, end) ==
    /\ c \in Seq(Common)
    /\ Stands(c, Len(c) + 1, end)
    /\ \A i \in 1..Len(c) : c[i] \in May => \E p \in thrown : Stands(c, i, p)

Nothing == <<"found", "found">>

\* What stands after w was written, and then x.
Then(w, x) == IF x = "found" THEN w ELSE x
After(y, p) == <<Then(y[1], p[1]), Then(y[2], p[2])>>

LEMMA LastThrough ==
    ASSUME NEW s \in Seq(Common), NEW t \in Seq(Common), NEW W, NEW w, NEW x,
           NEW i \in 1..(Len(t) + 1),
           LastOf(s, Len(s) + 1, W, w), LastOf(t, i, W, x)
    PROVE  LastOf(s \o t, Len(s) + i, W, Then(w, x))
<1>1. CASE x # "found"
  BY <1>1, LastInSecond DEF LastOf, Then
<1>2. CASE x = "found" /\ w # "found"
  <2>1. LastIs(s, Len(s) + 1, W, w) /\ \A m \in 1..(i - 1) : t[m] \notin W
    BY <1>2 DEF LastOf
  <2>2. LastIs(s \o t, Len(s) + i, W, w)
    BY <2>1, LastCarriesOver
  <2> QED
    BY <1>2, <2>2 DEF LastOf, Then
<1>3. CASE x = "found" /\ w = "found"
  <2>1. /\ \A m \in 1..((Len(s) + 1) - 1) : s[m] \notin W
        /\ \A m \in 1..(i - 1) : t[m] \notin W
    BY <1>3 DEF LastOf
  <2>2. Len(s) \in Nat /\ Len(t) \in Nat
    BY Joined
  <2>3. ASSUME NEW m \in 1..((Len(s) + i) - 1) PROVE (s \o t)[m] \notin W
    <3>1. CASE m <= Len(s)
      <4>1. m \in 1..Len(s) /\ m \in 1..((Len(s) + 1) - 1)
        BY <2>2, <3>1
      <4> QED
        BY <2>1, <4>1, Joined
    <3>2. CASE m > Len(s)
      <4>1. /\ m - Len(s) \in 1..(i - 1) /\ m - Len(s) \in 1..Len(t)
            /\ Len(s) + (m - Len(s)) = m
        BY <2>2, <3>2
      <4>2. (s \o t)[Len(s) + (m - Len(s))] = t[m - Len(s)]
        BY <4>1, Joined
      <4> QED
        BY <2>1, <4>1, <4>2
    <3> QED
      BY <2>2, <3>1, <3>2
  <2> QED
    BY <1>3, <2>3 DEF LastOf, Then
<1> QED
  BY <1>1, <1>2, <1>3

LEMMA LastBefore ==
    ASSUME NEW s \in Seq(Common), NEW t \in Seq(Common), NEW W, NEW w,
           NEW i \in 1..(Len(s) + 1), LastOf(s, i, W, w)
    PROVE  LastOf(s \o t, i, W, w)
<1>1. CASE w # "found"
  BY <1>1, LastInFirst DEF LastOf
<1>2. CASE w = "found"
  <2>1. Len(s) \in Nat /\ \A m \in 1..Len(s) : (s \o t)[m] = s[m]
    BY Joined
  <2>2. \A m \in 1..(i - 1) : m \in 1..Len(s)
    BY <2>1
  <2> QED
    BY <1>2, <2>1, <2>2 DEF LastOf
<1> QED
  BY <1>1, <1>2

\* Of two pieces of code the second one's fate comes after the whole of the
\* first one's.
LEMMA OneAfterTheOther ==
    ASSUME NEW s, NEW t, NEW X, NEW x, NEW Y, NEW y, Fate(s, X, x), Fate(t, Y, y)
    PROVE  Fate(s \o t, X \cup {After(x, p) : p \in Y}, After(x, y))
<1>1. s \in Seq(Common) /\ t \in Seq(Common)
  BY DEF Fate
<1>2. /\ s \o t \in Seq(Common) /\ Len(s \o t) = Len(s) + Len(t)
      /\ Len(s) \in Nat /\ Len(t) \in Nat
  BY <1>1, Joined
<1>3. ASSUME NEW i \in 1..(Len(t) + 1), NEW p, Stands(t, i, p)
      PROVE  Stands(s \o t, Len(s) + i, After(x, p))
  <2>1. /\ LastOf(s, Len(s) + 1, EvalWrites, x[1])
        /\ LastOf(s, Len(s) + 1, SettleWrites, x[2])
        /\ LastOf(t, i, EvalWrites, p[1]) /\ LastOf(t, i, SettleWrites, p[2])
    BY <1>3 DEF Fate, Stands
  <2>2. /\ LastOf(s \o t, Len(s) + i, EvalWrites, Then(x[1], p[1]))
        /\ LastOf(s \o t, Len(s) + i, SettleWrites, Then(x[2], p[2]))
    BY <1>1, <2>1, LastThrough
  <2>3. After(x, p)[1] = Then(x[1], p[1]) /\ After(x, p)[2] = Then(x[2], p[2])
    BY DEF After
  <2> QED
    BY <2>2, <2>3 DEF Stands
<1>4. Stands(s \o t, Len(s \o t) + 1, After(x, y))
  <2>1. /\ Len(t) + 1 \in 1..(Len(t) + 1) /\ Stands(t, Len(t) + 1, y)
        /\ Len(s \o t) + 1 = Len(s) + (Len(t) + 1)
    BY <1>2 DEF Fate
  <2>2. Stands(s \o t, Len(s) + (Len(t) + 1), After(x, y))
    BY <1>3, <2>1
  <2> QED
    BY <2>1, <2>2
<1>5. ASSUME NEW i \in 1..Len(s \o t), (s \o t)[i] \in May
      PROVE  \E p \in X \cup {After(x, q) : q \in Y} : Stands(s \o t, i, p)
  <2>1. CASE i \in 1..Len(s)
    <3>1. s[i] \in May /\ i \in 1..(Len(s) + 1)
      BY <1>1, <1>2, <1>5, <2>1, Joined
    <3>2. PICK p \in X : Stands(s, i, p)
      BY <2>1, <3>1 DEF Fate
    <3>3. Stands(s \o t, i, p)
      BY <1>1, <3>1, <3>2, LastBefore DEF Stands
    <3> QED
      BY <3>3
  <2>2. CASE i > Len(s)
    <3>1. /\ i - Len(s) \in 1..Len(t) /\ i - Len(s) \in 1..(Len(t) + 1)
          /\ Len(s) + (i - Len(s)) = i
      BY <1>2, <2>2
    <3>2. t[i - Len(s)] \in May
      BY <1>1, <1>5, <3>1, Joined
    <3>3. PICK p \in Y : Stands(t, i - Len(s), p)
      BY <3>1, <3>2 DEF Fate
    <3>4. Stands(s \o t, Len(s) + (i - Len(s)), After(x, p))
      BY <1>3, <3>1, <3>3
    <3>5. Stands(s \o t, i, After(x, p))
      BY <3>1, <3>4
    <3> QED
      BY <3>5
  <2> QED
    BY <1>2, <2>1, <2>2
<1> QED
  BY <1>2, <1>4, <1>5 DEF Fate

\* Code that writes nothing.
Quiet(c) == c \in Seq(Common) /\ \A i \in 1..Len(c) : c[i] \notin EvalWrites \cup SettleWrites

LEMMA QuietFate ==
    ASSUME NEW c, Quiet(c)
    PROVE  Fate(c, {Nothing}, Nothing)
<1>1. c \in Seq(Common) /\ Len(c) \in Nat
  BY DEF Quiet
<1>2. ASSUME NEW i \in 1..(Len(c) + 1) PROVE Stands(c, i, Nothing)
  <2>1. \A m \in 1..(i - 1) : m \in 1..Len(c)
    BY <1>1
  <2>2. \A m \in 1..(i - 1) : c[m] \notin EvalWrites /\ c[m] \notin SettleWrites
    BY <2>1 DEF Quiet
  <2> QED
    BY <2>2 DEF Stands, LastOf, Nothing
<1>3. Len(c) + 1 \in 1..(Len(c) + 1) /\ \A i \in 1..Len(c) : i \in 1..(Len(c) + 1)
  BY <1>1
<1> QED
  BY <1>1, <1>2, <1>3 DEF Fate

\* Code that sets the evaluation date once, in its step e.
LEMMA DatedFate ==
    ASSUME NEW c \in Seq(Common), NEW e \in 1..Len(c), NEW w, w # "found",
           w \in EvalWrites, c[e] = w,
           \A i \in 1..Len(c) : i # e => c[i] \notin EvalWrites \cup SettleWrites
    PROVE  Fate(c, {Nothing, <<w, "found">>}, <<w, "found">>)
<1>1. Len(c) \in Nat /\ w \notin SettleWrites
  BY DEF EvalWrites, SettleWrites
<1>2. \A i \in 1..Len(c) : c[i] \notin SettleWrites
  BY <1>1
<1>3. ASSUME NEW i \in 1..(Len(c) + 1), i <= e PROVE Stands(c, i, Nothing)
  <2>1. \A m \in 1..(i - 1) : m \in 1..Len(c) /\ m # e
    BY <1>1, <1>3
  <2> QED
    BY <1>2, <2>1 DEF Stands, LastOf, Nothing
<1>4. ASSUME NEW i \in 1..(Len(c) + 1), i > e PROVE Stands(c, i, <<w, "found">>)
  <2>1. \A m \in 1..(i - 1) : m \in 1..Len(c)
    BY <1>1
  <2>2. e \in 1..(i - 1) /\ \A m \in (e + 1)..(i - 1) : m \in 1..Len(c) /\ m # e
    BY <1>1, <1>4
  <2>3. LastIs(c, i, EvalWrites, w)
    BY <2>2 DEF LastIs
  <2> QED
    BY <1>2, <2>1, <2>3 DEF Stands, LastOf
<1>5. /\ Len(c) + 1 \in 1..(Len(c) + 1) /\ Len(c) + 1 > e
      /\ \A i \in 1..Len(c) : i \in 1..(Len(c) + 1) /\ (i <= e \/ i > e)
  BY <1>1
<1> QED
  BY <1>3, <1>4, <1>5 DEF Fate

\* Code that stores a settlement date and then an evaluation date, and cannot
\* throw between the two.
LEMMA QuotedFate ==
    ASSUME NEW c \in Seq(Common), NEW k \in 1..2, Len(c) >= 3,
           c[2] = settleStep[k], c[3] = evalStep[k],
           \A i \in 1..Len(c) : i # 2 /\ i # 3 => c[i] \notin EvalWrites \cup SettleWrites
    PROVE  Fate(c, {Nothing, <<evalStep[k], settleStep[k]>>}, <<evalStep[k], settleStep[k]>>)
<1>1. /\ Len(c) \in Nat
      /\ settleStep[k] \in {"settle1", "settle2"} /\ evalStep[k] \in {"eval1", "eval2"}
  BY DEF settleStep, evalStep
<1>2. /\ settleStep[k] \notin EvalWrites \cup May /\ evalStep[k] \notin SettleWrites \cup May
      /\ settleStep[k] # "found" /\ evalStep[k] # "found"
  BY <1>1 DEF EvalWrites, SettleWrites, May
<1>3. ASSUME NEW i \in 1..2 PROVE Stands(c, i, Nothing)
  <2>1. \A m \in 1..(i - 1) : m \in 1..Len(c) /\ m # 2 /\ m # 3
    BY <1>1
  <2> QED
    BY <2>1 DEF Stands, LastOf, Nothing
<1>4. ASSUME NEW i \in 4..(Len(c) + 1) PROVE Stands(c, i, <<evalStep[k], settleStep[k]>>)
  <2>1. 2 \in 1..(i - 1) /\ 3 \in 1..(i - 1)
    BY <1>1
  <2>2. \A m \in (3 + 1)..(i - 1) : m \in 1..Len(c) /\ m # 2 /\ m # 3
    BY <1>1
  <2>3. \A m \in (2 + 1)..(i - 1) : m = 3 \/ (m \in 1..Len(c) /\ m # 2 /\ m # 3)
    BY <1>1
  <2>4. LastIs(c, i, EvalWrites, evalStep[k])
    BY <2>1, <2>2 DEF LastIs
  <2>5. LastIs(c, i, SettleWrites, settleStep[k])
    BY <1>2, <2>1, <2>3 DEF LastIs
  <2> QED
    BY <1>2, <2>4, <2>5 DEF Stands, LastOf
<1>5. Len(c) + 1 \in 4..(Len(c) + 1)
  BY <1>1
<1>6. ASSUME NEW i \in 1..Len(c), c[i] \in May
      PROVE  \E p \in {Nothing, <<evalStep[k], settleStep[k]>>} : Stands(c, i, p)
  <2>1. i = 1 \/ i = 2 \/ i = 3 \/ i \in 4..(Len(c) + 1)
    BY <1>1
  <2>2. i # 2 /\ i # 3
    BY <1>2, <1>6
  <2>3. 1 \in 1..2
    OBVIOUS
  <2> QED
    BY <1>3, <1>4, <2>1, <2>2, <2>3
<1> QED
  BY <1>4, <1>5, <1>6 DEF Fate

-----------------------------------------------------------------------------
(* The table of engines: what each has written when it throws or returns.  *)

WholeOf(op) ==
    CASE op \in Contract!Dated -> <<"eval1", "found">>
      [] op \in Contract!Quoted \cup {"FloatBond3", "FloatBond4"} -> <<"eval1", "settle1">>
      [] op = "FloatBond1" -> <<"eval2", "found">>
      [] op = "FloatBond2" -> <<"eval2", "settle2">>
      [] op \in Contract!DatedToday -> <<"evalToday", "found">>
      [] op \in DatedByContext -> <<"evalBack", "found">>
      [] OTHER -> Nothing

PartOf(op) ==
    CASE op \in {"FloatBond1", "FloatBond2"} -> {<<"eval1", "found">>}
      [] op = "FloatBond3" -> {<<"eval2", "found">>}
      [] op = "FloatBond4" -> {<<"eval2", "settle2">>}
      [] OTHER -> {}

\* Engines that write nothing.
Still == {"check", "find", "context", "price", "base"}

LEMMA StillIsQuiet == ASSUME NEW c \in Seq(Still) PROVE Quiet(c)
<1>1. c \in Seq(Common)
  BY DEF Still, Common, Calm, Plain
<1>2. \A i \in 1..Len(c) : c[i] \in Still
  OBVIOUS
<1> QED
  BY <1>1, <1>2 DEF Quiet, Still, EvalWrites, SettleWrites

Writers ==
    Contract!Dated \cup Contract!Quoted \cup Contract!TwoCurves
        \cup Contract!DatedToday \cup DatedByContext
        \cup {"setCalendarContext", "discountCurveEngine"}

LEMMA StillCode ==
    ASSUME NEW op \in DOMAIN Code, op \notin Writers
    PROVE  Code[op] \in Seq(Still)
<1> DEFINE
    Composed == {"floatingWithRebuiltCurveEngine", "FixedRateWithYield",
                 "FixedRateWithPrice", "FixedRateWithRebuiltCurve"}
    Simple == {"calendarQuery", "advanceDate", "CreateSchedule",
               "fixedRateBondYieldByPriceEngine", "fixedRateBondPriceByYieldEngine",
               "convertibleZeroBondEngine", "convertibleFloatingBondEngine",
               "callableBondEngine"}
    Options == OptionEngines \ Contract!DatedToday
<1>1. \/ op \in Composed \/ op \in Simple \/ op \in Options
  BY DEF Code, Writers, OptionEngines, Contract!Dated, Contract!Quoted, Contract!TwoCurves,
         Contract!DatedToday, DatedByContext
<1>2. CASE op \in Composed
  <2>1. /\ FloatingBond \in Seq(Still) /\ getFixedRateBond \in Seq(Still)
        /\ <<"check">> \in Seq(Still) /\ <<"price">> \in Seq(Still)
        /\ <<"check", "price">> \in Seq(Still)
    BY DEF Still, FloatingBond, getFixedRateBond, getSchedule
  <2>2. /\ floatingWithRebuiltCurveEngine \in Seq(Still)
        /\ FixedRateWithYield \in Seq(Still) /\ FixedRateWithPrice \in Seq(Still)
        /\ FixedRateWithRebuiltCurve \in Seq(Still)
    BY <2>1 DEF floatingWithRebuiltCurveEngine, FixedRateWithYield, FixedRateWithPrice,
                FixedRateWithRebuiltCurve
  <2> QED
    BY <1>2, <2>2 DEF Code
<1>3. CASE op \in Simple
  <2>1. /\ calendarQuery \in Seq(Still) /\ advanceDate \in Seq(Still)
        /\ CreateSchedule \in Seq(Still)
        /\ fixedRateBondYieldByPriceEngine \in Seq(Still)
        /\ fixedRateBondPriceByYieldEngine \in Seq(Still)
        /\ convertibleZeroBondEngine \in Seq(Still)
        /\ convertibleFloatingBondEngine \in Seq(Still)
        /\ callableBondEngine \in Seq(Still)
    BY DEF Still, calendarQuery, advanceDate, CreateSchedule, getSchedule,
           fixedRateBondYieldByPriceEngine, fixedRateBondPriceByYieldEngine,
           convertibleZeroBondEngine, convertibleFloatingBondEngine, callableBondEngine
  <2> QED
    BY <1>3, <2>1 DEF Code
<1>4. CASE op \in Options
  <2>1. Code[op] = <<"check", "base", "check", "price">>
    BY <1>4 DEF Code, OptionEngines, Contract!DatedToday, europeanOptionEngine,
                americanOptionEngine, binaryOptionEngine, barrierOptionEngine,
                europeanOptionImpliedVolatilityEngine,
                americanOptionImpliedVolatilityEngine, binaryOptionImpliedVolatilityEngine
  <2>2. <<"check", "base", "check", "price">> \in Seq(Still)
    BY DEF Still
  <2> QED
    BY <2>1, <2>2
<1> QED
  BY <1>1, <1>2, <1>3, <1>4

\* Engines whose code is written out and sets the evaluation date once.
LEMMA ShortFate ==
    ASSUME NEW c, NEW w \in {"eval1", "evalToday", "evalBack"},
           NEW x \in {"check", "find", "context"}, NEW y \in {"check", "find", "context"},
           \/ c = <<"check", w>>
           \/ c = <<"check", w, x, "price">>
           \/ c = <<"check", w, x, y, "price">>
           \/ c = <<"check", "context", w, x, "price">>
    PROVE  Fate(c, {Nothing, <<w, "found">>}, <<w, "found">>)
<1>0. w \in EvalWrites /\ w # "found"
  BY DEF EvalWrites
<1>1. CASE c = <<"check", w>>
  <2>1. Len(c) = 2 /\ c[1] = "check" /\ c[2] = w /\ c \in Seq(Common)
    BY <1>1 DEF Common, Calm, Plain
  <2>2. \A i \in 1..2 : i = 1 \/ i = 2
    OBVIOUS
  <2>3. 2 \in 1..Len(c)
    BY <2>1
  <2>4. \A i \in 1..Len(c) : i # 2 => c[i] \notin EvalWrites \cup SettleWrites
    BY <2>1, <2>2 DEF EvalWrites, SettleWrites
  <2> QED
    BY <1>0, <2>1, <2>3, <2>4, DatedFate
<1>2. CASE c = <<"check", w, x, "price">>
  <2>1. /\ Len(c) = 4 /\ c[1] = "check" /\ c[2] = w /\ c[3] = x /\ c[4] = "price"
        /\ c \in Seq(Common)
    BY <1>2 DEF Common, Calm, Plain
  <2>2. \A i \in 1..4 : i = 1 \/ i = 2 \/ i = 3 \/ i = 4
    OBVIOUS
  <2>3. 2 \in 1..Len(c)
    BY <2>1
  <2>4. \A i \in 1..Len(c) : i # 2 => c[i] \notin EvalWrites \cup SettleWrites
    BY <2>1, <2>2 DEF EvalWrites, SettleWrites
  <2> QED
    BY <1>0, <2>1, <2>3, <2>4, DatedFate
<1>3. CASE c = <<"check", w, x, y, "price">>
  <2>1. /\ Len(c) = 5 /\ c[1] = "check" /\ c[2] = w /\ c[3] = x /\ c[4] = y /\ c[5] = "price"
        /\ c \in Seq(Common)
    BY <1>3 DEF Common, Calm, Plain
  <2>2. \A i \in 1..5 : i = 1 \/ i = 2 \/ i = 3 \/ i = 4 \/ i = 5
    OBVIOUS
  <2>3. 2 \in 1..Len(c)
    BY <2>1
  <2>4. \A i \in 1..Len(c) : i # 2 => c[i] \notin EvalWrites \cup SettleWrites
    BY <2>1, <2>2 DEF EvalWrites, SettleWrites
  <2> QED
    BY <1>0, <2>1, <2>3, <2>4, DatedFate
<1>4. CASE c = <<"check", "context", w, x, "price">>
  <2>1. /\ Len(c) = 5 /\ c[1] = "check" /\ c[2] = "context" /\ c[3] = w /\ c[4] = x
        /\ c[5] = "price" /\ c \in Seq(Common)
    BY <1>4 DEF Common, Calm, Plain
  <2>2. \A i \in 1..5 : i = 1 \/ i = 2 \/ i = 3 \/ i = 4 \/ i = 5
    OBVIOUS
  <2>3. 3 \in 1..Len(c)
    BY <2>1
  <2>4. \A i \in 1..Len(c) : i # 3 => c[i] \notin EvalWrites \cup SettleWrites
    BY <2>1, <2>2 DEF EvalWrites, SettleWrites
  <2> QED
    BY <1>0, <2>1, <2>3, <2>4, DatedFate
<1> QED
  BY <1>1, <1>2, <1>3, <1>4

LEMMA SwaptionFate ==
    ASSUME NEW c,
           \/ c = <<"check", "settle1", "eval1", "context", "check", "price", "check">>
           \/ c = <<"check", "settle1", "eval1", "check", "context", "check", "price", "check">>
    PROVE  Fate(c, {Nothing, <<"eval1", "settle1">>}, <<"eval1", "settle1">>)
<1>0. settleStep[1] = "settle1" /\ evalStep[1] = "eval1" /\ 1 \in 1..2
  BY DEF settleStep, evalStep
<1>1. ASSUME c \in Seq(Common), Len(c) >= 3, c[2] = "settle1", c[3] = "eval1",
             \A i \in 1..Len(c) : i # 2 /\ i # 3 => c[i] \notin EvalWrites \cup SettleWrites
      PROVE  Fate(c, {Nothing, <<"eval1", "settle1">>}, <<"eval1", "settle1">>)
  <2>1. c[2] = settleStep[1] /\ c[3] = evalStep[1]
    BY <1>0, <1>1
  <2>2. Fate(c, {Nothing, <<evalStep[1], settleStep[1]>>}, <<evalStep[1], settleStep[1]>>)
    BY <1>0, <1>1, <2>1, QuotedFate
  <2> QED
    BY <1>0, <2>2
<1>2. CASE c = <<"check", "settle1", "eval1", "context", "check", "price", "check">>
  <2>1. /\ Len(c) = 7 /\ c[1] = "check" /\ c[2] = "settle1" /\ c[3] = "eval1"
        /\ c[4] = "context" /\ c[5] = "check" /\ c[6] = "price" /\ c[7] = "check"
    BY <1>2
  <2>2. c \in Seq(Common)
    BY <1>2 DEF Common, Calm, Plain
  <2>3. \A i \in 1..7 : i = 1 \/ i = 2 \/ i = 3 \/ i = 4 \/ i = 5 \/ i = 6 \/ i = 7
    OBVIOUS
  <2>4. \A i \in 1..Len(c) : i # 2 /\ i # 3 => c[i] \notin EvalWrites \cup SettleWrites
    BY <2>1, <2>3 DEF EvalWrites, SettleWrites
  <2> QED
    BY <1>1, <2>1, <2>2, <2>4
<1>3. CASE c = <<"check", "settle1", "eval1", "check", "context", "check", "price", "check">>
  <2>1. /\ Len(c) = 8 /\ c[1] = "check" /\ c[2] = "settle1" /\ c[3] = "eval1"
        /\ c[4] = "check" /\ c[5] = "context" /\ c[6] = "check" /\ c[7] = "price"
        /\ c[8] = "check"
    BY <1>3
  <2>2. c \in Seq(Common)
    BY <1>3 DEF Common, Calm, Plain
  <2>3. \A i \in 1..8 : \/ i = 1 \/ i = 2 \/ i = 3 \/ i = 4 \/ i = 5 \/ i = 6
                        \/ i = 7 \/ i = 8
    OBVIOUS
  <2>4. \A i \in 1..Len(c) : i # 2 /\ i # 3 => c[i] \notin EvalWrites \cup SettleWrites
    BY <2>1, <2>3 DEF EvalWrites, SettleWrites
  <2> QED
    BY <1>1, <2>1, <2>2, <2>4
<1> QED
  BY <1>2, <1>3

\* The two ways to get a curve, and the bond that is priced with them.
LEMMA CurveFates ==
    ASSUME NEW k \in 1..2
    PROVE  /\ Fate(getFlatCurve(k), {Nothing, <<evalStep[k], "found">>}, <<evalStep[k], "found">>)
           /\ Fate(buildTermStructure(k), {Nothing, <<evalStep[k], settleStep[k]>>},
                   <<evalStep[k], settleStep[k]>>)
<1>0. /\ settleStep[k] \in {"settle1", "settle2"} /\ evalStep[k] \in {"eval1", "eval2"}
      /\ buildStep[k] \in {"build1", "build2"}
  BY DEF settleStep, evalStep, buildStep
<1>1. ASSUME NEW c, c = <<"check", evalStep[k]>>
      PROVE  Fate(c, {Nothing, <<evalStep[k], "found">>}, <<evalStep[k], "found">>)
  <2>1. Len(c) = 2 /\ c[1] = "check" /\ c[2] = evalStep[k] /\ c \in Seq(Common)
    BY <1>0, <1>1 DEF Common, Calm, Plain
  <2>2. \A i \in 1..2 : i = 1 \/ i = 2
    OBVIOUS
  <2>3. 2 \in 1..Len(c) /\ evalStep[k] \in EvalWrites /\ evalStep[k] # "found"
    BY <1>0, <2>1 DEF EvalWrites
  <2>4. \A i \in 1..Len(c) : i # 2 => c[i] \notin EvalWrites \cup SettleWrites
    BY <2>1, <2>2 DEF EvalWrites, SettleWrites
  <2> QED
    BY <2>1, <2>3, <2>4, DatedFate
<1>2. ASSUME NEW c, c = <<"check", settleStep[k], evalStep[k], "check", "context", buildStep[k]>>
      PROVE  Fate(c, {Nothing, <<evalStep[k], settleStep[k]>>}, <<evalStep[k], settleStep[k]>>)
  <2>1. /\ Len(c) = 6 /\ c[1] = "check" /\ c[2] = settleStep[k] /\ c[3] = evalStep[k]
        /\ c[4] = "check" /\ c[5] = "context" /\ c[6] = buildStep[k] /\ c \in Seq(Common)
    BY <1>0, <1>2 DEF Common, Calm, Plain
  <2>2. \A i \in 1..6 : i = 1 \/ i = 2 \/ i = 3 \/ i = 4 \/ i = 5 \/ i = 6
    OBVIOUS
  <2>3. \A i \in 1..Len(c) : i # 2 /\ i # 3 => c[i] \notin EvalWrites \cup SettleWrites
    BY <1>0, <2>1, <2>2 DEF EvalWrites, SettleWrites
  <2>4. Len(c) >= 3
    BY <2>1
  <2> QED
    BY <2>1, <2>3, <2>4, QuotedFate
<1> QED
  BY <1>1, <1>2 DEF getFlatCurve, buildTermStructure

LEMMA BondFate == Fate(FloatingBond, {Nothing}, Nothing)
<1>1. FloatingBond \in Seq(Still)
  BY DEF FloatingBond, Still
<1> QED
  BY <1>1, StillIsQuiet, QuietFate

\* A bond on two curves: the second curve's dates go over the first one's.
LEMMA TwoCurveFate ==
    ASSUME NEW s, NEW t, NEW x, NEW y,
           Fate(s, {Nothing, x}, x), Fate(t, {Nothing, y}, y),
           x \in {<<"eval1", "found">>, <<"eval2", "found">>, <<"eval2", "settle2">>},
           y \in {<<"eval2", "found">>, <<"eval2", "settle2">>, <<"eval1", "settle1">>},
           y[2] = "found" => x[2] = "found"
    PROVE  Fate(s \o t \o FloatingBond, {Nothing, x, y}, y)
<1>1. After(x, Nothing) = x /\ After(y, Nothing) = y /\ After(x, y) = y
  BY DEF After, Then, Nothing
<1>2. /\ {Nothing, x} \cup {After(x, p) : p \in {Nothing, y}} = {Nothing, x, y}
      /\ {Nothing, x, y} \cup {After(y, p) : p \in {Nothing}} = {Nothing, x, y}
  BY <1>1
<1>3. Fate(s \o t, {Nothing, x} \cup {After(x, p) : p \in {Nothing, y}}, After(x, y))
  BY OneAfterTheOther
<1>4. Fate(s \o t, {Nothing, x, y}, y)
  BY <1>1, <1>2, <1>3
<1>5. Fate((s \o t) \o FloatingBond,
           {Nothing, x, y} \cup {After(y, p) : p \in {Nothing}}, After(y, Nothing))
  BY <1>4, BondFate, OneAfterTheOther
<1> QED
  BY <1>1, <1>2, <1>5

LEMMA OutcomesOf ==
    /\ \A op \in Contract!Dated : WholeOf(op) = <<"eval1", "found">> /\ PartOf(op) = {}
    /\ \A op \in Contract!Quoted : WholeOf(op) = <<"eval1", "settle1">> /\ PartOf(op) = {}
    /\ WholeOf("FloatBond1") = <<"eval2", "found">>
    /\ WholeOf("FloatBond2") = <<"eval2", "settle2">>
    /\ WholeOf("FloatBond3") = <<"eval1", "settle1">>
    /\ WholeOf("FloatBond4") = <<"eval1", "settle1">>
    /\ PartOf("FloatBond1") = {<<"eval1", "found">>}
    /\ PartOf("FloatBond2") = {<<"eval1", "found">>}
    /\ PartOf("FloatBond3") = {<<"eval2", "found">>}
    /\ PartOf("FloatBond4") = {<<"eval2", "settle2">>}
    /\ \A op \in Contract!DatedToday :
          WholeOf(op) = <<"evalToday", "found">> /\ PartOf(op) = {}
    /\ \A op \in DatedByContext : WholeOf(op) = <<"evalBack", "found">> /\ PartOf(op) = {}
    /\ \A op : op \notin Writers => WholeOf(op) = Nothing /\ PartOf(op) = {}
  BY DEF WholeOf, PartOf, Writers, Contract!Dated, Contract!Quoted, Contract!DatedToday,
         Contract!TwoCurves, DatedByContext

LEMMA AllFates ==
    ASSUME NEW op \in DOMAIN Code, op \notin {"setCalendarContext", "discountCurveEngine"}
    PROVE  Fate(Code[op], {Nothing} \cup PartOf(op) \cup {WholeOf(op)}, WholeOf(op))
<1>0. evalStep[1] = "eval1" /\ evalStep[2] = "eval2"
      /\ settleStep[1] = "settle1" /\ settleStep[2] = "settle2" /\ 1 \in 1..2 /\ 2 \in 1..2
  BY DEF evalStep, settleStep
<1>1. /\ Fate(getFlatCurve(1), {Nothing, <<"eval1", "found">>}, <<"eval1", "found">>)
      /\ Fate(getFlatCurve(2), {Nothing, <<"eval2", "found">>}, <<"eval2", "found">>)
      /\ Fate(buildTermStructure(1), {Nothing, <<"eval1", "settle1">>}, <<"eval1", "settle1">>)
      /\ Fate(buildTermStructure(2), {Nothing, <<"eval2", "settle2">>}, <<"eval2", "settle2">>)
  <2>1. /\ Fate(getFlatCurve(1), {Nothing, <<evalStep[1], "found">>}, <<evalStep[1], "found">>)
        /\ Fate(getFlatCurve(2), {Nothing, <<evalStep[2], "found">>}, <<evalStep[2], "found">>)
        /\ Fate(buildTermStructure(1), {Nothing, <<evalStep[1], settleStep[1]>>},
                <<evalStep[1], settleStep[1]>>)
        /\ Fate(buildTermStructure(2), {Nothing, <<evalStep[2], settleStep[2]>>},
                <<evalStep[2], settleStep[2]>>)
    BY <1>0, CurveFates
  <2> QED
    BY <1>0, <2>1
<1>2. CASE op \in Contract!Dated \ {"ZeroBondWithRebuiltCurve"}
  <2>1. Fate(Code[op], {Nothing, <<"eval1", "found">>}, <<"eval1", "found">>)
    <3>1. \E x, y \in {"check", "find", "context"} :
            \/ Code[op] = <<"check", "eval1">>
            \/ Code[op] = <<"check", "eval1", x, "price">>
            \/ Code[op] = <<"check", "eval1", x, y, "price">>
      <4>1. \/ op = "setEvaluationDate" \/ op = "convertibleFixedBondEngine"
            \/ op = "fittedBondCurveEngine" \/ op = "sabrengine"
            \/ op = "calibrateHullWhiteUsingCapsEngine"
            \/ op = "calibrateHullWhiteUsingSwapsEngine"
        BY <1>2 DEF Contract!Dated
      <4>2. \/ Code[op] = <<"check", "eval1">>
            \/ Code[op] = <<"check", "eval1", "check", "price">>
            \/ Code[op] = <<"check", "eval1", "find", "check", "price">>
            \/ Code[op] = <<"check", "eval1", "context", "check", "price">>
        BY <4>1 DEF Code, setEvaluationDate, convertibleFixedBondEngine,
                    fittedBondCurveEngine, sabrengine, calibrateHullWhiteUsingCapsEngine,
                    calibrateHullWhiteUsingSwapsEngine
      <4> QED
        BY <4>2
    <3> QED
      BY <3>1, ShortFate
  <2>2. WholeOf(op) = <<"eval1", "found">> /\ PartOf(op) = {}
    BY <1>2, OutcomesOf
  <2>3. {Nothing} \cup PartOf(op) \cup {WholeOf(op)} = {Nothing, <<"eval1", "found">>}
    BY <2>2
  <2> QED
    BY <2>1, <2>2, <2>3
<1>3. CASE op = "ZeroBondWithRebuiltCurve"
  <2> DEFINE x == <<"eval1", "found">>
  <2>1. Fate(zeroBondEngine, {Nothing, x}, x)
    BY ShortFate DEF zeroBondEngine
  <2>2. Fate(<<"check">>, {Nothing}, Nothing)
    <3>1. <<"check">> \in Seq(Still)
      BY DEF Still
    <3> QED
      BY <3>1, StillIsQuiet, QuietFate
  <2>3. Fate(<<"check">> \o zeroBondEngine,
             {Nothing} \cup {After(Nothing, p) : p \in {Nothing, x}}, After(Nothing, x))
    BY <2>1, <2>2, OneAfterTheOther
  <2>4. After(Nothing, x) = x /\ After(Nothing, Nothing) = Nothing
    BY DEF After, Then, Nothing
  <2>5. {Nothing} \cup {After(Nothing, p) : p \in {Nothing, x}} = {Nothing, x}
    BY <2>4
  <2>6. WholeOf(op) = x /\ PartOf(op) = {}
    BY <1>3, OutcomesOf DEF Contract!Dated
  <2>7. Code[op] = <<"check">> \o zeroBondEngine
    BY <1>3 DEF Code, ZeroBondWithRebuiltCurve
  <2>8. {Nothing} \cup PartOf(op) \cup {WholeOf(op)} = {Nothing, x}
    BY <2>6
  <2> HIDE DEF x
  <2> QED
    BY <2>3, <2>4, <2>5, <2>6, <2>7, <2>8
<1>4. CASE op \in Contract!Quoted
  <2>1. Fate(Code[op], {Nothing, <<"eval1", "settle1">>}, <<"eval1", "settle1">>)
    <3>1. \/ Code[op] = <<"check", "settle1", "eval1", "context", "check", "price", "check">>
          \/ Code[op] = <<"check", "settle1", "eval1", "check", "context", "check", "price",
                          "check">>
      BY <1>4 DEF Contract!Quoted, Code, bermudanFromYieldEngine,
                  bermudanWithRebuiltCurveEngine, affineWithRebuiltCurveEngine
    <3> QED
      BY <3>1, SwaptionFate
  <2>2. WholeOf(op) = <<"eval1", "settle1">> /\ PartOf(op) = {}
    BY <1>4, OutcomesOf
  <2>3. {Nothing} \cup PartOf(op) \cup {WholeOf(op)} = {Nothing, <<"eval1", "settle1">>}
    BY <2>2
  <2> QED
    BY <2>1, <2>2, <2>3
<1>5. ASSUME NEW x, NEW y, Fate(Code[op], {Nothing, x, y}, y), PartOf(op) = {x}, WholeOf(op) = y
      PROVE  Fate(Code[op], {Nothing} \cup PartOf(op) \cup {WholeOf(op)}, WholeOf(op))
  <2>1. {Nothing} \cup PartOf(op) \cup {WholeOf(op)} = {Nothing, x, y}
    BY <1>5
  <2> QED
    BY <1>5, <2>1
<1>6. CASE op = "FloatBond1"
  <2> DEFINE x == <<"eval1", "found">>
             y == <<"eval2", "found">>
  <2>1. Fate(FloatBond1, {Nothing, x, y}, y)
    BY <1>1, TwoCurveFate DEF FloatBond1
  <2>2. PartOf(op) = {x} /\ WholeOf(op) = y /\ Code[op] = FloatBond1
    BY <1>6, OutcomesOf DEF Code
  <2> QED
    BY <1>5, <2>1, <2>2
<1>7. CASE op = "FloatBond2"
  <2> DEFINE x == <<"eval1", "found">>
             y == <<"eval2", "settle2">>
  <2>1. Fate(FloatBond2, {Nothing, x, y}, y)
    BY <1>1, TwoCurveFate DEF FloatBond2
  <2>2. PartOf(op) = {x} /\ WholeOf(op) = y /\ Code[op] = FloatBond2
    BY <1>7, OutcomesOf DEF Code
  <2> QED
    BY <1>5, <2>1, <2>2
<1>8. CASE op = "FloatBond3"
  <2> DEFINE x == <<"eval2", "found">>
             y == <<"eval1", "settle1">>
  <2>1. Fate(FloatBond3, {Nothing, x, y}, y)
    BY <1>1, TwoCurveFate DEF FloatBond3
  <2>2. PartOf(op) = {x} /\ WholeOf(op) = y /\ Code[op] = FloatBond3
    BY <1>8, OutcomesOf DEF Code
  <2> QED
    BY <1>5, <2>1, <2>2
<1>9. CASE op = "FloatBond4"
  <2> DEFINE x == <<"eval2", "settle2">>
             y == <<"eval1", "settle1">>
  <2>1. Fate(FloatBond4, {Nothing, x, y}, y)
    BY <1>1, TwoCurveFate DEF FloatBond4
  <2>2. PartOf(op) = {x} /\ WholeOf(op) = y /\ Code[op] = FloatBond4
    BY <1>9, OutcomesOf DEF Code
  <2> QED
    BY <1>5, <2>1, <2>2
<1>10. CASE op \in Contract!DatedToday
  <2>1. Code[op] = <<"check", "evalToday", "check", "price">>
    BY <1>10 DEF Contract!DatedToday, Code, asianOptionEngine, europeanOptionArraysEngine
  <2>2. Fate(Code[op], {Nothing, <<"evalToday", "found">>}, <<"evalToday", "found">>)
    BY <2>1, ShortFate
  <2>3. WholeOf(op) = <<"evalToday", "found">> /\ PartOf(op) = {}
    BY <1>10, OutcomesOf
  <2>4. {Nothing} \cup PartOf(op) \cup {WholeOf(op)} = {Nothing, <<"evalToday", "found">>}
    BY <2>3
  <2> QED
    BY <2>2, <2>3, <2>4
<1>11. CASE op \in DatedByContext
  <2>1. Code[op] = <<"check", "context", "evalBack", "check", "price">>
    BY <1>11 DEF DatedByContext, Code, zeroPriceByYieldEngine, zeroYieldByPriceEngine,
                 zeroprice, zeroyield
  <2>2. Fate(Code[op], {Nothing, <<"evalBack", "found">>}, <<"evalBack", "found">>)
    BY <2>1, ShortFate
  <2>3. WholeOf(op) = <<"evalBack", "found">> /\ PartOf(op) = {}
    BY <1>11, OutcomesOf
  <2>4. {Nothing} \cup PartOf(op) \cup {WholeOf(op)} = {Nothing, <<"evalBack", "found">>}
    BY <2>3
  <2> QED
    BY <2>2, <2>3, <2>4
<1>12. CASE op \notin Writers
  <2>1. Fate(Code[op], {Nothing}, Nothing)
    BY <1>12, StillCode, StillIsQuiet, QuietFate
  <2>2. WholeOf(op) = Nothing /\ PartOf(op) = {}
    BY <1>12, OutcomesOf
  <2>3. {Nothing} \cup PartOf(op) \cup {WholeOf(op)} = {Nothing}
    BY <2>2
  <2> QED
    BY <2>1, <2>2, <2>3
<1> QED
  BY <1>2, <1>3, <1>4, <1>6, <1>7, <1>8, <1>9, <1>10, <1>11, <1>12
     DEF Writers, Contract!TwoCurves

-----------------------------------------------------------------------------
(* The inductive invariant: what a call that runs has not written is still *)
(* what it found.                                                          *)

Untouched ==
    LET c == Code[call.op]
    IN  /\ LastOf(c, call.pc, EvalWrites, "found") => evalDate = call.entry.evalDate
        /\ LastOf(c, call.pc, SettleWrites, "found") => settleDate = call.entry.settleDate
        /\ LastIs(c, call.pc, EvalWrites, "evalToday") =>
             evalDate \in call.entry.today..today

\* How far setCalendarContext has come; no other engine takes its steps.
ContextKept ==
    IF call.op = "setCalendarContext"
    THEN /\ evalDate = call.entry.evalDate
         /\ call.pc <= 2 => fixingDays = call.entry.fixingDays
         /\ calendar = IF call.pc <= 5 THEN call.entry.calendar ELSE call.name
    ELSE calendar = call.entry.calendar /\ fixingDays = call.entry.fixingDays

EntryInv ==
    call.status = "running" => /\ call.entry.today <= today
                               /\ Untouched /\ ContextKept

LEMMA NothingWritten == \A c, W : LastOf(c, 1, W, "found") /\ ~LastIs(c, 1, W, "evalToday")
  BY DEF LastOf, LastIs

\* One step on, nothing is written if this step does not write and nothing
\* was written before.
LEMMA OneStepQuiet ==
    ASSUME TypeOK, NEW step, At(step), call'.op = call.op, call'.pc = call.pc + 1,
           NEW W, LastOf(Code[call'.op], call'.pc, W, "found")
    PROVE  step \notin W /\ LastOf(Code[call.op], call.pc, W, "found")
<1>1. /\ call.pc \in Nat \ {0} /\ Code[call.op][call.pc] = step
  BY DEF TypeOK, CallType, At
<1>2. \A m \in 1..((call.pc + 1) - 1) : Code[call.op][m] \notin W
  BY DEF LastOf
<1>3. /\ call.pc \in 1..((call.pc + 1) - 1)
      /\ \A m \in 1..(call.pc - 1) : m \in 1..((call.pc + 1) - 1)
  BY <1>1
<1> QED
  BY <1>1, <1>2, <1>3 DEF LastOf

LEMMA EntryStep ==
    ASSUME TypeOK, EntryInv, NEW step, Writes(step)
    PROVE  EntryInv'
<1>1. /\ At(step) /\ call'.op = call.op /\ call'.pc = call.pc + 1
      /\ call'.s = call.s /\ call'.d = call.d /\ call'.name = call.name
      /\ call'.entry = call.entry /\ call.status = "running" /\ today' = today
  BY DEF Writes, Moved, At
<1>2. /\ call.entry.today \in Nat /\ today \in Nat /\ call.pc \in Nat
      /\ call.entry.today <= today /\ Untouched /\ ContextKept
  BY <1>1 DEF TypeOK, CallType, Dates, EntryInv
<1>3. \A k \in 1..2 : /\ evalStep[k] \in EvalWrites \ {"evalToday"}
                      /\ settleStep[k] \in SettleWrites
  BY DEF evalStep, settleStep, EvalWrites, SettleWrites
<1>4. step \notin EvalWrites => evalDate' = evalDate
  BY <1>3 DEF Writes, EvalWrites
<1>5. step \notin SettleWrites => settleDate' = settleDate
  BY <1>3 DEF Writes
<1>6. Untouched'
  <2>1. ASSUME LastOf(Code[call'.op], call'.pc, EvalWrites, "found")
        PROVE  evalDate' = call.entry.evalDate
    BY <1>1, <1>2, <1>4, <2>1, OneStepQuiet DEF Untouched
  <2>2. ASSUME LastOf(Code[call'.op], call'.pc, SettleWrites, "found")
        PROVE  settleDate' = call.entry.settleDate
    BY <1>1, <1>2, <1>5, <2>2, OneStepQuiet DEF Untouched
  <2>3. ASSUME LastIs(Code[call'.op], call'.pc, EvalWrites, "evalToday")
        PROVE  evalDate' \in call.entry.today..today
    <3>1. \/ step = "evalToday"
          \/ step \notin EvalWrites
             /\ LastIs(Code[call.op], call.pc, EvalWrites, "evalToday")
      BY <1>1, <2>3, OneStepOn
    <3>2. CASE step = "evalToday"
      <4>1. evalDate' = today
        BY <1>3, <3>2 DEF Writes, EvalWrites
      <4> QED
        BY <1>2, <4>1
    <3>3. CASE /\ step \notin EvalWrites
               /\ LastIs(Code[call.op], call.pc, EvalWrites, "evalToday")
      BY <1>2, <1>4, <3>3 DEF Untouched
    <3> QED
      BY <3>1, <3>2, <3>3
  <2> QED
    BY <1>1, <2>1, <2>2, <2>3 DEF Untouched
<1>7. ContextKept'
  <2>1. CASE call.op = "setCalendarContext"
    <3>1. \/ call.pc = 1 /\ step = "check"
          \/ call.pc = 2 /\ step = "fixing"
          \/ call.pc = 3 /\ step = "settle1"
          \/ call.pc = 4 /\ step = "find"
          \/ call.pc = 5 /\ step = "calendar"
      BY <1>1, <2>1, ContextAt
    <3>2. evalDate' = evalDate
      BY <1>4, <3>1 DEF EvalWrites
    <3>3. /\ calendar' = IF step = "calendar" THEN call.name ELSE calendar
          /\ fixingDays' = IF step = "fixing" THEN call.lag ELSE fixingDays
      BY DEF Writes
    <3> QED
      BY <1>1, <1>2, <2>1, <3>1, <3>2, <3>3 DEF ContextKept
  <2>2. CASE call.op # "setCalendarContext"
    <3>1. step # "calendar" /\ step # "fixing"
      BY <1>1, <2>2, RareAt, CurveAt
    <3>2. calendar' = calendar /\ fixingDays' = fixingDays
      BY <3>1 DEF Writes
    <3> QED
      BY <1>1, <1>2, <2>2, <3>2 DEF ContextKept
  <2> QED
    BY <2>1, <2>2
<1> QED
  BY <1>1, <1>2, <1>6, <1>7 DEF EntryInv

LEMMA EntryNext == TypeOK /\ EntryInv /\ [Next]_vars => EntryInv'
<1> SUFFICES ASSUME TypeOK, EntryInv, [Next]_vars PROVE EntryInv'
  OBVIOUS
<1>1. ASSUME NEW step, Writes(step) PROVE EntryInv'
  BY <1>1, EntryStep
<1>2. CASE Ends
  BY <1>2 DEF Ends, EntryInv
<1>3. CASE Starts
  <2>1. /\ call'.pc = 1 /\ call'.entry.evalDate = evalDate
        /\ call'.entry.settleDate = settleDate /\ call'.entry.calendar = calendar
        /\ call'.entry.fixingDays = fixingDays /\ call'.entry.today = today
        /\ UNCHANGED <<evalDate, settleDate, calendar, fixingDays, today>>
    BY <1>3 DEF Starts, Entry, settings
  <2>2. today \in Nat
    BY DEF TypeOK, Dates
  <2>3. Untouched'
    BY <2>1, NothingWritten DEF Untouched
  <2>4. ContextKept'
    BY <2>1 DEF ContextKept
  <2> QED
    BY <2>1, <2>2, <2>3, <2>4 DEF EntryInv
<1>4. CASE Waits
  <2>1. /\ call' = call /\ UNCHANGED <<evalDate, settleDate, calendar, fixingDays>>
        /\ today' \in {today, today + 1}
    BY <1>4 DEF Waits, settings
  <2>2. today \in Nat /\ call.entry.today \in Nat
    BY DEF TypeOK, CallType, Dates
  <2>3. call.entry.today..today \subseteq call.entry.today..today'
    BY <2>1, <2>2
  <2>4. call.status = "running" => call.entry.today <= today'
    BY <2>1, <2>2 DEF EntryInv
  <2>5. Untouched => Untouched'
    BY <2>1, <2>3 DEF Untouched
  <2>6. ContextKept => ContextKept'
    BY <2>1 DEF ContextKept
  <2> QED
    BY <2>1, <2>4, <2>5, <2>6 DEF EntryInv
<1> QED
  BY <1>1, <1>2, <1>3, <1>4, NextIs

Known == IInv /\ DatesInv /\ EntryInv

LEMMA AlwaysKnown == Spec => []Known
<1>1. Init => EntryInv
  BY DEF Init, NewCall, EntryInv
<1>2. IInv => TypeOK
  BY DEF IInv
<1>3. Spec => []EntryInv
  BY <1>1, <1>2, AlwaysIInv, EntryNext, PTL DEF Spec
<1> QED
  BY <1>3, AlwaysIInv, AlwaysDates, PTL DEF Known

-----------------------------------------------------------------------------
(* What the contract says of a call that runs, in the terms of RQLSession. *)

Pair == <<evalDate, settleDate>>

LEMMA Said ==
    ASSUME TypeOK, call.status = "running"
    PROVE  /\ Contract!Found = <<call.entry.evalDate, call.entry.settleDate>>
           /\ call.op \in Contract!Dated =>
                Contract!Whole = {<<call.d[1], call.entry.settleDate>>}
           /\ call.op \in Contract!Quoted => Contract!Whole = {<<call.d[1], call.s[1]>>}
           /\ call.op = "FloatBond1" =>
                /\ Contract!Whole = {<<call.d[2], call.entry.settleDate>>}
                /\ Contract!Part = {<<call.d[1], call.entry.settleDate>>}
           /\ call.op = "FloatBond2" =>
                /\ Contract!Whole = {<<call.d[2], call.s[2]>>}
                /\ Contract!Part = {<<call.d[1], call.entry.settleDate>>}
           /\ call.op = "FloatBond3" =>
                /\ Contract!Whole = {<<call.d[1], call.s[1]>>}
                /\ Contract!Part = {<<call.d[2], call.entry.settleDate>>}
           /\ call.op = "FloatBond4" =>
                /\ Contract!Whole = {<<call.d[1], call.s[1]>>}
                /\ Contract!Part = {<<call.d[2], call.s[2]>>}
           /\ call.op \in Contract!DatedToday =>
                Contract!Whole = {<<e, call.entry.settleDate>> : e \in call.entry.today..today}
           /\ call.op \in DatedByContext =>
                Contract!Whole = {<<e, call.entry.settleDate>> : e \in {OwnFixing} \ {None}}
           /\ call.op = "discountCurveEngine" =>
                /\ Contract!Whole =
                     {<<e, call.s[1]>> :
                        e \in IF call.entry.evalDate = None THEN call.entry.today..today
                              ELSE {call.entry.evalDate}}
                /\ Contract!Part = {<<call.d[1], call.s[1]>>}
           /\ call.op \notin Writers => Contract!Whole = {Contract!Found}
<1> USE DEF Visible, Interface, Contract!Flat, Contract!Quotes, Contract!Found,
            Contract!Dated, Contract!Quoted, Contract!TwoCurves, Contract!DatedToday,
            Contract!DatedByContext, DatedByContext
<1>1. Contract!Found = <<call.entry.evalDate, call.entry.settleDate>>
  OBVIOUS
<1>2. CASE call.op \in Contract!Dated
  BY <1>2 DEF Contract!Whole, Writers
<1>3. CASE call.op \in Contract!Quoted
  BY <1>3 DEF Contract!Whole, Writers
<1>4. CASE call.op = "FloatBond1"
  BY <1>4 DEF Contract!Whole, Contract!Part, Writers
<1>5. CASE call.op = "FloatBond2"
  BY <1>5 DEF Contract!Whole, Contract!Part, Writers
<1>6. CASE call.op = "FloatBond3"
  BY <1>6 DEF Contract!Whole, Contract!Part, Writers
<1>7. CASE call.op = "FloatBond4"
  BY <1>7 DEF Contract!Whole, Contract!Part, Writers
<1>8. CASE call.op \in Contract!DatedToday
  BY <1>8 DEF Contract!Whole, Writers
<1>9. CASE call.op \in DatedByContext
  BY <1>9 DEF Contract!Whole, Writers, OwnFixing
<1>10. CASE call.op = "discountCurveEngine"
  BY <1>10 DEF Contract!Whole, Contract!Part, Writers
<1>11. CASE call.op \notin Writers \ {"setCalendarContext"}
  BY <1>11 DEF Contract!Whole, Writers
<1> QED
  BY <1>1, <1>2, <1>3, <1>4, <1>5, <1>6, <1>7, <1>8, <1>9, <1>10, <1>11 DEF Writers

\* What the settings hold when the writes before a step are known.
LEMMA Held ==
    ASSUME Known, call.status = "running", NEW p, Stands(Code[call.op], call.pc, p)
    PROVE  /\ p[1] = "found" => evalDate = call.entry.evalDate
           /\ p[1] = "eval1" => evalDate = call.d[1]
           /\ p[1] = "eval2" => evalDate = call.d[2]
           /\ p[1] = "evalToday" => evalDate \in call.entry.today..today
           /\ p[1] = "evalBack" /\ call.op \in DatedByContext =>
                evalDate = OwnFixing /\ evalDate # None
           /\ p[2] = "found" => settleDate = call.entry.settleDate
           /\ p[2] = "settle1" => settleDate = call.s[1]
           /\ p[2] = "settle2" => settleDate = call.s[2]
<1>1. /\ LastOf(Code[call.op], call.pc, EvalWrites, p[1])
      /\ LastOf(Code[call.op], call.pc, SettleWrites, p[2])
  BY DEF Stands
<1>2. Untouched /\ LastWritten /\ FixingInv /\ TypeOK
  BY DEF Known, EntryInv, DatesInv, IInv
<1>3. /\ evalStep[1] = "eval1" /\ evalStep[2] = "eval2" /\ 1 \in 1..2 /\ 2 \in 1..2
      /\ settleStep[1] = "settle1" /\ settleStep[2] = "settle2"
  BY DEF evalStep, settleStep
<1>4. /\ p[1] = "found" => evalDate = call.entry.evalDate
      /\ p[2] = "found" => settleDate = call.entry.settleDate
      /\ p[1] = "evalToday" => evalDate \in call.entry.today..today
  BY <1>1, <1>2 DEF Untouched, LastOf
<1>5. /\ p[1] # "found" => LastIs(Code[call.op], call.pc, EvalWrites, p[1])
      /\ p[2] # "found" => LastIs(Code[call.op], call.pc, SettleWrites, p[2])
  BY <1>1 DEF LastOf
<1>6. /\ p[1] = "eval1" => evalDate = call.d[1]
      /\ p[1] = "eval2" => evalDate = call.d[2]
      /\ p[2] = "settle1" => settleDate = call.s[1]
      /\ p[2] = "settle2" => settleDate = call.s[2]
  BY <1>2, <1>3, <1>5 DEF LastWritten
<1>7. ASSUME p[1] = "evalBack", call.op \in DatedByContext
      PROVE  evalDate = OwnFixing /\ evalDate # None
  <2> DEFINE c == Code[call.op]
  <2>1. c = <<"check", "context", "evalBack", "check", "price">>
    BY <1>7 DEF DatedByContext, Code, zeroPriceByYieldEngine, zeroYieldByPriceEngine,
                zeroprice, zeroyield
  <2>2. LastIs(c, call.pc, EvalWrites, "evalBack")
    BY <1>5, <1>7
  <2>3. call.pc \in Nat
    BY <1>2 DEF TypeOK, CallType
  <2> HIDE DEF c
  <2>4. PICK j \in 1..(call.pc - 1) : c[j] = "evalBack"
    BY <2>2 DEF LastIs
  <2>5. c[1] = "check" /\ c[2] = "context"
    BY <2>1
  <2>6. j # 1 /\ j # 2
    BY <2>4, <2>5
  <2>7. call.pc > 3
    BY <2>3, <2>4, <2>6
  <2> QED
    BY <1>2, <1>7, <2>7 DEF FixingInv
<1> QED
  BY <1>4, <1>6, <1>7

\* Hence every outcome of an engine's code is one the contract allows.
LEMMA Allowed ==
    ASSUME Known, call.status = "running",
           call.op \notin {"setCalendarContext", "discountCurveEngine"},
           NEW p \in {Nothing} \cup PartOf(call.op) \cup {WholeOf(call.op)},
           Stands(Code[call.op], call.pc, p)
    PROVE  /\ Pair \in {Contract!Found} \cup Contract!Part \cup Contract!Whole
           /\ p = WholeOf(call.op) => Pair \in Contract!Whole
<1>0. TypeOK
  BY DEF Known, IInv
<1>1. CASE p = Nothing
  <2>1. Pair = Contract!Found
    BY <1>0, <1>1, Held, Said DEF Nothing, Pair
  <2>2. call.op \in Writers => WholeOf(call.op) # Nothing
    BY OutcomesOf DEF Writers, Contract!TwoCurves, Nothing
  <2>3. call.op \notin Writers => Contract!Whole = {Contract!Found}
    BY <1>0, Said
  <2> QED
    BY <1>1, <2>1, <2>2, <2>3
<1>2. CASE p \in PartOf(call.op)
  <2>1. call.op \in {"FloatBond1", "FloatBond2", "FloatBond3", "FloatBond4"}
    BY <1>2, OutcomesOf DEF Writers, Contract!TwoCurves
  <2>2. Pair \in Contract!Part
    <3>1. CASE call.op \in {"FloatBond1", "FloatBond2"}
      <4>1. p = <<"eval1", "found">>
        BY <1>2, <3>1, OutcomesOf
      <4> QED
        BY <1>0, <3>1, <4>1, Held, Said DEF Pair
    <3>2. CASE call.op = "FloatBond3"
      <4>1. p = <<"eval2", "found">>
        BY <1>2, <3>2, OutcomesOf
      <4> QED
        BY <1>0, <3>2, <4>1, Held, Said DEF Pair
    <3>3. CASE call.op = "FloatBond4"
      <4>1. p = <<"eval2", "settle2">>
        BY <1>2, <3>3, OutcomesOf
      <4> QED
        BY <1>0, <3>3, <4>1, Held, Said DEF Pair
    <3> QED
      BY <2>1, <3>1, <3>2, <3>3
  <2>3. p # WholeOf(call.op)
    BY <1>2, <2>1, OutcomesOf
  <2> QED
    BY <2>2, <2>3
<1>3. CASE p = WholeOf(call.op)
  <2>1. CASE call.op \in Contract!Dated
    BY <1>0, <1>3, <2>1, OutcomesOf, Held, Said DEF Pair
  <2>2. CASE call.op \in Contract!Quoted
    BY <1>0, <1>3, <2>2, OutcomesOf, Held, Said DEF Pair
  <2>3. CASE call.op \in Contract!TwoCurves
    <3>1. \/ call.op = "FloatBond1" \/ call.op = "FloatBond2"
          \/ call.op = "FloatBond3" \/ call.op = "FloatBond4"
      BY <2>3 DEF Contract!TwoCurves
    <3> QED
      BY <1>0, <1>3, <3>1, OutcomesOf, Held, Said DEF Pair
  <2>4. CASE call.op \in Contract!DatedToday
    BY <1>0, <1>3, <2>4, OutcomesOf, Held, Said DEF Pair
  <2>5. CASE call.op \in DatedByContext
    BY <1>0, <1>3, <2>5, OutcomesOf, Held, Said DEF Pair
  <2>6. CASE call.op \notin Writers
    BY <1>1, <1>3, <2>6, OutcomesOf
  <2> QED
    BY <2>1, <2>2, <2>3, <2>4, <2>5, <2>6 DEF Writers
<1> QED
  BY <1>1, <1>2, <1>3

-----------------------------------------------------------------------------
(* The mapping: a call that starts or moves on changes nothing a caller    *)
(* sees, and a call that ends takes one step of the contract.              *)

CallsOf == [op : Ops, d : Dates \X Dates, s : Dates \X Dates,
            name : Names, lag : Offsets, began : Dates,
            status : {"idle", "running", "returned", "threw"}]

LEMMA InterfaceTyped == TypeOK => Interface \in CallsOf
  BY DEF TypeOK, CallType, Interface, CallsOf

LEMMA StartsLikeContract == Init => Contract!Init
<1> SUFFICES ASSUME Init PROVE Contract!Init
  OBVIOUS
<1>1. TypeOK /\ Interface \in CallsOf
  BY TypeInit, InterfaceTyped
<1>2. call.status = "idle"
  BY DEF Init, NewCall
<1>3. Interface.status = "idle"
  BY <1>2 DEF Interface
<1> QED
  BY <1>1, <1>2, <1>3 DEF Init, Contract!Init, Visible, CallsOf

SeenUnchanged ==
    /\ Visible(call.entry.evalDate, evalDate)' = Visible(call.entry.evalDate, evalDate)
    /\ Visible(call.entry.settleDate, settleDate)' =
         Visible(call.entry.settleDate, settleDate)
    /\ Visible(call.entry.calendar, calendar)' = Visible(call.entry.calendar, calendar)
    /\ Visible(call.entry.fixingDays, fixingDays)' =
         Visible(call.entry.fixingDays, fixingDays)

LEMMA MovingOnUnseen ==
    ASSUME NEW step, Writes(step)
    PROVE  UNCHANGED Contract!vars
<1>1. /\ call.status = "running" /\ call'.status = call.status
      /\ call'.entry = call.entry /\ today' = today
      /\ call'.op = call.op /\ call'.d = call.d /\ call'.s = call.s
      /\ call'.name = call.name /\ call'.lag = call.lag
  BY DEF Writes, Moved, At
<1>2. SeenUnchanged
  BY <1>1 DEF SeenUnchanged, Visible
<1>3. Interface' = Interface
  BY <1>1 DEF Interface
<1> QED
  BY <1>1, <1>2, <1>3 DEF SeenUnchanged, Contract!vars, Contract!settings

LEMMA BeginningSeen ==
    ASSUME TypeOK, TypeOK', NEW op \in Ops, Begin(op)
    PROVE  Contract!Begin
<1>1. /\ call.status # "running" /\ call'.status = "running"
      /\ call'.entry = Entry
      /\ UNCHANGED <<evalDate, settleDate, calendar, fixingDays, today>>
  BY DEF Begin, NewCall, settings
<1>2. SeenUnchanged
  BY <1>1 DEF SeenUnchanged, Visible, Entry
<1>3. Interface' \in CallsOf
  BY InterfaceTyped DEF TypeOK, CallType, Interface, CallsOf
<1>4. /\ Interface.status # "running" /\ Interface'.status = "running"
      /\ Interface'.began = today
  BY <1>1 DEF Interface, Entry
<1> QED
  BY <1>1, <1>2, <1>3, <1>4
     DEF SeenUnchanged, CallsOf, Contract!Begin, Contract!settings

LEMMA MidnightSeen == ASSUME Midnight PROVE Contract!Midnight
<1>1. /\ today < MaxDay /\ today' = today + 1 /\ call' = call
      /\ UNCHANGED <<evalDate, settleDate, calendar, fixingDays>>
  BY DEF Midnight, settings
<1>2. SeenUnchanged /\ Interface' = Interface
  BY <1>1 DEF SeenUnchanged, Visible, Interface
<1> QED
  BY <1>1, <1>2 DEF SeenUnchanged, Contract!Midnight, Contract!settings

\* A call that ends shows what the settings hold.
Shown(how) ==
    /\ Contract!End(how)
    /\ Visible(call.entry.evalDate, evalDate)' = evalDate
    /\ Visible(call.entry.settleDate, settleDate)' = settleDate
    /\ Visible(call.entry.calendar, calendar)' = calendar
    /\ Visible(call.entry.fixingDays, fixingDays)' = fixingDays

LEMMA Ending ==
    ASSUME TypeOK, NEW how \in {"threw", "returned"}, call.status = "running",
           call' = [call EXCEPT !.status = how], UNCHANGED <<settings, today>>
    PROVE  Shown(how)
<1>1. /\ call'.op = call.op /\ call'.d = call.d /\ call'.s = call.s
      /\ call'.name = call.name /\ call'.lag = call.lag
      /\ call'.entry = call.entry /\ call'.status = how
  BY DEF TypeOK, CallType
<1>2. Interface' = [Interface EXCEPT !.status = how] /\ Interface.status = "running"
  BY <1>1 DEF Interface
<1>3. how # "running"
  OBVIOUS
<1> QED
  BY <1>1, <1>2, <1>3 DEF Shown, Contract!End, Visible, settings

LEMMA OthersEnd ==
    ASSUME Known, call.status = "running", call.op # "setCalendarContext"
    PROVE  /\ Shown("threw") /\ Pair \in {Contract!Found} \cup Contract!Part \cup Contract!Whole
                => Contract!Throws
           /\ Shown("returned") /\ Pair \in Contract!Whole => Contract!Returns
<1>1. calendar = call.entry.calendar /\ fixingDays = call.entry.fixingDays
  BY DEF Known, EntryInv, ContextKept
<1>2. Interface.op # "setCalendarContext"
  BY DEF Interface
<1>3. /\ Visible(call.entry.calendar, calendar) = calendar
      /\ Visible(call.entry.fixingDays, fixingDays) = fixingDays
  BY <1>1 DEF Visible
<1>4. ASSUME Shown("threw"),
             Pair \in {Contract!Found} \cup Contract!Part \cup Contract!Whole
      PROVE  Contract!Throws
  BY <1>2, <1>3, <1>4 DEF Shown, Pair, Contract!Throws
<1>5. ASSUME Shown("returned"), Pair \in Contract!Whole PROVE Contract!Returns
  BY <1>2, <1>3, <1>5 DEF Shown, Pair, Contract!Returns
<1> QED
  BY <1>4, <1>5

\* Where the discount curve may throw, and what it has written there.
LEMMA CurveOutcome ==
    ASSUME Known, call.status = "running", call.op = "discountCurveEngine"
    PROVE  /\ call.pc \in 1..Len(Code[call.op]) /\ Code[call.op][call.pc] \in May =>
                Pair \in {Contract!Found} \cup Contract!Part \cup Contract!Whole
           /\ call.pc = Len(Code[call.op]) + 1 => Pair \in Contract!Whole
<1> DEFINE c == Code["discountCurveEngine"]
<1>0. /\ CurveInv /\ Untouched /\ TypeOK /\ call.pc \in Nat
  BY DEF Known, IInv, EntryInv, TypeOK, CallType
<1>1. /\ Len(c) = 10 /\ c[1] = "check" /\ c[2] = "settle1" /\ c[3] = "save"
      /\ c[4] = "eval1" /\ c[5] = "check" /\ c[6] = "context" /\ c[7] = "build1"
      /\ c[8] = "price" /\ c[9] = "restore" /\ c[10] = "table"
  BY CurveCode
<1> HIDE DEF c
<1>2. ASSUME call.pc = 1 PROVE Pair = Contract!Found
  <2>1. evalDate = call.entry.evalDate /\ settleDate = call.entry.settleDate
    BY <1>0, <1>2, NothingWritten DEF Untouched
  <2> QED
    BY <1>0, <2>1, Said DEF Pair
<1>3. ASSUME call.pc \in 5..9 PROVE Pair \in Contract!Part
  <2>1. evalDate = call.d[1] /\ settleDate = call.s[1]
    BY <1>0, <1>3 DEF CurveInv
  <2> QED
    BY <1>0, <2>1, Said DEF Pair
<1>4. ASSUME call.pc > 9 PROVE Pair \in Contract!Whole
  <2>1. evalDate = call.saved /\ SavedFromEntry /\ settleDate = call.s[1]
    BY <1>0, <1>4 DEF CurveInv
  <2>2. evalDate \in IF call.entry.evalDate = None THEN call.entry.today..today
                     ELSE {call.entry.evalDate}
    BY <2>1 DEF SavedFromEntry
  <2> QED
    BY <1>0, <2>1, <2>2, Said DEF Pair
<1>5. ASSUME call.pc \in 1..Len(c), c[call.pc] \in May
      PROVE  call.pc = 1 \/ call.pc \in 5..9 \/ call.pc > 9
  <2>1. \/ call.pc = 1 \/ call.pc = 2 \/ call.pc = 3 \/ call.pc = 4
        \/ call.pc \in 5..9 \/ call.pc > 9
    BY <1>0, <1>5
  <2>2. c[2] \notin May /\ c[3] \notin May /\ c[4] \notin May
    BY <1>1 DEF May
  <2> QED
    BY <1>5, <2>1, <2>2
<1>6. ASSUME call.pc \in 1..Len(c), c[call.pc] \in May
      PROVE  Pair \in {Contract!Found} \cup Contract!Part \cup Contract!Whole
  BY <1>2, <1>3, <1>4, <1>5, <1>6
<1>7. ASSUME call.pc = Len(c) + 1 PROVE Pair \in Contract!Whole
  <2>1. call.pc > 9
    BY <1>1, <1>7
  <2> QED
    BY <1>4, <2>1
<1>8. c = Code[call.op]
  BY DEF c
<1> QED
  BY <1>6, <1>7, <1>8

LEMMA Outcome ==
    ASSUME Known, call.status = "running", call.op # "setCalendarContext"
    PROVE  /\ call.pc \in 1..Len(Code[call.op]) /\ Code[call.op][call.pc] \in May =>
                Pair \in {Contract!Found} \cup Contract!Part \cup Contract!Whole
           /\ call.pc = Len(Code[call.op]) + 1 => Pair \in Contract!Whole
<1>1. CASE call.op = "discountCurveEngine"
  BY <1>1, CurveOutcome
<1>2. CASE call.op # "discountCurveEngine"
  <2> DEFINE X == {Nothing} \cup PartOf(call.op) \cup {WholeOf(call.op)}
  <2>1. call.op \in DOMAIN Code
    BY OpsAssumption DEF Known, IInv, TypeOK, CallType
  <2>2. Fate(Code[call.op], X, WholeOf(call.op))
    BY <1>2, <2>1, AllFates
  <2>3. \A p \in X : Stands(Code[call.op], call.pc, p) =>
          /\ Pair \in {Contract!Found} \cup Contract!Part \cup Contract!Whole
          /\ p = WholeOf(call.op) => Pair \in Contract!Whole
    BY <1>2, Allowed
  <2>4. WholeOf(call.op) \in X
    OBVIOUS
  <2> HIDE DEF X
  <2>5. ASSUME call.pc \in 1..Len(Code[call.op]), Code[call.op][call.pc] \in May
        PROVE  Pair \in {Contract!Found} \cup Contract!Part \cup Contract!Whole
    <3>1. PICK p \in X : Stands(Code[call.op], call.pc, p)
      BY <2>2, <2>5 DEF Fate
    <3> QED
      BY <2>3, <3>1
  <2>6. ASSUME call.pc = Len(Code[call.op]) + 1 PROVE Pair \in Contract!Whole
    <3>1. Stands(Code[call.op], call.pc, WholeOf(call.op))
      BY <2>2, <2>6 DEF Fate
    <3> QED
      BY <2>3, <2>4, <3>1
  <2> QED
    BY <2>5, <2>6
<1> QED
  BY <1>1, <1>2

LEMMA ThrowSeen == ASSUME Known, Throw PROVE Contract!Next
<1>0. TypeOK /\ ContextInv
  BY DEF Known, IInv
<1>1. /\ call.status = "running" /\ call.pc \in 1..Len(Code[call.op])
      /\ Code[call.op][call.pc] \in May
  BY DEF Throw, At, May
<1>2. Shown("threw")
  BY <1>0, <1>1, Ending DEF Throw
<1>3. CASE call.op # "setCalendarContext"
  <2>1. Contract!Throws
    BY <1>1, <1>2, <1>3, Outcome, OthersEnd
  <2> QED
    BY <2>1 DEF Contract!Next
<1>4. CASE call.op = "setCalendarContext"
  <2>0. /\ ContextKept /\ Untouched /\ Interface.op = "setCalendarContext"
        /\ Interface.lag = call.lag /\ Interface.s = call.s /\ Interface.name = call.name
    BY <1>1, <1>4 DEF Known, EntryInv, Interface
  <2>1. PICK step \in May : At(step) /\ (step = "find" => call.name \notin Calendars)
    BY DEF Throw, May, At
  <2>2. \/ call.pc = 1
        \/ call.pc = 4 /\ call.name \notin Calendars
    BY <1>4, <2>1, ContextAt DEF May
  <2>3. CASE call.pc = 1
    <3>1. /\ evalDate = call.entry.evalDate /\ settleDate = call.entry.settleDate
          /\ calendar = call.entry.calendar /\ fixingDays = call.entry.fixingDays
      BY <1>4, <2>0, <2>3, NothingWritten DEF Untouched, ContextKept
    <3>2. Contract!ContextRefused
      BY <1>1, <1>2, <2>0, <3>1
         DEF Shown, Visible, Contract!ContextRefused, Contract!settings
    <3> QED
      BY <3>2 DEF Contract!Next
  <2>4. CASE call.pc = 4 /\ call.name \notin Calendars
    <3>1. /\ evalDate = call.entry.evalDate /\ calendar = call.entry.calendar
          /\ fixingDays = call.lag /\ settleDate = call.s[1]
      BY <1>0, <1>1, <1>4, <2>0, <2>4 DEF ContextKept, ContextInv
    <3>2. Contract!ContextHalfSet
      BY <1>1, <1>2, <2>0, <2>4, <3>1 DEF Shown, Visible, Contract!ContextHalfSet
    <3> QED
      BY <3>2 DEF Contract!Next
  <2> QED
    BY <2>2, <2>3, <2>4
<1> QED
  BY <1>3, <1>4

LEMMA ReturnSeen == ASSUME Known, Return PROVE Contract!Next
<1>0. TypeOK /\ ContextInv
  BY DEF Known, IInv
<1>1. call.status = "running" /\ call.pc = Len(Code[call.op]) + 1
  BY DEF Return
<1>2. Shown("returned")
  BY <1>0, <1>1, Ending DEF Return
<1>3. CASE call.op # "setCalendarContext"
  <2>1. Contract!Returns
    BY <1>1, <1>2, <1>3, Outcome, OthersEnd
  <2> QED
    BY <2>1 DEF Contract!Next
<1>4. CASE call.op = "setCalendarContext"
  <2>0. /\ ContextKept /\ Interface.op = "setCalendarContext"
        /\ Interface.lag = call.lag /\ Interface.s = call.s /\ Interface.name = call.name
    BY <1>1, <1>4 DEF Known, EntryInv, Interface
  <2>1. call.pc = 6
    <3>1. Len(Code["setCalendarContext"]) = 5
      BY ContextCode
    <3> QED
      BY <1>1, <1>4, <3>1
  <2>2. /\ evalDate = call.entry.evalDate /\ calendar = call.name
        /\ fixingDays = call.lag /\ settleDate = call.s[1] /\ call.name \in Calendars
    BY <1>0, <1>1, <1>4, <2>0, <2>1 DEF ContextKept, ContextInv
  <2>3. Contract!ContextSet
    BY <1>1, <1>2, <2>0, <2>2 DEF Shown, Visible, Contract!ContextSet
  <2> QED
    BY <2>3 DEF Contract!Next
<1> QED
  BY <1>3, <1>4

LEMMA StepLikeContract ==
    ASSUME Known, TypeOK', [Next]_vars
    PROVE  [Contract!Next]_Contract!vars
<1>0. TypeOK
  BY DEF Known, IInv
<1>1. ASSUME NEW step, Writes(step) PROVE UNCHANGED Contract!vars
  BY <1>1, MovingOnUnseen
<1>2. CASE Throw
  BY <1>2, ThrowSeen
<1>3. CASE Return
  BY <1>3, ReturnSeen
<1>4. ASSUME NEW op \in Ops, Begin(op) PROVE Contract!Next
  BY <1>0, <1>4, BeginningSeen DEF Contract!Next
<1>5. CASE Midnight
  BY <1>5, MidnightSeen DEF Contract!Next
<1>6. CASE UNCHANGED vars
  BY <1>6 DEF vars, settings, Contract!vars, Contract!settings, Visible, Interface
<1> QED
  BY <1>0, <1>1, <1>2, <1>3, <1>4, <1>5, <1>6, NextIs DEF Ends, Starts, Waits

-----------------------------------------------------------------------------
(* The theorem.                                                            *)

\* Every sequence of calls, failures and midnights leaves the settings the
\* contract says: each call, seen from R, is one step, and a call that ends
\* by an exception leaves what it found or one of the few pairs of dates its
\* engine may leave, whatever the calendars and the dates.
THEOREM KeepsContract == Spec => ImplementsContract
<1>1. Known => TypeOK
  BY DEF Known, IInv
<1> QED
  BY <1>1, AlwaysKnown, StartsLikeContract, StepLikeContract, PTL
     DEF Spec, ImplementsContract, Contract!Spec
=============================================================================
