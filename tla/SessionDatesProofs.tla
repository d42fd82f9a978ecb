-------------------------- MODULE SessionDatesProofs --------------------------
(***************************************************************************)
(* Theorems about RQLSession: whose dates a result comes from.  An engine  *)
(* reads a date out of a process-wide setting; that it is its own date     *)
(* depends on which of its steps wrote the setting last.                   *)
(***************************************************************************)
EXTENDS RQLSessionProofs

-----------------------------------------------------------------------------
(* The last write before a step.                                           *)

\* Before step i of code c, the last of the steps W is w.
LastIs(c, i, W, w) ==
    \E j \in 1..(i - 1) :
        c[j] = w /\ \A m \in (j + 1)..(i - 1) : c[m] \notin W

LEMMA LastAtStart == \A c, W, w : ~LastIs(c, 1, W, w)
  BY DEF LastIs

LEMMA LastMovesOn ==
    ASSUME NEW c, NEW i \in Nat \ {0}, NEW W, NEW w, LastIs(c, i + 1, W, w)
    PROVE  c[i] = w \/ (c[i] \notin W /\ LastIs(c, i, W, w))
<1>1. PICK j \in 1..((i + 1) - 1) :
        c[j] = w /\ \A m \in (j + 1)..((i + 1) - 1) : c[m] \notin W
  BY DEF LastIs
<1>2. CASE j = i
  BY <1>1, <1>2
<1>3. CASE j < i
  <2>1. j \in 1..(i - 1) /\ i \in (j + 1)..((i + 1) - 1)
    BY <1>3
  <2>2. \A m \in (j + 1)..(i - 1) : m \in (j + 1)..((i + 1) - 1)
    BY <1>3
  <2> QED
    BY <1>1, <2>1, <2>2 DEF LastIs
<1> QED
  BY <1>2, <1>3

LEMMA Joined ==
    ASSUME NEW s \in Seq(Common), NEW t \in Seq(Common)
    PROVE  /\ s \o t \in Seq(Common)
           /\ Len(s \o t) = Len(s) + Len(t)
           /\ Len(s) \in Nat /\ Len(t) \in Nat
           /\ \A i \in 1..Len(s) : (s \o t)[i] = s[i]
           /\ \A i \in 1..Len(t) : (s \o t)[Len(s) + i] = t[i]
  OBVIOUS

\* Code put before or after does not change what is last ...
LEMMA LastInFirst ==
    ASSUME NEW s \in Seq(Common), NEW t \in Seq(Common), NEW W, NEW w,
           NEW i \in 1..(Len(s) + 1), LastIs(s, i, W, w)
    PROVE  LastIs(s \o t, i, W, w)
<1>1. PICK j \in 1..(i - 1) : s[j] = w /\ \A m \in (j + 1)..(i - 1) : s[m] \notin W
  BY DEF LastIs
<1>2. Len(s) \in Nat /\ \A m \in 1..(i - 1) : (s \o t)[m] = s[m]
  BY Joined
<1>3. \A m \in (j + 1)..(i - 1) : m \in 1..(i - 1)
  OBVIOUS
<1> QED
  BY <1>1, <1>2, <1>3 DEF LastIs

LEMMA LastInSecond ==
    ASSUME NEW s \in Seq(Common), NEW t \in Seq(Common), NEW W, NEW w,
           NEW i \in 1..(Len(t) + 1), LastIs(t, i, W, w)
    PROVE  LastIs(s \o t, Len(s) + i, W, w)
<1>1. PICK j \in 1..(i - 1) : t[j] = w /\ \A m \in (j + 1)..(i - 1) : t[m] \notin W
  BY DEF LastIs
<1>2. Len(s) \in Nat /\ Len(t) \in Nat /\ i \in Nat /\ j \in Nat
  BY Joined
<1>3. (s \o t)[Len(s) + j] = w /\ Len(s) + j \in 1..(Len(s) + i - 1)
  BY <1>1, <1>2, Joined
<1>4. \A m \in (Len(s) + j + 1)..(Len(s) + i - 1) : (s \o t)[m] \notin W
  <2> TAKE m \in (Len(s) + j + 1)..(Len(s) + i - 1)
  <2>1. m - Len(s) \in (j + 1)..(i - 1) /\ m - Len(s) \in 1..Len(t)
    BY <1>2
  <2>2. (s \o t)[Len(s) + (m - Len(s))] = t[m - Len(s)] /\ Len(s) + (m - Len(s)) = m
    BY <1>2, <2>1, Joined
  <2> QED
    BY <1>1, <2>1, <2>2
<1> DEFINE l == Len(s) + j
<1>5. l \in 1..((Len(s) + i) - 1) /\ (s \o t)[l] = w
  BY <1>3
<1>6. \A m \in (l + 1)..((Len(s) + i) - 1) : (s \o t)[m] \notin W
  BY <1>4
<1> HIDE DEF l
<1> QED
  BY <1>5, <1>6 DEF LastIs

\* ... nor does code that writes nothing.
LEMMA LastCarriesOver ==
    ASSUME NEW s \in Seq(Common), NEW t \in Seq(Common), NEW W, NEW w,
           LastIs(s, Len(s) + 1, W, w),
           NEW i \in 1..(Len(t) + 1), \A m \in 1..(i - 1) : t[m] \notin W
    PROVE  LastIs(s \o t, Len(s) + i, W, w)
<1>1. PICK j \in 1..((Len(s) + 1) - 1) :
        s[j] = w /\ \A m \in (j + 1)..((Len(s) + 1) - 1) : s[m] \notin W
  BY DEF LastIs
<1>2. Len(s) \in Nat /\ Len(t) \in Nat /\ i \in Nat /\ j \in Nat /\ j \in 1..Len(s)
  BY <1>1, Joined
<1>3. (s \o t)[j] = w /\ j \in 1..((Len(s) + i) - 1)
  BY <1>1, <1>2, Joined
<1>4. \A m \in (j + 1)..((Len(s) + i) - 1) : (s \o t)[m] \notin W
  <2> TAKE m \in (j + 1)..((Len(s) + i) - 1)
  <2>1. CASE m <= Len(s)
    <3>1. m \in 1..Len(s) /\ m \in (j + 1)..((Len(s) + 1) - 1)
      BY <1>2, <2>1
    <3> QED
      BY <1>1, <3>1, Joined
  <2>2. CASE m > Len(s)
    <3>1. m - Len(s) \in 1..(i - 1) /\ m - Len(s) \in 1..Len(t)
      BY <1>2, <2>2
    <3>2. (s \o t)[Len(s) + (m - Len(s))] = t[m - Len(s)] /\ Len(s) + (m - Len(s)) = m
      BY <1>2, <3>1, Joined
    <3> QED
      BY <3>1, <3>2
  <2> QED
    BY <1>2, <2>1, <2>2
<1> QED
  BY <1>3, <1>4 DEF LastIs

-----------------------------------------------------------------------------
(* The table of engines: helpers are built after their own settlement date *)
(* is stored, and results computed after the date of the caller.           *)

SettleWrites == {"settle1", "settle2"}
EvalWrites == {"eval1", "eval2", "evalToday", "evalBack", "restore"}

SettledBeforeBuilt(c) ==
    \A i \in 1..Len(c), k \in 1..2 :
        c[i] = buildStep[k] => LastIs(c, i, SettleWrites, settleStep[k])

LEMMA SettledTogether ==
    ASSUME NEW s \in Seq(Common), NEW t \in Seq(Common),
           SettledBeforeBuilt(s), SettledBeforeBuilt(t)
    PROVE  s \o t \in Seq(Common) /\ SettledBeforeBuilt(s \o t)
<1> SUFFICES ASSUME NEW i \in 1..Len(s \o t), NEW k \in 1..2, (s \o t)[i] = buildStep[k]
             PROVE  LastIs(s \o t, i, SettleWrites, settleStep[k])
  BY Joined DEF SettledBeforeBuilt
<1>1. Len(s) \in Nat /\ Len(t) \in Nat /\ i \in 1..(Len(s) + Len(t))
  BY Joined
<1>2. CASE i \in 1..Len(s)
  <2>1. LastIs(s, i, SettleWrites, settleStep[k])
    BY <1>2, Joined DEF SettledBeforeBuilt
  <2>2. i \in 1..(Len(s) + 1)
    BY <1>1, <1>2
  <2> QED
    BY <2>1, <2>2, LastInFirst
<1>3. CASE i > Len(s)
  <2>1. i - Len(s) \in 1..Len(t) /\ Len(s) + (i - Len(s)) = i
    BY <1>1, <1>3
  <2>2. t[i - Len(s)] = buildStep[k]
    BY <2>1, Joined
  <2>3. LastIs(t, i - Len(s), SettleWrites, settleStep[k])
    BY <2>1, <2>2 DEF SettledBeforeBuilt
  <2>4. i - Len(s) \in 1..(Len(t) + 1)
    BY <1>1, <2>1
  <2> QED
    BY <2>1, <2>3, <2>4, LastInSecond
<1> QED
  BY <1>1, <1>2, <1>3

LEMMA CalmIsSettled ==
    ASSUME NEW c \in Seq(Calm)
    PROVE  c \in Seq(Common) /\ SettledBeforeBuilt(c)
<1>1. \A i \in 1..Len(c) : c[i] \in Calm
  OBVIOUS
<1> QED
  BY <1>1 DEF Common, Calm, Plain, SettledBeforeBuilt, buildStep

LEMMA PlainIsSettled ==
    ASSUME NEW c \in Seq(Plain)
    PROVE  c \in Seq(Common) /\ SettledBeforeBuilt(c)
<1>1. c \in Seq(Calm)
  BY DEF Calm
<1> QED
  BY <1>1, CalmIsSettled

LEMMA CurveIsSettled ==
    ASSUME NEW k \in 1..2
    PROVE  /\ buildTermStructure(k) \in Seq(Common)
           /\ SettledBeforeBuilt(buildTermStructure(k))
<1> DEFINE c == buildTermStructure(k)
<1>1. c = <<"check", settleStep[k], evalStep[k], "check", "context", buildStep[k]>>
  BY DEF buildTermStructure
<1>2. /\ settleStep[k] \in {"settle1", "settle2"} /\ evalStep[k] \in {"eval1", "eval2"}
      /\ buildStep[k] \in {"build1", "build2"}
  BY DEF settleStep, evalStep, buildStep
<1> HIDE DEF c
<1>3. c \in Seq(Common)
  BY <1>1, <1>2 DEF Common, Calm, Plain
<1>4. /\ Len(c) = 6 /\ c[1] = "check" /\ c[2] = settleStep[k] /\ c[3] = evalStep[k]
      /\ c[4] = "check" /\ c[5] = "context" /\ c[6] = buildStep[k]
  BY <1>1
<1>5. \A l \in 1..2 : buildStep[l] = buildStep[k] => l = k
  BY DEF buildStep
<1>6. LastIs(c, 6, SettleWrites, settleStep[k])
  <2>1. \A m \in 3..5 : m = 3 \/ m = 4 \/ m = 5
    OBVIOUS
  <2>2. \A m \in 3..5 : c[m] \notin SettleWrites
    BY <1>2, <1>4, <2>1 DEF SettleWrites
  <2>3. 2 \in 1..(6 - 1) /\ 2 + 1 = 3 /\ 6 - 1 = 5
    OBVIOUS
  <2> QED
    BY <1>4, <2>2, <2>3 DEF LastIs
<1>7. ASSUME NEW i \in 1..Len(c), NEW l \in 1..2, c[i] = buildStep[l]
      PROVE  i = 6
  <2>1. c[i] \in {"build1", "build2"}
    BY <1>7 DEF buildStep
  <2>2. i = 1 \/ i = 2 \/ i = 3 \/ i = 4 \/ i = 5 \/ i = 6
    BY <1>4
  <2> QED
    BY <1>2, <1>4, <2>1, <2>2
<1>8. SettledBeforeBuilt(c)
  BY <1>4, <1>5, <1>6, <1>7 DEF SettledBeforeBuilt
<1> QED
  BY <1>3, <1>8 DEF c

\* In every engine, the last settlement date stored before the helpers of a
\* curve are built is that curve's own.
LEMMA AllSettled ==
    ASSUME NEW op \in DOMAIN Code
    PROVE  SettledBeforeBuilt(Code[op])
<1>1. /\ FloatingBond \in Seq(Common) /\ SettledBeforeBuilt(FloatingBond)
      /\ getFlatCurve(1) \in Seq(Common) /\ SettledBeforeBuilt(getFlatCurve(1))
      /\ getFlatCurve(2) \in Seq(Common) /\ SettledBeforeBuilt(getFlatCurve(2))
  BY PlainHelpers, PlainIsSettled
<1>2. /\ buildTermStructure(1) \in Seq(Common)
      /\ SettledBeforeBuilt(buildTermStructure(1))
      /\ buildTermStructure(2) \in Seq(Common)
      /\ SettledBeforeBuilt(buildTermStructure(2))
  BY CurveIsSettled
<1>3. CASE op = "FloatBond2"
  <2>1. SettledBeforeBuilt(FloatBond2)
    BY <1>1, <1>2, SettledTogether DEF FloatBond2
  <2> QED
    BY <1>3, <2>1 DEF Code
<1>4. CASE op = "FloatBond3"
  <2>1. SettledBeforeBuilt(FloatBond3)
    BY <1>1, <1>2, SettledTogether DEF FloatBond3
  <2> QED
    BY <1>4, <2>1 DEF Code
<1>5. CASE op = "FloatBond4"
  <2>1. SettledBeforeBuilt(FloatBond4)
    BY <1>1, <1>2, SettledTogether DEF FloatBond4
  <2> QED
    BY <1>5, <2>1 DEF Code
<1>6. CASE op = "discountCurveEngine"
  <2> DEFINE c == Code["discountCurveEngine"]
  <2>1. /\ Len(c) = 10 /\ c[1] = "check" /\ c[2] = "settle1" /\ c[3] = "save"
        /\ c[4] = "eval1" /\ c[5] = "check" /\ c[6] = "context"
        /\ c[7] = "build1" /\ c[8] = "price" /\ c[9] = "restore" /\ c[10] = "table"
    BY CurveCode
  <2> HIDE DEF c
  <2>2. LastIs(c, 7, SettleWrites, "settle1")
    <3>1. \A m \in 3..6 : m = 3 \/ m = 4 \/ m = 5 \/ m = 6
      OBVIOUS
    <3>2. \A m \in 3..6 : c[m] \notin SettleWrites
      BY <2>1, <3>1 DEF SettleWrites
    <3>3. 2 \in 1..(7 - 1) /\ 2 + 1 = 3 /\ 7 - 1 = 6
      OBVIOUS
    <3> QED
      BY <2>1, <3>2, <3>3 DEF LastIs
  <2>3. ASSUME NEW i \in 1..Len(c), NEW k \in 1..2, c[i] = buildStep[k]
        PROVE  i = 7 /\ k = 1
    <3>1. \/ c[i] = "build1" /\ k = 1
          \/ c[i] = "build2" /\ k = 2
      BY <2>3 DEF buildStep
    <3>2. \/ i = 1 \/ i = 2 \/ i = 3 \/ i = 4 \/ i = 5 \/ i = 6 \/ i = 7
          \/ i = 8 \/ i = 9 \/ i = 10
      BY <2>1
    <3> QED
      BY <2>1, <3>1, <3>2
  <2>4. SettledBeforeBuilt(c)
    BY <2>2, <2>3 DEF SettledBeforeBuilt, settleStep
  <2> QED
    BY <1>6, <2>4 DEF c
<1>7. CASE op = "setCalendarContext"
  <2>1. SettledBeforeBuilt(Code["setCalendarContext"])
    BY ContextCode DEF SettledBeforeBuilt, buildStep
  <2> QED
    BY <1>7, <2>1
<1>8. CASE op \notin {"setCalendarContext", "discountCurveEngine",
                      "FloatBond2", "FloatBond3", "FloatBond4"}
  BY <1>8, PlainCode, PlainIsSettled, OptionCode, CalmIsSettled
<1> QED
  BY <1>3, <1>4, <1>5, <1>6, <1>7, <1>8

\* The curve whose date is the one a dated engine prices under.
DatedCurve(op) == IF op \in {"FloatBond1", "FloatBond2"} THEN 2 ELSE 1

PricedUnder(c, w) ==
    \A i \in 1..Len(c) : c[i] = "price" => LastIs(c, i, EvalWrites, w)

\* Code that sets the date once, before any price, and does not touch it
\* again.
LEMMA DatedOnce ==
    ASSUME NEW c, NEW e \in 1..Len(c), NEW w, c[e] = w, Len(c) \in Nat,
           \A i \in 1..Len(c) : i > e => c[i] \notin EvalWrites,
           \A i \in 1..Len(c) : i <= e => c[i] # "price"
    PROVE  PricedUnder(c, w)
<1> SUFFICES ASSUME NEW i \in 1..Len(c), c[i] = "price" PROVE LastIs(c, i, EvalWrites, w)
  BY DEF PricedUnder
<1>1. e \in 1..(i - 1) /\ \A m \in (e + 1)..(i - 1) : m \in 1..Len(c) /\ m > e
  OBVIOUS
<1> QED
  BY <1>1 DEF LastIs

\* The engines whose code is written out.
LEMMA ShortDated ==
    ASSUME NEW c, NEW x, NEW y, NEW z,
           \/ c = <<"check", "eval1", x, "price">>
           \/ c = <<"check", "eval1", x, y, "price">>,
           x \in {"check", "find", "context"}, y \in {"check", "find", "context"}
    PROVE  PricedUnder(c, "eval1")
<1>1. CASE c = <<"check", "eval1", x, "price">>
  <2>1. /\ Len(c) = 4 /\ c[1] = "check" /\ c[2] = "eval1" /\ c[3] = x /\ c[4] = "price"
    BY <1>1
  <2>2. \A i \in 1..4 : i = 1 \/ i = 2 \/ i = 3 \/ i = 4
    OBVIOUS
  <2>3. \A i \in 1..Len(c) : i > 2 => c[i] \notin EvalWrites
    BY <2>1, <2>2 DEF EvalWrites
  <2>4. \A i \in 1..Len(c) : i <= 2 => c[i] # "price"
    BY <2>1, <2>2
  <2>5. 2 \in 1..Len(c) /\ c[2] = "eval1" /\ Len(c) \in Nat
    BY <2>1
  <2> QED
    BY <2>3, <2>4, <2>5, DatedOnce
<1>2. CASE c = <<"check", "eval1", x, y, "price">>
  <2>1. /\ Len(c) = 5 /\ c[1] = "check" /\ c[2] = "eval1" /\ c[3] = x /\ c[4] = y
        /\ c[5] = "price"
    BY <1>2
  <2>2. \A i \in 1..5 : i = 1 \/ i = 2 \/ i = 3 \/ i = 4 \/ i = 5
    OBVIOUS
  <2>3. \A i \in 1..Len(c) : i > 2 => c[i] \notin EvalWrites
    BY <2>1, <2>2 DEF EvalWrites
  <2>4. \A i \in 1..Len(c) : i <= 2 => c[i] # "price"
    BY <2>1, <2>2
  <2>5. 2 \in 1..Len(c) /\ c[2] = "eval1" /\ Len(c) \in Nat
    BY <2>1
  <2> QED
    BY <2>3, <2>4, <2>5, DatedOnce
<1> QED
  BY <1>1, <1>2

LEMMA SwaptionsDated ==
    /\ PricedUnder(bermudanFromYieldEngine, "eval1")
    /\ PricedUnder(bermudanWithRebuiltCurveEngine, "eval1")
    /\ PricedUnder(affineWithRebuiltCurveEngine, "eval1")
<1>1. ASSUME NEW c, c = <<"check", "settle1", "eval1", "context", "check", "price", "check">>
      PROVE  PricedUnder(c, "eval1")
  <2>1. /\ Len(c) = 7 /\ c[1] = "check" /\ c[2] = "settle1" /\ c[3] = "eval1"
        /\ c[4] = "context" /\ c[5] = "check" /\ c[6] = "price" /\ c[7] = "check"
    BY <1>1
  <2>2. \A i \in 1..7 : i = 1 \/ i = 2 \/ i = 3 \/ i = 4 \/ i = 5 \/ i = 6 \/ i = 7
    OBVIOUS
  <2>3. \A i \in 1..Len(c) : i > 3 => c[i] \notin EvalWrites
    BY <2>1, <2>2 DEF EvalWrites
  <2>4. \A i \in 1..Len(c) : i <= 3 => c[i] # "price"
    BY <2>1, <2>2
  <2>5. 3 \in 1..Len(c) /\ c[3] = "eval1" /\ Len(c) \in Nat
    BY <2>1
  <2> QED
    BY <2>3, <2>4, <2>5, DatedOnce
<1>2. ASSUME NEW c, c = <<"check", "settle1", "eval1", "check", "context", "check",
                          "price", "check">>
      PROVE  PricedUnder(c, "eval1")
  <2>1. /\ Len(c) = 8 /\ c[1] = "check" /\ c[2] = "settle1" /\ c[3] = "eval1"
        /\ c[4] = "check" /\ c[5] = "context" /\ c[6] = "check" /\ c[7] = "price"
        /\ c[8] = "check"
    BY <1>2
  <2>2. \A i \in 1..8 : \/ i = 1 \/ i = 2 \/ i = 3 \/ i = 4 \/ i = 5 \/ i = 6
                        \/ i = 7 \/ i = 8
    OBVIOUS
  <2>3. \A i \in 1..Len(c) : i > 3 => c[i] \notin EvalWrites
    BY <2>1, <2>2 DEF EvalWrites
  <2>4. \A i \in 1..Len(c) : i <= 3 => c[i] # "price"
    BY <2>1, <2>2
  <2>5. 3 \in 1..Len(c) /\ c[3] = "eval1" /\ Len(c) \in Nat
    BY <2>1
  <2> QED
    BY <2>3, <2>4, <2>5, DatedOnce
<1> QED
  BY <1>1, <1>2 DEF bermudanFromYieldEngine, bermudanWithRebuiltCurveEngine,
                    affineWithRebuiltCurveEngine

\* A curve's code leaves its own date behind and computes nothing.
CurveDated(c, k) ==
    /\ c \in Seq(Common)
    /\ LastIs(c, Len(c) + 1, EvalWrites, evalStep[k])
    /\ \A i \in 1..Len(c) : c[i] # "price"

LEMMA CurvesDated ==
    ASSUME NEW k \in 1..2
    PROVE  CurveDated(getFlatCurve(k), k) /\ CurveDated(buildTermStructure(k), k)
<1>0. /\ settleStep[k] \in {"settle1", "settle2"} /\ evalStep[k] \in {"eval1", "eval2"}
      /\ buildStep[k] \in {"build1", "build2"}
  BY DEF settleStep, evalStep, buildStep
<1>1. ASSUME NEW c, c = <<"check", evalStep[k]>> PROVE CurveDated(c, k)
  <2>1. Len(c) = 2 /\ c[1] = "check" /\ c[2] = evalStep[k]
    BY <1>1
  <2>2. c \in Seq(Common)
    BY <1>0, <1>1 DEF Common, Calm, Plain
  <2>3. \A i \in 1..2 : c[i] # "price"
    <3>1. \A i \in 1..2 : i = 1 \/ i = 2
      OBVIOUS
    <3> QED
      BY <1>0, <2>1, <3>1
  <2>4. LastIs(c, 3, EvalWrites, evalStep[k])
    BY <2>1 DEF LastIs
  <2> QED
    BY <2>1, <2>2, <2>3, <2>4 DEF CurveDated
<1>2. ASSUME NEW c, c = <<"check", settleStep[k], evalStep[k], "check", "context", buildStep[k]>>
      PROVE  CurveDated(c, k)
  <2>1. /\ Len(c) = 6 /\ c[1] = "check" /\ c[2] = settleStep[k] /\ c[3] = evalStep[k]
        /\ c[4] = "check" /\ c[5] = "context" /\ c[6] = buildStep[k]
    BY <1>2
  <2>2. c \in Seq(Common)
    BY <1>0, <1>2 DEF Common, Calm, Plain
  <2>3. \A i \in 1..6 : i = 1 \/ i = 2 \/ i = 3 \/ i = 4 \/ i = 5 \/ i = 6
    OBVIOUS
  <2>4. \A i \in 1..6 : c[i] # "price"
    BY <1>0, <2>1, <2>3
  <2>5. \A m \in 4..6 : c[m] \notin EvalWrites
    <3>1. \A m \in 4..6 : m = 4 \/ m = 5 \/ m = 6
      OBVIOUS
    <3> QED
      BY <1>0, <2>1, <3>1 DEF EvalWrites
  <2>6. LastIs(c, 7, EvalWrites, evalStep[k])
    <3>1. 3 \in 1..(7 - 1) /\ 3 + 1 = 4 /\ 7 - 1 = 6
      OBVIOUS
    <3> QED
      BY <2>1, <2>5, <3>1 DEF LastIs
  <2> QED
    BY <2>1, <2>2, <2>4, <2>6 DEF CurveDated
<1> QED
  BY <1>1, <1>2 DEF getFlatCurve, buildTermStructure

\* Of two curves the second one's date is left ...
LEMMA SecondCurveDates ==
    ASSUME NEW s, NEW t, NEW k \in 1..2, NEW l \in 1..2,
           CurveDated(s, l), CurveDated(t, k)
    PROVE  CurveDated(s \o t, k)
<1>1. s \in Seq(Common) /\ t \in Seq(Common)
  BY DEF CurveDated
<1>2. /\ s \o t \in Seq(Common) /\ Len(s \o t) = Len(s) + Len(t)
      /\ Len(s) \in Nat /\ Len(t) \in Nat
  BY <1>1, Joined
<1>3. Len(t) + 1 \in 1..(Len(t) + 1) /\ Len(s \o t) + 1 = Len(s) + (Len(t) + 1)
  BY <1>2
<1>4. LastIs(s \o t, Len(s \o t) + 1, EvalWrites, evalStep[k])
  BY <1>1, <1>3, LastInSecond DEF CurveDated
<1>5. \A i \in 1..Len(s \o t) : (s \o t)[i] # "price"
  <2> TAKE i \in 1..Len(s \o t)
  <2>1. CASE i \in 1..Len(s)
    BY <1>1, <2>1, Joined DEF CurveDated
  <2>2. CASE i > Len(s)
    <3>1. i - Len(s) \in 1..Len(t) /\ Len(s) + (i - Len(s)) = i
      BY <1>2, <2>2
    <3>2. (s \o t)[i] = t[i - Len(s)]
      BY <1>1, <3>1, Joined
    <3> QED
      BY <3>1, <3>2 DEF CurveDated
  <2> QED
    BY <1>2, <2>1, <2>2
<1> QED
  BY <1>2, <1>4, <1>5 DEF CurveDated

\* ... and it is what the bond is priced under.
LEMMA BondDated ==
    ASSUME NEW s, NEW k \in 1..2, CurveDated(s, k)
    PROVE  PricedUnder(s \o FloatingBond, evalStep[k])
<1> DEFINE t == FloatingBond
<1>1. /\ Len(t) = 4 /\ t[1] = "check" /\ t[2] = "find" /\ t[3] = "check" /\ t[4] = "price"
  BY DEF FloatingBond
<1>2. s \in Seq(Common) /\ t \in Seq(Common)
  BY PlainHelpers, PlainIsSettled DEF CurveDated
<1> HIDE DEF t
<1>3. \A m \in 1..3 : t[m] \notin EvalWrites /\ t[m] # "price"
  <2>1. \A m \in 1..3 : m = 1 \/ m = 2 \/ m = 3
    OBVIOUS
  <2> QED
    BY <1>1, <2>1 DEF EvalWrites
<1>4. Len(s \o t) = Len(s) + 4 /\ Len(s) \in Nat
  <2>1. Len(s \o t) = Len(s) + Len(t) /\ Len(s) \in Nat
    BY <1>2, Joined
  <2> QED
    BY <1>1, <2>1
<1>5. LastIs(s \o t, Len(s) + 4, EvalWrites, evalStep[k])
  <2>1. LastIs(s, Len(s) + 1, EvalWrites, evalStep[k]) /\ 4 \in 1..(Len(t) + 1)
    BY <1>1 DEF CurveDated
  <2>2. \A m \in 1..(4 - 1) : t[m] \notin EvalWrites
    BY <1>3
  <2> QED
    BY <1>2, <2>1, <2>2, LastCarriesOver
<1>6. ASSUME NEW i \in 1..Len(s \o t), (s \o t)[i] = "price" PROVE i = Len(s) + 4
  <2>1. CASE i \in 1..Len(s)
    BY <1>2, <1>6, <2>1, Joined DEF CurveDated
  <2>2. CASE i > Len(s)
    <3>1. i - Len(s) \in 1..4 /\ Len(s) + (i - Len(s)) = i
      BY <1>4, <2>2
    <3>2. t[i - Len(s)] = "price"
      BY <1>1, <1>2, <1>6, <3>1, Joined
    <3>3. i - Len(s) \notin 1..3
      BY <1>3, <3>2
    <3> QED
      BY <1>4, <3>1, <3>3
  <2> QED
    BY <1>4, <2>1, <2>2
<1> QED
  BY <1>5, <1>6 DEF PricedUnder, t

\* A check before an engine changes nothing.
LEMMA CheckedFirst ==
    ASSUME NEW t \in Seq(Common), NEW w, PricedUnder(t, w)
    PROVE  PricedUnder(<<"check">> \o t, w)
<1> DEFINE s == <<"check">>
<1>1. s \in Seq(Common) /\ Len(s) = 1 /\ s[1] = "check"
  BY DEF Common, Calm, Plain
<1> HIDE DEF s
<1>2. Len(s \o t) = 1 + Len(t) /\ Len(t) \in Nat
  <2>1. Len(s \o t) = Len(s) + Len(t) /\ Len(t) \in Nat
    BY <1>1, Joined
  <2> QED
    BY <1>1, <2>1
<1>3. ASSUME NEW i \in 1..Len(s \o t), (s \o t)[i] = "price"
      PROVE  LastIs(s \o t, i, EvalWrites, w)
  <2>1. CASE i = 1
    <3>1. 1 \in 1..Len(s)
      BY <1>1
    <3>2. (s \o t)[1] = s[1]
      BY <1>1, <3>1, Joined
    <3> QED
      BY <1>1, <1>3, <2>1, <3>2
  <2>2. CASE i > 1
    <3>1. i - 1 \in 1..Len(t) /\ i - 1 \in 1..(Len(t) + 1) /\ Len(s) + (i - 1) = i
      BY <1>1, <1>2, <2>2
    <3>2. (s \o t)[Len(s) + (i - 1)] = t[i - 1]
      BY <1>1, <3>1, Joined
    <3>3. t[i - 1] = "price"
      BY <1>3, <3>1, <3>2
    <3>4. LastIs(t, i - 1, EvalWrites, w)
      BY <3>1, <3>3 DEF PricedUnder
    <3> QED
      BY <1>1, <3>1, <3>4, LastInSecond
  <2> QED
    BY <1>2, <2>1, <2>2
<1> QED
  BY <1>3 DEF PricedUnder, s

LEMMA CurveEngineDated == PricedUnder(discountCurveEngine, "eval1")
<1> DEFINE c == discountCurveEngine
<1>1. /\ Len(c) = 10 /\ c[1] = "check" /\ c[2] = "settle1" /\ c[3] = "save"
      /\ c[4] = "eval1" /\ c[5] = "check" /\ c[6] = "context" /\ c[7] = "build1"
      /\ c[8] = "price" /\ c[9] = "restore" /\ c[10] = "table"
  BY DEF discountCurveEngine
<1> HIDE DEF c
<1>2. \A m \in 5..7 : c[m] \notin EvalWrites
  <2>1. \A m \in 5..7 : m = 5 \/ m = 6 \/ m = 7
    OBVIOUS
  <2> QED
    BY <1>1, <2>1 DEF EvalWrites
<1>3. LastIs(c, 8, EvalWrites, "eval1")
  <2>1. 4 \in 1..(8 - 1) /\ 4 + 1 = 5 /\ 8 - 1 = 7
    OBVIOUS
  <2> QED
    BY <1>1, <1>2, <2>1 DEF LastIs
<1>4. \A i \in 1..Len(c) : c[i] = "price" => i = 8
  <2>1. \A i \in 1..10 : \/ i = 1 \/ i = 2 \/ i = 3 \/ i = 4 \/ i = 5 \/ i = 6 \/ i = 7
                         \/ i = 8 \/ i = 9 \/ i = 10
    OBVIOUS
  <2> QED
    BY <1>1, <2>1
<1> QED
  BY <1>3, <1>4 DEF PricedUnder, c

\* In every engine its caller dates, the last evaluation date set before a
\* price is the caller's.
LEMMA AllDated ==
    ASSUME NEW op \in DatedByCaller
    PROVE  PricedUnder(Code[op], evalStep[DatedCurve(op)])
<1>1. evalStep[1] = "eval1" /\ evalStep[2] = "eval2"
  BY DEF evalStep
<1>2. CASE op = "FloatBond1"
  <2>1. PricedUnder(FloatBond1, evalStep[2])
    BY CurvesDated, SecondCurveDates, BondDated DEF FloatBond1
  <2> QED
    BY <1>2, <2>1 DEF Code, DatedCurve
<1>3. CASE op = "FloatBond2"
  <2>1. PricedUnder(FloatBond2, evalStep[2])
    BY CurvesDated, SecondCurveDates, BondDated DEF FloatBond2
  <2> QED
    BY <1>3, <2>1 DEF Code, DatedCurve
<1>4. CASE op = "FloatBond3"
  <2>1. PricedUnder(FloatBond3, evalStep[1])
    BY CurvesDated, SecondCurveDates, BondDated DEF FloatBond3
  <2> QED
    BY <1>4, <2>1 DEF Code, DatedCurve
<1>5. CASE op = "FloatBond4"
  <2>1. PricedUnder(FloatBond4, evalStep[1])
    BY CurvesDated, SecondCurveDates, BondDated DEF FloatBond4
  <2> QED
    BY <1>5, <2>1 DEF Code, DatedCurve
<1>6. CASE op = "ZeroBondWithRebuiltCurve"
  <2>1. PricedUnder(zeroBondEngine, "eval1")
    BY ShortDated DEF zeroBondEngine
  <2>2. zeroBondEngine \in Seq(Common)
    BY PlainHelpers, PlainIsSettled
  <2>3. PricedUnder(ZeroBondWithRebuiltCurve, "eval1")
    BY <2>1, <2>2, CheckedFirst DEF ZeroBondWithRebuiltCurve
  <2> QED
    BY <1>1, <1>6, <2>3 DEF Code, DatedCurve
<1>7. CASE op = "discountCurveEngine"
  BY <1>1, <1>7, CurveEngineDated DEF Code, DatedCurve
<1>8. CASE op \in {"bermudanFromYieldEngine", "bermudanWithRebuiltCurveEngine",
                   "affineWithRebuiltCurveEngine"}
  BY <1>1, <1>8, SwaptionsDated DEF Code, DatedCurve
<1>9. CASE op \in {"convertibleFixedBondEngine", "fittedBondCurveEngine", "sabrengine",
                   "calibrateHullWhiteUsingCapsEngine",
                   "calibrateHullWhiteUsingSwapsEngine"}
  <2>1. /\ PricedUnder(convertibleFixedBondEngine, "eval1")
        /\ PricedUnder(fittedBondCurveEngine, "eval1")
        /\ PricedUnder(sabrengine, "eval1")
        /\ PricedUnder(calibrateHullWhiteUsingCapsEngine, "eval1")
        /\ PricedUnder(calibrateHullWhiteUsingSwapsEngine, "eval1")
    BY ShortDated DEF convertibleFixedBondEngine, fittedBondCurveEngine, sabrengine,
                      calibrateHullWhiteUsingCapsEngine,
                      calibrateHullWhiteUsingSwapsEngine
  <2> QED
    BY <1>1, <1>9, <2>1 DEF Code, DatedCurve
<1> QED
  BY <1>2, <1>3, <1>4, <1>5, <1>6, <1>7, <1>8, <1>9 DEF DatedByCaller

-----------------------------------------------------------------------------
(* What a step does to the settings and to what the call has recorded.     *)

Writes(step) ==
    /\ At(step) /\ Moved /\ today' = today
    /\ \/ step \notin SettleWrites /\ settleDate' = settleDate
       \/ \E k \in 1..2 : step = settleStep[k] /\ settleDate' = call.s[k]
    /\ \/ step \notin EvalWrites /\ evalDate' = evalDate
       \/ step = "restore"
       \/ step = "evalToday" /\ evalDate' = today
       \/ step = "evalBack" /\ evalDate' = FixingDate /\ FixingDate # None
       \/ \E k \in 1..2 : step = evalStep[k] /\ evalDate' = call.d[k]
    /\ calendar' = IF step = "calendar" THEN call.name ELSE calendar
    /\ fixingDays' = IF step = "fixing" THEN call.lag ELSE fixingDays

Records(step) ==
    /\ IF step = "context" THEN call'.cal = calendar /\ call'.fix = fixingDays
                           ELSE call'.cal = call.cal /\ call'.fix = call.fix
    /\ \/ step \notin {"base", "evalToday"} /\ call'.base = call.base
       \/ step = "base" /\ call'.base = EvaluationDate
       \/ step = "evalToday" /\ call'.base = today
    /\ IF step = "price" THEN call'.at = EvaluationDate ELSE call'.at = call.at
    /\ \/ call'.imm = call.imm
       \/ \E k \in 1..2 : /\ step = buildStep[k]
                          /\ call'.imm = [call.imm EXCEPT ![k] = settleDate]

\* What each update of the record changes.
LEMMA Updated ==
    ASSUME NEW c \in CallType, NEW m, NEW n, NEW k \in 1..2
    PROVE  LET Kept(e) == /\ e.cal = c.cal /\ e.fix = c.fix /\ e.base = c.base
                          /\ e.at = c.at /\ e.imm = c.imm
           IN  /\ Kept([c EXCEPT !.pc = @ + 1])
               /\ Kept([c EXCEPT !.pc = @ + 1, !.saved = m])
               /\ Kept([c EXCEPT !.pc = @ + 1, !.tab = m])
               /\ Kept([c EXCEPT !.status = m])
  BY DEF CallType

LEMMA UpdatedElse ==
    ASSUME NEW c \in CallType, NEW m, NEW n, NEW k \in 1..2
    PROVE  /\ LET e == [c EXCEPT !.pc = @ + 1, !.base = m]
              IN  /\ e.base = m /\ e.cal = c.cal /\ e.fix = c.fix
                  /\ e.at = c.at /\ e.imm = c.imm
           /\ LET e == [c EXCEPT !.pc = @ + 1, !.at = m]
              IN  /\ e.at = m /\ e.cal = c.cal /\ e.fix = c.fix
                  /\ e.base = c.base /\ e.imm = c.imm
           /\ LET e == [c EXCEPT !.pc = @ + 1, !.cal = m, !.fix = n]
              IN  /\ e.cal = m /\ e.fix = n
                  /\ e.base = c.base /\ e.at = c.at /\ e.imm = c.imm
           /\ LET e == [c EXCEPT !.pc = @ + 1, !.imm[k] = m]
              IN  /\ e.imm = [c.imm EXCEPT ![k] = m]
                  /\ e.cal = c.cal /\ e.fix = c.fix
                  /\ e.base = c.base /\ e.at = c.at
  BY DEF CallType

Ends ==
    /\ Throw \/ Return
    /\ call'.status \in {"threw", "returned"} /\ call'.op = call.op
    /\ call'.d = call.d /\ call'.s = call.s /\ call'.entry = call.entry
    /\ call'.base = call.base /\ call'.at = call.at /\ call'.imm = call.imm

Starts ==
    /\ \E op \in Ops : Begin(op)
    /\ call'.pc = 1 /\ call'.entry = Entry
    /\ call'.base = None /\ call'.at = None /\ call'.imm = <<None, None>>
    /\ UNCHANGED <<settings, today>>

\* The clock may move on while nothing else does.
Waits ==
    /\ Midnight \/ UNCHANGED vars
    /\ UNCHANGED <<settings, call>> /\ today' \in {today, today + 1}

LEMMA NextIs ==
    ASSUME TypeOK, [Next]_vars
    PROVE  \/ \E step : Writes(step) /\ Records(step)
           \/ Ends \/ Starts \/ Waits
<1>0. call \in CallType
  BY DEF TypeOK
<1> USE DEF Writes, SettleWrites, EvalWrites
<1>1. CASE Check
  <2>1. Writes("check")
    BY <1>1, StepMoves DEF Check, settings
  <2>2. Records("check")
    BY <1>0, <1>1, Updated DEF Check, Records
  <2> QED
    BY <2>1, <2>2
<1>2. CASE getCalendar
  <2>1. Writes("find")
    BY <1>2, StepMoves DEF getCalendar, settings
  <2>2. Records("find")
    BY <1>0, <1>2, Updated DEF getCalendar, Records
  <2> QED
    BY <2>1, <2>2
<1>3. CASE CopyContext
  <2>1. Writes("context")
    BY <1>3, StepMoves DEF CopyContext, settings
  <2>2. Records("context")
    BY <1>0, <1>3, UpdatedElse DEF CopyContext, Records
  <2> QED
    BY <2>1, <2>2
<1>4. CASE EvaluateToday
  <2>1. Writes("evalToday")
    BY <1>4, StepMoves DEF EvaluateToday
  <2>2. Records("evalToday")
    BY <1>0, <1>4, UpdatedElse DEF EvaluateToday, Records
  <2> QED
    BY <2>1, <2>2
<1>5. CASE EvaluateAtFixing
  <2>1. Writes("evalBack")
    BY <1>5, StepMoves DEF EvaluateAtFixing
  <2>2. Records("evalBack")
    BY <1>0, <1>5, Updated DEF EvaluateAtFixing, Records
  <2> QED
    BY <2>1, <2>2
<1>6. CASE SaveEvaluationDate
  <2>1. Writes("save")
    BY <1>6, StepMoves DEF SaveEvaluationDate, settings
  <2>2. Records("save")
    BY <1>0, <1>6, Updated DEF SaveEvaluationDate, Records
  <2> QED
    BY <2>1, <2>2
<1>7. CASE RestoreEvaluationDate
  <2>1. Writes("restore")
    BY <1>7, StepMoves DEF RestoreEvaluationDate
  <2>2. Records("restore")
    BY <1>0, <1>7, Updated DEF RestoreEvaluationDate, Records
  <2> QED
    BY <2>1, <2>2
<1>8. CASE TakeBase
  <2>1. Writes("base")
    BY <1>8, StepMoves DEF TakeBase, settings
  <2>2. Records("base")
    BY <1>0, <1>8, UpdatedElse DEF TakeBase, Records
  <2> QED
    BY <2>1, <2>2
<1>9. CASE Price
  <2>1. Writes("price")
    BY <1>9, StepMoves DEF Price, settings
  <2>2. Records("price")
    BY <1>0, <1>9, UpdatedElse DEF Price, Records
  <2> QED
    BY <2>1, <2>2
<1>10. CASE Tabulate
  <2>1. Writes("table")
    BY <1>10, StepMoves DEF Tabulate, settings
  <2>2. Records("table")
    BY <1>0, <1>10, Updated DEF Tabulate, Records
  <2> QED
    BY <2>1, <2>2
<1>11. CASE SetFixingDays
  <2>1. Writes("fixing")
    BY <1>11, StepMoves DEF SetFixingDays
  <2>2. Records("fixing")
    BY <1>0, <1>11, Updated DEF SetFixingDays, Records
  <2> QED
    BY <2>1, <2>2
<1>12. CASE SetCalendar
  <2>1. Writes("calendar")
    BY <1>12, StepMoves DEF SetCalendar
  <2>2. Records("calendar")
    BY <1>0, <1>12, Updated DEF SetCalendar, Records
  <2> QED
    BY <2>1, <2>2
<1>13. ASSUME NEW k \in 1..2, SetSettleDate(k)
       PROVE  \E step : Writes(step) /\ Records(step)
  <2>1. settleStep[k] \in {"settle1", "settle2"}
    BY DEF settleStep
  <2>2. Writes(settleStep[k])
    BY <1>13, <2>1, StepMoves DEF SetSettleDate
  <2>3. Records(settleStep[k])
    BY <1>0, <1>13, <2>1, Updated DEF SetSettleDate, Records
  <2> QED
    BY <2>2, <2>3
<1>14. ASSUME NEW k \in 1..2, SetEvaluationDate(k)
       PROVE  \E step : Writes(step) /\ Records(step)
  <2>1. evalStep[k] \in {"eval1", "eval2"}
    BY DEF evalStep
  <2>2. Writes(evalStep[k])
    BY <1>14, <2>1, StepMoves DEF SetEvaluationDate
  <2>3. Records(evalStep[k])
    BY <1>0, <1>14, <2>1, Updated DEF SetEvaluationDate, Records
  <2> QED
    BY <2>2, <2>3
<1>15. ASSUME NEW k \in 1..2, BuildHelpers(k)
       PROVE  \E step : Writes(step) /\ Records(step)
  <2>1. buildStep[k] \in {"build1", "build2"}
    BY DEF buildStep
  <2>2. Writes(buildStep[k])
    BY <1>15, <2>1, StepMoves DEF BuildHelpers, settings
  <2>3. Records(buildStep[k])
    BY <1>0, <1>15, <2>1, UpdatedElse DEF BuildHelpers, Records
  <2> QED
    BY <2>2, <2>3
<1>16. ASSUME NEW k \in 1..2, BuildFlat(k)
       PROVE  \E step : Writes(step) /\ Records(step)
  <2>1. buildStep[k] \in {"build1", "build2"}
    BY DEF buildStep
  <2>2. Writes(buildStep[k])
    BY <1>16, <2>1, StepMoves DEF BuildFlat, settings
  <2>3. Records(buildStep[k])
    BY <1>0, <1>16, <2>1, Updated DEF BuildFlat, Records
  <2> QED
    BY <2>2, <2>3
<1>17. CASE Throw
  BY <1>0, <1>17 DEF Throw, Ends, CallType
<1>18. CASE Return
  BY <1>0, <1>18 DEF Return, Ends, CallType
<1>19. CASE Midnight
  BY <1>19 DEF Midnight, Waits
<1>20. ASSUME NEW op \in Ops, Begin(op) PROVE Starts
  <2>1. /\ call'.pc = 1 /\ call'.entry = Entry
        /\ call'.base = None /\ call'.at = None /\ call'.imm = <<None, None>>
        /\ UNCHANGED <<settings, today>>
    BY <1>20 DEF Begin, NewCall
  <2>2. \E o \in Ops : Begin(o)
    BY <1>20
  <2> QED
    BY <2>1, <2>2 DEF Starts
<1>21. CASE UNCHANGED vars
  BY <1>21 DEF vars, Waits
<1> QED
  BY <1>1, <1>2, <1>3, <1>4, <1>5, <1>6, <1>7, <1>8, <1>9, <1>10, <1>11, <1>12,
     <1>13, <1>14, <1>15, <1>16, <1>17, <1>18, <1>19, <1>20, <1>21
     DEF Next, Step

-----------------------------------------------------------------------------
(* The inductive invariant: a setting holds what its last write put there, *)
(* whichever engine runs and whatever it found.                            *)

LastWritten ==
    call.status = "running" =>
        \A k \in 1..2 :
            /\ LastIs(Code[call.op], call.pc, SettleWrites, settleStep[k])
                 => settleDate = call.s[k]
            /\ LastIs(Code[call.op], call.pc, EvalWrites, evalStep[k])
                 => evalDate = call.d[k]

\* The date a zero-coupon engine should evaluate under.
OwnFixing == Retreat[call.entry.calendar, call.d[1], call.entry.fixingDays]

\* How far a zero-coupon engine has come, and what it has taken from the
\* context.
FixingInv ==
    call.op \in DatedByContext /\ call.status = "running" =>
        /\ call.pc <= 2 => /\ calendar = call.entry.calendar
                           /\ fixingDays = call.entry.fixingDays
        /\ call.pc = 3 => /\ call.cal = call.entry.calendar
                          /\ call.fix = call.entry.fixingDays
        /\ call.pc > 3 => evalDate = OwnFixing /\ evalDate # None

\* How far an option engine has come; no other engine takes a base.
OptionInv ==
    /\ call.op \notin OptionEngines => call.base = None
    /\ call.op \in OptionEngines /\ call.status = "running" =>
        /\ call.entry.today <= today
        /\ call.pc <= 2 => call.at = None /\ evalDate = call.entry.evalDate
        /\ call.pc > 2 =>
             \/ evalDate = call.base
             \/ /\ evalDate = None /\ call.entry.evalDate = None
                /\ call.entry.today <= call.base /\ call.base <= today

DatesInv ==
    /\ LastWritten /\ FixingInv /\ OptionInv
    /\ FuturesFromOwnSettle /\ PricedUnderOwnDate /\ OptionsOnOneDate

\* One step on, the last write is this step's or it was the last one before.
LEMMA OneStepOn ==
    ASSUME TypeOK, NEW step, At(step), call'.op = call.op, call'.pc = call.pc + 1,
           NEW W, NEW w, LastIs(Code[call'.op], call'.pc, W, w)
    PROVE  \/ step = w
           \/ step \notin W /\ LastIs(Code[call.op], call.pc, W, w)
<1>1. call.pc \in Nat \ {0} /\ Code[call.op][call.pc] = step
  BY DEF TypeOK, CallType, At
<1>2. LastIs(Code[call.op], call.pc + 1, W, w)
  OBVIOUS
<1> QED
  BY <1>1, <1>2, LastMovesOn

LEMMA LastWrittenStep ==
    ASSUME TypeOK, LastWritten, NEW step, Writes(step)
    PROVE  LastWritten'
<1> SUFFICES ASSUME call'.status = "running", NEW k \in 1..2
             PROVE  /\ LastIs(Code[call'.op], call'.pc, SettleWrites, settleStep[k])
                         => settleDate' = call'.s[k]
                    /\ LastIs(Code[call'.op], call'.pc, EvalWrites, evalStep[k])
                         => evalDate' = call'.d[k]
  BY DEF LastWritten
<1>1. /\ At(step) /\ call'.op = call.op /\ call'.pc = call.pc + 1
      /\ call'.s = call.s /\ call'.d = call.d /\ call.status = "running"
  BY DEF Writes, Moved
<1>2. /\ \A l \in 1..2 : settleStep[l] = settleStep[k] => l = k
      /\ \A l \in 1..2 : evalStep[l] = evalStep[k] => l = k
      /\ settleStep[k] \in SettleWrites
      /\ evalStep[k] \in {"eval1", "eval2"}
  BY DEF settleStep, evalStep, SettleWrites
<1>3. ASSUME LastIs(Code[call'.op], call'.pc, SettleWrites, settleStep[k])
      PROVE  settleDate' = call.s[k]
  <2>1. \/ step = settleStep[k]
        \/ step \notin SettleWrites
           /\ LastIs(Code[call.op], call.pc, SettleWrites, settleStep[k])
    BY <1>1, <1>3, OneStepOn
  <2>2. CASE step = settleStep[k]
    BY <1>2, <2>2 DEF Writes
  <2>3. CASE /\ step \notin SettleWrites
             /\ LastIs(Code[call.op], call.pc, SettleWrites, settleStep[k])
    <3>1. settleDate' = settleDate
      <4>1. \A l \in 1..2 : settleStep[l] \in SettleWrites
        BY DEF settleStep, SettleWrites
      <4> QED
        BY <2>3, <4>1 DEF Writes
    <3> QED
      BY <1>1, <2>3, <3>1 DEF LastWritten
  <2> QED
    BY <2>1, <2>2, <2>3
<1>4. ASSUME LastIs(Code[call'.op], call'.pc, EvalWrites, evalStep[k])
      PROVE  evalDate' = call.d[k]
  <2>1. \/ step = evalStep[k]
        \/ step \notin EvalWrites
           /\ LastIs(Code[call.op], call.pc, EvalWrites, evalStep[k])
    BY <1>1, <1>4, OneStepOn
  <2>2. CASE step = evalStep[k]
    BY <1>2, <2>2 DEF Writes, EvalWrites
  <2>3. CASE /\ step \notin EvalWrites
             /\ LastIs(Code[call.op], call.pc, EvalWrites, evalStep[k])
    <3>1. evalDate' = evalDate
      <4>1. \A l \in 1..2 : evalStep[l] \in EvalWrites
        BY DEF evalStep, EvalWrites
      <4> QED
        BY <2>3, <4>1 DEF Writes, EvalWrites
    <3> QED
      BY <1>1, <2>3, <3>1 DEF LastWritten
  <2> QED
    BY <2>1, <2>2, <2>3
<1> QED
  BY <1>1, <1>3, <1>4

\* The four zero-coupon engines take the same five steps ...
LEMMA FixingAt ==
    ASSUME NEW step, At(step), call.op \in DatedByContext
    PROVE  \/ call.pc = 1 /\ step = "check"
           \/ call.pc = 2 /\ step = "context"
           \/ call.pc = 3 /\ step = "evalBack"
           \/ call.pc = 4 /\ step = "check"
           \/ call.pc = 5 /\ step = "price"
<1>1. Code[call.op] = <<"check", "context", "evalBack", "check", "price">>
  BY DEF DatedByContext, Code, zeroPriceByYieldEngine, zeroYieldByPriceEngine,
         zeroprice, zeroyield
<1> QED
  BY <1>1 DEF At

LEMMA FixingStep ==
    ASSUME TypeOK, FixingInv, NEW step, Writes(step), Records(step)
    PROVE  FixingInv'
<1> SUFFICES ASSUME call'.op \in DatedByContext, call'.status = "running"
             PROVE  FixingInv'
  BY DEF FixingInv
<1>1. /\ At(step) /\ call'.op = call.op /\ call'.pc = call.pc + 1
      /\ call'.d = call.d /\ call'.entry = call.entry /\ call.status = "running"
      /\ OwnFixing' = OwnFixing
  BY DEF Writes, Moved, OwnFixing
<1>2. \A l \in 1..2 : evalStep[l] \in {"eval1", "eval2"}
  BY DEF evalStep
<1>3. \/ call.pc = 1 /\ step = "check"
      \/ call.pc = 2 /\ step = "context"
      \/ call.pc = 3 /\ step = "evalBack"
      \/ call.pc = 4 /\ step = "check"
      \/ call.pc = 5 /\ step = "price"
  BY <1>1, FixingAt
<1>4. CASE call.pc = 1 /\ step = "check"
  BY <1>1, <1>4 DEF FixingInv, Writes
<1>5. CASE call.pc = 2 /\ step = "context"
  BY <1>1, <1>5 DEF FixingInv, Records
<1>6. CASE call.pc = 3 /\ step = "evalBack"
  <2>1. evalDate' = FixingDate /\ FixingDate # None
    BY <1>2, <1>6 DEF Writes, EvalWrites
  <2>2. FixingDate = OwnFixing
    BY <1>1, <1>6 DEF FixingInv, FixingDate, OwnFixing
  <2> QED
    BY <1>1, <1>6, <2>1, <2>2 DEF FixingInv
<1>7. CASE call.pc > 3 /\ step \in {"check", "price"}
  <2>1. evalDate' = evalDate
    BY <1>2, <1>7 DEF Writes, EvalWrites
  <2>2. call.pc \in Nat
    BY DEF TypeOK, CallType
  <2> QED
    BY <1>1, <1>7, <2>1, <2>2 DEF FixingInv
<1> QED
  BY <1>3, <1>4, <1>5, <1>6, <1>7

\* ... and the nine option engines the same four.
LEMMA OptionAt ==
    ASSUME NEW step, At(step), call.op \in OptionEngines
    PROVE  \/ call.pc = 1 /\ step = "check"
           \/ call.pc = 2 /\ step \in {"base", "evalToday"}
           \/ call.pc = 3 /\ step = "check"
           \/ call.pc = 4 /\ step = "price"
<1>1. CASE Code[call.op] = <<"check", "base", "check", "price">>
  BY <1>1 DEF At
<1>2. CASE Code[call.op] = <<"check", "evalToday", "check", "price">>
  BY <1>2 DEF At
<1> QED
  BY <1>1, <1>2, OptionCode

LEMMA BaseAt ==
    ASSUME TypeOK, NEW step \in {"base", "evalToday"}, At(step)
    PROVE  call.op \in OptionEngines
<1> SUFFICES ASSUME call.op \notin OptionEngines PROVE FALSE
  OBVIOUS
<1>1. call.op \in DOMAIN Code
  BY OpsAssumption DEF TypeOK, CallType
<1>2. CASE call.op = "setCalendarContext"
  BY <1>2, ContextAt
<1>3. CASE call.op = "discountCurveEngine"
  BY <1>3, CurveAt
<1>4. CASE call.op \in {"FloatBond2", "FloatBond3", "FloatBond4"}
  <2> DEFINE Curved == Plain \cup {"build1", "build2"}
  <2>1. \A k \in 1..2 : buildTermStructure(k) \in Seq(Curved)
    BY DEF buildTermStructure, Plain, evalStep, settleStep, buildStep
  <2>2. \A c \in Seq(Plain) : c \in Seq(Curved)
    OBVIOUS
  <2>3. /\ FloatingBond \in Seq(Curved)
        /\ getFlatCurve(1) \in Seq(Curved) /\ getFlatCurve(2) \in Seq(Curved)
    BY <2>2, PlainHelpers
  <2> HIDE DEF Curved
  <2>4. Code[call.op] \in Seq(Curved)
    <3>1. /\ FloatBond2 \in Seq(Curved) /\ FloatBond3 \in Seq(Curved)
          /\ FloatBond4 \in Seq(Curved)
      BY <2>1, <2>3 DEF FloatBond2, FloatBond3, FloatBond4
    <3> QED
      BY <1>4, <3>1 DEF Code
  <2>5. step \in Curved
    BY <2>4 DEF At
  <2> QED
    BY <2>5 DEF Plain, Curved
<1>5. CASE call.op \notin {"setCalendarContext", "discountCurveEngine",
                          "FloatBond2", "FloatBond3", "FloatBond4"}
  <2>1. Code[call.op] \in Seq(Plain)
    BY <1>1, <1>5, PlainCode
  <2> QED
    BY <2>1 DEF At, Plain
<1> QED
  BY <1>2, <1>3, <1>4, <1>5

LEMMA OptionStep ==
    ASSUME TypeOK, OptionInv, OptionsOnOneDate, NEW step, Writes(step), Records(step)
    PROVE  OptionInv' /\ OptionsOnOneDate'
<1>1. /\ At(step) /\ call'.op = call.op /\ call'.pc = call.pc + 1 /\ today' = today
      /\ call'.entry = call.entry /\ call.status = "running"
      /\ call'.status = call.status
  BY DEF Writes, Moved, At
<1>2. \A l \in 1..2 : evalStep[l] \in {"eval1", "eval2"}
  BY DEF evalStep
<1>3. /\ None \notin Nat /\ call.entry.today \in Nat /\ today \in Nat
      /\ call.pc \in Nat /\ call.base \in Nat \cup {None}
      /\ evalDate \in Nat \cup {None}
  BY SessionAssumption DEF TypeOK, CallType, Dates, Moment
<1>4. CASE call.op \notin OptionEngines
  <2>1. call'.base = call.base
    BY <1>1, <1>4, BaseAt DEF Records
  <2> QED
    BY <1>1, <1>4, <2>1 DEF OptionInv, OptionsOnOneDate
<1>5. CASE call.op \in OptionEngines
  <2>1. \/ call.pc = 1 /\ step = "check"
        \/ call.pc = 2 /\ step = "base"
        \/ call.pc = 2 /\ step = "evalToday"
        \/ call.pc = 3 /\ step = "check"
        \/ call.pc = 4 /\ step = "price"
    BY <1>1, <1>5, OptionAt
  <2>2. CASE step = "check"
    <3>1. evalDate' = evalDate /\ call'.base = call.base /\ call'.at = call.at
      BY <1>2, <2>2 DEF Writes, Records, EvalWrites
    <3> QED
      BY <1>1, <1>3, <1>5, <2>1, <2>2, <3>1 DEF OptionInv, OptionsOnOneDate
  <2>3. CASE call.pc = 2 /\ step = "base"
    <3>1. /\ evalDate' = evalDate /\ call'.base = EvaluationDate
          /\ call'.at = call.at
      BY <1>2, <2>3 DEF Writes, Records, EvalWrites
    <3> QED
      BY <1>1, <1>3, <1>5, <2>3, <3>1 DEF OptionInv, OptionsOnOneDate, EvaluationDate
  <2>4. CASE call.pc = 2 /\ step = "evalToday"
    <3>1. evalDate' = today /\ call'.base = today /\ call'.at = call.at
      BY <1>2, <2>4 DEF Writes, Records, EvalWrites
    <3> QED
      BY <1>1, <1>3, <1>5, <2>4, <3>1 DEF OptionInv, OptionsOnOneDate
  <2>5. CASE call.pc = 4 /\ step = "price"
    <3>1. /\ evalDate' = evalDate /\ call'.base = call.base
          /\ call'.at = EvaluationDate
      BY <1>2, <2>5 DEF Writes, Records, EvalWrites
    <3> QED
      BY <1>1, <1>3, <1>5, <2>5, <3>1 DEF OptionInv, OptionsOnOneDate, EvaluationDate
  <2> QED
    BY <2>1, <2>2, <2>3, <2>4, <2>5
<1> QED
  BY <1>4, <1>5

\* Helpers of a curve are built when its own settlement date is in place ...
LEMMA FuturesStep ==
    ASSUME TypeOK, LastWritten, FuturesFromOwnSettle, NEW step, Writes(step),
           Records(step)
    PROVE  FuturesFromOwnSettle'
<1>1. /\ At(step) /\ call'.s = call.s /\ call.status = "running"
  BY DEF Writes, Moved, At
<1>2. CASE call'.imm = call.imm
  BY <1>1, <1>2 DEF FuturesFromOwnSettle
<1>3. ASSUME NEW k \in 1..2, step = buildStep[k],
             call'.imm = [call.imm EXCEPT ![k] = settleDate]
      PROVE  FuturesFromOwnSettle'
  <2>1. /\ call.op \in DOMAIN Code /\ call.pc \in 1..Len(Code[call.op])
        /\ Code[call.op][call.pc] = buildStep[k]
    BY <1>1, <1>3, OpsAssumption DEF TypeOK, CallType, At
  <2>2. LastIs(Code[call.op], call.pc, SettleWrites, settleStep[k])
    BY <2>1, AllSettled DEF SettledBeforeBuilt
  <2>3. settleDate = call.s[k]
    BY <1>1, <2>2 DEF LastWritten
  <2>4. call.imm \in Moment \X Moment
    BY DEF TypeOK, CallType
  <2>5. \A l \in 1..2 : l # k => call'.imm[l] = call.imm[l]
    BY <1>3, <2>4
  <2>6. call'.imm[k] = settleDate
    BY <1>3, <2>4
  <2> QED
    BY <1>1, <2>3, <2>5, <2>6 DEF FuturesFromOwnSettle
<1> QED
  BY <1>2, <1>3 DEF Records

\* ... and results are computed when the engine's own date is.
LEMMA PricedStep ==
    ASSUME TypeOK, LastWritten, FixingInv, PricedUnderOwnDate, NEW step,
           Writes(step), Records(step)
    PROVE  PricedUnderOwnDate'
<1>1. /\ At(step) /\ call'.op = call.op /\ call'.d = call.d
      /\ call'.entry = call.entry /\ call.status = "running"
  BY DEF Writes, Moved, At
<1>2. CASE step # "price"
  BY <1>1, <1>2 DEF PricedUnderOwnDate, Records
<1>3. CASE step = "price"
  <2>1. call'.at = EvaluationDate
    BY <1>3 DEF Records
  <2>2. ASSUME call.op \in DatedByCaller
        PROVE  call'.at = call.d[DatedCurve(call.op)]
    <3> DEFINE k == DatedCurve(call.op)
    <3>1. k \in 1..2
      BY DEF DatedCurve
    <3>2. call.pc \in 1..Len(Code[call.op]) /\ Code[call.op][call.pc] = "price"
      BY <1>1, <1>3 DEF At
    <3>3. LastIs(Code[call.op], call.pc, EvalWrites, evalStep[k])
      BY <2>2, <3>2, AllDated DEF PricedUnder
    <3> HIDE DEF k
    <3>4. evalDate = call.d[k]
      BY <1>1, <3>1, <3>3 DEF LastWritten
    <3>5. call.d[k] # None
      <4>1. call.d \in Dates \X Dates /\ None \notin Dates
        BY SessionAssumption DEF TypeOK, CallType, Dates
      <4>2. k = 1 \/ k = 2
        BY <3>1
      <4> QED
        BY <4>1, <4>2
    <3>6. call'.at = call.d[k]
      BY <2>1, <3>4, <3>5 DEF EvaluationDate
    <3> QED
      BY <3>6 DEF k
  <2>3. ASSUME call.op \in DatedByContext
        PROVE  call'.at = OwnFixing
    <3>1. call.pc = 5
      BY <1>1, <1>3, <2>3, FixingAt
    <3>2. evalDate = OwnFixing /\ evalDate # None
      BY <1>1, <2>3, <3>1 DEF FixingInv
    <3> QED
      BY <2>1, <3>2 DEF EvaluationDate
  <2> QED
    BY <1>1, <2>2, <2>3 DEF PricedUnderOwnDate, DatedCurve, OwnFixing
<1> QED
  BY <1>2, <1>3

LEMMA DatesInit == Init => DatesInv
<1> SUFFICES ASSUME Init PROVE DatesInv
  OBVIOUS
<1>1. /\ call.status = "idle" /\ call.base = None /\ call.at = None
      /\ call.imm = <<None, None>>
  BY DEF Init, NewCall
<1> QED
  BY <1>1 DEF DatesInv, LastWritten, FixingInv, OptionInv, FuturesFromOwnSettle,
              PricedUnderOwnDate, OptionsOnOneDate

LEMMA DatesStep == TypeOK /\ DatesInv /\ [Next]_vars => DatesInv'
<1> SUFFICES ASSUME TypeOK, DatesInv, [Next]_vars PROVE DatesInv'
  OBVIOUS
<1>0. /\ LastWritten /\ FixingInv /\ OptionInv
      /\ FuturesFromOwnSettle /\ PricedUnderOwnDate /\ OptionsOnOneDate
  BY DEF DatesInv
<1>1. ASSUME NEW step, Writes(step), Records(step) PROVE DatesInv'
  BY <1>0, <1>1, LastWrittenStep, FixingStep, OptionStep, FuturesStep, PricedStep
     DEF DatesInv
<1>2. CASE Ends
  BY <1>0, <1>2 DEF Ends, DatesInv, LastWritten, FixingInv, OptionInv,
                    FuturesFromOwnSettle, PricedUnderOwnDate, OptionsOnOneDate
<1>3. CASE Starts
  <2>1. /\ call'.pc = 1 /\ call'.base = None /\ call'.at = None
        /\ call'.imm = <<None, None>>
        /\ UNCHANGED <<evalDate, settleDate, calendar, fixingDays, today>>
    BY <1>3 DEF Starts, settings
  <2>2. /\ call'.entry.evalDate = evalDate /\ call'.entry.calendar = calendar
        /\ call'.entry.fixingDays = fixingDays /\ call'.entry.today = today
    BY <1>3 DEF Starts, Entry
  <2>3. today \in Nat
    BY DEF TypeOK, Dates
  <2>4. LastWritten'
    BY <2>1, LastAtStart DEF LastWritten
  <2>5. FixingInv'
    BY <2>1, <2>2 DEF FixingInv
  <2>6. OptionInv' /\ OptionsOnOneDate'
    BY <2>1, <2>2, <2>3 DEF OptionInv, OptionsOnOneDate
  <2>7. FuturesFromOwnSettle'
    BY <2>1 DEF FuturesFromOwnSettle
  <2>8. PricedUnderOwnDate'
    BY <2>1 DEF PricedUnderOwnDate
  <2> QED
    BY <2>4, <2>5, <2>6, <2>7, <2>8 DEF DatesInv
<1>4. CASE Waits
  <2>1. /\ call' = call /\ UNCHANGED <<evalDate, settleDate, calendar, fixingDays>>
        /\ today' \in {today, today + 1}
    BY <1>4 DEF Waits, settings
  <2>2. /\ today \in Nat /\ call.entry.today \in Nat
        /\ call.base \in Nat \cup {None} /\ None \notin Nat
    BY SessionAssumption DEF TypeOK, CallType, Dates, Moment
  <2>3. /\ LastWritten' /\ FixingInv' /\ FuturesFromOwnSettle'
        /\ PricedUnderOwnDate' /\ OptionsOnOneDate'
    BY <1>0, <2>1 DEF LastWritten, FixingInv, OwnFixing, FuturesFromOwnSettle,
                      PricedUnderOwnDate, OptionsOnOneDate
  <2>4. OptionInv'
    BY <1>0, <2>1, <2>2 DEF OptionInv
  <2> QED
    BY <2>3, <2>4 DEF DatesInv
<1> QED
  BY <1>1, <1>2, <1>3, <1>4, NextIs

LEMMA AlwaysDates == Spec => []DatesInv
<1>1. IInv => TypeOK
  BY DEF IInv
<1> QED
  BY <1>1, AlwaysIInv, DatesInit, DatesStep, PTL DEF Spec

-----------------------------------------------------------------------------
(* The theorems.                                                           *)

\* Whatever ran before, the futures of each curve count from the settlement
\* date of that curve: getRateHelper never meets a date an earlier call or
\* the call's other curve left in the context.
THEOREM OwnSettlement == Spec => []FuturesFromOwnSettle
<1>1. DatesInv => FuturesFromOwnSettle
  BY DEF DatesInv
<1> QED
  BY <1>1, AlwaysDates, PTL

\* Results come from the date the engine was given, or from the date the
\* context it found puts before settlement, for every table of calendars and
\* every sequence of calls, failures and midnights.
THEOREM OwnDate == Spec => []PricedUnderOwnDate
<1>1. DatesInv => PricedUnderOwnDate
  BY DEF DatesInv
<1> QED
  BY <1>1, AlwaysDates, PTL

\* The curves and the results of an option engine share a date, unless the
\* date floats and midnight comes between them.
THEOREM OneDate == Spec => []OptionsOnOneDate
<1>1. DatesInv => OptionsOnOneDate
  BY DEF DatesInv
<1> QED
  BY <1>1, AlwaysDates, PTL
=============================================================================
