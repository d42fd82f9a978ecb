---------------------------- MODULE FrontEndProofs ----------------------------
(***************************************************************************)
(* Theorems about FrontEnd, for any calls, legs and IMM dates: what        *)
(* becomes of quotes, of swap legs and of the words for conventions.       *)
(***************************************************************************)
EXTENDS FrontEnd, FiniteSetTheorems, WellFoundedInduction, SequenceTheorems, TLAPS

-----------------------------------------------------------------------------
(* IMM dates.                                                              *)

LEMMA LeastOf ==
    ASSUME NEW S \in SUBSET Nat, S # {}
    PROVE  \E n \in S : \A m \in S : n <= m
<1> DEFINE Less == {p \in Nat \X Nat : p[1] < p[2]}
<1>1. IsWellFoundedOn(Less, Nat)
  BY NatLessThanWellFounded DEF OpToRel
<1>2. PICK n \in S : \A m \in S : <<m, n>> \notin Less
  BY <1>1, WFMin
<1>3. \A m \in S : n <= m
  <2> TAKE m \in S
  <2>1. m \in Nat /\ n \in Nat
    OBVIOUS
  <2>2. <<m, n>> \in Nat \X Nat /\ <<m, n>>[1] = m /\ <<m, n>>[2] = n
    BY <2>1
  <2>3. ~(m < n)
    BY <1>2, <2>2
  <2> QED
    BY <2>1, <2>3
<1> QED
  BY <1>3

\* The dates that nextDate passes on its way from settlement to x.
Passed(settle, x) == {d \in ImmDates : settle < d /\ d <= x}
After(settle) == {d \in ImmDates : settle < d}

LEMMA PassedFinite ==
    ASSUME NEW settle \in Nat, NEW x \in Nat
    PROVE  /\ IsFiniteSet(Passed(settle, x)) /\ Cardinality(Passed(settle, x)) \in Nat
           /\ IsFiniteSet(After(settle)) /\ Cardinality(After(settle)) \in Nat
<1>1. IsFiniteSet(ImmDates)
  BY ImmAssumption
<1>2. Passed(settle, x) \in SUBSET ImmDates /\ After(settle) \in SUBSET ImmDates
  BY DEF Passed, After
<1> QED
  BY <1>1, <1>2, FS_Subset, FS_CardinalityType

LEMMA NextIs ==
    ASSUME NEW d \in Nat, \E e \in ImmDates : e > d
    PROVE  /\ nextDate(d) \in ImmDates /\ nextDate(d) > d
           /\ \A f \in ImmDates : f > d => nextDate(d) <= f
<1> DEFINE S == {e \in ImmDates : e > d}
<1>1. S \in SUBSET Nat /\ S # {}
  BY ImmAssumption
<1>2. \E e \in S : \A f \in S : e <= f
  BY <1>1, LeastOf
<1>3. \E e \in ImmDates : e > d /\ \A f \in ImmDates : f > d => e <= f
  BY <1>2
<1> QED
  BY <1>3 DEF nextDate

\* The first IMM date after x is one more.
LEMMA OneMore ==
    ASSUME NEW settle \in Nat, NEW x \in Nat, settle <= x,
           NEW y \in ImmDates, y > x, \A f \in ImmDates : f > x => y <= f
    PROVE  Cardinality(Passed(settle, y)) = Cardinality(Passed(settle, x)) + 1
<1>1. ImmDates \in SUBSET Nat
  BY ImmAssumption
<1>2. Passed(settle, y) = Passed(settle, x) \cup {y}
  <2>1. ASSUME NEW d \in Passed(settle, y) PROVE d \in Passed(settle, x) \cup {y}
    <3>1. d \in ImmDates /\ settle < d /\ d <= y
      BY DEF Passed
    <3>2. d > x => y <= d
      BY <3>1
    <3>3. d <= x \/ d = y
      BY <1>1, <3>1, <3>2
    <3> QED
      BY <3>1, <3>3 DEF Passed
  <2>2. ASSUME NEW d \in Passed(settle, x) PROVE d \in Passed(settle, y)
    <3>1. d \in ImmDates /\ settle < d /\ d <= x
      BY DEF Passed
    <3>2. d <= y
      BY <1>1, <3>1
    <3> QED
      BY <3>1, <3>2 DEF Passed
  <2>3. y \in Passed(settle, y)
    BY <1>1 DEF Passed
  <2> QED
    BY <2>1, <2>2, <2>3
<1>3. y \notin Passed(settle, x)
  BY <1>1 DEF Passed
<1>4. IsFiniteSet(Passed(settle, x))
  BY PassedFinite
<1> QED
  BY <1>2, <1>3, <1>4, FS_AddElement

\* While not all dates are passed there is a next one, and a day lies between.
LEMMA MoreToCome ==
    ASSUME NEW settle \in Nat, NEW x \in ImmDates,
           Cardinality(Passed(settle, x)) < Cardinality(After(settle))
    PROVE  /\ \E e \in ImmDates : e > x + 1
           /\ \A e \in ImmDates : e > x <=> e > x + 1
<1>1. ImmDates \in SUBSET Nat /\ \A d, e \in ImmDates : d < e => e - d > 1
  BY ImmAssumption
<1>2. \A e \in ImmDates : e > x <=> e > x + 1
  BY <1>1
<1>3. \E e \in ImmDates : e > x
  <2> SUFFICES ASSUME \A e \in ImmDates : ~(e > x) PROVE FALSE
    OBVIOUS
  <2>1. After(settle) = Passed(settle, x)
    <3>1. \A d \in ImmDates : d <= x
      BY <1>1
    <3> QED
      BY <3>1, Zenon DEF After, Passed
  <2>2. Cardinality(Passed(settle, x)) \in Nat
    BY <1>1, PassedFinite
  <2> QED
    BY <2>1, <2>2
<1> QED
  BY <1>2, <1>3

\* What the loop over nextDate fills its dates with.
Walk(settle, n, f) ==
    f = [k \in 1..n |-> IF k = 1 THEN nextDate(settle) ELSE nextDate(f[k - 1] + 1)]

LEMMA WalkExists ==
    ASSUME NEW settle, NEW n \in Nat
    PROVE  \E f : Walk(settle, n, f)
<1> DEFINE S == {m \in Nat : ~ \E f : Walk(settle, m, f)}
<1> SUFFICES ASSUME S # {} PROVE FALSE
  OBVIOUS
<1>1. PICK m \in S : \A k \in S : m <= k
  <2>1. S \in SUBSET Nat
    OBVIOUS
  <2> HIDE DEF S
  <2> QED
    BY <2>1, LeastOf
<1>2. CASE m = 0
  <2>1. Walk(settle, 0, [k \in 1..0 |-> nextDate(settle)])
    <3>1. 1..0 = {}
      OBVIOUS
    <3> QED
      BY <3>1 DEF Walk
  <2> QED
    BY <1>1, <1>2, <2>1
<1>3. CASE m > 0
  <2>1. m - 1 \in Nat /\ m - 1 \notin S
    BY <1>1, <1>3
  <2>2. PICK f : Walk(settle, m - 1, f)
    BY <2>1
  <2> DEFINE g == [k \in 1..m |-> IF k = 1 THEN nextDate(settle)
                                  ELSE nextDate(f[k - 1] + 1)]
  <2>3. f = [k \in 1..(m - 1) |-> IF k = 1 THEN nextDate(settle)
                                  ELSE nextDate(f[k - 1] + 1)]
    BY <2>2 DEF Walk
  <2>4. \A k \in 1..(m - 1) : f[k] = IF k = 1 THEN nextDate(settle)
                                     ELSE nextDate(f[k - 1] + 1)
    BY <2>3
  <2>5. \A k \in 1..(m - 1) : k \in 1..m /\ g[k] = f[k]
    BY <2>4
  <2>6. \A k \in 1..m : k = 1 \/ k - 1 \in 1..(m - 1)
    BY <1>1
  <2>7. \A k \in 1..m : g[k] = IF k = 1 THEN nextDate(settle)
                               ELSE nextDate(g[k - 1] + 1)
    BY <2>5, <2>6
  <2>8. g = [k \in 1..m |-> g[k]]
    OBVIOUS
  <2> HIDE DEF g
  <2>9. Walk(settle, m, g)
    BY <2>7, <2>8 DEF Walk
  <2> QED
    BY <1>1, <2>9
<1> QED
  BY <1>1, <1>2, <1>3

\* The n-th date the loop reaches is the n-th IMM date after settlement, while
\* there are as many.
LEMMA NthImmDate ==
    ASSUME NEW settle \in Nat, NEW n \in Nat \ {0}, n <= Cardinality(After(settle))
    PROVE  /\ immDate(settle, n) \in ImmDates
           /\ Cardinality(Passed(settle, immDate(settle, n))) = n
<1> DEFINE f == CHOOSE g : Walk(settle, n, g)
<1>1. immDate(settle, n) = f[n]
  BY DEF immDate, Walk
<1>2. Walk(settle, n, f)
  BY WalkExists
<1> HIDE DEF f
<1>3. \A k \in 1..n : f[k] = IF k = 1 THEN nextDate(settle) ELSE nextDate(f[k - 1] + 1)
  BY <1>2 DEF Walk
<1> DEFINE Right(k) == f[k] \in ImmDates /\ settle < f[k]
                       /\ Cardinality(Passed(settle, f[k])) = k
           S == {k \in 1..n : ~Right(k)}
<1>4. ImmDates \in SUBSET Nat /\ Cardinality(After(settle)) \in Nat
  BY ImmAssumption, PassedFinite
<1>5. S = {}
  <2> SUFFICES ASSUME S # {} PROVE FALSE
    OBVIOUS
  <2>1. PICK m \in S : \A k \in S : m <= k
    <3>1. S \in SUBSET Nat
      OBVIOUS
    <3> HIDE DEF S
    <3> QED
      BY <3>1, LeastOf
  <2>2. m \in 1..n /\ ~Right(m)
    BY <2>1
  <2>3. CASE m = 1
    <3>1. Passed(settle, settle) = {}
      <4>1. \A d \in ImmDates : ~(settle < d /\ d <= settle)
        BY <1>4
      <4> QED
        BY <4>1, Zenon DEF Passed
    <3>2. Cardinality(Passed(settle, settle)) = 0
      BY <3>1, FS_EmptySet
    <3>3. After(settle) # {}
      BY <1>4, FS_EmptySet
    <3>4. \E e \in ImmDates : e > settle
      BY <1>4, <3>3 DEF After
    <3>5. /\ f[1] = nextDate(settle)
          /\ f[1] \in ImmDates /\ f[1] > settle
          /\ \A e \in ImmDates : e > settle => f[1] <= e
      BY <1>3, <2>2, <2>3, <3>4, NextIs
    <3>6. Cardinality(Passed(settle, f[1])) = 0 + 1
      BY <3>2, <3>5, OneMore
    <3> QED
      BY <1>4, <2>2, <2>3, <3>5, <3>6
  <2>4. CASE m # 1
    <3>1. m - 1 \in 1..n /\ m - 1 \notin S
      BY <2>1, <2>2, <2>4
    <3>2. Right(m - 1)
      BY <3>1
    <3> DEFINE x == f[m - 1]
    <3>3. /\ x \in ImmDates /\ x \in Nat /\ settle < x
          /\ Cardinality(Passed(settle, x)) = m - 1
      BY <1>4, <3>2
    <3>4. f[m] = nextDate(x + 1)
      BY <1>3, <2>2, <2>4
    <3> HIDE DEF x
    <3>5. m - 1 < Cardinality(After(settle))
      BY <1>4, <2>2
    <3>6. /\ \E e \in ImmDates : e > x + 1
          /\ \A e \in ImmDates : e > x <=> e > x + 1
      BY <3>3, <3>5, MoreToCome
    <3>7. /\ f[m] \in ImmDates /\ f[m] > x + 1
          /\ \A e \in ImmDates : e > x + 1 => f[m] <= e
      BY <3>3, <3>4, <3>6, NextIs
    <3>8. f[m] \in Nat /\ f[m] > x /\ settle < f[m] /\ settle <= x
      <4> DEFINE y == f[m]
      <4>1. y \in Nat /\ y > x + 1
        BY <1>4, <3>7
      <4> HIDE DEF y
      <4>2. y > x /\ settle < y /\ settle <= x
        BY <3>3, <4>1
      <4> QED
        BY <4>1, <4>2 DEF y
    <3>9. \A e \in ImmDates : e > x => f[m] <= e
      BY <3>6, <3>7
    <3>10. Cardinality(Passed(settle, f[m])) = (m - 1) + 1
      BY <3>3, <3>7, <3>8, <3>9, OneMore
    <3> QED
      BY <2>2, <3>7, <3>8, <3>10
  <2> QED
    BY <2>3, <2>4
<1>6. Right(n)
  BY <1>5
<1> QED
  BY <1>1, <1>6

-----------------------------------------------------------------------------
(* The helpers of a curve.                                                 *)

\* The helpers made so far are those of the first quotes, all of them known
\* tickers, and a finished curve has all of them.
HelpersFollowQuotes ==
    /\ call \in Calls
    /\ helpers \in Seq({HelperFor(q) : q \in STRING})
    /\ Len(helpers) <= Len(call.quotes)
    /\ \A k \in 1..Len(helpers) : /\ InDatabase(call.quotes[k])
                                  /\ helpers[k] = HelperFor(call.quotes[k])
    /\ phase \notin {"coded", "built"} => helpers = Nothing
    /\ Flat => helpers = Nothing
    /\ Built(CurveFuns) => IF Flat THEN curve[1] = "flat"
                           ELSE Len(helpers) = Len(call.quotes) /\ curve = call.interp

LEMMA NoHelpers ==
    /\ \A S : Nothing \in Seq(S)
    /\ Len(Nothing) = 0
  BY DEF Nothing

LEMMA QuotesAreStrings ==
    ASSUME call \in Calls
    PROVE  /\ call.quotes \in Seq(STRING) /\ Len(call.quotes) \in Nat
           /\ \A k \in 1..Len(call.quotes) : call.quotes[k] \in STRING
<1>1. call.quotes \in Seq(STRING)
  BY CallsAssumption
<1> QED
  BY <1>1

\* A helper depends on the call and its legs, which no engine changes.
LEMMA SameHelpers ==
    ASSUME UNCHANGED <<call, params>>
    PROVE  \A q : HelperFor(q)' = HelperFor(q)
  BY DEF HelperFor, Legs

LEMMA NotACurve == BondFuns \cap CurveFuns = {}
  BY DEF BondFuns, CurveFuns, IndexFuns, NumberFuns

LEMMA FollowInit == Init => HelpersFollowQuotes
<1> SUFFICES ASSUME Init PROVE HelpersFollowQuotes
  OBVIOUS
<1>1. call \in Calls /\ helpers = Nothing /\ phase = "called"
  BY DEF Init
<1> QED
  BY <1>1, NoHelpers, QuotesAreStrings DEF HelpersFollowQuotes, Built

\* What has no helpers and is not finished follows its quotes.
LEMMA EmptyFollows ==
    ASSUME call' \in Calls, helpers' = Nothing, phase' # "built"
    PROVE  HelpersFollowQuotes'
<1>1. call'.quotes \in Seq(STRING)
  BY CallsAssumption
<1>2. Len(call'.quotes) \in Nat
  BY <1>1
<1> QED
  BY <1>2, NoHelpers DEF HelpersFollowQuotes, Built

\* A step that adds no helper.
LEMMA SameFollows ==
    ASSUME HelpersFollowQuotes, UNCHANGED <<call, params, helpers>>,
           phase' \in {"coded", "built"},
           Built(CurveFuns)' => IF Flat THEN curve'[1] = "flat"
                                ELSE /\ Len(helpers) = Len(call.quotes)
                                     /\ curve' = call.interp
    PROVE  HelpersFollowQuotes'
<1>1. \A q : HelperFor(q)' = HelperFor(q)
  BY SameHelpers
<1>2. {HelperFor(q) : q \in STRING}' = {HelperFor(q) : q \in STRING}
  BY <1>1
<1> QED
  BY <1>1, <1>2 DEF HelpersFollowQuotes, Flat

LEMMA PushFollows ==
    ASSUME HelpersFollowQuotes, PushHelper
    PROVE  HelpersFollowQuotes'
<1> DEFINE S == {HelperFor(q) : q \in STRING}
<1>1. /\ UNCHANGED <<call, phase, params, curve>>
      /\ helpers' = Append(helpers, HelperFor(NextTicker))
      /\ Len(helpers) < Len(call.quotes) /\ ~Flat /\ phase = "coded"
      /\ InDatabase(NextTicker)
  BY DEF PushHelper, Building, HelperPossible
<1>2. /\ helpers \in Seq(S) /\ Len(helpers) \in Nat /\ call \in Calls
      /\ \A k \in 1..Len(helpers) : /\ InDatabase(call.quotes[k])
                                    /\ helpers[k] = HelperFor(call.quotes[k])
  BY DEF HelpersFollowQuotes
<1>3. Len(call.quotes) \in Nat /\ NextTicker \in STRING
  BY <1>1, <1>2, QuotesAreStrings DEF NextTicker
<1>4. HelperFor(NextTicker) \in S
  BY <1>3
<1> HIDE DEF S
<1>5. /\ helpers' \in Seq(S) /\ Len(helpers') = Len(helpers) + 1
      /\ \A k \in 1..Len(helpers) : helpers'[k] = helpers[k]
      /\ helpers'[Len(helpers) + 1] = HelperFor(NextTicker)
  BY <1>1, <1>2, <1>4, AppendProperties
<1>6. \A q : HelperFor(q)' = HelperFor(q)
  BY <1>1, SameHelpers
<1>7. S' = S
  BY <1>6 DEF S
<1>8. \A k \in 1..Len(helpers') : /\ InDatabase(call.quotes[k])
                                 /\ helpers'[k] = HelperFor(call.quotes[k])
  <2> TAKE k \in 1..Len(helpers')
  <2>1. k \in 1..Len(helpers) \/ k = Len(helpers) + 1
    BY <1>2, <1>5
  <2>2. CASE k \in 1..Len(helpers)
    BY <1>2, <1>5, <2>2
  <2>3. CASE k = Len(helpers) + 1
    BY <1>1, <1>5, <2>3 DEF NextTicker
  <2> QED
    BY <2>1, <2>2, <2>3
<1>9. Len(helpers') <= Len(call.quotes)
  BY <1>1, <1>2, <1>3, <1>5
<1> QED
  BY <1>1, <1>2, <1>5, <1>6, <1>7, <1>8, <1>9 DEF HelpersFollowQuotes, Flat, Built, S

LEMMA FollowStep == HelpersFollowQuotes /\ [Next]_vars => HelpersFollowQuotes'
<1> SUFFICES ASSUME HelpersFollowQuotes, [Next]_vars PROVE HelpersFollowQuotes'
  OBVIOUS
<1>0. call \in Calls
  BY DEF HelpersFollowQuotes
<1>1. CASE FillDefaults
  <2>1. call' = call /\ helpers' = helpers /\ helpers = Nothing /\ phase' = "filled"
    BY <1>1 DEF FillDefaults, results, HelpersFollowQuotes
  <2> QED
    BY <1>0, <2>1, EmptyFollows
<1>2. CASE matchParams
  <2>1. call' = call /\ helpers' = helpers /\ helpers = Nothing /\ phase' = "coded"
    BY <1>2 DEF matchParams, results, HelpersFollowQuotes
  <2> QED
    BY <1>0, <2>1, EmptyFollows
<1>3. ASSUME Fails PROVE HelpersFollowQuotes'
  <2>1. call' = call /\ helpers' = Nothing /\ phase' = "error"
    BY <1>3 DEF Fails
  <2> QED
    BY <1>0, <2>1, EmptyFollows
<1>4. CASE FlatForward
  <2>1. /\ UNCHANGED <<call, params, helpers>> /\ phase' = "built"
        /\ Flat /\ curve'[1] = "flat"
    BY <1>4 DEF FlatForward
  <2> QED
    BY <2>1, SameFollows
<1>5. CASE PushHelper
  BY <1>5, PushFollows
<1>6. CASE getTermStructure
  <2>1. /\ UNCHANGED <<call, params, helpers>> /\ phase' = "built"
        /\ ~Flat /\ curve' = call.interp /\ Len(helpers) = Len(call.quotes)
    BY <1>6 DEF getTermStructure
  <2> QED
    BY <2>1, SameFollows
<1>7. CASE BuildBond
  <2>1. /\ UNCHANGED <<call, params, helpers>> /\ phase' = "built"
        /\ call.fun \notin CurveFuns
    BY <1>7, NotACurve DEF BuildBond
  <2>2. ~Built(CurveFuns)'
    BY <2>1 DEF Built
  <2> QED
    BY <2>1, <2>2, SameFollows
<1>8. CASE WordRefused \/ HelperRefused \/ InterpolationUnknown \/ BondRefused
  BY <1>3, <1>8 DEF WordRefused, HelperRefused, InterpolationUnknown, BondRefused
<1>9. CASE UNCHANGED vars
  <2>1. \A q : HelperFor(q)' = HelperFor(q)
    BY <1>9, SameHelpers DEF vars
  <2>2. {HelperFor(q) : q \in STRING}' = {HelperFor(q) : q \in STRING}
    BY <2>1
  <2> QED
    BY <1>9, <2>1, <2>2 DEF vars, HelpersFollowQuotes, Flat, Built
<1> QED
  BY <1>1, <1>2, <1>4, <1>5, <1>6, <1>7, <1>8, <1>9 DEF Next

\* Every reachable state has the invariant.
THEOREM Following == Spec => []HelpersFollowQuotes
  BY FollowInit, FollowStep, PTL DEF Spec

\* However many quotes a curve is asked from, it is built from one helper for
\* each, in their order, or not at all (discount.cpp 68-89, utils.cpp 138-148).
THEOREM QuotesAllThere == Spec => []OneHelperPerQuote
<1>1. HelpersFollowQuotes => OneHelperPerQuote
  <2> SUFFICES ASSUME HelpersFollowQuotes, Built(CurveFuns)
               PROVE  IF Flat THEN helpers = Nothing /\ curve[1] = "flat"
                      ELSE /\ Len(helpers) = Len(call.quotes)
                           /\ \A k \in DOMAIN helpers : helpers[k] = HelperFor(call.quotes[k])
                           /\ curve = call.interp
    BY DEF OneHelperPerQuote
  <2>1. DOMAIN helpers = 1..Len(helpers)
    BY DEF HelpersFollowQuotes
  <2> QED
    BY <2>1 DEF HelpersFollowQuotes
<1> QED
  BY <1>1, Following, PTL

-----------------------------------------------------------------------------
(* The two overloads of getRateHelper.                                     *)

LEMMA SameHelperEitherWay ==
    ASSUME NEW ticker, NEW settle, NEW legs,
           legs.fixFreq = "Annual", legs.floatFreq = 6
    PROVE  LET helper == getRateHelperFixed(ticker, settle)
               other == getRateHelper(ticker, settle, legs)
           IN  \/ helper = other
               \/ /\ helper.kind = "swap"
                  /\ helper = [other EXCEPT !.dayCounter = "Thirty360.European"]
<1>1. CASE ticker \in DOMAIN Swaps
  BY <1>1 DEF getRateHelperFixed, getRateHelper, SwapHelper
<1>2. CASE ticker \notin DOMAIN Swaps
  BY <1>2 DEF getRateHelperFixed, getRateHelper
<1> QED
  BY <1>1, <1>2

LEMMA LegsOfTheSignature ==
    DefaultLegs.fixFreq = "Annual" /\ DefaultLegs.floatFreq = 6
<1>1. matchFloatFrequency["Semiannual"] = 6 /\ matchFrequency["Annual"] = 1
  BY DEF matchFloatFrequency, matchFrequency
<1>2. getFrequency(1) = "Annual"
  BY DEF getFrequency
<1> QED
  BY <1>1, <1>2 DEF DefaultLegs

\* A curve of buildTermStructure rests on the helpers DiscountCurve would make
\* of the same quotes and the legs of its signature, but for the kind of
\* 30/360 a swap counts its days by (curves.cpp 72-142, 144-211).
THEOREM OneCurveTwoWays == Spec => []SameCurveEitherWay
<1>1. HelpersFollowQuotes => SameCurveEitherWay
  <2> SUFFICES ASSUME HelpersFollowQuotes, Built({"buildTermStructure"}),
                      NEW k \in DOMAIN helpers
               PROVE  LET other == getRateHelper(call.quotes[k], call.settle, DefaultLegs)
                      IN  \/ helpers[k] = other
                          \/ /\ helpers[k].kind = "swap"
                             /\ helpers[k] = [other EXCEPT
                                               !.dayCounter = "Thirty360.European"]
    BY DEF SameCurveEitherWay
  <2>1. DOMAIN helpers = 1..Len(helpers)
    BY DEF HelpersFollowQuotes
  <2>2. helpers[k] = getRateHelperFixed(call.quotes[k], call.settle)
    BY <2>1 DEF HelpersFollowQuotes, Built, HelperFor
  <2> QED
    BY <2>2, LegsOfTheSignature, SameHelperEitherWay
<1> QED
  BY <1>1, Following, PTL

-----------------------------------------------------------------------------
(* Words and their enumerators.                                            *)

LEMMA NumberedIs ==
    ASSUME NEW words, \A j, k \in DOMAIN words : words[j] = words[k] => j = k
    PROVE  \A w \in DOMAIN Numbered(words) :
             \E k \in DOMAIN words : w = words[k] /\ Numbered(words)[w] = k - 1
<1> SUFFICES ASSUME NEW w \in DOMAIN Numbered(words)
             PROVE  \E k \in DOMAIN words : w = words[k] /\ Numbered(words)[w] = k - 1
  OBVIOUS
<1>1. w \in {words[j] : j \in DOMAIN words}
  BY DEF Numbered
<1>2. PICK k \in DOMAIN words : w = words[k]
  BY <1>1
<1>3. (CHOOSE j \in DOMAIN words : words[j] = w) = k
  BY <1>2
<1>4. Numbered(words)[w] = k - 1
  BY <1>1, <1>3 DEF Numbered
<1> QED
  BY <1>2, <1>4

LEMMA DayCounters ==
    \A w \in DOMAIN matchDayCounter : getDayCounter(matchDayCounter[w]) = Meaning(w)
<1> DEFINE words ==
        <<"Actual360", "ActualFixed", "ActualActual", "Business252",
          "OneDayCounter", "SimpleDayCounter", "Thirty360", "Actual365NoLeap",
          "ActualActual.ISMA", "ActualActual.Bond", "ActualActual.ISDA",
          "ActualActual.Historical", "ActualActual.AFB", "ActualActual.Euro">>
      names ==
        <<"Actual360", "Actual365Fixed", "ActualActual.ISDA", "Business252",
          "OneDayCounter", "SimpleDayCounter", "Thirty360.BondBasis",
          "Actual365Fixed.NoLeap", "ActualActual.ISMA", "ActualActual.Bond",
          "ActualActual.ISDA", "ActualActual.Historical", "ActualActual.AFB",
          "ActualActual.Euro">>
<1>1. DOMAIN words = 1..14
  OBVIOUS
<1>2. \A j, k \in 1..14 : words[j] = words[k] => j = k
  OBVIOUS
<1>3. \A k \in 1..14 : getDayCounter(k - 1) = names[k]
  BY DEF getDayCounter, EnumeratorAt
<1>4. \A k \in 1..14 : names[k] = Meaning(words[k])
  BY DEF Meaning
<1>5. matchDayCounter = Numbered(words)
  BY DEF matchDayCounter
<1> HIDE DEF words, names
<1>6. \A w \in DOMAIN Numbered(words) :
         \E k \in 1..14 : w = words[k] /\ Numbered(words)[w] = k - 1
  <2>1. \A j, k \in DOMAIN words : words[j] = words[k] => j = k
    BY <1>1, <1>2
  <2> QED
    BY <1>1, <2>1, NumberedIs
<1> QED
  BY <1>3, <1>4, <1>5, <1>6

LEMMA BusinessDayConventions ==
    \A w \in DOMAIN matchBDC : getBusinessDayConvention(matchBDC[w]) = Meaning(w)
<1> DEFINE words ==
        <<"Following", "ModifiedFollowing", "Preceding", "ModifiedPreceding",
          "Unadjusted", "HalfMonthModifiedFollowing", "Nearest">>
<1>1. DOMAIN words = 1..7
  OBVIOUS
<1>2. \A j, k \in 1..7 : words[j] = words[k] => j = k
  OBVIOUS
<1>3. \A k \in 1..7 : getBusinessDayConvention(k - 1) = words[k]
  BY DEF getBusinessDayConvention, EnumeratorAt
<1>4. \A k \in 1..7 : words[k] = Meaning(words[k])
  BY DEF Meaning
<1>5. matchBDC = Numbered(words)
  BY DEF matchBDC
<1> HIDE DEF words
<1>6. \A w \in DOMAIN Numbered(words) :
         \E k \in 1..7 : w = words[k] /\ Numbered(words)[w] = k - 1
  <2>1. \A j, k \in DOMAIN words : words[j] = words[k] => j = k
    BY <1>1, <1>2
  <2> QED
    BY <1>1, <2>1, NumberedIs
<1> QED
  BY <1>3, <1>4, <1>5, <1>6

LEMMA Compoundings ==
    \A w \in DOMAIN matchCompounding : getCompounding(matchCompounding[w]) = Meaning(w)
<1> DEFINE words == <<"Simple", "Compounded", "Continuous", "SimpleThenCompounded">>
<1>1. DOMAIN words = 1..4
  OBVIOUS
<1>2. \A j, k \in 1..4 : words[j] = words[k] => j = k
  OBVIOUS
<1>3. \A k \in 1..4 : getCompounding(k - 1) = words[k]
  BY DEF getCompounding, EnumeratorAt
<1>4. \A k \in 1..4 : words[k] = Meaning(words[k])
  BY DEF Meaning
<1>5. matchCompounding = Numbered(words)
  BY DEF matchCompounding
<1> HIDE DEF words
<1>6. \A w \in DOMAIN Numbered(words) :
         \E k \in 1..4 : w = words[k] /\ Numbered(words)[w] = k - 1
  <2>1. \A j, k \in DOMAIN words : words[j] = words[k] => j = k
    BY <1>1, <1>2
  <2> QED
    BY <1>1, <2>1, NumberedIs
<1> QED
  BY <1>3, <1>4, <1>5, <1>6

LEMMA DateGenerations ==
    \A w \in DOMAIN matchDateGen : getDateGenerationRule(matchDateGen[w]) = Meaning(w)
<1> DEFINE words ==
        <<"Backward", "Forward", "Zero", "ThirdWednesday", "Twentieth",
          "TwentiethIMM", "OldCDS", "CDS">>
<1>1. DOMAIN words = 1..8
  OBVIOUS
<1>2. \A j, k \in 1..8 : words[j] = words[k] => j = k
  OBVIOUS
<1>3. \A k \in 1..8 : getDateGenerationRule(k - 1) = words[k]
  BY DEF getDateGenerationRule, EnumeratorAt
<1>4. \A k \in 1..8 : words[k] = Meaning(words[k])
  BY DEF Meaning
<1>5. matchDateGen = Numbered(words)
  BY DEF matchDateGen
<1> HIDE DEF words
<1>6. \A w \in DOMAIN Numbered(words) :
         \E k \in 1..8 : w = words[k] /\ Numbered(words)[w] = k - 1
  <2>1. \A j, k \in DOMAIN words : words[j] = words[k] => j = k
    BY <1>1, <1>2
  <2> QED
    BY <1>1, <2>1, NumberedIs
<1> QED
  BY <1>3, <1>4, <1>5, <1>6

LEMMA DurationTypes ==
    \A w \in DOMAIN matchDurationType : getDurationType(matchDurationType[w]) = Meaning(w)
<1> DEFINE words == <<"Simple", "Macaulay", "Modified">>
<1>1. DOMAIN words = 1..3
  OBVIOUS
<1>2. \A j, k \in 1..3 : words[j] = words[k] => j = k
  OBVIOUS
<1>3. \A k \in 1..3 : getDurationType(k - 1) = words[k]
  BY DEF getDurationType, EnumeratorAt
<1>4. \A k \in 1..3 : words[k] = Meaning(words[k])
  BY DEF Meaning
<1>5. matchDurationType = Numbered(words)
  BY DEF matchDurationType
<1> HIDE DEF words
<1>6. \A w \in DOMAIN Numbered(words) :
         \E k \in 1..3 : w = words[k] /\ Numbered(words)[w] = k - 1
  <2>1. \A j, k \in DOMAIN words : words[j] = words[k] => j = k
    BY <1>1, <1>2
  <2> QED
    BY <1>1, <2>1, NumberedIs
<1> QED
  BY <1>3, <1>4, <1>5, <1>6

LEMMA Frequencies ==
    \A w \in DOMAIN matchFrequency : getFrequency(matchFrequency[w]) = Meaning(w)
<1>1. \A w \in DOMAIN matchFrequency : Meaning(w) = w
  BY DEF matchFrequency, Meaning
<1>2. \A w \in DOMAIN matchFrequency : getFrequency(matchFrequency[w]) = w
  BY DEF matchFrequency, getFrequency
<1> QED
  BY <1>1, <1>2

LEMMA FloatFrequencies ==
    \A w \in DOMAIN matchFloatFrequency :
        matchFloatFrequency[w] = StandsFor("floatFreq", w)
<1> SUFFICES ASSUME NEW w \in DOMAIN matchFloatFrequency
             PROVE  matchFloatFrequency[w] = StandsFor("floatFreq", w)
  OBVIOUS
<1>1. w \in {"Annual", "Semiannual", "EveryFourthMonth", "Quarterly", "Bimonthly",
             "Monthly"}
  BY DEF matchFloatFrequency
<1>2. StandsFor("floatFreq", w) = 12 \div PaymentsAYear[w]
  BY DEF StandsFor
<1>3. matchFloatFrequency[w] = 12 \div PaymentsAYear[w]
  BY <1>1 DEF matchFloatFrequency, PaymentsAYear
<1> QED
  BY <1>2, <1>3

\* The fields an instrument's engine decodes.
Fields ==
    {"dayCounter", "compounding", "period", "freq", "fixFreq", "floatFreq", "dateGeneration",
     "durationType", "businessDayConvention", "terminationDateConvention",
     "paymentConvention", "exCouponConvention"}

\* The tables of R/bond.R and the decoders of utils.cpp agree: every word R
\* knows arrives in QuantLib as the enumerator of that name (bond.R 516-626,
\* utils.cpp 329-484, 594-604).
THEOREM WordsArrive ==
    \A field \in Fields : \A w \in Words(field) :
        Decode(field, MatchTable[field][w]) = StandsFor(field, w)
<1> SUFFICES ASSUME NEW field \in Fields, NEW w \in DOMAIN MatchTable[field]
             PROVE  Decode(field, MatchTable[field][w]) = StandsFor(field, w)
  BY DEF Words
<1>1. field # "floatFreq" => StandsFor(field, w) = Meaning(w)
  BY DEF StandsFor
<1>2. CASE field = "dayCounter"
  <2>1. MatchTable[field] = matchDayCounter
    BY <1>2 DEF MatchTable
  <2>2. \A n : Decode(field, n) = getDayCounter(n)
    BY <1>2 DEF Decode
  <2> QED
    BY <1>1, <1>2, <2>1, <2>2, DayCounters
<1>3. CASE field = "compounding"
  <2>1. MatchTable[field] = matchCompounding
    BY <1>3 DEF MatchTable
  <2>2. \A n : Decode(field, n) = getCompounding(n)
    BY <1>3 DEF Decode
  <2> QED
    BY <1>1, <1>3, <2>1, <2>2, Compoundings
<1>4. CASE field \in {"period", "freq", "fixFreq"}
  <2>1. MatchTable[field] = matchFrequency
    BY <1>4 DEF MatchTable
  <2>2. \A n : Decode(field, n) = getFrequency(n)
    BY <1>4 DEF Decode
  <2> QED
    BY <1>1, <1>4, <2>1, <2>2, Frequencies
<1>5. CASE field = "dateGeneration"
  <2>1. MatchTable[field] = matchDateGen
    BY <1>5 DEF MatchTable
  <2>2. \A n : Decode(field, n) = getDateGenerationRule(n)
    BY <1>5 DEF Decode
  <2> QED
    BY <1>1, <1>5, <2>1, <2>2, DateGenerations
<1>6. CASE field = "durationType"
  <2>1. MatchTable[field] = matchDurationType
    BY <1>6 DEF MatchTable
  <2>2. \A n : Decode(field, n) = getDurationType(n)
    BY <1>6 DEF Decode
  <2> QED
    BY <1>1, <1>6, <2>1, <2>2, DurationTypes
<1>7. CASE field \in {"businessDayConvention", "terminationDateConvention",
                      "paymentConvention", "exCouponConvention"}
  <2>1. MatchTable[field] = matchBDC
    BY <1>7 DEF MatchTable
  <2>2. \A n : Decode(field, n) = getBusinessDayConvention(n)
    BY <1>7 DEF Decode
  <2> QED
    BY <1>1, <1>7, <2>1, <2>2, BusinessDayConventions
<1>8. CASE field = "floatFreq"
  <2>1. MatchTable[field] = matchFloatFrequency
    BY <1>8 DEF MatchTable
  <2>2. \A n : Decode(field, n) = n
    BY <1>8 DEF Decode
  <2> QED
    BY <1>8, <2>1, <2>2, FloatFrequencies
<1> QED
  BY <1>2, <1>3, <1>4, <1>5, <1>6, <1>7, <1>8 DEF Fields

\* A decoder that has the names of a list of the manual finds the same one.
LEMMA EnumeratorIs ==
    ASSUME NEW names, NEW n, NEW otherwise
    PROVE  EnumeratorAt(names, n, otherwise) =
             IF n \in DOMAIN FromZero(names) THEN FromZero(names)[n] ELSE otherwise
  BY DEF EnumeratorAt, FromZero

\* The decoders agree with the manual as well: a number is the enumerator that
\* man/Enum.Rd gives it, unless the decoder stops at it (utils.cpp 329-484,
\* 594-604).
THEOREM NumbersArrive ==
    \A field \in Fields : \A n : NumberMeans(n, field, Decode(field, n))
<1> SUFFICES ASSUME NEW field \in Fields, NEW n
             PROVE  NumberMeans(n, field, Decode(field, n))
  OBVIOUS
<1>1. CASE field = "floatFreq"
  BY <1>1 DEF NumberMeans, Decode
<1>2. ASSUME NEW names, NEW otherwise, field # "floatFreq",
             EnumRd(field) = FromZero(names),
             Decode(field, n) = EnumeratorAt(names, n, otherwise),
             n \notin DOMAIN FromZero(names) => \A e \in AnythingElse(field) : otherwise = e
      PROVE  NumberMeans(n, field, Decode(field, n))
  <2>1. Decode(field, n) = IF n \in DOMAIN FromZero(names) THEN FromZero(names)[n]
                           ELSE otherwise
    BY <1>2, EnumeratorIs
  <2>2. NumberMeans(n, field, Decode(field, n)) <=>
          IF n \in DOMAIN EnumRd(field) THEN Decode(field, n) = EnumRd(field)[n]
          ELSE \A e \in AnythingElse(field) : Decode(field, n) = e
    BY <1>2, Zenon DEF NumberMeans
  <2>3. CASE n \in DOMAIN FromZero(names)
    BY <1>2, <2>1, <2>2, <2>3
  <2>4. CASE n \notin DOMAIN FromZero(names)
    BY <1>2, <2>1, <2>2, <2>4
  <2> QED
    BY <2>3, <2>4
<1>3. CASE field = "dayCounter"
  <2> DEFINE names ==
        <<"Actual360", "Actual365Fixed", "ActualActual.ISDA", "Business252",
          "OneDayCounter", "SimpleDayCounter", "Thirty360.BondBasis",
          "Actual365Fixed.NoLeap", "ActualActual.ISMA", "ActualActual.Bond",
          "ActualActual.ISDA", "ActualActual.Historical", "ActualActual.AFB",
          "ActualActual.Euro", "Thirty360.USA", "Thirty360.BondBasis",
          "Thirty360.European", "Thirty360.EurobondBasis", "Thirty360.Italian",
          "Thirty360.German">>
  <2>1. EnumRd(field) = FromZero(names)
    BY <1>3, Zenon DEF EnumRd, FrequencyFields
  <2>2. Decode(field, n) = getDayCounter(n)
    BY <1>3 DEF Decode
  <2>3. Decode(field, n) = EnumeratorAt(names, n, Stopped)
    BY <2>2, Zenon DEF getDayCounter
  <2>4. AnythingElse(field) = {} /\ field # "floatFreq"
    BY <1>3 DEF AnythingElse, FrequencyFields
  <2> HIDE DEF names
  <2> QED
    BY <1>2, <2>1, <2>3, <2>4
<1>4. CASE field = "compounding"
  <2>1. EnumRd(field) = FromZero(
          <<"Simple", "Compounded", "Continuous", "SimpleThenCompounded">>)
    BY <1>4, Zenon DEF EnumRd, FrequencyFields
  <2>2. Decode(field, n) = getCompounding(n)
    BY <1>4 DEF Decode
  <2>3. AnythingElse(field) = {}
    BY <1>4 DEF AnythingElse, FrequencyFields
  <2> DEFINE names == <<"Simple", "Compounded", "Continuous", "SimpleThenCompounded">>
  <2>4. DOMAIN FromZero(names) = 0..3
    BY DEF FromZero
  <2>5. \A m \in 0..3 : getCompounding(m) = FromZero(names)[m]
    <3>1. \A m \in 0..3 : FromZero(names)[m] = names[m + 1]
      BY DEF FromZero
    <3>2. \A m \in 0..3 : getCompounding(m) = names[m + 1]
      BY DEF getCompounding, EnumeratorAt
    <3> QED
      BY <3>1, <3>2
  <2> HIDE DEF names
  <2>6. EnumRd(field) = FromZero(names)
    BY <2>1 DEF names
  <2>7. NumberMeans(n, field, Decode(field, n)) <=>
          IF n \in DOMAIN EnumRd(field) THEN Decode(field, n) = EnumRd(field)[n]
          ELSE \A e \in AnythingElse(field) : Decode(field, n) = e
    BY <1>4, Zenon DEF NumberMeans
  <2>8. CASE n \in 0..3
    BY <2>2, <2>4, <2>5, <2>6, <2>7, <2>8
  <2>9. CASE n \notin 0..3
    BY <2>3, <2>4, <2>6, <2>7, <2>9
  <2> QED
    BY <2>8, <2>9
<1>5. CASE field \in FrequencyFields
  <2>1. Decode(field, n) = getFrequency(n) /\ field # "floatFreq"
    BY <1>5 DEF Decode, FrequencyFields
  <2>2. AnythingElse(field) = {"OtherFrequency"}
    BY <1>5, Zenon DEF AnythingElse, FrequencyFields
  <2>3. EnumRd(field) = FrequencyNumbers
    BY <1>5, Zenon DEF EnumRd, FrequencyFields
  <2>4. \A m \in DOMAIN FrequencyNumbers : getFrequency(m) = FrequencyNumbers[m]
    BY DEF FrequencyNumbers, getFrequency
  <2>5. n \notin DOMAIN FrequencyNumbers => getFrequency(n) = "OtherFrequency"
    BY DEF FrequencyNumbers, getFrequency
  <2> QED
    BY <2>1, <2>2, <2>3, <2>4, <2>5 DEF NumberMeans
<1>6. CASE field = "dateGeneration"
  <2> DEFINE names == <<"Backward", "Forward", "Zero", "ThirdWednesday", "Twentieth",
                        "TwentiethIMM", "OldCDS", "CDS">>
  <2>1. EnumRd(field) = FromZero(names)
    BY <1>6, Zenon DEF EnumRd, FrequencyFields
  <2>2. Decode(field, n) = getDateGenerationRule(n)
    BY <1>6 DEF Decode
  <2>3. Decode(field, n) = EnumeratorAt(names, n, "TwentiethIMM")
    BY <2>2, Zenon DEF getDateGenerationRule
  <2>4. AnythingElse(field) = {"TwentiethIMM"} /\ field # "floatFreq"
    BY <1>6 DEF AnythingElse, FrequencyFields
  <2> HIDE DEF names
  <2> QED
    BY <1>2, <2>1, <2>3, <2>4
<1>7. CASE field = "durationType"
  <2> DEFINE names == <<"Simple", "Macaulay", "Modified">>
  <2>1. EnumRd(field) = FromZero(names)
    BY <1>7, Zenon DEF EnumRd, FrequencyFields
  <2>2. Decode(field, n) = getDurationType(n)
    BY <1>7 DEF Decode
  <2>3. Decode(field, n) = EnumeratorAt(names, n, Stopped)
    BY <2>2, Zenon DEF getDurationType
  <2>4. AnythingElse(field) = {} /\ field # "floatFreq"
    BY <1>7 DEF AnythingElse, FrequencyFields
  <2> HIDE DEF names
  <2> QED
    BY <1>2, <2>1, <2>3, <2>4
<1>8. CASE field \in {"businessDayConvention", "terminationDateConvention",
                      "paymentConvention", "exCouponConvention"}
  <2> DEFINE names == <<"Following", "ModifiedFollowing", "Preceding",
                        "ModifiedPreceding", "Unadjusted",
                        "HalfMonthModifiedFollowing", "Nearest">>
  <2>1. EnumRd(field) = FromZero(names)
    BY <1>8 DEF EnumRd, FrequencyFields
  <2>2. Decode(field, n) = getBusinessDayConvention(n)
    BY <1>8 DEF Decode
  <2>3. Decode(field, n) = EnumeratorAt(names, n, "Unadjusted")
    BY <2>2, Zenon DEF getBusinessDayConvention
  <2>4. AnythingElse(field) = {"Unadjusted"} /\ field # "floatFreq"
    BY <1>8 DEF AnythingElse, FrequencyFields
  <2> HIDE DEF names
  <2> QED
    BY <1>2, <2>1, <2>3, <2>4
<1> QED
  BY <1>1, <1>3, <1>4, <1>5, <1>6, <1>7, <1>8 DEF Fields, FrequencyFields

-----------------------------------------------------------------------------
(* The arguments on their way.                                             *)

LEMMA WordIs ==
    ASSUME NEW w
    PROVE  ~IsCode(Word(w)) /\ Word(w)[2] = w /\ IsCode(Code(w)) /\ Code(w)[2] = w
  BY DEF Word, Code, IsCode

LEMMA FilledIs ==
    \A f, g :
        /\ DOMAIN Filled(f, g) = DOMAIN f \cup DOMAIN g
        /\ \A k \in DOMAIN f : Filled(f, g)[k] = f[k]
        /\ \A k \in DOMAIN g : k \notin DOMAIN f => Filled(f, g)[k] = g[k]
  BY DEF Filled

LEMMA ElementsAre ==
    \A list, words :
        /\ DOMAIN Elements(list, words) = {list} \X DOMAIN words
        /\ \A k \in DOMAIN Elements(list, words) :
             /\ k[1] = list /\ k[2] \in DOMAIN words
             /\ Elements(list, words)[k] = Word(words[k[2]])
  BY DEF Elements

\* What R fills in is the manual's word for the element.
WordFuns == BondFuns \ NumberFuns
AsManual(k, arg) == arg = ManualDefault(k) /\ k[2] \in DOMAIN ManualWords
Unread(k) == call.fun = "CallableBond" /\ k[2] = "terminationDateConvention"

\* A list of default words is the manual's.
LEMMA ManualElements ==
    ASSUME call.fun \notin NumberFuns,
           NEW list, NEW words, DOMAIN words \subseteq DOMAIN ManualWords,
           \A name \in DOMAIN words :
               words[name] = IF list = "calc" /\ name = "dayCounter"
                             THEN "ActualActual.ISMA" ELSE ManualWords[name]
    PROVE  \A k \in DOMAIN Elements(list, words) : AsManual(k, Elements(list, words)[k])
<1> SUFFICES ASSUME NEW k \in DOMAIN Elements(list, words)
             PROVE  AsManual(k, Elements(list, words)[k])
  OBVIOUS
<1>2. /\ k[1] = list /\ k[2] \in DOMAIN words
      /\ Elements(list, words)[k] = Word(words[k[2]])
  BY ElementsAre
<1>3. Word(words[k[2]]) = ManualDefault(k)
  <2> DEFINE name == k[2]
  <2>1. name \in DOMAIN words /\ k[1] = list
    BY <1>2
  <2>2. ManualDefault(k) = IF list = "calc" /\ name = "dayCounter"
                           THEN Word("ActualActual.ISMA") ELSE Word(ManualWords[name])
    BY <2>1, Zenon DEF ManualDefault
  <2> HIDE DEF name
  <2>3. words[name] = IF list = "calc" /\ name = "dayCounter"
                      THEN "ActualActual.ISMA" ELSE ManualWords[name]
    BY <2>1
  <2> QED
    BY <2>2, <2>3 DEF name
<1> QED
  BY <1>2, <1>3 DEF AsManual

LEMMA ManualFilled ==
    ASSUME NEW f, NEW g, \A k \in DOMAIN f : AsManual(k, f[k]),
           \A k \in DOMAIN g : AsManual(k, g[k])
    PROVE  \A k \in DOMAIN Filled(f, g) : AsManual(k, Filled(f, g)[k])
<1> SUFFICES ASSUME NEW k \in DOMAIN Filled(f, g)
             PROVE  AsManual(k, Filled(f, g)[k])
  OBVIOUS
<1>1. CASE k \in DOMAIN f
  <2>1. Filled(f, g)[k] = f[k]
    BY <1>1, FilledIs
  <2>2. AsManual(k, f[k])
    BY <1>1
  <2> QED
    BY <2>1, <2>2
<1>2. CASE k \notin DOMAIN f
  <2>1. k \in DOMAIN g
    BY <1>2, FilledIs
  <2>2. Filled(f, g)[k] = g[k]
    BY <1>2, <2>1, FilledIs
  <2>3. AsManual(k, g[k])
    BY <2>1
  <2> QED
    BY <2>2, <2>3
<1> QED
  BY <1>1, <1>2

\* Two lists of words that are the manual's make one.
LEMMA ManualWordsFilled ==
    ASSUME NEW f, NEW g,
           DOMAIN f \subseteq DOMAIN ManualWords,
           DOMAIN g \subseteq DOMAIN ManualWords,
           \A name \in DOMAIN f : f[name] = ManualWords[name],
           \A name \in DOMAIN g : g[name] = ManualWords[name]
    PROVE  /\ DOMAIN Filled(f, g) \subseteq DOMAIN ManualWords
           /\ \A name \in DOMAIN Filled(f, g) : Filled(f, g)[name] = ManualWords[name]
<1>1. DOMAIN Filled(f, g) \subseteq DOMAIN ManualWords
  BY FilledIs
<1>2. ASSUME NEW name \in DOMAIN Filled(f, g)
      PROVE  Filled(f, g)[name] = ManualWords[name]
  <2>1. CASE name \in DOMAIN f
    BY <2>1, FilledIs
  <2>2. CASE name \notin DOMAIN f
    <3>1. name \in DOMAIN g
      BY <2>2, FilledIs
    <3> QED
      BY <2>2, <3>1, FilledIs
  <2> QED
    BY <2>1, <2>2
<1> QED
  BY <1>1, <1>2

LEMMA MissingIsManual ==
    ASSUME call.fun \in WordFuns
    PROVE  \A k \in DOMAIN Missing : AsManual(k, Missing[k])
<1>1. call.fun \notin NumberFuns
  BY DEF WordFuns
<1>2. \A k \in DOMAIN Elements("schedule", ScheduleWords) :
        AsManual(k, Elements("schedule", ScheduleWords)[k])
  <2>1. /\ DOMAIN ScheduleWords \subseteq DOMAIN ManualWords
        /\ \A name \in DOMAIN ScheduleWords : ScheduleWords[name] = ManualWords[name]
    BY DEF ScheduleWords, ManualWords
  <2> QED
    BY <1>1, <2>1, ManualElements
<1>3. CASE call.fun = "FixedRateBond"
  <2> DEFINE b == [dayCounter |-> "Thirty360"]
             c == [dayCounter |-> "ActualActual.ISMA", compounding |-> "Compounded",
                   freq |-> "Annual", durationType |-> "Simple"]
  <2>1. Missing = Filled(Elements("bond", b),
                         Filled(Elements("schedule", ScheduleWords), Elements("calc", c)))
    BY <1>3 DEF Missing
  <2>2. /\ DOMAIN b \subseteq DOMAIN ManualWords
        /\ \A name \in DOMAIN b : b[name] = ManualWords[name]
    BY DEF ManualWords
  <2>3. /\ DOMAIN c \subseteq DOMAIN ManualWords
        /\ \A name \in DOMAIN c : c[name] = IF name = "dayCounter"
                                          THEN "ActualActual.ISMA" ELSE ManualWords[name]
    BY DEF ManualWords
  <2> HIDE DEF b, c
  <2>4. \A k \in DOMAIN Elements("bond", b) : AsManual(k, Elements("bond", b)[k])
    BY <1>1, <2>2, ManualElements
  <2>5. \A k \in DOMAIN Elements("calc", c) : AsManual(k, Elements("calc", c)[k])
    BY <1>1, <2>3, ManualElements
  <2>6. \A k \in DOMAIN Filled(Elements("schedule", ScheduleWords), Elements("calc", c)) :
          AsManual(k, Filled(Elements("schedule", ScheduleWords), Elements("calc", c))[k])
    BY <1>2, <2>5, ManualFilled
  <2> QED
    BY <2>1, <2>4, <2>6, ManualFilled
<1>4. CASE call.fun = "Schedule"
  BY <1>2, <1>4 DEF Missing
<1>5. ASSUME NEW words, Missing = Elements("dateparams", words),
             DOMAIN words \subseteq DOMAIN ManualWords,
             \A name \in DOMAIN words : words[name] = ManualWords[name]
      PROVE  \A k \in DOMAIN Missing : AsManual(k, Missing[k])
  BY <1>1, <1>5, ManualElements
<1>6. /\ DOMAIN ThirtySemiannual \subseteq DOMAIN ManualWords
      /\ \A name \in DOMAIN ThirtySemiannual : ThirtySemiannual[name] = ManualWords[name]
  BY DEF ThirtySemiannual, ManualWords
<1>7. CASE call.fun = "FloatingRateBond"
  <2> DEFINE w == Filled(ThirtySemiannual, ScheduleWords)
  <2>1. Missing = Elements("dateparams", w)
    BY <1>7 DEF Missing
  <2>2. /\ DOMAIN ScheduleWords \subseteq DOMAIN ManualWords
        /\ \A name \in DOMAIN ScheduleWords : ScheduleWords[name] = ManualWords[name]
    BY DEF ScheduleWords, ManualWords
  <2>3. /\ DOMAIN w \subseteq DOMAIN ManualWords
        /\ \A name \in DOMAIN w : w[name] = ManualWords[name]
    BY <1>6, <2>2, ManualWordsFilled
  <2> HIDE DEF w
  <2> QED
    BY <1>5, <2>1, <2>3
<1>8. CASE call.fun = "CallableBond"
  <2> DEFINE t == [terminationDateConvention |-> "Following"]
             w == Filled(ThirtySemiannual, t)
  <2>1. Missing = Elements("dateparams", w)
    BY <1>8 DEF Missing
  <2>2. /\ DOMAIN t \subseteq DOMAIN ManualWords
        /\ \A name \in DOMAIN t : t[name] = ManualWords[name]
    BY DEF ManualWords
  <2> HIDE DEF t
  <2>3. /\ DOMAIN w \subseteq DOMAIN ManualWords
        /\ \A name \in DOMAIN w : w[name] = ManualWords[name]
    BY <1>6, <2>2, ManualWordsFilled
  <2> HIDE DEF w
  <2> QED
    BY <1>5, <2>1, <2>3
<1>9. CASE call.fun \in {"ConvertibleZeroCouponBond", "ConvertibleFixedCouponBond",
                        "ConvertibleFloatingCouponBond"}
  <2>1. Missing = Elements("dateparams", ThirtySemiannual)
    BY <1>9 DEF Missing
  <2> QED
    BY <1>5, <1>6, <2>1
<1>10. CASE call.fun = "ZeroCouponBond"
  <2> DEFINE w == [businessDayConvention |-> "Following"]
  <2>1. Missing = Elements("dateparams", w)
    BY <1>10 DEF Missing
  <2>2. /\ DOMAIN w \subseteq DOMAIN ManualWords
        /\ \A name \in DOMAIN w : w[name] = ManualWords[name]
    BY DEF ManualWords
  <2> HIDE DEF w
  <2> QED
    BY <1>5, <2>1, <2>2
<1>11. CASE call.fun \in {"FittedBondCurve", "AffineSwaption"}
  <2>1. Missing = Nothing
    BY <1>11 DEF Missing
  <2>2. DOMAIN Nothing = {}
    BY DEF Nothing
  <2> QED
    BY <2>1, <2>2
<1> QED
  BY <1>3, <1>4, <1>7, <1>8, <1>9, <1>10, <1>11
     DEF WordFuns, BondFuns, IndexFuns, NumberFuns

\* The same for a list left out as a whole, but for FixedRateBond's duration.
LEMMA OmittedIsManual ==
    ASSUME call.fun \in WordFuns
    PROVE  \A k \in DOMAIN Omitted :
             \/ AsManual(k, Omitted[k])
             \/ k[2] = "durationType" /\ "calc" \notin call.lists
<1>1. call.fun \notin NumberFuns
  BY DEF WordFuns
<1>2. CASE call.fun = "FixedRateBond"
  <2> DEFINE w == [dayCounter |-> "ActualActual.ISMA", compounding |-> "Compounded",
                   freq |-> "Annual", durationType |-> "Modified"]
  <2>1. OmittedList = Elements("calc", w)
    BY <1>2 DEF OmittedList, LegFuns
  <2>2. /\ DOMAIN w \subseteq DOMAIN ManualWords
        /\ \A name \in DOMAIN w : \/ name = "durationType"
                                  \/ w[name] = IF name = "dayCounter"
                                     THEN "ActualActual.ISMA" ELSE ManualWords[name]
    BY DEF ManualWords
  <2> HIDE DEF w
  <2> SUFFICES ASSUME NEW k \in DOMAIN Omitted
               PROVE  \/ AsManual(k, Omitted[k])
                      \/ k[2] = "durationType" /\ "calc" \notin call.lists
    OBVIOUS
  <2>3. k \in DOMAIN OmittedList /\ k[1] \notin call.lists /\ Omitted[k] = OmittedList[k]
    BY DEF Omitted
  <2> DEFINE name == k[2]
  <2>4. k[1] = "calc" /\ name \in DOMAIN w /\ Omitted[k] = Word(w[name])
    BY <2>1, <2>3, ElementsAre
  <2>5. ManualDefault(k) = IF name = "dayCounter"
                           THEN Word("ActualActual.ISMA") ELSE Word(ManualWords[name])
    BY <1>1, <2>4, Zenon DEF ManualDefault
  <2>6. AsManual(k, Omitted[k]) <=> Omitted[k] = ManualDefault(k)
    BY <2>2, <2>4 DEF AsManual
  <2>7. CASE name = "durationType"
    BY <2>3, <2>4, <2>7
  <2>8. CASE name # "durationType"
    <3> HIDE DEF name
    <3>1. Word(w[name]) = ManualDefault(k)
      BY <2>2, <2>4, <2>5, <2>8
    <3> QED
      BY <2>4, <2>6, <3>1
  <2> QED
    BY <2>7, <2>8
<1>3. CASE call.fun = "AffineSwaption"
  <2> DEFINE w == [dayCounter |-> "Thirty360", fixFreq |-> "Annual",
                   floatFreq |-> "Semiannual"]
  <2>1. OmittedList = Elements("legparams", w)
    BY <1>3 DEF OmittedList, LegFuns
  <2>2. /\ DOMAIN w \subseteq DOMAIN ManualWords
        /\ \A name \in DOMAIN w : w[name] = ManualWords[name]
    BY DEF ManualWords
  <2> HIDE DEF w
  <2>3. \A k \in DOMAIN Elements("legparams", w) :
          AsManual(k, Elements("legparams", w)[k])
    BY <1>1, <2>2, ManualElements
  <2> SUFFICES ASSUME NEW k \in DOMAIN Omitted PROVE AsManual(k, Omitted[k])
    OBVIOUS
  <2>4. k \in DOMAIN OmittedList /\ Omitted[k] = OmittedList[k]
    BY DEF Omitted
  <2> QED
    BY <2>1, <2>3, <2>4
<1>4. CASE call.fun \notin {"FixedRateBond", "AffineSwaption"}
  <2>1. call.fun \notin LegFuns
    BY <1>4 DEF WordFuns, LegFuns, BondFuns, IndexFuns, NumberFuns
  <2>2. OmittedList = Nothing
    BY <1>4, <2>1 DEF OmittedList
  <2>3. DOMAIN Nothing = {}
    BY DEF Nothing
  <2>4. DOMAIN Omitted = {}
    BY <2>2, <2>3 DEF Omitted
  <2> QED
    BY <2>4
<1> QED
  BY <1>2, <1>3, <1>4

\* The numbers in the signatures of the functions of bare arguments are the
\* manual's.
LEMMA NumbersAreManual ==
    ASSUME call.fun \in NumberFuns
    PROVE  /\ \A k \in DOMAIN Missing : Missing[k] = ManualDefault(k)
           /\ DOMAIN Missing \subseteq {"arguments"} \X
                {"dayCounter", "freq", "compounding", "businessDayConvention"}
           /\ DOMAIN Omitted = {}
<1>1. DOMAIN Omitted = {}
  <2>1. OmittedList = Nothing
    BY DEF OmittedList, NumberFuns, LegFuns
  <2>2. DOMAIN Nothing = {}
    BY DEF Nothing
  <2> QED
    BY <2>1, <2>2 DEF Omitted
<1>2. \A k : ManualDefault(k) = Code(ManualNumbers[call.fun][k[2]])
  BY DEF ManualDefault
<1>3. ASSUME NEW numbers, Missing = Numbers(numbers), ManualNumbers[call.fun] = numbers,
             DOMAIN numbers \subseteq
                 {"dayCounter", "freq", "compounding", "businessDayConvention"}
      PROVE  /\ \A k \in DOMAIN Missing : Missing[k] = ManualDefault(k)
             /\ DOMAIN Missing \subseteq {"arguments"} \X
                  {"dayCounter", "freq", "compounding", "businessDayConvention"}
  <2>1. /\ DOMAIN Numbers(numbers) = {"arguments"} \X DOMAIN numbers
        /\ \A k \in {"arguments"} \X DOMAIN numbers :
             Numbers(numbers)[k] = Code(numbers[k[2]])
    BY DEF Numbers
  <2> QED
    BY <1>2, <1>3, <2>1
<1>4. CASE call.fun = "ZeroYield"
  <2> DEFINE numbers == [dayCounter |-> 2, freq |-> 2, compounding |-> 0,
                         businessDayConvention |-> 4]
  <2>1. Missing = Numbers(numbers) /\ ManualNumbers[call.fun] = numbers
    BY <1>4 DEF Missing, ManualNumbers
  <2>2. DOMAIN numbers \subseteq
          {"dayCounter", "freq", "compounding", "businessDayConvention"}
    OBVIOUS
  <2> HIDE DEF numbers
  <2> QED
    BY <1>1, <1>3, <2>1, <2>2
<1>5. CASE call.fun = "FixedRateBondYield"
  <2> DEFINE numbers == [dayCounter |-> 2, compounding |-> 0,
                         businessDayConvention |-> 0]
  <2>1. Missing = Numbers(numbers) /\ ManualNumbers[call.fun] = numbers
    BY <1>5 DEF Missing, ManualNumbers
  <2>2. DOMAIN numbers \subseteq
          {"dayCounter", "freq", "compounding", "businessDayConvention"}
    OBVIOUS
  <2> HIDE DEF numbers
  <2> QED
    BY <1>1, <1>3, <2>1, <2>2
<1> QED
  BY <1>4, <1>5 DEF NumberFuns

-----------------------------------------------------------------------------
(* The arguments of a call.                                                *)

Asked == Filled(call.args, Filled(Omitted, Missing))

LEMMA AskedIs ==
    /\ \A k \in DOMAIN call.args : k \in DOMAIN Asked /\ Asked[k] = call.args[k]
    /\ \A k \in DOMAIN Omitted :
         k \notin DOMAIN call.args => k \in DOMAIN Asked /\ Asked[k] = Omitted[k]
    /\ \A k \in DOMAIN Missing :
         k \notin DOMAIN call.args /\ k \notin DOMAIN Omitted
             => k \in DOMAIN Asked /\ Asked[k] = Missing[k]
    /\ DOMAIN Asked = DOMAIN call.args \cup DOMAIN Omitted \cup DOMAIN Missing
<1> DEFINE a == call.args
           o == Omitted
           m == Missing
<1>1. Asked = Filled(a, Filled(o, m))
  BY DEF Asked
<1> HIDE DEF a, o, m
<1>2. \A k \in DOMAIN a : k \in DOMAIN Asked /\ Asked[k] = a[k]
  BY <1>1, FilledIs
<1>3. DOMAIN Filled(o, m) = DOMAIN o \cup DOMAIN m
  BY FilledIs
<1>4. DOMAIN Asked = DOMAIN a \cup DOMAIN o \cup DOMAIN m
  BY <1>1, <1>3, FilledIs
<1>5. \A k \in DOMAIN Filled(o, m) : k \notin DOMAIN a => Asked[k] = Filled(o, m)[k]
  BY <1>1, FilledIs
<1>6. \A k \in DOMAIN o : Filled(o, m)[k] = o[k]
  BY FilledIs
<1>7. \A k \in DOMAIN m : k \notin DOMAIN o => Filled(o, m)[k] = m[k]
  BY FilledIs
<1>8. \A k \in DOMAIN o : k \notin DOMAIN a => k \in DOMAIN Asked /\ Asked[k] = o[k]
  BY <1>3, <1>4, <1>5, <1>6
<1>9. \A k \in DOMAIN m : k \notin DOMAIN a /\ k \notin DOMAIN o
                           => k \in DOMAIN Asked /\ Asked[k] = m[k]
  BY <1>3, <1>4, <1>5, <1>7
<1> QED
  BY <1>2, <1>4, <1>8, <1>9 DEF a, o, m

AcceptableOf(k) ==
    IF call.fun \in NumberFuns THEN IsCode(Asked[k]) ELSE Matches(k[2], Asked[k])

\* What an engine reads is what was asked and what R takes for the rest, each
\* word of it replaced by its number, and a bond is built from just that.
ArgumentsFollow ==
    /\ call \in Calls
    /\ phase \in {"called", "filled", "coded", "built", "error"}
    /\ phase = "called" => params = call.args
    /\ phase = "filled" => params = Asked
    /\ phase \in {"coded", "built"} =>
         /\ \A k \in DOMAIN Asked : AcceptableOf(k)
         /\ params = [k \in DOMAIN Asked |-> Match(k[2], Asked[k])]
    /\ Built(BondFuns) => terms = Decisions /\ Readable
    /\ phase = "error" => results = <<Nothing, Nothing, Nothing, Nothing>>

\* A word matchParams lets pass is replaced by the number of one word.
LEMMA MatchedIs ==
    ASSUME NEW field, NEW arg, ~IsCode(arg), Matches(field, arg)
    PROVE  \E w \in Words(field) :
             /\ matchArg(field, arg[2]) = {w}
             /\ Match(field, arg) = Code(MatchTable[field][w])
<1>1. PICK w \in Words(field) : matchArg(field, arg[2]) = {w}
  BY DEF Matches
<1>2. (CHOOSE v \in matchArg(field, arg[2]) : TRUE) = w
  BY <1>1
<1>3. Match(field, arg) = Code(MatchTable[field][w])
  BY <1>2 DEF Match, Matched
<1> QED
  BY <1>1, <1>3

LEMMA SameAsked ==
    ASSUME UNCHANGED call
    PROVE  /\ Asked' = Asked
           /\ \A k : AcceptableOf(k)' = AcceptableOf(k)
  BY DEF Asked, AcceptableOf, Omitted, OmittedList, Missing

LEMMA SameDecisions ==
    ASSUME UNCHANGED <<call, params>>
    PROVE  Decisions' = Decisions /\ Readable' = Readable
  BY DEF Decisions, Decoded, OwnSchedule, Reads, Readable

LEMMA ArgumentsInit == Init => ArgumentsFollow
  BY DEF Init, ArgumentsFollow, Built

\* The two cases of a step after the arguments are coded.
LEMMA ArgumentsStay ==
    ASSUME ArgumentsFollow, UNCHANGED <<call, params>>, phase = "coded",
           phase' \in {"coded", "built"}, Built(BondFuns)' => terms' = Decisions /\ Readable
    PROVE  ArgumentsFollow'
<1>1. /\ Asked' = Asked /\ \A k : AcceptableOf(k)' = AcceptableOf(k)
      /\ Decisions' = Decisions /\ Readable' = Readable
  BY SameAsked, SameDecisions
<1> QED
  BY <1>1 DEF ArgumentsFollow

LEMMA ArgumentsStep == ArgumentsFollow /\ [Next]_vars => ArgumentsFollow'
<1> SUFFICES ASSUME ArgumentsFollow, [Next]_vars PROVE ArgumentsFollow'
  OBVIOUS
<1>1. CASE FillDefaults
  <2>1. /\ call' = call /\ phase = "called" /\ phase' = "filled"
        /\ params' = Filled(call.args, Filled(Omitted, Missing))
    BY <1>1 DEF FillDefaults
  <2>2. params' = Asked /\ Asked' = Asked
    BY <2>1, SameAsked DEF Asked
  <2> QED
    BY <2>1, <2>2 DEF ArgumentsFollow, Built
<1>2. CASE matchParams
  <2>1. /\ call' = call /\ phase = "filled" /\ phase' = "coded"
        /\ \A k \in DOMAIN params : Acceptable(k)
        /\ params' = [k \in DOMAIN params |-> Match(k[2], params[k])]
    BY <1>2 DEF matchParams
  <2>2. params = Asked
    BY <2>1 DEF ArgumentsFollow
  <2>3. Asked' = Asked /\ \A k : AcceptableOf(k)' = AcceptableOf(k)
    BY <2>1, SameAsked
  <2>4. \A k \in DOMAIN Asked : AcceptableOf(k)
    BY <2>1, <2>2 DEF Acceptable, AcceptableOf
  <2>5. params' = [k \in DOMAIN Asked |-> Match(k[2], Asked[k])]
    BY <2>1, <2>2
  <2> QED
    BY <2>1, <2>3, <2>4, <2>5 DEF ArgumentsFollow, Built
<1>3. ASSUME Fails PROVE ArgumentsFollow'
  <2>1. /\ call' = call /\ phase' = "error"
        /\ helpers' = Nothing /\ curve' = Nothing /\ terms' = Nothing /\ index' = Nothing
    BY <1>3 DEF Fails
  <2> QED
    BY <2>1 DEF ArgumentsFollow, Built, results
<1>4. CASE FlatForward \/ getTermStructure
  <2>1. UNCHANGED <<call, params>> /\ phase = "coded" /\ phase' = "built"
        /\ call.fun \notin BondFuns
    BY <1>4, NotACurve DEF FlatForward, getTermStructure
  <2> QED
    BY <2>1, ArgumentsStay DEF Built
<1>5. CASE PushHelper
  <2>1. UNCHANGED <<call, params>> /\ phase = "coded" /\ phase' = "coded"
    BY <1>5 DEF PushHelper, Building
  <2> QED
    BY <2>1, ArgumentsStay DEF Built
<1>6. CASE BuildBond
  <2>1. /\ UNCHANGED <<call, params>> /\ phase = "coded" /\ phase' = "built"
        /\ terms' = Decisions /\ Readable
    BY <1>6 DEF BuildBond
  <2> QED
    BY <2>1, ArgumentsStay
<1>7. CASE WordRefused \/ HelperRefused \/ InterpolationUnknown \/ BondRefused
  BY <1>3, <1>7 DEF WordRefused, HelperRefused, InterpolationUnknown, BondRefused
<1>8. CASE UNCHANGED vars
  <2>1. UNCHANGED <<call, phase, params, terms, results>>
    BY <1>8 DEF vars, results
  <2>2. /\ Asked' = Asked /\ \A k : AcceptableOf(k)' = AcceptableOf(k)
        /\ Decisions' = Decisions /\ Readable' = Readable
    BY <2>1, SameAsked, SameDecisions
  <2> QED
    BY <2>1, <2>2 DEF ArgumentsFollow, Built
<1> QED
  BY <1>1, <1>2, <1>4, <1>5, <1>6, <1>7, <1>8 DEF Next

\* Every reachable state has the invariant.
THEOREM Arguments == Spec => []ArgumentsFollow
  BY ArgumentsInit, ArgumentsStep, PTL DEF Spec

\* Once matchParams has run every argument is a number, there is never a helper
\* too many, and a call that fails leaves nothing half made (bond.R 634-682,
\* discount.cpp 68-89).
THEOREM TypeCorrect == Spec => []TypeOK
<1>1. ArgumentsFollow /\ HelpersFollowQuotes => TypeOK
  <2> SUFFICES ASSUME ArgumentsFollow, HelpersFollowQuotes PROVE TypeOK
    OBVIOUS
  <2>1. call.fun \in CurveFuns \cup BondFuns
    BY CallsAssumption DEF ArgumentsFollow
  <2>2. ASSUME phase \in {"coded", "built"}, NEW k \in DOMAIN params
        PROVE  IsCode(params[k])
    <3>1. params[k] = Match(k[2], Asked[k])
      BY <2>2 DEF ArgumentsFollow
    <3> QED
      BY <3>1, WordIs DEF Match, Matched
  <2> QED
    BY <2>1, <2>2 DEF TypeOK, ArgumentsFollow, HelpersFollowQuotes
<1> QED
  BY <1>1, Arguments, Following, PTL

-----------------------------------------------------------------------------
(* Futures.                                                                *)

LEMMA TickersApart ==
    /\ \A t \in DOMAIN Swaps : t \notin DOMAIN Futures
    /\ \A t \in DOMAIN Deposits : t \notin DOMAIN Futures
    /\ \A t \in DOMAIN FRAs : t \notin DOMAIN Futures
    /\ \A t \in DOMAIN Futures : Futures[t] \in 1..8
  BY DEF Swaps, Deposits, FRAs, Futures

\* Which tickers make a helper for a future and which one for a swap.
LEMMA KindOf ==
    ASSUME NEW ticker, InDatabase(ticker)
    PROVE  /\ HelperFor(ticker).kind = "future" =>
                /\ ticker \in DOMAIN Futures
                /\ HelperFor(ticker).start = immDate(call.settle, Futures[ticker])
           /\ HelperFor(ticker).kind = "swap" => ticker \in DOMAIN Swaps
<1>1. CASE ticker \in DOMAIN Swaps
  <2>1. HelperFor(ticker).kind = "swap"
    BY <1>1 DEF HelperFor, getRateHelper, getRateHelperFixed, SwapHelper
  <2> QED
    BY <1>1, <2>1
<1>2. CASE ticker \notin DOMAIN Swaps
  <2>1. HelperFor(ticker) = PlainHelper(ticker, call.settle)
    BY <1>2 DEF HelperFor, getRateHelper, getRateHelperFixed
  <2>2. CASE ticker \in DOMAIN Deposits
    <3>1. ticker \notin DOMAIN Futures /\ ticker \notin DOMAIN FRAs
      BY <2>2 DEF Deposits, Futures, FRAs
    <3>2. HelperFor(ticker).kind = "deposit"
      BY <2>1, <2>2, <3>1 DEF PlainHelper
    <3> QED
      BY <3>2
  <2>3. CASE ticker \in DOMAIN Futures
    <3>1. ticker \notin DOMAIN Deposits /\ ticker \notin DOMAIN FRAs
      BY <2>3 DEF Deposits, Futures, FRAs
    <3>2. /\ HelperFor(ticker).kind = "future"
          /\ HelperFor(ticker).start = immDate(call.settle, Futures[ticker])
      BY <2>1, <2>3, <3>1 DEF PlainHelper
    <3> QED
      BY <2>3, <3>2
  <2>4. CASE ticker \in DOMAIN FRAs
    <3>1. ticker \notin DOMAIN Deposits /\ ticker \notin DOMAIN Futures
      BY <2>4 DEF Deposits, Futures, FRAs
    <3>2. HelperFor(ticker).kind = "fra"
      BY <2>1, <2>4, <3>1 DEF PlainHelper
    <3> QED
      BY <3>2
  <2> QED
    BY <1>2, <2>2, <2>3, <2>4 DEF InDatabase
<1> QED
  BY <1>1, <1>2

\* A curve from futures rests on the contracts its tickers number, counted from
\* settlement, for any IMM dates (curves.cpp 113-118, 184-189).
THEOREM FuturesOnImm == Spec => []FuturesOnImmDates
<1>1. HelpersFollowQuotes => FuturesOnImmDates
  <2> SUFFICES ASSUME HelpersFollowQuotes, NEW k \in DOMAIN helpers,
                      helpers[k].kind = "future"
               PROVE  /\ helpers[k].start \in ImmDates
                      /\ Cardinality({d \in ImmDates : call.settle < d
                                                       /\ d <= helpers[k].start})
                           = Futures[call.quotes[k]]
    BY DEF FuturesOnImmDates
  <2> DEFINE ticker == call.quotes[k]
             n == Futures[ticker]
  <2>1. DOMAIN helpers = 1..Len(helpers)
    BY DEF HelpersFollowQuotes
  <2>2. InDatabase(ticker) /\ helpers[k] = HelperFor(ticker)
    BY <2>1 DEF HelpersFollowQuotes
  <2> HIDE DEF ticker
  <2>3. ticker \in DOMAIN Futures /\ helpers[k].start = immDate(call.settle, n)
    BY <2>2, KindOf
  <2>4. n \in 1..8
    BY <2>3, TickersApart
  <2>5. call.settle \in Nat /\ Cardinality(After(call.settle)) >= 8
    BY CallsAssumption DEF HelpersFollowQuotes, After
  <2> HIDE DEF n
  <2>6. n \in Nat \ {0} /\ n <= Cardinality(After(call.settle))
    <3>1. IsFiniteSet(ImmDates)
      BY ImmAssumption
    <3>2. Cardinality(After(call.settle)) \in Nat
      BY <2>5, PassedFinite
    <3> QED
      BY <2>4, <2>5, <3>2
  <2>7. /\ immDate(call.settle, n) \in ImmDates
        /\ Cardinality(Passed(call.settle, immDate(call.settle, n))) = n
    BY <2>5, <2>6, NthImmDate
  <2> QED
    BY <2>3, <2>7 DEF Passed, n, ticker
<1> QED
  BY <1>1, Following, PTL

-----------------------------------------------------------------------------
(* The legs of swaps.                                                      *)

\* The six words both tables have mean the same frequency in either.
LEMMA SameWordSamePayments ==
    ASSUME NEW w \in DOMAIN matchFrequency, w \in DOMAIN matchFloatFrequency
    PROVE  PaymentsAYear[getFrequency(matchFrequency[w])] * matchFloatFrequency[w] = 12
<1>1. w \in {"Annual", "Semiannual", "EveryFourthMonth", "Quarterly", "Bimonthly",
             "Monthly"}
  BY DEF matchFloatFrequency
<1>2. getFrequency(matchFrequency[w]) = w
  <2>1. Meaning(w) = w
    BY <1>1 DEF Meaning
  <2> QED
    BY <2>1, Frequencies
<1>3. PaymentsAYear[w] * matchFloatFrequency[w] = 12
  BY <1>1 DEF PaymentsAYear, matchFloatFrequency
<1> QED
  BY <1>2, <1>3

\* What both tables take for one word is the same word.
LEMMA SameWord ==
    ASSUME NEW part, NEW x, NEW y,
           matchArg("fixFreq", part) = {x}, matchArg("floatFreq", part) = {y}
    PROVE  x = y /\ x \in DOMAIN matchFrequency /\ x \in DOMAIN matchFloatFrequency
<1>1. Words("fixFreq") = DOMAIN matchFrequency /\ Words("floatFreq") = DOMAIN matchFloatFrequency
  BY DEF Words, MatchTable
<1>2. DOMAIN matchFloatFrequency \subseteq DOMAIN matchFrequency
  BY DEF matchFloatFrequency, matchFrequency
<1>3. CASE part \in DOMAIN matchFloatFrequency
  BY <1>1, <1>2, <1>3 DEF matchArg
<1>4. CASE part \notin DOMAIN matchFloatFrequency
  <2>1. y \in DOMAIN matchFloatFrequency /\ Begins(part, y)
    BY <1>1, <1>4 DEF matchArg
  <2>2. part \notin DOMAIN matchFrequency
    BY <1>2, <1>4, <2>1, FrequenciesApart
  <2>3. y \in matchArg("fixFreq", part)
    BY <1>1, <1>2, <2>1, <2>2 DEF matchArg
  <2> QED
    BY <1>2, <2>1, <2>3
<1> QED
  BY <1>3, <1>4

\* The word a caller gives both legs of a swap makes both pay equally often,
\* for DiscountCurve and for AffineSwaption (bond.R 572-600, curves.cpp 100-104,
\* affine.cpp 101-113).
THEOREM LegsShare == Spec => []LegsShareTheirWord
<1>1. ArgumentsFollow /\ HelpersFollowQuotes => LegsShareTheirWord
  <2> DEFINE fix == Leg("fixFreq")
             float == Leg("floatFreq")
             w == call.args[fix][2]
  <2> SUFFICES ASSUME ArgumentsFollow, HelpersFollowQuotes, Built(LegFuns),
                      fix \in DOMAIN call.args, float \in DOMAIN call.args,
                      call.args[fix] = call.args[float], ~IsCode(call.args[fix])
               PROVE  \A p \in LegPeriods : PaymentsAYear[p[1]] * p[2] = 12
    BY DEF LegsShareTheirWord
  <2>1. call.fun \in LegFuns /\ call.fun \notin NumberFuns /\ phase = "built"
    BY DEF Built, LegFuns, NumberFuns
  <2>2. fix[2] = "fixFreq" /\ float[2] = "floatFreq"
    BY DEF Leg
  <2>3. /\ fix \in DOMAIN Asked /\ Asked[fix] = call.args[fix]
        /\ float \in DOMAIN Asked /\ Asked[float] = call.args[float]
    BY AskedIs
  <2>4. /\ MatchTable["fixFreq"] = matchFrequency
        /\ MatchTable["floatFreq"] = matchFloatFrequency
    BY DEF MatchTable
  <2>5. AcceptableOf(fix) /\ AcceptableOf(float)
    BY <2>1, <2>3 DEF ArgumentsFollow
  <2>6. Matches("fixFreq", Asked[fix]) /\ Matches("floatFreq", Asked[float])
    BY <2>1, <2>2, <2>5 DEF AcceptableOf
  <2>7. /\ fix \in DOMAIN params /\ params[fix] = Match("fixFreq", Asked[fix])
        /\ float \in DOMAIN params /\ params[float] = Match("floatFreq", Asked[float])
    BY <2>1, <2>2, <2>3 DEF ArgumentsFollow
  <2>8. PICK x : /\ matchArg("fixFreq", w) = {x}
                 /\ params[fix] = Code(matchFrequency[x])
    BY <2>3, <2>4, <2>6, <2>7, MatchedIs
  <2>9. PICK y : /\ matchArg("floatFreq", w) = {y}
                 /\ params[float] = Code(matchFloatFrequency[y])
    BY <2>3, <2>4, <2>6, <2>7, MatchedIs
  <2>10. x = y /\ x \in DOMAIN matchFrequency /\ x \in DOMAIN matchFloatFrequency
    BY <2>8, <2>9, SameWord
  <2>11. params[fix][2] = matchFrequency[x] /\ params[float][2] = matchFloatFrequency[x]
    BY <2>8, <2>9, <2>10, WordIs
  <2> DEFINE a == getFrequency(params[fix][2])
             b == params[float][2]
  <2>12. PaymentsAYear[a] * b = 12
    BY <2>10, <2>11, SameWordSamePayments
  <2>13. ASSUME NEW p \in LegPeriods PROVE p[1] = a /\ p[2] = b
    <3>1. CASE call.fun = "AffineSwaption"
      <4>1. terms = Decisions
        BY <2>1, <3>1 DEF ArgumentsFollow, Built, BondFuns
      <4>2. Decisions = Decoded /\ Reads = {"legparams"} \X {"dayCounter", "fixFreq", "floatFreq"}
        BY <3>1 DEF Decisions, Reads
      <4>3. fix \in Reads /\ float \in Reads
        BY <4>2 DEF Leg
      <4>4. terms[fix] = Decode("fixFreq", params[fix][2]) /\ terms[float] = b
        BY <2>2, <2>7, <4>1, <4>2, <4>3 DEF Decoded, Decode
      <4>5. Decode("fixFreq", params[fix][2]) = a
        BY DEF Decode
      <4>6. p = <<terms[fix], terms[float]>>
        BY <3>1 DEF LegPeriods
      <4> QED
        BY <4>4, <4>5, <4>6
    <3>2. CASE call.fun = "DiscountCurve"
      <4>1. PICK k \in DOMAIN helpers : /\ helpers[k].kind = "swap"
                                        /\ p = <<helpers[k].fixFreq, helpers[k].floatMonths>>
        BY <3>2 DEF LegPeriods
      <4>2. DOMAIN helpers = 1..Len(helpers)
        BY DEF HelpersFollowQuotes
      <4>3. InDatabase(call.quotes[k]) /\ helpers[k] = HelperFor(call.quotes[k])
        BY <4>2 DEF HelpersFollowQuotes
      <4>4. call.quotes[k] \in DOMAIN Swaps
        BY <4>1, <4>3, KindOf
      <4>5. helpers[k] = SwapHelper(call.quotes[k], Legs.fixFreq, Legs.dayCounter,
                                    Legs.floatFreq)
        BY <3>2, <4>3, <4>4 DEF HelperFor, getRateHelper
      <4>6. helpers[k].fixFreq = Legs.fixFreq /\ helpers[k].floatMonths = Legs.floatFreq
        BY <4>5 DEF SwapHelper
      <4>7. Legs.fixFreq = a /\ Legs.floatFreq = b
        BY DEF Legs
      <4> QED
        BY <4>1, <4>6, <4>7
    <3> QED
      BY <2>1, <3>1, <3>2 DEF LegFuns
  <2> HIDE DEF a, b
  <2> QED
    BY <2>12, <2>13
<1> QED
  BY <1>1, Arguments, Following, PTL

-----------------------------------------------------------------------------
(* The terms of bonds.                                                     *)

\* An engine reads what R fills in, but for one element of CallableBond.
LEMMA MissingIsRead ==
    ASSUME call.fun \in BondFuns, NEW k \in DOMAIN Missing, ~Unread(k)
    PROVE  k \in Reads
<1>1. CASE call.fun = "FixedRateBond"
  <2> DEFINE b == [dayCounter |-> "Thirty360"]
             c == [dayCounter |-> "ActualActual.ISMA", compounding |-> "Compounded",
                   freq |-> "Annual", durationType |-> "Simple"]
             s == ScheduleWords
  <2>1. Missing = Filled(Elements("bond", b), Filled(Elements("schedule", s), Elements("calc", c)))
    BY <1>1 DEF Missing
  <2>2. /\ DOMAIN b = {"dayCounter"}
        /\ DOMAIN c = {"dayCounter", "compounding", "freq", "durationType"}
    OBVIOUS
  <2>3. Reads = ({"bond"} \X {"dayCounter", "paymentConvention", "exCouponConvention"})
                \cup ({"schedule"} \X DOMAIN s)
                \cup ({"calc"} \X {"dayCounter", "compounding", "freq", "durationType"})
    BY <1>1 DEF Reads, ScheduleNames
  <2> HIDE DEF b, c, s
  <2>4. \/ k \in DOMAIN Elements("bond", b) \/ k \in DOMAIN Elements("schedule", s)
        \/ k \in DOMAIN Elements("calc", c)
    <3>1. DOMAIN Missing = DOMAIN Elements("bond", b)
                           \cup DOMAIN Filled(Elements("schedule", s), Elements("calc", c))
      BY <2>1, FilledIs
    <3>2. DOMAIN Filled(Elements("schedule", s), Elements("calc", c)) =
            DOMAIN Elements("schedule", s) \cup DOMAIN Elements("calc", c)
      BY FilledIs
    <3> QED
      BY <3>1, <3>2
  <2>5. CASE k \in DOMAIN Elements("bond", b)
    <3>1. k \in {"bond"} \X DOMAIN b
      BY <2>5, ElementsAre
    <3> QED
      BY <2>2, <2>3, <3>1
  <2>6. CASE k \in DOMAIN Elements("schedule", s)
    <3>1. k \in {"schedule"} \X DOMAIN s
      BY <2>6, ElementsAre
    <3> QED
      BY <2>3, <3>1
  <2>7. CASE k \in DOMAIN Elements("calc", c)
    <3>1. k \in {"calc"} \X DOMAIN c
      BY <2>7, ElementsAre
    <3> QED
      BY <2>2, <2>3, <3>1
  <2> QED
    BY <2>4, <2>5, <2>6, <2>7
<1>2. CASE call.fun = "Schedule"
  <2>1. Missing = Elements("schedule", ScheduleWords)
    BY <1>2 DEF Missing
  <2>2. Reads = {"schedule"} \X DOMAIN ScheduleWords
    BY <1>2 DEF Reads, ScheduleNames
  <2> QED
    BY <2>1, <2>2, ElementsAre
<1>3. CASE call.fun = "FloatingRateBond"
  <2> DEFINE w == Filled(ThirtySemiannual, ScheduleWords)
  <2>1. Missing = Elements("dateparams", w)
    BY <1>3 DEF Missing
  <2>2. Reads = {"dateparams"} \X (DOMAIN ScheduleWords \cup {"dayCounter"})
    BY <1>3 DEF Reads, ScheduleNames
  <2>3. DOMAIN w = DOMAIN ThirtySemiannual \cup DOMAIN ScheduleWords
    BY FilledIs
  <2>4. DOMAIN w \subseteq DOMAIN ScheduleWords \cup {"dayCounter"}
    BY <2>3 DEF ThirtySemiannual, ScheduleWords
  <2> HIDE DEF w
  <2>5. k \in {"dateparams"} \X DOMAIN w
    BY <2>1, ElementsAre
  <2> QED
    BY <2>2, <2>4, <2>5
<1>4. CASE call.fun \in {"CallableBond", "ConvertibleZeroCouponBond",
                        "ConvertibleFixedCouponBond", "ConvertibleFloatingCouponBond"}
  <2>1. Reads = {"dateparams"} \X {"dayCounter", "period", "businessDayConvention"}
    BY <1>4 DEF Reads, OwnScheduleNames
  <2>2. DOMAIN ThirtySemiannual = {"dayCounter", "period", "businessDayConvention"}
    BY DEF ThirtySemiannual
  <2>3. CASE call.fun = "CallableBond"
    <3> DEFINE t == [terminationDateConvention |-> "Following"]
               w == Filled(ThirtySemiannual, t)
    <3>1. Missing = Elements("dateparams", w)
      BY <2>3 DEF Missing
    <3>2. DOMAIN w = DOMAIN ThirtySemiannual \cup {"terminationDateConvention"}
      BY FilledIs
    <3> HIDE DEF t, w
    <3>3. k \in {"dateparams"} \X DOMAIN w
      BY <3>1, ElementsAre
    <3>4. k[2] # "terminationDateConvention"
      BY <2>3 DEF Unread
    <3> QED
      BY <2>1, <2>2, <3>2, <3>3, <3>4
  <2>4. CASE call.fun # "CallableBond"
    <3>1. Missing = Elements("dateparams", ThirtySemiannual)
      BY <1>4, <2>4 DEF Missing
    <3> QED
      BY <2>1, <2>2, <3>1, ElementsAre
  <2> QED
    BY <2>3, <2>4
<1>5. CASE call.fun = "ZeroCouponBond"
  <2> DEFINE w == [businessDayConvention |-> "Following"]
  <2>1. Missing = Elements("dateparams", w) /\ DOMAIN w = {"businessDayConvention"}
    BY <1>5 DEF Missing
  <2>2. Reads = {<<"dateparams", "businessDayConvention">>}
    BY <1>5 DEF Reads
  <2> HIDE DEF w
  <2>3. k \in {"dateparams"} \X DOMAIN w
    BY <2>1, ElementsAre
  <2> QED
    BY <2>1, <2>2, <2>3
<1>6. CASE call.fun = "ZeroYield"
  <2>1. DOMAIN Missing =
          {"arguments"} \X {"dayCounter", "freq", "compounding", "businessDayConvention"}
    BY <1>6 DEF Missing, Numbers
  <2>2. Reads = {"arguments"} \X {"dayCounter", "freq", "compounding",
                                  "businessDayConvention"}
    BY <1>6 DEF Reads
  <2> QED
    BY <2>1, <2>2
<1>7. CASE call.fun = "FixedRateBondYield"
  <2>1. DOMAIN Missing =
          {"arguments"} \X {"dayCounter", "compounding", "businessDayConvention"}
    BY <1>7 DEF Missing, Numbers
  <2>2. Reads = {"arguments"} \X ({"dayCounter", "period", "businessDayConvention"}
                                  \cup {"compounding"})
    BY <1>7 DEF Reads, OwnScheduleNames
  <2> QED
    BY <2>1, <2>2
<1>8. CASE call.fun \in {"FittedBondCurve", "AffineSwaption"}
  <2>1. DOMAIN Missing = {}
    BY <1>8 DEF Missing, Nothing
  <2> QED
    BY <2>1
<1> QED
  BY <1>1, <1>2, <1>3, <1>4, <1>5, <1>6, <1>7, <1>8
     DEF BondFuns, IndexFuns, NumberFuns

\* What is read is decoded as its kind of convention.
LEMMA ReadFields ==
    ASSUME call.fun \in BondFuns, NEW k \in Reads
    PROVE  k[2] \in Fields
<1> DEFINE Names == {"dayCounter", "compounding", "period", "freq", "fixFreq",
                     "floatFreq", "dateGeneration",
                     "durationType", "businessDayConvention",
                     "terminationDateConvention", "paymentConvention",
                     "exCouponConvention"}
<1>1. ScheduleNames \subseteq Names /\ OwnScheduleNames \subseteq Names
  BY DEF ScheduleNames, OwnScheduleNames, ScheduleWords
<1>2. k[2] \in Names
  <2> HIDE DEF Names
  <2>1. {"dayCounter", "paymentConvention", "exCouponConvention", "compounding", "freq",
         "durationType", "businessDayConvention", "fixFreq", "floatFreq"} \subseteq Names
    BY DEF Names
  <2>2. Reads \subseteq {"bond", "schedule", "calc", "dateparams", "arguments",
                     "legparams"} \X Names
    BY <1>1, <2>1 DEF BondFuns, Reads
  <2> QED
    BY <2>2
<1> QED
  BY <1>2 DEF Fields

LEMMA TermsAreDecoded ==
    ASSUME Built(BondFuns), ArgumentsFollow, NEW k \in Reads
    PROVE  k \in DOMAIN terms /\ terms[k] = Decoded[k]
<1>1. terms = Decisions
  BY DEF ArgumentsFollow, Built, BondFuns
<1>2. DOMAIN Decoded = Reads
  BY DEF Decoded
<1>3. \/ Decisions = Decoded
      \/ Decisions = Filled(Decoded, OwnSchedule("dateparams"))
      \/ Decisions = Filled(Decoded, OwnSchedule("arguments"))
  BY DEF Decisions
<1>4. \A g : /\ k \in DOMAIN Filled(Decoded, g) /\ Filled(Decoded, g)[k] = Decoded[k]
  BY <1>2, FilledIs
<1> QED
  BY <1>1, <1>2, <1>3, <1>4

\* What an argument the engine reads is decoded to.
LEMMA DecodedIs ==
    ASSUME Built(BondFuns), ArgumentsFollow, NEW k \in Reads, k \in DOMAIN Asked
    PROVE  Means(Asked[k], k[2], terms[k])
<1>1. /\ terms[k] = Decoded[k] /\ k[2] \in Fields /\ call.fun \in BondFuns
  BY TermsAreDecoded, ReadFields DEF Built
<1>2. /\ k \in DOMAIN params /\ params[k] = Match(k[2], Asked[k])
      /\ AcceptableOf(k)
  BY DEF ArgumentsFollow, Built
<1>3. terms[k] = Decode(k[2], params[k][2])
  BY <1>1, <1>2 DEF Decoded
<1> DEFINE field == k[2]
           arg == Asked[k]
<1> HIDE DEF field, arg
<1>4. field \in Fields /\ terms[k] = Decode(field, Match(field, arg)[2])
  BY <1>1, <1>2, <1>3 DEF field, arg
<1>5. CASE IsCode(arg)
  <2>1. Match(field, arg) = arg
    BY <1>5 DEF Match
  <2>2. NumberMeans(arg[2], field, Decode(field, arg[2]))
    BY <1>4, NumbersArrive
  <2>3. Means(arg, field, terms[k])
    BY <1>4, <1>5, <2>1, <2>2 DEF Means
  <2> QED
    BY <2>3 DEF field, arg
<1>6. CASE ~IsCode(arg)
  <2>1. Matches(field, arg)
    BY <1>2, <1>6 DEF AcceptableOf, field, arg
  <2>2. PICK w \in Words(field) : /\ matchArg(field, arg[2]) = {w}
                                  /\ Match(field, arg) = Code(MatchTable[field][w])
    BY <1>6, <2>1, MatchedIs
  <2>3. terms[k] = StandsFor(field, w)
    BY <1>4, <2>2, WordIs, WordsArrive
  <2>4. arg[2] = w \/ \A v \in Words(field) : Begins(arg[2], v) <=> v = w
    <3>1. CASE arg[2] \in Words(field)
      BY <2>2, <3>1 DEF matchArg
    <3>2. CASE arg[2] \notin Words(field)
      <4>1. {v \in Words(field) : Begins(arg[2], v)} = {w}
        BY <2>2, <3>2 DEF matchArg
      <4> QED
        BY <4>1
    <3> QED
      BY <3>1, <3>2
  <2>5. Means(arg, field, terms[k])
    BY <1>6, <2>3, <2>4 DEF Means
  <2> QED
    BY <2>5 DEF field, arg
<1> QED
  BY <1>5, <1>6

\* A bond, a schedule, a fitted curve or the swap of AffineSwaption has the
\* conventions its caller asked for, in a word, in the beginning of one or in
\* a number of man/Enum.Rd, or where he asked for none those of the manual
\* (bond.R 33-513, 516-682, affine.R, utils.cpp 152-240, 329-484, 594-604).
THEOREM Terms == Spec => []TermsAsAsked
<1>1. ArgumentsFollow => TermsAsAsked
  <2> SUFFICES ASSUME ArgumentsFollow, Built(BondFuns), NEW k \in Offered, ~Excepted(k)
               PROVE  /\ k \in DOMAIN terms
                      /\ IF k \in DOMAIN call.args THEN Means(call.args[k], k[2], terms[k])
                         ELSE IF k \in DOMAIN Optional THEN terms[k] = Optional[k]
                         ELSE Means(ManualDefault(k), k[2], terms[k])
    BY DEF TermsAsAsked
  <2>1. call.fun \in BondFuns /\ ~Unread(k)
    BY DEF Built, Excepted, Unread
  <2>2. DOMAIN Optional = {"bond"} \X {"paymentConvention", "exCouponConvention"}
    BY DEF Optional
  <2>3. k \in Reads
    BY <2>1, MissingIsRead DEF Offered
  <2>4. k \in DOMAIN terms /\ terms[k] = Decoded[k]
    BY <2>3, TermsAreDecoded
  <2>5. CASE k \in DOMAIN call.args
    BY <2>3, <2>4, <2>5, AskedIs, DecodedIs
  <2>6. CASE k \notin DOMAIN call.args /\ k \in DOMAIN Asked
    <3>1. Asked[k] = ManualDefault(k) /\ k \notin DOMAIN Optional
      <4>1. \/ k \in DOMAIN Omitted /\ Asked[k] = Omitted[k]
            \/ k \in DOMAIN Missing /\ Asked[k] = Missing[k]
        BY <2>6, AskedIs
      <4>2. CASE call.fun \in NumberFuns
        <5>1. k \in DOMAIN Missing /\ Asked[k] = ManualDefault(k) /\ k[1] = "arguments"
          BY <4>1, <4>2, NumbersAreManual
        <5> QED
          BY <2>2, <5>1
      <4>3. CASE call.fun \notin NumberFuns
        <5>1. call.fun \in WordFuns /\ ~(k[2] = "durationType" /\ "calc" \notin call.lists)
          BY <2>1, <4>3 DEF WordFuns, Excepted
        <5>2. AsManual(k, Asked[k])
          BY <4>1, <5>1, OmittedIsManual, MissingIsManual
        <5>3. k[2] \notin {"paymentConvention", "exCouponConvention"}
          BY <5>2 DEF AsManual, ManualWords
        <5> QED
          BY <2>2, <5>2, <5>3 DEF AsManual
      <4> QED
        BY <4>2, <4>3
    <3> QED
      BY <2>3, <2>4, <2>6, <3>1, DecodedIs
  <2>7. CASE k \notin DOMAIN Asked
    <3>1. k \notin DOMAIN params /\ k \notin DOMAIN call.args
      BY <2>7, AskedIs DEF ArgumentsFollow, Built
    <3>2. k \in DOMAIN Optional
      BY <2>3, <3>1 DEF ArgumentsFollow, Readable
    <3>3. terms[k] = Optional[k]
      BY <2>3, <2>4, <3>1 DEF Decoded
    <3> QED
      BY <2>4, <3>1, <3>2, <3>3
  <2> QED
    BY <2>5, <2>6, <2>7
<1> QED
  BY <1>1, Arguments, PTL

=============================================================================
