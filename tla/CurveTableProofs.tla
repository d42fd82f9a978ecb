--------------------------- MODULE CurveTableProofs ---------------------------
(***************************************************************************)
(* Theorems about CurveTable, for any calendar, any stride, any horizon    *)
(* and any number of days.                                                 *)
(***************************************************************************)
EXTENDS CurveTable, FiniteSetTheorems, WellFoundedInduction, SequenceTheorems, TLAPS

-----------------------------------------------------------------------------
(* Counting business days.                                                 *)

Count(a, b) == Cardinality(BusinessBetween(a, b))

LEMMA DaysAreNat == Days \subseteq Nat /\ LastDate \in Days
  BY TableAssumption DEF Days

LEMMA CountType ==
    ASSUME business \in SUBSET Days, NEW a, NEW b
    PROVE  IsFiniteSet(BusinessBetween(a, b)) /\ Count(a, b) \in Nat
<1>1. IsFiniteSet(Days)
  BY TableAssumption, FS_Interval DEF Days
<1>2. BusinessBetween(a, b) \in SUBSET Days
  BY DEF BusinessBetween
<1>3. IsFiniteSet(BusinessBetween(a, b))
  BY <1>1, <1>2, FS_Subset
<1> QED
  BY <1>3, FS_CardinalityType DEF Count

\* Business days between three dates add up.
LEMMA CountAdds ==
    ASSUME business \in SUBSET Days,
           NEW a \in Nat, NEW b \in Nat, NEW c \in Nat, a <= b, b <= c
    PROVE  Count(a, c) = Count(a, b) + Count(b, c)
<1> DEFINE A == BusinessBetween(a, b)
<1> DEFINE B == BusinessBetween(b, c)
<1>1. \A e \in business : e \in Nat
  BY DaysAreNat
<1>2. BusinessBetween(a, c) = A \cup B
  <2>1. \A e \in business : a < e /\ e <= c <=> (a < e /\ e <= b) \/ (b < e /\ e <= c)
    BY <1>1
  <2> QED
    BY <2>1, Zenon DEF BusinessBetween
<1>3. A \cap B = {}
  <2>1. \A e \in business : ~(a < e /\ e <= b /\ b < e /\ e <= c)
    BY <1>1
  <2> QED
    BY <2>1, Zenon DEF BusinessBetween
<1>4. IsFiniteSet(A) /\ IsFiniteSet(B)
  BY CountType
<1> HIDE DEF A, B
<1>5. Cardinality(A \cup B) = Cardinality(A) + Cardinality(B) - Cardinality(A \cap B)
  BY <1>4, FS_Union
<1>6. Cardinality(A \cap B) = 0
  BY <1>3, FS_EmptySet
<1>7. Cardinality(A) \in Nat /\ Cardinality(B) \in Nat
  BY <1>4, FS_CardinalityType
<1>8. Cardinality(A \cup B) = Cardinality(A) + Cardinality(B)
  BY <1>5, <1>6, <1>7
<1> QED
  BY <1>2, <1>8 DEF Count, A, B

LEMMA CountNone ==
    ASSUME business \in SUBSET Days, NEW a \in Nat
    PROVE  Count(a, a) = 0
<1>1. \A e \in business : ~(a < e /\ e <= a)
  BY DaysAreNat
<1>2. BusinessBetween(a, a) = {}
  BY <1>1, Zenon DEF BusinessBetween
<1> QED
  BY <1>2, FS_EmptySet DEF Count

\* There is one at least up to a business day.
LEMMA CountSome ==
    ASSUME business \in SUBSET Days, NEW a \in Nat, NEW b \in business, a < b
    PROVE  Count(a, b) >= 1
<1>1. b \in BusinessBetween(a, b)
  BY DaysAreNat DEF BusinessBetween
<1>2. Count(a, b) # 0
  BY <1>1, CountType, FS_EmptySet DEF Count
<1> QED
  BY <1>2, CountType

\* Counts tell business days apart.
LEMMA CountGrows ==
    ASSUME business \in SUBSET Days,
           NEW a \in Nat, NEW b \in Nat, NEW c \in business, a <= b, b < c
    PROVE  Count(a, b) < Count(a, c)
<1>1. c \in Nat
  BY DaysAreNat
<1>2. Count(a, c) = Count(a, b) + Count(b, c)
  BY <1>1, CountAdds
<1>3. Count(b, c) >= 1
  BY CountSome
<1>4. Count(a, b) \in Nat /\ Count(b, c) \in Nat
  BY CountType
<1> QED
  BY <1>2, <1>3, <1>4

-----------------------------------------------------------------------------
(* Advancing.                                                              *)

LEMMA Advanced ==
    ASSUME NEW a, CanAdvance(a)
    PROVE  Reaches(a, advanceDate(a))
  BY DEF CanAdvance, advanceDate

LEMMA LeastOf ==
    ASSUME NEW S \in SUBSET Nat, S # {}
    PROVE  \E n \in S : \A m \in S : n <= m
<1> DEFINE Less == {p \in Nat \X Nat : p[1] < p[2]}
<1>1. IsWellFoundedOn(Less, Nat)
  BY NatLessThanWellFounded DEF OpToRel
<1>2. PICK n \in S : \A m \in S : <<m, n>> \notin Less
  BY <1>1, WFMin
<1>3. \A m \in S : n <= m
  <2> TAKE m \in S
  <2>1. m \in Nat /\ n \in Nat
    OBVIOUS
  <2>2. <<m, n>> \in Nat \X Nat /\ <<m, n>>[1] = m /\ <<m, n>>[2] = n
    BY <2>1
  <2>3. ~(m < n)
    BY <1>2, <2>2
  <2> QED
    BY <2>1, <2>3
<1> QED
  BY <1>3

\* Where Stride business days are left, one of them is Stride days away: the
\* first day that has so many behind it.
LEMMA EnoughLeft ==
    ASSUME business \in SUBSET Days, NEW a \in Days, Count(a, LastDate) >= Stride
    PROVE  CanAdvance(a)
<1> DEFINE Far == {e \in Days : a <= e /\ Count(a, e) >= Stride}
<1>1. a \in Nat /\ LastDate \in Nat /\ a <= LastDate /\ Stride \in Nat \ {0}
  BY TableAssumption DEF Days
<1>2. LastDate \in Far
  BY <1>1, DaysAreNat
<1>3. Far \in SUBSET Nat
  BY DaysAreNat
<1> HIDE DEF Far
<1>4. PICK e \in Far : \A m \in Far : e <= m
  BY <1>2, <1>3, LeastOf
<1>5. e \in Days /\ e \in Nat /\ a <= e /\ Count(a, e) >= Stride
  BY <1>3 DEF Far
<1>6. a # e
  BY <1>1, <1>5, CountNone
<1>7. /\ e - 1 \in Nat /\ a <= e - 1 /\ e - 1 < e /\ e - 1 \in Days
  BY <1>1, <1>5, <1>6 DEF Days
<1>8. e - 1 \notin Far
  BY <1>4, <1>5, <1>7
<1>9. Count(a, e - 1) < Stride
  BY <1>1, <1>7, <1>8, CountType DEF Far
<1>10. Count(a, e) = Count(a, e - 1) + Count(e - 1, e)
  BY <1>1, <1>5, <1>7, CountAdds
<1>11. BusinessBetween(e - 1, e) \subseteq {e} \cap business
  <2>1. \A x \in business : x \in Nat
    BY DaysAreNat
  <2> QED
    BY <1>5, <2>1 DEF BusinessBetween
<1>12. Count(e - 1, e) <= 1 /\ (e \notin business => Count(e - 1, e) = 0)
  <2>1. IsFiniteSet({e}) /\ Cardinality({e}) = 1
    BY FS_Singleton
  <2>2. BusinessBetween(e - 1, e) \in SUBSET {e}
    BY <1>11
  <2>3. Count(e - 1, e) <= 1
    BY <2>1, <2>2, FS_Subset DEF Count
  <2>4. e \notin business => BusinessBetween(e - 1, e) = {}
    BY <1>11
  <2> QED
    BY <2>3, <2>4, FS_EmptySet DEF Count
<1>13. Count(a, e) \in Nat /\ Count(a, e - 1) \in Nat /\ Count(e - 1, e) \in Nat
  BY CountType
<1>14. e \in business /\ Count(a, e) = Stride
  BY <1>1, <1>5, <1>9, <1>10, <1>12, <1>13
<1>15. a < e
  BY <1>1, <1>5, <1>6
<1> QED
  BY <1>14, <1>15 DEF CanAdvance, Reaches, Count

-----------------------------------------------------------------------------
(* The inductive invariant: the loop and each row are at a multiple of     *)
(* Stride business days from settlement; how the loop ended.               *)

OnCalendar(e) == settle <= e /\ (e = settle \/ e \in business)

RowsInv ==
    /\ OnCalendar(d)
    /\ Count(settle, d) = Stride * Len(rows)
    /\ \A i \in 1..Len(rows) :
         /\ OnCalendar(rows[i])
         /\ rows[i] < d /\ rows[i] < Limit
         /\ Count(settle, rows[i]) = Stride * (i - 1)
    /\ \A i, j \in 1..Len(rows) : i < j => rows[i] < rows[j]

EndInv ==
    /\ phase = "threw" => InRange(d) /\ ~CanAdvance(d)
    /\ phase \notin {"tabulating", "threw"} => ~InRange(d)
    /\ phase \in {"rebuilt", "priced", "beyond"} => Len(rows) >= 2
    /\ phase = "beyond" => rows[Len(rows)] < maturity

Inv == TypeOK /\ RowsInv /\ EndInv

LEMMA TypeStep == TypeOK /\ [Next]_vars => TypeOK'
<1> SUFFICES ASSUME TypeOK, [Next]_vars PROVE TypeOK'
  OBVIOUS
<1> USE DEF TypeOK
<1>1. CASE AddRow
  <2>1. advanceDate(d) \in Days
    BY <1>1, Advanced DEF AddRow, Reaches
  <2>2. Append(rows, d) \in Seq(Days)
    BY AppendProperties
  <2> QED
    BY <1>1, <2>1, <2>2 DEF AddRow
<1>2. CASE AdvanceThrows
  BY <1>2 DEF AdvanceThrows
<1>3. CASE TableMade
  BY <1>3 DEF TableMade
<1>4. CASE rebuildCurveFromZeroRates
  BY <1>4 DEF rebuildCurveFromZeroRates
<1>5. CASE PriceOnTable
  BY <1>5 DEF PriceOnTable
<1>6. CASE UNCHANGED vars
  BY <1>6 DEF vars
<1> QED
  BY <1>1, <1>2, <1>3, <1>4, <1>5, <1>6 DEF Next, Loop

LEMMA RowsAreDays ==
    ASSUME TypeOK
    PROVE  Len(rows) \in Nat /\ \A i \in 1..Len(rows) : rows[i] \in Days /\ rows[i] \in Nat
<1>1. rows \in Seq(Days)
  BY DEF TypeOK
<1>2. Len(rows) \in Nat /\ \A i \in 1..Len(rows) : rows[i] \in Days
  BY <1>1
<1> QED
  BY <1>2, DaysAreNat

\* Only AddRow moves the loop.
LEMMA SameRows ==
    ASSUME RowsInv, UNCHANGED <<business, curveMax, settle, d, rows>>
    PROVE  RowsInv'
<1>1. \A a, b : Count(a, b)' = Count(a, b)
  BY DEF Count, BusinessBetween
<1> QED
  BY <1>1 DEF RowsInv, OnCalendar, Limit

LEMMA RowAdded ==
    ASSUME TypeOK, RowsInv, AddRow
    PROVE  RowsInv'
<1> DEFINE e == advanceDate(d)
<1> DEFINE n == Len(rows)
<1>1. Reaches(d, e)
  BY Advanced DEF AddRow
<1>2. /\ business \in SUBSET Days /\ d \in Nat /\ settle \in Nat /\ e \in Nat
      /\ e \in business /\ d < e /\ Count(d, e) = Stride /\ settle <= d
      /\ Stride \in Nat \ {0} /\ n \in Nat /\ rows \in Seq(Days)
  <2>1. business \in SUBSET Days /\ d \in Days /\ settle \in Days /\ rows \in Seq(Days)
    BY DEF TypeOK
  <2>2. e \in business /\ d < e /\ Count(d, e) = Stride
    BY <1>1 DEF Reaches, Count
  <2>3. settle <= d
    BY DEF RowsInv, OnCalendar
  <2> HIDE DEF e
  <2> QED
    BY <2>1, <2>2, <2>3, DaysAreNat, TableAssumption, RowsAreDays
<1>3. /\ rows' = Append(rows, d) /\ d' = e
      /\ UNCHANGED <<business, curveMax, settle>>
  BY DEF AddRow
<1>4. \A a, b : Count(a, b)' = Count(a, b')
  BY <1>3 DEF Count, BusinessBetween
<1>5. d < Limit
  BY DEF AddRow, InRange, Limit
<1> HIDE DEF e
<1>6. Count(settle, e) = Count(settle, d) + Count(d, e)
  BY <1>2, CountAdds
<1>7. Count(settle, d) = Stride * n
  BY DEF RowsInv
<1>8. Count(settle, e) = Stride * (n + 1)
  BY <1>2, <1>6, <1>7
<1>9. /\ Len(Append(rows, d)) = n + 1
      /\ \A i \in 1..n : Append(rows, d)[i] = rows[i]
      /\ Append(rows, d)[n + 1] = d
  BY <1>2 DEF TypeOK
<1>10. \A i \in 1..n : /\ rows[i] \in Nat /\ OnCalendar(rows[i]) /\ rows[i] < d
                       /\ rows[i] < Limit /\ Count(settle, rows[i]) = Stride * (i - 1)
  BY RowsAreDays DEF RowsInv
<1>11. \A i \in 1..(n + 1) :
         /\ OnCalendar(Append(rows, d)[i])
         /\ Append(rows, d)[i] < e /\ Append(rows, d)[i] < Limit
         /\ Count(settle, Append(rows, d)[i]) = Stride * (i - 1)
  <2> TAKE i \in 1..(n + 1)
  <2>1. CASE i \in 1..n
    BY <1>2, <1>9, <1>10, <2>1
  <2>2. CASE i = n + 1
    <3>1. OnCalendar(d)
      BY DEF RowsInv
    <3>2. n = (n + 1) - 1
      BY <1>2
    <3> QED
      BY <1>2, <1>5, <1>7, <1>9, <2>2, <3>1, <3>2
  <2> QED
    BY <1>2, <2>1, <2>2
<1>12. \A i, j \in 1..(n + 1) : i < j => Append(rows, d)[i] < Append(rows, d)[j]
  <2> SUFFICES ASSUME NEW i \in 1..(n + 1), NEW j \in 1..(n + 1), i < j
               PROVE  Append(rows, d)[i] < Append(rows, d)[j]
    OBVIOUS
  <2>1. i \in 1..n
    BY <1>2
  <2>2. CASE j \in 1..n
    BY <1>9, <2>1, <2>2 DEF RowsInv
  <2>3. CASE j = n + 1
    BY <1>9, <1>10, <2>1, <2>3
  <2> QED
    BY <1>2, <2>2, <2>3
<1>13. OnCalendar(e)
  BY <1>2 DEF OnCalendar
<1> QED
  BY <1>3, <1>4, <1>8, <1>9, <1>11, <1>12, <1>13 DEF RowsInv, OnCalendar, Limit

LEMMA InvInit == Init => Inv
<1> SUFFICES ASSUME Init PROVE Inv
  OBVIOUS
<1>1. TypeOK
  BY DEF Init, TypeOK
<1>2. Count(settle, settle) = 0
  BY CountNone, DaysAreNat DEF Init
<1>3. RowsInv
  <2>1. Len(rows) = 0 /\ d = settle /\ settle \in Nat
    BY DaysAreNat DEF Init
  <2>2. Stride * 0 = 0
    BY TableAssumption
  <2> QED
    BY <1>2, <2>1, <2>2 DEF RowsInv, OnCalendar
<1>4. EndInv
  BY DEF Init, EndInv
<1> QED
  BY <1>1, <1>3, <1>4 DEF Inv

LEMMA EndStep == TypeOK /\ EndInv /\ [Next]_vars => EndInv'
<1> SUFFICES ASSUME TypeOK, EndInv, [Next]_vars PROVE EndInv'
  OBVIOUS
<1>1. CASE AddRow
  BY <1>1 DEF AddRow, EndInv
<1>2. CASE AdvanceThrows
  <2>1. InRange(d)' /\ ~CanAdvance(d)'
    BY <1>2 DEF AdvanceThrows, InRange, CanAdvance, Reaches, BusinessBetween
  <2> QED
    BY <1>2, <2>1 DEF AdvanceThrows, EndInv
<1>3. CASE TableMade
  BY <1>3 DEF TableMade, EndInv, InRange
<1>4. CASE rebuildCurveFromZeroRates
  BY <1>4 DEF rebuildCurveFromZeroRates, EndInv, InRange, Interpolable
<1>5. CASE PriceOnTable
  <2>1. PICK m \in Days : /\ maturity' = m
                          /\ phase' = IF m <= rows[Len(rows)] THEN "priced" ELSE "beyond"
    BY <1>5 DEF PriceOnTable
  <2>2. phase = "rebuilt" /\ UNCHANGED <<business, curveMax, settle, d, rows>>
    BY <1>5 DEF PriceOnTable
  <2>3. Len(rows) >= 2 /\ ~InRange(d)'
    BY <2>2 DEF EndInv, InRange
  <2>4. rows[Len(rows)] \in Nat /\ m \in Nat
    BY <2>3, DaysAreNat, RowsAreDays
  <2>5. phase' = "beyond" => rows[Len(rows)] < m
    BY <2>1, <2>4
  <2> QED
    BY <2>1, <2>2, <2>3, <2>5 DEF EndInv
<1>6. CASE UNCHANGED vars
  BY <1>6 DEF vars, EndInv, InRange, CanAdvance, Reaches, BusinessBetween
<1> QED
  BY <1>1, <1>2, <1>3, <1>4, <1>5, <1>6 DEF Next, Loop

LEMMA InvStep == Inv /\ [Next]_vars => Inv'
<1> SUFFICES ASSUME Inv, [Next]_vars PROVE Inv'
  OBVIOUS
<1>1. RowsInv'
  <2>1. CASE AddRow
    BY <2>1, RowAdded DEF Inv
  <2>2. CASE ~AddRow
    <3>1. UNCHANGED <<business, curveMax, settle, d, rows>>
      BY <2>2 DEF Next, Loop, AdvanceThrows, TableMade, rebuildCurveFromZeroRates,
                  PriceOnTable, vars
    <3> QED
      BY <3>1, SameRows DEF Inv
  <2> QED
    BY <2>1, <2>2
<1> QED
  BY <1>1, TypeStep, EndStep DEF Inv

\* The loop is always a whole number of strides from settlement, and what it
\* has pushed are the dates it has passed.
THEOREM Invariance == Spec => []Inv
<1>1. Init => Inv
  BY InvInit
<1>2. Inv /\ [Next]_vars => Inv'
  BY InvStep
<1> QED
  BY <1>1, <1>2, PTL DEF Spec

\* The state variables keep their types through all calls.
THEOREM TypeCorrect == Spec => []TypeOK
<1>1. Inv => TypeOK
  BY DEF Inv
<1> QED
  BY <1>1, Invariance, PTL

-----------------------------------------------------------------------------
(* The theorems.                                                           *)

\* Two dates on the calendar with as many business days behind them are one.
LEMMA SameCount ==
    ASSUME business \in SUBSET Days, settle \in Nat,
           NEW e \in Nat, NEW f \in Nat, OnCalendar(e), OnCalendar(f),
           Count(settle, e) = Count(settle, f)
    PROVE  e = f
<1>0. Count(settle, e) \in Nat
  BY CountType
<1>1. ASSUME NEW x \in Nat, NEW y \in Nat, OnCalendar(x), OnCalendar(y), x < y
      PROVE  Count(settle, x) # Count(settle, y)
  <2>1. settle <= x /\ y \in business
    BY <1>1 DEF OnCalendar
  <2>2. Count(settle, x) < Count(settle, y)
    BY <1>1, <2>1, CountGrows
  <2>3. Count(settle, x) \in Nat
    BY CountType
  <2> QED
    BY <2>2, <2>3
<1>2. ~(e < f)
  BY <1>1
<1>3. ~(f < e)
  BY <1>1
<1> QED
  BY <1>2, <1>3

LEMMA Multiple ==
    ASSUME NEW s \in Nat \ {0}
    PROVE  /\ \A k \in Nat : (s * k) % s = 0
           /\ \A c \in Nat : c % s = 0 => \E k \in Nat : c = s * k
           /\ \A k, n \in Nat : s * k < s * n => k < n
<1>1. \A k \in Nat : (s * k) % s = 0
  OBVIOUS
<1>2. ASSUME NEW c \in Nat, c % s = 0 PROVE \E k \in Nat : c = s * k
  <2>1. c = s * (c \div s) + (c % s)
    OBVIOUS
  <2>2. c \div s \in Nat
    OBVIOUS
  <2> QED
    BY <1>2, <2>1, <2>2
<1>3. \A k, n \in Nat : s * k < s * n => k < n
  OBVIOUS
<1> QED
  BY <1>1, <1>2, <1>3

\* Every expected date the loop has passed is a row.
LEMMA NoneMissed ==
    ASSUME TypeOK, RowsInv, NEW e \in Expected, e < d
    PROVE  \E i \in 1..Len(rows) : rows[i] = e
<1>1. /\ business \in SUBSET Days /\ settle \in Nat /\ d \in Nat /\ e \in Nat
      /\ Stride \in Nat \ {0} /\ Len(rows) \in Nat
  BY DaysAreNat, TableAssumption, RowsAreDays DEF TypeOK, Expected
<1>2. OnCalendar(e) /\ Count(settle, e) % Stride = 0
  BY DEF Expected, OnCalendar, Count
<1>3. Count(settle, e) \in Nat
  BY <1>1, CountType
<1>4. PICK k \in Nat : Count(settle, e) = Stride * k
  BY <1>1, <1>2, <1>3, Multiple
<1>5. d \in business
  BY <1>1, <1>2 DEF RowsInv, OnCalendar
<1>6. Count(settle, e) < Count(settle, d)
  BY <1>1, <1>2, <1>5, CountGrows DEF OnCalendar
<1>7. Stride * k < Stride * Len(rows)
  BY <1>4, <1>6 DEF RowsInv
<1>8. k < Len(rows)
  BY <1>1, <1>4, <1>7, Multiple
<1>9. k + 1 \in 1..Len(rows) /\ (k + 1) - 1 = k
  BY <1>1, <1>4, <1>8
<1>10. /\ OnCalendar(rows[k + 1]) /\ Count(settle, rows[k + 1]) = Stride * k
       /\ rows[k + 1] \in Nat
  BY <1>9, RowsAreDays DEF RowsInv
<1>11. rows[k + 1] = e
  BY <1>1, <1>2, <1>4, <1>10, SameCount
<1> QED
  BY <1>9, <1>11

LEMMA RowsExpected ==
    ASSUME TypeOK, RowsInv, NEW i \in 1..Len(rows)
    PROVE  rows[i] \in Expected
<1>1. /\ OnCalendar(rows[i]) /\ rows[i] < Limit
      /\ Count(settle, rows[i]) = Stride * (i - 1)
  BY DEF RowsInv
<1>2. Stride \in Nat \ {0} /\ i - 1 \in Nat /\ rows[i] \in Days
  BY TableAssumption, RowsAreDays
<1>3. Count(settle, rows[i]) % Stride = 0
  BY <1>1, <1>2, Multiple
<1> QED
  BY <1>1, <1>2, <1>3 DEF Expected, OnCalendar, Count

\* The table discountCurveEngine returns has a row for the settlement date
\* and for every Stride-th business day after it, before the curve's end and
\* the horizon, and no other: for every calendar and every stride.
THEOREM TableAsExpected == Spec => []TableIsExpected
<1>1. Inv => TableIsExpected
  <2> SUFFICES ASSUME Inv, phase = "made" PROVE TableIsExpected
    BY DEF TableIsExpected
  <2>1. TypeOK /\ RowsInv /\ ~InRange(d)
    BY DEF Inv, EndInv
  <2>2. \A e \in Expected : e < d
    <3> TAKE e \in Expected
    <3>1. e < Limit /\ e \in Nat /\ d \in Nat /\ curveMax \in Nat /\ Horizon \in Nat
      BY <2>1, DaysAreNat, TableAssumption DEF Expected, TypeOK
    <3> QED
      BY <2>1, <3>1 DEF InRange, Limit
  <2>3. Range(rows) = {rows[i] : i \in 1..Len(rows)}
    BY <2>1 DEF Range, TypeOK
  <2>4. Range(rows) = Expected
    BY <2>1, <2>2, <2>3, NoneMissed, RowsExpected
  <2> QED
    BY <2>1, <2>4 DEF TableIsExpected, RowsInv
<1> QED
  BY <1>1, Invariance, PTL

\* No table runs off QuantLib's calendar while Stride business days follow
\* the horizon.
THEOREM HorizonHolds == Spec => []HorizonIsFarEnough
<1>1. Inv => HorizonIsFarEnough
  <2> SUFFICES ASSUME Inv, Count(Horizon, LastDate) >= Stride, phase = "threw"
               PROVE  FALSE
    BY DEF HorizonIsFarEnough, Count
  <2>1. TypeOK /\ InRange(d) /\ ~CanAdvance(d)
    BY DEF Inv, EndInv
  <2>2. /\ business \in SUBSET Days /\ d \in Days /\ d \in Nat
        /\ Horizon \in Nat /\ LastDate \in Nat /\ Stride \in Nat
        /\ Horizon <= LastDate
    BY <2>1, DaysAreNat, TableAssumption DEF TypeOK, Days
  <2>3. d <= Horizon
    BY <2>1, <2>2 DEF InRange
  <2>4. Count(d, LastDate) = Count(d, Horizon) + Count(Horizon, LastDate)
    BY <2>2, <2>3, CountAdds
  <2>5. Count(d, LastDate) >= Stride
    BY <2>2, <2>4, CountType
  <2> QED
    BY <2>1, <2>2, <2>5, EnoughLeft
<1> QED
  BY <1>1, Invariance, PTL

\* The rebuilt curve loses less than Stride business days of the curve it was
\* tabulated from.
THEOREM LittleIsLost == Spec => []TurnedDownOnlyNearTheEnd
<1>1. Inv => TurnedDownOnlyNearTheEnd
  <2> DEFINE last == rows[Len(rows)]
  <2> SUFFICES ASSUME Inv, phase = "beyond", maturity < Limit
               PROVE  Count(last, maturity) < Stride
    BY DEF TurnedDownOnlyNearTheEnd, Count
  <2>1. TypeOK /\ RowsInv /\ ~InRange(d) /\ Len(rows) >= 2 /\ last < maturity
    BY DEF Inv, EndInv
  <2>2. Len(rows) \in Nat /\ Len(rows) \in 1..Len(rows)
    BY <2>1, RowsAreDays
  <2>3. /\ business \in SUBSET Days /\ settle \in Nat /\ d \in Nat /\ maturity \in Nat
        /\ last \in Nat /\ Stride \in Nat \ {0}
    BY <2>1, <2>2, DaysAreNat, RowsAreDays, TableAssumption DEF TypeOK
  <2>4. maturity < d
    <3>1. curveMax \in Nat /\ Horizon \in Nat
      BY <2>1, DaysAreNat, TableAssumption DEF TypeOK
    <3> QED
      BY <2>1, <2>3, <3>1 DEF InRange, Limit
  <2>5. /\ OnCalendar(last) /\ Count(settle, last) = Stride * (Len(rows) - 1)
        /\ OnCalendar(d) /\ Count(settle, d) = Stride * Len(rows)
    BY <2>1, <2>2 DEF RowsInv
  <2> HIDE DEF last
  <2>6. d \in business /\ settle <= last
    BY <2>1, <2>3, <2>4, <2>5 DEF OnCalendar
  <2>7. Count(settle, d) = Count(settle, last) + Count(last, d)
    BY <2>1, <2>3, <2>4, <2>6, CountAdds
  <2>8. Count(last, d) = Stride
    <3>1. Stride * Len(rows) = Stride * (Len(rows) - 1) + Stride
      BY <2>2, <2>3
    <3>2. Count(last, d) \in Nat /\ Stride * (Len(rows) - 1) \in Nat
      BY <2>2, <2>3, CountType
    <3> QED
      BY <2>3, <2>5, <2>7, <3>1, <3>2
  <2>9. Count(last, maturity) < Count(last, d)
    BY <2>1, <2>3, <2>4, <2>6, CountGrows
  <2> QED
    BY <2>8, <2>9
<1> QED
  BY <1>1, Invariance, PTL

\* What LoopEnds, which is checked, rests on: each turn of the loop that does
\* not end it brings its date closer to the last QuantLib has, whatever the
\* business days and the stride (discount.cpp 109-114).
THEOREM LoopMovesOn ==
    Spec => [][Loop => phase' # "tabulating" \/ d' \in (d + 1)..LastDate]_vars
<1>1. TypeOK /\ TypeOK' /\ [Next]_vars
        => [Loop => phase' # "tabulating" \/ d' \in (d + 1)..LastDate]_vars
  <2> SUFFICES ASSUME TypeOK, TypeOK', Loop, phase' = "tabulating"
               PROVE  d' \in (d + 1)..LastDate
    OBVIOUS
  <2>1. AddRow
    BY DEF Loop, AdvanceThrows, TableMade
  <2>2. Reaches(d, d')
    BY <2>1 DEF AddRow, CanAdvance, advanceDate
  <2>3. d < d'
    BY <2>2 DEF Reaches
  <2>4. d \in Days /\ d' \in Days
    BY DEF TypeOK
  <2> QED
    BY <2>3, <2>4, TableAssumption DEF Days
<1> QED
  BY <1>1, TypeCorrect, PTL DEF Spec

=============================================================================
