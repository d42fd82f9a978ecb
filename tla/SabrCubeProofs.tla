---------------------------- MODULE SabrCubeProofs ----------------------------
(***************************************************************************)
(* Theorems about SabrCube, for tables of any size, any set of quotes and  *)
(* any swaption.                                                           *)
(***************************************************************************)
EXTENDS SabrCube, FiniteSetTheorems, WellFoundedInduction, SequenceTheorems, TLAPS

-----------------------------------------------------------------------------
(* Where the cube is cut.                                                  *)

LEMMA Reached ==
    ASSUME NEW s, s \in Seq(Int), NEW S, S \subseteq DOMAIN s
    PROVE  Cardinality(S) \in Nat
<1>1. DOMAIN s = 1..Len(s) /\ Len(s) \in Nat
  OBVIOUS
<1>2. IsFiniteSet(DOMAIN s)
  BY <1>1, FS_Interval
<1> QED
  BY <1>2, FS_Subset, FS_CardinalityType

LEMMA Triple ==
    ASSUME NEW a, NEW b, NEW c
    PROVE  <<a, b, c>>[1] = a /\ <<a, b, c>>[2] = b /\ <<a, b, c>>[3] = c
  OBVIOUS

LEMMA LeastOf ==
    ASSUME NEW S \in SUBSET Nat, S # {}
    PROVE  \E n \in S : \A m \in S : n <= m
<1> DEFINE Less == {p \in Nat \X Nat : p[1] < p[2]}
<1>1. IsWellFoundedOn(Less, Nat)
  BY NatLessThanWellFounded DEF OpToRel
<1>2. PICK n \in S : \A m \in S : <<m, n>> \notin Less
  BY <1>1, WFMin
<1>3. \A m \in S : n <= m
  <2> TAKE m \in S
  <2>1. m \in Nat /\ n \in Nat
    OBVIOUS
  <2>2. <<m, n>> \in Nat \X Nat /\ <<m, n>>[1] = m /\ <<m, n>>[2] = n
    BY <2>1
  <2>3. ~(m < n)
    BY <1>2, <2>2
  <2> QED
    BY <2>1, <2>3
<1> QED
  BY <1>3

LEMMA GridSequences ==
    /\ Expiries \in Seq(Int) /\ Tenors \in Seq(Int) /\ Spreads \in Seq(Int)
    /\ DOMAIN Expiries = 1..Len(Expiries) /\ Len(Expiries) \in Nat
    /\ DOMAIN Tenors = 1..Len(Tenors) /\ Len(Tenors) \in Nat
    /\ DOMAIN Spreads = 1..Len(Spreads) /\ Len(Spreads) \in Nat
<1>1. \A s \in Seq(Nat \ {0}) : s \in Seq(Int)
  OBVIOUS
<1>2. Expiries \in Seq(Int) /\ Tenors \in Seq(Int) /\ Spreads \in Seq(Int)
  BY <1>1, GridAssumption
<1>3. \A s \in Seq(Int) : DOMAIN s = 1..Len(s) /\ Len(s) \in Nat
  OBVIOUS
<1> QED
  BY <1>2, <1>3

LEMMA StrikeQuoted ==
    ASSUME Cuttable
    PROVE  strikeIDX \in CornerQuoted
<1>1. CornerQuoted \subseteq DOMAIN Spreads
  BY DEF CornerQuoted
<1>2. DOMAIN Spreads \subseteq Nat
  BY GridSequences
<1>3. \E n \in CornerQuoted : \A m \in CornerQuoted : n <= m
  BY <1>1, <1>2, LeastOf DEF Cuttable
<1> QED
  BY <1>3 DEF strikeIDX

\* The corner of the cube is a cell of the table, and leaves four expiries
\* and four tenors.
LEMMA Corner ==
    ASSUME Cuttable
    PROVE  /\ expiryIDX \in 1..(Len(Expiries) - 3)
           /\ tenorIDX \in 1..(Len(Tenors) - 3)
           /\ strikeIDX \in DOMAIN Spreads
<1>1. /\ Expiries \in Seq(Int) /\ Len(Expiries) \in Nat /\ Len(Expiries) >= 4
      /\ Tenors \in Seq(Int) /\ Len(Tenors) \in Nat /\ Len(Tenors) >= 4
      /\ Spreads \in Seq(Int)
  <2>1. Len(Expiries) >= 4 /\ Len(Tenors) >= 4
    BY GridAssumption
  <2> QED
    BY <2>1, GridSequences
<1>2. expiryIDX \in 1..(Len(Expiries) - 3)
  <2> DEFINE S == {i \in DOMAIN Expiries : 365 * Expiries[i] <= 12 * dates.expiry}
  <2>1. Cardinality(S) \in Nat
    BY <1>1, Reached
  <2>2. expiryIDX = Least(Cardinality(S), Len(Expiries) - 3)
    BY DEF expiryIDX
  <2> HIDE DEF S
  <2>3. expiryIDX > 0
    BY DEF Cuttable
  <2> QED
    BY <1>1, <2>1, <2>2, <2>3 DEF Least
<1>3. tenorIDX \in 1..(Len(Tenors) - 3)
  <2> DEFINE days == IF ask.roundsDown THEN SwapDays - 1 ELSE SwapDays
             S == {j \in DOMAIN Tenors : 365 * Tenors[j] <= days}
  <2>1. Cardinality(S) \in Nat
    BY <1>1, Reached
  <2>2. tenorIDX = Least(Greatest(Cardinality(S), 1), Len(Tenors) - 3)
    BY DEF tenorIDX
  <2> HIDE DEF S
  <2> QED
    BY <1>1, <2>1, <2>2 DEF Least, Greatest
<1>4. strikeIDX \in DOMAIN Spreads
  BY StrikeQuoted DEF CornerQuoted
<1> QED
  BY <1>2, <1>3, <1>4

LEMMA CornerInTable ==
    ASSUME Cuttable
    PROVE  /\ expiryIDX \in DOMAIN Expiries
           /\ tenorIDX \in DOMAIN Tenors
           /\ strikeIDX \in DOMAIN Spreads
<1>1. DOMAIN Expiries = 1..Len(Expiries) /\ Len(Expiries) \in Nat
  BY GridSequences
<1>2. DOMAIN Tenors = 1..Len(Tenors) /\ Len(Tenors) \in Nat
  BY GridSequences
<1> QED
  BY <1>1, <1>2, Corner

\* Row (i - 1) * L + j of a matrix with L columns to an expiry, taken apart
\* again.
LEMMA RowOf ==
    ASSUME NEW L \in Nat \ {0}, NEW a \in Nat, NEW b \in 0..(L - 1)
    PROVE  (a * L + b) \div L = a /\ (a * L + b) % L = b
  BY Z3

\* What is left of a sequence from its k-th element on.
LEMMA Rest ==
    ASSUME NEW s \in Seq(Int), NEW k \in 1..Len(s)
    PROVE  /\ Len(SubSeq(s, k, Len(s))) = Len(s) - k + 1
           /\ DOMAIN SubSeq(s, k, Len(s)) = 1..(Len(s) - k + 1)
           /\ \A i \in 1..(Len(s) - k + 1) : SubSeq(s, k, Len(s))[i] = s[k + i - 1]
  BY SubSeqProperties

\* The k-th element after the first a - 1 of len, in the numbering of all.
LEMMA Shifted ==
    ASSUME NEW len \in Nat, NEW a \in 1..len, NEW k \in 1..(len - a + 1)
    PROVE  a + k - 1 \in 1..len /\ a + k - 1 >= a
  OBVIOUS

LEMMA InTable ==
    ASSUME NEW c, c.row \in DOMAIN Expiries, c.column \in DOMAIN Tenors,
           c.strike \in DOMAIN Spreads,
           NEW i \in DOMAIN expiries(c), NEW j \in DOMAIN tenors(c),
           NEW n \in DOMAIN strikes(c)
    PROVE  /\ c.row + i - 1 \in DOMAIN Expiries /\ c.row + i - 1 >= c.row
           /\ c.column + j - 1 \in DOMAIN Tenors /\ c.column + j - 1 >= c.column
           /\ c.strike + n - 1 \in DOMAIN Spreads /\ c.strike + n - 1 >= c.strike
<1>1. /\ c.row \in 1..Len(Expiries) /\ Len(Expiries) \in Nat
      /\ c.column \in 1..Len(Tenors) /\ Len(Tenors) \in Nat
      /\ c.strike \in 1..Len(Spreads) /\ Len(Spreads) \in Nat
  BY GridSequences
<1>2. DOMAIN expiries(c) = 1..(Len(Expiries) - c.row + 1)
  BY <1>1, GridSequences, Rest DEF expiries
<1>3. DOMAIN tenors(c) = 1..(Len(Tenors) - c.column + 1)
  BY <1>1, GridSequences, Rest DEF tenors
<1>4. DOMAIN strikes(c) = 1..(Len(Spreads) - c.strike + 1)
  BY <1>1, GridSequences, Rest DEF strikes
<1>5. /\ DOMAIN Expiries = 1..Len(Expiries) /\ DOMAIN Tenors = 1..Len(Tenors)
      /\ DOMAIN Spreads = 1..Len(Spreads)
  BY GridSequences
<1> QED
  <2>1. c.row + i - 1 \in DOMAIN Expiries /\ c.row + i - 1 >= c.row
    <3>1. i \in 1..(Len(Expiries) - c.row + 1)
      BY <1>2
    <3> QED
      BY <1>1, <1>5, <3>1, Shifted
  <2>2. c.column + j - 1 \in DOMAIN Tenors /\ c.column + j - 1 >= c.column
    <3>1. j \in 1..(Len(Tenors) - c.column + 1)
      BY <1>3
    <3> QED
      BY <1>1, <1>5, <3>1, Shifted
  <2>3. c.strike + n - 1 \in DOMAIN Spreads /\ c.strike + n - 1 >= c.strike
    <3>1. n \in 1..(Len(Spreads) - c.strike + 1)
      BY <1>4
    <3> QED
      BY <1>1, <1>5, <3>1, Shifted
  <2> QED
    BY <2>1, <2>2, <2>3

\* The spread of the forward itself is in every cube.
LEMMA MoneyInCube ==
    ASSUME Cuttable
    PROVE  AtTheMoney \in DOMAIN Spreads /\ AtTheMoney >= strikeIDX
<1>1. AtTheMoney \in DOMAIN Spreads /\ Spreads[AtTheMoney] = 0
  BY GridAssumption DEF AtTheMoney
<1>2. strikeIDX \in DOMAIN Spreads /\ Spreads[strikeIDX] <= 0
  BY CornerInTable DEF Cuttable
<1>3. DOMAIN Spreads = 1..Len(Spreads) /\ Len(Spreads) \in Nat
  BY GridSequences
<1>4. AtTheMoney < strikeIDX => Spreads[AtTheMoney] < Spreads[strikeIDX]
  BY <1>1, <1>2, GridAssumption DEF Ascending
<1>5. \A n \in DOMAIN Spreads : Spreads[n] \in Int
  BY GridSequences
<1> QED
  BY <1>1, <1>2, <1>3, <1>4, <1>5

\* The row C++ counts to is the row R filled.
LEMMA ReadsQuotes ==
    ASSUME NEW c, c.row \in DOMAIN Expiries, c.column \in DOMAIN Tenors,
           c.strike \in DOMAIN Spreads,
           NEW i \in DOMAIN expiries(c), NEW j \in DOMAIN tenors(c),
           NEW n \in DOMAIN strikes(c)
    PROVE  ReadSmile(c, i, j, n) =
             [wing |-> Quote(c.row + i - 1, c.column + j - 1, c.strike + n - 1),
              atm |-> Quote(c.row + i - 1, c.column + j - 1, AtTheMoney)]
<1>1. /\ c.row \in Nat /\ c.column \in 1..Len(Tenors) /\ Len(Tenors) \in Nat
      /\ c.row \in 1..Len(Expiries) /\ Len(Expiries) \in Nat
  BY GridSequences
<1>2. i \in Nat \ {0}
  <2>1. DOMAIN expiries(c) = 1..(Len(Expiries) - c.row + 1)
    BY <1>1, GridSequences, Rest DEF expiries
  <2> QED
    BY <1>1, <2>1
<1>3. j \in 1..Len(tenors(c)) /\ Len(tenors(c)) \in Nat \ {0}
  <2>1. /\ DOMAIN tenors(c) = 1..(Len(Tenors) - c.column + 1)
        /\ Len(tenors(c)) = Len(Tenors) - c.column + 1
    BY <1>1, GridSequences, Rest DEF tenors
  <2> QED
    BY <1>1, <2>1
<1> DEFINE k == (i - 1) * Len(tenors(c)) + j
<1>4. SmirkRow(c, k) = [row |-> i - 1, column |-> j - 1]
  <2>1. k - 1 = (i - 1) * Len(tenors(c)) + (j - 1)
    BY <1>2, <1>3
  <2>2. /\ ((i - 1) * Len(tenors(c)) + (j - 1)) \div Len(tenors(c)) = i - 1
        /\ ((i - 1) * Len(tenors(c)) + (j - 1)) % Len(tenors(c)) = j - 1
    <3>1. i - 1 \in Nat /\ j - 1 \in 0..(Len(tenors(c)) - 1)
      BY <1>2, <1>3
    <3> QED
      BY <1>3, <3>1, RowOf
  <2> QED
    BY <2>1, <2>2 DEF SmirkRow
<1>5. /\ c.row + (i - 1) = c.row + i - 1
      /\ c.column + (j - 1) = c.column + j - 1
  BY <1>1, <1>2, <1>3
<1> QED
  BY <1>4, <1>5 DEF ReadSmile, smirk

\* What C++ finds in one cell of a cube that was cut out of the table.
LEMMA Cell ==
    ASSUME NEW c, c.row \in DOMAIN Expiries, c.column \in DOMAIN Tenors,
           c.strike \in DOMAIN Spreads,
           NEW i \in DOMAIN expiries(c), NEW j \in DOMAIN tenors(c),
           NEW n \in DOMAIN strikes(c)
    PROVE  LET smile == ReadSmile(c, i, j, n)
               atm == atmVol(c, i, j)
           IN  /\ atm # None =>
                    /\ Expiries[atm[1]] = expiries(c)[i]
                    /\ Tenors[atm[2]] = tenors(c)[j]
                    /\ Spreads[atm[3]] = 0
               /\ ~Splined(smile) =>
                    /\ smile.atm = atm
                    /\ Expiries[smile.wing[1]] = expiries(c)[i]
                    /\ Tenors[smile.wing[2]] = tenors(c)[j]
                    /\ Spreads[smile.wing[3]] = strikes(c)[n]
<1>0. Expiries \in Seq(Int) /\ Tenors \in Seq(Int) /\ Spreads \in Seq(Int)
  BY GridSequences
<1>1. /\ c.row \in 1..Len(Expiries) /\ Len(Expiries) \in Nat
      /\ c.column \in 1..Len(Tenors) /\ Len(Tenors) \in Nat
      /\ c.strike \in 1..Len(Spreads) /\ Len(Spreads) \in Nat
  BY GridSequences
<1>2. /\ i \in Nat \ {0} /\ expiries(c)[i] = Expiries[c.row + i - 1]
  <2>1. DOMAIN expiries(c) = 1..(Len(Expiries) - c.row + 1)
    BY <1>0, <1>1, Rest DEF expiries
  <2>2. \A k \in DOMAIN expiries(c) : expiries(c)[k] = Expiries[c.row + k - 1]
    BY <1>0, <1>1, <2>1, Rest DEF expiries
  <2>3. i \in 1..(Len(Expiries) - c.row + 1)
    BY <2>1
  <2>4. i \in Nat \ {0}
    BY <2>3
  <2> QED
    BY <2>2, <2>4
<1>3. /\ j \in 1..Len(tenors(c)) /\ Len(tenors(c)) \in Nat \ {0}
      /\ tenors(c)[j] = Tenors[c.column + j - 1]
  <2>1. /\ DOMAIN tenors(c) = 1..(Len(Tenors) - c.column + 1)
        /\ Len(tenors(c)) = Len(Tenors) - c.column + 1
    BY <1>0, <1>1, Rest DEF tenors
  <2>2. \A k \in DOMAIN tenors(c) : tenors(c)[k] = Tenors[c.column + k - 1]
    BY <1>0, <1>1, <2>1, Rest DEF tenors
  <2> QED
    BY <1>1, <2>1, <2>2
<1>4. strikes(c)[n] = Spreads[c.strike + n - 1]
  <2>1. DOMAIN strikes(c) = 1..(Len(Spreads) - c.strike + 1)
    BY <1>0, <1>1, Rest DEF strikes
  <2> QED
    BY <1>0, <1>1, <2>1, Rest DEF strikes
<1>5. Spreads[AtTheMoney] = 0
  BY GridAssumption DEF AtTheMoney
<1> DEFINE atm == atmVol(c, i, j)
           wing == Quote(c.row + i - 1, c.column + j - 1, c.strike + n - 1)
<1>6. atm = Quote(c.row + i - 1, c.column + j - 1, AtTheMoney)
  BY DEF atmVol
<1>7. ReadSmile(c, i, j, n) = [wing |-> wing, atm |-> atm]
  BY <1>6, ReadsQuotes
<1>8. /\ atm # None => atm = <<c.row + i - 1, c.column + j - 1, AtTheMoney>>
      /\ wing # None => wing = <<c.row + i - 1, c.column + j - 1, c.strike + n - 1>>
  BY <1>6 DEF Quote
<1> HIDE DEF atm, wing
<1>9. ASSUME atm # None
      PROVE  /\ Expiries[atm[1]] = expiries(c)[i]
             /\ Tenors[atm[2]] = tenors(c)[j]
             /\ Spreads[atm[3]] = 0
  <2>1. atm = <<c.row + i - 1, c.column + j - 1, AtTheMoney>>
    BY <1>8, <1>9
  <2>2. /\ atm[1] = c.row + i - 1 /\ atm[2] = c.column + j - 1
        /\ atm[3] = AtTheMoney
    BY <2>1, Triple, Zenon
  <2> QED
    BY <1>2, <1>3, <1>5, <2>2
<1>10. ASSUME wing # None
       PROVE  /\ Expiries[wing[1]] = expiries(c)[i]
              /\ Tenors[wing[2]] = tenors(c)[j]
              /\ Spreads[wing[3]] = strikes(c)[n]
  <2>1. wing = <<c.row + i - 1, c.column + j - 1, c.strike + n - 1>>
    BY <1>8, <1>10
  <2>2. /\ wing[1] = c.row + i - 1 /\ wing[2] = c.column + j - 1
        /\ wing[3] = c.strike + n - 1
    BY <2>1, Triple, Zenon
  <2> QED
    BY <1>2, <1>3, <1>4, <2>2
<1>11. /\ ReadSmile(c, i, j, n).wing = wing /\ ReadSmile(c, i, j, n).atm = atm
       /\ ~Splined(ReadSmile(c, i, j, n)) => wing # None
  BY <1>7 DEF Splined
<1> QED
  BY <1>9, <1>10, <1>11 DEF atm

\* findInterval of an ascending vector: the entries reached are the first.
Upto(s, x) == Cardinality({i \in DOMAIN s : 365 * s[i] <= x})

LEMMA Counted ==
    ASSUME NEW len \in Nat
    PROVE  IsFiniteSet(1..len) /\ Cardinality(1..len) = len
  BY FS_Interval

LEMMA FirstReached ==
    ASSUME NEW s \in Seq(Nat \ {0}), Ascending(s), NEW x \in Int
    PROVE  /\ Upto(s, x) \in 0..Len(s)
           /\ \A k \in 1..Len(s) : k <= Upto(s, x) <=> 365 * s[k] <= x
<1> DEFINE S == {i \in DOMAIN s : 365 * s[i] <= x}
           c == Cardinality(S)
<1>0. /\ Len(s) \in Nat /\ DOMAIN s = 1..Len(s)
      /\ \A k \in 1..Len(s) : s[k] \in Nat \ {0}
      /\ \A m, n \in 1..Len(s) : m < n => s[m] < s[n]
  <2>1. Len(s) \in Nat /\ DOMAIN s = 1..Len(s)
    OBVIOUS
  <2>2. \A k \in 1..Len(s) : s[k] \in Nat \ {0}
    OBVIOUS
  <2>3. \A m, n \in 1..Len(s) : m < n => s[m] < s[n]
    BY <2>1, Zenon DEF Ascending
  <2> QED
    BY <2>1, <2>2, <2>3
<1>1. /\ IsFiniteSet(1..Len(s)) /\ Cardinality(1..Len(s)) = Len(s)
  <2>1. Len(s) \in Nat
    OBVIOUS
  <2> QED
    BY <2>1, Counted
<1>2. S \in SUBSET (1..Len(s))
  BY <1>0
<1>3. IsFiniteSet(S) /\ c <= Len(s) /\ c \in Nat
  BY <1>1, <1>2, FS_Subset, FS_CardinalityType
<1>4. \A k \in S : k <= c
  <2> TAKE k \in S
  <2>1. k \in 1..Len(s) /\ 365 * s[k] <= x
    BY <1>2
  <2>2. 1..k \in SUBSET S
    <3> SUFFICES ASSUME NEW m \in 1..k PROVE m \in S
      OBVIOUS
    <3>1. m \in 1..Len(s) /\ (m = k \/ s[m] < s[k])
      BY <1>0, <2>1
    <3>2. 365 * s[m] <= x
      BY <1>0, <2>1, <3>1
    <3> QED
      BY <1>0, <3>1, <3>2
  <2>3. Cardinality(1..k) = k
    BY <1>0, <2>1, FS_Interval
  <2>4. Cardinality(1..k) <= c
    BY <1>3, <2>2, FS_Subset
  <2> QED
    BY <2>3, <2>4
<1>5. S \in SUBSET (1..c)
  BY <1>0, <1>2, <1>3, <1>4
<1>6. IsFiniteSet(1..c) /\ Cardinality(1..c) = c
  BY <1>3, FS_Interval
<1>7. S = 1..c
  BY <1>5, <1>6, FS_Subset
<1>8. Upto(s, x) = c
  BY DEF Upto
<1>9. \A k \in 1..Len(s) : k \in S <=> 365 * s[k] <= x
  BY <1>0
<1> HIDE DEF S, c
<1> QED
  BY <1>0, <1>3, <1>7, <1>8, <1>9

\* Where the cube begins, in the units of the table.
LEMMA CutAt ==
    ASSUME dates \in [start : Int, expiry : Int, maturity : Int],
           ask.roundsDown \in BOOLEAN
    PROVE  /\ expiryIDX \in 0..(Len(Expiries) - 3)
           /\ expiryIDX = 0 <=> 12 * dates.expiry < 365 * Expiries[1]
           /\ expiryIDX > 0 => 365 * Expiries[expiryIDX] <= 12 * dates.expiry
           /\ tenorIDX \in 1..(Len(Tenors) - 3)
           /\ 365 * Tenors[tenorIDX] <= SwapDays \/ tenorIDX = 1
<1>1. /\ Expiries \in Seq(Nat \ {0}) /\ Ascending(Expiries) /\ Len(Expiries) >= 4
      /\ Tenors \in Seq(Nat \ {0}) /\ Ascending(Tenors) /\ Len(Tenors) >= 4
  BY GridAssumption
<1>2. /\ Len(Expiries) \in Nat /\ Len(Tenors) \in Nat
      /\ \A k \in 1..Len(Expiries) : Expiries[k] \in Nat
      /\ \A k \in 1..Len(Tenors) : Tenors[k] \in Nat
  <2>1. Len(Expiries) \in Nat /\ Len(Tenors) \in Nat
    BY <1>1
  <2>2. \A k \in 1..Len(Expiries) : Expiries[k] \in Nat
    BY <1>1
  <2>3. \A k \in 1..Len(Tenors) : Tenors[k] \in Nat
    BY <1>1
  <2> QED
    BY <2>1, <2>2, <2>3
<1>3. /\ dates.expiry \in Int /\ SwapDays \in Int
  BY DEF SwapDays
<1> DEFINE x == 12 * dates.expiry
           y == IF ask.roundsDown THEN SwapDays - 1 ELSE SwapDays
           e == Upto(Expiries, x)
           t == Upto(Tenors, y)
<1>4. x \in Int /\ y \in Int /\ y <= SwapDays
  BY <1>3
<1>5. /\ expiryIDX = Least(e, Len(Expiries) - 3)
      /\ tenorIDX = Least(Greatest(t, 1), Len(Tenors) - 3)
  BY DEF expiryIDX, tenorIDX, Upto
<1> HIDE DEF x, y
<1>6. /\ e \in 0..Len(Expiries)
      /\ \A k \in 1..Len(Expiries) : k <= e <=> 365 * Expiries[k] <= x
  BY <1>1, <1>4, FirstReached
<1>7. /\ t \in 0..Len(Tenors)
      /\ \A k \in 1..Len(Tenors) : k <= t <=> 365 * Tenors[k] <= y
  BY <1>1, <1>4, FirstReached
<1> HIDE DEF e, t
<1>8. /\ expiryIDX \in 0..(Len(Expiries) - 3)
      /\ expiryIDX = 0 <=> e = 0
      /\ expiryIDX <= e
  <2> DEFINE m == Len(Expiries) - 3
  <2>1. m \in Nat /\ m >= 1
    BY <1>1, <1>2
  <2>2. e \in Nat
    BY <1>2, <1>6
  <2>3. expiryIDX = IF e <= m THEN e ELSE m
    BY <1>5 DEF Least
  <2> HIDE DEF m
  <2>4. expiryIDX \in 0..m /\ (expiryIDX = 0 <=> e = 0) /\ expiryIDX <= e
    BY <2>1, <2>2, <2>3
  <2> QED
    BY <2>4 DEF m
<1>9. e = 0 <=> x < 365 * Expiries[1]
  <2>1. 1 \in 1..Len(Expiries) /\ Expiries[1] \in Nat
    BY <1>1, <1>2
  <2>2. 1 <= e <=> 365 * Expiries[1] <= x
    BY <1>6, <2>1
  <2> QED
    BY <1>4, <1>6, <2>1, <2>2
<1>10. expiryIDX > 0 => 365 * Expiries[expiryIDX] <= x
  BY <1>2, <1>6, <1>8
<1>11. /\ tenorIDX \in 1..(Len(Tenors) - 3)
       /\ tenorIDX <= t \/ tenorIDX = 1
  BY <1>1, <1>2, <1>5, <1>7 DEF Least, Greatest
<1>12. 365 * Tenors[tenorIDX] <= SwapDays \/ tenorIDX = 1
  <2> SUFFICES ASSUME tenorIDX <= t PROVE 365 * Tenors[tenorIDX] <= SwapDays
    BY <1>11
  <2>1. tenorIDX \in 1..Len(Tenors) /\ Tenors[tenorIDX] \in Nat
    BY <1>2, <1>11
  <2>2. 365 * Tenors[tenorIDX] <= y
    BY <1>7, <2>1
  <2> QED
    BY <1>3, <1>4, <2>1, <2>2
<1> QED
  BY <1>8, <1>9, <1>10, <1>11, <1>12 DEF x

\* The cut fails before the first expiry and where nothing is quoted at or
\* below the money, and only there.
LEMMA NotCuttable ==
    ASSUME dates \in [start : Int, expiry : Int, maturity : Int],
           ask.roundsDown \in BOOLEAN
    PROVE  ~Cuttable <=> \/ 12 * dates.expiry < 365 * Expiries[1]
                         \/ \A n \in CornerQuoted : Spreads[n] > 0
<1>1. expiryIDX \in Nat /\ (expiryIDX = 0 <=> 12 * dates.expiry < 365 * Expiries[1])
  BY CutAt, GridSequences
<1>2. /\ CornerQuoted \in SUBSET (DOMAIN Spreads) /\ DOMAIN Spreads \subseteq Nat
      /\ \A n \in DOMAIN Spreads : Spreads[n] \in Int
  BY GridSequences DEF CornerQuoted
<1>5. \A m, n \in DOMAIN Spreads : m < n => Spreads[m] < Spreads[n]
  BY GridAssumption DEF Ascending
<1>3. CASE CornerQuoted = {}
  BY <1>3 DEF Cuttable
<1>4. CASE CornerQuoted # {}
  <2>1. \E n \in CornerQuoted : \A m \in CornerQuoted : n <= m
    BY <1>2, <1>4, LeastOf
  <2>2. strikeIDX \in CornerQuoted /\ \A m \in CornerQuoted : strikeIDX <= m
    BY <2>1 DEF strikeIDX
  <2>3. \A m \in CornerQuoted : Spreads[strikeIDX] <= Spreads[m]
    <3> TAKE m \in CornerQuoted
    <3>1. strikeIDX = m \/ strikeIDX < m
      BY <1>2, <2>2
    <3> QED
      BY <1>2, <1>5, <2>2, <3>1
  <2>4. Spreads[strikeIDX] <= 0 <=> ~ \A n \in CornerQuoted : Spreads[n] > 0
    BY <1>2, <2>2, <2>3
  <2> QED
    BY <1>1, <1>4, <2>4 DEF Cuttable
<1> QED
  BY <1>3, <1>4

-----------------------------------------------------------------------------
(* Dates.                                                                  *)

LEMMA LeapDaysApart ==
    /\ \A l \in LeapDays : l \in Int /\ l - 1 \notin LeapDays
    /\ \A k, l \in LeapDays : k < l => l - k > 4 * 365
<1>1. LeapDays \in SUBSET Int /\ \A k, l \in LeapDays : k < l => l - k > 4 * 365
  BY CalendarAssumption
<1>2. ASSUME NEW l \in LeapDays, l - 1 \in LeapDays PROVE FALSE
  <2>1. l \in Int /\ l - 1 < l
    BY <1>1
  <2>2. l - (l - 1) > 4 * 365
    BY <1>1, <1>2, <2>1
  <2> QED
    BY <2>1, <2>2
<1> QED
  BY <1>1, <1>2

\* A date some years on: the days of that many years, and as many leap days as
\* lie between.  Two counts fit where the date may be a leap day, one of them
\* makes it the day before.
LEMMA SameDayOn ==
    ASSUME NEW d \in Int, d \notin LeapDays, NEW n \in Nat
    PROVE  SameDay(d, n) \in Int /\ SameDay(d, n) >= d + 365 * n
<1> DEFINE b == d + 365 * n
           Within(k) == {l \in LeapDays : d < l /\ l <= b + k}
           L(k) == Cardinality(Within(k))
<1>b. b \in Int /\ b >= d /\ b = d + 365 * n
  OBVIOUS
<1> HIDE DEF b
<1>0. LeapDays \in SUBSET Int /\ \A k, l \in LeapDays : k < l => l - k > 4 * 365
  BY CalendarAssumption
<1>1. \A k \in Nat : IsFiniteSet(Within(k)) /\ L(k) \in Nat
  <2> TAKE k \in Nat
  <2>1. IsFiniteSet(d..(b + k))
    <3>1. b + k \in Int
      BY <1>b
    <3> QED
      BY <3>1, FS_Interval
  <2>2. Within(k) \in SUBSET (d..(b + k))
    <3> SUFFICES ASSUME NEW l \in Within(k) PROVE l \in d..(b + k)
      OBVIOUS
    <3>1. l \in Int /\ d < l /\ l <= b + k
      BY <1>0
    <3> QED
      BY <1>b, <3>1
  <2> QED
    BY <2>1, <2>2, FS_Subset, FS_CardinalityType
<1>2. \A k \in Nat : L(k) <= L(k + 1)
  <2> TAKE k \in Nat
  <2>1. Within(k) \in SUBSET Within(k + 1)
    <3> SUFFICES ASSUME NEW l \in Within(k) PROVE l \in Within(k + 1)
      OBVIOUS
    <3>1. l \in LeapDays /\ l \in Int /\ d < l /\ l <= b + k
      BY <1>0
    <3>2. l <= b + (k + 1)
      BY <1>b, <3>1
    <3> QED
      BY <3>1, <3>2
  <2>2. k + 1 \in Nat
    OBVIOUS
  <2>3. IsFiniteSet(Within(k + 1))
    BY <1>1, <2>2
  <2> HIDE DEF Within
  <2> QED
    BY <2>1, <2>3, FS_Subset
<1>3. L(n + 1) <= n + 1
  <2> DEFINE S == Within(n + 1)
             f == [l \in S |-> (l - d - 1) \div 366]
  <2>1. \A l \in S : (l - d - 1) \in 0..(366 * n) /\ l \in LeapDays
    <3> TAKE l \in S
    <3>1. l \in LeapDays /\ l \in Int /\ d < l /\ l <= b + (n + 1)
      BY <1>0
    <3>2. l <= d + 365 * n + (n + 1)
      BY <3>1 DEF b
    <3> QED
      BY <3>1, <3>2
  <2>2. f \in [S -> 0..n]
    BY <2>1
  <2>3. \A k, l \in S : f[k] = f[l] => k = l
    <3> SUFFICES ASSUME NEW k \in S, NEW l \in S, k < l PROVE f[k] # f[l]
      BY <1>0
    <3>1. l - k > 4 * 365 /\ k \in Int /\ l \in Int
      BY <1>0
    <3> DEFINE x == k - d - 1
               y == l - d - 1
    <3>2. x \in Nat /\ y \in Nat /\ y - x > 366
      BY <2>1, <3>1
    <3>3. f[k] = x \div 366 /\ f[l] = y \div 366
      OBVIOUS
    <3> HIDE DEF x, y, f
    <3>4. x \div 366 < y \div 366
      BY <3>2
    <3>5. x \div 366 \in Int /\ y \div 366 \in Int
      BY <3>2
    <3> QED
      BY <3>3, <3>4, <3>5
  <2>4. f \in Injection(S, 0..n)
    BY <2>2, <2>3 DEF Injection, IsInjective
  <2>5. IsFiniteSet(0..n) /\ Cardinality(0..n) = n + 1
    BY FS_Interval
  <2> HIDE DEF S, f
  <2>6. Cardinality(S) <= n + 1
    BY <2>4, <2>5, FS_Injection
  <2> QED
    BY <2>6 DEF S
<1> DEFINE leaps == [k \in Nat |-> L(k)]
<1>4. /\ leaps \in [Nat -> Nat] /\ leaps[n + 1] <= n + 1
      /\ \A k \in Nat : leaps[k] <= leaps[k + 1]
  <2>1. leaps \in [Nat -> Nat]
    BY <1>1
  <2>2. leaps[n + 1] = L(n + 1)
    OBVIOUS
  <2>3. \A k \in Nat : leaps[k] = L(k) /\ leaps[k + 1] = L(k + 1)
    OBVIOUS
  <2> HIDE DEF leaps, L
  <2> QED
    BY <1>2, <1>3, <2>1, <2>2, <2>3
<1>5. \A k \in 0..(n + 1) : L(k) = leaps[k]
  OBVIOUS
<1> HIDE DEF leaps, L
<1> DEFINE S == {k \in Nat : leaps[k] <= k}
<1>6. PICK k \in S : \A m \in S : k <= m
  <2>1. S \in SUBSET Nat /\ n + 1 \in S
    BY <1>4
  <2> HIDE DEF S
  <2> QED
    BY <2>1, LeastOf
<1>7. k \in 0..(n + 1) /\ leaps[k] = k
  <2>1. k \in Nat /\ leaps[k] <= k /\ k <= n + 1
    BY <1>4, <1>6
  <2>2. CASE k = 0
    BY <1>4, <2>1, <2>2
  <2>3. CASE k > 0
    <3>1. k - 1 \in Nat /\ (k - 1) + 1 = k
      BY <2>1, <2>3
    <3>2. leaps[k - 1] > k - 1
      BY <1>4, <1>6, <3>1
    <3>3. leaps[k - 1] <= leaps[k]
      BY <1>4, <3>1
    <3>4. leaps[k - 1] \in Nat /\ leaps[k] \in Nat
      BY <1>4, <2>1, <3>1
    <3> QED
      BY <2>1, <3>2, <3>3, <3>4
  <2> QED
    BY <2>1, <2>2, <2>3
<1>8. \E m \in 0..(n + 1) : m = L(m) /\ b + m \notin LeapDays
  <2>1. L(k) = k /\ k \in Nat
    BY <1>5, <1>7
  <2>2. CASE b + k \notin LeapDays
    BY <1>7, <2>1, <2>2
  <2>3. CASE b + k \in LeapDays
    <3>1. k # 0
      <4> SUFFICES ASSUME k = 0 PROVE FALSE
        OBVIOUS
      <4>1. b + 0 \in LeapDays /\ b \in LeapDays /\ d < b
        BY <1>b, <2>3
      <4>2. b \in Within(0)
        BY <1>b, <4>1
      <4>3. IsFiniteSet(Within(0)) /\ Cardinality(Within(0)) = 0
        BY <1>1, <2>1 DEF L
      <4> HIDE DEF Within
      <4> QED
        BY <4>2, <4>3, FS_EmptySet
    <3> DEFINE j == k - 1
    <3>2. j \in Nat /\ j + 1 = k /\ j \in 0..(n + 1)
      BY <1>7, <2>1, <3>1
    <3>3. b + j \notin LeapDays
      <4>1. b + j = (b + k) - 1
        BY <1>b, <3>2
      <4> QED
        BY <2>3, <4>1, LeapDaysApart
    <3>4. Within(k) = Within(j) \cup {b + k} /\ b + k \notin Within(j)
      <4>1. \A l \in LeapDays : l <= b + k <=> l <= b + j \/ l = b + k
        BY <1>0, <1>b, <3>2
      <4>2. d < b + k /\ ~(b + k <= b + j)
        BY <1>b, <2>1, <3>1, <3>2
      <4> HIDE DEF j
      <4> QED
        BY <2>3, <4>1, <4>2, Zenon
    <3>5. Cardinality(Within(k)) = Cardinality(Within(j)) + 1
      <4> HIDE DEF Within, j
      <4> QED
        BY <1>1, <3>2, <3>4, FS_AddElement
    <3>6. L(j) = j
      <4>1. L(j) \in Nat /\ L(j) = Cardinality(Within(j)) /\ L(k) = Cardinality(Within(k))
        BY <1>1, <3>2 DEF L
      <4> HIDE DEF Within
      <4> QED
        BY <2>1, <3>2, <3>5, <4>1
    <3> HIDE DEF j
    <3> QED
      BY <3>2, <3>3, <3>6
  <2> QED
    BY <2>2, <2>3
<1> DEFINE C == CHOOSE m \in 0..(n + 1) : m = L(m) /\ b + m \notin LeapDays
<1>9. C \in 0..(n + 1)
  BY <1>8
<1>10. SameDay(d, n) = b + C
  BY DEF SameDay, L, b
<1> HIDE DEF C
<1> QED
  BY <1>b, <1>9, <1>10

LEMMA SomeYearsOn ==
    ASSUME NEW d \in Int, NEW n \in Nat
    PROVE  YearsAfter(d, n) \in Int /\ YearsAfter(d, n) >= d
<1>1. CASE d \notin LeapDays
  <2>1. SameDay(d, n) \in Int /\ SameDay(d, n) >= d + 365 * n /\ YearsAfter(d, n) = SameDay(d, n)
    BY <1>1, SameDayOn DEF YearsAfter
  <2> QED
    BY <2>1
<1>2. CASE d \in LeapDays
  <2> DEFINE s == SameDay(d - 1, n)
  <2>1. d - 1 \in Int /\ d - 1 \notin LeapDays
    BY <1>2, LeapDaysApart
  <2>2. s \in Int /\ s >= (d - 1) + 365 * n
    BY <2>1, SameDayOn
  <2>3. YearsAfter(d, n) = IF s + 1 \in LeapDays THEN s + 1 ELSE s
    BY <1>2 DEF YearsAfter
  <2> HIDE DEF s
  <2>4. CASE s >= d
    BY <2>2, <2>3, <2>4
  <2>5. CASE ~(s >= d)
    <3>1. s + 1 = d
      BY <2>2, <2>5
    <3> QED
      BY <1>2, <2>2, <2>3, <3>1
  <2> QED
    BY <2>4, <2>5
<1> QED
  BY <1>1, <1>2

\* Later years counted from the 28th of February begin on the anniversaries of
\* the 29th, or on the day before the one that is a 29th.
LEMMA DayBeforeOn ==
    ASSUME NEW d \in LeapDays, NEW n \in Nat, n > 0
    PROVE  /\ YearsAfter(d - 1, n) \in Int /\ YearsAfter(d - 1, n) >= d
           /\ \/ YearsAfter(d - 1, n) = YearsAfter(d, n)
              \/ /\ YearsAfter(d, n) \in LeapDays
                 /\ YearsAfter(d - 1, n) = YearsAfter(d, n) - 1
<1> DEFINE s == SameDay(d - 1, n)
<1>1. d \in Int /\ d - 1 \in Int /\ d - 1 \notin LeapDays
  BY LeapDaysApart
<1>2. s \in Int /\ s >= (d - 1) + 365 * n
  BY <1>1, SameDayOn
<1>3. /\ YearsAfter(d, n) = IF s + 1 \in LeapDays THEN s + 1 ELSE s
      /\ YearsAfter(d - 1, n) = s
  BY <1>1 DEF YearsAfter
<1> HIDE DEF s
<1>4. s >= d /\ (s + 1) - 1 = s
  BY <1>1, <1>2
<1> QED
  BY <1>2, <1>3, <1>4

-----------------------------------------------------------------------------
(* The call.                                                               *)

Known == dates \in [start : Int, expiry : Int, maturity : Int]

\* Both cubes are cut at the same corner, and what sabrengine answered so far
\* came from them and from dates it could make a swaption of.  After an error
\* there is a cube if the cut was not what failed.
Typed ==
    /\ ask \in Asks
    /\ phase \in {"called", "dated", "cut", "ready", "done", "error"}
    /\ phase # "called" => Known
    /\ phase \in {"called", "dated", "cut", "error"} => vals = Nothing
AsCut ==
    /\ phase \in {"called", "dated"} => cube = Nothing
    /\ InCube => Cuttable /\ cube = volDF2CubeK(FALSE)
    /\ phase = "error" => (cube = Nothing <=> ~Cuttable)
AsPriced ==
    /\ phase \in {"ready", "done"} =>
         /\ ask.vega => cubeUp = volDF2CubeK(TRUE)
         /\ DOMAIN vals \subseteq Scenario
         /\ \A s \in DOMAIN vals : vals[s] = ScenarioInput(s)
         /\ DOMAIN vals # {} => Priceable
         /\ "vega" \in DOMAIN vals => ask.vega
         /\ "down" \in DOMAIN vals => "up" \in DOMAIN vals
    /\ phase = "done" => "price" \in DOMAIN vals
Inv == Typed /\ AsCut /\ AsPriced

\* Where a cube is cut depends on the arguments and the dates alone.
LEMMA SameCut ==
    ASSUME UNCHANGED <<ask, dates>>
    PROVE  /\ Cuttable' <=> Cuttable
           /\ \A r : (volDF2CubeK(r))' = volDF2CubeK(r)
  BY DEF Cuttable, volDF2CubeK, expiryIDX, tenorIDX, strikeIDX, CornerQuoted, SwapDays

LEMMA SameInput ==
    ASSUME UNCHANGED <<ask, dates, cube, cubeUp>>
    PROVE  \A s : ScenarioInput(s)' = ScenarioInput(s)
  BY DEF ScenarioInput, Valuation, SwapDays, ExerciseDates, AccrualStart, YearsOfSwap,
      EndsOnLeapDay

LEMMA SamePriceable ==
    ASSUME UNCHANGED <<ask, dates>>
    PROVE  Priceable' <=> Priceable
  BY DEF Priceable, SwapDays, ExerciseDates, AccrualStart, YearsOfSwap, EndsOnLeapDay

LEMMA CubeIsMade == \A r : volDF2CubeK(r) # Nothing
<1> TAKE r
<1>1. "row" \in DOMAIN volDF2CubeK(r)
  BY DEF volDF2CubeK
<1>2. DOMAIN Nothing = {}
  BY DEF Nothing
<1> QED
  BY <1>1, <1>2

LEMMA InvInit == Init => Inv
  BY DEF Init, Inv, Typed, AsCut, AsPriced, InCube

LEMMA InvStep == Inv /\ [Next]_vars => Inv'
<1> SUFFICES ASSUME Inv, [Next]_vars PROVE Inv'
  OBVIOUS
<1>1. CASE SetDates
  <2> DEFINE start == Given(ask.start, advance(0, 1))
             maturity == Given(ask.maturity, advance(start, 5))
             expiry == Given(ask.expiry, start)
  <2>1. /\ phase = "called" /\ phase' = "dated" /\ UNCHANGED <<ask, cube, cubeUp, vals>>
        /\ dates' = [start |-> start, expiry |-> expiry, maturity |-> maturity]
    BY <1>1 DEF SetDates
  <2>2. /\ ask.start \in Int \cup {None} /\ ask.expiry \in Int \cup {None}
        /\ ask.maturity \in Int \cup {None}
    BY AsksAssumption DEF Inv, Typed
  <2>3. \A d \in Int : Moved(UsMoves, d) \in Int
    BY CalendarAssumption DEF Moved
  <2>4. \A d \in Int, n \in Nat : advance(d, n) \in Int
    BY <2>3, SomeYearsOn DEF advance
  <2>5. start \in Int
    BY <2>2, <2>4 DEF Given
  <2>6. maturity \in Int /\ expiry \in Int
    BY <2>2, <2>4, <2>5 DEF Given
  <2> HIDE DEF start, maturity, expiry
  <2>7. Known'
    BY <2>1, <2>5, <2>6 DEF Known
  <2> QED
    BY <2>1, <2>7 DEF Inv, Typed, AsCut, AsPriced, InCube
<1>2. CASE CutCube
  BY <1>2, SameCut DEF CutCube, Inv, Typed, Known, AsCut, AsPriced, InCube
<1>3. ASSUME Fails, phase # "called", cube = Nothing <=> ~Cuttable PROVE Inv'
  <2>1. phase' = "error" /\ vals' = Nothing /\ UNCHANGED <<ask, dates, cube, cubeUp>>
    BY <1>3 DEF Fails
  <2> QED
    BY <1>3, <2>1, SameCut DEF Inv, Typed, Known, AsCut, AsPriced, InCube
<1>4. CASE CutFails
  BY <1>3, <1>4 DEF CutFails, Inv, AsCut
<1>5. CASE CutCubeUp
  <2>1. vals' = vals /\ vals = Nothing /\ DOMAIN vals = {}
    BY <1>5 DEF CutCubeUp, Inv, Typed, Nothing
  <2>2. ask' = ask /\ ask.vega => cubeUp' = volDF2CubeK(TRUE)
    BY <1>5 DEF CutCubeUp
  <2>3. phase = "cut" /\ phase' = "ready" /\ cube' = cube /\ InCube
    BY <1>5 DEF CutCubeUp, InCube
  <2>4. UNCHANGED <<ask, dates>>
    BY <1>5 DEF CutCubeUp
  <2>5. Typed' /\ AsCut'
    BY <2>1, <2>3, <2>4, SameCut DEF Inv, Typed, Known, AsCut, InCube
  <2>6. AsPriced'
    BY <2>1, <2>2, <2>3, <2>4, SameCut DEF AsPriced
  <2> QED
    BY <2>5, <2>6 DEF Inv
<1>6. CASE sabrengine
  <2>1. /\ UNCHANGED <<ask, phase, dates, cube, cubeUp>>
        /\ NextScenario # "none" /\ phase = "ready" /\ Priceable
    BY <1>6 DEF sabrengine
  <2>2. DOMAIN vals' = DOMAIN vals \cup {NextScenario}
    BY <1>6 DEF sabrengine
  <2>3. \A s \in DOMAIN vals' : vals'[s] = ScenarioInput(s)
    BY <1>6, <2>1 DEF sabrengine, Inv, AsPriced
  <2>4. /\ NextScenario \in Scenario
        /\ NextScenario = "vega" => ask.vega
        /\ NextScenario = "down" => "up" \in DOMAIN vals
    BY <2>1 DEF NextScenario, Scenario
  <2>5. Typed' /\ AsCut'
    BY <2>1, SameCut DEF Inv, Typed, Known, AsCut, InCube
  <2>6. AsPriced'
    BY <2>1, <2>2, <2>3, <2>4, SameCut, SameInput, SamePriceable DEF Inv, AsPriced
  <2> QED
    BY <2>5, <2>6 DEF Inv
<1>7. CASE Throw
  BY <1>3, <1>7, CubeIsMade DEF Throw, Inv, AsCut, InCube
<1>8. CASE NotACurve
  BY <1>3, <1>8, CubeIsMade DEF NotACurve, Inv, AsCut, InCube
<1>9. CASE Answer
  <2>1. "price" \in DOMAIN vals
    BY <1>9 DEF Answer, NextScenario
  <2> QED
    BY <1>9, <2>1, SameCut, SameInput, SamePriceable
       DEF Answer, Inv, Typed, Known, AsCut, AsPriced, InCube
<1>10. CASE UNCHANGED vars
  BY <1>10, SameCut, SameInput, SamePriceable
     DEF vars, Inv, Typed, Known, AsCut, AsPriced, InCube
<1> QED
  BY <1>1, <1>2, <1>4, <1>5, <1>6, <1>7, <1>8, <1>9, <1>10 DEF Next

\* Every reachable state has the inductive invariant.
THEOREM Invariance == Spec => []Inv
  BY InvInit, InvStep, PTL DEF Spec

\* The rows and columns of the cube that R cut and flattened are, in C++, the
\* quotes for the expiry, tenor and strike they are read at (sabr.R 105-169,
\* sabr.cpp 44-124), whatever the size of the table, the holes in it and the
\* dates.
THEOREM CubeIsQuoted == Spec => []CubeHoldsQuotes
<1>1. Inv => CubeHoldsQuotes
  <2> SUFFICES ASSUME Inv, InCube,
                      NEW i \in DOMAIN expiries(cube), NEW j \in DOMAIN tenors(cube),
                      NEW n \in DOMAIN strikes(cube)
               PROVE  LET smile == ReadSmile(cube, i, j, n)
                          atm == atmVol(cube, i, j)
                      IN  /\ atm # None =>
                               /\ Expiries[atm[1]] = expiries(cube)[i]
                               /\ Tenors[atm[2]] = tenors(cube)[j]
                               /\ Spreads[atm[3]] = 0
                          /\ ~Splined(smile) =>
                               /\ smile.atm = atm
                               /\ Expiries[smile.wing[1]] = expiries(cube)[i]
                               /\ Tenors[smile.wing[2]] = tenors(cube)[j]
                               /\ Spreads[smile.wing[3]] = strikes(cube)[n]
    BY DEF CubeHoldsQuotes
  <2>1. Cuttable /\ cube = volDF2CubeK(FALSE)
    BY DEF Inv, AsCut
  <2>2. /\ cube.row \in DOMAIN Expiries /\ cube.column \in DOMAIN Tenors
        /\ cube.strike \in DOMAIN Spreads
    BY <2>1, CornerInTable DEF volDF2CubeK
  <2> QED
    BY <2>2, Cell
<1> QED
  BY <1>1, Invariance, PTL

LEMMA Raised ==
    ASSUME NEW r, NEW q
    PROVE  volDF2CubeK(r) = [volDF2CubeK(q) EXCEPT !.raised = r]
  BY DEF volDF2CubeK

LEMMA OneInputChanged ==
    ASSUME NEW c, NEW d, NEW curve, NEW other
    PROVE  /\ Valuation(other, c) = [Valuation(curve, c) EXCEPT !.curve = other]
           /\ Valuation(curve, d) = [Valuation(curve, c) EXCEPT !.cube = d]
           /\ Valuation(curve, c).cube = c
  BY DEF Valuation

\* The price is that of the quotes as they were read, and each sensitivity
\* of one change to its inputs (sabr.R 52-56, 68-90).
THEOREM OneBump == Spec => []SensitivityIsOneBump
<1>1. Inv => SensitivityIsOneBump
  <2> SUFFICES ASSUME Inv, phase = "done" PROVE SensitivityIsOneBump
    BY DEF SensitivityIsOneBump
  <2>1. /\ cube = volDF2CubeK(FALSE)
        /\ "price" \in DOMAIN vals
        /\ \A s \in DOMAIN vals : vals[s] = ScenarioInput(s)
        /\ "vega" \in DOMAIN vals => cubeUp = volDF2CubeK(TRUE)
        /\ "down" \in DOMAIN vals => "up" \in DOMAIN vals
    BY DEF Inv, AsCut, AsPriced, InCube
  <2>2. vals["price"] = Valuation("ts", cube)
    BY <2>1 DEF ScenarioInput
  <2>3. vals["price"].curve = "ts" /\ ~vals["price"].cube.raised
    BY <2>1, <2>2 DEF Valuation, volDF2CubeK
  <2>4. ASSUME "vega" \in DOMAIN vals
        PROVE  vals["vega"] = [vals["price"] EXCEPT !.cube.raised = TRUE]
    <3>1. vals["vega"] = Valuation("ts", volDF2CubeK(TRUE))
      BY <2>1, <2>4 DEF ScenarioInput
    <3>2. volDF2CubeK(TRUE) = [volDF2CubeK(FALSE) EXCEPT !.raised = TRUE]
      BY Raised
    <3>3. Valuation("ts", volDF2CubeK(TRUE))
            = [Valuation("ts", cube) EXCEPT !.cube = volDF2CubeK(TRUE)]
      BY OneInputChanged
    <3>4. Valuation("ts", cube).cube = cube
      BY OneInputChanged
    <3> QED
      BY <2>1, <2>2, <3>1, <3>2, <3>3, <3>4
  <2>5. ASSUME "up" \in DOMAIN vals
        PROVE  vals["up"] = [vals["price"] EXCEPT !.curve = "tsUp01"]
    <3>1. vals["up"] = Valuation("tsUp01", cube)
      BY <2>1, <2>5 DEF ScenarioInput
    <3>2. Valuation("tsUp01", cube) = [Valuation("ts", cube) EXCEPT !.curve = "tsUp01"]
      BY OneInputChanged
    <3> QED
      BY <2>2, <3>1, <3>2
  <2>6. ASSUME "down" \in DOMAIN vals
        PROVE  vals["down"] = [vals["price"] EXCEPT !.curve = "tsDn01"]
    <3>1. vals["down"] = Valuation("tsDn01", cube)
      BY <2>1, <2>6 DEF ScenarioInput
    <3>2. Valuation("tsDn01", cube) = [Valuation("ts", cube) EXCEPT !.curve = "tsDn01"]
      BY OneInputChanged
    <3> QED
      BY <2>2, <3>1, <3>2
  <2> QED
    BY <2>1, <2>3, <2>4, <2>5, <2>6 DEF SensitivityIsOneBump
<1> QED
  BY <1>1, Invariance, PTL

\* A quote right of, below and behind the corner of a staircase is there.
LEMMA AllQuoted ==
    ASSUME Cuttable, Staircase,
           NEW i \in DOMAIN Expiries, i >= expiryIDX,
           NEW j \in DOMAIN Tenors, j >= tenorIDX,
           NEW n \in DOMAIN Spreads, n >= strikeIDX
    PROVE  Quote(i, j, n) # None
<1>1. i \in 1..Len(Expiries) /\ j \in 1..Len(Tenors) /\ n \in 1..Len(Spreads)
  BY GridSequences
<1>2. Len(Expiries) \in Nat /\ Len(Tenors) \in Nat /\ Len(Spreads) \in Nat
  BY GridSequences
<1>3. /\ expiryIDX \in 1..Len(Expiries) /\ tenorIDX \in 1..Len(Tenors)
      /\ strikeIDX \in 1..Len(Spreads)
  <2>1. expiryIDX \in 1..(Len(Expiries) - 3)
    BY Corner
  <2>2. tenorIDX \in 1..(Len(Tenors) - 3)
    BY Corner
  <2>3. strikeIDX \in DOMAIN Spreads /\ DOMAIN Spreads = 1..Len(Spreads)
    BY Corner, GridSequences
  <2> QED
    BY <1>2, <2>1, <2>2, <2>3
<1>4. <<expiryIDX, tenorIDX, strikeIDX>> \in ask.quoted
  BY StrikeQuoted DEF CornerQuoted
<1>5. <<i, j, n>> \in ask.quoted
  <2> DEFINE q == <<expiryIDX, tenorIDX, strikeIDX>>
  <2>1. q[1] = expiryIDX /\ q[2] = tenorIDX /\ q[3] = strikeIDX
    OBVIOUS
  <2>2. \A a \in q[1]..Len(Expiries), b \in q[2]..Len(Tenors),
           m \in q[3]..Len(Spreads) : <<a, b, m>> \in ask.quoted
    BY <1>4 DEF Staircase
  <2> HIDE DEF q
  <2>3. i \in q[1]..Len(Expiries)
    BY <1>1, <1>2, <1>3, <2>1
  <2>4. j \in q[2]..Len(Tenors)
    BY <1>1, <1>2, <1>3, <2>1
  <2>5. n \in q[3]..Len(Spreads)
    BY <1>1, <1>2, <1>3, <2>1
  <2> QED
    BY <2>2, <2>3, <2>4, <2>5
<1>6. <<i, j, n>> # None
  BY <1>1, <1>2, NoneAssumption
<1> QED
  BY <1>5, <1>6 DEF Quote

\* Where quotes run out only towards the short end and the low strikes, the
\* first strike quoted at the corner is quoted everywhere in the cube, and
\* na.spline has nothing to fill (sabr.R 125-128, 163).
THEOREM NoQuoteInvented == Spec => []NothingInvented
<1>1. Inv => NothingInvented
  <2> SUFFICES ASSUME Inv, InCube, Staircase,
                      NEW i \in DOMAIN expiries(cube), NEW j \in DOMAIN tenors(cube),
                      NEW n \in DOMAIN strikes(cube)
               PROVE  /\ ~Splined(ReadSmile(cube, i, j, n))
                      /\ atmVol(cube, i, j) # None
    BY DEF NothingInvented
  <2> DEFINE c == volDF2CubeK(FALSE)
  <2>1. Cuttable /\ cube = c
    BY DEF Inv, AsCut
  <2>2. /\ c.row \in DOMAIN Expiries /\ c.column \in DOMAIN Tenors
        /\ c.strike \in DOMAIN Spreads
    BY <2>1, CornerInTable DEF volDF2CubeK
  <2>3. /\ c.row + i - 1 \in DOMAIN Expiries /\ c.row + i - 1 >= c.row
        /\ c.column + j - 1 \in DOMAIN Tenors /\ c.column + j - 1 >= c.column
        /\ c.strike + n - 1 \in DOMAIN Spreads /\ c.strike + n - 1 >= c.strike
    BY <2>1, <2>2, InTable
  <2>4. AtTheMoney \in DOMAIN Spreads /\ AtTheMoney >= c.strike
    BY <2>1, MoneyInCube DEF volDF2CubeK
  <2>5. atmVol(cube, i, j) # None
    BY <2>1, <2>3, <2>4, AllQuoted DEF atmVol, volDF2CubeK
  <2>6. Quote(c.row + i - 1, c.column + j - 1, c.strike + n - 1) # None
    BY <2>1, <2>3, AllQuoted DEF volDF2CubeK
  <2>7. Quote(c.row + i - 1, c.column + j - 1, AtTheMoney) # None
    BY <2>1, <2>3, <2>4, AllQuoted DEF volDF2CubeK
  <2>8. ~Splined(ReadSmile(cube, i, j, n))
    <3> DEFINE wing == Quote(c.row + i - 1, c.column + j - 1, c.strike + n - 1)
               atm == Quote(c.row + i - 1, c.column + j - 1, AtTheMoney)
    <3>1. ReadSmile(cube, i, j, n) = [wing |-> wing, atm |-> atm]
      BY <2>1, <2>2, ReadsQuotes
    <3>2. wing # None /\ atm # None
      BY <2>6, <2>7
    <3> HIDE DEF wing, atm
    <3> QED
      BY <3>1, <3>2 DEF Splined
  <2> QED
    BY <2>5, <2>8
<1> QED
  BY <1>1, Invariance, PTL

\* Once the dates are known they are dates, and a call that failed has
\* answered nothing (sabr.R 37-48, 68-93).
THEOREM TypeCorrect == Spec => []TypeOK
<1>1. Inv => TypeOK
  <2> SUFFICES ASSUME Inv PROVE TypeOK
    OBVIOUS
  <2>1. DOMAIN vals \subseteq Scenario
    <3>1. DOMAIN Nothing = {}
      BY DEF Nothing
    <3> QED
      BY <3>1 DEF Inv, Typed, AsPriced
  <2> QED
    BY <2>1 DEF Inv, Typed, Known, TypeOK
<1> QED
  BY <1>1, Invariance, PTL

\* The cut stops for an option before the table's first expiry or with nothing
\* quoted at or below the money, and for no other (sabr.R 116-128).
THEOREM OnlyTheseCutsFail == Spec => []CutFailsExactlyWhen
<1>1. Inv => CutFailsExactlyWhen
  <2> SUFFICES ASSUME Inv, phase \in {"cut", "error"}
               PROVE  cube = Nothing <=>
                        \/ 12 * dates.expiry < 365 * Expiries[1]
                        \/ \A n \in CornerQuoted : Spreads[n] > 0
    BY DEF CutFailsExactlyWhen
  <2>1. /\ dates \in [start : Int, expiry : Int, maturity : Int]
        /\ ask.roundsDown \in BOOLEAN
    BY AsksAssumption DEF Inv, Typed, Known
  <2>2. cube = Nothing <=> ~Cuttable
    BY CubeIsMade DEF Inv, AsCut, InCube
  <2> QED
    BY <2>1, <2>2, NotCuttable
<1> QED
  BY <1>1, Invariance, PTL

LEMMA PriceIs ==
    ASSUME Inv, phase = "done"
    PROVE  /\ vals["price"] = Valuation("ts", cube) /\ Priceable
           /\ Cuttable /\ cube = volDF2CubeK(FALSE)
           /\ dates \in [start : Int, expiry : Int, maturity : Int]
           /\ ask \in Asks
<1>1. /\ "price" \in DOMAIN vals /\ vals["price"] = ScenarioInput("price")
      /\ Priceable
  BY DEF Inv, AsPriced
<1> QED
  BY <1>1 DEF Inv, Typed, Known, AsCut, InCube, ScenarioInput

\* A cube that leaves four of len begins at one of them.
LEMMA Before ==
    ASSUME NEW len \in Nat, NEW k \in 1..(len - 3)
    PROVE  k \in 1..len /\ 1 \in 1..(len - k + 1) /\ k + 1 - 1 = k
  OBVIOUS

LEMMA WholeYearsIs ==
    ASSUME NEW d \in Int, NEW y \in Nat, 365 * y <= d
    PROVE  WholeYears(d) >= y /\ WholeYears(d) \in Int
<1>1. d \in Nat /\ WholeYears(d) = d \div 365
  BY DEF WholeYears
<1> QED
  BY <1>1

\* The volatility is looked up at no fewer years of swap than the cube has,
\* and at most a year before its first expiry (sabr.R 105-133 against
\* sabr.cpp 165-172).
THEOREM LookedUp == Spec => []LookedUpInTheCube
<1>1. Inv => LookedUpInTheCube
  <2> SUFFICES ASSUME Inv, phase = "done", ask.settle \in 0..30
               PROVE  /\ vals["price"].swapYears >= tenors(cube)[1]
                      /\ 12 * vals["price"].optionYears >= expiries(cube)[1] - 12
                      /\ Len(tenors(cube)) >= 4 /\ Len(expiries(cube)) >= 4
    BY DEF LookedUpInTheCube
  <2>1. /\ vals["price"].swapYears = WholeYears(SwapDays)
        /\ vals["price"].optionYears = WholeYears(dates.expiry - ask.settle)
    BY PriceIs DEF Valuation
  <2>2. /\ Cuttable /\ WholeYears(SwapDays) >= 1
        /\ dates \in [start : Int, expiry : Int, maturity : Int]
        /\ ask.roundsDown \in BOOLEAN
        /\ cube.row = expiryIDX /\ cube.column = tenorIDX
    BY PriceIs, AsksAssumption DEF Priceable, volDF2CubeK
  <2>3. /\ expiryIDX \in 1..(Len(Expiries) - 3)
        /\ 365 * Expiries[expiryIDX] <= 12 * dates.expiry
        /\ tenorIDX \in 1..(Len(Tenors) - 3)
        /\ 365 * Tenors[tenorIDX] <= SwapDays \/ tenorIDX = 1
    BY <2>2, CutAt DEF Cuttable
  <2>4. /\ Len(Expiries) \in Nat /\ Len(Tenors) \in Nat
        /\ Expiries \in Seq(Int) /\ Tenors \in Seq(Int)
    BY GridSequences
  <2>5. /\ Expiries[expiryIDX] \in Nat /\ Tenors[tenorIDX] \in Nat /\ Tenors[1] = 1
    <3>1. Expiries \in Seq(Nat \ {0}) /\ Tenors \in Seq(Nat \ {0}) /\ Tenors[1] = 1
      BY GridAssumption
    <3>2. expiryIDX \in 1..Len(Expiries) /\ tenorIDX \in 1..Len(Tenors)
      BY <2>3, <2>4, Before
    <3>3. Expiries[expiryIDX] \in Nat
      BY <3>1, <3>2
    <3>4. Tenors[tenorIDX] \in Nat
      BY <3>1, <3>2
    <3> QED
      BY <3>1, <3>3, <3>4
  <2>6. /\ tenors(cube)[1] = Tenors[tenorIDX]
        /\ Len(tenors(cube)) = Len(Tenors) - tenorIDX + 1
    <3>1. tenorIDX \in 1..Len(Tenors) /\ 1 \in 1..(Len(Tenors) - tenorIDX + 1)
          /\ tenorIDX + 1 - 1 = tenorIDX
      BY <2>3, <2>4, Before
    <3> QED
      BY <2>2, <2>4, <3>1, Rest DEF tenors
  <2>7. /\ expiries(cube)[1] = Expiries[expiryIDX]
        /\ Len(expiries(cube)) = Len(Expiries) - expiryIDX + 1
    <3>1. expiryIDX \in 1..Len(Expiries) /\ 1 \in 1..(Len(Expiries) - expiryIDX + 1)
          /\ expiryIDX + 1 - 1 = expiryIDX
      BY <2>3, <2>4, Before
    <3> QED
      BY <2>2, <2>4, <3>1, Rest DEF expiries
  <2>8. WholeYears(SwapDays) >= Tenors[tenorIDX]
    <3>1. SwapDays \in Int
      BY <2>2 DEF SwapDays
    <3>2. CASE 365 * Tenors[tenorIDX] <= SwapDays
      BY <2>5, <3>1, <3>2, WholeYearsIs
    <3>3. CASE tenorIDX = 1
      BY <2>2, <2>5, <3>3
    <3> QED
      BY <2>3, <3>2, <3>3
  <2>9. 12 * WholeYears(dates.expiry - ask.settle) >= Expiries[expiryIDX] - 12
    <3> DEFINE e == Expiries[expiryIDX]
               x == dates.expiry
               d == x - ask.settle
    <3>1. e \in Nat \ {0} /\ x \in Int /\ ask.settle \in 0..30 /\ 365 * e <= 12 * x
      <4>1. Expiries \in Seq(Nat \ {0})
        BY GridAssumption
      <4>2. expiryIDX \in 1..Len(Expiries)
        BY <2>3, <2>4, Before
      <4>3. e \in Nat \ {0}
        BY <4>1, <4>2
      <4> HIDE DEF e
      <4>4. x \in Int
        BY <2>2
      <4>5. 365 * e <= 12 * x
        BY <2>3 DEF e
      <4> QED
        BY <4>3, <4>4, <4>5
    <3> HIDE DEF e, x
    <3>2. d \in Nat
      BY <3>1
    <3>3. WholeYears(d) = d \div 365
      BY <3>2 DEF WholeYears
    <3>4. 12 * d >= 365 * e - 360
      BY <3>1
    <3> HIDE DEF d
    <3>5. d <= 365 * (d \div 365) + 364 /\ d \div 365 \in Nat
      BY <3>2
    <3>6. 12 * (d \div 365) >= e - 12
      BY <3>1, <3>2, <3>4, <3>5
    <3> QED
      BY <3>3, <3>6 DEF d, x, e
  <2>10. Len(tenors(cube)) >= 4 /\ Len(expiries(cube)) >= 4
    <3>1. Len(Tenors) - tenorIDX + 1 >= 4
      BY <2>3, <2>4
    <3>2. Len(Expiries) - expiryIDX + 1 >= 4
      BY <2>3, <2>4
    <3> QED
      BY <2>6, <2>7, <3>1, <3>2
  <2> QED
    BY <2>1, <2>6, <2>7, <2>8, <2>9, <2>10, Zenon
<1> QED
  BY <1>1, Invariance, PTL

\* The n-th year of a Bermudan's swap begins on the anniversary of its start,
\* or on the day before if that is a 29th of February.
LEMMA YearBegins ==
    ASSUME dates.start \in Int, NEW n \in Nat
    PROVE  /\ AccrualStart(n) \in Int /\ AccrualStart(n) >= dates.start
           /\ YearsAfter(dates.start, n) \in Int
           /\ AccrualStart(n) <= YearsAfter(dates.start, n)
           /\ \/ AccrualStart(n) = YearsAfter(dates.start, n)
              \/ /\ YearsAfter(dates.start, n) \in LeapDays
                 /\ AccrualStart(n) = YearsAfter(dates.start, n) - 1
<1>1. /\ YearsAfter(dates.start, n) \in Int
      /\ YearsAfter(dates.start, n) >= dates.start
  BY SomeYearsOn
<1>2. CASE n > 0 /\ dates.start \in LeapDays /\ ~EndsOnLeapDay
  <2>1. AccrualStart(n) = YearsAfter(dates.start - 1, n)
    BY <1>2 DEF AccrualStart
  <2>2. n > 0 /\ dates.start \in LeapDays
    BY <1>2
  <2>3. /\ YearsAfter(dates.start - 1, n) \in Int
        /\ YearsAfter(dates.start - 1, n) >= dates.start
        /\ \/ YearsAfter(dates.start - 1, n) = YearsAfter(dates.start, n)
           \/ /\ YearsAfter(dates.start, n) \in LeapDays
              /\ YearsAfter(dates.start - 1, n) = YearsAfter(dates.start, n) - 1
    BY <2>2, DayBeforeOn
  <2>4. YearsAfter(dates.start - 1, n) <= YearsAfter(dates.start, n)
    BY <1>1, <2>3
  <2> QED
    BY <1>1, <2>1, <2>3, <2>4
<1>3. CASE ~(n > 0 /\ dates.start \in LeapDays /\ ~EndsOnLeapDay)
  <2>1. AccrualStart(n) = YearsAfter(dates.start, n)
    BY <1>3 DEF AccrualStart
  <2> QED
    BY <1>1, <2>1
<1> QED
  BY <1>2, <1>3

\* A Bermudan's dates lie between its start and its expiry, and each is an
\* anniversary of its start, or where modified following moves one; and every
\* anniversary up to the expiry that is no holiday of TARGET is a date.  An
\* anniversary on a 29th of February stands for the day before as well
\* (sabr.cpp 236-271).
THEOREM Exercised == Spec => []ExercisedOnAnniversaries
<1>1. Inv => ExercisedOnAnniversaries
  <2> SUFFICES ASSUME Inv, phase = "done", ~ask.european
               PROVE  ExercisedOnAnniversaries
    BY DEF ExercisedOnAnniversaries
  <2> DEFINE days == vals["price"].exercise
             N == YearsOfSwap - 1
             At(n) == AccrualStart(n)
             Anniversary(n) == LET d == YearsAfter(dates.start, n)
                               IN  IF d \in LeapDays THEN {d - 1, d} ELSE {d}
  <2>1. days = ExerciseDates /\ ExerciseDates # {}
    BY PriceIs DEF Valuation, Priceable
  <2>2. dates.start \in Int /\ dates.expiry \in Int /\ dates.maturity \in Int
    BY PriceIs
  <2>3. N \in Int
    BY <2>2 DEF WholeYears, YearsOfSwap
  <2>4. days = {d \in {Moved(TargetMoves, At(n)) : n \in 0..N} :
                   dates.start <= d /\ d <= dates.expiry}
    BY <2>1 DEF ExerciseDates
  <2> HIDE DEF N, days
  <2>5. ASSUME NEW n \in 0..N
        PROVE  /\ At(n) \in Int /\ dates.start <= At(n) /\ At(n) \in Anniversary(n)
               /\ YearsAfter(dates.start, n) \in Anniversary(n)
               /\ YearsAfter(dates.start, n) \in Int
               /\ At(n) <= YearsAfter(dates.start, n)
    <3>1. n \in Nat
      BY <2>3
    <3> DEFINE y == YearsAfter(dates.start, n)
    <3>2. /\ AccrualStart(n) \in Int /\ AccrualStart(n) >= dates.start
          /\ YearsAfter(dates.start, n) \in Int
          /\ AccrualStart(n) <= YearsAfter(dates.start, n)
          /\ \/ AccrualStart(n) = YearsAfter(dates.start, n)
             \/ /\ YearsAfter(dates.start, n) \in LeapDays
                /\ AccrualStart(n) = YearsAfter(dates.start, n) - 1
      <4>1. dates.start \in Int
        BY <2>2
      <4> QED
        BY <3>1, <4>1, YearBegins
    <3>3. /\ At(n) \in Int /\ At(n) >= dates.start /\ y \in Int /\ At(n) <= y
          /\ \/ At(n) = y
             \/ y \in LeapDays /\ At(n) = y - 1
      BY <3>2
    <3> HIDE DEF y
    <3> HIDE DEF At
    <3>4. Anniversary(n) = IF y \in LeapDays THEN {y - 1, y} ELSE {y}
      BY DEF y
    <3>5. dates.start <= At(n)
      BY <2>2, <3>3
    <3> HIDE DEF Anniversary
    <3> QED
      BY <3>3, <3>4, <3>5 DEF y
  <2> HIDE DEF At, Anniversary
  <2>6. \A d \in days :
          /\ dates.start <= d /\ d <= dates.expiry
          /\ \E n \in 0..N : \E a \in Anniversary(n) : d = Moved(TargetMoves, a)
    <3> SUFFICES ASSUME NEW d \in days
                 PROVE  /\ dates.start <= d /\ d <= dates.expiry
                        /\ \E n \in 0..N : \E a \in Anniversary(n) :
                             d = Moved(TargetMoves, a)
      OBVIOUS
    <3>1. PICK n \in 0..N : d = Moved(TargetMoves, At(n))
      BY <2>4
    <3>2. At(n) \in Anniversary(n)
      BY <2>5
    <3> QED
      BY <2>4, <3>1, <3>2
  <2>7. \A n \in 0..N :
          /\ \A a \in Anniversary(n) : a <= dates.expiry /\ a \notin DOMAIN TargetMoves
          => \E a \in Anniversary(n) : a \in days
    <3> SUFFICES ASSUME NEW n \in 0..N,
                        \A a \in Anniversary(n) :
                            a <= dates.expiry /\ a \notin DOMAIN TargetMoves
                 PROVE  \E a \in Anniversary(n) : a \in days
      OBVIOUS
    <3>1. At(n) \in Anniversary(n) /\ dates.start <= At(n)
      BY <2>5
    <3>2. At(n) <= dates.expiry /\ Moved(TargetMoves, At(n)) = At(n)
      BY <3>1 DEF Moved
    <3>3. At(n) \in days
      BY <2>4, <3>1, <3>2
    <3> QED
      BY <3>1, <3>3
  <2>8. ASSUME dates.expiry = dates.start
        PROVE  dates.start \notin DOMAIN TargetMoves
    <3>1. PICK d \in days : TRUE
      BY <2>1
    <3>2. PICK n \in 0..N : d = Moved(TargetMoves, At(n))
      BY <2>4
    <3>3. At(n) \in Int
      BY <2>5
    <3>4. d \in Int
      BY <3>2, <3>3, CalendarAssumption DEF Moved
    <3>5. d = dates.start
      BY <2>2, <2>6, <2>8, <3>4
    <3>6. CASE At(n) \in DOMAIN TargetMoves
      BY <3>2, <3>5, <3>6, CalendarAssumption DEF Moved
    <3>7. CASE At(n) \notin DOMAIN TargetMoves
      BY <3>2, <3>5, <3>7 DEF Moved
    <3> QED
      BY <3>6, <3>7
  <2> QED
    BY <2>6, <2>7, <2>8, Zenon DEF ExercisedOnAnniversaries, days, N, Anniversary
<1> QED
  BY <1>1, Invariance, PTL
=============================================================================
