--------------------------- MODULE SwaptionGridProofs ---------------------------
(***************************************************************************)
(* Theorems about SwaptionGrid, for swaptions of any length, any matrix    *)
(* and any number of quotes up to six.                                     *)
(***************************************************************************)
EXTENDS SwaptionGrid, FiniteSetTheorems, SequenceTheorems, TLAPS

-----------------------------------------------------------------------------
(* Grids.                                                                  *)

LEMMA GridFacts ==
    ASSUME NEW g \in Grids
    PROVE  /\ Len(g) \in Nat \ {0} /\ DOMAIN g = 1..Len(g)
           /\ \A k \in 1..Len(g) : g[k] \in Nat \ {0}
           /\ \A m, n \in 1..Len(g) : m < n => g[m] < g[n]
<1>1. /\ g \in Seq(Nat \ {0}) /\ g # <<>>
      /\ \A m, n \in DOMAIN g : m < n => g[m] < g[n]
  BY GridAssumption
<1>2. DOMAIN g = 1..Len(g) /\ Len(g) \in Nat /\ \A k \in 1..Len(g) : g[k] \in Nat \ {0}
  BY <1>1
<1>3. Len(g) # 0
  BY <1>1
<1> QED
  BY <1>1, <1>2, <1>3

\* findInterval counts the entries not beyond x, which in an increasing grid
\* are the first ones.
LEMMA IntervalFacts ==
    ASSUME NEW g \in Grids, NEW x \in Int
    PROVE  /\ findInterval(x, g) \in 0..Len(g)
           /\ \A k \in 1..Len(g) : k <= findInterval(x, g) <=> g[k] <= x
<1> DEFINE S == {k \in DOMAIN g : g[k] <= x}
           c == Cardinality(S)
<1>0. /\ Len(g) \in Nat \ {0} /\ DOMAIN g = 1..Len(g)
      /\ \A k \in 1..Len(g) : g[k] \in Nat \ {0}
      /\ \A m, n \in 1..Len(g) : m < n => g[m] < g[n]
  BY GridFacts
<1>1. /\ IsFiniteSet(1..Len(g)) /\ Cardinality(1..Len(g)) = Len(g)
  BY <1>0, FS_Interval
<1>2. S \in SUBSET (1..Len(g))
  BY <1>0
<1>3. IsFiniteSet(S) /\ c <= Len(g) /\ c \in Nat
  BY <1>1, <1>2, FS_Subset, FS_CardinalityType
<1>4. \A k \in S : k <= c
  <2> TAKE k \in S
  <2>1. k \in 1..Len(g) /\ g[k] <= x
    BY <1>2
  <2>2. 1..k \in SUBSET S
    <3> SUFFICES ASSUME NEW m \in 1..k PROVE m \in S
      OBVIOUS
    <3>1. m \in 1..Len(g) /\ (m = k \/ g[m] < g[k])
      BY <1>0, <2>1
    <3>2. g[m] <= x
      BY <1>0, <2>1, <3>1
    <3> QED
      BY <1>0, <3>1, <3>2
  <2>3. Cardinality(1..k) = k
    BY <1>0, <2>1, FS_Interval
  <2>4. Cardinality(1..k) <= c
    BY <1>3, <2>2, FS_Subset
  <2> QED
    BY <2>3, <2>4
<1>5. S \in SUBSET (1..c)
  BY <1>0, <1>2, <1>3, <1>4
<1>6. IsFiniteSet(1..c) /\ Cardinality(1..c) = c
  BY <1>3, FS_Interval
<1>7. S = 1..c
  BY <1>5, <1>6, FS_Subset
<1>8. findInterval(x, g) = c
  BY DEF findInterval
<1>9. \A k \in 1..Len(g) : k \in S <=> g[k] <= x
  BY <1>0
<1> HIDE DEF S, c
<1> QED
  BY <1>0, <1>3, <1>7, <1>8, <1>9

-----------------------------------------------------------------------------
(* Dropping elements of a vector.                                          *)

LEMMA NthOfRest ==
    ASSUME NEW a \in Nat, NEW b \in Nat, NEW n \in 1..(b - a + 1)
    PROVE  Nth(a..b, n) = a + n - 1
<1>1. \A k \in a..b : Cardinality({m \in a..b : m <= k}) = k - a + 1
  <2> TAKE k \in a..b
  <2>1. {m \in a..b : m <= k} = a..k
    OBVIOUS
  <2>2. k \in Int /\ a \in Int /\ ~(a > k)
    OBVIOUS
  <2>3. Cardinality(a..k) = k - a + 1
    BY <2>2, FS_Interval
  <2> QED
    BY <2>1, <2>3, Zenon
<1>2. \A k \in a..b : Cardinality({m \in a..b : m <= k}) = n <=> k = a + n - 1
  BY <1>1
<1>3. a + n - 1 \in a..b
  OBVIOUS
<1> QED
  BY <1>2, <1>3 DEF Nth

LEMMA Positions ==
    ASSUME NEW N \in Nat, NEW S \in SUBSET (1..N)
    PROVE  /\ IsFiniteSet(S) /\ Cardinality(S) \in Nat
           /\ \A k \in S : k \in 1..N /\ k \in Nat
<1>1. IsFiniteSet(1..N)
  BY FS_Interval
<1>2. IsFiniteSet(S)
  BY <1>1, FS_Subset
<1> QED
  BY <1>2, FS_CardinalityType

\* A vector has an n-th kept element for each n up to their number: to count
\* the kept elements up to one of them tells the kept elements apart.
LEMMA NthExists ==
    ASSUME NEW N \in Nat, NEW S \in SUBSET (1..N), NEW n \in 1..Cardinality(S)
    PROVE  Nth(S, n) \in S
<1> DEFINE c == Cardinality(S)
           upTo(k) == {m \in S : m <= k}
           f == [k \in S |-> Cardinality(upTo(k))]
<1>1. IsFiniteSet(S) /\ c \in Nat /\ \A k \in S : k \in Nat
  BY Positions
<1>2. \A k \in S : /\ IsFiniteSet(upTo(k)) /\ Cardinality(upTo(k)) \in 1..c
                   /\ k \in upTo(k)
  <2> TAKE k \in S
  <2>1. upTo(k) \in SUBSET S /\ k \in upTo(k)
    OBVIOUS
  <2>2. IsFiniteSet(upTo(k)) /\ Cardinality(upTo(k)) <= c
    BY <1>1, <2>1, FS_Subset
  <2>3. Cardinality(upTo(k)) \in Nat
    BY <2>2, FS_CardinalityType
  <2>4. Cardinality(upTo(k)) # 0
    BY <2>1, <2>2, FS_EmptySet
  <2> QED
    BY <1>1, <2>1, <2>2, <2>3, <2>4
<1>3. \A j, k \in S : j < k => Cardinality(upTo(j)) < Cardinality(upTo(k))
  <2> SUFFICES ASSUME NEW j \in S, NEW k \in S, j < k
               PROVE  Cardinality(upTo(j)) < Cardinality(upTo(k))
    OBVIOUS
  <2>0. j \in Nat /\ k \in Nat /\ \A m \in S : m \in Nat
    BY <1>1
  <2>1. upTo(j) \in SUBSET upTo(k) /\ k \notin upTo(j)
    <3>1. \A m \in S : m <= j => m <= k
      BY <2>0
    <3>2. ~(k <= j)
      BY <2>0
    <3> QED
      BY <3>1, <3>2, Zenon
  <2>2. Cardinality(upTo(j)) <= Cardinality(upTo(k))
    BY <1>2, <2>1, FS_Subset
  <2>3. Cardinality(upTo(j)) # Cardinality(upTo(k))
    BY <1>2, <2>1, FS_Subset
  <2>4. Cardinality(upTo(j)) \in 1..c /\ Cardinality(upTo(k)) \in 1..c
    BY <1>2
  <2> QED
    BY <1>1, <2>2, <2>3, <2>4
<1>4. f \in [S -> 1..c]
  BY <1>2
<1>5. \A j, k \in S : f[j] = f[k] => j = k
  <2> SUFFICES ASSUME NEW j \in S, NEW k \in S, f[j] = f[k], j # k PROVE FALSE
    OBVIOUS
  <2>1. Cardinality(upTo(j)) = Cardinality(upTo(k))
    OBVIOUS
  <2>2. Cardinality(upTo(j)) \in 1..c
    BY <1>2
  <2>3. j < k \/ k < j
    BY <1>1
  <2>4. ~(Cardinality(upTo(j)) < Cardinality(upTo(k)))
        /\ ~(Cardinality(upTo(k)) < Cardinality(upTo(j)))
    BY <1>1, <2>1, <2>2
  <2> HIDE DEF f, upTo
  <2> QED
    BY <1>3, <2>3, <2>4
<1>6. f \in Injection(S, 1..c)
  <2>1. DOMAIN f = S
    OBVIOUS
  <2> HIDE DEF f
  <2>2. IsInjective(f)
    BY <1>5, <2>1 DEF IsInjective
  <2> QED
    BY <1>4, <2>2 DEF Injection
<1>7. IsFiniteSet(1..c) /\ Cardinality(1..c) = c
  BY <1>1, FS_Interval
<1>8. \E k \in S : f[k] = n
  <2> HIDE DEF f
  <2>1. f \in Surjection(S, 1..c)
    BY <1>6, <1>7, FS_Injection
  <2> QED
    BY <2>1 DEF Surjection
<1>9. PICK k \in S : f[k] = n
  BY <1>8
<1>10. Cardinality({m \in S : m <= k}) = n
  BY <1>9
<1> QED
  BY <1>10 DEF Nth

\* Where nothing is dropped but the first s elements, the k-th kept is the
\* (k + s)-th, whatever is dropped behind it.
LEMMA NthBefore ==
    ASSUME NEW N \in Nat, NEW S \in SUBSET (1..N), NEW s \in {0, 1},
           NEW k \in Nat \ {0}, k + s <= N,
           \A m \in 1..(k + s) : m \in S <=> m > s
    PROVE  k <= Cardinality(S) /\ Nth(S, k) = k + s
<1> DEFINE upTo(j) == {m \in S : m <= j}
           r == (s + 1)..(k + s)
<1>1. IsFiniteSet(S) /\ Cardinality(S) \in Nat /\ \A j \in S : j \in Nat
  BY Positions
<1>2. IsFiniteSet(r) /\ Cardinality(r) = k
  <2>1. s + 1 \in Int /\ k + s \in Int /\ ~(s + 1 > k + s) /\ (k + s) - (s + 1) + 1 = k
    OBVIOUS
  <2> QED
    BY <2>1, FS_Interval
<1>3. r \in SUBSET S /\ k + s \in S
  OBVIOUS
<1>4. k <= Cardinality(S)
  BY <1>1, <1>2, <1>3, FS_Subset
<1>5. upTo(k + s) = r
  <2>1. \A m \in S : m \in Nat \ {0}
    BY <1>1
  <2>2. \A m \in S : m <= k + s => m \in r
    <3> SUFFICES ASSUME NEW m \in S, m <= k + s PROVE m \in r
      OBVIOUS
    <3>1. m \in 1..(k + s)
      BY <2>1
    <3>2. m > s
      BY <3>1
    <3> QED
      BY <3>1, <3>2
  <2>3. \A m \in r : m \in S /\ m <= k + s
    BY <1>3
  <2> HIDE DEF r
  <2> QED
    BY <2>2, <2>3
<1>6. ASSUME NEW j \in S, Cardinality(upTo(j)) = k PROVE j = k + s
  <2>1. CASE j < k + s
    <3>1. upTo(j) \in SUBSET (r \ {k + s})
      <4>1. upTo(j) \in SUBSET upTo(k + s) /\ k + s \notin upTo(j)
        <5>1. j \in Nat /\ k + s \in Nat /\ \A m \in S : m \in Nat
          BY <1>1
        <5>2. \A m \in S : m <= j => m <= k + s
          BY <2>1, <5>1
        <5>3. ~(k + s <= j)
          BY <2>1, <5>1
        <5> QED
          BY <5>2, <5>3, Zenon
      <4> HIDE DEF upTo, r
      <4> QED
        BY <1>5, <4>1
    <3>2. /\ IsFiniteSet(r \ {k + s})
          /\ Cardinality(r \ {k + s}) = k - 1
      <4>1. k + s \in r
        OBVIOUS
      <4> HIDE DEF r
      <4> QED
        BY <1>2, <4>1, FS_RemoveElement
    <3>3. Cardinality(upTo(j)) <= k - 1
      BY <3>1, <3>2, FS_Subset
    <3> HIDE DEF upTo
    <3> QED
      BY <1>6, <3>3
  <2>2. CASE j > k + s
    <3>1. r \cup {j} \in SUBSET upTo(j) /\ j \notin r
      BY <1>3, <2>2
    <3>2. Cardinality(r \cup {j}) = k + 1
      BY <1>2, <3>1, FS_AddElement
    <3>3. IsFiniteSet(upTo(j))
      <4>1. upTo(j) \in SUBSET S
        OBVIOUS
      <4> QED
        BY <1>1, <4>1, FS_Subset
    <3>4. k + 1 <= Cardinality(upTo(j))
      BY <3>1, <3>2, <3>3, FS_Subset
    <3> HIDE DEF upTo, r
    <3> QED
      BY <1>6, <3>4
  <2>3. j \in Int /\ k + s \in Int
    OBVIOUS
  <2> QED
    BY <2>1, <2>2, <2>3
<1>7. k + s \in S /\ Cardinality({m \in S : m <= k + s}) = k
  BY <1>2, <1>3, <1>5
<1>8. \A j \in S : Cardinality({m \in S : m <= j}) = k => j = k + s
  BY <1>6
<1> HIDE DEF upTo, r
<1>9. Nth(S, k) = k + s
  BY <1>7, <1>8 DEF Nth
<1> QED
  BY <1>4, <1>9

\* What is kept when the elements before the a-th are dropped.
LEMMA AtRest ==
    ASSUME NEW T, NEW v \in Seq(T), NEW a \in {1, 2}, a <= Len(v) + 1
    PROVE  /\ At(v, a..Len(v)) \in Seq(T)
           /\ Len(At(v, a..Len(v))) = Len(v) - a + 1
           /\ \A n \in 1..(Len(v) - a + 1) : At(v, a..Len(v))[n] = v[a + n - 1]
<1> DEFINE w == At(v, a..Len(v))
           N == Len(v) - a + 1
<1>1. Len(v) \in Nat /\ \A k \in 1..Len(v) : v[k] \in T
  OBVIOUS
<1>2. Cardinality(a..Len(v)) = N /\ N \in Nat
  BY <1>1, FS_Interval
<1>3. w = [n \in 1..N |-> v[Nth(a..Len(v), n)]]
  BY <1>2 DEF At
<1>4. \A n \in 1..N : Nth(a..Len(v), n) = a + n - 1
  BY <1>1, NthOfRest
<1>5. \A n \in 1..N : v[Nth(a..Len(v), n)] = v[a + n - 1] /\ v[a + n - 1] \in T
  BY <1>1, <1>4
<1>6. w \in [1..N -> T] /\ \A n \in 1..N : w[n] = v[a + n - 1]
  BY <1>3, <1>5
<1> HIDE DEF w, N
<1>7. w \in Seq(T) /\ Len(w) = N
  BY <1>2, <1>6
<1> QED
  BY <1>6, <1>7 DEF w, N

-----------------------------------------------------------------------------
(* The observations.                                                       *)

LEMMA AskFacts ==
    ASSUME ask \in Asks
    PROVE  /\ ask.mat \in Nat \ {0} /\ ask.start \in Nat /\ ask.start < ask.mat
           /\ ask.expiries \in Grids /\ ask.tenors \in Grids
  BY GridAssumption DEF Asks

\* Six increments make the swaption's life or, when it is longer than six
\* years, an increment is a year.
LEMMA TimeFacts ==
    ASSUME ask \in Asks
    PROVE  /\ matYears \in Nat /\ expYears \in Nat /\ matYears - expYears \in Nat
           /\ increment \in 1..6 /\ numObs \in Nat /\ numObs >= 7
<1>1. ask.mat \in Nat \ {0} /\ ask.start \in Nat /\ ask.start < ask.mat
  BY AskFacts
<1>2. /\ matYears = 6 * ask.mat /\ expYears = 6 * ask.start
      /\ (6 * ask.mat) \div 6 = ask.mat
  BY <1>1 DEF matYears, expYears, Year
<1>0. matYears \in Nat /\ expYears \in Nat /\ matYears - expYears \in Nat
  BY <1>1, <1>2
<1>3. CASE ask.mat < 6
  <2>1. increment = ask.mat
    BY <1>2, <1>3 DEF increment, Year
  <2>2. numObs = (6 * ask.mat) \div ask.mat + 1
    BY <1>2, <2>1 DEF numObs
  <2>3. ask.mat = 1 \/ ask.mat = 2 \/ ask.mat = 3 \/ ask.mat = 4 \/ ask.mat = 5
    BY <1>1, <1>3
  <2>4. (6 * ask.mat) \div ask.mat = 6
    BY <2>3
  <2> QED
    BY <1>0, <1>1, <1>3, <2>1, <2>2, <2>4
<1>4. CASE ask.mat >= 6
  <2>1. increment = 6
    BY <1>1, <1>2, <1>4 DEF increment, Year
  <2>2. numObs = ask.mat + 1
    BY <1>2, <2>1 DEF numObs
  <2> QED
    BY <1>0, <1>1, <1>4, <2>1, <2>2
<1> QED
  BY <1>1, <1>3, <1>4

\* What every observation that finds a quote is near to.
LEMMA FirstFound ==
    ASSUME ask \in Asks, OnGrid
    PROVE  /\ ClosestRow \in 1..Len(ask.expiries)
           /\ ClosestColumn \in 1..Len(ask.tenors)
           /\ ask.expiries[ClosestRow] <= expYears
           /\ ask.tenors[ClosestColumn] <= matYears - expYears
           /\ \A k \in 1..Len(ask.expiries) :
                ask.expiries[k] <= expYears => k <= ClosestRow
           /\ \A k \in 1..Len(ask.tenors) :
                ask.tenors[k] <= matYears - expYears => k <= ClosestColumn
<1>1. ask.expiries \in Grids /\ ask.tenors \in Grids
  BY AskFacts
<1>2. expYears \in Int /\ matYears - expYears \in Int
  BY TimeFacts
<1>3. ClosestRow \in 1..Len(ask.expiries) /\ ClosestColumn \in 1..Len(ask.tenors)
  <2>1. Len(ask.expiries) \in Nat /\ Len(ask.tenors) \in Nat
    BY <1>1, GridFacts
  <2>2. ClosestRow \in 0..Len(ask.expiries)
    BY <1>1, <1>2, IntervalFacts DEF ClosestRow
  <2>3. ClosestColumn \in 0..Len(ask.tenors)
    BY <1>1, <1>2, IntervalFacts DEF ClosestColumn
  <2>4. ClosestRow > 0 /\ ClosestColumn > 0
    BY DEF OnGrid
  <2> QED
    BY <2>1, <2>2, <2>3, <2>4
<1>4. /\ ask.expiries[ClosestRow] <= expYears
      /\ \A k \in 1..Len(ask.expiries) :
           ask.expiries[k] <= expYears => k <= ClosestRow
  <2>1. \A k \in 1..Len(ask.expiries) :
          k <= ClosestRow <=> ask.expiries[k] <= expYears
    BY <1>1, <1>2, IntervalFacts DEF ClosestRow
  <2>2. ClosestRow <= ClosestRow
    BY <1>3
  <2> QED
    BY <1>3, <2>1, <2>2
<1>5. /\ ask.tenors[ClosestColumn] <= matYears - expYears
      /\ \A k \in 1..Len(ask.tenors) :
           ask.tenors[k] <= matYears - expYears => k <= ClosestColumn
  <2>1. \A k \in 1..Len(ask.tenors) :
          k <= ClosestColumn <=> ask.tenors[k] <= matYears - expYears
    BY <1>1, <1>2, IntervalFacts DEF ClosestColumn
  <2>2. ClosestColumn <= ClosestColumn
    BY <1>3
  <2> QED
    BY <1>3, <2>1, <2>2
<1> QED
  BY <1>3, <1>4, <1>5

LEMMA NextFound ==
    ASSUME ask \in Asks, NEW n \in Nat, n >= 2
    PROVE  /\ ExpiryRow(n) \in 0..Len(ask.expiries)
           /\ ExpiryRow(n) > 0 =>
                /\ TenorColumn(n) \in 1..Len(ask.tenors)
                /\ ask.expiries[ExpiryRow(n)] <= n * increment
                /\ \/ ask.tenors[TenorColumn(n)] <= matYears - (n - 1) * increment
                   \/ TenorColumn(n) = 1
           /\ ExpiryRow(n) = 0 <=> n * increment < ask.expiries[1]
<1>1. ask.expiries \in Grids /\ ask.tenors \in Grids
  BY AskFacts
<1>2. /\ Len(ask.expiries) \in Nat \ {0} /\ Len(ask.tenors) \in Nat \ {0}
      /\ ask.expiries[1] \in Nat
  BY <1>1, GridFacts
<1> DEFINE x == n * increment
           y == matYears - (n - 1) * increment
           c == findInterval(y, ask.tenors)
<1>3. x \in Int /\ y \in Int
  BY TimeFacts
<1> HIDE DEF x, y
<1>4. /\ ExpiryRow(n) \in 0..Len(ask.expiries)
      /\ \A k \in 1..Len(ask.expiries) : k <= ExpiryRow(n) <=> ask.expiries[k] <= x
  BY <1>1, <1>3, IntervalFacts DEF ExpiryRow, x
<1>5. /\ c \in 0..Len(ask.tenors)
      /\ \A k \in 1..Len(ask.tenors) : k <= c <=> ask.tenors[k] <= y
  BY <1>1, <1>3, IntervalFacts
<1>6. TenorColumn(n) = IF c > 0 /\ ExpiryRow(n) > 0 THEN c ELSE c + 1
  BY DEF TenorColumn, y
<1> HIDE DEF c
<1>7. ExpiryRow(n) = 0 <=> x < ask.expiries[1]
  BY <1>2, <1>3, <1>4
<1>8. ASSUME ExpiryRow(n) > 0
      PROVE  /\ TenorColumn(n) \in 1..Len(ask.tenors)
             /\ ask.expiries[ExpiryRow(n)] <= x
             /\ ask.tenors[TenorColumn(n)] <= y \/ TenorColumn(n) = 1
  BY <1>2, <1>4, <1>5, <1>6, <1>8
<1> QED
  BY <1>4, <1>7, <1>8 DEF x, y

-----------------------------------------------------------------------------
(* The call.                                                               *)

\* The k-th entries of expiry and tenor are those of the n-th observation, and
\* the k-th volatility is the one it found.
Observed(k, n) ==
    /\ Row(n) \in 1..Len(ask.expiries) /\ Column(n) \in 1..Len(ask.tenors)
    /\ expiry[k] = ask.expiries[Row(n)] /\ tenor[k] = ask.tenors[Column(n)]
Quoted(k, n) == vol[k] = <<Row(n), Column(n)>>

\* The second observation lies above the first row.
Short == 2 * increment < ask.expiries[1]

\* What the loop has found so far, what is left of it when zeros are dropped
\* and the rest is cut off, and what is made of that.
Typed ==
    /\ fun \in Funs /\ ask \in Asks /\ i \in 1..(numObs + 1)
    /\ expiry \in Seq(Nat) /\ tenor \in Seq(Nat) /\ vol \in Seq(Cells)
    /\ reply \in Replies \ {"null"}
Searching ==
    reply = "searching" =>
        /\ Len(expiry) = i - 1 /\ Len(tenor) = i - 1 /\ Len(vol) = i - 1
        /\ i > 1 /\ ~OnGrid => expiry[1] = 0 /\ tenor[1] = 0 /\ vol[1] = NoQuote
        /\ \A n \in 1..(i - 1) : n > Skipped => Observed(n, n) /\ Quoted(n, n)
        /\ Fits /\ i > 2 => ~Short
Chosen ==
    reply \in {"chosen", "calibrated"} =>
        /\ Len(expiry) = Needed /\ Len(tenor) = Needed /\ Len(vol) = Needed
        /\ \A k \in 1..Needed : Observed(k, k + Skipped)
        /\ \A k \in 1..Needed : ZeroAmong(k + Skipped) \/ Quoted(k, k + Skipped)
        /\ Fits => ~Short
Calibrated ==
    /\ reply \in {"searching", "chosen"} => helpers = <<>>
    /\ reply = "calibrated" =>
         helpers = IF fun = "AffineSwaption"
                   THEN [k \in 1..Len(vol) |-> [expiry |-> Years(expiry[k]),
                            tenor |-> Years(tenor[k]), quote |-> vol[k]]]
                   ELSE [k \in 1..Len(ask.expiries) |-> HelperAt(k)]
    /\ Fits /\ reply = "error" /\ helpers = <<>> => Short
Inv == Typed /\ Searching /\ Chosen /\ Calibrated

\* The arguments stay the same, and all that is computed from them.
LEMMA SameAsk ==
    ASSUME ask' = ask
    PROVE  /\ \A n : Row(n)' = Row(n) /\ Column(n)' = Column(n)
           /\ numObs' = numObs /\ Skipped' = Skipped
           /\ \A n : ZeroAmong(n)' <=> ZeroAmong(n)
           /\ OnGrid' <=> OnGrid
           /\ Fits' <=> Fits
           /\ Short' <=> Short
           /\ \A k : HelperAt(k)' = HelperAt(k)
<1>1. /\ matYears' = matYears /\ expYears' = expYears /\ increment' = increment
      /\ numObs' = numObs
  BY DEF matYears, expYears, increment, numObs
<1>2. \A n : Row(n)' = Row(n) /\ Column(n)' = Column(n)
  BY <1>1 DEF Row, Column, ClosestRow, ClosestColumn, ExpiryRow, TenorColumn
<1>3. OnGrid' <=> OnGrid
  BY <1>1 DEF OnGrid, ClosestRow, ClosestColumn
<1>4. rows' = rows /\ cols' = cols
  BY DEF rows, cols
<1>5. \A k : HelperAt(k)' = HelperAt(k)
  BY <1>4 DEF HelperAt, InMatrix, Diagonal
<1>6. Skipped' = Skipped
  BY <1>3 DEF Skipped
<1>7. \A n : ZeroAmong(n)' <=> ZeroAmong(n)
  BY <1>2, <1>6 DEF ZeroAmong
<1> QED
  BY <1>1, <1>2, <1>3, <1>4, <1>5, <1>6, <1>7 DEF Fits, Short

LEMMA SameObserved ==
    ASSUME NEW k, NEW m, NEW n, ask' = ask
    PROVE  /\ Observed(k, n) /\ expiry'[m] = expiry[k] /\ tenor'[m] = tenor[k]
                => Observed(m, n)'
           /\ Quoted(k, n) /\ vol'[m] = vol[k] => Quoted(m, n)'
  BY SameAsk DEF Observed, Quoted

\* An observation put at the end of the three vectors.
LEMMA PutKeeps ==
    ASSUME Inv, reply = "searching", NEW e \in Nat, NEW t \in Nat, NEW v \in Cells,
           Put(e, t, v)
    PROVE  /\ expiry' \in Seq(Nat) /\ tenor' \in Seq(Nat) /\ vol' \in Seq(Cells)
           /\ Len(expiry') = i /\ Len(tenor') = i /\ Len(vol') = i
           /\ \A k \in 1..(i - 1) :
                expiry'[k] = expiry[k] /\ tenor'[k] = tenor[k] /\ vol'[k] = vol[k]
           /\ expiry'[i] = e /\ tenor'[i] = t /\ vol'[i] = v
<1>1. /\ expiry \in Seq(Nat) /\ tenor \in Seq(Nat) /\ vol \in Seq(Cells)
      /\ Len(expiry) = i - 1 /\ Len(tenor) = i - 1 /\ Len(vol) = i - 1
      /\ i \in 1..(numObs + 1) /\ numObs \in Nat
  BY TimeFacts DEF Inv, Typed, Searching
<1>2. i \in Nat /\ (i - 1) + 1 = i
  BY <1>1
<1>3. /\ expiry' = Append(expiry, e) /\ tenor' = Append(tenor, t) /\ vol' = Append(vol, v)
  BY DEF Put
<1>4. /\ expiry' \in Seq(Nat) /\ Len(expiry') = i /\ expiry'[i] = e
      /\ \A k \in 1..(i - 1) : expiry'[k] = expiry[k]
  BY <1>1, <1>2, <1>3, AppendProperties
<1>5. /\ tenor' \in Seq(Nat) /\ Len(tenor') = i /\ tenor'[i] = t
      /\ \A k \in 1..(i - 1) : tenor'[k] = tenor[k]
  BY <1>1, <1>2, <1>3, AppendProperties
<1>6. /\ vol' \in Seq(Cells) /\ Len(vol') = i /\ vol'[i] = v
      /\ \A k \in 1..(i - 1) : vol'[k] = vol[k]
  BY <1>1, <1>2, <1>3, AppendProperties
<1> QED
  BY <1>4, <1>5, <1>6

LEMMA InvInit == Init => Inv
<1> SUFFICES ASSUME Init PROVE Inv
  OBVIOUS
<1>1. /\ fun \in Funs /\ ask \in Asks /\ i = 1 /\ reply = "searching" /\ helpers = <<>>
      /\ expiry = <<>> /\ tenor = <<>> /\ vol = <<>>
  BY DEF Init
<1>2. numObs \in Nat
  BY <1>1, TimeFacts
<1> QED
  BY <1>1, <1>2 DEF Inv, Typed, Searching, Chosen, Calibrated, Replies

LEMMA ClosestStep ==
    ASSUME Inv, SelectClosest
    PROVE  Inv'
<1>1. /\ reply = "searching" /\ reply' = reply /\ i = 1 /\ i' = 2
      /\ UNCHANGED <<fun, ask, helpers>>
  BY DEF SelectClosest, given
<1>2. ask \in Asks /\ numObs \in Nat /\ numObs >= 7
  BY TimeFacts DEF Inv, Typed
<1>3. CASE OnGrid
  <2>1. /\ ClosestRow \in 1..Len(ask.expiries) /\ ClosestColumn \in 1..Len(ask.tenors)
        /\ ask.expiries[ClosestRow] \in Nat /\ ask.tenors[ClosestColumn] \in Nat
    BY <1>2, <1>3, FirstFound, AskFacts, GridFacts
  <2>2. <<ClosestRow, ClosestColumn>> \in Cells
    BY <1>2, <2>1, AskFacts, GridFacts DEF Cells
  <2>3. Put(ask.expiries[ClosestRow], ask.tenors[ClosestColumn],
            <<ClosestRow, ClosestColumn>>)
    BY <1>3 DEF SelectClosest
  <2>4. /\ expiry' \in Seq(Nat) /\ tenor' \in Seq(Nat) /\ vol' \in Seq(Cells)
        /\ Len(expiry') = 1 /\ Len(tenor') = 1 /\ Len(vol') = 1
        /\ expiry'[1] = ask.expiries[ClosestRow]
        /\ tenor'[1] = ask.tenors[ClosestColumn]
        /\ vol'[1] = <<ClosestRow, ClosestColumn>>
    BY <1>1, <2>1, <2>2, <2>3, PutKeeps
  <2>5. Observed(1, 1)' /\ Quoted(1, 1)'
    <3>1. Row(1) = ClosestRow /\ Column(1) = ClosestColumn
      BY DEF Row, Column
    <3> QED
      BY <1>1, <2>1, <2>4, <3>1, SameAsk DEF Observed, Quoted
  <2> QED
    BY <1>1, <1>2, <1>3, <2>4, <2>5, SameAsk
    DEF Inv, Typed, Searching, Chosen, Calibrated
<1>4. CASE ~OnGrid
  <2>1. Put(0, 0, NoQuote) /\ NoQuote \in Cells
    BY <1>4 DEF SelectClosest, Cells
  <2>2. /\ expiry' \in Seq(Nat) /\ tenor' \in Seq(Nat) /\ vol' \in Seq(Cells)
        /\ Len(expiry') = 1 /\ Len(tenor') = 1 /\ Len(vol') = 1
        /\ expiry'[1] = 0 /\ tenor'[1] = 0 /\ vol'[1] = NoQuote
    BY <1>1, <2>1, PutKeeps
  <2>3. Skipped = 1
    BY <1>4 DEF Skipped
  <2> QED
    BY <1>1, <1>2, <1>4, <2>2, <2>3, SameAsk
    DEF Inv, Typed, Searching, Chosen, Calibrated
<1> QED
  BY <1>3, <1>4

LEMMA NextStep ==
    ASSUME Inv, SelectNext
    PROVE  Inv'
<1>1. /\ reply = "searching" /\ reply' = reply /\ i \in 2..numObs /\ i' = i + 1
      /\ UNCHANGED <<fun, ask, helpers>>
      /\ InMatrix(ExpiryRow(i), TenorColumn(i))
      /\ Put(ask.expiries[ExpiryRow(i)], ask.tenors[TenorColumn(i)],
             <<ExpiryRow(i), TenorColumn(i)>>)
  BY DEF SelectNext, given
<1>2. ask \in Asks /\ numObs \in Nat /\ numObs >= 7 /\ i \in Nat /\ i >= 2
  BY <1>1, TimeFacts DEF Inv, Typed
<1>3. ExpiryRow(i) \in 1..Len(ask.expiries) /\ TenorColumn(i) \in 1..Len(ask.tenors)
  <2>1. ExpiryRow(i) \in 0..Len(ask.expiries) /\ Len(ask.expiries) \in Nat
    BY <1>2, NextFound, AskFacts, GridFacts
  <2>2. ExpiryRow(i) # 0
    BY <1>1 DEF InMatrix
  <2> QED
    BY <1>2, <2>1, <2>2, NextFound
<1>4. /\ ask.expiries[ExpiryRow(i)] \in Nat /\ ask.tenors[TenorColumn(i)] \in Nat
      /\ <<ExpiryRow(i), TenorColumn(i)>> \in Cells
  <2>1. ask.expiries[ExpiryRow(i)] \in Nat /\ ask.tenors[TenorColumn(i)] \in Nat
    BY <1>2, <1>3, AskFacts, GridFacts
  <2>2. Len(ask.expiries) \in Nat /\ Len(ask.tenors) \in Nat
    BY <1>2, AskFacts, GridFacts
  <2>3. ExpiryRow(i) \in Nat /\ TenorColumn(i) \in Nat
    BY <1>3, <2>2
  <2>4. <<ExpiryRow(i), TenorColumn(i)>> \in Cells
    BY <2>3 DEF Cells
  <2> QED
    BY <2>1, <2>4
<1>5. /\ expiry' \in Seq(Nat) /\ tenor' \in Seq(Nat) /\ vol' \in Seq(Cells)
      /\ Len(expiry') = i /\ Len(tenor') = i /\ Len(vol') = i
      /\ \A k \in 1..(i - 1) :
           expiry'[k] = expiry[k] /\ tenor'[k] = tenor[k] /\ vol'[k] = vol[k]
      /\ expiry'[i] = ask.expiries[ExpiryRow(i)]
      /\ tenor'[i] = ask.tenors[TenorColumn(i)]
      /\ vol'[i] = <<ExpiryRow(i), TenorColumn(i)>>
  BY <1>1, <1>4, PutKeeps
<1>6. ASSUME NEW n \in Nat, n = i PROVE Observed(n, n)' /\ Quoted(n, n)'
  <2>1. Row(n) = ExpiryRow(i) /\ Column(n) = TenorColumn(i)
    BY <1>2, <1>6 DEF Row, Column
  <2> QED
    BY <1>1, <1>3, <1>5, <1>6, <2>1, SameAsk DEF Observed, Quoted
<1>7. \A n \in 1..i : n > Skipped => Observed(n, n)' /\ Quoted(n, n)'
  <2> SUFFICES ASSUME NEW n \in 1..i, n > Skipped
               PROVE  Observed(n, n)' /\ Quoted(n, n)'
    OBVIOUS
  <2>1. CASE n = i
    BY <1>6, <2>1
  <2>2. CASE n # i
    <3>1. n \in 1..(i - 1)
      BY <1>2, <2>2
    <3>2. Observed(n, n) /\ Quoted(n, n)
      BY <1>1, <3>1 DEF Inv, Searching
    <3> QED
      BY <1>1, <1>5, <3>1, <3>2, SameObserved
  <2> QED
    BY <2>1, <2>2
<1>8. ~OnGrid => expiry'[1] = 0 /\ tenor'[1] = 0 /\ vol'[1] = NoQuote
  <2>1. 1 \in 1..(i - 1) /\ i > 1
    BY <1>2
  <2> QED
    BY <1>1, <1>5, <2>1 DEF Inv, Searching
<1>9. Fits => ~Short
  <2>1. CASE i = 2
    <3>1. ask \in Asks
      BY DEF Inv, Typed
    <3>2. ExpiryRow(2) = 0 <=> 2 * increment < ask.expiries[1]
      BY <3>1, NextFound
    <3>3. ExpiryRow(2) > 0
      BY <1>3, <2>1
    <3> QED
      BY <3>2, <3>3 DEF Short
  <2>2. CASE i # 2
    BY <1>1, <1>2, <2>2 DEF Inv, Searching
  <2> QED
    BY <2>1, <2>2
<1> QED
  <2>1. /\ i' \in 1..(numObs + 1) /\ i' - 1 = i /\ i' > 1
    BY <1>1, <1>2
  <2>2. Typed'
    BY <1>1, <1>5, <2>1, SameAsk DEF Inv, Typed
  <2>3. Searching'
    BY <1>1, <1>5, <1>7, <1>8, <1>9, <2>1, SameAsk DEF Searching
  <2>4. Chosen' /\ Calibrated'
    BY <1>1, SameAsk DEF Inv, Chosen, Calibrated
  <2> QED
    BY <2>2, <2>3, <2>4 DEF Inv

\* Whatever stops the search, in a matrix of the right shape it is a second
\* observation above the first row.
LEMMA FailStep ==
    ASSUME Inv, ClosestFails \/ NextFails
    PROVE  Inv'
<1>1. /\ reply = "searching" /\ reply' = "error"
      /\ UNCHANGED <<fun, ask, i, expiry, tenor, vol, helpers>>
  BY DEF ClosestFails, NextFails, Stop, given, vectors
<1>2. ask \in Asks /\ numObs \in Nat /\ i \in 1..(numObs + 1)
  BY TimeFacts DEF Inv, Typed
<1>3. ASSUME Fits PROVE Short
  <2>1. /\ rows = Len(ask.expiries) /\ cols = Len(ask.tenors)
        /\ Len(ask.expiries) \in Nat /\ Len(ask.tenors) \in Nat
        /\ ask.expiries[1] \in Nat
    BY <1>2, <1>3, AskFacts, GridFacts DEF Fits
  <2>2. ~ClosestFails
    BY <1>2, <2>1, FirstFound DEF ClosestFails, InMatrix
  <2>3. /\ i \in Nat /\ i >= 2
        /\ ~InMatrix(ExpiryRow(i), TenorColumn(i))
    BY <1>2, <2>2 DEF NextFails
  <2>4. ExpiryRow(i) = 0
    <3>1. ExpiryRow(i) \in 0..Len(ask.expiries)
      BY <1>2, <2>3, NextFound
    <3>2. ExpiryRow(i) > 0 => TenorColumn(i) \in 1..Len(ask.tenors)
      BY <1>2, <2>3, NextFound
    <3> QED
      BY <2>1, <2>3, <3>1, <3>2 DEF InMatrix
  <2>5. i * increment < ask.expiries[1]
    BY <1>2, <2>3, <2>4, NextFound
  <2>6. 2 * increment <= i * increment
    BY <1>2, <2>3, TimeFacts, Z3
  <2>7. increment \in Nat
    BY <1>2, TimeFacts
  <2>8. i * increment \in Int
    BY <2>3, <2>7
  <2> HIDE DEF Fits
  <2> QED
    BY <2>1, <2>5, <2>6, <2>7, <2>8 DEF Short
<1> QED
  BY <1>1, <1>3, SameAsk
  DEF Inv, Typed, Searching, Chosen, Calibrated, Replies

LEMMA Few ==
    ASSUME NEW T, NEW v \in Seq(T), Len(v) >= 6
    PROVE  /\ FirstFew(v) \in Seq(T) /\ Len(FirstFew(v)) = Needed
           /\ \A k \in 1..Needed : FirstFew(v)[k] = v[k]
<1>1. Len(v) \in Nat /\ Needed \in 1..6
  BY GridAssumption
<1>2. FirstFew(v) = SubSeq(v, 1, Needed)
  BY <1>1 DEF FirstFew
<1> QED
  BY <1>1, <1>2, SubSeqProperties

\* Each vector loses its first element or nothing, and then keeps the first
\* few.
LEMMA KeptOf ==
    ASSUME NEW T, NEW v \in Seq(T), NEW s \in {0, 1}, Len(v) >= 7
    PROVE  LET w == At(v, (s + 1)..Len(v))
           IN  /\ Len(w) \in Nat /\ Len(w) >= 6
               /\ Len(FirstFew(w)) = Needed /\ FirstFew(w) \in Seq(T)
               /\ \A k \in 1..Needed : FirstFew(w)[k] = v[k + s]
<1> DEFINE w == At(v, (s + 1)..Len(v))
<1>1. Len(v) \in Nat /\ Needed \in 1..6
  BY GridAssumption
<1>2. s + 1 \in {1, 2} /\ s + 1 <= Len(v) + 1
  BY <1>1
<1>3. /\ w \in Seq(T)
      /\ Len(w) = Len(v) - (s + 1) + 1
      /\ \A n \in 1..(Len(v) - (s + 1) + 1) : w[n] = v[(s + 1) + n - 1]
  BY <1>2, AtRest
<1> HIDE DEF w
<1>4. Len(v) - (s + 1) + 1 = Len(v) - s
  BY <1>1
<1>5. \A n \in 1..(Len(v) - s) : (s + 1) + n - 1 = n + s
  BY <1>1
<1>6. Len(w) \in Nat /\ Len(w) >= 6
  BY <1>1, <1>3, <1>4
<1>7. /\ FirstFew(w) \in Seq(T) /\ Len(FirstFew(w)) = Needed
      /\ \A k \in 1..Needed : FirstFew(w)[k] = w[k]
  BY <1>3, <1>6, Few
<1>8. \A k \in 1..Needed : k \in 1..(Len(v) - s)
  BY <1>1
<1> QED
  BY <1>3, <1>4, <1>5, <1>6, <1>7, <1>8 DEF w

\* The volatilities that go on: as many as are needed, and the k-th of them is
\* the (k + s)-th observed if up to there only the first s were dropped.
LEMMA FilledOf ==
    ASSUME NEW v \in Seq(Cells), NEW s \in {0, 1}
    PROVE  /\ Filled(Quotes(v)) \in Seq(Cells) /\ Len(Filled(Quotes(v))) = Needed
           /\ \A k \in 1..Needed :
                /\ k + s <= Len(v)
                /\ \A m \in 1..(k + s) : Positive(v[m]) <=> m > s
                => Filled(Quotes(v))[k] = v[k + s]
<1> DEFINE S == {k \in DOMAIN v : Positive(v[k])}
           w == Quotes(v)
<1>1. /\ Len(v) \in Nat /\ DOMAIN v = 1..Len(v) /\ \A k \in 1..Len(v) : v[k] \in Cells
      /\ Needed \in 1..6
  BY GridAssumption
<1>2. S \in SUBSET (1..Len(v)) /\ Cardinality(S) \in Nat
  <2>1. S \in SUBSET (1..Len(v))
    BY <1>1
  <2> HIDE DEF S
  <2> QED
    BY <1>1, <2>1, Positions
<1>3. w = [n \in 1..Cardinality(S) |-> v[Nth(S, n)]]
  BY DEF Quotes, At
<1>4. \A n \in 1..Cardinality(S) : v[Nth(S, n)] \in Cells
  <2> TAKE n \in 1..Cardinality(S)
  <2>1. Nth(S, n) \in S
    BY <1>1, <1>2, NthExists
  <2> QED
    BY <1>1, <1>2, <2>1
<1>5. \A k \in 1..Needed, m \in 1..(Len(v) + 1) : m = k + s => m \in Nat
  BY <1>1
<1> HIDE DEF S
<1>6. Len(w) = Cardinality(S) /\ \A n \in 1..Len(w) : w[n] \in Cells
  BY <1>2, <1>3, <1>4
<1> HIDE DEF w
<1>7. Filled(w) = [k \in 1..Needed |-> IF k <= Len(w) THEN w[k] ELSE NoQuote]
  BY DEF Filled
<1>8. NoQuote \in Cells
  BY DEF Cells
<1>9. /\ Filled(w) \in [1..Needed -> Cells]
      /\ \A k \in 1..Needed : k <= Len(w) => Filled(w)[k] = w[k]
  <2> SUFFICES ASSUME NEW k \in 1..Needed
               PROVE  (IF k <= Len(w) THEN w[k] ELSE NoQuote) \in Cells
    BY <1>7
  <2>1. CASE k <= Len(w)
    <3>1. k \in 1..Len(w)
      BY <1>1, <1>2, <1>6, <2>1
    <3> QED
      BY <1>6, <2>1, <3>1
  <2>2. CASE ~(k <= Len(w))
    BY <1>8, <2>2
  <2> QED
    BY <2>1, <2>2
<1>10. Filled(w) \in Seq(Cells) /\ Len(Filled(w)) = Needed
  BY <1>1, <1>9
<1>11. ASSUME NEW k \in 1..Needed, k + s <= Len(v),
              \A m \in 1..(k + s) : Positive(v[m]) <=> m > s
       PROVE  Filled(w)[k] = v[k + s]
  <2>1. \A m \in 1..(k + s) : m \in S <=> m > s
    BY <1>1, <1>11 DEF S
  <2>2. k \in Nat \ {0}
    BY <1>1
  <2>3. k <= Cardinality(S) /\ Nth(S, k) = k + s
    <3>1. Len(v) \in Nat /\ S \in SUBSET (1..Len(v)) /\ k + s <= Len(v)
      BY <1>1, <1>2, <1>11
    <3> QED
      BY <1>2, <2>1, <2>2, <3>1, NthBefore
  <2>4. k \in 1..Cardinality(S) /\ k <= Len(w)
    BY <1>2, <1>6, <2>2, <2>3
  <2> QED
    BY <1>3, <1>9, <2>3, <2>4 DEF w
<1> QED
  BY <1>10, <1>11 DEF w

LEMMA GatherStep ==
    ASSUME Inv, Gather
    PROVE  Inv'
<1>1. /\ reply = "searching" /\ i > numObs
      /\ UNCHANGED <<fun, ask, i, helpers>>
      /\ reply' = IF Len(NonZero(expiry)) < Needed THEN "null" ELSE "chosen"
      /\ expiry' = FirstFew(NonZero(expiry))
      /\ tenor' = FirstFew(NonZero(tenor))
      /\ vol' = Filled(Quotes(vol))
  BY DEF Gather, given
<1>2. /\ ask \in Asks /\ numObs \in Nat /\ numObs >= 7 /\ i - 1 = numObs /\ i \in Nat
      /\ Needed \in 1..6
  <2>1. ask \in Asks /\ i \in 1..(numObs + 1)
    BY DEF Inv, Typed
  <2>2. numObs \in Nat /\ numObs >= 7
    BY <2>1, TimeFacts
  <2> QED
    BY <1>1, <2>1, <2>2, GridAssumption
<1>3. /\ expiry \in Seq(Nat) /\ tenor \in Seq(Nat) /\ vol \in Seq(Cells)
      /\ Len(expiry) = numObs /\ Len(tenor) = numObs /\ Len(vol) = numObs
      /\ \A n \in 1..numObs : n > Skipped => Observed(n, n) /\ Quoted(n, n)
  BY <1>1, <1>2 DEF Inv, Typed, Searching
<1>0. Skipped \in {0, 1}
  BY DEF Skipped
<1>4. /\ Skipped \in {0, 1}
      /\ Skipped = 1 => expiry[1] = 0 /\ tenor[1] = 0 /\ vol[1] = NoQuote
  BY <1>1, <1>2 DEF Skipped, Inv, Searching
<1>5. \A n \in 1..numObs : n > Skipped => expiry[n] # 0 /\ tenor[n] # 0
  <2> SUFFICES ASSUME NEW n \in 1..numObs, n > Skipped
               PROVE  expiry[n] # 0 /\ tenor[n] # 0
    OBVIOUS
  <2>1. /\ Row(n) \in 1..Len(ask.expiries) /\ Column(n) \in 1..Len(ask.tenors)
        /\ expiry[n] = ask.expiries[Row(n)] /\ tenor[n] = ask.tenors[Column(n)]
    BY <1>3 DEF Observed
  <2> QED
    BY <1>2, <2>1, AskFacts, GridFacts
<1>6. /\ Len(NonZero(expiry)) >= 6 /\ Len(NonZero(expiry)) \in Nat
      /\ expiry' \in Seq(Nat) /\ Len(expiry') = Needed
      /\ \A k \in 1..Needed : expiry'[k] = expiry[k + Skipped]
  <2> DEFINE w == At(expiry, (Skipped + 1)..Len(expiry))
  <2>1. {k \in DOMAIN expiry : expiry[k] # 0} = (Skipped + 1)..Len(expiry)
    <3>1. DOMAIN expiry = 1..numObs /\ Len(expiry) = numObs
      BY <1>3
    <3>2. \A k \in 1..numObs : expiry[k] # 0 <=> k > Skipped
      BY <1>2, <1>4, <1>5
    <3> QED
      BY <1>2, <1>4, <3>1, <3>2
  <2>2. w = NonZero(expiry)
    BY <2>1 DEF NonZero
  <2>3. expiry \in Seq(Nat) /\ Len(expiry) >= 7
    BY <1>2, <1>3
  <2>4. /\ Len(w) \in Nat /\ Len(w) >= 6
        /\ Len(FirstFew(w)) = Needed /\ FirstFew(w) \in Seq(Nat)
        /\ \A k \in 1..Needed : FirstFew(w)[k] = expiry[k + Skipped]
    BY <1>0, <2>3, KeptOf
  <2> HIDE DEF w
  <2> QED
    BY <1>1, <2>2, <2>4
<1>7. /\ tenor' \in Seq(Nat) /\ Len(tenor') = Needed
      /\ \A k \in 1..Needed : tenor'[k] = tenor[k + Skipped]
  <2> DEFINE w == At(tenor, (Skipped + 1)..Len(tenor))
  <2>1. {k \in DOMAIN tenor : tenor[k] # 0} = (Skipped + 1)..Len(tenor)
    <3>1. DOMAIN tenor = 1..numObs /\ Len(tenor) = numObs
      BY <1>3
    <3>2. \A k \in 1..numObs : tenor[k] # 0 <=> k > Skipped
      BY <1>2, <1>4, <1>5
    <3> QED
      BY <1>2, <1>4, <3>1, <3>2
  <2>2. w = NonZero(tenor)
    BY <2>1 DEF NonZero
  <2>3. tenor \in Seq(Nat) /\ Len(tenor) >= 7
    BY <1>2, <1>3
  <2>4. /\ Len(w) \in Nat /\ Len(w) >= 6
        /\ Len(FirstFew(w)) = Needed /\ FirstFew(w) \in Seq(Nat)
        /\ \A k \in 1..Needed : FirstFew(w)[k] = tenor[k + Skipped]
    BY <1>0, <2>3, KeptOf
  <2> HIDE DEF w
  <2> QED
    BY <1>1, <2>2, <2>4
<1>8. /\ vol' \in Seq(Cells) /\ Len(vol') = Needed
      /\ \A k \in 1..Needed :
           /\ k + Skipped <= Len(vol)
           /\ \A m \in 1..(k + Skipped) : Positive(vol[m]) <=> m > Skipped
           => vol'[k] = vol[k + Skipped]
  BY <1>0, <1>1, <1>3, FilledOf
<1>16. ASSUME NEW n \in Nat, n <= numObs, ~ZeroAmong(n), NEW m \in 1..n
       PROVE  Positive(vol[m]) <=> m > Skipped
  <2>1. m \in 1..numObs
    BY <1>2, <1>16
  <2>2. CASE m > Skipped
    <3>1. vol[m] = <<Row(m), Column(m)>> /\ Row(m) \in 1..Len(ask.expiries)
      BY <1>3, <2>1, <2>2 DEF Observed, Quoted
    <3>2. <<Row(m), Column(m)>> \notin ask.zeros
      BY <1>16, <2>2 DEF ZeroAmong
    <3>3. <<Row(m), Column(m)>> # NoQuote
      <4>1. Row(m) # 0
        BY <3>1
      <4> QED
        BY <4>1 DEF NoQuote
    <3> QED
      BY <2>2, <3>1, <3>2, <3>3 DEF Positive
  <2>3. CASE ~(m > Skipped)
    <3>1. m = 1 /\ Skipped = 1
      BY <1>0, <2>1, <2>3
    <3> QED
      BY <1>4, <2>3, <3>1 DEF Positive
  <2> QED
    BY <2>2, <2>3
<1>9. reply' = "chosen"
  BY <1>1, <1>2, <1>6
<1>10. ASSUME NEW k \in 1..Needed
       PROVE  /\ Observed(k, k + Skipped)'
              /\ (ZeroAmong(k + Skipped) \/ Quoted(k, k + Skipped))'
  <2>1. PICK n \in Nat : n = k + Skipped
    BY <1>2, <1>4
  <2>2. n \in 1..numObs /\ n > Skipped /\ n <= Len(vol)
    BY <1>2, <1>3, <1>4, <2>1
  <2>3. Observed(n, n) /\ Quoted(n, n)
    BY <1>3, <2>2
  <2>4. expiry'[k] = expiry[n] /\ tenor'[k] = tenor[n]
    BY <1>6, <1>7, <2>1
  <2>5. Observed(k, n)'
    BY <1>1, <2>3, <2>4, SameObserved
  <2>6. ~ZeroAmong(n) => vol'[k] = vol[n]
    BY <1>8, <1>16, <2>1, <2>2
  <2>7. ZeroAmong(n) \/ Quoted(k, n)'
    BY <1>1, <2>3, <2>6, SameObserved
  <2>8. Skipped' = Skipped /\ (ZeroAmong(n)' <=> ZeroAmong(n))
    BY <1>1, SameAsk
  <2> QED
    BY <2>1, <2>5, <2>7, <2>8
<1>11. Fits => ~Short
  BY <1>1, <1>2 DEF Inv, Searching
<1>12. Typed'
  BY <1>1, <1>6, <1>7, <1>8, <1>9, SameAsk DEF Inv, Typed, Replies
<1>13. Searching'
  BY <1>9 DEF Searching
<1>14. Chosen'
  BY <1>1, <1>6, <1>7, <1>8, <1>10, <1>11, SameAsk DEF Chosen
<1>15. Calibrated'
  BY <1>1, <1>9 DEF Inv, Calibrated
<1> QED
  BY <1>12, <1>13, <1>14, <1>15 DEF Inv

LEMMA NotEmpty == \A f : 1 \in DOMAIN f => f # <<>>
  OBVIOUS

\* What is chosen stays.
LEMMA SameChosen ==
    ASSUME Inv, reply = "chosen", UNCHANGED <<ask, expiry, tenor, vol>>
    PROVE  /\ Len(expiry') = Needed /\ Len(tenor') = Needed /\ Len(vol') = Needed
           /\ \A k \in 1..Needed : Observed(k, k + Skipped)'
           /\ \A k \in 1..Needed : (ZeroAmong(k + Skipped) \/ Quoted(k, k + Skipped))'
           /\ Fits' => ~Short'
<1>1. \A k \in 1..Needed : /\ Observed(k, k + Skipped)
                           /\ ZeroAmong(k + Skipped) \/ Quoted(k, k + Skipped)
  BY DEF Inv, Chosen
<1>2. Skipped' = Skipped
  BY SameAsk
<1>3. ASSUME NEW k \in 1..Needed
      PROVE  /\ Observed(k, k + Skipped)'
             /\ (ZeroAmong(k + Skipped) \/ Quoted(k, k + Skipped))'
  <2>1. /\ Observed(k, k + Skipped)
        /\ ZeroAmong(k + Skipped) \/ Quoted(k, k + Skipped)
    BY <1>1
  <2>2. Observed(k, k + Skipped)'
    BY <1>2, <2>1, SameAsk DEF Observed
  <2>3. (ZeroAmong(k + Skipped) \/ Quoted(k, k + Skipped))'
    BY <1>2, <2>1, SameAsk DEF Quoted
  <2> QED
    BY <2>2, <2>3
<1> QED
  BY <1>3, SameAsk DEF Inv, Chosen

LEMMA CalibrateStep ==
    ASSUME Inv, CalibrateToChosen \/ CalibrateToDiagonal
    PROVE  Inv'
<1>1. /\ reply = "chosen" /\ UNCHANGED <<fun, ask, i, expiry, tenor, vol>>
      /\ reply' \in {"calibrated", "error"}
  BY DEF CalibrateToChosen, CalibrateToDiagonal, Outcomes, given, vectors
<1>2. Typed' /\ Searching'
  BY <1>1, SameAsk DEF Inv, Typed, Searching, Replies
<1>3. Chosen'
  BY <1>1, SameChosen DEF Chosen
<1>4. CASE CalibrateToChosen
  <2>1. /\ fun = "AffineSwaption"
        /\ helpers' = [k \in 1..Len(vol) |-> [expiry |-> Years(expiry[k]),
                           tenor |-> Years(tenor[k]), quote |-> vol[k]]]
    BY <1>4 DEF CalibrateToChosen
  <2>2. helpers' # <<>>
    <3>1. Len(vol) \in 1..6
      BY <1>1, GridAssumption DEF Inv, Chosen
    <3>2. 1 \in 1..Len(vol)
      BY <3>1
    <3>3. DOMAIN helpers' = 1..Len(vol)
      BY <2>1, Zenon
    <3> QED
      BY <3>2, <3>3, NotEmpty, Zenon
  <2> QED
    BY <1>1, <1>2, <1>3, <2>1, <2>2, SameAsk DEF Inv, Calibrated
<1>5. CASE CalibrateToDiagonal
  <2>1. /\ fun # "AffineSwaption"
        /\ helpers' = [k \in 1..Len(ask.expiries) |-> HelperAt(k)]
    BY <1>5 DEF CalibrateToDiagonal
  <2>2. helpers' = [k \in 1..Len(ask.expiries) |-> HelperAt(k)]'
    BY <1>1, <2>1, SameAsk
  <2>3. helpers' # <<>>
    <3>1. 1 \in DOMAIN helpers'
      BY <2>1, AskFacts, GridFacts DEF Inv, Typed
    <3> QED
      BY <3>1, NotEmpty, Zenon
  <2> QED
    BY <1>1, <1>2, <1>3, <2>1, <2>2, <2>3 DEF Inv, Calibrated
<1> QED
  BY <1>4, <1>5

LEMMA InvStep == Inv /\ [Next]_vars => Inv'
<1> SUFFICES ASSUME Inv, [Next]_vars PROVE Inv'
  OBVIOUS
<1>1. CASE SelectClosest
  BY <1>1, ClosestStep
<1>2. CASE SelectNext
  BY <1>2, NextStep
<1>3. CASE ClosestFails \/ NextFails
  BY <1>3, FailStep
<1>4. CASE Gather
  BY <1>4, GatherStep
<1>5. CASE CalibrateToChosen \/ CalibrateToDiagonal
  BY <1>5, CalibrateStep
<1>6. CASE UNCHANGED vars
  <2>1. UNCHANGED <<fun, ask, i, expiry, tenor, vol, reply, helpers>>
    BY <1>6 DEF vars
  <2>2. \A k, n : /\ Observed(k, n)' <=> Observed(k, n)
                  /\ Quoted(k, n)' <=> Quoted(k, n)
    BY <2>1, SameAsk DEF Observed, Quoted
  <2> QED
    BY <2>1, <2>2, SameAsk DEF Inv, Typed, Searching, Chosen, Calibrated
<1> QED
  BY <1>1, <1>2, <1>3, <1>4, <1>5, <1>6 DEF Next

\* Every reachable state has the inductive invariant.
THEOREM Invariance == Spec => []Inv
  BY InvInit, InvStep, PTL DEF Spec

\* The three vectors keep their types and, while the search goes on, one entry
\* for each observation (bermudan.R 49-74, affine.R 67-91).
THEOREM TypeCorrect == Spec => []TypeOK
<1>1. Inv => TypeOK
  BY DEF Inv, Typed, Searching, TypeOK
<1> QED
  BY <1>1, Invariance, PTL

\* Six observations with quotes are more than a calibration needs: the warning
\* about insufficient volatilities is never given (bermudan.R 78-81).
THEOREM EnoughFound == Spec => []NeverTooFew
<1>1. Inv => NeverTooFew
  BY DEF Inv, Typed, NeverTooFew
<1> QED
  BY <1>1, Invariance, PTL

\* The second observation lies before the first row for short swaptions and
\* for late grids.
LEMMA ShortMeans ==
    ASSUME ask \in Asks
    PROVE  Short <=> matYears < 3 * ask.expiries[1] \/ 2 * Year < ask.expiries[1]
<1>1. ask.mat \in Nat \ {0} /\ ask.expiries[1] \in Nat
  BY AskFacts, GridFacts
<1>2. matYears = 6 * ask.mat /\ (6 * ask.mat) \div 6 = ask.mat
  BY <1>1 DEF matYears, Year
<1>3. increment = IF ask.mat < 6 THEN ask.mat ELSE 6
  BY <1>2 DEF increment, Year
<1> QED
  BY <1>1, <1>2, <1>3 DEF Short, Year

\* In a matrix of the right shape the search stops in an error for swaptions
\* that end before three times the first expiry, for all where the first
\* expiry is more than two years out, and for no others (bermudan.R 51-74).
THEOREM OnlyShortFail == Spec => []FailsOnlyWhenShort
<1>1. Inv => FailsOnlyWhenShort
  BY ShortMeans DEF Inv, Typed, Chosen, Calibrated, FailsOnlyWhenShort
<1> QED
  BY <1>1, Invariance, PTL

\* The helpers AffineSwaption calibrates to, one by one.
LEMMA AffineHelpers ==
    ASSUME Inv, reply = "calibrated", fun = "AffineSwaption"
    PROVE  /\ DOMAIN helpers = 1..Needed
           /\ \A k \in 1..Needed :
                /\ Observed(k, k + Skipped)
                /\ ZeroAmong(k + Skipped) \/ Quoted(k, k + Skipped)
                /\ helpers[k].expiry = Years(expiry[k])
                /\ helpers[k].tenor = Years(tenor[k])
                /\ helpers[k].quote = vol[k]
<1>1. /\ Len(vol) = Needed
      /\ \A k \in 1..Needed : Observed(k, k + Skipped)
      /\ \A k \in 1..Needed : ZeroAmong(k + Skipped) \/ Quoted(k, k + Skipped)
      /\ helpers = [k \in 1..Len(vol) |-> [expiry |-> Years(expiry[k]),
                       tenor |-> Years(tenor[k]), quote |-> vol[k]]]
  BY DEF Inv, Chosen, Calibrated
<1> QED
  BY <1>1

\* A row counted from the other end is a column when no column is missing.
LEMMA Mirrored ==
    ASSUME NEW m \in Nat, NEW n \in Nat, m <= n, NEW j \in 1..m
    PROVE  n - j + 1 \in 1..n
  OBVIOUS

\* The quotes a model is calibrated to are those for the expiries and tenors
\* they are handed over with.  For AffineSwaption: those of the observations
\* before the first that found a zero volatility, which are all of them if no
\* volatility is zero.  For BermudanSwaption: in a matrix of the right shape
\* with at least as many columns as rows (affine.R 95-110, affine.cpp 150-165,
\* bermudan.cpp 163-180).
THEOREM QuotesBelong == Spec => []QuotesOfTheirPair
<1>1. Inv => QuotesOfTheirPair
  <2> SUFFICES ASSUME Inv, reply = "calibrated",
                      fun = "BermudanSwaption" => Fits /\ rows <= cols,
                      NEW k \in DOMAIN helpers,
                      ~(fun = "AffineSwaption" /\ ZeroAmong(k + Skipped))
               PROVE  OwnQuote(helpers[k])
    BY DEF QuotesOfTheirPair
  <2>1. CASE fun = "AffineSwaption"
    <3>1. /\ Observed(k, k + Skipped) /\ Quoted(k, k + Skipped)
          /\ helpers[k].expiry = Years(expiry[k])
          /\ helpers[k].tenor = Years(tenor[k])
          /\ helpers[k].quote = vol[k]
      BY <2>1, AffineHelpers
    <3> DEFINE r == Row(k + Skipped)
               c == Column(k + Skipped)
    <3>2. /\ r \in 1..Len(ask.expiries)
          /\ expiry[k] = ask.expiries[r] /\ tenor[k] = ask.tenors[c]
          /\ vol[k] = <<r, c>>
      BY <3>1 DEF Observed, Quoted
    <3> HIDE DEF r, c
    <3>3. <<r, c>>[1] = r /\ <<r, c>>[2] = c /\ r # 0
      BY <3>2
    <3>4. <<r, c>> # NoQuote
      BY <3>3 DEF NoQuote
    <3>5. helpers[k].quote = <<r, c>>
      BY <3>1, <3>2
    <3>6. /\ helpers[k].expiry = Years(ask.expiries[r])
          /\ helpers[k].tenor = Years(ask.tenors[c])
      BY <3>1, <3>2
    <3> QED
      BY <3>3, <3>4, <3>5, <3>6 DEF OwnQuote
  <2>2. CASE fun # "AffineSwaption"
    <3>1. /\ ask \in Asks /\ fun = "BermudanSwaption" /\ Fits /\ rows <= cols
          /\ helpers = [n \in 1..Len(ask.expiries) |-> HelperAt(n)]
      BY <2>2 DEF Inv, Typed, Calibrated, Funs
    <3>2. /\ k \in 1..Len(ask.expiries) /\ helpers[k] = HelperAt(k)
          /\ Len(ask.expiries) \in Nat /\ Len(ask.tenors) \in Nat
          /\ Len(ask.expiries) <= Len(ask.tenors)
          /\ rows = Len(ask.expiries) /\ cols = Len(ask.tenors)
      <4>1. /\ Len(ask.expiries) \in Nat /\ Len(ask.tenors) \in Nat
            /\ rows = Len(ask.expiries) /\ cols = Len(ask.tenors)
        BY <3>1, AskFacts, GridFacts DEF Fits
      <4>2. Len(ask.expiries) <= Len(ask.tenors)
        BY <3>1, <4>1
      <4>3. k \in 1..Len(ask.expiries) /\ helpers[k] = HelperAt(k)
        BY <3>1, Zenon
      <4> QED
        BY <4>1, <4>2, <4>3, Zenon
    <3> DEFINE d == Diagonal(k)
    <3>3. d \in 1..Len(ask.tenors)
      BY <3>2, Mirrored DEF Diagonal
    <3>4. InMatrix(k, d)
      BY <3>2, <3>3 DEF InMatrix
    <3>5. d <= Len(ask.tenors)
      BY <3>2, <3>3
    <3>6. HelperAt(k) = [expiry |-> Years(ask.expiries[k]),
                         tenor |-> Years(ask.tenors[d]), quote |-> <<k, d>>]
      BY <3>4, <3>5 DEF HelperAt
    <3> HIDE DEF d
    <3>7. <<k, d>>[1] = k /\ <<k, d>>[2] = d /\ k # 0
      BY <3>2
    <3>8. <<k, d>> # NoQuote
      BY <3>7 DEF NoQuote
    <3>9. /\ helpers[k].quote = <<k, d>>
          /\ helpers[k].expiry = Years(ask.expiries[k])
          /\ helpers[k].tenor = Years(ask.tenors[d])
      BY <3>2, <3>6
    <3> QED
      BY <3>7, <3>8, <3>9 DEF OwnQuote
  <2> QED
    BY <2>1, <2>2
<1> QED
  BY <1>1, Invariance, PTL

LEMMA AtOrBelowIs ==
    ASSUME NEW g \in Grids, NEW x \in Int, NEW n \in 1..Len(g), g[n] <= x,
           \A k \in 1..Len(g) : g[k] <= x => k <= n
    PROVE  AtOrBelow(g, x) = g[n]
<1>1. /\ DOMAIN g = 1..Len(g) /\ Len(g) \in Nat
      /\ \A k \in 1..Len(g) : g[k] \in Nat
      /\ \A k, m \in 1..Len(g) : k < m => g[k] < g[m]
  BY GridFacts
<1>2. \A k \in 1..Len(g) : g[k] <= x => g[k] <= g[n]
  <2> SUFFICES ASSUME NEW k \in 1..Len(g), g[k] <= x PROVE g[k] <= g[n]
    OBVIOUS
  <2>1. k < n \/ k = n
    BY <1>1
  <2> QED
    BY <1>1, <2>1
<1> DEFINE P(y) == /\ y <= x
                   /\ \A k \in DOMAIN g : g[k] <= x => g[k] <= y
           S == {g[k] : k \in DOMAIN g}
<1>3. g[n] \in S /\ P(g[n])
  BY <1>1, <1>2
<1>4. ASSUME NEW y \in S, P(y) PROVE y = g[n]
  <2>1. PICK k \in 1..Len(g) : y = g[k]
    BY <1>1, <1>4
  <2>2. g[k] <= g[n] /\ g[n] <= g[k]
    BY <1>1, <1>2, <1>4, <2>1
  <2> QED
    BY <1>1, <2>1, <2>2
<1>5. AtOrBelow(g, x) = CHOOSE y \in S : P(y)
  BY DEF AtOrBelow
<1> HIDE DEF P, S
<1> QED
  BY <1>3, <1>4, <1>5

\* Taking the first five after the zeros are dropped keeps the expiry and the
\* tenor nearest below the swaption's own, and keeps them first, with the
\* volatility quoted for them unless that is zero (affine.R 69-76, 94-101).
THEOREM NearestFirst == Spec => []ClosestFirst
<1>1. Inv => ClosestFirst
  <2> SUFFICES ASSUME Inv, reply = "calibrated", fun = "AffineSwaption", OnGrid
               PROVE  /\ helpers[1].expiry = Years(AtOrBelow(ask.expiries, expYears))
                      /\ helpers[1].tenor
                           = Years(AtOrBelow(ask.tenors, matYears - expYears))
                      /\ \/ <<ClosestRow, ClosestColumn>> \in ask.zeros
                         \/ helpers[1].quote = <<ClosestRow, ClosestColumn>>
    BY DEF ClosestFirst
  <2>1. 1 \in 1..Needed /\ Skipped = 0 /\ 1 + 0 = 1
    BY GridAssumption DEF Skipped
  <2>2. /\ Observed(1, 1)
        /\ ZeroAmong(1) \/ Quoted(1, 1)
        /\ helpers[1].expiry = Years(expiry[1]) /\ helpers[1].tenor = Years(tenor[1])
        /\ helpers[1].quote = vol[1]
    BY <2>1, AffineHelpers
  <2>3. /\ helpers[1].expiry = Years(ask.expiries[ClosestRow])
        /\ helpers[1].tenor = Years(ask.tenors[ClosestColumn])
    BY <2>2 DEF Observed, Row, Column
  <2>8. \/ <<ClosestRow, ClosestColumn>> \in ask.zeros
        \/ helpers[1].quote = <<ClosestRow, ClosestColumn>>
    <3>1. \A m \in 1..1 : m = 1
      OBVIOUS
    <3>2. Row(1) = ClosestRow /\ Column(1) = ClosestColumn
      BY DEF Row, Column
    <3>3. CASE ZeroAmong(1)
      BY <3>1, <3>2, <3>3 DEF ZeroAmong
    <3>4. CASE Quoted(1, 1)
      BY <2>2, <3>2, <3>4 DEF Quoted
    <3> QED
      BY <2>2, <3>3, <3>4
  <2>4. ask \in Asks
    BY DEF Inv, Typed
  <2>5. /\ ask.expiries \in Grids /\ ask.tenors \in Grids
        /\ expYears \in Int /\ matYears - expYears \in Int
    BY <2>4, AskFacts, TimeFacts
  <2>6. AtOrBelow(ask.expiries, expYears) = ask.expiries[ClosestRow]
    BY <2>4, <2>5, FirstFound, AtOrBelowIs
  <2>7. AtOrBelow(ask.tenors, matYears - expYears) = ask.tenors[ClosestColumn]
    BY <2>4, <2>5, FirstFound, AtOrBelowIs
  <2> QED
    BY <2>3, <2>6, <2>7, <2>8
<1> QED
  BY <1>1, Invariance, PTL

\* A step out in expiry is a step back in tenor: no chosen swap outlives the
\* swaption's own by more than an increment, unless the grid has none that is
\* short enough (affine.R 79-92).
THEOREM NearMaturity == Spec => []EndsNearMaturity
<1>1. Inv => EndsNearMaturity
  <2> SUFFICES ASSUME Inv, reply = "calibrated", fun = "AffineSwaption",
                      NEW k \in DOMAIN helpers
               PROVE  \/ Year * (helpers[k].expiry + helpers[k].tenor)
                            <= matYears + increment
                      \/ helpers[k].tenor = Years(ask.tenors[1])
    BY DEF EndsNearMaturity
  <2>1. /\ k \in 1..Needed /\ Observed(k, k + Skipped)
        /\ helpers[k].expiry = Years(expiry[k]) /\ helpers[k].tenor = Years(tenor[k])
    BY AffineHelpers
  <2>2. PICK n \in Nat \ {0} : n = k + Skipped
    BY <2>1, GridAssumption DEF Skipped
  <2> DEFINE e == ask.expiries[Row(n)]
             t == ask.tenors[Column(n)]
  <2>3. /\ helpers[k].expiry = Years(e) /\ helpers[k].tenor = Years(t)
        /\ Row(n) \in 1..Len(ask.expiries) /\ Column(n) \in 1..Len(ask.tenors)
    BY <2>1, <2>2 DEF Observed
  <2>4. ask \in Asks
    BY DEF Inv, Typed
  <2>5. matYears \in Nat /\ expYears \in Nat /\ increment \in 1..6
    BY <2>4, TimeFacts
  <2>6. e \in Nat /\ t \in Nat
    BY <2>3, <2>4, AskFacts, GridFacts
  <2>7. e + t <= matYears + increment \/ Column(n) = 1
    <3>1. CASE n = 1
      <4>1. OnGrid
        BY <2>1, <2>2, <3>1, GridAssumption DEF Skipped
      <4>2. e <= expYears /\ t <= matYears - expYears
        BY <2>4, <3>1, <4>1, FirstFound DEF Row, Column
      <4> HIDE DEF e, t
      <4> QED
        BY <2>5, <2>6, <4>2
    <3>2. CASE n >= 2
      <4>1. Row(n) = ExpiryRow(n) /\ Column(n) = TenorColumn(n)
        BY <3>2 DEF Row, Column
      <4>2. ExpiryRow(n) > 0
        BY <2>3, <4>1
      <4>3. /\ e <= n * increment
            /\ t <= matYears - (n - 1) * increment \/ Column(n) = 1
        BY <2>4, <3>2, <4>1, <4>2, NextFound
      <4> HIDE DEF e, t
      <4>4. (n - 1) * increment = n * increment - increment /\ n * increment \in Int
        BY <2>5
      <4> QED
        BY <2>5, <2>6, <4>3, <4>4
    <3> QED
      BY <3>1, <3>2
  <2>8. Column(n) = 1 => helpers[k].tenor = Years(ask.tenors[1])
    BY <2>3
  <2> HIDE DEF e, t
  <2>9. Years(e) \in Nat /\ Years(t) \in Nat /\ Year * Years(e) <= e /\ Year * Years(t) <= t
    BY <2>6 DEF Years, Year
  <2>10. Year * (Years(e) + Years(t)) = Year * Years(e) + Year * Years(t)
    BY <2>9 DEF Year
  <2>11. CASE e + t <= matYears + increment
    <3>1. Year * Years(e) \in Nat /\ Year * Years(t) \in Nat
      BY <2>9 DEF Year
    <3> QED
      BY <2>3, <2>5, <2>6, <2>9, <2>10, <2>11, <3>1
  <2> QED
    BY <2>7, <2>8, <2>11
<1> QED
  BY <1>1, Invariance, PTL
=============================================================================
