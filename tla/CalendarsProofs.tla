--------------------------- MODULE CalendarsProofs ---------------------------
(***************************************************************************)
(* Theorems about Calendars, for every set of names, markets and days, and *)
(* about the conversions of Dates, for every date and time.                *)
(***************************************************************************)
EXTENDS Calendars, Dates, TLAPS

-----------------------------------------------------------------------------
(* The calendars of a session.                                             *)

IInv == TypeOK /\ OnlyExceptions /\ HeardUnderEveryName

LEMMA InitIInv == Init => IInv
  BY CalendarsAssumption
     DEF Init, IInv, TypeOK, OnlyExceptions, HeardUnderEveryName

\* The effect of one call on the days of every implementation.
LEMMA Closed ==
    ASSUME IInv, NEW m \in Markets, NEW ds \in SUBSET Days, CloseDays(m, ds)
    PROVE  /\ OnlyExceptions'
           /\ BusinessDays(m)' = BusinessDays(m) \ ds
           /\ \A k \in Markets \ {m} : BusinessDays(k)' = BusinessDays(k)
           /\ added' \in [Markets -> SUBSET Days]
           /\ removed' \in [Markets -> SUBSET Days]
  <1>1. /\ added \in [Markets -> SUBSET Days]
        /\ removed \in [Markets -> SUBSET Days]
    BY DEF IInv, TypeOK
  <1>2. /\ added'[m] = added[m] \cup (ds \cap Regular[m])
        /\ removed'[m] = removed[m] \ ds
        /\ \A k \in Markets \ {m} :
              added'[k] = added[k] /\ removed'[k] = removed[k]
        /\ added' \in [Markets -> SUBSET Days]
        /\ removed' \in [Markets -> SUBSET Days]
    BY <1>1 DEF CloseDays
  <1>3. OnlyExceptions'
    BY <1>2 DEF IInv, OnlyExceptions
  <1>4. BusinessDays(m)' = BusinessDays(m) \ ds
    BY <1>2 DEF BusinessDays, isBusinessDay, RegularOf, IInv, OnlyExceptions
  <1>5. \A k \in Markets \ {m} : BusinessDays(k)' = BusinessDays(k)
    BY <1>2 DEF BusinessDays, isBusinessDay, RegularOf
  <1> QED
    BY <1>2, <1>3, <1>4, <1>5

LEMMA Reopened ==
    ASSUME IInv, NEW m \in Markets, NEW ds \in SUBSET Days, ReopenDays(m, ds)
    PROVE  /\ OnlyExceptions'
           /\ BusinessDays(m)' = BusinessDays(m) \cup ds
           /\ \A k \in Markets \ {m} : BusinessDays(k)' = BusinessDays(k)
           /\ added' \in [Markets -> SUBSET Days]
           /\ removed' \in [Markets -> SUBSET Days]
  <1>1. /\ added \in [Markets -> SUBSET Days]
        /\ removed \in [Markets -> SUBSET Days]
    BY DEF IInv, TypeOK
  <1>2. /\ added'[m] = added[m] \ ds
        /\ removed'[m] = removed[m] \cup (ds \ Regular[m])
        /\ \A k \in Markets \ {m} :
              added'[k] = added[k] /\ removed'[k] = removed[k]
        /\ added' \in [Markets -> SUBSET Days]
        /\ removed' \in [Markets -> SUBSET Days]
    BY <1>1 DEF ReopenDays
  <1>3. OnlyExceptions'
    BY <1>2 DEF IInv, OnlyExceptions
  <1>4. BusinessDays(m)' = BusinessDays(m) \cup ds
    BY <1>2 DEF BusinessDays, isBusinessDay, RegularOf
  <1>5. \A k \in Markets \ {m} : BusinessDays(k)' = BusinessDays(k)
    BY <1>2 DEF BusinessDays, isBusinessDay, RegularOf
  <1> QED
    BY <1>2, <1>3, <1>4, <1>5

\* Calls on a bespoke calendar and the bespoke context itself change no book.
LEMMA Blank ==
    /\ BusinessDays(Bespoke) = Days
    /\ BusinessDays(Bespoke)' = Days
  BY CalendarsAssumption DEF BusinessDays, isBusinessDay, RegularOf

LEMMA AddStep ==
    ASSUME IInv, NEW n \in Names, NEW ds \in SUBSET Days, addHolidays(n, ds)
    PROVE  IInv' /\ [Book!Next]_<<Open, context>>
  <1>1. asked' = [k \in Names |->
                    IF Lookup[k] = Lookup[n] THEN asked[k] \cup ds
                                             ELSE asked[k]]
    BY DEF addHolidays
  <1>2. CASE Lookup[n] \in Markets
    <2>1. CloseDays(Lookup[n], ds)
      BY <1>2 DEF addHolidays
    <2>2. /\ OnlyExceptions'
          /\ BusinessDays(Lookup[n])' = BusinessDays(Lookup[n]) \ ds
          /\ \A k \in Markets \ {Lookup[n]} :
                BusinessDays(k)' = BusinessDays(k)
          /\ added' \in [Markets -> SUBSET Days]
          /\ removed' \in [Markets -> SUBSET Days]
      BY <1>2, <2>1, Closed
    <2>3. TypeOK'
      BY <1>1, <2>2 DEF addHolidays, IInv, TypeOK
    <2>4. HeardUnderEveryName'
      BY <1>1, <2>2 DEF IInv, HeardUnderEveryName, TypeOK
    <2>5. Open' = [Open EXCEPT ![Lookup[n]] = @ \ ds]
      BY <1>2, <2>2, Blank, CalendarsAssumption DEF Open
    <2>6. Book!Close(Lookup[n], ds)
      BY <2>5 DEF Book!Close, addHolidays
    <2> QED
      BY <1>2, <2>2, <2>3, <2>4, <2>6 DEF IInv, Book!Next
  <1>3. CASE Lookup[n] \notin Markets
    <2>1. UNCHANGED <<added, removed, context>>
      BY <1>3 DEF addHolidays
    <2>2. UNCHANGED <<Open, context>>
      BY <2>1 DEF Open, BusinessDays, isBusinessDay, RegularOf
    <2>3. TypeOK' /\ OnlyExceptions'
      BY <1>1, <2>1 DEF addHolidays, IInv, TypeOK, OnlyExceptions
    <2>4. HeardUnderEveryName'
      BY <1>1, <1>3, <2>1
         DEF IInv, HeardUnderEveryName, TypeOK, BusinessDays, isBusinessDay,
             RegularOf
    <2> QED
      BY <2>2, <2>3, <2>4 DEF IInv
  <1> QED
    BY <1>2, <1>3

LEMMA RemoveStep ==
    ASSUME IInv, NEW n \in Names, NEW ds \in SUBSET Days,
           removeHolidays(n, ds)
    PROVE  IInv' /\ [Book!Next]_<<Open, context>>
  <1>1. asked' = [k \in Names |->
                    IF Lookup[k] = Lookup[n] THEN asked[k] \ ds
                                             ELSE asked[k]]
    BY DEF removeHolidays
  <1>2. CASE Lookup[n] \in Markets
    <2>1. ReopenDays(Lookup[n], ds)
      BY <1>2 DEF removeHolidays
    <2>2. /\ OnlyExceptions'
          /\ BusinessDays(Lookup[n])' = BusinessDays(Lookup[n]) \cup ds
          /\ \A k \in Markets \ {Lookup[n]} :
                BusinessDays(k)' = BusinessDays(k)
          /\ added' \in [Markets -> SUBSET Days]
          /\ removed' \in [Markets -> SUBSET Days]
      BY <1>2, <2>1, Reopened
    <2>3. TypeOK'
      BY <1>1, <2>2 DEF removeHolidays, IInv, TypeOK
    <2>4. HeardUnderEveryName'
      BY <1>1, <2>2 DEF IInv, HeardUnderEveryName, TypeOK
    <2>5. Open' = [Open EXCEPT ![Lookup[n]] = @ \cup ds]
      BY <1>2, <2>2, Blank, CalendarsAssumption DEF Open
    <2>6. Book!Reopen(Lookup[n], ds)
      BY <2>5 DEF Book!Reopen, removeHolidays
    <2> QED
      BY <1>2, <2>2, <2>3, <2>4, <2>6 DEF IInv, Book!Next
  <1>3. CASE Lookup[n] \notin Markets
    <2>1. UNCHANGED <<added, removed, context>>
      BY <1>3 DEF removeHolidays
    <2>2. UNCHANGED <<Open, context>>
      BY <2>1 DEF Open, BusinessDays, isBusinessDay, RegularOf
    <2>3. TypeOK' /\ OnlyExceptions'
      BY <1>1, <2>1 DEF removeHolidays, IInv, TypeOK, OnlyExceptions
    <2>4. HeardUnderEveryName'
      BY <1>1, <1>3, <2>1
         DEF IInv, HeardUnderEveryName, TypeOK, BusinessDays, isBusinessDay,
             RegularOf
    <2> QED
      BY <2>2, <2>3, <2>4 DEF IInv
  <1> QED
    BY <1>2, <1>3

LEMMA Step ==
    ASSUME IInv, [Next]_vars
    PROVE  IInv' /\ [Book!Next]_<<Open, context>>
  <1>1. ASSUME NEW n \in Names, LookupFails(n)
        PROVE  IInv' /\ [Book!Next]_<<Open, context>>
    BY <1>1 DEF LookupFails, Throw, IInv, TypeOK, OnlyExceptions,
       HeardUnderEveryName, BusinessDays, isBusinessDay, RegularOf, Open
  <1>2. ASSUME NEW n \in Names, setCalendarContext(n)
        PROVE  IInv' /\ [Book!Next]_<<Open, context>>
    <2>1. Lookup[n] \in Markets \cup {Bespoke}
      BY <1>2, CalendarsAssumption DEF setCalendarContext
    <2>2. Open' = Open
      BY <1>2 DEF setCalendarContext, Open, BusinessDays, isBusinessDay,
         RegularOf
    <2>3. Book!Choose(Lookup[n])
      BY <1>2, <2>2 DEF Book!Choose, setCalendarContext
    <2>4. IInv'
      BY <1>2, <2>1 DEF setCalendarContext, IInv, TypeOK, OnlyExceptions,
         HeardUnderEveryName, BusinessDays, isBusinessDay, RegularOf
    <2> QED
      BY <2>1, <2>3, <2>4 DEF Book!Next
  <1>3. CASE UNCHANGED vars
    BY <1>3 DEF vars, IInv, TypeOK, OnlyExceptions, HeardUnderEveryName,
       BusinessDays, isBusinessDay, RegularOf, Open
  <1> QED
    BY <1>1, <1>2, <1>3, AddStep, RemoveStep DEF Next

LEMMA AlwaysIInv == Spec => []IInv
  BY InitIInv, Step, PTL DEF Spec

\* However names, markets and bespoke calendars are mixed, an implementation's
\* two sets hold days of the calendar, and the context always names an
\* implementation and never a name that was refused.
THEOREM TypeCorrect == Spec => []TypeOK
  <1>1. IInv => TypeOK
    BY DEF IInv
  <1> QED
    BY AlwaysIInv, <1>1, PTL

\* The implementation's two sets hold exceptions to its rules and nothing
\* else, for every sequence of addHolidays and removeHolidays.
THEOREM Exceptions == Spec => []OnlyExceptions
  <1>1. IInv => OnlyExceptions
    BY DEF IInv
  <1> QED
    BY AlwaysIInv, <1>1, PTL

\* A holiday declared under one name of a market holds under all of them.
THEOREM Heard == Spec => []HeardUnderEveryName
  <1>1. IInv => HeardUnderEveryName
    BY DEF IInv
  <1> QED
    BY AlwaysIInv, <1>1, PTL

\* The calendar functions implement one book of holidays per market, with
\* the context reading the book as it stands.
THEOREM Implements == Spec => ImplementsBook
  <1>1. Init => Book!Init
    BY CalendarsAssumption
       DEF Init, Book!Init, Open, RegularOpen, BusinessDays, isBusinessDay,
           RegularOf
  <1>2. IInv /\ [Next]_vars => [Book!Next]_<<Open, context>>
    BY Step
  <1> QED
    BY <1>1, <1>2, AlwaysIInv, PTL DEF Spec, ImplementsBook, Book!Spec

-----------------------------------------------------------------------------
(* Dates between R and QuantLib.                                           *)

LEMMA SerialsAreIntegers == \A d \in Serials : d \in Int
<1>1. FirstSerial \in Int /\ LastSerial \in Int
  BY DEF FirstSerial, LastSerial
<1> QED
  BY <1>1 DEF Serials

\* A date that goes out to R and comes back, as each row of a discount
\* curve's table does, is the same date.
THEOREM RoundTrip == \A d \in Serials : as(wrap(d)) = d
<1> SUFFICES ASSUME NEW d \in Serials PROVE as(wrap(d)) = d
  OBVIOUS
<1>1. d \in Int
  BY SerialsAreIntegers
<1>2. Trunc(wrap(d)) = d - QLtoJan1970Offset
  BY <1>1 DEF Trunc, wrap, Day, QLtoJan1970Offset
<1>3. Trunc(wrap(d)) + QLtoJan1970Offset = d
  BY <1>1, <1>2 DEF QLtoJan1970Offset
<1> QED
  BY <1>3 DEF as, Date

\* A time of day is dropped: from 1970 on the date is the day the time falls
\* on, before 1970 it is the day after, because the cast cuts towards zero.
THEOREM TimeOfDay ==
    \A x \in Int :
        as(x) # Thrown =>
            /\ x >= 0 => wrap(as(x)) <= x /\ x < wrap(as(x)) + Day
            /\ x < 0 => wrap(as(x)) - Day < x /\ x <= wrap(as(x))
<1> SUFFICES ASSUME NEW x \in Int, as(x) # Thrown
             PROVE  /\ x >= 0 => wrap(as(x)) <= x /\ x < wrap(as(x)) + Day
                    /\ x < 0 => wrap(as(x)) - Day < x /\ x <= wrap(as(x))
  OBVIOUS
<1>1. Trunc(x) \in Int
  BY DEF Trunc, Day
<1>2. as(x) = Trunc(x) + QLtoJan1970Offset
  BY DEF as, Date
<1>3. wrap(as(x)) = Day * Trunc(x)
  BY <1>1, <1>2 DEF wrap, QLtoJan1970Offset, Day
<1>4. CASE x >= 0
  <2>1. Day * (x \div Day) <= x /\ x < Day * (x \div Day) + Day
    BY <1>4 DEF Day
  <2> QED
    BY <1>3, <1>4, <2>1 DEF Trunc
<1>5. CASE x < 0
  <2>1. Day * ((-x) \div Day) <= -x /\ -x < Day * ((-x) \div Day) + Day
    BY <1>5 DEF Day
  <2>2. (-x) \div Day \in Int
    BY <1>5 DEF Day
  <2>3. Day * Trunc(x) = -(Day * ((-x) \div Day))
    BY <1>5, <2>2 DEF Trunc, Day
  <2> QED
    BY <1>3, <1>5, <2>1, <2>2, <2>3 DEF Day
<1> QED
  BY <1>4, <1>5

\* Years to expiry become a date at most half a day off.
THEOREM MaturityIsNear ==
    \A today \in Serials, maturity \in Nat :
        LET date == getFutureDate(today, maturity)
        IN  date # Thrown =>
                /\ Day * (date - today) - maturity <= Day \div 2
                /\ maturity - Day * (date - today) <= Day \div 2
<1> SUFFICES ASSUME NEW today \in Serials, NEW maturity \in Nat,
                    getFutureDate(today, maturity) # Thrown
             PROVE  LET date == getFutureDate(today, maturity)
                    IN  /\ Day * (date - today) - maturity <= Day \div 2
                        /\ maturity - Day * (date - today) <= Day \div 2
  OBVIOUS
<1>1. today \in Int
  BY SerialsAreIntegers
<1>2. getFutureDate(today, maturity) = today + FutureLength(maturity)
  BY DEF getFutureDate, Date
<1>3. FutureLength(maturity) = (maturity + 720) \div 1440
  BY DEF FutureLength, Trunc, Day
<1>4. (maturity + 720) \div 1440 \in Int
  OBVIOUS
<1>5. getFutureDate(today, maturity) - today = (maturity + 720) \div 1440
  BY <1>1, <1>2, <1>3, <1>4
<1> QED
  BY <1>5 DEF Day

\* A dividend or a fixing before an option's maturity never gets a date after
\* its expiry, however the two are rounded.
THEOREM EarlierStaysEarlier ==
    \A today \in Serials, a, b \in Nat :
        /\ a <= b
        /\ getFutureDate(today, a) # Thrown
        /\ getFutureDate(today, b) # Thrown
        => getFutureDate(today, a) <= getFutureDate(today, b)
<1> SUFFICES ASSUME NEW today \in Serials, NEW a \in Nat, NEW b \in Nat, a <= b,
                    getFutureDate(today, a) # Thrown,
                    getFutureDate(today, b) # Thrown
             PROVE  getFutureDate(today, a) <= getFutureDate(today, b)
  OBVIOUS
<1>1. today \in Int
  BY SerialsAreIntegers
<1>2. /\ getFutureDate(today, a) = today + FutureLength(a)
      /\ getFutureDate(today, b) = today + FutureLength(b)
  BY DEF getFutureDate, Date
<1>3. /\ FutureLength(a) = (a + 720) \div 1440
      /\ FutureLength(b) = (b + 720) \div 1440
  BY DEF FutureLength, Trunc, Day
<1>4. (a + 720) \div 1440 <= (b + 720) \div 1440
  OBVIOUS
<1> QED
  BY <1>1, <1>2, <1>3, <1>4
=============================================================================
