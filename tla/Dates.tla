--------------------------------- MODULE Dates ---------------------------------
(***************************************************************************)
(* Dates between R and QuantLib (src/inst/include/rquantlib_impl.h), and   *)
(* dates given as years from today (getFutureDate in src/src/utils.cpp).   *)
(* R's number is a double of days since 1970, here a whole number of       *)
(* minutes; QuantLib's is a serial number.  Doubles are taken to be exact, *)
(* and what casting NA or an infinity to int gives, which is undefined, is *)
(* left out.                                                               *)
(***************************************************************************)
EXTENDS Integers

QLtoJan1970Offset == 25569
Day == 1440

\* 1 January 1901 to 31 December 2199.
FirstSerial == 367
LastSerial == 109574
Serials == FirstSerial..LastSerial

\* QuantLib's Date throws on other numbers.  The sum in as() is unsigned; one
\* that wraps around is not among them either.
Thrown == "thrown"
Date(serial) == IF serial \in Serials THEN serial ELSE Thrown

\* static_cast<int> cuts towards zero.
Trunc(x) == IF x < 0 THEN -((-x) \div Day) ELSE x \div Day

as(x) == Date(Trunc(x) + QLtoJan1970Offset)
wrap(d) == Day * (d - QLtoJan1970Offset)

-----------------------------------------------------------------------------
(* getFutureDate: a year has 360 days, half a day rounds up.               *)

FutureLength(maturity) == Trunc(maturity + Day \div 2)

getFutureDate(today, maturity) == Date(today + FutureLength(maturity))

\* The overload of the option engines, a Nullable as a set of at most one:
\* an exercise date is taken whether or not there is a maturity too.
getFutureDateOf(today, maturity, exDate) ==
    IF exDate # {} THEN CHOOSE d \in exDate : TRUE
    ELSE IF maturity # {} THEN getFutureDate(today, CHOOSE m \in maturity : TRUE)
    ELSE Thrown
=============================================================================
