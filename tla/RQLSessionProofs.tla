-------------------------- MODULE RQLSessionProofs --------------------------
(***************************************************************************)
(* Theorems about RQLSession, for every number of days, every calendar,    *)
(* every retreat function and every set of engines.                        *)
(***************************************************************************)
EXTENDS RQLSession, TLAPS

-----------------------------------------------------------------------------
(* The table of engines.  All but two take none of the rare steps, so they *)
(* can disturb neither the calendar nor the saved evaluation date; of      *)
(* these only three build a curve from quotes, and nine start curves from  *)
(* the evaluation date.                                                    *)

Plain == {"check", "find", "context", "settle1", "settle2", "eval1",
          "eval2", "evalBack", "price"}
Calm == Plain \cup {"base", "evalToday"}
Common == Calm \cup {"build1", "build2"}

OptionEngines ==
    {"europeanOptionEngine", "americanOptionEngine", "binaryOptionEngine",
     "barrierOptionEngine", "europeanOptionImpliedVolatilityEngine",
     "americanOptionImpliedVolatilityEngine",
     "binaryOptionImpliedVolatilityEngine", "europeanOptionArraysEngine",
     "asianOptionEngine"}

LEMMA PlainHelpers ==
    /\ \A k \in 1..2 : getFlatCurve(k) \in Seq(Plain)
    /\ FloatingBond \in Seq(Plain)
    /\ getFixedRateBond \in Seq(Plain)
    /\ zeroBondEngine \in Seq(Plain)
    /\ <<"check">> \in Seq(Plain)
    /\ <<"price">> \in Seq(Plain)
    /\ <<"check", "price">> \in Seq(Plain)
  BY DEF Plain, getFlatCurve, evalStep, FloatingBond, getSchedule,
         getFixedRateBond, zeroBondEngine

LEMMA PlainBonds ==
    /\ FloatBond1 \in Seq(Plain)
    /\ floatingWithRebuiltCurveEngine \in Seq(Plain)
    /\ FixedRateWithYield \in Seq(Plain)
    /\ FixedRateWithPrice \in Seq(Plain)
    /\ FixedRateWithRebuiltCurve \in Seq(Plain)
    /\ ZeroBondWithRebuiltCurve \in Seq(Plain)
  BY PlainHelpers DEF FloatBond1,
         floatingWithRebuiltCurveEngine, FixedRateWithYield,
         FixedRateWithPrice, FixedRateWithRebuiltCurve,
         ZeroBondWithRebuiltCurve

LEMMA PlainSimple ==
    /\ setEvaluationDate \in Seq(Plain)
    /\ calendarQuery \in Seq(Plain)
    /\ advanceDate \in Seq(Plain)
    /\ CreateSchedule \in Seq(Plain)
    /\ zeroPriceByYieldEngine \in Seq(Plain)
    /\ zeroYieldByPriceEngine \in Seq(Plain)
    /\ zeroprice \in Seq(Plain)
    /\ zeroyield \in Seq(Plain)
    /\ fixedRateBondYieldByPriceEngine \in Seq(Plain)
    /\ fixedRateBondPriceByYieldEngine \in Seq(Plain)
  BY DEF Plain, setEvaluationDate, calendarQuery, advanceDate,
         CreateSchedule, getSchedule, zeroPriceByYieldEngine,
         zeroYieldByPriceEngine, zeroprice, zeroyield,
         fixedRateBondYieldByPriceEngine, fixedRateBondPriceByYieldEngine

LEMMA PlainModels ==
    /\ convertibleZeroBondEngine \in Seq(Plain)
    /\ convertibleFixedBondEngine \in Seq(Plain)
    /\ convertibleFloatingBondEngine \in Seq(Plain)
    /\ callableBondEngine \in Seq(Plain)
    /\ fittedBondCurveEngine \in Seq(Plain)
    /\ bermudanFromYieldEngine \in Seq(Plain)
    /\ bermudanWithRebuiltCurveEngine \in Seq(Plain)
    /\ affineWithRebuiltCurveEngine \in Seq(Plain)
    /\ sabrengine \in Seq(Plain)
    /\ calibrateHullWhiteUsingCapsEngine \in Seq(Plain)
    /\ calibrateHullWhiteUsingSwapsEngine \in Seq(Plain)
  BY DEF Plain, convertibleZeroBondEngine, convertibleFixedBondEngine,
         convertibleFloatingBondEngine, callableBondEngine,
         fittedBondCurveEngine, bermudanFromYieldEngine,
         bermudanWithRebuiltCurveEngine, affineWithRebuiltCurveEngine,
         sabrengine, calibrateHullWhiteUsingCapsEngine,
         calibrateHullWhiteUsingSwapsEngine

LEMMA OptionCode ==
    ASSUME NEW op \in OptionEngines
    PROVE  /\ op \in DOMAIN Code /\ Code[op] \in Seq(Calm)
           /\ \/ Code[op] = <<"check", "base", "check", "price">>
              \/ Code[op] = <<"check", "evalToday", "check", "price">>
  <1>1. /\ op \in DOMAIN Code
        /\ \/ Code[op] = <<"check", "base", "check", "price">>
           \/ Code[op] = <<"check", "evalToday", "check", "price">>
    BY DEF OptionEngines, Code, europeanOptionEngine, americanOptionEngine,
         binaryOptionEngine, barrierOptionEngine,
         europeanOptionImpliedVolatilityEngine,
         americanOptionImpliedVolatilityEngine,
         binaryOptionImpliedVolatilityEngine, europeanOptionArraysEngine,
         asianOptionEngine
  <1>2. /\ <<"check", "base", "check", "price">> \in Seq(Calm)
        /\ <<"check", "evalToday", "check", "price">> \in Seq(Calm)
    BY DEF Calm, Plain
  <1> QED
    BY <1>1, <1>2

LEMMA PlainCode ==
    ASSUME NEW op \in DOMAIN Code,
           op \notin {"setCalendarContext", "discountCurveEngine",
                     "FloatBond2", "FloatBond3", "FloatBond4"},
           op \notin OptionEngines
    PROVE  Code[op] \in Seq(Plain)
  <1> DEFINE
    Bonds == {"FloatBond1",
         "floatingWithRebuiltCurveEngine", "FixedRateWithYield",
         "FixedRateWithPrice", "FixedRateWithRebuiltCurve",
         "ZeroBondWithRebuiltCurve"}
    Simple == {"setEvaluationDate", "calendarQuery", "advanceDate",
         "CreateSchedule",
         "zeroPriceByYieldEngine", "zeroYieldByPriceEngine", "zeroprice",
         "zeroyield", "fixedRateBondYieldByPriceEngine",
         "fixedRateBondPriceByYieldEngine"}
    Models == {"convertibleZeroBondEngine", "convertibleFixedBondEngine",
         "convertibleFloatingBondEngine", "callableBondEngine",
         "fittedBondCurveEngine", "bermudanFromYieldEngine",
         "bermudanWithRebuiltCurveEngine", "affineWithRebuiltCurveEngine",
         "sabrengine", "calibrateHullWhiteUsingCapsEngine",
         "calibrateHullWhiteUsingSwapsEngine"}
  <1>1. \/ op \in Bonds \/ op \in Simple \/ op \in Models
    BY DEF Code, OptionEngines
  <1>2. CASE op \in Bonds
    BY <1>2, PlainBonds, PlainHelpers DEF Code
  <1>3. CASE op \in Simple
    BY <1>3, PlainSimple DEF Code
  <1>4. CASE op \in Models
    BY <1>4, PlainModels DEF Code
  <1> QED
    BY <1>1, <1>2, <1>3, <1>4

\* The two curves of FloatBond2 to FloatBond4 need a step more.
LEMMA CommonCode ==
    ASSUME NEW op \in DOMAIN Code,
           op \notin {"setCalendarContext", "discountCurveEngine"}
    PROVE  Code[op] \in Seq(Common)
  <1>1. /\ \A c \in Seq(Plain) : c \in Seq(Common)
        /\ \A c \in Seq(Calm) : c \in Seq(Common)
    BY DEF Common, Calm
  <1>2. \A k \in 1..2 : buildTermStructure(k) \in Seq(Common)
    BY DEF buildTermStructure, Common, Calm, Plain, evalStep, settleStep, buildStep
  <1>3. CASE op \in {"FloatBond2", "FloatBond3", "FloatBond4"}
    <2>1. /\ FloatingBond \in Seq(Common)
          /\ getFlatCurve(1) \in Seq(Common) /\ getFlatCurve(2) \in Seq(Common)
      BY <1>1, PlainHelpers
    <2>2. /\ FloatBond2 \in Seq(Common) /\ FloatBond3 \in Seq(Common)
          /\ FloatBond4 \in Seq(Common)
      BY <1>2, <2>1 DEF FloatBond2, FloatBond3, FloatBond4
    <2> QED
      BY <1>3, <2>2 DEF Code
  <1>4. CASE op \notin {"FloatBond2", "FloatBond3", "FloatBond4"}
    BY <1>1, <1>4, PlainCode, OptionCode
  <1> QED
    BY <1>3, <1>4

LEMMA ContextCode ==
    Code["setCalendarContext"] =
        <<"check", "fixing", "settle1", "find", "calendar">>
  BY DEF Code, setCalendarContext

LEMMA CurveCode ==
    Code["discountCurveEngine"] =
        <<"check", "settle1", "save", "eval1", "check", "context", "build1",
          "price", "restore", "table">>
  BY DEF Code, discountCurveEngine

LEMMA ContextAt ==
    ASSUME NEW step, At(step), call.op = "setCalendarContext"
    PROVE  \/ call.pc = 1 /\ step = "check"
           \/ call.pc = 2 /\ step = "fixing"
           \/ call.pc = 3 /\ step = "settle1"
           \/ call.pc = 4 /\ step = "find"
           \/ call.pc = 5 /\ step = "calendar"
  BY ContextCode DEF At

LEMMA CurveAt ==
    ASSUME NEW step, At(step), call.op = "discountCurveEngine"
    PROVE  \/ call.pc = 1 /\ step = "check"
           \/ call.pc = 2 /\ step = "settle1"
           \/ call.pc = 3 /\ step = "save"
           \/ call.pc = 4 /\ step = "eval1"
           \/ call.pc = 5 /\ step = "check"
           \/ call.pc = 6 /\ step = "context"
           \/ call.pc = 7 /\ step = "build1"
           \/ call.pc = 8 /\ step = "price"
           \/ call.pc = 9 /\ step = "restore"
           \/ call.pc = 10 /\ step = "table"
  BY CurveCode DEF At

\* The rare steps are taken by the two special engines only.
LEMMA RareAt ==
    ASSUME TypeOK, NEW step, At(step),
           step \in {"calendar", "fixing", "save", "restore", "table"}
    PROVE  \/ call.op = "setCalendarContext"
           \/ call.op = "discountCurveEngine"
  <1>1. call.op \in DOMAIN Code
    BY OpsAssumption DEF TypeOK, CallType
  <1>2. SUFFICES ASSUME call.op \notin {"setCalendarContext",
                                        "discountCurveEngine"}
                 PROVE  FALSE
    OBVIOUS
  <1>3. Code[call.op] \in Seq(Common)
    BY <1>1, <1>2, CommonCode
  <1>4. step \in Common
    BY <1>3 DEF At
  <1> QED
    BY <1>4 DEF Common, Calm, Plain

-----------------------------------------------------------------------------
(* The inductive invariant: the types, and what the two special engines    *)
(* have established at each of their steps.                                *)

\* How far setCalendarContext has come.
ContextInv ==
    call.op = "setCalendarContext" /\ call.status = "running" =>
        /\ call.pc > 2 => fixingDays = call.lag
        /\ call.pc > 3 => settleDate = call.s[1]
        /\ call.pc > 4 => call.name \in Calendars

\* The date discountCurveEngine keeps is the one it found, or, if that one
\* floated, a day between its start and now.
SavedFromEntry ==
    IF call.entry.evalDate = None
    THEN call.saved \in call.entry.today..today
    ELSE call.saved = call.entry.evalDate

\* How far discountCurveEngine has come.
CurveInv ==
    /\ call.op = "discountCurveEngine"
    /\ call.status \in {"running", "returned"}
    =>  /\ call.entry.today <= today
        /\ calendar = call.entry.calendar
        /\ fixingDays = call.entry.fixingDays
        /\ call.pc > 2 => settleDate = call.s[1]
        /\ call.pc <= 4 => evalDate = call.entry.evalDate
        /\ call.pc > 3 => SavedFromEntry
        /\ call.pc \in 5..9 => evalDate = call.d[1]
        /\ call.pc > 8 => call.at = call.d[1]
        /\ call.pc > 9 => evalDate = call.saved
        /\ call.pc > 10 => call.tab = evalDate
        /\ call.status = "returned" => call.pc = 11

IInv == TypeOK /\ ContextInv /\ CurveInv

-----------------------------------------------------------------------------
(* Types.  The record of the call is large, so one lemma says what each    *)
(* kind of update does to its type.                                        *)

LEMMA Advanced ==
    ASSUME NEW c \in CallType
    PROVE  [c EXCEPT !.pc = @ + 1] \in CallType
  BY DEF CallType

LEMMA Recorded ==
    ASSUME NEW c \in CallType, NEW m \in Moment
    PROVE  /\ [c EXCEPT !.pc = @ + 1, !.saved = m] \in CallType
           /\ [c EXCEPT !.pc = @ + 1, !.base = m] \in CallType
           /\ [c EXCEPT !.pc = @ + 1, !.at = m] \in CallType
           /\ [c EXCEPT !.pc = @ + 1, !.tab = m] \in CallType
  <1>1. ASSUME NEW e \in CallType PROVE [e EXCEPT !.saved = m] \in CallType
    BY DEF CallType
  <1>2. ASSUME NEW e \in CallType PROVE [e EXCEPT !.base = m] \in CallType
    BY DEF CallType
  <1>3. ASSUME NEW e \in CallType PROVE [e EXCEPT !.at = m] \in CallType
    BY DEF CallType
  <1>4. ASSUME NEW e \in CallType PROVE [e EXCEPT !.tab = m] \in CallType
    BY DEF CallType
  <1> QED
    BY <1>1, <1>2, <1>3, <1>4, Advanced

LEMMA Copied ==
    ASSUME NEW c \in CallType, NEW x \in Calendars, NEW n \in Offsets
    PROVE  [c EXCEPT !.pc = @ + 1, !.cal = x, !.fix = n] \in CallType
  <1>1. ASSUME NEW e \in CallType
        PROVE  [e EXCEPT !.cal = x, !.fix = n] \in CallType
    BY DEF CallType
  <1> QED
    BY <1>1, Advanced

LEMMA Helped ==
    ASSUME NEW c \in CallType, NEW m \in Moment, NEW k \in 1..2
    PROVE  [c EXCEPT !.pc = @ + 1, !.imm[k] = m] \in CallType
  <1> DEFINE imm == [c.imm EXCEPT ![k] = m]
  <1>1. imm \in Moment \X Moment
    <2>1. c.imm \in Moment \X Moment
      BY DEF CallType
    <2>2. CASE k = 1
      BY <2>1, <2>2
    <2>3. CASE k = 2
      BY <2>1, <2>3
    <2> QED
      BY <2>2, <2>3
  <1>2. ASSUME NEW e \in CallType, NEW i \in Moment \X Moment
        PROVE  [e EXCEPT !.imm = i] \in CallType
    BY DEF CallType
  <1>3. [c EXCEPT !.pc = @ + 1, !.imm[k] = m]
          = [[c EXCEPT !.pc = @ + 1] EXCEPT !.imm = imm]
    BY DEF CallType
  <1> HIDE DEF imm
  <1> QED
    BY <1>1, <1>2, <1>3, Advanced

LEMMA Ended ==
    ASSUME NEW c \in CallType
    PROVE  /\ [c EXCEPT !.status = "threw"] \in CallType
           /\ [c EXCEPT !.status = "returned"] \in CallType
  BY DEF CallType

LEMMA Called ==
    ASSUME TypeOK, NEW op \in Ops, NEW args \in Arguments(op)
    PROVE  NewCall(op, args) \in CallType
  <1>1. /\ args.d \in Dates \X Dates /\ args.s \in Dates \X Dates
        /\ args.name \in Names /\ args.lag \in Offsets
    BY SessionAssumption DEF Arguments
  <1>2. Entry \in [evalDate : Moment, settleDate : Dates,
                   calendar : Calendars, fixingDays : Offsets, today : Dates]
    BY DEF Entry, TypeOK
  <1>3. None \in Moment /\ Target \in Calendars /\ 2 \in Offsets
    BY SessionAssumption DEF Moment
  <1>4. <<None, None>> \in Moment \X Moment
    BY <1>3
  <1> QED
    BY <1>1, <1>2, <1>3, <1>4 DEF NewCall, CallType

LEMMA TypeInit == Init => TypeOK
  <1> SUFFICES ASSUME Init PROVE TypeOK
    OBVIOUS
  <1>1. /\ 0 \in Dates /\ 2 \in Dates /\ Target \in Calendars
        /\ Target \in Names /\ 2 \in Offsets
        /\ None \in Moment
    BY SessionAssumption DEF Dates, Moment
  <1>2. Entry \in [evalDate : Moment, settleDate : Dates,
                   calendar : Calendars, fixingDays : Offsets, today : Dates]
    BY <1>1 DEF Entry, Init
  <1>3. <<None, None>> \in Moment \X Moment /\ <<0, 0>> \in Dates \X Dates
    BY <1>1
  <1>4. call \in CallType
    <2>1. PICK op \in Ops :
            call = [NewCall(op, [d |-> <<0, 0>>, s |-> <<0, 0>>,
                                 name |-> Target, lag |-> 2])
                      EXCEPT !.status = "idle"]
      BY DEF Init
    <2> QED
      BY <1>1, <1>2, <1>3, <2>1 DEF NewCall, CallType
  <1> QED
    BY <1>1, <1>4 DEF Init, TypeOK

LEMMA TypeStep == IInv /\ [Next]_vars => TypeOK'
  <1> SUFFICES ASSUME IInv, [Next]_vars PROVE TypeOK'
    OBVIOUS
  <1>0. /\ TypeOK
        /\ call \in CallType /\ evalDate \in Moment /\ settleDate \in Dates
        /\ calendar \in Calendars /\ fixingDays \in Offsets /\ today \in Dates
        /\ Dates \subseteq Moment
        /\ EvaluationDate \in Moment
    BY DEF IInv, TypeOK, Moment, EvaluationDate
  <1>1. CASE Check
    BY <1>0, <1>1, Advanced DEF Check, TypeOK, settings
  <1>2. CASE getCalendar
    BY <1>0, <1>2, Advanced DEF getCalendar, TypeOK, settings
  <1>3. CASE CopyContext
    BY <1>0, <1>3, Copied DEF CopyContext, TypeOK, settings
  <1>4. CASE EvaluateToday
    BY <1>0, <1>4, Recorded DEF EvaluateToday, TypeOK
  <1>5. CASE EvaluateAtFixing
    <2>1. call.cal \in Calendars /\ call.d \in Dates \X Dates
          /\ call.fix \in Offsets
      BY <1>0 DEF CallType
    <2>2. FixingDate \in Moment
      <3>1. <<call.cal, call.d[1], call.fix>>
              \in Calendars \X Dates \X Offsets
        BY <2>1
      <3> QED
        BY <3>1, SessionAssumption DEF FixingDate, Moment
    <2> QED
      BY <1>0, <1>5, <2>2, Advanced DEF EvaluateAtFixing, TypeOK
  <1>6. CASE SaveEvaluationDate
    BY <1>0, <1>6, Recorded DEF SaveEvaluationDate, TypeOK, settings
  <1>7. CASE RestoreEvaluationDate
    <2>1. call.saved \in Moment
      BY <1>0 DEF CallType
    <2> QED
      BY <1>0, <1>7, <2>1, Advanced DEF RestoreEvaluationDate, TypeOK
  <1>8. CASE TakeBase
    BY <1>0, <1>8, Recorded DEF TakeBase, TypeOK, settings
  <1>9. CASE Price
    BY <1>0, <1>9, Recorded DEF Price, TypeOK, settings
  <1>10. CASE Tabulate
    BY <1>0, <1>10, Recorded DEF Tabulate, TypeOK, settings
  <1>11. CASE SetFixingDays
    <2>1. call.lag \in Offsets
      BY <1>0 DEF CallType
    <2> QED
      BY <1>0, <1>11, <2>1, Advanced DEF SetFixingDays, TypeOK
  <1>12. CASE SetCalendar
    <2>1. At("calendar")
      BY <1>12 DEF SetCalendar
    <2>2. call.op = "setCalendarContext" /\ call.pc = 5
      BY <1>0, <2>1, RareAt, ContextAt, CurveAt
    <2>3. call.name \in Calendars
      BY <2>1, <2>2 DEF IInv, ContextInv, At
    <2> QED
      BY <1>0, <1>12, <2>3, Advanced DEF SetCalendar, TypeOK
  <1>13. CASE Throw
    BY <1>0, <1>13, Ended DEF Throw, TypeOK, settings
  <1>14. CASE Return
    BY <1>0, <1>14, Ended DEF Return, TypeOK, settings
  <1>15. ASSUME NEW k \in 1..2, SetSettleDate(k) PROVE TypeOK'
    <2>1. call.s[k] \in Dates
      <3>1. call.s \in Dates \X Dates
        BY <1>0 DEF CallType
      <3>2. k = 1 \/ k = 2
        OBVIOUS
      <3> QED
        BY <3>1, <3>2
    <2> QED
      BY <1>0, <1>15, <2>1, Advanced DEF SetSettleDate, TypeOK
  <1>16. ASSUME NEW k \in 1..2, SetEvaluationDate(k) PROVE TypeOK'
    <2>1. call.d[k] \in Moment
      <3>1. call.d \in Dates \X Dates
        BY <1>0 DEF CallType
      <3>2. k = 1 \/ k = 2
        OBVIOUS
      <3> QED
        BY <1>0, <3>1, <3>2
    <2> QED
      BY <1>0, <1>16, <2>1, Advanced DEF SetEvaluationDate, TypeOK
  <1>17. ASSUME NEW k \in 1..2, BuildHelpers(k) PROVE TypeOK'
    BY <1>0, <1>17, Helped DEF BuildHelpers, TypeOK, settings
  <1>18. ASSUME NEW k \in 1..2, BuildFlat(k) PROVE TypeOK'
    BY <1>0, <1>18, Advanced DEF BuildFlat, TypeOK, settings
  <1>19. CASE Midnight
    <2>1. today + 1 \in Dates
      BY <1>0, <1>19, SessionAssumption DEF Midnight, Dates
    <2> QED
      BY <1>0, <1>19, <2>1 DEF Midnight, TypeOK, settings
  <1>20. ASSUME NEW op \in Ops, Begin(op) PROVE TypeOK'
    BY <1>0, <1>20, Called DEF Begin, TypeOK, settings
  <1>21. CASE UNCHANGED vars
    BY <1>0, <1>21 DEF vars, TypeOK, settings
  <1> QED
    BY <1>1, <1>2, <1>3, <1>4, <1>5, <1>6, <1>7, <1>8, <1>9, <1>10, <1>11,
       <1>12, <1>13, <1>14, <1>15, <1>16, <1>17, <1>18, <1>19, <1>20, <1>21
       DEF Next, Step

-----------------------------------------------------------------------------
(* What an update of the call's record leaves alone.                       *)

LEMMA Unaffected ==
    ASSUME NEW c \in CallType, NEW m, NEW n, NEW k \in 1..2
    PROVE  LET Same(e) == /\ e.op = c.op /\ e.d = c.d /\ e.s = c.s
                          /\ e.name = c.name /\ e.lag = c.lag
                          /\ e.entry = c.entry /\ e.status = c.status
                          /\ e.pc = c.pc + 1
           IN  /\ Same([c EXCEPT !.pc = @ + 1])
               /\ Same([c EXCEPT !.pc = @ + 1, !.saved = m])
               /\ Same([c EXCEPT !.pc = @ + 1, !.base = m])
               /\ Same([c EXCEPT !.pc = @ + 1, !.at = m])
               /\ Same([c EXCEPT !.pc = @ + 1, !.tab = m])
               /\ Same([c EXCEPT !.pc = @ + 1, !.cal = m, !.fix = n])
               /\ Same([c EXCEPT !.pc = @ + 1, !.imm[k] = m])
  BY DEF CallType

\* A step that moves the call on changes nothing the caller passed.
Moved ==
    /\ call'.op = call.op /\ call'.d = call.d /\ call'.s = call.s
    /\ call'.name = call.name /\ call'.lag = call.lag
    /\ call'.entry = call.entry /\ call'.status = call.status
    /\ call'.pc = call.pc + 1

LEMMA StepMoves ==
    ASSUME TypeOK,
           \/ Check \/ getCalendar \/ CopyContext \/ EvaluateToday
           \/ EvaluateAtFixing \/ SaveEvaluationDate
           \/ RestoreEvaluationDate \/ TakeBase \/ Price \/ Tabulate
           \/ SetFixingDays \/ SetCalendar
           \/ \E k \in 1..2 : \/ SetSettleDate(k) \/ SetEvaluationDate(k)
                              \/ BuildHelpers(k) \/ BuildFlat(k)
    PROVE  Moved
  <1>0. call \in CallType
    BY DEF TypeOK
  <1>1. CASE Check
    BY <1>0, <1>1, Unaffected DEF Check, Moved
  <1>2. CASE getCalendar
    BY <1>0, <1>2, Unaffected DEF getCalendar, Moved
  <1>3. CASE CopyContext
    BY <1>0, <1>3, Unaffected DEF CopyContext, Moved
  <1>4. CASE EvaluateToday
    BY <1>0, <1>4, Unaffected DEF EvaluateToday, Moved
  <1>5. CASE EvaluateAtFixing
    BY <1>0, <1>5, Unaffected DEF EvaluateAtFixing, Moved
  <1>6. CASE SaveEvaluationDate
    BY <1>0, <1>6, Unaffected DEF SaveEvaluationDate, Moved
  <1>7. CASE RestoreEvaluationDate
    BY <1>0, <1>7, Unaffected DEF RestoreEvaluationDate, Moved
  <1>8. CASE TakeBase
    BY <1>0, <1>8, Unaffected DEF TakeBase, Moved
  <1>9. CASE Price
    BY <1>0, <1>9, Unaffected DEF Price, Moved
  <1>10. CASE Tabulate
    BY <1>0, <1>10, Unaffected DEF Tabulate, Moved
  <1>11. CASE SetFixingDays
    BY <1>0, <1>11, Unaffected DEF SetFixingDays, Moved
  <1>12. CASE SetCalendar
    BY <1>0, <1>12, Unaffected DEF SetCalendar, Moved
  <1>13. ASSUME NEW k \in 1..2, SetSettleDate(k) PROVE Moved
    BY <1>0, <1>13, Unaffected DEF SetSettleDate, Moved
  <1>14. ASSUME NEW k \in 1..2, SetEvaluationDate(k) PROVE Moved
    BY <1>0, <1>14, Unaffected DEF SetEvaluationDate, Moved
  <1>15. ASSUME NEW k \in 1..2, BuildHelpers(k) PROVE Moved
    BY <1>0, <1>15, Unaffected DEF BuildHelpers, Moved
  <1>16. ASSUME NEW k \in 1..2, BuildFlat(k) PROVE Moved
    BY <1>0, <1>16, Unaffected DEF BuildFlat, Moved
  <1> QED
    BY <1>1, <1>2, <1>3, <1>4, <1>5, <1>6, <1>7, <1>8, <1>9,
       <1>10, <1>11, <1>12, <1>13, <1>14, <1>15, <1>16

LEMMA ContextStep == IInv /\ [Next]_vars => ContextInv'
  <1> SUFFICES ASSUME IInv, [Next]_vars PROVE ContextInv'
    OBVIOUS
  <1>0. TypeOK /\ ContextInv /\ call \in CallType
    BY DEF IInv, TypeOK
  <1>1. CASE Check
    BY <1>0, <1>1, ContextAt, StepMoves, Unaffected
       DEF Check, Moved, ContextInv, settings
  <1>2. CASE getCalendar
    BY <1>0, <1>2, ContextAt, StepMoves, Unaffected
       DEF getCalendar, Moved, ContextInv, settings
  <1>3. CASE CopyContext
    BY <1>0, <1>3, ContextAt, StepMoves, Unaffected
       DEF CopyContext, Moved, ContextInv, settings
  <1>4. CASE EvaluateToday
    BY <1>0, <1>4, ContextAt, StepMoves, Unaffected
       DEF EvaluateToday, Moved, ContextInv, settings
  <1>5. CASE EvaluateAtFixing
    BY <1>0, <1>5, ContextAt, StepMoves, Unaffected
       DEF EvaluateAtFixing, Moved, ContextInv, settings
  <1>6. CASE SaveEvaluationDate
    BY <1>0, <1>6, ContextAt, StepMoves, Unaffected
       DEF SaveEvaluationDate, Moved, ContextInv, settings
  <1>7. CASE RestoreEvaluationDate
    BY <1>0, <1>7, ContextAt, StepMoves, Unaffected
       DEF RestoreEvaluationDate, Moved, ContextInv, settings
  <1>8. CASE TakeBase
    BY <1>0, <1>8, ContextAt, StepMoves, Unaffected
       DEF TakeBase, Moved, ContextInv, settings
  <1>9. CASE Price
    BY <1>0, <1>9, ContextAt, StepMoves, Unaffected
       DEF Price, Moved, ContextInv, settings
  <1>10. CASE Tabulate
    BY <1>0, <1>10, ContextAt, StepMoves, Unaffected
       DEF Tabulate, Moved, ContextInv, settings
  <1>11. CASE SetFixingDays
    BY <1>0, <1>11, ContextAt, StepMoves, Unaffected
       DEF SetFixingDays, Moved, ContextInv, settings
  <1>12. CASE SetCalendar
    BY <1>0, <1>12, ContextAt, StepMoves, Unaffected
       DEF SetCalendar, Moved, ContextInv, settings
  <1>13. ASSUME NEW k \in 1..2, SetSettleDate(k) PROVE ContextInv'
    BY <1>0, <1>13, ContextAt, StepMoves
       DEF SetSettleDate, Moved, ContextInv, settings, settleStep
  <1>14. ASSUME NEW k \in 1..2, SetEvaluationDate(k) PROVE ContextInv'
    BY <1>0, <1>14, ContextAt, StepMoves
       DEF SetEvaluationDate, Moved, ContextInv, settings, evalStep
  <1>15. ASSUME NEW k \in 1..2, BuildHelpers(k) PROVE ContextInv'
    BY <1>0, <1>15, ContextAt, StepMoves
       DEF BuildHelpers, Moved, ContextInv, settings, buildStep
  <1>16. ASSUME NEW k \in 1..2, BuildFlat(k) PROVE ContextInv'
    BY <1>0, <1>16, ContextAt, StepMoves
       DEF BuildFlat, Moved, ContextInv, settings, buildStep
  <1>17. CASE Throw
    BY <1>0, <1>17 DEF Throw, CallType, ContextInv, settings
  <1>18. CASE Return
    BY <1>0, <1>18 DEF Return, CallType, ContextInv, settings
  <1>19. CASE Midnight
    BY <1>0, <1>19 DEF Midnight, ContextInv, settings
  <1>20. ASSUME NEW op \in Ops, Begin(op) PROVE ContextInv'
    BY <1>0, <1>20 DEF Begin, NewCall, Entry, TypeOK, ContextInv, settings
  <1>21. CASE UNCHANGED vars
    BY <1>0, <1>21 DEF vars, settings, ContextInv
  <1> QED
    BY <1>1, <1>2, <1>3, <1>4, <1>5, <1>6, <1>7, <1>8, <1>9, <1>10,
       <1>11, <1>12, <1>13, <1>14, <1>15, <1>16, <1>17, <1>18, <1>19, <1>20,
       <1>21
       DEF Next, Step

LEMMA CurveStep == IInv /\ [Next]_vars => CurveInv'
  <1> SUFFICES ASSUME IInv, [Next]_vars PROVE CurveInv'
    OBVIOUS
  <1>0. TypeOK /\ CurveInv /\ call \in CallType
    BY DEF IInv, TypeOK
  <1>1. CASE Check
    BY <1>0, <1>1, CurveAt, StepMoves, Unaffected
       DEF Check, Moved, CurveInv, settings, SavedFromEntry
  <1>2. CASE getCalendar
    BY <1>0, <1>2, CurveAt, StepMoves, Unaffected
       DEF getCalendar, Moved, CurveInv, settings, SavedFromEntry
  <1>3. CASE CopyContext
    BY <1>0, <1>3, CurveAt, StepMoves, Unaffected
       DEF CopyContext, Moved, CurveInv, settings, SavedFromEntry
  <1>4. CASE EvaluateToday
    BY <1>0, <1>4, CurveAt, StepMoves, Unaffected
       DEF EvaluateToday, Moved, CurveInv, settings, SavedFromEntry
  <1>5. CASE EvaluateAtFixing
    BY <1>0, <1>5, CurveAt, StepMoves, Unaffected
       DEF EvaluateAtFixing, Moved, CurveInv, settings, SavedFromEntry
  <1>6. CASE SaveEvaluationDate
    <2> SUFFICES ASSUME call.op = "discountCurveEngine"
                 PROVE  CurveInv'
      BY <1>0, <1>6, StepMoves DEF Moved, CurveInv
    <2>1. At("save") /\ call.pc = 3 /\ call.status = "running"
      BY <1>6, CurveAt DEF SaveEvaluationDate, At
    <2>2. call'.saved = EvaluationDate /\ call'.at = call.at
      BY <1>0, <1>6 DEF SaveEvaluationDate, CallType
    <2>3. evalDate = call.entry.evalDate /\ call.entry.today <= today
      BY <1>0, <2>1 DEF CurveInv
    <2>4. call.entry.today \in Nat /\ today \in Nat
      BY <1>0 DEF TypeOK, CallType, Dates
    <2>5. SavedFromEntry'
      BY <1>0, <1>6, <2>2, <2>3, <2>4, StepMoves
         DEF SavedFromEntry, EvaluationDate, Moved, SaveEvaluationDate
    <2> QED
      BY <1>0, <1>6, <2>1, <2>5, StepMoves
         DEF SaveEvaluationDate, Moved, CurveInv, settings
  <1>7. CASE RestoreEvaluationDate
    BY <1>0, <1>7, CurveAt, StepMoves, Unaffected
       DEF RestoreEvaluationDate, Moved, CurveInv, settings, SavedFromEntry
  <1>8. CASE TakeBase
    BY <1>0, <1>8, CurveAt, StepMoves, Unaffected
       DEF TakeBase, Moved, CurveInv, settings, SavedFromEntry
  <1>9. CASE Price
    <2>1. /\ At("price") /\ call'.at = EvaluationDate
          /\ call'.saved = call.saved
      BY <1>0, <1>9 DEF Price, CallType
    <2>2. None \notin Dates /\ call.d[1] \in Dates
      BY <1>0, SessionAssumption DEF CallType, Dates
    <2> QED
      BY <1>0, <1>9, <2>1, <2>2, CurveAt, StepMoves
         DEF Price, Moved, CurveInv, settings, SavedFromEntry, EvaluationDate
  <1>10. CASE Tabulate
    <2>1. /\ At("table") /\ call'.tab = EvaluationDate
          /\ call'.saved = call.saved /\ call'.at = call.at
      BY <1>0, <1>10 DEF Tabulate, CallType
    <2> SUFFICES ASSUME call.op = "discountCurveEngine"
                 PROVE  CurveInv'
      BY <1>0, <1>10, StepMoves DEF Moved, CurveInv
    <2>2. call.pc = 10 /\ call.status = "running" /\ evalDate = call.saved
      BY <1>0, <2>1, CurveAt DEF CurveInv, At
    <2>3. evalDate # None
      <3>1. call.entry.evalDate # None => call.saved = call.entry.evalDate
        BY <1>0, <2>2 DEF CurveInv, SavedFromEntry
      <3>2. call.entry.evalDate = None =>
              call.saved \in call.entry.today..today
        BY <1>0, <2>2 DEF CurveInv, SavedFromEntry
      <3>3. call.entry.today \in Nat /\ today \in Nat /\ None \notin Nat
        BY <1>0, SessionAssumption DEF TypeOK, CallType, Dates
      <3> QED
        BY <2>2, <3>1, <3>2, <3>3
    <2> QED
      BY <1>0, <1>10, <2>1, <2>2, <2>3, StepMoves
         DEF Tabulate, Moved, CurveInv, settings, SavedFromEntry,
             EvaluationDate
  <1>11. CASE SetFixingDays
    BY <1>0, <1>11, CurveAt, StepMoves, Unaffected
       DEF SetFixingDays, Moved, CurveInv, settings, SavedFromEntry
  <1>12. CASE SetCalendar
    BY <1>0, <1>12, CurveAt, StepMoves, Unaffected
       DEF SetCalendar, Moved, CurveInv, settings, SavedFromEntry
  <1>13. ASSUME NEW k \in 1..2, SetSettleDate(k) PROVE CurveInv'
    BY <1>0, <1>13, CurveAt, StepMoves
       DEF SetSettleDate, Moved, CurveInv, settings, settleStep, SavedFromEntry
  <1>14. ASSUME NEW k \in 1..2, SetEvaluationDate(k) PROVE CurveInv'
    BY <1>0, <1>14, CurveAt, StepMoves
       DEF SetEvaluationDate, Moved, CurveInv, settings, evalStep, SavedFromEntry
  <1>15. ASSUME NEW k \in 1..2, BuildHelpers(k) PROVE CurveInv'
    BY <1>0, <1>15, CurveAt, StepMoves
       DEF BuildHelpers, Moved, CurveInv, settings, buildStep, SavedFromEntry
  <1>16. ASSUME NEW k \in 1..2, BuildFlat(k) PROVE CurveInv'
    BY <1>0, <1>16, CurveAt, StepMoves
       DEF BuildFlat, Moved, CurveInv, settings, buildStep, SavedFromEntry
  <1>17. CASE Throw
    BY <1>0, <1>17 DEF Throw, CallType, CurveInv, settings
  <1>18. CASE Return
    <2>1. /\ call'.op = call.op /\ call'.pc = call.pc
          /\ call'.entry = call.entry /\ call'.d = call.d /\ call'.s = call.s
          /\ call'.saved = call.saved /\ call'.at = call.at
          /\ call'.tab = call.tab /\ call.status = "running"
      BY <1>0, <1>18 DEF Return, CallType
    <2>2. call.op = "discountCurveEngine" => call.pc = 11
      <3> SUFFICES ASSUME call.op = "discountCurveEngine" PROVE call.pc = 11
        OBVIOUS
      <3>1. Len(Code["discountCurveEngine"]) = 10
        BY CurveCode
      <3>2. Len(Code[call.op]) = 10
        BY <3>1
      <3>3. call.pc = Len(Code[call.op]) + 1
        BY <1>18 DEF Return
      <3> QED
        BY <3>2, <3>3
    <2> QED
      BY <1>0, <1>18, <2>1, <2>2
         DEF Return, CurveInv, SavedFromEntry, settings
  <1>19. CASE Midnight
    BY <1>0, <1>19 DEF Midnight, CallType, TypeOK, Dates, CurveInv,
       SavedFromEntry, settings
  <1>20. ASSUME NEW op \in Ops, Begin(op) PROVE CurveInv'
    <2>1. PICK args \in Arguments(op) : call' = NewCall(op, args)
      BY <1>20 DEF Begin
    <2>2. /\ call'.pc = 1 /\ call'.status = "running"
          /\ call'.entry = [evalDate |-> evalDate, settleDate |-> settleDate,
                            calendar |-> calendar,
                            fixingDays |-> fixingDays, today |-> today]
      BY <2>1 DEF NewCall, Entry
    <2>3. today \in Nat
      BY <1>0 DEF TypeOK, Dates
    <2> QED
      BY <1>20, <2>2, <2>3 DEF Begin, CurveInv, settings
  <1>21. CASE UNCHANGED vars
    BY <1>0, <1>21 DEF vars, settings, CurveInv, SavedFromEntry
  <1> QED
    BY <1>1, <1>2, <1>3, <1>4, <1>5, <1>6, <1>7, <1>8, <1>9, <1>10,
       <1>11, <1>12, <1>13, <1>14, <1>15, <1>16, <1>17, <1>18, <1>19, <1>20,
       <1>21
       DEF Next, Step

LEMMA InitIInv == Init => IInv
  <1> SUFFICES ASSUME Init PROVE IInv
    OBVIOUS
  <1>1. call.status = "idle"
    BY DEF Init, NewCall
  <1> QED
    BY <1>1, TypeInit DEF IInv, ContextInv, CurveInv

LEMMA StepIInv == IInv /\ [Next]_vars => IInv'
  BY TypeStep, ContextStep, CurveStep DEF IInv

LEMMA AlwaysIInv == Spec => []IInv
  BY InitIInv, StepIInv, PTL DEF Spec

-----------------------------------------------------------------------------
(* The theorems.                                                           *)

\* No sequence of calls, failures and midnights puts a setting outside its
\* type: setCalendarContext never stores a calendar getCalendar does not know
\* and no zero-coupon engine stores a date that does not exist.
THEOREM TypeCorrect == Spec => []TypeOK
  <1>1. IInv => TypeOK
    BY DEF IInv
  <1> QED
    BY AlwaysIInv, <1>1, PTL

\* A discount curve that is returned was computed under its own trade date
\* and left the evaluation date it found, whatever ran before it.
THEOREM CurveRestores == Spec => []DiscountCurveRestores
  <1>1. IInv => DiscountCurveRestores
    <2> SUFFICES ASSUME IInv, call.op = "discountCurveEngine",
                        call.status = "returned"
                 PROVE  DiscountCurveRestores
      BY DEF DiscountCurveRestores
    <2>1. /\ call.pc = 11 /\ SavedFromEntry /\ evalDate = call.saved
          /\ call.at = call.d[1] /\ call.tab = evalDate
          /\ settleDate = call.s[1] /\ calendar = call.entry.calendar
          /\ fixingDays = call.entry.fixingDays
      BY DEF IInv, CurveInv
    <2> QED
      BY <2>1 DEF DiscountCurveRestores, SavedFromEntry
  <1> QED
    BY AlwaysIInv, <1>1, PTL

\* Nothing but the fourth step of setCalendarContext changes the context's
\* calendar, and its days are stored by then.
LEMMA CalendarStepAfterDays ==
    IInv /\ [Next]_vars =>
        (calendar' # calendar =>
            /\ call.op = "setCalendarContext"
            /\ fixingDays = call.lag
            /\ settleDate = call.s[1])
  <1> SUFFICES ASSUME IInv, [Next]_vars, calendar' # calendar
               PROVE  /\ call.op = "setCalendarContext"
                      /\ fixingDays = call.lag
                      /\ settleDate = call.s[1]
    OBVIOUS
  <1>1. SetCalendar
    BY DEF Next, Step, vars, settings, Check, getCalendar, CopyContext,
           EvaluateToday, EvaluateAtFixing, SaveEvaluationDate,
           RestoreEvaluationDate, TakeBase, Price, Tabulate, SetFixingDays,
           Throw, Return, SetSettleDate, SetEvaluationDate, BuildHelpers,
           BuildFlat, Midnight, Begin
  <1>2. At("calendar")
    BY <1>1 DEF SetCalendar
  <1>3. call.op = "setCalendarContext" /\ call.pc = 5
    BY <1>2, RareAt, ContextAt, CurveAt DEF IInv
  <1> QED
    BY <1>2, <1>3 DEF IInv, ContextInv, At

THEOREM CalendarFollowsDays == Spec => CalendarAfterDays
  <1>1. IInv /\ [Next]_vars =>
          [calendar' # calendar =>
             /\ call.op = "setCalendarContext"
             /\ fixingDays = call.lag
             /\ settleDate = call.s[1]]_vars
    BY CalendarStepAfterDays
  <1> QED
    BY AlwaysIInv, <1>1, PTL DEF Spec, CalendarAfterDays

\* A pinned evaluation date stays pinned: the only date an engine puts back,
\* discountCurveEngine's, was read through the proxy and is a day.
LEMMA PinnedStep ==
    IInv /\ [Next]_vars => (evalDate # None => evalDate' # None)
  <1> SUFFICES ASSUME IInv, [Next]_vars, evalDate # None
               PROVE  evalDate' # None
    OBVIOUS
  <1>0. /\ None \notin Dates /\ today \in Dates
        /\ call.d \in Dates \X Dates
    BY SessionAssumption DEF IInv, TypeOK, CallType, Dates
  <1>1. CASE EvaluateToday
    BY <1>0, <1>1 DEF EvaluateToday
  <1>2. CASE EvaluateAtFixing
    BY <1>2 DEF EvaluateAtFixing
  <1>3. CASE RestoreEvaluationDate
    <2>1. At("restore")
      BY <1>3 DEF RestoreEvaluationDate
    <2>2. /\ call.op = "discountCurveEngine" /\ call.pc = 9
          /\ call.status = "running"
      BY <2>1, RareAt, ContextAt, CurveAt DEF IInv, At
    <2>3. SavedFromEntry
      BY <2>2 DEF IInv, CurveInv
    <2>4. call.saved # None
      <3>1. call.entry.today \in Nat /\ today \in Nat /\ None \notin Nat
        BY SessionAssumption DEF IInv, TypeOK, CallType, Dates
      <3> QED
        BY <2>3, <3>1 DEF SavedFromEntry
    <2> QED
      BY <1>3, <2>4 DEF RestoreEvaluationDate
  <1>4. ASSUME NEW k \in 1..2, SetEvaluationDate(k) PROVE evalDate' # None
    <2>1. k = 1 \/ k = 2
      OBVIOUS
    <2>2. call.d[k] \in Dates
      BY <1>0, <2>1
    <2> QED
      BY <1>0, <1>4, <2>2 DEF SetEvaluationDate
  <1>5. CASE UNCHANGED evalDate
    BY <1>5
  <1> QED
    BY <1>1, <1>2, <1>3, <1>4, <1>5
       DEF Next, Step, vars, settings, Check, getCalendar, CopyContext,
           SaveEvaluationDate, TakeBase, Price, Tabulate, SetFixingDays,
           SetCalendar, Throw, Return, SetSettleDate, BuildHelpers,
           BuildFlat, Midnight, Begin

THEOREM StaysPinned == Spec => PinnedForGood
  <1>1. IInv /\ [Next]_vars => [evalDate # None => evalDate' # None]_vars
    BY PinnedStep
  <1> QED
    BY AlwaysIInv, <1>1, PTL DEF Spec, PinnedForGood
=============================================================================
