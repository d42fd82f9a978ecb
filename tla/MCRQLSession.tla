---------------------------- MODULE MCRQLSession ----------------------------
(***************************************************************************)
(* Three days, two calendars and one name nobody knows.  Day 1 is a        *)
(* holiday of the second calendar, so the two calendars retreat            *)
(* differently; retreating past day 0 is a date QuantLib refuses.          *)
(***************************************************************************)
EXTENDS SessionRefinement, FiniteSets

MCMaxDay == 2
MCGiven == 0..2
MCTwoGiven == {0, 2}
MCCalendars == {"TARGET", "Germany"}
MCNames == MCCalendars \cup {"Atlantis"}
MCOffsets == {1, 2}

BusinessDays(cal) == IF cal = "TARGET" THEN 0..MCMaxDay ELSE {0, 2}

\* The n-th business day before day d.
MCRetreat ==
    [q \in MCCalendars \X (0..MCMaxDay) \X MCOffsets |->
        LET earlier == {e \in BusinessDays(q[1]) : e < q[2]}
            hit == {e \in earlier :
                      Cardinality({f \in earlier : f >= e}) = q[3]}
        IN  IF hit = {} THEN None ELSE CHOOSE e \in hit : TRUE]

\* Engines that build two curves in one call, and one that builds one.
TwoCurveOps ==
    {"setEvaluationDate", "FloatBond1", "FloatBond2", "FloatBond3",
     "FloatBond4", "affineWithRebuiltCurveEngine"}

\* Every other operation of the package, in one session.
EngineOps == (DOMAIN Code \ TwoCurveOps) \cup {"setEvaluationDate"}

OptionOps ==
    {"setEvaluationDate", "europeanOptionEngine",
     "europeanOptionArraysEngine", "asianOptionEngine"}

CurveAlone == {"setEvaluationDate", "discountCurveEngine"}
=============================================================================
