------------------------------ MODULE MCSabrCube ------------------------------
(***************************************************************************)
(* Tables of seven expiries, six tenors and five strikes: complete ones,   *)
(* one whose low strikes run out at the short end, one with holes, one     *)
(* with nothing at or below the money.  Day 366 is a year after the trade  *)
(* and a holiday everywhere; day 400 only of TARGET.  Days 45 and 1506 are *)
(* 29ths of February: a swap from the first of them may end on the second. *)
(* Days 410 and 733 are a year after the start on day 45 and on day 368.   *)
(***************************************************************************)
EXTENDS SabrCube, TLC

MCExpiries == <<1, 3, 6, 12, 24, 36, 48>>
MCTenors == <<1, 2, 5, 10, 15, 20>>
MCSpreads == <<-50, -25, 0, 25, 50>>

MCLeapDays == {45, 1506, 2967, 4428, 5889}
MCUsMoves == 366 :> 368 @@ 2194 :> 2195
MCTargetMoves == 366 :> 368 @@ 400 :> 401 @@ 765 :> 763 @@ 3000 :> 3002

Complete == Cells
Stairs == {c \in Cells : c[1] + c[2] + 2 * c[3] >= 7}
Holes == Cells \ {<<4, 3, 3>>, <<4, 3, 1>>, <<6, 4, 2>>, <<5, 5, 1>>}
AboveTheMoney == {c \in Cells : c[3] >= 4}

Ask(s, e, m) ==
    [start |-> s, expiry |-> e, maturity |-> m, settle |-> 2,
     european |-> TRUE, vega |-> FALSE, isCurve |-> TRUE,
     tsUp01 |-> FALSE, tsDn01 |-> FALSE, quoted |-> Complete,
     roundsDown |-> FALSE]

DateAsks ==
    {[Ask(s, e, m) EXCEPT !.european = u, !.settle = l, !.roundsDown = r,
                          !.quoted = q] :
        s \in {None, 45, 368, 400}, e \in {None, 20, 31, 200, 410, 733, 770, 1510},
        m \in {None, 400, 730, 1133, 1600, 2200, 4018, 8000},
        u, r \in BOOLEAN, l \in {2, 20}, q \in {Complete, Stairs}}

TableAsks ==
    {[Ask(400, e, m) EXCEPT !.quoted = q] :
        e \in {31, 200, 400, 730, 1500}, m \in {1200, 1900, 2300, 4500},
        q \in {Stairs, Holes, AboveTheMoney, {}}}

ScenarioAsks ==
    {[Ask(None, e, None) EXCEPT !.european = u, !.vega = v, !.isCurve = c,
                                !.tsUp01 = x, !.tsDn01 = y] :
        e \in {None, 770}, u, v, c, x, y \in BOOLEAN}

MCAsks == DateAsks \cup TableAsks \cup ScenarioAsks
=============================================================================
