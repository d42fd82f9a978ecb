---------------------------- MODULE MCSwaptionGrid ----------------------------
(***************************************************************************)
(* Swaptions of up to ten years over grids that begin late, end early,     *)
(* have gaps, have half years, or are longer in one direction than in the  *)
(* other, and matrices with no zero volatility, with one and with several. *)
(***************************************************************************)
EXTENDS SwaptionGrid

WholeYears ==
    {<<6, 12, 18>>, <<6, 12, 18, 24, 30>>, <<12, 24>>, <<6, 30, 42>>, <<18, 60>>}
MCGrids == WholeYears \cup {<<3, 9, 12>>}
MCZeros == {{}, {<<1, 1>>}, {<<2, 2>>}, {1, 2} \X {2, 3}}
=============================================================================
