------------------------------ MODULE MCConvert ------------------------------
(* A small instance of ConvertScreen: STOP, of which there is less than of *)
(* the credit, and B3TR, of which there is more.                           *)
EXTENDS ConvertScreen, TLC

CONSTANTS c1, c2, c3, stop, b3tr

MCTokens == {stop, b3tr}
MCTokenAmount == (stop :> 1 @@ b3tr :> 4)

MCThree == {c1, c2, c3}
MCTwo == {c1, c2}
MCSymmetry == Permutations(MCThree)
=============================================================================
