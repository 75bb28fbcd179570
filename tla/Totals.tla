--------------------------------- MODULE Totals ---------------------------------
(***************************************************************************)
(* Sums over finite sets of quantities given as a function: the amounts of *)
(* an order's trades, what the orders of a level have left to sell.        *)
(***************************************************************************)
EXTENDS Integers, FiniteSets, Folds

\* The sum of v[x] over the x in S.
SumOver(v, S) ==
    MapThenFoldSet(+, 0, LAMBDA x : v[x], LAMBDA T : CHOOSE x \in T : TRUE, S)

=================================================================================
