---------------------------- MODULE MCFuturesEngine ----------------------------
(* Small instances of FuturesEngine for TLC. *)
EXTENDS FuturesEngine_proofs, TLC

\* Below 0 and 0: CreateOrder lets both in.
FuturesPrices == {-1, 0}

Symmetry == Permutations(Orders) \cup Permutations(Holders)
================================================================================
