------------------------------ MODULE MCOrderBook ------------------------------
(* Small instances of OrderBook for TLC. *)
EXTENDS OrderBook_proofs, TLC

OrderSymmetry == Permutations(Orders)
===============================================================================
