--------------------------------- MODULE MCRisk ---------------------------------
(* Small instances of Risk for TLC. *)
EXTENDS Risk, TLC

Symmetry == Permutations(Positions)

\* Longs bought high and shorts sold low, so that one falling price can be due to both;
\* one of the positions is a long.
LosingInit ==
    /\ Init
    /\ \A p \in Positions : terms[p].entry = IF terms[p].side = "Long" THEN 200 ELSE 160
    /\ \E p \in Positions : terms[p].side = "Long"

LosingSpec == LosingInit /\ [][Next]_vars
=================================================================================
