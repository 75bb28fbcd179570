--------------------------- MODULE MCMatchingEngine ---------------------------
(* Small instances of MatchingEngine for TLC. *)
EXTENDS MatchingEngine, TLC

OrderSymmetry == Permutations(Orders)

\* The run of all properties, without symmetry, keeps to one order that buys 2 and
\* others that sell 1 or 2, at most one of the three a market order: the buyer may make
\* more trades than the channel holds before or after it rests, be counted for more
\* than it has left, or be rejected or dropped.
FewRequests ==
    /\ \A o \in Orders : request[o].side = "Buy" => request[o].quantity = 2
    /\ Cardinality({o \in Orders : request[o].side = "Buy"}) = 1
    /\ Cardinality({o \in Orders : request[o].type = "Market"}) <= 1

LiveInit == EngineInit /\ FewRequests

LiveSpec == LiveInit /\ [][EngineNext]_engineVars /\ EngineFairness
===============================================================================
