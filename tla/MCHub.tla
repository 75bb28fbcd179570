---------------------------------- MODULE MCHub ----------------------------------
(* Small instances of Hub for TLC. *)
EXTENDS Hub, TLC

\* Every set of topics, the empty one of a ping included.
AllTopicSets == SUBSET Topics
==================================================================================
