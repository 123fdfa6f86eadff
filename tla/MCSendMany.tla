----------------------------- MODULE MCSendMany -----------------------------
(* SendMany for TLC: three writes and two faults, but two writes and one fault where every *)
(* node sends every write again.                                                           *)
EXTENDS SendMany

Writes == [NodeMultiLeader |-> 3, NodeEagerBroadcast |-> 2, NodeSingleLeader |-> 3]
Faults == [NodeMultiLeader |-> 2, NodeEagerBroadcast |-> 1, NodeSingleLeader |-> 2]

Symmetry == Permutations(Node \ {LeaderId})
=============================================================================
