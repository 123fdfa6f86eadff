---------------------------- MODULE MCTotalOrder ----------------------------
(* NodeTotalOrder on a small cluster, for TLC. *)
EXTENDS TotalOrder, TLC

CONSTANTS n1, n2, n3, w1, w2, w3

(* The followers and the writes are interchangeable; the leader is not. *)
Symmetry == Permutations(Node \ {Leader}) \union Permutations(Write)
=============================================================================
