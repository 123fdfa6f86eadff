---------------------------- MODULE MCSimNetwork ----------------------------
(* SimNetwork for TLC: three nodes, of which the partition names one. *)
EXTENDS SimNetwork

CONSTANTS n1, n2, n3

Cut == [kind |-> "partition", groups |-> {{n1}}]

AllRules ==
    {[kind |-> "delay"], [kind |-> "drop"], [kind |-> "duplicate"], [kind |-> "custom"], Cut}

DuplicateOnly == {[kind |-> "duplicate"]}

Symmetry == Permutations({n2, n3})
=============================================================================
