-------------------------- MODULE LamportCausality --------------------------
(***************************************************************************)
(* LamportOrder with a history variable: what the node of a client had     *)
(* heard of when the client put its write.                                 *)
(***************************************************************************)
EXTENDS LamportOrder

VARIABLE known      \* known[w]: the writes the node that put w had accepted or put before

CausalInit == Init /\ known = [w \in Write |-> {}]

Remember ==
    known' = [w \in Write |->
                IF w \in Submitted' \ Submitted
                THEN Ids(Writes(seen[CHOOSE n \in Node : w \in Ids(Writes(seen'[n]))]))
                ELSE known[w]]

CausalNext == Next /\ Remember

CausalSpec == CausalInit /\ [][CausalNext]_<<vars, known>>

(* The order is causal: a write put by a client of a node that had accepted another write *)
(* is applied after it, everywhere (receive_and_replicate: the clock passes every         *)
(* timestamp seen).                                                                       *)
CausalOrder ==
    \A n \in Node : \A i, j \in DOMAIN log[n] : log[n][i] \in known[log[n][j]] => i < j
=============================================================================
