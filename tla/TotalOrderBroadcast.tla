------------------------ MODULE TotalOrderBroadcast ------------------------
(***************************************************************************)
(* What a totally ordered replication algorithm of the package promises,   *)
(* whatever its messages: writes put by clients are placed, one after the  *)
(* other, in a single order, and every node applies a growing prefix of    *)
(* that order to its store.  One event of the simulator (a client call, a  *)
(* message delivery or a timer, which a node handles without interruption) *)
(* may submit a write, order it and let one node apply it all at once.     *)
(*                                                                         *)
(* The order is not a variable of any node: an implementation says which   *)
(* part of its state stands for it.                                        *)
(***************************************************************************)
EXTENDS SequencesExt

CONSTANTS Node,     \* the members of the cluster
          Write     \* the writes clients may put, one identity per client_put

VARIABLES submitted,    \* the writes put so far
          order,        \* the single order of the writes ordered so far
          delivered     \* delivered[n]: the writes node n has applied, in order

vars == <<submitted, order, delivered>>

TypeOK ==
    /\ submitted \in SUBSET Write
    /\ order \in Seq(Write)
    /\ delivered \in [Node -> Seq(Write)]

Init ==
    /\ submitted = {}
    /\ order = <<>>
    /\ delivered = [n \in Node |-> <<>>]

Submit == \E w \in Write \ submitted : submitted' = submitted \union {w}

(* The order is extended at its end only, by writes that were put and are not in it yet. *)
Extend ==
    /\ order' \in Seq(Write)
    /\ IsPrefix(order, order')
    /\ IsInjective(order')
    /\ Range(order') \subseteq submitted'

(* Node n applies the next writes of the order, skipping none. *)
Deliver(n) ==
    \E k \in Len(delivered[n]) + 1 .. Len(order') :
        delivered' = [delivered EXCEPT ![n] = SubSeq(order', 1, k)]

Next ==
    /\ Submit \/ UNCHANGED submitted
    /\ Extend
    /\ (\E n \in Node : Deliver(n)) \/ UNCHANGED delivered

Spec == Init /\ [][Next]_vars
-----------------------------------------------------------------------------
(* Any two nodes have applied the same writes in the same order, as far as both have got. *)
Agreement ==
    \A m, n \in Node : \/ IsPrefix(delivered[m], delivered[n])
                       \/ IsPrefix(delivered[n], delivered[m])

(* No node applies a write twice, and none applies a write nobody put. *)
Integrity ==
    \A n \in Node : /\ IsInjective(delivered[n])
                    /\ Range(delivered[n]) \subseteq submitted

(* Every write that was put is applied by every node in the end. *)
Validity ==
    \A w \in Write : w \in submitted ~> \A n \in Node : w \in Range(delivered[n])
=============================================================================
