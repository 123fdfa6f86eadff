------------------------------ MODULE MCGossip ------------------------------
(* Gossip for TLC. *)
EXTENDS Gossip

\* As many losses as can keep a message from a node when rounds reach all peers.
JustEnough(r) == (Cardinality(Node) - 1) * r

\* With one write the nodes are alike, so node 1 is where it is put.
PutAtOne == \A m \in Writes(Published) : m.sender = 1
-----------------------------------------------------------------------------
\* Reductions: what can be left out, or done at once, without a difference to any node.

\* The nodes that have m, or will get it.
Reached(m) == {p \in Node : m \in seen[p] \/ m \in Arriving(p)}

\* To lose a copy for a node that has the message, or gets it from another, changes nothing,
\* and to lose copies of several messages keeps none of them from a node.
OnlyNewsIsLost ==
    \A c \in lost' \ lost : /\ c.to \notin Reached(c.msg)'
                            /\ \A d \in lost' : d.msg = c.msg

\* A round for a message that reaches every node anyway brings nobody anything, at any
\* time: it is run before all else, and of several a fixed one first.
IdleRounds == {t \in timers : Reached(t.msg) = Node}
IdleRoundsFirst ==
    IdleRounds # {} => LET t == CHOOSE t \in IdleRounds : TRUE
                       IN  UNCHANGED vars /\ t \notin timers' /\ timers \ {t} \subseteq timers'
=============================================================================
