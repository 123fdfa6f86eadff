------------------------------- MODULE Gossip -------------------------------
(***************************************************************************)
(* NodeTotalOrderGossip (nodes/node_total_order_gossip.py): the total      *)
(* order of LamportOrder, whose code it repeats but for the sending.  A    *)
(* node that sees a message for the first time sends it to a few random    *)
(* peers, at once and again in later rounds, 100 ms apart; nothing is      *)
(* acknowledged or resent beyond that.                                     *)
(*                                                                         *)
(* One round to all peers is what NodeTotalOrderEagerBroadcast does, so    *)
(* its progress is the case numRounds = 1, NumPeers >= the other nodes.    *)
(*                                                                         *)
(* What the rules of the network lose, they lose at the send.  A copy that *)
(* the network has taken may come at any time and any number of times: a   *)
(* rule may duplicate it, and rounds and relays bring the same message.    *)
(***************************************************************************)
EXTENDS LamportOrder

CONSTANTS
    NumPeers,   \* num_gossip_peers
    NumRounds,  \* the values of num_gossip_rounds
    Losses(_)   \* bound: Losses(r) copies may be lost, at most, with r rounds

ASSUME PeersAndRounds == NumPeers \in Nat /\ NumRounds \subseteq Nat \ {0}
ASSUME LossesAreNatural == \A r \in NumRounds : Losses(r) \in Nat

VARIABLES
    numRounds,  \* num_gossip_rounds, the same for every node
    timers,     \* the rounds to come
    network,    \* the copies sent and not lost
    lost        \* the copies lost

gossipVars == <<vars, numRounds, timers, network, lost>>

GossipInit ==
    /\ Init
    /\ numRounds \in NumRounds
    /\ timers = {}
    /\ network = {}
    /\ lost = {}
-----------------------------------------------------------------------------
(* The copy of m that p sends to q in a round. *)
Copy(m, p, round, q) == [msg |-> m, from |-> p, round |-> round, to |-> q]

(* random.sample: the sets of peers a round of n may choose. *)
Selections(n) ==
    LET others == Node \ {n}
        count == IF NumPeers < Cardinality(others) THEN NumPeers ELSE Cardinality(others)
    IN  kSubset(count, others)

(* The sends of n's round of that number: each message in M to the peers chosen for it. *)
Send(n, M, round) ==
    \E chosen \in [M -> Selections(n)] :
        LET copies == UNION {{Copy(m, n, round, p) : p \in chosen[m]} : m \in M}
        IN  \E dropped \in SUBSET copies :
                /\ lost' = lost \union dropped
                /\ Cardinality(lost') =< Losses(numRounds)
                /\ network' = network \union (copies \ dropped)

(* _gossip_round by n, the round of that number, for each message in M: send it, and arm *)
(* a timer for the next round if there is one.  armed are the other timers.              *)
GossipOnce(n, M, round, armed) ==
    /\ Send(n, M, round)
    /\ timers' = armed
    /\ UNCHANGED numRounds
GossipRound(n, M, round, armed) ==
    /\ Send(n, M, round)
    /\ timers' = IF round < numRounds /\ Node # {n}
                 THEN armed \union {[node |-> n, msg |-> m, next |-> round + 1] : m \in M}
                 ELSE armed
    /\ UNCHANGED numRounds

(* What n sees for the first time in a step, and gossips: a message of another node and *)
(* what it published itself.                                                            *)
JustPublished(n) == {m \in seen'[n] \ seen[n] : m.sender = n}
JustSeen(n) == seen'[n] \ seen[n]

(* client_put. *)
GossipPut(w, n) ==
    /\ ClientPut(w, n)
    /\ GossipRound(n, JustSeen(n), 1, timers)

(* The messages that copies bring to n, for the first time or again. *)
Arriving(n) == {c.msg : c \in {x \in network : x.to = n}}

GossipReceive(n) ==
    \/ Arriving(n) \intersect seen[n] # {} /\ UNCHANGED gossipVars
    \/ \E m \in Arriving(n) \ seen[n] :
           /\ ReceiveAndReplicate(n, m, Later(n, m) + 1, nextSeq[n])
           /\ GossipRound(n, JustSeen(n), 1, timers)

(* The timer of a later round. *)
NextRound ==
    \E t \in timers :
        /\ UNCHANGED vars
        /\ GossipRound(t.node, {t.msg}, t.next, timers \ {t})

(* What the scheduler runs. *)
RunEvent == NextRound \/ \E n \in Node : GossipReceive(n)

GossipNext == RunEvent \/ \E w \in Write, n \in Node : GossipPut(w, n)

GossipSpec == GossipInit /\ [][GossipNext]_gossipVars

(* It runs as long as there is a timer, or a copy that has not come at all. *)
GossipFairSpec == GossipSpec /\ WF_gossipVars(RunEvent)
-----------------------------------------------------------------------------
(* Nothing is on its way any more but copies of what their receivers have seen. *)
Quiet == timers = {} /\ \A n \in Node : Arriving(n) \subseteq seen[n]

(* How many copies have to be lost, at the least, to keep a message from some node when *)
(* rounds reach every peer: those to it of every node that has the message, or all of   *)
(* its only holder, in every round.                                                     *)
Redundancy == numRounds * (Cardinality(Node) - 1)

RedundancySuffices == NumPeers >= Cardinality(Node) - 1 /\ Cardinality(lost) < Redundancy

(* Every write that is put is applied by every node in the end although nothing is        *)
(* acknowledged, when the rounds reach every peer and fewer copies are lost than it takes *)
(* to keep a message from a node ("Gossiping provides redundant paths", and "Process      *)
(* locally and eagerly broadcast to peers" for one round).                                *)
EveryPutApplied == []RedundancySuffices => Broadcast!Validity

(* When all is quiet and a message has not reached a node, each node that has the message *)
(* has tried to send it in every round, and either its copy to that node was lost or the  *)
(* peers of that round were others: no node forgets a round, of its own messages or of    *)
(* others', whatever it receives and publishes meanwhile.                                 *)
MissedMeansLost ==
    Quiet =>
        \A n, p \in Node : \A m \in seen[p] \ seen[n], r \in 1 .. numRounds :
            \/ Copy(m, p, r, n) \in lost
            \/ \E chosen \in Selections(p) :
                   n \notin chosen /\ \A q \in chosen : Copy(m, p, r, q) \in network \union lost

(* Whichever peers the rounds choose, whatever is lost and however often the rest comes,  *)
(* the nodes order writes as LamportOrder does (receive_and_replicate: "Accept and        *)
(* forward each unique network message once").                                            *)
ImplementsLamportOrder == Spec
=============================================================================
