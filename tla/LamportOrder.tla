---------------------------- MODULE LamportOrder ----------------------------
(***************************************************************************)
(* NodeTotalOrderEagerBroadcast                                            *)
(* (nodes/node_total_order_eager_broadcast.py): a total order without a    *)
(* leader.  Every message carries its sender's Lamport clock and sequence  *)
(* number; every node relays each message once, processes the messages of  *)
(* a sender in the order of their numbers, acknowledges every write to     *)
(* everyone, and applies a write when every member has acknowledged it and *)
(* every write with a smaller (timestamp, sender).                         *)
(*                                                                         *)
(* A write is one identity for the uid, key and value of a client_put.  A  *)
(* node's store is the fold of its log.  The message with uid u is the     *)
(* only one with its type, id and sender, so the record is its own uid.    *)
(*                                                                         *)
(* The network is no variable.  A node sends a message to every peer when  *)
(* it first sees it, and a copy that comes again has no effect, so what    *)
(* may still change node n is what some node has seen and n has not: a     *)
(* message that is delayed is received later, one that is lost is never    *)
(* received, and every order of arrival is possible.  Gossip has the       *)
(* network, and what is needed for progress.                               *)
(***************************************************************************)
EXTENDS SequencesExt

CONSTANTS
    Node,       \* the members, as numbers in the order of their ids
    Write       \* the writes clients may put

ASSUME NodesAreOrdered == Node \subseteq Nat /\ IsFiniteSet(Node) /\ Node # {}

VARIABLES
    clock,              \* clock[n]: the Lamport clock
    nextSeq,            \* nextSeq[n]: the number of n's latest message
    seen,               \* seen[n]: the messages n has accepted, its own among them
    expectedSeq,        \* expectedSeq[n][p]: the number of p's message n processes next
    buffer,             \* buffer[n]: processed writes not applied yet
    acknowledgements,   \* acknowledgements[n]: <<w, p>> when n has processed p's one of w
    log                 \* log[n]: the writes n has applied, in order

vars == <<clock, nextSeq, seen, expectedSeq, buffer, acknowledgements, log>>

Message == [type : {"replicate", "ack"}, id : Write, sender : Node, seq : Nat, timestamp : Nat]

TypeOK ==
    /\ clock \in [Node -> Nat]
    /\ nextSeq \in [Node -> Nat]
    /\ seen \in [Node -> SUBSET Message]
    /\ expectedSeq \in [Node -> [Node -> Nat]]
    /\ buffer \in [Node -> SUBSET Message]
    /\ acknowledgements \in [Node -> SUBSET (Write \X Node)]
    /\ log \in [Node -> Seq(Write)]

Init ==
    /\ clock = [n \in Node |-> 0]
    /\ nextSeq = [n \in Node |-> 0]
    /\ seen = [n \in Node |-> {}]
    /\ expectedSeq = [n \in Node |-> [p \in Node |-> 1]]
    /\ buffer = [n \in Node |-> {}]
    /\ acknowledgements = [n \in Node |-> {}]
    /\ log = [n \in Node |-> <<>>]
-----------------------------------------------------------------------------
Writes(S) == {m \in S : m.type = "replicate"}

Ids(S) == {m.id : m \in S}

(* Everything that was published: a node has seen its own messages at once. *)
Published == UNION {seen[n] : n \in Node}

(* incoming: what n holds of p's messages, waiting for an earlier one. *)
Incoming(n, p) == {m \in seen[n] : m.sender = p /\ m.seq >= expectedSeq[n][p]}

(* The order of delivery: smaller timestamp first, then smaller sender. *)
BeforeBySender(a, b) ==
    \/ a.sender < b.sender
    \/ a.sender = b.sender /\ a.timestamp < b.timestamp
Before(a, b) ==
    \/ a.timestamp < b.timestamp
    \/ a.timestamp = b.timestamp /\ a.sender < b.sender

(* The first number from e on that no message of H has. *)
FirstMissing(H, e) ==
    CHOOSE k \in {e} \union {h.seq + 1 : h \in H} :
        /\ e =< k
        /\ \A h \in H : h.seq # k
        /\ \A j \in e .. k - 1 : \E h \in H : h.seq = j

(* The number n expects next from m's sender once it has worked through what m releases. *)
NextOneOnly(n, m) ==
    IF m.seq = expectedSeq[n][m.sender] THEN m.seq + 1 ELSE expectedSeq[n][m.sender]
NextExpected(n, m) ==
    FirstMissing(Incoming(n, m.sender) \union {m}, expectedSeq[n][m.sender])

(* The messages n processes on accepting m: the run of the sender's messages that is *)
(* complete now.                                                                     *)
BatchOnArrival(n, m) == {m}
Batch(n, m) ==
    LET k == NextExpected(n, m)
    IN  {x \in Incoming(n, m.sender) \union {m} : x.seq < k}

(* n's acknowledgement of the write in message x, one of those in the set W: published *)
(* in the order of W's numbers, from clock c and number q on.                          *)
AcknowledgeUnderOneClock(n, x, W, c, q) ==
    [type |-> "ack", id |-> x.id, sender |-> n, timestamp |-> c,
     seq |-> q + Cardinality({y \in W : y.seq =< x.seq})]
Acknowledge(n, x, W, c, q) ==
    LET i == Cardinality({y \in W : y.seq =< x.seq})
    IN  [type |-> "ack", id |-> x.id, sender |-> n, seq |-> q + i, timestamp |-> c + i]

(* The acknowledgements that the messages in P carry. *)
Acks(P) == {<<m.id, m.sender>> : m \in {x \in P : x.type = "ack"}}

(* _try_deliver: what can be applied of the writes in B, given the acknowledgements A: *)
(* those that come before every write that some member has not acknowledged.           *)
Acknowledged(b, A) == \A p \in Node : <<b.id, p>> \in A
DeliverAcknowledged(B, A) == {b \in B : Acknowledged(b, A)}
Deliverable(B, A) ==
    LET unsafe == {b \in B : ~Acknowledged(b, A)}
    IN  {b \in B : \A a \in unsafe : Before(b, a)}

(* s lists the messages in D in the order of delivery. *)
Sorts(s, D) ==
    /\ Range(s) = D
    /\ \A i, j \in DOMAIN s : i < j => Before(s[i], s[j])

(* receive_and_replicate of a message n has not seen, with n's clock at c and its latest  *)
(* number q: process what m releases, acknowledge each write among it, and apply what can *)
(* be applied.  The code tries to deliver after each acknowledgement of its own and once  *)
(* more at the end; what it delivers early is what it would deliver at the end, in the    *)
(* same order (HandlersFollowTheCode in MCLamportOrder).                                  *)
ReceiveAndReplicate(n, m, c, q) ==
    LET batch == Batch(n, m)
        writes == Writes(batch)
        k == Cardinality(writes)
        own == {Acknowledge(n, x, writes, c, q) : x \in writes}
        acked == acknowledgements[n] \union Acks(batch \union own)
        waiting == buffer[n] \union writes
        ready == Deliverable(waiting, acked)
    IN  /\ clock' = [clock EXCEPT ![n] = c + k]
        /\ nextSeq' = [nextSeq EXCEPT ![n] = q + k]
        /\ seen' = [seen EXCEPT ![n] = @ \union {m} \union own]
        /\ expectedSeq' = [expectedSeq EXCEPT ![n] =
               [p \in Node |-> CASE p = n -> q + k + 1
                                 [] p = m.sender /\ p # n -> NextExpected(n, m)
                                 [] OTHER -> @[p]]]
        /\ buffer' = [buffer EXCEPT ![n] = waiting \ ready]
        /\ acknowledgements' = [acknowledgements EXCEPT ![n] =
               {a \in acked : a[1] \notin Ids(ready)}]
        /\ \E s \in [1 .. Cardinality(ready) -> ready] :
               /\ Sorts(s, ready)
               /\ log' = [log EXCEPT ![n] = @ \o [i \in DOMAIN s |-> s[i].id]]

(* _publish by client_put. *)
ClientPut(w, n) ==
    /\ w \notin Ids(Writes(Published))
    /\ ReceiveAndReplicate(n, [type |-> "replicate", id |-> w, sender |-> n,
                               seq |-> nextSeq[n] + 1, timestamp |-> clock[n] + 1],
                           clock[n] + 1, nextSeq[n] + 1)

(* on_message: the clock passes the timestamp of every message that is accepted, and any *)
(* message that was published may be one that arrives.                                   *)
Later(n, m) == IF clock[n] < m.timestamp THEN m.timestamp ELSE clock[n]

ReceiveWithoutMax(n) ==
    \E m \in Published \ seen[n] : ReceiveAndReplicate(n, m, clock[n] + 1, nextSeq[n])
Receive(n) ==
    \E m \in Published \ seen[n] : ReceiveAndReplicate(n, m, Later(n, m) + 1, nextSeq[n])

Next ==
    \/ \E w \in Write, n \in Node : ClientPut(w, n)
    \/ \E n \in Node : Receive(n)

Spec == Init /\ [][Next]_vars
-----------------------------------------------------------------------------
Submitted == Ids(Writes(Published))

(* The writes ordered so far are those of the longest log. *)
Order == log[CHOOSE n \in Node : \A p \in Node : Len(log[p]) =< Len(log[n])]

Broadcast == INSTANCE TotalOrderBroadcast
                 WITH submitted <- Submitted, order <- Order, delivered <- log

(* Every step is a step of the abstract broadcast: one order, extended at its end by      *)
(* writes that were put, and each node applies the next of them, whatever is delayed,     *)
(* reordered, lost or repeated (_try_deliver: "Deliver acknowledged writes in Lamport     *)
(* total order").                                                                         *)
ImplementsBroadcast == Broadcast!Spec

(* "Apply a write only once its position is safe" (deliver): when a node has applied a    *)
(* write, no write anywhere comes before it in the order and is still to be applied by    *)
(* that node, not even one this node has never heard of.                                  *)
AppliedIsClosed ==
    \A n \in Node : \A a, b \in Writes(Published) :
        Before(a, b) /\ b.id \in Range(log[n]) => a.id \in Range(log[n])

(* Nothing is stuck: once every node has accepted every message that was published, every *)
(* node has applied every write and keeps nothing waiting (incoming, buffer), although no *)
(* message will come any more to make it look again.                                      *)
SettledMeansApplied ==
    (\A n \in Node : seen[n] = Published) =>
        \A n \in Node : /\ Range(log[n]) = Submitted
                        /\ buffer[n] = {}
                        /\ \A p \in Node : Incoming(n, p) = {}
-----------------------------------------------------------------------------
(* Why the order is safe: what a node has processed (Processed), and what it knows then. *)
Processed(n) == {m \in seen[n] : m.seq < expectedSeq[n][m.sender]}

(* A node has seen its own messages, and its clock has passed all it has seen. *)
SeenIsPast ==
    \A n \in Node :
        /\ IsFiniteSet(seen[n])
        /\ \A m \in seen[n] : /\ m \in seen[m.sender]
                              /\ m.seq \in 1 .. nextSeq[m.sender]
                              /\ m.timestamp =< clock[n]

(* A sender has used each number up to its latest once, for ever later messages. *)
NumbersAreLater ==
    \A n \in Node :
        /\ \A j \in 1 .. nextSeq[n] : \E m \in seen[n] : m.sender = n /\ m.seq = j
        /\ \A a, b \in {m \in seen[n] : m.sender = n} :
               /\ a.seq < b.seq => a.timestamp < b.timestamp
               /\ a.seq = b.seq => a = b

WritesAreUnique == \A a, b \in Writes(Published) : a.id = b.id => a = b

(* The number a node expects of a sender is the first that it has not seen. *)
ExpectedIsMissing ==
    \A n, p \in Node :
        /\ expectedSeq[n][p] > 0
        /\ \A j \in 1 .. expectedSeq[n][p] - 1 : \E m \in seen[n] : m.sender = p /\ m.seq = j
        /\ \A m \in seen[n] : m.sender = p => m.seq # expectedSeq[n][p]
        /\ expectedSeq[n][n] = nextSeq[n] + 1

(* A node has applied, or keeps in its buffer, each write it has processed, and no other. *)
ProcessedIsHeld ==
    \A n \in Node :
        /\ buffer[n] \subseteq Writes(Processed(n))
        /\ Range(log[n]) \subseteq Ids(Writes(Processed(n)))
        /\ \A m \in Writes(Processed(n)) : m \in buffer[n] <=> m.id \notin Range(log[n])

(* An acknowledgement is later than its write. *)
AcksAreLater ==
    \A n \in Node : \A k \in seen[n] :
        k.type = "ack" => \E x \in Writes(Published) : x.id = k.id /\ x.timestamp < k.timestamp

(* A node counts the acknowledgements it has processed, sends one for each write it has   *)
(* processed, and applies no write before it has processed everybody's.                   *)
AcksAreCounted ==
    \A n \in Node :
        /\ acknowledgements[n] \subseteq Acks(Processed(n))
        /\ \A k \in Acks(Processed(n)) : k \in acknowledgements[n] \/ k[1] \in Range(log[n])
        /\ \A m \in Writes(Processed(n)) : <<m.id, n>> \in Acks(Processed(n))
        /\ \A w \in Range(log[n]), p \in Node : <<w, p>> \in Acks(Processed(n))

(* A node's log is in the order of delivery, and comes before all that waits. *)
LogIsSorted ==
    \A n \in Node : \A a, b \in Writes(Processed(n)) :
        /\ \A i, j \in DOMAIN log[n] :
               i < j /\ a.id = log[n][i] /\ b.id = log[n][j] => Before(a, b)
        /\ a.id \in Range(log[n]) /\ b \in buffer[n] => Before(a, b)

(* A node looks often enough: nothing that it could apply waits in its buffer. *)
NothingIsDeliverable == \A n \in Node : Deliverable(buffer[n], acknowledgements[n]) = {}

Inv ==
    /\ TypeOK
    /\ SeenIsPast
    /\ NumbersAreLater
    /\ WritesAreUnique
    /\ ExpectedIsMissing
    /\ ProcessedIsHeld
    /\ AcksAreLater
    /\ AcksAreCounted
    /\ LogIsSorted
    /\ NothingIsDeliverable
=============================================================================
