--------------------------- MODULE MCLamportOrder ---------------------------
(* LamportOrder for TLC, and its handler in the order in which the code goes through it. *)
EXTENDS LamportCausality

\* Two instances with three nodes, each with the interleavings it is about.

\* Node 1 puts "a" and node 2 puts "b", concurrently or not, and every node gets the
\* messages of one sender in order; across senders any order is possible.
InOrder ==
    /\ \A n, p \in Node : Incoming(n, p) = {}
    /\ \A m \in Writes(Published) : <<m.id, m.sender>> \in {<<"a", 1>>, <<"b", 2>>}

\* Node 1 puts both writes, and it and node 2 get any message at any time: a write before
\* an earlier one, acknowledgements before the write.  Node 3 gets each as it is sent.
AnyOrder ==
    /\ \A p \in Node : Incoming(3, p) = {}
    /\ \A m \in Writes(Published) : m.sender = 1
ThreeIsPrompt == AnyOrder /\ AnyOrder' => seen[3] = Published \/ seen'[3] # seen[3]

InOrderOrAnyOrder == InOrder \/ AnyOrder
-----------------------------------------------------------------------------
(* The handler statement by statement, on a record of the node's state. *)

Local(n) ==
    [clock |-> clock[n], nextSeq |-> nextSeq[n], seen |-> seen[n],
     incoming |-> UNION {Incoming(n, p) : p \in Node}, expectedSeq |-> expectedSeq[n],
     buffer |-> buffer[n], acknowledgements |-> acknowledgements[n], log |-> log[n]]

RECURSIVE TryDeliver(_)
TryDeliver(r) ==
    IF r.buffer = {}
    THEN r
    ELSE LET m == CHOOSE b \in r.buffer : \A a \in r.buffer : ~Before(a, b)
         IN  IF ~Acknowledged(m, r.acknowledgements)
             THEN r
             ELSE TryDeliver([r EXCEPT !.buffer = @ \ {m},
                                       !.log = Append(@, m.id),
                                       !.acknowledgements = {a \in @ : a[1] # m.id}])

RECURSIVE ReceiveOne(_, _, _), ProcessRun(_, _, _), ProcessMessage(_, _, _), Publish(_, _, _, _)

ReceiveOne(r, n, m) ==
    IF m \in r.seen
    THEN r
    ELSE LET c == IF m.sender = n THEN r.clock
                  ELSE 1 + IF r.clock < m.timestamp THEN m.timestamp ELSE r.clock
         IN  TryDeliver(ProcessRun([r EXCEPT !.seen = @ \union {m}, !.clock = c,
                                             !.incoming = @ \union {m}], n, m.sender))

ProcessRun(r, n, p) ==
    LET next == {x \in r.incoming : x.sender = p /\ x.seq = r.expectedSeq[p]}
    IN  IF next = {}
        THEN r
        ELSE LET m == CHOOSE x \in next : TRUE
             IN  ProcessRun(ProcessMessage([r EXCEPT !.incoming = @ \ {m},
                                                     !.expectedSeq[p] = @ + 1], n, m), n, p)

ProcessMessage(r, n, m) ==
    IF m.type = "replicate"
    THEN Publish([r EXCEPT !.buffer = @ \union {m}], n, "ack", m.id)
    ELSE [r EXCEPT !.acknowledgements = @ \union {<<m.id, m.sender>>}]

Publish(r, n, type, w) ==
    ReceiveOne([r EXCEPT !.clock = @ + 1, !.nextSeq = @ + 1], n,
               [type |-> type, id |-> w, sender |-> n,
                seq |-> r.nextSeq + 1, timestamp |-> r.clock + 1])

(* Every step of the model leaves the node with the state the code's loops leave it with, *)
(* although they deliver and acknowledge in the middle of going through a sender's        *)
(* messages (receive_and_replicate calls itself through _process_message and _publish).   *)
HandlersFollowTheCode ==
    [][\A n \in Node : Local(n)' # Local(n) =>
         \/ \E w \in Write \ Submitted : Local(n)' = Publish(Local(n), n, "replicate", w)
         \/ \E m \in Published : Local(n)' = ReceiveOne(Local(n), n, m)]_vars
=============================================================================
