--------------------------- MODULE MCReplicatedCAS ---------------------------
(* ReplicatedCAS for TLC: a put and a get, or two compare-and-sets. *)
EXTENDS ReplicatedCAS

\* Bounds: receipts come at any time while one operation is published, but none has ended a
\* transmission when there are two; two operations are published at most, one at each node:
\* a put and a get, or two compare-and-sets, of which the one at node 2 needs the other's value.
ReceiptsLate ==
    Cardinality(Submitted) > 1 => \A n \in Node : pendingTransmissions[n] = seen[n] \X Peers(n)
TwoOperations ==
    /\ \E pair \in {{"a", "c"}, {"b", "d"}} : Submitted \subseteq pair
    /\ \A w \in Submitted : Sender[w] = IF w \in {"a", "b"} THEN 2 ELSE 1

RacingOperations ==
    "a" :> [kind |-> "put", new |-> "tuple"]
    @@ "b" :> [kind |-> "cas", old |-> "tuple", new |-> "x"]
    @@ "c" :> [kind |-> "get"]
    @@ "d" :> [kind |-> "cas", old |-> "None", new |-> "tuple"]

PutCASOfList ==
    "a" :> [kind |-> "put", new |-> "tuple"]
    @@ "b" :> [kind |-> "cas", old |-> "list", new |-> "x"]

AsSent == [v \in Value |-> v]

\* JSON has no tuples: json.loads(json.dumps((1, 2))) is a list, which no tuple equals.
TuplesBecomeLists == [v \in Value |-> IF v = "tuple" THEN "list" ELSE v]
=============================================================================
