---------------------------- MODULE ReplicatedCAS ----------------------------
(***************************************************************************)
(* NodeCAS (nodes/node_cas.py): puts, gets and compare-and-sets, executed  *)
(* by every node in the total order of LamportOrder, whose code it repeats *)
(* but for the sending: every copy of a message is resent by a timer until *)
(* its receiver has returned a receipt for it.  The log of LamportOrder is *)
(* here the order of the uids in operation_results.                        *)
(*                                                                         *)
(* A write of LamportOrder is an operation here.  One key is modelled:     *)
(* operations on other keys change and return nothing of it.  A value that *)
(* comes over the network has gone through JSON.  Whatever was sent stays in the *)
(* network: it may arrive late, again and again, out of order, or never.   *)
(***************************************************************************)
EXTENDS LamportOrder

CONSTANTS
    Value,          \* the values of the key
    None,           \* what store.get returns for a key that is not set
    Operation,      \* Operation[w]: what w does: its kind, and the values it was given
    Wire            \* Wire[v]: what json.loads(json.dumps(v)) makes of v

ASSUME OperationsAreKnown ==
    Operation \in [Write -> [kind : {"put"}, new : Value]
                                \union [kind : {"get"}]
                                \union [kind : {"cas"}, old : Value, new : Value]]
ASSUME WireIsStable == Wire \in [Value -> Value] /\ \A v \in Value : Wire[Wire[v]] = Wire[v]
ASSUME NoneIsAValue == None \in Value /\ Wire[None] = None

VARIABLES
    store,                  \* store[n]: n's value of the key
    results,                \* results[n][w]: operation_results, for the operations executed
    pendingTransmissions,   \* pendingTransmissions[n]: <<m, p>>, no receipt of m from p yet
    retryScheduled,         \* retryScheduled[n]: the flag of that name
    timers,                 \* timers[n]: retry callbacks of n armed in the scheduler
    network                 \* copies of messages and receipts that were sent

order == vars
executing == <<store, results>>
sending == <<pendingTransmissions, retryScheduled, timers>>
casVars == <<order, executing, sending, network>>

Copy(m, p, n) == [type |-> "copy", msg |-> m, from |-> p, to |-> n]
Receipt(m, p, n) == [type |-> "transport_receipt", msg |-> m, from |-> p, to |-> n]

Result == Value \union {"True", "False"}

CASTypeOK ==
    /\ TypeOK
    /\ store \in [Node -> Value]
    /\ results \in [Node -> UNION {[W -> Result] : W \in SUBSET Write}]
    /\ \A n \in Node : DOMAIN results[n] = Range(log[n])
    /\ pendingTransmissions \in [Node -> SUBSET (Message \X Node)]
    /\ retryScheduled \in [Node -> BOOLEAN]
    /\ timers \in [Node -> Nat]
    /\ network \in SUBSET [type : {"copy", "transport_receipt"}, msg : Message,
                           from : Node, to : Node]

CASInit ==
    /\ Init
    /\ store = [n \in Node |-> None]
    /\ results = [n \in Node |-> <<>>]
    /\ pendingTransmissions = [n \in Node |-> {}]
    /\ retryScheduled = [n \in Node |-> FALSE]
    /\ timers = [n \in Node |-> 0]
    /\ network = {}
-----------------------------------------------------------------------------
Peers(n) == Node \ {n}

(* The value an operation of sender p was given, as node n knows it. *)
AtNode(v, p, n) == IF p = n THEN v ELSE Wire[v]

(* deliver: what operation op of sender p makes of the value v at n, and what it returns. *)
Execute(op, p, n, v) ==
    CASE op.kind = "put" -> [store |-> AtNode(op.new, p, n), result |-> "True"]
      [] op.kind = "get" -> [store |-> v, result |-> v]
      [] op.kind = "cas" /\ v = AtNode(op.old, p, n) ->
             [store |-> AtNode(op.new, p, n), result |-> "True"]
      [] OTHER -> [store |-> v, result |-> "False"]

(* The node that put each of the operations published. *)
Sender == [w \in Submitted |-> (CHOOSE m \in Writes(Published) : m.id = w).sender]

(* deliver of w, put by p, at n: the store and results it leaves. *)
Deliver(st, w, p, n) ==
    LET e == Execute(Operation[w], p, n, st.store)
    IN  [store |-> e.store,
         results |-> [u \in DOMAIN st.results \union {w} |->
                          IF u = w THEN e.result ELSE st.results[u]]]

(* deliver at n for each of the operations in s, in that order. *)
DeliverAllOnOldStore(s, from, n, state) ==
    FoldLeft(LAMBDA st, w : Deliver([st EXCEPT !.store = state.store], w, from[w], n), state, s)
DeliverAll(s, from, n, state) ==
    FoldLeft(LAMBDA st, w : Deliver(st, w, from[w], n), state, s)

(* What the ordering has just let n deliver. *)
Delivered(n) ==
    LET before == [store |-> store[n], results |-> results[n]]
    IN  DeliverAll(SubSeq(log'[n], Len(log[n]) + 1, Len(log'[n])), Sender', n, before)

(* What is to be sent to everybody: m and n's acknowledgements, none of which n had seen. *)
Fresh(n) == seen'[n] \ seen[n]

CopiesToPeers(n) == {Copy(m, n, p) : m \in Fresh(n), p \in Peers(n)}

(* _send_reliably, for each of them: remember the transmission and arm the timer. *)
SendWithoutArming(n) ==
    /\ pendingTransmissions' =
           [pendingTransmissions EXCEPT ![n] = @ \union (Fresh(n) \X Peers(n))]
    /\ UNCHANGED <<retryScheduled, timers>>
SendReliably(n) ==
    /\ pendingTransmissions' =
           [pendingTransmissions EXCEPT ![n] = @ \union (Fresh(n) \X Peers(n))]
    /\ retryScheduled' = [retryScheduled EXCEPT ![n] = @ \/ Peers(n) # {}]
    /\ timers' = [timers EXCEPT ![n] =
                     IF retryScheduled[n] \/ Peers(n) = {} THEN @ ELSE @ + 1]

(* The part of a handler that follows from a message n has not seen. *)
Accept(n) ==
    /\ store' = [store EXCEPT ![n] = Delivered(n).store]
    /\ results' = [results EXCEPT ![n] = Delivered(n).results]
    /\ SendReliably(n)
-----------------------------------------------------------------------------
(* client_put, client_get and client_cas, which all publish an operation. *)
ClientOperation(w, n) ==
    /\ ClientPut(w, n)
    /\ Accept(n)
    /\ network' = network \union CopiesToPeers(n)

(* on_message for a message: return a receipt; the rest unless it was seen before. *)
ReceiptForNewOnly(c) == IF c.msg \in seen[c.to] THEN {} ELSE {Receipt(c.msg, c.to, c.from)}
ReceiptFor(c) == {Receipt(c.msg, c.to, c.from)}

ReceiveCopyUnchecked(c) ==
    /\ c.type = "copy"
    /\ ReceiveAndReplicate(c.to, c.msg, Later(c.to, c.msg) + 1, nextSeq[c.to])
    /\ Accept(c.to)
    /\ network' = network \union ReceiptFor(c) \union CopiesToPeers(c.to)
ReceiveCopy(c) ==
    LET n == c.to
        m == c.msg
    IN  /\ c.type = "copy"
        /\ IF m \in seen[n]
           THEN /\ network' = network \union ReceiptFor(c)
                /\ UNCHANGED <<order, executing, sending>>
           ELSE /\ ReceiveAndReplicate(n, m, Later(n, m) + 1, nextSeq[n])
                /\ Accept(n)
                /\ network' = network \union ReceiptFor(c) \union CopiesToPeers(n)

(* on_message for a receipt. *)
EndTransmissionsOfWrite(c) ==
    {t \in pendingTransmissions[c.to] : t[1].id # c.msg.id \/ t[2] # c.from}
EndTransmission(c) == pendingTransmissions[c.to] \ {<<c.msg, c.from>>}

ReceiveReceipt(c) ==
    /\ c.type = "transport_receipt"
    /\ pendingTransmissions' = [pendingTransmissions EXCEPT ![c.to] = EndTransmission(c)]
    /\ UNCHANGED <<order, executing, retryScheduled, timers, network>>

(* _retry_pending, run by the timer. *)
RetryPending(n) ==
    LET pending == pendingTransmissions[n]
    IN  /\ timers[n] > 0
        /\ network' = network \union {Copy(t[1], n, t[2]) : t \in pending}
        /\ retryScheduled' = [retryScheduled EXCEPT ![n] = pending # {}]
        /\ timers' = [timers EXCEPT ![n] = @ - 1 + IF pending # {} THEN 1 ELSE 0]
        /\ UNCHANGED <<order, executing, pendingTransmissions>>

CASNext ==
    \/ \E w \in Write, n \in Node : ClientOperation(w, n)
    \/ \E c \in network : ReceiveCopy(c)
    \/ \E c \in network : ReceiveReceipt(c)
    \/ \E n \in Node : RetryPending(n)

CASSpec == CASInit /\ [][CASNext]_casVars
-----------------------------------------------------------------------------
(* The nodes order operations as LamportOrder does, over a network in which whatever a    *)
(* node has seen may reach its peers: receipts and retransmission change nothing else.    *)
ImplementsLamportOrder == Spec

(* Executing the operations one after the other, each with the values its client gave: as *)
(* at a node that has put them all.                                                       *)
Sequential(s) ==
    DeliverAll(s, [w \in Write |-> 0], 0, [store |-> None, results |-> <<>>])

(* The key-value store is linearizable at every node: the store and every result are      *)
(* those of one sequential execution of the common order (deliver: "Execute an operation  *)
(* only after total-order delivery").                                                     *)
ResultsFollowOrder ==
    \A n \in Node : LET e == Sequential(log[n])
                    IN  store[n] = e.store /\ results[n] = e.results

(* Replicas that have executed the same operations hold the same value, even where a      *)
(* value and what JSON makes of it count as the same: "A correct replication algorithm    *)
(* leaves every node with the same value" (sim_send_many.py).  It fails: deliver compares *)
(* the store with the value the client gave at one node, with its JSON form at the others.*)
ReplicasAgree == \A m, n \in Node : log[m] = log[n] => Wire[store[m]] = Wire[store[n]]

(* A node goes on sending a message to every peer that has not seen it: a receipt is a    *)
(* proof of that, and no other receipt ends the transmission (on_message).                *)
NothingForgotten ==
    \A p, n \in Node : \A m \in seen[p] \ seen[n] : <<m, n>> \in pendingTransmissions[p]

(* One retry timer is armed while a receipt is missing, and there are never two. *)
RetryArmed ==
    \A n \in Node : /\ timers[n] = IF retryScheduled[n] THEN 1 ELSE 0
                    /\ pendingTransmissions[n] # {} => retryScheduled[n]
-----------------------------------------------------------------------------
(* JSON leaves the values that clients give as they are. *)
ValuesSurvive ==
    \A w \in Write : LET op == Operation[w]
                     IN  /\ op.kind \in {"put", "cas"} => Wire[op.new] = op.new
                         /\ op.kind = "cas" => Wire[op.old] = op.old

(* The network holds copies of what their senders have seen, and receipts for what their  *)
(* senders have; and a node sends what it has seen.                                       *)
NetworkIsSeen == \A c \in network : c.msg \in seen[c.from] /\ c.from # c.to
PendingIsSeen ==
    \A n \in Node : \A t \in pendingTransmissions[n] : t[1] \in seen[n] /\ t[2] # n

CASInv ==
    /\ Inv
    /\ CASTypeOK
    /\ NetworkIsSeen
    /\ PendingIsSeen
    /\ NothingForgotten
    /\ RetryArmed
=============================================================================
