----------------------------- MODULE TotalOrder -----------------------------
(***************************************************************************)
(* NodeTotalOrder (nodes/node_total_order.py): a fixed leader gives every  *)
(* write a sequence number; every node delivers in that order.  Client     *)
(* writes and ordered messages are resent by a timer until acknowledged,   *)
(* because the simulated network may delay, drop, duplicate and reorder    *)
(* them.  A node's handlers run one at a time and are not interrupted, so  *)
(* each handler is one action.                                             *)
(*                                                                         *)
(* A write stands for one client_put, with its uuid, its key and its       *)
(* value.  A node's store is the fold of its log and is not kept apart.    *)
(*                                                                         *)
(* An operator standing right before another with the same parameters      *)
(* (ScheduleRetryAlways before ScheduleRetry, and so on) is a plausible    *)
(* slip in it.  Next uses none; put in the other's place, each makes one   *)
(* of the properties fail (PROJECT.json, "mutants").                       *)
(***************************************************************************)
EXTENDS SequencesExt

CONSTANTS
    Node,           \* the node ids: peers of every node
    Leader,         \* min(peers), the same at every node
    Write,          \* the writes clients may put
    Fates           \* what can happen to a message in flight:
                    \* "consumed": it is delivered and gone;
                    \* "kept": it is delivered and stays, being one of several
                    \* copies.  A network that only ever keeps covers, for
                    \* safety, every delay, loss and duplication;
                    \* "lost": a drop or partition rule discards it.

ASSUME LeaderIsANode == Leader \in Node
ASSUME FatesAreKnown == Fates \subseteq {"consumed", "kept", "lost"}

VARIABLES
    log,                  \* log[n]: the writes applied by n, in order
    expectedSeq,          \* expectedSeq[n]: the next number n may apply
    buffer,               \* buffer[n]: numbered writes n cannot apply yet
    seen,                 \* seen[n]: writes whose replicate message n has handled
    nextSeq,              \* the leader's next_seq (other nodes never use theirs)
    sequenced,            \* the leader's set of writes that have a number
    pendingReplications,  \* the leader's replicate messages still unacknowledged
    pendingRequests,      \* pendingRequests[n]: n's writes the leader has not acknowledged
    retryScheduled,       \* retryScheduled[n]: the flag of that name
    timers,               \* timers[n]: retry callbacks of n armed in the scheduler
    submitted,            \* the writes put so far
    network               \* the messages in flight

replica == <<log, expectedSeq, buffer, seen>>
leading == <<nextSeq, sequenced, pendingReplications>>
retrying == <<retryScheduled, timers>>
vars == <<log, expectedSeq, buffer, seen, nextSeq, sequenced, pendingReplications,
          pendingRequests, retryScheduled, timers, submitted, network>>

ClientWrite(w, n) == [type |-> "client_write", id |-> w, from |-> n]
RequestAck(w, n) == [type |-> "request_ack", id |-> w, to |-> n]
Replicate(w, s, n) == [type |-> "replicate", id |-> w, seq |-> s, to |-> n]
ReplicationAck(w, n) == [type |-> "replication_ack", id |-> w, from |-> n]

Numbered == [id : Write, seq : Nat]
ReplicateMessage == [type : {"replicate"}, id : Write, seq : Nat, to : Node]
Message ==
    [type : {"client_write", "replication_ack"}, id : Write, from : Node]
        \union [type : {"request_ack"}, id : Write, to : Node]
        \union ReplicateMessage

TypeOK ==
    /\ log \in [Node -> Seq(Write)]
    /\ expectedSeq \in [Node -> Nat \ {0}]
    /\ buffer \in [Node -> SUBSET Numbered]
    /\ seen \in [Node -> SUBSET Write]
    /\ nextSeq \in Nat \ {0}
    /\ sequenced \in SUBSET Write
    /\ pendingReplications \in SUBSET ReplicateMessage
    /\ pendingRequests \in [Node -> SUBSET Write]
    /\ retryScheduled \in [Node -> BOOLEAN]
    /\ timers \in [Node -> Nat]
    /\ submitted \in SUBSET Write
    /\ network \in SUBSET Message

Init ==
    /\ log = [n \in Node |-> <<>>]
    /\ expectedSeq = [n \in Node |-> 1]
    /\ buffer = [n \in Node |-> {}]
    /\ seen = [n \in Node |-> {}]
    /\ nextSeq = 1
    /\ sequenced = {}
    /\ pendingReplications = {}
    /\ pendingRequests = [n \in Node |-> {}]
    /\ retryScheduled = [n \in Node |-> FALSE]
    /\ timers = [n \in Node |-> 0]
    /\ submitted = {}
    /\ network = {}
-----------------------------------------------------------------------------
(* Pieces of handlers. *)

Send(out) == network' = network \union out

(* Message m is handled, and out is sent. *)
ReceiveAndSend(m, out) ==
    \/ "consumed" \in Fates /\ network' = (network \ {m}) \union out
    \/ "kept" \in Fates /\ network' = network \union out

HasPending(n) == pendingRequests[n] # {} \/ (n = Leader /\ pendingReplications # {})

(* schedule_retry: arm one timer, unless one is armed or nothing is pending. *)
ScheduleRetryAlways(n) ==
    IF HasPending(n)' THEN /\ retryScheduled' = [retryScheduled EXCEPT ![n] = TRUE]
                           /\ timers' = [timers EXCEPT ![n] = @ + 1]
                      ELSE UNCHANGED retrying
ScheduleRetry(n) ==
    IF ~retryScheduled[n] /\ HasPending(n)'
    THEN /\ retryScheduled' = [retryScheduled EXCEPT ![n] = TRUE]
         /\ timers' = [timers EXCEPT ![n] = @ + 1]
    ELSE UNCHANGED retrying

Buffered(B) == {b.seq : b \in B}

(* The first number from e on that B lacks. *)
Gap(B, e) ==
    CHOOSE k \in {e} \union {b.seq + 1 : b \in B} :
        /\ e =< k
        /\ k \notin Buffered(B)
        /\ e .. k - 1 \subseteq Buffered(B)

(* The writes numbered e to k-1 in B, in that order. *)
Run(B, e, k) == [i \in 1 .. k - e |-> (CHOOSE b \in B : b.seq = e + i - 1).id]

(* What stays in B once those are applied. *)
Rest(B, e, k) == {b \in B : b.seq \notin e .. k - 1}

(* process_ordered: buffer the numbered write, then apply every write that is next. *)
ProcessOnArrival(n, w, s) ==
    /\ log' = [log EXCEPT ![n] = Append(@, w)]
    /\ expectedSeq' = [expectedSeq EXCEPT ![n] = @ + 1]
    /\ UNCHANGED buffer
ProcessOneOnly(n, w, s) ==
    IF s = expectedSeq[n]
    THEN ProcessOnArrival(n, w, s)
    ELSE /\ buffer' = [buffer EXCEPT ![n] = @ \union {[id |-> w, seq |-> s]}]
         /\ UNCHANGED <<log, expectedSeq>>
ProcessOrdered(n, w, s) ==
    LET e == expectedSeq[n]
        B == {b \in buffer[n] : b.seq # s} \union {[id |-> w, seq |-> s]}
        k == Gap(B, e)
    IN  IF s < e
        THEN UNCHANGED <<log, expectedSeq, buffer>>
        ELSE /\ log' = [log EXCEPT ![n] = @ \o Run(B, e, k)]
             /\ expectedSeq' = [expectedSeq EXCEPT ![n] = k]
             /\ buffer' = [buffer EXCEPT ![n] = Rest(B, e, k)]

(* handle_replication: acknowledge even a duplicate; relay and process only a new write. *)
AcksFirstTimeOnly(n, w) == IF n = Leader \/ w \in seen[n] THEN {} ELSE {ReplicationAck(w, n)}
Acks(n, w) == IF n = Leader THEN {} ELSE {ReplicationAck(w, n)}

Relays(n, w, s) ==
    IF w \in seen[n] THEN {} ELSE {Replicate(w, s, p) : p \in Node \ {n}}

HandleReplication(n, w, s) ==
    IF w \in seen[n]
    THEN UNCHANGED replica
    ELSE /\ seen' = [seen EXCEPT ![n] = @ \union {w}]
         /\ ProcessOrdered(n, w, s)

(* receive_and_replicate, at the leader: number the write unless it has a number, *)
(* handle it, and wait for an acknowledgement of every other node.                *)
ReplicateAgain(w) ==
    /\ sequenced' = sequenced \union {w}
    /\ nextSeq' = nextSeq + 1
    /\ pendingReplications' =
           pendingReplications \union {Replicate(w, nextSeq, p) : p \in Node \ {Leader}}
    /\ seen' = [seen EXCEPT ![Leader] = @ \union {w}]
    /\ ProcessOrdered(Leader, w, nextSeq)
    /\ ScheduleRetry(Leader)
ReceiveAndReplicate(w) ==
    IF w \in sequenced
    THEN UNCHANGED <<leading, replica, retrying>>
    ELSE /\ sequenced' = sequenced \union {w}
         /\ nextSeq' = nextSeq + 1
         /\ pendingReplications' =
                pendingReplications \union {Replicate(w, nextSeq, p) : p \in Node \ {Leader}}
         /\ HandleReplication(Leader, w, nextSeq)
         /\ ScheduleRetry(Leader)

(* What receive_and_replicate sends. *)
Replications(w) == IF w \in sequenced THEN {} ELSE Relays(Leader, w, nextSeq)
-----------------------------------------------------------------------------
(* The operations and handlers of a node. *)

(* client_put at the leader. *)
ClientPutAtLeader(w) ==
    /\ w \notin submitted
    /\ submitted' = submitted \union {w}
    /\ UNCHANGED pendingRequests
    /\ ReceiveAndReplicate(w)
    /\ Send(Replications(w))

(* client_put at any other node: remember the request, send it, arm the timer. *)
ClientPutAtFollower(w, n) ==
    /\ w \notin submitted
    /\ n # Leader
    /\ submitted' = submitted \union {w}
    /\ pendingRequests' = [pendingRequests EXCEPT ![n] = @ \union {w}]
    /\ Send({ClientWrite(w, n)})
    /\ UNCHANGED <<replica, leading>>
    /\ ScheduleRetry(n)

(* on_message, "client_write": only the leader is ever sent one. *)
ReceiveClientWrite(w, n) ==
    /\ ClientWrite(w, n) \in network
    /\ UNCHANGED <<pendingRequests, submitted>>
    /\ ReceiveAndReplicate(w)
    /\ ReceiveAndSend(ClientWrite(w, n), Replications(w) \union {RequestAck(w, n)})

(* on_message, "request_ack". *)
ReceiveRequestAck(w, n) ==
    /\ RequestAck(w, n) \in network
    /\ pendingRequests' = [pendingRequests EXCEPT ![n] = @ \ {w}]
    /\ ReceiveAndSend(RequestAck(w, n), {})
    /\ UNCHANGED <<replica, leading, retrying, submitted>>

(* on_message, "replicate". *)
ReceiveReplicate(w, n) ==
    \E m \in network :
        /\ m.type = "replicate" /\ m.id = w /\ m.to = n
        /\ HandleReplication(n, w, m.seq)
        /\ ReceiveAndSend(m, Acks(n, w) \union Relays(n, w, m.seq))
        /\ UNCHANGED <<leading, pendingRequests, retrying, submitted>>

(* on_message, "replication_ack", at the leader. *)
AckClearsReplications(w, n) ==
    /\ ReplicationAck(w, n) \in network
    /\ pendingReplications' = {m \in pendingReplications : m.id # w}
    /\ ReceiveAndSend(ReplicationAck(w, n), {})
    /\ UNCHANGED <<replica, nextSeq, sequenced, pendingRequests, retrying, submitted>>
ReceiveReplicationAck(w, n) ==
    /\ ReplicationAck(w, n) \in network
    /\ pendingReplications' = {m \in pendingReplications : ~(m.id = w /\ m.to = n)}
    /\ ReceiveAndSend(ReplicationAck(w, n), {})
    /\ UNCHANGED <<replica, nextSeq, sequenced, pendingRequests, retrying, submitted>>

(* retry_pending, run by the timer: resend what is pending and arm the timer again. *)
Resent(n) ==
    {ClientWrite(w, n) : w \in pendingRequests[n]}
        \union IF n = Leader THEN pendingReplications ELSE {}
RetryOnce(n) ==
    /\ timers[n] > 0
    /\ timers' = [timers EXCEPT ![n] = @ - 1]
    /\ Send(Resent(n))
    /\ UNCHANGED <<replica, leading, pendingRequests, retryScheduled, submitted>>
RetryPending(n) ==
    /\ timers[n] > 0
    /\ retryScheduled' = [retryScheduled EXCEPT ![n] = HasPending(n)]
    /\ timers' = [timers EXCEPT ![n] = @ - 1 + IF HasPending(n) THEN 1 ELSE 0]
    /\ Send(Resent(n))
    /\ UNCHANGED <<replica, leading, pendingRequests, submitted>>

(* A drop or partition rule of the network discards a message. *)
Lose(m) ==
    /\ "lost" \in Fates
    /\ network' = network \ {m}
    /\ UNCHANGED <<replica, leading, pendingRequests, retrying, submitted>>

Next ==
    \/ \E w \in Write : ClientPutAtLeader(w)
    \/ \E w \in Write, n \in Node : ClientPutAtFollower(w, n)
    \/ \E w \in Write, n \in Node : ReceiveClientWrite(w, n)
    \/ \E w \in Write, n \in Node : ReceiveRequestAck(w, n)
    \/ \E w \in Write, n \in Node : ReceiveReplicate(w, n)
    \/ \E w \in Write, n \in Node : ReceiveReplicationAck(w, n)
    \/ \E n \in Node : RetryPending(n)
    \/ \E m \in network : Lose(m)

Spec == Init /\ [][Next]_vars

(***************************************************************************)
(* The scheduler runs every armed timer (run_until executes each callback  *)
(* when it is due), and the network delivers a message that is sent again  *)
(* and again: the class asks for "eventual message delivery to every peer".*)
(***************************************************************************)
Fairness ==
    /\ \A n \in Node : WF_vars(RetryPending(n))
    /\ \A w \in Write, n \in Node \ {Leader} :
           /\ SF_vars(ReceiveClientWrite(w, n))
           /\ SF_vars(ReceiveRequestAck(w, n))
           /\ SF_vars(ReceiveReplicate(w, n))
           /\ SF_vars(ReceiveReplicationAck(w, n))

FairSpec == Spec /\ Fairness
-----------------------------------------------------------------------------
(* Properties. *)

TOB == INSTANCE TotalOrderBroadcast WITH order <- log[Leader], delivered <- log

(* No two nodes disagree on the order of the writes both have applied, however *)
(* relayed, resent and reordered replicate messages reach them.                *)
LogsAgree == TOB!Agreement

(* A write is applied at most once by a node, and only if a client put it: a resent *)
(* client_write or replicate message never takes effect a second time.              *)
AppliedOnce == TOB!Integrity

(* Whatever is still missing somewhere is still being retried: a write without a    *)
(* number is a pending request of the node it was put at, and a numbered write that *)
(* a peer has not handled is a pending replication to that peer.                    *)
NothingForgotten ==
    /\ \A w \in submitted \ sequenced : \E n \in Node : w \in pendingRequests[n]
    /\ \A i \in 1 .. Len(log[Leader]), n \in Node \ {Leader} :
           \/ log[Leader][i] \in seen[n]
           \/ Replicate(log[Leader][i], i, n) \in pendingReplications

(* An acknowledgement says only that a write was handled, perhaps buffered behind a *)
(* gap; still, when nothing is pending anywhere, every node has applied every write. *)
SettledMeansApplied ==
    (\A n \in Node : ~HasPending(n)) => \A n \in Node : Range(log[n]) = submitted

(* A node never has two retry timers, and has one as long as something is pending. *)
RetryArmed ==
    \A n \in Node : /\ timers[n] = IF retryScheduled[n] THEN 1 ELSE 0
                    /\ HasPending(n) => retryScheduled[n]

(* Every step is one of the abstract ordered broadcast or changes nothing it sees: *)
(* the leader's log is the order, and every log is a growing prefix of it.         *)
ImplementsBroadcast == TOB!Spec

(* "Requests and ordered messages are retried until acknowledged": with a live     *)
(* leader and a network that delivers what is sent often enough, every write that  *)
(* was put is applied at every node.                                               *)
EveryPutApplied == TOB!Validity

(* Once clients stop, the retry timers stop too: every acknowledgement arrives in  *)
(* the end although the earlier ones were lost, and the simulator can go idle.     *)
RetriesStop == <>[](\A n \in Node : timers[n] = 0)
-----------------------------------------------------------------------------
(* The inductive invariant: why the properties hold.  The leader's log is the  *)
(* order; everything else that carries a number carries the number of that log. *)

(* Item r (a message or a buffered write) agrees with the leader's log. *)
InOrder(r) == r.seq \in 1 .. Len(log[Leader]) /\ log[Leader][r.seq] = r.id

(* The leader has applied every write it numbered, each once, and buffers nothing. *)
LeaderAppliesAll ==
    /\ nextSeq = Len(log[Leader]) + 1
    /\ buffer[Leader] = {}
    /\ IsInjective(log[Leader])
    /\ sequenced = Range(log[Leader])
    /\ sequenced \subseteq submitted

(* Every log is a prefix of the leader's and expected_seq points behind its end. *)
LogsFollowLeader ==
    \A n \in Node : /\ expectedSeq[n] = Len(log[n]) + 1
                    /\ Len(log[n]) =< Len(log[Leader])
                    /\ \A i \in 1 .. Len(log[n]) : log[n][i] = log[Leader][i]

(* A buffered write waits for a smaller number; replicate messages never misnumber. *)
BuffersInOrder == \A n \in Node : \A b \in buffer[n] : InOrder(b) /\ b.seq > expectedSeq[n]
MessagesInOrder ==
    /\ \A m \in network : m.type = "replicate" => InOrder(m)
    /\ \A m \in pendingReplications : InOrder(m)

(* A node has handled exactly the writes it has applied or buffered. *)
SeenIsHeld ==
    \A n \in Node : seen[n] = Range(log[n]) \union {b.id : b \in buffer[n]}

(* An acknowledgement in flight is true, and a client_write in flight was put. *)
AcksAreTrue ==
    \A w \in Write, n \in Node :
        /\ ReplicationAck(w, n) \in network => w \in seen[n]
        /\ RequestAck(w, n) \in network => w \in sequenced
        /\ ClientWrite(w, n) \in network => w \in submitted
        /\ w \in pendingRequests[n] => w \in submitted

(* The conjunction that every step preserves. *)
Inv ==
    /\ TypeOK
    /\ LeaderAppliesAll
    /\ LogsFollowLeader
    /\ BuffersInOrder
    /\ MessagesInOrder
    /\ SeenIsHeld
    /\ AcksAreTrue
    /\ NothingForgotten
    /\ RetryArmed
=============================================================================
