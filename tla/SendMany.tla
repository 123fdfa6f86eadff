------------------------------ MODULE SendMany ------------------------------
(***************************************************************************)
(* SimSendMany (simulations/sim_send_many.py) on a Cluster (cluster.py) of *)
(* one of the baselines NodeMultiLeader, NodeEagerBroadcast and            *)
(* NodeSingleLeader: clients write 0, 1, 2, ... to one key, each at a      *)
(* random node, and every node is asked for its value when nothing is left *)
(* to run, or the time is up.  The trace takes a snapshot of a node after  *)
(* every event that concerns it.                                           *)
(*                                                                         *)
(* A write is its value, for the id that NodeEagerBroadcast gives it too.  *)
(* A node's store is the last of its log.  Times are left out: copies      *)
(* arrive in any order, and a write is issued at any time, or, if they are *)
(* spaced out, when everything before has arrived.                         *)
(***************************************************************************)
EXTENDS SequencesExt

CONSTANTS
    Node,           \* the node ids
    LeaderId,       \* leader_id of NodeSingleLeader
    NumMessages,    \* NumMessages[c]: how many writes are issued to nodes of class c
    MaxFaults,      \* MaxFaults[c]: how many messages the rules drop or duplicate, at most
    None            \* the value of a key that is not set, and of nothing

ASSUME LeaderIsANode == LeaderId \in Node
ASSUME NodesAreFinite == IsFiniteSet(Node)
ASSUME WritesAndFaults ==
    LET classes == {"NodeMultiLeader", "NodeEagerBroadcast", "NodeSingleLeader"}
    IN  NumMessages \in [classes -> Nat] /\ MaxFaults \in [classes -> Nat]

VARIABLES
    class,          \* node_class
    spaced,         \* interval_ms is longer than any message takes
    issued,         \* how many writes the clients have made
    state,          \* state[n]: the fields of the node object
    inFlight,       \* <<m, i>>: copy i of message m, scheduled for delivery
    copies,         \* copies[m]: how many copies the network made of m, which was sent
    faults,         \* how many messages were dropped or duplicated
    lastState,      \* lastState[n]: _last_state of the trace
    shown,          \* shown[n]: the state events of n in the trace
    values          \* what run returns

network == <<inFlight, copies, faults>>
trace == <<lastState, shown>>
vars == <<class, spaced, issued, state, network, trace, values>>

Class == DOMAIN NumMessages
Value == 0 .. Max({NumMessages[c] : c \in Class}) - 1
Message == [value : Value, seq : Nat, frm : Node, to : Node]

TypeOK ==
    /\ class \in Class
    /\ spaced \in BOOLEAN
    /\ issued \in 0 .. NumMessages[class]
    /\ state \in [Node -> [log : Seq(Value), seen : SUBSET Value, nextSeq : Nat,
                           expectedSeq : Nat, buffer : SUBSET Message]]
    /\ inFlight \in SUBSET ((DOMAIN copies) \X {1, 2})
    /\ \A m \in DOMAIN copies : m \in Message /\ m.frm # m.to /\ copies[m] \in 0 .. 2
    /\ faults \in 0 .. MaxFaults[class]
    /\ lastState \in [Node -> Value \union {None}]
    /\ shown \in [Node -> Seq(Value)]
    /\ values \in [Node -> Value \union {None}] \union {None}

(* Cluster.__init__: register has taken a snapshot of every node, whose empty state is no *)
(* event of the trace.                                                                    *)
Init ==
    /\ class \in Class
    /\ spaced \in BOOLEAN
    /\ issued = 0
    /\ state = [n \in Node |-> [log |-> <<>>, seen |-> {}, nextSeq |-> 1,
                                expectedSeq |-> 1, buffer |-> {}]]
    /\ inFlight = {}
    /\ copies = <<>>
    /\ faults = 0
    /\ lastState = [n \in Node |-> None]
    /\ shown = [n \in Node |-> <<>>]
    /\ values = None
-----------------------------------------------------------------------------
(* The node classes: what a handler makes of the node s, and the messages it sends. *)

Store(s) == IF s.log = <<>> THEN None ELSE Last(s.log)

Apply(s, v) == [s EXCEPT !.log = Append(@, v)]

ToPeers(n, v, q) == {[value |-> v, seq |-> q, frm |-> n, to |-> p] : p \in Node \ {n}}

(* NodeMultiLeader: client_put and on_message. *)
MultiPut(n, s, v) == [node |-> Apply(s, v), sent |-> ToPeers(n, v, 0)]
MultiReceive(s, v) == [node |-> Apply(s, v), sent |-> {}]

(* NodeEagerBroadcast: client_put and on_message. *)
EagerUnchecked(n, s, v) ==
    [node |-> [Apply(s, v) EXCEPT !.seen = @ \union {v}], sent |-> ToPeers(n, v, 0)]
EagerReceive(n, s, v) ==
    IF v \in s.seen
    THEN [node |-> s, sent |-> {}]
    ELSE [node |-> [Apply(s, v) EXCEPT !.seen = @ \union {v}], sent |-> ToPeers(n, v, 0)]

(* NodeSingleLeader: client_put, which does nothing unless the node is the leader. *)
SinglePutCountsFirst(n, s, v) ==
    IF n # LeaderId
    THEN [node |-> s, sent |-> {}]
    ELSE [node |-> [Apply(s, v) EXCEPT !.nextSeq = @ + 1], sent |-> ToPeers(n, v, s.nextSeq + 1)]
SinglePut(n, s, v) ==
    IF n # LeaderId
    THEN [node |-> s, sent |-> {}]
    ELSE [node |-> [Apply(s, v) EXCEPT !.nextSeq = @ + 1], sent |-> ToPeers(n, v, s.nextSeq)]

(* NodeSingleLeader: on_message, which applies what is next and what the buffer has next. *)
SingleReceiveReleasesOne(s, m) ==
    LET e == s.expectedSeq
        held == s.buffer \union {m}
        k == Min({j \in e .. e + 2 : \A x \in held : x.seq # j \/ j = e + 2})
        released == [i \in 1 .. k - e |-> (CHOOSE x \in held : x.seq = e + i - 1).value]
    IN  [node |-> IF m.seq < e
                  THEN s
                  ELSE [s EXCEPT !.log = @ \o released, !.expectedSeq = k,
                                 !.buffer = {x \in held : x.seq >= k}],
         sent |-> {}]
SingleReceive(s, m) ==
    LET e == s.expectedSeq
        held == s.buffer \union {m}
        k == Min({j \in e .. e + Cardinality(held) : \A x \in held : x.seq # j})
        released == [i \in 1 .. k - e |-> (CHOOSE x \in held : x.seq = e + i - 1).value]
    IN  [node |-> IF m.seq < e
                  THEN s
                  ELSE [s EXCEPT !.log = @ \o released, !.expectedSeq = k,
                                 !.buffer = {x \in held : x.seq >= k}],
         sent |-> {}]

Put(n, v) ==
    CASE class = "NodeMultiLeader" -> MultiPut(n, state[n], v)
      [] class = "NodeEagerBroadcast" -> EagerReceive(n, state[n], v)
      [] class = "NodeSingleLeader" -> SinglePut(n, state[n], v)

OnMessage(m) ==
    CASE class = "NodeMultiLeader" -> MultiReceive(state[m.to], m.value)
      [] class = "NodeEagerBroadcast" -> EagerReceive(m.to, state[m.to], m.value)
      [] class = "NodeSingleLeader" -> SingleReceive(state[m.to], m)
-----------------------------------------------------------------------------
(* The network drops some of the messages sent and makes two copies of others.  rest are *)
(* the copies in flight besides.                                                         *)
Send(sent, rest) ==
    \E lost \in SUBSET sent : \E twice \in SUBSET (sent \ lost) :
        /\ faults + Cardinality(lost \union twice) =< MaxFaults[class]
        /\ faults' = faults + Cardinality(lost \union twice)
        /\ copies' = [m \in sent \union DOMAIN copies |->
                         IF m \notin sent THEN copies[m]
                         ELSE IF m \in lost THEN 0 ELSE IF m \in twice THEN 2 ELSE 1]
        /\ inFlight' = rest \union {c \in sent \X {1, 2} : c[2] =< copies'[c[1]]}

(* snapshot of node n, which is now s: an event if the state is another than last time. *)
SnapshotOfOld(n, s) ==
    /\ lastState' = [lastState EXCEPT ![n] = Store(state[n])]
    /\ shown' = [shown EXCEPT ![n] =
                     IF Store(state[n]) = lastState[n] THEN @ ELSE Append(@, Store(state[n]))]
Snapshot(n, s) ==
    /\ lastState' = [lastState EXCEPT ![n] = Store(s)]
    /\ shown' = [shown EXCEPT ![n] =
                     IF Store(s) = lastState[n] THEN @ ELSE Append(@, Store(s))]

(* A handler of node n ran with that outcome. *)
Handle(n, outcome, rest) ==
    /\ state' = [state EXCEPT ![n] = outcome.node]
    /\ Send(outcome.sent, rest)
    /\ Snapshot(n, outcome.node)

(* The callbacks that run has scheduled: the next client writes the next number. *)
ClientPut ==
    /\ values = None
    /\ issued < NumMessages[class]
    /\ spaced => inFlight = {}
    /\ \E n \in Node : Handle(n, Put(n, issued), inFlight)
    /\ issued' = issued + 1
    /\ UNCHANGED <<class, spaced, values>>

Deliver ==
    /\ values = None
    /\ \E c \in inFlight : Handle(c[1].to, OnMessage(c[1]), inFlight \ {c})
    /\ UNCHANGED <<class, spaced, issued, values>>

(* Nothing is left to run. *)
Idle == issued = NumMessages[class] /\ inFlight = {}

(* run_until_idle has returned, when the cluster is idle or at max_ms, whatever is left:  *)
(* run asks every node for its value.                                                     *)
Finish ==
    /\ values = None
    /\ values' = [n \in Node |-> Store(state[n])]
    /\ UNCHANGED <<class, spaced, issued, state, network, trace>>

Next == ClientPut \/ Deliver \/ Finish

Spec == Init /\ [][Next]_vars
-----------------------------------------------------------------------------
Log(n) == state[n].log

Count(v, s) == Cardinality({i \in DOMAIN s : s[i] = v})

(* The message that would bring v from p to n was lost, or is still in flight. *)
Outstanding(p, n, v) ==
    \E m \in DOMAIN copies :
        /\ m.frm = p /\ m.to = n /\ m.value = v
        /\ copies[m] = 0 \/ \E c \in inFlight : c[1] = m

(* NodeSingleLeader: a follower's log is the leader's up to a write whose message was     *)
(* lost or is in flight, whatever overtakes it or comes twice: it applies messages by     *)
(* their numbers (on_message), not as they arrive.                                        *)
FollowersFollowLeader ==
    class = "NodeSingleLeader" =>
        \A n \in Node : LET applied == Len(Log(n))
                        IN  /\ IsPrefix(Log(n), Log(LeaderId))
                            /\ applied < Len(Log(LeaderId)) =>
                                   Outstanding(LeaderId, n, Log(LeaderId)[applied + 1])

(* NodeEagerBroadcast: a write is applied once, and a node that lacks one lacks the       *)
(* message of every node that has it ("eagerly rebroadcast and deduplicated").            *)
AppliedOnceFromAnyone ==
    class = "NodeEagerBroadcast" =>
        \A n \in Node : /\ \A v \in Range(Log(n)) : Count(v, Log(n)) = 1
                        /\ \A p \in Node : \A v \in Range(Log(p)) \ Range(Log(n)) :
                               Outstanding(p, n, v)

(* NodeMultiLeader: a write is applied once for each copy that arrives ("Nothing is       *)
(* retried, deduplicated, or ordered").                                                   *)
AppliedPerCopy ==
    class = "NodeMultiLeader" =>
        \A m \in DOMAIN copies :
            Count(m.value, Log(m.to)) + Cardinality({c \in inFlight : c[1] = m}) = copies[m]

(* What each of the baselines guarantees at any time, under loss, duplication and delay. *)
ClassGuarantee == FollowersFollowLeader /\ AppliedOnceFromAnyone /\ AppliedPerCopy

(* "Baseline: no message loss, and writes 1 s apart, far longer than any network delay.   *)
(* Every node must end up with the last value written" (tests/test_replication.py): the   *)
(* last that was accepted, for NodeSingleLeader ignores writes at other nodes.  Nodes     *)
(* that a class lets differ may still not do so here, even if copies come twice.  A run   *)
(* that stops with timers pending promises nothing.                                       *)
ConvergesWhenSpacedOut ==
    values # None /\ Idle /\ spaced /\ (\A m \in DOMAIN copies : copies[m] > 0) =>
        \A n \in Node : values[n] = IF class = "NodeSingleLeader"
                                    THEN Store(state[LeaderId])
                                    ELSE IF issued = 0 THEN None ELSE issued - 1

(* The trace tells each node's state: the last state event is the node's store now, none  *)
(* repeats the one before, and each was the store at some time, in that order ("Every     *)
(* message, timer, and state change is recorded", README).                                *)
TraceTellsState ==
    \A n \in Node :
        /\ Store(state[n]) = IF shown[n] = <<>> THEN None ELSE Last(shown[n])
        /\ \A i \in 1 .. Len(shown[n]) - 1 : shown[n][i] # shown[n][i + 1]
        /\ \E at \in [DOMAIN shown[n] -> DOMAIN Log(n)] :
               \A i \in DOMAIN at : /\ shown[n][i] = Log(n)[at[i]]
                                    /\ \A j \in 1 .. i - 1 : at[j] < at[i]
-----------------------------------------------------------------------------
(* The inductive invariant. *)

(* Only what was written is known, and a node sends what it has applied itself. *)
NothingFromNowhere ==
    /\ \A n \in Node : \A v \in Range(Log(n)) : v < issued
    /\ \A m \in DOMAIN copies : m.value \in Range(Log(m.frm))
    /\ \A c \in inFlight : c[2] =< copies[c[1]]

Arrived(m) == \E i \in 1 .. copies[m] : <<m, i>> \notin inFlight

(* Without a leader: some node has sent a write to all others, and a node has applied every *)
(* write of which a copy has arrived.                                                       *)
ArrivedIsApplied ==
    class # "NodeSingleLeader" =>
        /\ \A v \in 0 .. issued - 1 : \E p \in Node :
               v \in Range(Log(p)) /\ ToPeers(p, v, 0) \subseteq DOMAIN copies
        /\ \A m \in DOMAIN copies : /\ m.seq = 0
                                    /\ Arrived(m) => m.value \in Range(Log(m.to))

(* Without a leader: of spaced writes only the last is still on its way. *)
LastWriteIsLast ==
    class # "NodeSingleLeader" /\ spaced =>
        /\ \A c \in inFlight : c[1].value = issued - 1
        /\ \A n \in Node : issued - 1 \in Range(Log(n)) => Last(Log(n)) = issued - 1

(* NodeMultiLeader: a write is sent by the node that accepted it. *)
OneSender ==
    class = "NodeMultiLeader" =>
        \A m, o \in DOMAIN copies : m.value = o.value => m.frm = o.frm

(* NodeEagerBroadcast: what a node has seen it has applied once and sent to everyone. *)
SeenIsApplied ==
    class = "NodeEagerBroadcast" =>
        \A n \in Node : /\ state[n].seen = Range(Log(n))
                        /\ \A v \in Range(Log(n)) : /\ Count(v, Log(n)) = 1
                                                    /\ ToPeers(n, v, 0) \subseteq DOMAIN copies

(* NodeSingleLeader: the leader's log is the one source of numbers; a follower has its       *)
(* first writes, and the buffer, with a gap in front, what else has arrived.                 *)
NumbersFollowLeader ==
    class = "NodeSingleLeader" =>
        LET leader == Log(LeaderId)
        IN  /\ state[LeaderId].nextSeq = Len(leader) + 1
            /\ \A i \in DOMAIN leader : ToPeers(LeaderId, leader[i], i) \subseteq DOMAIN copies
            /\ \A m \in DOMAIN copies :
                   /\ m.frm = LeaderId /\ m.seq \in DOMAIN leader /\ leader[m.seq] = m.value
                   /\ Arrived(m) => \/ m.seq < state[m.to].expectedSeq
                                     \/ m \in state[m.to].buffer
            /\ \A n \in Node \ {LeaderId} :
                   /\ state[n].expectedSeq = Len(Log(n)) + 1
                   /\ Len(Log(n)) =< Len(leader)
                   /\ \A i \in DOMAIN Log(n) : Log(n)[i] = leader[i]
                   /\ IsFiniteSet(state[n].buffer)
                   /\ \A m \in state[n].buffer : /\ m \in DOMAIN copies /\ m.to = n
                                                 /\ m.seq > state[n].expectedSeq

ValuesAreFinal ==
    values # None => values = [n \in Node |-> Store(state[n])]

TraceIsCurrent == \A n \in Node : lastState[n] = Store(state[n])

(* All of what the runs check of every state follows from this. *)
Inv ==
    /\ TypeOK
    /\ NothingFromNowhere
    /\ ArrivedIsApplied
    /\ LastWriteIsLast
    /\ OneSender
    /\ AppliedPerCopy
    /\ SeenIsApplied
    /\ NumbersFollowLeader
    /\ ValuesAreFinal
    /\ TraceIsCurrent
    /\ TraceTellsState
=============================================================================
