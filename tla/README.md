# dslabs in TLA+

A verification development for `dslabs`, a deterministic simulator of distributed
algorithms and the replication algorithms written for it. TLA+ modules model the
components, TLC checks them on small instances, and TLAPS proves their safety properties
for every value of the constants. `PROJECT.json` lists the runs, what each definition
models (source lines), the hazards and the theorems.

Paths below are relative to the repository.

## 1. Inventory

Everything runs in one Python process on one thread. A run of the simulator is a
sequence of events taken from one heap: a message delivery, a timer of a node, or a
callback of the program that drives the simulation. A handler is never interrupted.
What is concurrent is the system being simulated: messages in flight and timers of
several nodes, in any order the latencies and fault rules allow.

| Part | State | Operations | Interacts with |
|---|---|---|---|
| `SimScheduler` (`dslabs/scheduler.py`) | clock, heap of events, event counter, step counter | `call_later` and its cancel closure, `run_until`, `run_until_idle`, `step`, `peek`, `pending` | calls back nodes, the network's deliveries and client code, which call it again |
| `SimNetwork` (`dslabs/network.py`) | rules, endpoints, handlers, statistics, generator of random numbers | `send`, `register`, `add_rule`, `remove_rule`; rules `delay`, `drop`, `duplicate`, `partition` | schedules one event per surviving copy, calls the receiver's `on_message` |
| `Trace` (`dslabs/trace.py`) | list of events, last state per node | one record method per kind of event, `snapshot`; tables and export | written by scheduler, network, cluster |
| `NodeTotalOrder` | log and store, `expected_seq`, `buffer`, `seen`; leader: `next_seq`, `sequenced`, `pending_replications`; `pending_requests`, `retry_scheduled` | `client_put`, four message handlers, `retry_pending` | fixed leader, retried messages, acknowledgements |
| `NodeTotalOrderEagerBroadcast` | Lamport clock, own sequence number, `seen`, `incoming` and `expected_seq` per sender, `buffer`, `acknowledgements` | `client_put`, `receive_and_replicate` (re-entered when a write is acknowledged) | every node relays every message once |
| `NodeTotalOrderGossip` | the same | the same, and `_gossip_round` with its timer | sends each message it sees for the first time to random peers, in several rounds |
| `NodeCAS` | the same, results per operation, `pending_transmissions` | put, get, compare-and-set, receipts, retransmission | ordered operations on a key-value store |
| `NodeJobManager` | `NodeCAS` and responses, started jobs, executed tasks | submit, status, results, claim; start and execute callbacks | tasks are claimed and completed by compare-and-set |
| `NodeMultiLeader`, `NodeEagerBroadcast`, `NodeSingleLeader` | log and store; seen ids; sequence numbers and buffer | `client_put`, `on_message` | baselines without retries |
| `Cluster` (`dslabs/cluster.py`) | none of its own | builds and registers the nodes, `put`, `get`, `values`; the rest delegates | takes a snapshot of a node after a put |
| `SimSendMany` (`dslabs/simulations/sim_send_many.py`) | seed, returned values | `run`: writes at random nodes, every `interval_ms`, then one value per node | schedules client callbacks on a `Cluster` |
| `Diagram`, `viewer.html`, `load_node_class`, protocols | none | rendering, import by name, interfaces | |

What makes each part correct, and what is hard about it:

- **Scheduler.** Callbacks run in due order, first in first out among equals; each at
  most once; a cancelled one never; none is lost or overdue; the clock never runs back;
  a run fires exactly what is due in it and leaves the
  clock where its caller is told it will be. Hard: callbacks add, cancel and run
  timers from inside a run, runs nest, callbacks raise in the middle.
- **Network.** Every copy that is sent is delivered, dropped or in flight; rules apply in
  order to what is sent while they are installed; a receiver sees what was sent. Hard:
  messages that were in flight when a rule was installed, payloads changed after they
  were sent, accounting when a rule both drops and copies.
- **Ordered replication** (`NodeTotalOrder`, the Lamport nodes, `NodeCAS`). All nodes apply
  the same writes in the same order, each once, and in the end all of them. Hard: loss,
  duplication and reordering of every message and acknowledgement, retries of what was
  done, timers re-armed from several places, acknowledgements that say less than they
  seem to, re-entrant handlers.
- **Job manager.** A task is executed at most once and by its claimant, all replicas agree
  on claims, a completed job reports the results of its tasks. Hard: duplicate
  submissions, actions that raise, claims of unknown jobs.
- **Gossip.** The order is that of the other Lamport nodes, whatever the rounds choose; a
  message reaches every node as long as one of its copies does. Hard: nothing is
  acknowledged, so a lost message blocks every later write; rounds of many messages and
  nodes interleave, and most of what arrives has been seen.
- **Baselines and simulation.** They promise little: a follower of a single leader has a
  prefix of its log, an eager broadcast applies a write once, a multi-leader node once per
  copy; when writes are spaced out and nothing is lost they all end with the last write.
  Hard: reordering, copies, what a lost message holds back.
- **Trace.** The state entries tell each node's state at every time, without repetition.

`PROJECT.json` lists the individual hazards with their lines.

## 2. Plan

| # | Module | Models | Specified against | Runs | Theorems | State |
|---|---|---|---|---|---|---|
| 1 | `TotalOrder` | `NodeTotalOrder` over a faulty network | `TotalOrderBroadcast` | `totalorder_safety`, `totalorder_live` | invariant, agreement, integrity, retention, settlement, refinement | done |
| 2 | `SimScheduler` | the scheduler | `TimerService` | `scheduler` | invariant, order, outcomes, monotone clock, refinement | done |
| 3 | `LamportOrder` | the order of the Lamport nodes: clocks, per-sender order, acknowledgements, relays | `TotalOrderBroadcast`; `MCLamportOrder` has the handler statement by statement | `lamport` | invariant, closure, settlement, refinement, one order, causality | done |
| 4 | `SimNetwork` | sends, rules, statistics, deliveries | conservation of copies, rules in force | `network`, `network_copy` | invariant, accounting of copies, fate of messages | done |
| 5 | `ReplicatedCAS` | `NodeCAS`: operations, receipts, retransmission, the wire form of values | `LamportOrder`; sequential execution | `cas`, `cas_wire` | invariant, retention, timer discipline, refinement of `LamportOrder`, linearizability | done but for liveness |
| 6 | `JobManager` | jobs over an abstract total order | at most one execution of a task, consistent answers | `jobs` | invariant, single runs, single definition, completeness, monotony, quiescence | done |
| 7 | `Gossip`, over `LamportOrder` | gossip rounds: timers, random peers, losses, copies that come again; the eager broadcast's progress as the case of one round | `LamportOrder`, `TotalOrderBroadcast!Validity` | `gossip` | refinement of `LamportOrder`, one order, no forgotten round, enough redundancy | done |
| 8 | `SendMany` | the three baselines, run by `SimSendMany` on a `Cluster`, and the snapshots of the trace | their documentation, the tests of the baselines | `sendmany`, `sendmany_arrivals` | invariant, guarantees, convergence, tracing | done |
| 9 | an extension of `TotalOrder` | a put that makes a send fail in the middle of a handler | the claim that requests are retried until acknowledged | one violation run | none | planned |

`LamportOrder` is shared by the eager, gossip and compare-and-set nodes, whose ordering
code is the same but for the relay; `Gossip` adds what is sent when, and is proved to
implement it; `ReplicatedCAS` adds receipts and operations to it,
and is checked to implement it; `JobManager` stands on the order `ReplicatedCAS`
establishes, so that no run has to explore both layers at once.

## 3. What is modelled

### TotalOrderBroadcast: the promise

Writes are submitted, placed one after the other in one order, and every node applies a
growing prefix of that order. One event may submit a write, order it and let one node
apply several. `Agreement`, `Integrity` and `Validity` are stated here once, for every
algorithm that is compared with it.

### TotalOrder: NodeTotalOrder (`dslabs/nodes/node_total_order.py`)

One action per operation or handler, each with everything the handler does: a put at the
leader numbers the write, applies it, relays it and arms the timer in one step, as
`client_put`, `receive_and_replicate`, `handle_replication`, `process_ordered` and
`schedule_retry` do in one call.

| Model | Code |
|---|---|
| `ClientPutAtLeader`, `ClientPutAtFollower` | `client_put` |
| `ReceiveClientWrite`, `ReceiveRequestAck`, `ReceiveReplicate`, `ReceiveReplicationAck` | the four branches of `on_message` |
| `RetryPending` | `retry_pending`, run by the scheduler |
| `ReceiveAndReplicate`, `HandleReplication`, `ProcessOrdered`, `ScheduleRetry` | the methods of those names |
| `Lose` and the choice in `ReceiveAndSend` | the network: a message in flight is delivered once, delivered as one of several copies, or lost |

Abstractions. A write is one identity for the uuid, key and value of a `client_put`; the
store is the fold of the log. `process_ordered`'s loop is one step to the first number
missing from the buffer. `pending_replications` is the set of replicate messages still to
be acknowledged, one per waiting peer, in place of a dictionary from the id to the
message and the set of peers. Times are left out: a timer may fire whenever it is
armed, and a message may take any time; this allows every order the simulated latencies
and the retry interval allow, and more. The state of the leader that other nodes have but
never use (`next_seq`, `sequenced`, `pending_replications`) is kept once. Values are such
that a message can be sent (README, line 97); the put that makes a send raise is hazard and
plan item 9. A "client_write" that reaches a node that is not the leader is ignored by
the code and never sent by it, as every node computes the same leader.

### SimScheduler (`dslabs/scheduler.py`)

The heap is the set of its events, ordered by due time and creation number. A run is a
stack of calls: `run_until`, `run_until_idle` and `step` push a frame, each turn of their
loop is `RunNext`, and while a callback is executing it may do whatever the driving
program may, including nested runs (`CallLater`, `Cancel`, `Peek`, `Begin...`), then
return or raise. An exception abandons the innermost run as it stands; the caller, if it
is a callback, catches it or raises in turn. `trace` holds the timer entries for fired
and cancelled timers; every timer is taken to belong to a node (a timer that belongs to
none behaves the same and leaves no entry). `pending` and `now_ms` only read.

`TimerService` is what the docstrings and tests promise to a program that sets timers: no heap, a
set of pending timers from which a cancelled one is gone at once, runs that fire the earliest as long
as it is due by the time they were asked for, and the exact time at which each kind of run leaves the
clock. `ImplementsTimers` says that the scheduler implements it. It is not the scheduler over again: the heap
keeps cancelled events until a turn of a run, a step or `peek` comes across them, so a turn must look at
the front of the heap again after it discarded one (`RunNextLive` is the slip).

### LamportOrder: NodeTotalOrderEagerBroadcast (`dslabs/nodes/node_total_order_eager_broadcast.py`)

There is no leader: every message carries its sender's clock and number, every node
processes the messages of each sender in their order, acknowledges every write to
everyone, and applies the smallest write by (timestamp, sender) when all have
acknowledged it.

| Model | Code |
|---|---|
| `ClientPut`, `Receive` | `client_put`, `on_message` |
| `ReceiveAndReplicate` | `receive_and_replicate` with all it calls |
| `NextExpected`, `Batch` | its loop over the sender's messages |
| `Acknowledge`, `Acks` | `_publish("ack")`, the "ack" branch of `_process_message` |
| `Deliverable`, `Sorts` | `_try_deliver` |
| the choice of the message in `Receive` | the relay: what some node has seen may reach any other |

The handler is re-entrant (processing a write publishes an acknowledgement, which the node
receives itself, in the middle of the loop). The model has its outcome in one formula;
`MCLamportOrder` has the handler again, statement by statement and recursively, and
`HandlersFollowTheCode` compares the two in every step TLC takes. `incoming` is derived (what a
node has seen of a sender and not processed), and so is the network: as a copy that comes
again does nothing, what can still change a node is what another has seen and it has not.
Every delay, loss, duplication and order of messages is among the choices.

`LamportCausality` adds one history variable, `known`: the writes that a write's node had put or
seen when it put it. `CausalOrder` says that these come first in every log.

### Gossip: NodeTotalOrderGossip (`dslabs/nodes/node_total_order_gossip.py`)

Extends `LamportOrder` with what is sent when. A node that sees a message for the first time
starts its first round at once and arms a timer, 100 ms, for the next.

| Model | Code |
|---|---|
| `GossipPut`, `GossipReceive` | `client_put`, `on_message`: the handler of `LamportOrder`, and a round for every message the node has just seen, its own acknowledgement among them (`JustSeen`) |
| `GossipRound` | `_gossip_round`: the sends and the timer of the next round |
| `NextRound` | that timer |
| `Selections` | `random.sample`: any set of peers of the right size |
| `Send`, `network`, `lost` | the network, which loses what it loses at the send, up to `Losses(numRounds)` copies |
| `Arriving`, and the first disjunct of `GossipReceive` | a copy arrives, for the first time or again, and is dropped if the node has seen its message |

Every copy is sent, also to a node that has seen the message: a node cannot know. A copy that the
network has taken stays in `network`, so that it may arrive at any time, any number of times, after copies of
the same message from the sender, from relays and from earlier rounds; what `receive_and_replicate` does with a message
it has seen is therefore met all the time. Times are left out: a timer may fire whenever it is armed,
and a copy may arrive before or after any round.

With one round and as many peers as there are other nodes, this is
`NodeTotalOrderEagerBroadcast`, which sends every message it sees for the first time to all
peers, once; its progress is checked as that case.

### ReplicatedCAS: NodeCAS (`dslabs/nodes/node_cas.py`)

Extends `LamportOrder` with an explicit network of copies and receipts, in which everything
that was sent remains available; `_send_reliably`, `_retry_pending` and the receipts; and the
execution of the operations that `_try_deliver` releases, on one key. `Wire` is what a value
becomes through `json.loads(json.dumps(v))`: the originator of an operation works with the
value its client passed, the other nodes with the wire form. `log` is the order in which
operations were executed (the keys of `operation_results`), not the node's list of changes.

### JobManager: NodeJobManager (`dslabs/nodes/node_job_manager.py`)

Stands on an abstract total order: what a node publishes waits in its `outbox`, gets into `order`
at some time (first published, first ordered, per node), and is delivered to each node at
a time of its own. Submissions, claims and completions are compare-and-sets, queries are
gets; `StartJob` and `ExecuteTask` are the callbacks deliver arms. Clients make each of `Calls` at most once, in any
order, and `MaxCalls` calls at most. Status and results queries are one kind of operation: both read the store when the
get is delivered, and say whether the job is complete. `runs` and `failed` are history variables.

### SimNetwork (`dslabs/network.py`)

`Send` lets one copy pass the installed rules, each of which drops or adds copies, and counts. A
rule that a user writes returns any number of copies whatever it is given, none or up to the bound `MaxReturned`, and may
so bring back what a partition before it cut off.
`Deliver` and `DeliveryRaises` are the event at the receiver; endpoints, handlers and rules come and
go at any time. Latencies are left out, so copies arrive in any order. `Edit` is the sending
program, which still holds the payload, changing a nested value of it.

### SendMany: SimSendMany, Cluster, the baselines and snapshots

One specification for `SimSendMany` (`dslabs/simulations/sim_send_many.py`) on a `Cluster` of nodes
of one class, which is chosen in `Init`.

| Model | Code |
|---|---|
| `MultiPut`, `MultiReceive` | `NodeMultiLeader.client_put`, `on_message` |
| `EagerReceive` | `NodeEagerBroadcast.client_put`, `on_message` |
| `SinglePut`, `SingleReceive` | `NodeSingleLeader.client_put`, `on_message` |
| `Init`, `Handle`, `Finish` | `Cluster.__init__`, `put`, `values` |
| `ClientPut`, `Finish` | the callbacks that `run` schedules, and its end: when nothing is left to run (`Idle`), or at `max_ms`, which may be any time |
| `Send`, `Deliver` | the network: each message is dropped, sent, or sent twice; copies arrive in any order |
| `Snapshot` | `Trace.snapshot`, taken after every put and every delivery |

Each operation of a class is a function from the fields of a node to its fields and the
messages it sends; a class uses only some of the fields. A write is its value, which is
different for every write of `run`, and stands for the uuid of `NodeEagerBroadcast` too; the store is
the last entry of the log, as there is one key. `Node` is finite (`NodesAreFinite`): a `Cluster` is built from a list. Times are left out: `spaced` says that each
write is issued when everything before has arrived, which is what an interval longer than any
latency means, else it may be issued at any time.

`MCSendManyArrivals` adds a history variable, the order in which messages arrive at each node, for what the
doc of `NodeSingleLeader` says about it.

## 4. What the runs show

| Run | Instance | Properties |
|---|---|---|
| `totalorder_safety` | 3 nodes, 3 writes, `Fates = {"kept"}`, symmetric followers and writes; about 82,000 states | `LogsAgree`, `AppliedOnce`, `NothingForgotten`, `SettledMeansApplied`, `RetryArmed`, `Inv`, `ImplementsBroadcast` |
| `totalorder_live` | 2 nodes, 2 writes, `Fates = {"consumed", "lost"}`, fair; about 35,000 states | `EveryPutApplied`, `RetriesStop` |
| `scheduler` | 3 timers, delays 0 to 2, runs until 1 or 2, nested twice; about 188,000 states | `RunsInOrder`, `NothingOverdueOrLost`, `OneOutcome`, `Inv`, `ClockNeverRunsBack`, `ImplementsTimers` |
| `lamport` | 3 nodes, 2 writes: put at two nodes with `InOrder`, or both at one with `AnyOrder`; about 110,000 states | `Inv`, `AppliedIsClosed`, `SettledMeansApplied`, `CausalOrder`, `HandlersFollowTheCode`, `ImplementsBroadcast` |
| `gossip` | 3 nodes, 1 write put at one of them, 2 peers, 1 or 2 rounds, fair; about 86,000 states | `MissedMeansLost`, `ImplementsBroadcast`, `EveryPutApplied` |
| `network` | 3 nodes, 1 message, 2 rules at once of 5, at most 3 copies from a custom rule, one edit; about 2,450,000 states | `Inv`, `NothingUnaccounted`, `FateFollowsRules` |
| `network_copy` | the same with one rule | `ReceivedAsSent` is violated |
| `cas` | 2 nodes, 2 operations with receipts late, or 1 of 4 with receipts at any time; about 24,000 states | `CASInv`, `ResultsFollowOrder`, `ImplementsLamportOrder`, `NothingForgotten` |
| `cas_wire` | 2 nodes, a put and a compare-and-set, a value JSON changes | `ReplicasAgree` is violated |
| `jobs` | 2 nodes, 1 job id, 2 definitions, at most 4 of 6 calls; about 1,490,000 states | `Inv`, `RunAtMostOnce`, `OneDefinitionAccepted`, `CompleteMeansRun`, `CompleteStaysComplete`, `QuietMeansProcessed` |
| `sendmany` | 3 nodes, symmetric followers; 3 writes and 2 faults, 2 writes and 1 fault for `NodeEagerBroadcast`; about 2,100,000 states | `ClassGuarantee`, `ConvergesWhenSpacedOut`, `TraceTellsState` |
| `sendmany_arrivals` | the same without symmetry | `AppliedInOrderOfArrival` is violated |

`Inv` and `CASInv` are the inductive invariants of the proofs, of which the type invariants are
conjuncts; `RetryArmed` is a conjunct of `CASInv`. (The runs of `gossip` and `sendmany` leave the invariants of their proofs
to the prover.)

**Bounds of the core.** Three nodes are the fewest with a relay between two followers, which is
how a replicate message overtakes the leader's; three writes are the fewest for which a
buffer holds two writes behind a gap and one arrival releases both. In the safety run a
message that was sent stays available for ever: it can be delivered late, twice or
never, so that network contains every behaviour of one that delays, loses and
duplicates. In the liveness run that would prove too little (a kept message needs no
retry), so there a message is delivered once or lost; two nodes and two writes keep every
kind of message and retry, put at either node, and a gap (the second write may arrive
first). Three timers are enough for a tie with a third event between or after, for one
timer cancelled in front of a live one, and for a callback that adds one while others are
due; nesting of depth two gives one run inside another.

**Bounds of the others.** Agreement of the Lamport nodes needs three nodes, where acknowledgements of a third come before
the write itself; without bounds that instance has more than five million states, so `lamport` explores two
parts of it. In `InOrder` each of two nodes puts a write, concurrently or not, and the messages of each sender arrive in
order, while the order across senders is free. In `AnyOrder` one node puts both writes, and two nodes get every
message in any order: gaps, a write behind a gap, acknowledgements before their write, and several writes
released at once; the third gets each message as it is sent (`ThreeIsPrompt`). Two rules at once give every pair of kinds in both orders,
the same rule twice included. With two operations `cas` explores the states in which no receipt has
ended a transmission (`ReceiptsLate`): receipts change only what is resent, and the instances of one
operation, in the same run, explore that in full. The two operations (`TwoOperations`) are one at each node, published in either order or
concurrently: a put and a get, or two compare-and-sets that race, of which the one at node 2 succeeds only if it comes after the other. In `gossip` a message can be kept from a node only by losing its copies from the sender and from
the relay in every round, 2*r* copies with *r* rounds; the network may lose as many, all of one message (`OnlyNewsIsLost`: to lose copies of several keeps none from any node), so
that both the runs in which a write is applied everywhere and those in which a message is lost for good are explored. Rounds of a message that
every node has or will get bring nothing new, and are run first (`IdleRoundsFirst`). The put is at one node, as the nodes differ only in how their ids compare. Three nodes have two peers each, so
that a round has one selection only: with more nodes than a round reaches, random choices may miss a
node even if nothing is lost, and `EveryPutApplied` does not hold of the code. In `sendmany` two faults lose or
copy two messages, or one of each; three writes give a gap, a buffer of two and their release
at one arrival; the eager broadcast sends six messages per write and has two writes and one fault, for which
a write that was lost on one way arrives on another. At most four of the six calls to the
job manager are made, in every combination and order: a race of two definitions, one of them submitted again at the other node, a race for a task, and
queries before, between and after.

**Deviations found.** `network_copy`: a payload is copied when it is delivered, not when it is sent
(`network.py`, line 140), so a receiver may see what the sender changed later, against README line
98. `cas_wire`: after a put of a tuple at one node, a compare-and-set from the list that another
node has for it succeeds there and fails at the first node, and the replicas differ for good
(`node_cas.py`, line 221). With values JSON keeps, `cas` shows that stores and results are those of
the common order. `jobs` also shows what the code settles for: a task whose action raised, or that was
claimed before its job was there, is never tried again (`QuietMeansProcessed` excepts exactly these).
`sendmany_arrivals`: `NodeSingleLeader` says that followers "apply replication messages in the
order they arrive" (`node_single_leader.py`, lines 12 and 13); they apply them in the order of their numbers (lines 72 to 85),
and `ClassGuarantee` has what that gives.

**Deadlock** is checked, except where the system does stop: in `totalorder_live`, when every write is
applied and every acknowledgement has arrived (which is what `RetriesStop` says), and in the
Lamport, gossip, job and simulation runs, when all writes or calls are made and everything has arrived.

**Fairness** (`TotalOrder!FairSpec`). Weak fairness of `RetryPending`: the scheduler runs
every event that is due as long as it is run, and an armed retry timer stays armed.
Strong fairness of each receiving action for each write and follower: "Progress requires
a live leader and eventual message delivery to every peer" (`node_total_order.py`, lines
12 and 13), that is, a message that is sent again and again is delivered again and again
in the end. Nothing is assumed about any single message, and none about clients.

`Gossip!GossipFairSpec` has weak fairness of `RunEvent`, any delivery or timer: the scheduler runs as long as it
has something to run. Nothing is said about which event; that copies are lost is the network's choice at the send, up to
`Losses`, as "Progress requires every member to respond and all required messages eventually to
arrive" (`node_total_order_gossip.py`, lines 16 and 17). The other runs need no
fairness: `QuietMeansProcessed`, `SettledMeansApplied` and `ConvergesWhenSpacedOut` say of every state in which
nothing is left to do that what must have happened has happened.

**Slips.** For each property `PROJECT.json` names a plausible slip in a modelled
definition (applying on arrival, numbering a resent request again, dropping all retries
at the first acknowledgement, last-in-first-out ties, and so on) under which TLC finds the
property violated. `ScheduleRetryAlways`, `PeekAndTake` and the like are these slips;
`Next` never uses them.

## 5. What is proved

Each theorem is of a specification, for every value of its constants that the assumptions allow. These are
named in the modules that declare the constants, and TLC evaluates them in the runs.

| Module | Theorems | For every | Assumptions |
|---|---|---|---|
| `TotalOrderProofs` | `Invariance`, `Agreement`, `Integrity`, `Retention`, `TimerDiscipline`, `Settlement`, `Refinement` | cluster, set of writes, fates of messages | `LeaderIsANode`, `FatesAreKnown` |
| `SimSchedulerProofs` | `Invariance`, `DueOrder`, `Punctuality`, `Outcomes`, `Monotonicity`, `Refinement` | set of delays and times, number of timers, depth of nesting | `DelaysAreNatural` (`call_later` rejects a negative delay), `UntilsAreTimes`, `BoundsAreNatural` |
| `LamportOrderProofs` | `Invariance`, `Closure`, `Settlement`, `Refinement`, `OneOrder`, `Causality` | cluster, set of writes, order of arrival | `NodesAreOrdered`: node ids are compared, so they are numbers; a cluster is finite and not empty |
| `GossipProofs` | `GossipRefinement`, `GossipOneOrder`, `EachRoundIsMade`, `EnoughReaches` | cluster, set of writes, number of peers and rounds, choice of peers, losses, repeated copies | those of `LamportOrderProofs`; `PeersAndRounds` (no rounds are not a number of rounds) |
| `ReplicatedCASProofs` | `CASInvariance`, `Persistence`, `RetryDiscipline`, `CASRefinement`, `CASOneOrder`, `Linearizability`, `Agreement` | cluster, operations, fates of copies and receipts | `OperationsAreKnown`, `WireIsStable` (JSON of JSON changes nothing more), `NoneIsAValue`; the last two theorems `ValuesSurvive` |
| `JobManagerProofs` | `Invariance`, `SingleRuns`, `SingleDefinition`, `Completeness`, `Monotony`, `Quiescence` | cluster, jobs, definitions, calls | `NodesAreOrdered` (a task's owner is its index modulo the sorted nodes), `TasksAreCounted`, `InputsExist`, `CallsAreRequests` |
| `SimNetworkProofs` | `Invariance`, `Accounting`, `Fate` | nodes, messages, rules, number of rules at once | `RulesAreKnown`, `FinitelyMany` (a run sends finitely many messages), `BoundsAreNatural` |
| `SendManyProofs` | `Invariance`, `Guarantees`, `Convergence`, `Tracing` | class, cluster, number of writes and of faults | `LeaderIsANode`, `NodesAreFinite`, `WritesAndFaults` |

The arguments:

- **`TotalOrderProofs!Invariance`.** None of the properties is inductive: that two logs agree
  says nothing of the messages that will extend them. `Inv` says that the leader's log is
  the one source of numbers: the leader applies each write as it numbers it
  (`LeaderAppliesAll`), every other log is a prefix of its log (`LogsFollowLeader`), and
  everything in flight, pending or buffered carries the number its write has there
  (`MessagesInOrder`, `BuffersInOrder`); `SeenIsHeld` says that what a node has seen it
  has applied or buffered, and `AcksAreTrue` that an acknowledgement in flight, however
  old, is true. The heart of the proof is `FollowerApplies`: with a buffer that agrees
  with the leader's log, going through it up to the first missing number extends the log
  along the leader's (`RunExtends`, `GapIsFirst`).
- **`Agreement`, `Integrity`, `Retention`, `TimerDiscipline`** follow from `Inv`. **`Settlement`** needs a
  step: with nothing pending a follower has seen every write, so one it has not applied
  is in its buffer, with a number greater than the one it waits for; but the write with
  that number has been seen too.
- **`Refinement`**: every step of `NodeTotalOrder` is a step of `TotalOrderBroadcast` or
  leaves its variables alone, with `log[Leader]` for the order.
- **`SimSchedulerProofs!Invariance`**: `HeapIsAhead` (no event in the heap is before the clock)
  and `FiredIsBehind` (what was fired comes before all that is in the heap) are what
  make `RunsInOrder` inductive; **`DueOrder`, `Punctuality`, `Outcomes`, `Monotonicity`** follow.
  **`Refinement`**: the pending timers of `TimerService` are the live events of the heap. A turn of a run that comes
  across a cancelled event is a stutter, one that runs an event fires the earliest pending timer (`TurnsFireTimers`), and a call returns
  exactly when no pending timer is due in it, with the clock where `TimerService` has it (`EndsAreEnds`).
- **`GossipProofs`.** What the network and the timers hold was published (`GossipInv`), so the arrival of a copy is a
  `Receive` of `LamportOrder` if the node has not seen its message and a stutter if it has: **`GossipRefinement`**, and **`GossipOneOrder`** as
  what is proved of `LamportOrder` holds of gossip. `RoundsAreMade` says that for each message a node has seen, each round is made
  or a timer will lead to it; this is inductive as every handler gossips exactly what the node has just seen,
  its own acknowledgement included. With no timer left and no copy on its way that its receiver has not seen, that is **`EachRoundIsMade`**. And with
  rounds that reach every peer, a message that some node misses has cost one lost copy per round and peer, of its only
  holder to the peer or of the peer to the node that misses it (`MissedTakesRedundancy`, an injection into `lost`): with
  fewer losses nothing is missing when all is quiet, and by `Settlement` everything is applied, **`EnoughReaches`**.
- **`LamportOrderProofs`.** A sender's timestamps grow with its numbers (`NumbersAreLater`) and an
  acknowledgement is later than its write (`AcksAreLater`). So a node that has processed everybody's acknowledgement of a
  write has processed every write that comes before it (`AppliedIsSafe`), and everything it may still be sent sorts after:
  that is `Closure`. `ProcessedIsHeld` and `AcksAreCounted` say that what a node has processed determines its
  buffer, log and counts; `LogIsSorted` and `NothingIsDeliverable` that its loop ran to the end; `ExpectedIsMissing` that
  what it waits for has not come. `BatchIsRun` is about the loop over a sender's messages, `HandlerKeepsInv` about the whole handler,
  which a put and an arrival share. Two logs sorted by one order and closed under it are prefixes of one another (`LogsAgree`), and
  some log is longest and serves as the abstract order: **`Refinement`**, and **`OneOrder`** for the agreement and integrity that a client sees. **`Settlement`**: when all have seen everything, every write has every
  acknowledgement. **`Causality`**: a clock is past all that its node has seen (`SeenIsPast`), so a put sorts after it.
- **`ReplicatedCASProofs`.** `NetworkIsSeen` and `PendingIsSeen` say that a copy, a receipt and a transmission are of
  messages that their sender has seen, so that a copy the receiver does not know is a step of `LamportOrder` and
  every other one is a stutter: **`CASRefinement`**, and **`CASOneOrder`** with it. A node has a message or it is being sent to it
  (**`Persistence`**). Operations are executed by a fold over what is released; the proofs characterise it by the trace of its
  intermediate states, which exists, is unique and composes (`DeliveriesCompose`): what `Sequential` computes of a log
  grows with the log, and with `ValuesSurvive` each node executes the same: **`Linearizability`**, and **`Agreement`** of replicas.
  `cas_wire` violates `ReplicasAgree` with a value JSON changes: by `Agreement` that is the only cause.
- **`JobManagerProofs`.** The first successful submission in the order defines a job and the first claim wins
  a task, whichever node looks (`OneDefines`, `OneWins`). `JobsFollowOrder` and `TasksFollowOrder` say that each node's store is that
  of the part of the order it has been delivered; `CompletionsAreTrue` that a completion is published by the winner
  after one run that did not fail; `WinnersExecute` that a task runs at its winner, once, after its claim was delivered there;
  `SharesAreClaimed` that a node that knows a job has a callback to come, or has published its claims; `AnswersFollowOrder` that an
  answer is the one of the order at the place of its query. **`Quiescence`** adds that every task has an owner among the nodes (`OwnersExist`).
- **`SimNetworkProofs`.** Every copy that enters a list of rules leaves it, is lost in it, or is added by it (`RunsBalance`), the losses are
  those of rules that lose (`LossesByRule`), and a message between two sides of a partition never passes (`SidesSeparate`): these
  are inductions over the rules and sums over senders and receivers. `MessagesAreSentOnce` and `UnsentIsNowhere`
  make the accounts of one message independent of the others.
- **`SendManyProofs`.** Each class has its part of `Inv`, and all of them share what is known and in flight (`NothingFromNowhere`).
  For the single leader, `NumbersFollowLeader` is the analogue of `TotalOrder`'s invariant: a buffer has a gap in front, and among more
  numbers than the buffer has entries one is missing (`SomeNumberIsMissing`), so that the release loop stops at the first
  (`GapIsFirst`). `SeenIsApplied` and `ArrivedIsApplied` are what an eager broadcast applies; the number of
  entries of a write in a multi-leader log is the number of copies that arrived (`AppliedPerCopy`). **`Convergence`**: when writes are
  spaced, only the last is in flight (`LastWriteIsLast`), so that it ends each log it is in; without losses
  it arrives everywhere. **`Tracing`**: the embedding of the shown states into the log is extended with each snapshot (`ToldWithLast`), as
  logs only grow.

The inductive invariants are checked by the runs as well, but for those of gossip and of the baselines. Folds and sums are proved about without
recursion: an induction is over the set of numbers or subsets for which a
statement holds (`EveryNumber`, `EverySubset`) or takes a smallest counterexample, and a fold is
known by the function of its intermediate results.

Only model-checked: `EveryPutApplied` (of `TotalOrder` and of `Gossip`, of which `EnoughReaches` is the safety half) and
`RetriesStop`, which are liveness under fairness and beyond the prover; and `HandlersFollowTheCode`, as the handler it compares the model's with is recursive. The theorems about
the Lamport nodes are about the model's handler, and stand on that comparison.

Left to do: causality for gossip and compare-and-set (`known` is a history variable of `LamportCausality`, which neither
extends yet), and plan item 9.

## 6. Not modelled

Rendering and export (`diagram.py`, `viewer.html`, the tables and timelines of `trace.py`), the
command line of `SimSendMany`, the methods of `Cluster` that call one method of a modelled part,
loading a node class by name, a put that makes a send raise
(plan item 9). That `run_until_idle` does not return when a callback re-arms itself with delay
0 is listed as a hazard without a property: the model bounds the number of timers, so it
cannot show it. Progress of `NodeCAS` is not checked: with losses, three messages and their
receipts have too many states for a liveness run, so `cas` checks what progress rests on, that
everything missing is still being sent. How likely gossip is to reach every node of a larger
cluster is a question of probabilities, which TLC does not answer.

## 7. Running

    tlc -config MCTotalOrderSafety.cfg MCTotalOrder.tla
    tlc -config MCTotalOrderLive.cfg MCTotalOrder.tla
    tlc -config SimScheduler.cfg SimScheduler.tla
    tlc -config MCLamportOrder.cfg MCLamportOrder.tla
    tlc -config MCSimNetwork.cfg MCSimNetwork.tla               (also MCSimNetworkCopy.cfg)
    tlc -config MCGossip.cfg MCGossip.tla
    tlc -config MCReplicatedCAS.cfg MCReplicatedCAS.tla         (also MCReplicatedCASWire.cfg)
    tlc -config MCJobManager.cfg MCJobManager.tla
    tlc -config MCSendMany.cfg MCSendMany.tla
    tlc -config MCSendManyArrivals.cfg MCSendManyArrivals.tla
    tlapm TotalOrderProofs.tla
    tlapm SimSchedulerProofs.tla
    tlapm GossipProofs.tla
    tlapm LamportOrderProofs.tla
    tlapm ReplicatedCASProofs.tla
    tlapm JobManagerProofs.tla
    tlapm SimNetworkProofs.tla
    tlapm SendManyProofs.tla
