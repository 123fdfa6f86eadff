----------------------------- MODULE SimNetwork -----------------------------
(***************************************************************************)
(* SimNetwork (network.py): a send makes one copy of the message, every    *)
(* installed rule in turn drops copies or adds some, and each copy that is *)
(* left is an event of the scheduler, which delivers it.  Rules may come   *)
(* and go, and nodes register, while messages are in flight.               *)
(*                                                                         *)
(* Latencies are left out, so copies are delivered in any order; the delay *)
(* rule then changes nothing.  A random rule may do whatever a probability *)
(* strictly between 0 and 1 allows.  The copies of a message are counted,  *)
(* not told apart.                                                         *)
(***************************************************************************)
EXTENDS SequencesExt

CONSTANTS
    Node,           \* the node ids
    Message,        \* the messages sent, one identity per call of send
    Rule,           \* the rules at hand, as records with a kind; a partition has groups
    MaxRules,       \* how many rules are installed at once, at most
    MaxReturned,    \* how many copies a rule that a user writes returns, at most
    MaxEdits        \* how often the sender changes a nested value of a payload it has sent

ASSUME RulesAreKnown ==
    \A r \in Rule :
        \/ r.kind \in {"delay", "drop", "duplicate", "custom"}
        \/ /\ r.kind = "partition"
           /\ r.groups \subseteq SUBSET Node
           /\ \A g, h \in r.groups : g = h \/ g \intersect h = {}
ASSUME FinitelyMany == IsFiniteSet(Message) /\ IsFiniteSet(Rule)
ASSUME BoundsAreNatural == MaxRules \in Nat /\ MaxReturned \in Nat \ {0} /\ MaxEdits \in Nat

VARIABLES
    endpoints,      \* the nodes that have an endpoint
    handlers,       \* the nodes that have registered a handler
    rules,          \* the installed rules, in the order they apply
    stats,          \* the counters of that name
    inFlight,       \* inFlight[m]: copies of m scheduled for delivery
    content,        \* content[m]: what the nested values of m's payload hold now
    sends,          \* the send events of the trace, one for each message sent
    drops,          \* drops[m][r]: drop events of m that name r
    deliveries,     \* deliveries[m]: deliver events of m
    received,       \* received[m]: what the receiver found in the payload
    raised          \* raised[m]: deliveries of m that failed for want of a handler

trace == <<sends, drops, deliveries, received>>
vars == <<endpoints, handlers, rules, stats, inFlight, content, trace, raised>>

Counter == {"sent", "delivered", "dropped", "duplicated"}

SendEvent ==
    [msg : Message, frm : Node, to : Node, value : 0 .. MaxEdits, rules : Seq(Rule)]

TypeOK ==
    /\ endpoints \in SUBSET Node
    /\ handlers \in SUBSET endpoints
    /\ rules \in Seq(Rule)
    /\ stats \in [Counter -> Nat]
    /\ inFlight \in [Message -> Nat]
    /\ content \in [Message -> 0 .. MaxEdits]
    /\ \A e \in sends : e \in SendEvent
    /\ drops \in [Message -> [Rule -> Nat]]
    /\ deliveries \in [Message -> Nat]
    /\ received \in [Message -> SUBSET (0 .. MaxEdits)]
    /\ raised \in [Message -> Nat]

Init ==
    /\ endpoints = {}
    /\ handlers = {}
    /\ rules = <<>>
    /\ stats = [c \in Counter |-> 0]
    /\ inFlight = [m \in Message |-> 0]
    /\ content = [m \in Message |-> 0]
    /\ sends = {}
    /\ drops = [m \in Message |-> [r \in Rule |-> 0]]
    /\ deliveries = [m \in Message |-> 0]
    /\ received = [m \in Message |-> {}]
    /\ raised = [m \in Message |-> 0]
-----------------------------------------------------------------------------
(* partition: the nodes in no group together form one more. *)
OnNamedSide(r, a, b) == \E g \in r.groups : a \in g /\ b \in g
SameSide(r, a, b) == \A g \in r.groups : a \in g <=> b \in g

(* What a rule may make of k copies from a to b.  A custom one, which a user writes, *)
(* returns any list of copies, even if none came to it.                              *)
Leaves(r, a, b, k) ==
    CASE r.kind = "delay" -> {k}
      [] r.kind = "drop" -> 0 .. k
      [] r.kind = "duplicate" -> k .. 2 * k
      [] r.kind = "custom" -> 0 .. MaxReturned
      [] r.kind = "partition" -> IF SameSide(r, a, b) THEN {k} ELSE {0}

(* What the installed rules may do in turn to the one copy of a send: counts[i] copies *)
(* come to rule i, counts[i + 1] leave it.                                             *)
Runs(a, b) ==
    {counts \in [1 .. Len(rules) + 1 -> 0 .. MaxReturned * 2 ^ Len(rules)] :
        /\ counts[1] = 1
        /\ \A i \in DOMAIN rules : counts[i + 1] \in Leaves(rules[i], a, b, counts[i])}

(* The sum of the numbers in the range of f. *)
Sum(f) == MapThenSumSet(LAMBDA x : f[x], DOMAIN f)

(* The copies rule i took away, and those it added. *)
LostEvenIfNone(counts, i) == counts[i] - counts[i + 1]
Lost(counts, i) == IF counts[i + 1] < counts[i] THEN counts[i] - counts[i + 1] ELSE 0
Added(counts, i) == IF counts[i + 1] > counts[i] THEN counts[i + 1] - counts[i] ELSE 0

(* Endpoint.send and _send, to a node that is known: the rules installed now decide what *)
(* becomes of m.  (A send to an unknown node, or of what JSON cannot express, raises and *)
(* changes nothing.)                                                                     *)
Send(m, a, b) ==
    /\ {a, b} \subseteq endpoints
    /\ \A e \in sends : e.msg # m
    /\ \E counts \in Runs(a, b) :
        /\ inFlight' = [inFlight EXCEPT ![m] = counts[Len(rules) + 1]]
        /\ stats' = [stats EXCEPT
               !["sent"] = @ + 1,
               !["dropped"] = @ + Sum([i \in DOMAIN rules |-> Lost(counts, i)]),
               !["duplicated"] = @ + Sum([i \in DOMAIN rules |-> Added(counts, i)])]
        /\ drops' = [drops EXCEPT ![m] = [r \in Rule |->
               Sum([i \in DOMAIN rules |-> IF rules[i] = r THEN Lost(counts, i) ELSE 0])]]
    /\ sends' = sends \union
           {[msg |-> m, frm |-> a, to |-> b, value |-> content[m], rules |-> rules]}
    /\ UNCHANGED <<endpoints, handlers, rules, content, deliveries, received, raised>>

(* deliver: one copy comes due and the receiver gets what the payload holds now; without *)
(* a handler the event is gone, and the exception abandons the run of the scheduler.     *)
Deliver(e) ==
    /\ inFlight[e.msg] > 0
    /\ inFlight' = [inFlight EXCEPT ![e.msg] = @ - 1]
    /\ e.to \in handlers
    /\ stats' = [stats EXCEPT !["delivered"] = @ + 1]
    /\ deliveries' = [deliveries EXCEPT ![e.msg] = @ + 1]
    /\ received' = [received EXCEPT ![e.msg] = @ \union {content[e.msg]}]
    /\ UNCHANGED <<endpoints, handlers, rules, content, sends, drops, raised>>
CountedThenRaises(e) ==
    /\ inFlight[e.msg] > 0
    /\ inFlight' = [inFlight EXCEPT ![e.msg] = @ - 1]
    /\ e.to \notin handlers
    /\ stats' = [stats EXCEPT !["delivered"] = @ + 1]
    /\ raised' = [raised EXCEPT ![e.msg] = @ + 1]
    /\ UNCHANGED <<endpoints, handlers, rules, content, trace>>
DeliveryRaises(e) ==
    /\ inFlight[e.msg] > 0
    /\ inFlight' = [inFlight EXCEPT ![e.msg] = @ - 1]
    /\ e.to \notin handlers
    /\ raised' = [raised EXCEPT ![e.msg] = @ + 1]
    /\ UNCHANGED <<endpoints, handlers, rules, stats, content, trace>>

(* endpoint: a node gets its transport, perhaps before its handler is registered. *)
MakeEndpoint(n) ==
    /\ n \notin endpoints
    /\ endpoints' = endpoints \union {n}
    /\ UNCHANGED <<handlers, rules, stats, inFlight, content, trace, raised>>

Register(n) ==
    /\ n \notin handlers
    /\ endpoints' = endpoints \union {n}
    /\ handlers' = handlers \union {n}
    /\ UNCHANGED <<rules, stats, inFlight, content, trace, raised>>

AddRule(r) ==
    /\ Len(rules) < MaxRules
    /\ rules' = Append(rules, r)
    /\ UNCHANGED <<endpoints, handlers, stats, inFlight, content, trace, raised>>

(* remove_rule takes out the first one that is r, if there is one (else it raises). *)
RemoveRule(r) ==
    /\ r \in Range(rules)
    /\ rules' = RemoveFirst(rules, r)
    /\ UNCHANGED <<endpoints, handlers, stats, inFlight, content, trace, raised>>

(* The sender changes a value nested in a payload it has sent, which send did not copy. *)
Edit(m) ==
    /\ content[m] < MaxEdits
    /\ content' = [content EXCEPT ![m] = @ + 1]
    /\ UNCHANGED <<endpoints, handlers, rules, stats, inFlight, trace, raised>>

Next ==
    \/ \E m \in Message, a, b \in Node : Send(m, a, b)
    \/ \E e \in sends : Deliver(e)
    \/ \E e \in sends : DeliveryRaises(e)
    \/ \E n \in Node : MakeEndpoint(n)
    \/ \E n \in Node : Register(n)
    \/ \E r \in Rule : AddRule(r)
    \/ \E r \in Rule : RemoveRule(r)
    \/ \E m \in Message : Edit(m)

Spec == Init /\ [][Next]_vars
-----------------------------------------------------------------------------
(* Every copy is accounted for: what was sent and added is what was dropped, delivered,   *)
(* lost to a missing handler and still in flight, and the counters agree with the trace   *)
(* (_send's comparison of list lengths, over any sequence of rules).                      *)
NothingUnaccounted ==
    /\ stats["sent"] = Cardinality(sends)
    /\ stats["delivered"] = Sum(deliveries)
    /\ stats["dropped"] = Sum([m \in Message |-> Sum(drops[m])])
    /\ stats["sent"] + stats["duplicated"]
           = stats["dropped"] + stats["delivered"] + Sum(inFlight) + Sum(raised)

Kinds(e) == {r.kind : r \in Range(e.rules)}

(* The two nodes are in different groups of r, where nodes in none are in one together. *)
Separates(r, a, b) ==
    LET others == Node \ UNION r.groups
    IN  /\ r.kind = "partition"
        /\ \A g \in r.groups \union {others} : ~({a, b} \subseteq g)

(* A partition cuts a off from b, and no rule of a user's follows that brings copies back. *)
CutOff(installed, a, b) ==
    \E i \in DOMAIN installed :
        /\ Separates(installed[i], a, b)
        /\ \A j \in i + 1 .. Len(installed) : installed[j].kind # "custom"

(* What becomes of a message is decided by the rules installed when it was sent, whatever *)
(* is installed or lifted while it is in flight: one sent across a partition never        *)
(* arrives; one that no rule could take is not lost; and it does not arrive more often    *)
(* than the duplicating rules allow ("no traffic between groups; unlisted nodes form one  *)
(* group", README, and "Every installed rule is applied in order").                       *)
FateFollowsRules ==
    \A e \in sends :
        LET copies == deliveries[e.msg] + inFlight[e.msg] + raised[e.msg]
            cut == CutOff(e.rules, e.frm, e.to)
        IN  /\ cut => copies = 0
            /\ ~cut /\ Kinds(e) \intersect {"drop", "custom"} = {} => copies >= 1
            /\ Kinds(e) \intersect {"duplicate", "custom"} = {} => copies =< 1
            /\ \A r \in Rule : drops[e.msg][r] > 0 =>
                   /\ r \in Range(e.rules)
                   /\ r.kind \in {"drop", "custom"} \/ Separates(r, e.frm, e.to)

(* The receiver finds in a message what the sender sent: "the message is JSON round-      *)
(* tripped, so the receiver gets its own copy exactly as it would over a real wire"       *)
(* (network.py).  It does not hold: deliver takes the copy when the message comes due.    *)
ReceivedAsSent == \A e \in sends : received[e.msg] \subseteq {e.value}
-----------------------------------------------------------------------------
MessagesAreSentOnce ==
    /\ IsFiniteSet(sends)
    /\ \A d, e \in sends : d.msg = e.msg => d = e

(* Nothing is known of a message before it is sent. *)
UnsentIsNowhere ==
    \A m \in Message : (\A e \in sends : e.msg # m) =>
        /\ inFlight[m] = 0
        /\ deliveries[m] = 0
        /\ raised[m] = 0
        /\ \A r \in Rule : drops[m][r] = 0

Inv ==
    /\ TypeOK
    /\ MessagesAreSentOnce
    /\ UnsentIsNowhere
    /\ NothingUnaccounted
    /\ FateFollowsRules
=============================================================================
