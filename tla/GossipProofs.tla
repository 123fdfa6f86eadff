---------------------------- MODULE GossipProofs ----------------------------
(***************************************************************************)
(* Proofs about NodeTotalOrderGossip for every cluster, every set of       *)
(* writes, any number of peers and rounds, and any losses: gossip is one   *)
(* way to send what LamportOrder lets arrive, no node forgets a round, and *)
(* so enough redundancy carries every write to every node.                 *)
(***************************************************************************)
EXTENDS Gossip, LamportOrderProofs

(* What the network and the timers hold was published; copies stay when they have come. *)
GossipInv ==
    /\ DOMAIN seen = Node
    /\ \A c \in network : c.msg \in Published
    /\ \A t \in timers : t.msg \in Published

(* Node p has tried to send m in round r. *)
Sent(p, m, r) ==
    \E chosen \in Selections(p) : \A q \in chosen : Copy(m, p, r, q) \in network \union lost

(* One of the timers in T will make p send m in round r, at once or after others. *)
Armed(T, p, m, r) == \E t \in T : t.node = p /\ t.msg = m /\ t.next =< r

(* Each node has made, or will make, every round for each message it has seen. *)
RoundsAreMade ==
    \A p \in Node : \A m \in seen[p], r \in 1 .. numRounds :
        Node = {p} \/ Armed(timers, p, m, r) \/ Sent(p, m, r)

RoundsInv ==
    /\ numRounds \in NumRounds
    /\ \A t \in timers : t.node \in Node /\ t.next \in Nat \ {0}
    /\ IsFiniteSet(lost)
    /\ RoundsAreMade

-----------------------------------------------------------------------------
(* receive_and_replicate: what the node has seen, it keeps; the others see nothing. *)
LEMMA Accepted ==
    ASSUME DOMAIN seen = Node, NEW n \in Node, NEW m, NEW c, NEW q,
           ReceiveAndReplicate(n, m, c, q)
    PROVE  /\ DOMAIN seen' = Node
           /\ seen[n] \subseteq seen'[n]
           /\ \A p \in Node \ {n} : seen'[p] = seen[p]
<1>1. PICK own : seen' = [seen EXCEPT ![n] = @ \union {m} \union own]
  BY DEF ReceiveAndReplicate
<1> QED
  BY <1>1

(* _gossip_round: what it sends, and will send in a later round, is what it is given. *)
LEMMA RoundSendsIts ==
    ASSUME NEW n, NEW M, NEW round, NEW armed, GossipRound(n, M, round, armed)
    PROVE  /\ \A c \in network' : c \in network \/ c.msg \in M
           /\ \A t \in timers' : t \in armed \/ (t.node = n /\ t.msg \in M /\ t.next = round + 1)
<1>1. PICK chosen \in [M -> Selections(n)] :
          \E dropped \in SUBSET UNION {{Copy(m, n, round, p) : p \in chosen[m]} : m \in M} :
              network' = network \union
                  ((UNION {{Copy(m, n, round, p) : p \in chosen[m]} : m \in M}) \ dropped)
  BY Zenon DEF GossipRound, Send
<1>2. \A c \in network' : c \in network \/ \E m \in M : \E p \in chosen[m] : c = Copy(m, n, round, p)
  BY <1>1
<1>3. \A c \in network' : c \in network \/ c.msg \in M
  BY <1>2 DEF Copy
<1>4. timers' \subseteq armed \union {[node |-> n, msg |-> m, next |-> round + 1] : m \in M}
  BY DEF GossipRound
<1> QED
  BY <1>3, <1>4

(* What a node has just seen is published by then, and nothing is unpublished. *)
LEMMA SeeingKeeps ==
    ASSUME GossipInv, NEW n \in Node, DOMAIN seen' = Node, seen[n] \subseteq seen'[n],
           \A p \in Node \ {n} : seen'[p] = seen[p],
           GossipRound(n, JustSeen(n), 1, timers)
    PROVE  GossipInv'
<1>1. \A p \in Node : seen[p] \subseteq seen'[p]
  OBVIOUS
<1>2. Published \subseteq Published' /\ JustSeen(n) \subseteq Published'
  BY <1>1 DEF Published, JustSeen
<1>3. /\ \A c \in network' : c \in network \/ c.msg \in JustSeen(n)
      /\ \A t \in timers' : t \in timers \/ t.msg \in JustSeen(n)
  BY RoundSendsIts
<1> QED
  BY <1>2, <1>3 DEF GossipInv

LEMMA PutPreserves ==
    ASSUME GossipInv, NEW w \in Write, NEW n \in Node, GossipPut(w, n)
    PROVE  GossipInv'
<1>1. PICK m, c, q : ReceiveAndReplicate(n, m, c, q)
  BY DEF GossipPut, ClientPut
<1>2. GossipRound(n, JustSeen(n), 1, timers)
  BY DEF GossipPut
<1> QED
  BY <1>1, <1>2, Accepted, SeeingKeeps DEF GossipInv

LEMMA ReceivePreserves ==
    ASSUME GossipInv, NEW n \in Node, NEW m,
           ReceiveAndReplicate(n, m, Later(n, m) + 1, nextSeq[n]),
           GossipRound(n, JustSeen(n), 1, timers)
    PROVE  GossipInv'
  BY Accepted, SeeingKeeps DEF GossipInv

LEMMA RoundPreserves ==
    ASSUME GossipInv, NextRound
    PROVE  GossipInv'
<1>1. PICK t \in timers :
          UNCHANGED vars /\ GossipRound(t.node, {t.msg}, t.next, timers \ {t})
  BY DEF NextRound
<1>2. seen' = seen /\ Published' = Published
  BY <1>1 DEF vars, Published
<1>3. /\ \A c \in network' : c \in network \/ c.msg = t.msg
      /\ \A s \in timers' : s \in timers \/ s.msg = t.msg
  BY <1>1, RoundSendsIts
<1> QED
  BY <1>2, <1>3 DEF GossipInv

LEMMA StepKeepsGossipInv == GossipInv /\ [GossipNext]_gossipVars => GossipInv'
<1> SUFFICES ASSUME GossipInv, [GossipNext]_gossipVars PROVE GossipInv'
  OBVIOUS
<1>1. ASSUME NEW w \in Write, NEW n \in Node, GossipPut(w, n)
      PROVE  GossipInv'
  BY <1>1, PutPreserves
<1>2. CASE UNCHANGED gossipVars
  BY <1>2 DEF gossipVars, vars, GossipInv, Published
<1>3. ASSUME NEW n \in Node, GossipReceive(n)
      PROVE  GossipInv'
  BY <1>2, <1>3, ReceivePreserves DEF GossipReceive
<1>4. CASE NextRound
  BY <1>4, RoundPreserves
<1> QED
  BY <1>1, <1>2, <1>3, <1>4 DEF GossipNext, RunEvent

THEOREM GossipInvariance == GossipSpec => []GossipInv
<1>1. GossipInit => GossipInv
  BY DEF GossipInit, Init, GossipInv
<1> QED
  BY <1>1, StepKeepsGossipInv, PTL DEF GossipSpec

-----------------------------------------------------------------------------
(* NodeTotalOrderGossip orders writes as LamportOrder does, whichever peers the rounds *)
(* choose, whatever is lost, and however often a copy comes again.                     *)
THEOREM GossipRefinement == GossipSpec => ImplementsLamportOrder
<1>1. GossipInit => Init
  BY DEF GossipInit
<1>2. GossipInv /\ [GossipNext]_gossipVars => [Next]_vars
  <2>1. SUFFICES ASSUME GossipInv, [GossipNext]_gossipVars
                 PROVE  [Next]_vars
    OBVIOUS
  <2>2. ASSUME NEW w \in Write, NEW n \in Node, GossipPut(w, n)
        PROVE  Next
    BY <2>2 DEF GossipPut, Next
  <2>3. CASE UNCHANGED gossipVars
    BY <2>3 DEF gossipVars
  <2>4. ASSUME NEW n \in Node, NEW m \in Arriving(n) \ seen[n],
               ReceiveAndReplicate(n, m, Later(n, m) + 1, nextSeq[n])
        PROVE  Next
    <3>1. m \in Published \ seen[n]
      BY <2>1, <2>4 DEF GossipInv, Arriving
    <3> QED
      BY <2>4, <3>1 DEF Receive, Next
  <2>5. CASE NextRound
    BY <2>5 DEF NextRound
  <2> QED
    BY <2>1, <2>2, <2>3, <2>4, <2>5 DEF GossipNext, RunEvent, GossipReceive
<1> QED
  BY <1>1, <1>2, GossipInvariance, PTL DEF GossipSpec, ImplementsLamportOrder, Spec

(* So what LamportOrder promises is what gossip promises: one order for all, in which    *)
(* nothing is applied before its position is safe, and no write that has been received   *)
(* with all its acknowledgements is held back (_try_deliver).                            *)
THEOREM GossipOneOrder ==
    GossipSpec => /\ ImplementsBroadcast
                  /\ [](Broadcast!Agreement /\ Broadcast!Integrity)
                  /\ [](AppliedIsClosed /\ SettledMeansApplied)
  BY GossipRefinement, Refinement, OneOrder, Closure, Settlement, PTL DEF ImplementsLamportOrder

-----------------------------------------------------------------------------
(* A round to peers of n tries to send each of its messages, and what had been tried stays *)
(* so.                                                                                     *)
LEMMA RoundIsSent ==
    ASSUME NEW n, NEW M, NEW round, NEW armed, GossipRound(n, M, round, armed)
    PROVE  /\ \A m \in M : Sent(n, m, round)'
           /\ \A p, m, r : Sent(p, m, r) => Sent(p, m, r)'
<1> DEFINE Copies(chosen) == UNION {{Copy(m, n, round, p) : p \in chosen[m]} : m \in M}
<1>1. PICK chosen \in [M -> Selections(n)] :
          \E dropped \in SUBSET Copies(chosen) :
              /\ lost' = lost \union dropped
              /\ network' = network \union (Copies(chosen) \ dropped)
  BY Zenon DEF GossipRound, Send
<1>2. network' \union lost' = network \union lost \union Copies(chosen)
  BY <1>1
<1>3. ASSUME NEW m \in M
      PROVE  Sent(n, m, round)'
  <2>1. \A q \in chosen[m] : Copy(m, n, round, q) \in Copies(chosen)
    OBVIOUS
  <2>2. chosen[m] \in Selections(n)
    OBVIOUS
  <2> HIDE DEF Copies
  <2> QED
    BY <2>1, <2>2, <1>2 DEF Sent, Selections, Copy
<1>4. ASSUME NEW p, NEW m, NEW r, Sent(p, m, r)
      PROVE  Sent(p, m, r)'
  <2> HIDE DEF Copies
  <2> QED
    BY <1>2, <1>4 DEF Sent, Selections, Copy
<1> QED
  BY <1>3, <1>4

(* A finite number of messages is sent in a finite number of copies, so finitely many *)
(* are lost.                                                                          *)
LEMMA LostStaysFinite ==
    ASSUME IsFiniteSet(lost), NEW n \in Node, NEW M, IsFiniteSet(M), NEW round, NEW armed,
           GossipRound(n, M, round, armed)
    PROVE  IsFiniteSet(lost')
<1> DEFINE All == {Copy(x[1], n, round, x[2]) : x \in M \X Node}
           f == [x \in M \X Node |-> Copy(x[1], n, round, x[2])]
<1>1. IsFiniteSet(M \X Node)
  BY FS_Product, NodesAreOrdered
<1>2. f \in Surjection(M \X Node, All)
  BY DEF Surjection
<1>3. IsFiniteSet(All)
  BY <1>1, <1>2, FS_Surjection, Zenon
<1>4. PICK chosen \in [M -> Selections(n)] :
          \E dropped \in SUBSET UNION {{Copy(m, n, round, p) : p \in chosen[m]} : m \in M} :
              lost' = lost \union dropped
  BY Zenon DEF GossipRound, Send
<1>5. \A m \in M : chosen[m] \subseteq Node
  BY DEF Selections, kSubset
<1>6. PICK dropped :
          /\ lost' = lost \union dropped
          /\ \A d \in dropped : \E m \in M : \E p \in chosen[m] : d = Copy(m, n, round, p)
  BY <1>4
<1>7. dropped \subseteq All
  <2> SUFFICES ASSUME NEW d \in dropped PROVE d \in All
    OBVIOUS
  <2>1. PICK m \in M : \E p \in chosen[m] : d = Copy(m, n, round, p)
    BY <1>6
  <2>2. PICK p \in chosen[m] : d = Copy(m, n, round, p)
    BY <2>1
  <2>3. <<m, p>> \in M \X Node
    BY <1>5
  <2> QED
    BY <2>2, <2>3
<1> HIDE DEF All
<1>8. IsFiniteSet(dropped)
  BY <1>3, <1>7, FS_Subset
<1> QED
  BY <1>6, <1>8, FS_Union

(* A round of n for the messages in M leaves no round unmade if that round and the later   *)
(* ones for M are all that the other timers lack.                                          *)
LEMMA RoundKeepsRounds ==
    ASSUME NEW n \in Node, NEW M, IsFiniteSet(M), NEW round \in Nat \ {0}, NEW armed,
           GossipRound(n, M, round, armed),
           numRounds \in NumRounds, IsFiniteSet(lost),
           \A t \in armed : t.node \in Node /\ t.next \in Nat \ {0},
           \A p \in Node : \A m \in seen'[p], r \in 1 .. numRounds :
               \/ Node = {p} \/ Armed(armed, p, m, r) \/ Sent(p, m, r)
               \/ p = n /\ m \in M /\ round =< r
    PROVE  RoundsInv'
<1>1. numRounds' = numRounds /\ numRounds \in Nat
  BY PeersAndRounds DEF GossipRound
<1>2. \A t \in timers' : t.node \in Node /\ t.next \in Nat \ {0}
  BY RoundSendsIts
<1>3. IsFiniteSet(lost')
  BY LostStaysFinite
<1>4. armed \subseteq timers'
  BY DEF GossipRound
<1>5. ASSUME NEW p \in Node, NEW m \in seen'[p], NEW r \in 1 .. numRounds, Node # {p}
      PROVE  Armed(timers', p, m, r) \/ Sent(p, m, r)'
  <2>1. CASE Armed(armed, p, m, r)
    BY <2>1, <1>4 DEF Armed
  <2>2. CASE Sent(p, m, r)
    BY <2>2, RoundIsSent
  <2>3. CASE p = n /\ m \in M /\ r = round
    BY <2>3, RoundIsSent
  <2>4. CASE p = n /\ m \in M /\ round < r
    <3>1. round < numRounds /\ Node # {n}
      BY <2>4, <1>1, <1>5
    <3>2. timers' = armed \union {[node |-> n, msg |-> x, next |-> round + 1] : x \in M}
      BY <3>1 DEF GossipRound
    <3>3. [node |-> n, msg |-> m, next |-> round + 1] \in timers'
      BY <3>2, <2>4
    <3> QED
      BY <3>3, <2>4 DEF Armed
  <2>5. round < r \/ r = round \/ ~(round =< r)
    BY <1>1
  <2> QED
    BY <1>5, <2>1, <2>2, <2>3, <2>4, <2>5
<1>6. RoundsAreMade'
  BY <1>1, <1>5 DEF RoundsAreMade, Armed
<1> QED
  BY <1>1, <1>2, <1>3, <1>6 DEF RoundsInv

LEMMA SeeingKeepsRounds ==
    ASSUME RoundsInv, Inv', NEW n \in Node, seen[n] \subseteq seen'[n],
           \A p \in Node \ {n} : seen'[p] = seen[p],
           GossipRound(n, JustSeen(n), 1, timers)
    PROVE  RoundsInv'
<1>1. IsFiniteSet(JustSeen(n))
  <2>1. IsFiniteSet(seen'[n])
    BY DEF Inv, SeenIsPast
  <2> QED
    BY <2>1, FS_Subset DEF JustSeen
<1>2. ASSUME NEW p \in Node, NEW m \in seen'[p], NEW r \in 1 .. numRounds
      PROVE  \/ Node = {p} \/ Armed(timers, p, m, r) \/ Sent(p, m, r)
             \/ p = n /\ m \in JustSeen(n) /\ 1 =< r
  <2>1. m \in seen[p] \/ (p = n /\ m \in JustSeen(n))
    BY DEF JustSeen
  <2>2. 1 =< r
    BY PeersAndRounds DEF RoundsInv
  <2> QED
    BY <2>1, <2>2 DEF RoundsInv, RoundsAreMade
<1> QED
  BY <1>1, <1>2, RoundKeepsRounds DEF RoundsInv

LEMMA LaterRoundKeepsRounds ==
    ASSUME RoundsInv, NextRound
    PROVE  RoundsInv'
<1>1. PICK t \in timers :
          UNCHANGED vars /\ GossipRound(t.node, {t.msg}, t.next, timers \ {t})
  BY DEF NextRound
<1>2. PICK n, M, round, armed :
          n = t.node /\ M = {t.msg} /\ round = t.next /\ armed = timers \ {t}
  OBVIOUS
<1>3. GossipRound(n, M, round, armed)
  BY <1>1, <1>2
<1>4. IsFiniteSet(M)
  BY <1>2, FS_Singleton
<1>5. n \in Node /\ round \in Nat \ {0}
  BY <1>2 DEF RoundsInv
<1>6. ASSUME NEW p \in Node, NEW m \in seen'[p], NEW r \in 1 .. numRounds
      PROVE  \/ Node = {p} \/ Armed(armed, p, m, r) \/ Sent(p, m, r)
             \/ p = n /\ m \in M /\ round =< r
  <2>1. m \in seen[p]
    BY <1>1 DEF vars
  <2>2. Node = {p} \/ Armed(timers, p, m, r) \/ Sent(p, m, r)
    BY <2>1 DEF RoundsInv, RoundsAreMade
  <2> QED
    BY <1>2, <2>2 DEF Armed
<1>7. /\ numRounds \in NumRounds /\ IsFiniteSet(lost)
      /\ \A s \in armed : s.node \in Node /\ s.next \in Nat \ {0}
  BY <1>2 DEF RoundsInv
<1> QED
  BY <1>3, <1>4, <1>5, <1>6, <1>7, RoundKeepsRounds

LEMMA StepKeepsRounds == GossipInv /\ Inv' /\ RoundsInv /\ [GossipNext]_gossipVars => RoundsInv'
<1> SUFFICES ASSUME GossipInv, Inv', RoundsInv, [GossipNext]_gossipVars PROVE RoundsInv'
  OBVIOUS
<1>1. ASSUME NEW n \in Node, NEW m, NEW c, NEW q, ReceiveAndReplicate(n, m, c, q),
             GossipRound(n, JustSeen(n), 1, timers)
      PROVE  RoundsInv'
  BY <1>1, Accepted, SeeingKeepsRounds DEF GossipInv
<1>2. ASSUME NEW w \in Write, NEW n \in Node, GossipPut(w, n)
      PROVE  RoundsInv'
  <2>1. PICK m, c, q : ReceiveAndReplicate(n, m, c, q)
    BY <1>2 DEF GossipPut, ClientPut
  <2> QED
    BY <1>1, <1>2, <2>1 DEF GossipPut
<1>3. CASE UNCHANGED gossipVars
  BY <1>3 DEF gossipVars, vars, RoundsInv, RoundsAreMade, Armed, Sent, Selections, Copy
<1>4. ASSUME NEW n \in Node, GossipReceive(n)
      PROVE  RoundsInv'
  BY <1>1, <1>3, <1>4 DEF GossipReceive
<1>5. CASE NextRound
  BY <1>5, LaterRoundKeepsRounds
<1> QED
  BY <1>2, <1>3, <1>4, <1>5 DEF GossipNext, RunEvent

LEMMA RoundsInvariance == GossipSpec => [](Inv /\ RoundsInv)
<1>1. GossipInit => RoundsInv
  BY FS_EmptySet DEF GossipInit, Init, RoundsInv, RoundsAreMade
<1> QED
  BY <1>1, StepKeepsRounds, GossipInvariance, GossipRefinement, Invariance, PTL
     DEF GossipSpec, ImplementsLamportOrder

(* Each round was made: a message that a node has not got when all is quiet was lost on the *)
(* way from each node that has it, or sent to others, in every round (_gossip_round).       *)
THEOREM EachRoundIsMade == GossipSpec => []MissedMeansLost
<1>1. RoundsInv => MissedMeansLost
  <2> SUFFICES ASSUME RoundsInv, Quiet, NEW n \in Node, NEW p \in Node,
                      NEW m \in seen[p] \ seen[n], NEW r \in 1 .. numRounds
               PROVE  \/ Copy(m, p, r, n) \in lost
                      \/ \E chosen \in Selections(p) :
                             /\ n \notin chosen
                             /\ \A q \in chosen : Copy(m, p, r, q) \in network \union lost
    BY DEF MissedMeansLost
  <2>1. Sent(p, m, r)
    BY DEF RoundsInv, RoundsAreMade, Armed, Quiet
  <2>2. Copy(m, p, r, n) \notin network
    BY DEF Quiet, Arriving, Copy
  <2> QED
    BY <2>1, <2>2 DEF Sent
<1> QED
  BY <1>1, RoundsInvariance, PTL
-----------------------------------------------------------------------------
(* A copy of m to every other node, in every round: from its only holder p to the others, *)
(* or from each holder to the node n that has not got it.  Losing one of each pair takes  *)
(* numRounds times the other nodes.                                                       *)
Loss(m, n, p, x) ==
    IF m \in seen[x[1]] THEN Copy(m, x[1], x[2], n) ELSE Copy(m, p, x[2], x[1])

LEMMA MissedTakesRedundancy ==
    ASSUME RoundsInv, Quiet, NumPeers >= Cardinality(Node) - 1,
           NEW n \in Node, NEW p \in Node, NEW m \in seen[p] \ seen[n]
    PROVE  Redundancy =< Cardinality(lost)
<1> DEFINE Pairs == (Node \ {n}) \X (1 .. numRounds)
           f == [x \in Pairs |-> Loss(m, n, p, x)]
<1>1. /\ IsFiniteSet(Node) /\ Cardinality(Node) \in Nat
      /\ IsFiniteSet(Node \ {n}) /\ Cardinality(Node \ {n}) = Cardinality(Node) - 1
      /\ numRounds \in Nat
  BY FS_RemoveElement, FS_CardinalityType, NodesAreOrdered, PeersAndRounds DEF RoundsInv
<1>2. IsFiniteSet(Pairs) /\ Cardinality(Pairs) = (Cardinality(Node) - 1) * numRounds
  <2>1. IsFiniteSet(1 .. numRounds) /\ Cardinality(1 .. numRounds) = numRounds
    BY <1>1, FS_Interval
  <2>2. PICK S, T : S = Node \ {n} /\ T = 1 .. numRounds
    OBVIOUS
  <2>3. IsFiniteSet(S \X T) /\ Cardinality(S \X T) = Cardinality(S) * Cardinality(T)
    BY <1>1, <2>1, <2>2, FS_Product
  <2> QED
    BY <1>1, <2>1, <2>2, <2>3
<1>3. ASSUME NEW o \in Node, NEW q \in Node, o # q, m \in seen[o], m \notin seen[q],
             NEW r \in 1 .. numRounds
      PROVE  Copy(m, o, r, q) \in lost
  <2>1. Sent(o, m, r)
    BY <1>3 DEF RoundsInv, RoundsAreMade, Armed, Quiet
  <2>2. PICK chosen \in Selections(o) : \A x \in chosen : Copy(m, o, r, x) \in network \union lost
    BY <2>1 DEF Sent
  <2>3. IsFiniteSet(Node \ {o}) /\ Cardinality(Node \ {o}) = Cardinality(Node) - 1
    BY <1>1, FS_RemoveElement
  <2>4. /\ chosen \in SUBSET (Node \ {o})
        /\ Cardinality(chosen) = Cardinality(Node \ {o})
    BY <1>1, <2>3, PeersAndRounds DEF Selections, kSubset
  <2>5. chosen = Node \ {o}
    BY <2>3, <2>4, FS_Subset
  <2>6. Copy(m, o, r, q) \in network \union lost
    BY <1>3, <2>2, <2>5
  <2> QED
    BY <1>3, <2>6 DEF Quiet, Arriving, Copy
<1>4. f \in Injection(Pairs, lost)
  <2>1. ASSUME NEW x \in Pairs
        PROVE  f[x] \in lost
    <3>1. x[1] \in Node /\ x[1] # n /\ x[2] \in 1 .. numRounds
      OBVIOUS
    <3> QED
      BY <3>1, <1>3 DEF Loss
  <2>2. ASSUME NEW x \in Pairs, NEW y \in Pairs, f[x] = f[y]
        PROVE  x = y
    <3>1. /\ x[1] # n /\ y[1] # n
          /\ x = <<x[1], x[2]>> /\ y = <<y[1], y[2]>>
      OBVIOUS
    <3>2. Loss(m, n, p, x) = Loss(m, n, p, y)
      BY <2>2
    <3>3. x[1] = y[1] /\ x[2] = y[2]
      BY <3>1, <3>2 DEF Loss, Copy
    <3> QED
      BY <3>1, <3>3
  <2> QED
    BY <2>1, <2>2 DEF Injection, IsInjective
<1> HIDE DEF f, Pairs
<1>5. IsFiniteSet(lost)
  BY DEF RoundsInv
<1>6. Cardinality(Pairs) =< Cardinality(lost)
  BY <1>4, <1>5, FS_Injection
<1>7. (Cardinality(Node) - 1) * numRounds = numRounds * (Cardinality(Node) - 1)
  BY <1>1
<1> QED
  BY <1>2, <1>6, <1>7 DEF Redundancy

(* "Gossiping provides redundant paths": when the rounds reach every peer and fewer copies *)
(* are lost than Redundancy, every write that was put has been applied by every node once  *)
(* nothing is on its way, which is all that EveryPutApplied asks beyond that this happens. *)
THEOREM EnoughReaches ==
    GossipSpec => [](Quiet /\ RedundancySuffices => \A n \in Node : Range(log[n]) = Submitted)
<1>1. Inv /\ RoundsInv =>
          (Quiet /\ RedundancySuffices => \A n \in Node : Range(log[n]) = Submitted)
  <2> SUFFICES ASSUME Inv, RoundsInv, Quiet, RedundancySuffices
               PROVE  \A n \in Node : Range(log[n]) = Submitted
    OBVIOUS
  <2>1. Cardinality(lost) \in Nat /\ Redundancy \in Int
    BY FS_CardinalityType, NodesAreOrdered, PeersAndRounds DEF RoundsInv, Redundancy
  <2>2. ASSUME NEW n \in Node, NEW p \in Node, NEW m \in seen[p] \ seen[n]
        PROVE  FALSE
    <3>1. Redundancy =< Cardinality(lost)
      BY MissedTakesRedundancy DEF RedundancySuffices
    <3> QED
      BY <2>1, <3>1 DEF RedundancySuffices
  <2>3. \A n \in Node : seen[n] = Published
    BY <2>2 DEF Published
  <2> QED
    BY <2>3, InvMeansSettled DEF SettledMeansApplied
<1> QED
  BY <1>1, RoundsInvariance, PTL
=============================================================================
