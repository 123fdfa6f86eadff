------------------------- MODULE LamportOrderProofs -------------------------
(***************************************************************************)
(* Proofs about NodeTotalOrderEagerBroadcast for every cluster, every set  *)
(* of writes and every order in which messages arrive, or do not: Inv is   *)
(* inductive, and what TLC checks on small instances follows from it.      *)
(***************************************************************************)
EXTENDS LamportCausality, FiniteSetTheorems, TLAPS

-----------------------------------------------------------------------------
(* Numbers and ranks. *)

(* The loop of receive_and_replicate ends: of messages whose numbers are bounded one is *)
(* missing, and FirstMissing is the first that is.                                      *)
LEMMA FirstMissingIsFirst ==
    ASSUME NEW H, NEW e \in Nat, NEW top \in Nat,
           \A h \in H : h.seq \in Nat /\ h.seq =< top
    PROVE  /\ FirstMissing(H, e) \in Nat
           /\ e =< FirstMissing(H, e)
           /\ \A h \in H : h.seq # FirstMissing(H, e)
           /\ \A j \in e .. FirstMissing(H, e) - 1 : \E h \in H : h.seq = j
<1> DEFINE Lacks == {k \in Nat : e =< k /\ \A h \in H : h.seq # k}
<1>1. e + top + 1 \in Lacks
  OBVIOUS
<1>2. \E k \in Lacks : \A j \in Lacks : <<j, k>> \notin OpToRel(<, Nat)
  BY <1>1, NatLessThanWellFounded, WFMin, Zenon
<1>3. PICK k \in Lacks : \A j \in Lacks : ~(j < k)
  BY <1>2, Zenon DEF OpToRel
<1>4. \A j \in e .. k - 1 : \E h \in H : h.seq = j
  BY <1>3
<1>5. k \in {e} \union {h.seq + 1 : h \in H}
  <2>1. CASE k = e
    BY <2>1
  <2>2. CASE k # e
    <3>1. k - 1 \in e .. k - 1
      BY <2>2
    <3>2. PICK h \in H : h.seq = k - 1
      BY <3>1, <1>4
    <3>3. k = h.seq + 1
      BY <3>2
    <3> QED
      BY <3>3
  <2> QED
    BY <2>1, <2>2
<1> DEFINE IsFirst(l) == /\ e =< l
                         /\ \A h \in H : h.seq # l
                         /\ \A j \in e .. l - 1 : \E h \in H : h.seq = j
<1>6. IsFirst(k)
  BY <1>3, <1>4
<1>7. FirstMissing(H, e) = CHOOSE l \in {e} \union {h.seq + 1 : h \in H} : IsFirst(l)
  BY DEF FirstMissing
<1> HIDE DEF IsFirst
<1>8. FirstMissing(H, e) \in {e} \union {h.seq + 1 : h \in H} /\ IsFirst(FirstMissing(H, e))
  BY <1>5, <1>6, <1>7
<1> QED
  BY <1>8 DEF IsFirst

(* The place of x among the messages of W. *)
Rank(W, x) == Cardinality({y \in W : y.seq =< x.seq})

(* In a finite set of messages with different numbers, ranks go from 1 to the size of the *)
(* set, in the order of the numbers, and every one is taken.                              *)
LEMMA RanksCount ==
    ASSUME NEW W, IsFiniteSet(W), \A x \in W : x.seq \in Nat,
           \A x, y \in W : x.seq = y.seq => x = y
    PROVE  /\ Cardinality(W) \in Nat
           /\ \A x \in W : Rank(W, x) \in 1 .. Cardinality(W)
           /\ \A x, y \in W : x.seq < y.seq => Rank(W, x) < Rank(W, y)
           /\ \A i \in 1 .. Cardinality(W) : \E x \in W : Rank(W, x) = i
<1> DEFINE Upto(x) == {y \in W : y.seq =< x.seq}
           k == Cardinality(W)
<1>1. k \in Nat
  BY FS_CardinalityType
<1>2. \A x \in W : /\ IsFiniteSet(Upto(x)) /\ Cardinality(Upto(x)) \in Nat
                   /\ Cardinality(Upto(x)) =< k
  <2> SUFFICES ASSUME NEW x \in W
               PROVE  /\ IsFiniteSet(Upto(x)) /\ Cardinality(Upto(x)) \in Nat
                      /\ Cardinality(Upto(x)) =< k
    OBVIOUS
  <2>1. Upto(x) \in SUBSET W
    OBVIOUS
  <2> HIDE DEF Upto
  <2> QED
    BY <2>1, FS_Subset, FS_CardinalityType
<1>3. \A x \in W : Cardinality(Upto(x)) # 0
  <2> SUFFICES ASSUME NEW x \in W PROVE Cardinality(Upto(x)) # 0
    OBVIOUS
  <2>1. x \in Upto(x)
    OBVIOUS
  <2> HIDE DEF Upto
  <2> QED
    BY <2>1, <1>2, FS_EmptySet
<1>4. \A x, y \in W : x.seq < y.seq => Cardinality(Upto(x)) < Cardinality(Upto(y))
  <2> SUFFICES ASSUME NEW x \in W, NEW y \in W, x.seq < y.seq
               PROVE  Cardinality(Upto(x)) < Cardinality(Upto(y))
    OBVIOUS
  <2>1. Upto(x) \in SUBSET Upto(y) /\ y \in Upto(y) /\ y \notin Upto(x)
    OBVIOUS
  <2> HIDE DEF Upto
  <2>2. Cardinality(Upto(x)) =< Cardinality(Upto(y)) /\ Cardinality(Upto(x)) # Cardinality(Upto(y))
    BY <2>1, <1>2, FS_Subset
  <2> QED
    BY <2>2, <1>2
<1>5. \A x \in W : Rank(W, x) = Cardinality(Upto(x))
  BY DEF Rank
<1> HIDE DEF Upto
<1>6. \A x \in W : Rank(W, x) \in 1 .. k
  BY <1>1, <1>2, <1>3, <1>5
<1>7. \A x, y \in W : x.seq < y.seq => Rank(W, x) < Rank(W, y)
  BY <1>4, <1>5
<1>8. \A i \in 1 .. k : \E x \in W : Rank(W, x) = i
  <2> DEFINE f == [x \in W |-> Rank(W, x)]
  <2>1. \A x, y \in W : f[x] = f[y] => x = y
    <3> SUFFICES ASSUME NEW x \in W, NEW y \in W, Rank(W, x) = Rank(W, y)
                 PROVE  x.seq = y.seq
      OBVIOUS
    <3>1. Rank(W, x) \in Nat /\ Rank(W, y) \in Nat /\ x.seq \in Nat /\ y.seq \in Nat
      BY <1>6
    <3> QED
      BY <3>1, <1>7
  <2>2. f \in [W -> 1 .. k]
    BY <1>6
  <2> HIDE DEF f
  <2>3. f \in Injection(W, 1 .. k)
    BY <2>1, <2>2, Zenon DEF Injection, IsInjective
  <2>4. IsFiniteSet(1 .. k) /\ Cardinality(1 .. k) = k
    BY <1>1, FS_Interval
  <2>5. f \in Surjection(W, 1 .. k)
    BY <2>3, <2>4, FS_Injection
  <2> QED
    BY <2>5 DEF Surjection, f
<1> QED
  BY <1>1, <1>6, <1>7, <1>8

-----------------------------------------------------------------------------
(* What a handler does to the messages a node has seen. *)

(* Node n, with its clock and number at c and q, has accepted m: a write of its own, put *)
(* just now, or a message of another node.                                               *)
IsOwnWrite(n, m, q) ==
    /\ m.type = "replicate" /\ m.sender = n /\ m.seq = nextSeq[n] + 1 /\ q = m.seq
    /\ clock[n] < m.timestamp
    /\ m.id \notin Ids(Writes(Published))
IsOfAnother(n, m, q) == m \in Published /\ m.sender # n /\ q = nextSeq[n]
Accepts(n, m, c, q) ==
    /\ m \in Message /\ m \notin seen[n]
    /\ c \in Nat /\ q \in Nat /\ clock[n] =< c /\ m.timestamp =< c
    /\ IsOwnWrite(n, m, q) \/ IsOfAnother(n, m, q)

(* own are n's acknowledgements of the writes in W: numbered from q on without a gap, in *)
(* step with the clock, and one for each write.                                          *)
AreAcks(own, W, n, c, q) ==
    /\ IsFiniteSet(own)
    /\ \A a \in own : /\ a \in Message /\ a.type = "ack" /\ a.sender = n
                      /\ a.seq \in q + 1 .. q + Cardinality(W)
                      /\ a.timestamp = c + (a.seq - q)
                      /\ \E x \in W : x.id = a.id
    /\ \A x \in W : \E a \in own : a.id = x.id
    /\ \A j \in q + 1 .. q + Cardinality(W) : \E a \in own : a.seq = j
    /\ \A a, b \in own : a.seq = b.seq => a = b

LEMMA AcknowledgeNumbers ==
    ASSUME NEW n \in Node, NEW c \in Nat, NEW q \in Nat,
           NEW W \in SUBSET Message, IsFiniteSet(W),
           \A x, y \in W : x.seq = y.seq => x = y
    PROVE  AreAcks({Acknowledge(n, x, W, c, q) : x \in W}, W, n, c, q)
<1> DEFINE own == {Acknowledge(n, x, W, c, q) : x \in W}
           k == Cardinality(W)
           Ack(x) == Acknowledge(n, x, W, c, q)
<1>1. \A x \in W : x.seq \in Nat /\ x.id \in Write
  BY DEF Message
<1>2. /\ k \in Nat
      /\ \A x \in W : Rank(W, x) \in 1 .. k
      /\ \A x, y \in W : x.seq < y.seq => Rank(W, x) < Rank(W, y)
      /\ \A i \in 1 .. k : \E x \in W : Rank(W, x) = i
  BY <1>1, RanksCount
<1>3. \A x \in W : Ack(x) = [type |-> "ack", id |-> x.id, sender |-> n,
                             seq |-> q + Rank(W, x), timestamp |-> c + Rank(W, x)]
  BY DEF Acknowledge, Rank
<1>4. \A x \in W : /\ Ack(x) \in Message /\ Ack(x).type = "ack" /\ Ack(x).sender = n
                   /\ Ack(x).seq = q + Rank(W, x)
                   /\ Ack(x).timestamp = c + Rank(W, x)
                   /\ Ack(x).id = x.id
  <2> SUFFICES ASSUME NEW x \in W
               PROVE  /\ Ack(x) \in Message /\ Ack(x).type = "ack" /\ Ack(x).sender = n
                      /\ Ack(x).seq = q + Rank(W, x)
                      /\ Ack(x).timestamp = c + Rank(W, x)
                      /\ Ack(x).id = x.id
    OBVIOUS
  <2>1. Rank(W, x) \in Nat
    BY <1>2
  <2>2. q + Rank(W, x) \in Nat /\ c + Rank(W, x) \in Nat
    BY <2>1
  <2> HIDE DEF Ack
  <2> QED
    BY <2>2, <1>1, <1>3 DEF Message
<1>5. own = {Ack(x) : x \in W}
  OBVIOUS
<1> HIDE DEF Ack, own
<1>6. IsFiniteSet(own)
  <2> DEFINE f == [x \in W |-> Ack(x)]
  <2>1. f \in [W -> own] /\ \A a \in own : \E x \in W : f[x] = a
    BY <1>5
  <2> HIDE DEF f
  <2>2. f \in Surjection(W, own)
    BY <2>1 DEF Surjection
  <2> QED
    BY <2>2, FS_Surjection
<1>7. \A a \in own : \E x \in W :
          /\ a = Ack(x) /\ a \in Message /\ a.type = "ack" /\ a.sender = n
          /\ a.seq = q + Rank(W, x)
          /\ a.timestamp = c + Rank(W, x)
          /\ a.id = x.id
  BY <1>4, <1>5
<1>8. \A a \in own : /\ a \in Message /\ a.type = "ack" /\ a.sender = n
                     /\ a.seq \in q + 1 .. q + k
                     /\ a.timestamp = c + (a.seq - q)
                     /\ \E x \in W : x.id = a.id
  <2> SUFFICES ASSUME NEW a \in own
               PROVE  /\ a.seq \in q + 1 .. q + k
                      /\ a.timestamp = c + (a.seq - q)
    BY <1>7
  <2>1. PICK x \in W : a.seq = q + Rank(W, x) /\ a.timestamp = c + Rank(W, x)
    BY <1>7
  <2> QED
    BY <2>1, <1>2
<1>9. \A x \in W : \E a \in own : a.id = x.id
  BY <1>4, <1>5
<1>10. \A j \in q + 1 .. q + k : \E a \in own : a.seq = j
  <2> SUFFICES ASSUME NEW j \in q + 1 .. q + k PROVE \E a \in own : a.seq = j
    OBVIOUS
  <2>1. j - q \in 1 .. k
    BY <1>2
  <2>2. PICK x \in W : Rank(W, x) = j - q
    BY <2>1, <1>2
  <2>3. Ack(x) \in own /\ Ack(x).seq = q + (j - q)
    BY <2>2, <1>4, <1>5
  <2> QED
    BY <2>3, <1>2
<1>11. \A a, b \in own : a.seq = b.seq => a = b
  <2> SUFFICES ASSUME NEW a \in own, NEW b \in own, a.seq = b.seq PROVE a = b
    OBVIOUS
  <2>1. PICK x \in W : a = Ack(x) /\ a.seq = q + Rank(W, x)
    BY <1>7
  <2>2. PICK y \in W : b = Ack(y) /\ b.seq = q + Rank(W, y)
    BY <1>7
  <2>3. Rank(W, x) = Rank(W, y) /\ Rank(W, x) \in Nat
    BY <2>1, <2>2, <1>2
  <2>4. x.seq = y.seq
    BY <2>3, <1>1, <1>2
  <2> QED
    BY <2>1, <2>2, <2>4
<1> QED
  BY <1>6, <1>8, <1>9, <1>10, <1>11 DEF AreAcks, own

LEMMA SeenFields ==
    ASSUME TypeOK, NEW n \in Node, NEW x \in seen[n]
    PROVE  /\ x \in Message /\ x.sender \in Node /\ x.seq \in Nat /\ x.timestamp \in Nat
           /\ x.id \in Write /\ x.type \in {"replicate", "ack"}
           /\ x \in Published
  BY DEF TypeOK, Message, Published

(* What n processes on accepting m is the run of messages of m's sender from the number *)
(* it expects up to the next that is missing.                                           *)
LEMMA BatchIsRun ==
    ASSUME Inv, NEW n \in Node, NEW m, NEW c, NEW q, Accepts(n, m, c, q)
    PROVE  LET S == seen[n] \union {m}
               e == expectedSeq[n][m.sender]
               k == NextExpected(n, m)
           IN  /\ k \in Nat /\ e \in Nat /\ 0 < e /\ e =< k /\ e =< m.seq
               /\ Batch(n, m) = {x \in S : x.sender = m.sender /\ e =< x.seq /\ x.seq < k}
               /\ \A j \in 1 .. k - 1 : \E x \in S : x.sender = m.sender /\ x.seq = j
               /\ \A x \in S : x.sender = m.sender => x.seq # k
               /\ m.sender = n => k = q + 1 /\ Batch(n, m) = {m}
               /\ IsFiniteSet(Batch(n, m))
               /\ Batch(n, m) \in SUBSET Message
               /\ \A x, y \in Batch(n, m) : x.seq = y.seq => x = y
<1> DEFINE p == m.sender
           S == seen[n] \union {m}
           e == expectedSeq[n][p]
           k == NextExpected(n, m)
           H == Incoming(n, p) \union {m}
<1>1. /\ p \in Node /\ m.seq \in Nat /\ e \in Nat /\ 0 < e
      /\ \A x \in seen[n] : x.seq \in Nat /\ x \in Message
      /\ S \subseteq Message /\ IsFiniteSet(seen[n])
      /\ nextSeq[p] \in Nat /\ nextSeq[n] \in Nat
  <2>1. TypeOK /\ IsFiniteSet(seen[n]) /\ m \in Message
    BY DEF Inv, SeenIsPast, Accepts
  <2>2. p \in Node /\ m.seq \in Nat
    BY <2>1 DEF Message
  <2>3. e \in Nat /\ nextSeq[p] \in Nat /\ nextSeq[n] \in Nat
    BY <2>1, <2>2 DEF TypeOK
  <2>4. 0 < e
    BY <2>2, <2>3 DEF Inv, ExpectedIsMissing
  <2>5. \A x \in seen[n] : x.seq \in Nat /\ x \in Message
    BY <2>1, SeenFields
  <2> QED
    BY <2>1, <2>2, <2>3, <2>4, <2>5
<1>2. \A x \in seen[n] : x.sender = p => x \in seen[p] /\ x.seq =< nextSeq[p]
  BY <1>1 DEF Inv, SeenIsPast
<1>3. p # n => m \in seen[p] /\ m.seq =< nextSeq[p]
  BY <1>1 DEF Inv, SeenIsPast, Accepts, IsOwnWrite, IsOfAnother, Published
<1>4. p = n => m.seq = nextSeq[n] + 1 /\ e = m.seq /\ q = m.seq
  BY DEF Inv, ExpectedIsMissing, Accepts, IsOwnWrite, IsOfAnother
<1>5. m.seq >= e
  <2>1. CASE p = n
    BY <2>1, <1>1, <1>4
  <2>2. CASE p # n
    <3> SUFFICES ASSUME m.seq < e PROVE FALSE
      BY <1>1
    <3>1. m.seq > 0
      BY <2>2, <1>1 DEF Inv, SeenIsPast, Accepts, IsOwnWrite, IsOfAnother, Published
    <3>2. m.seq \in 1 .. e - 1
      BY <3>1, <1>1
    <3>3. PICK x \in seen[n] : x.sender = p /\ x.seq = m.seq
      BY <3>2, <1>1 DEF Inv, ExpectedIsMissing
    <3>4. x = m
      BY <3>3, <2>2, <1>1, <1>2, <1>3 DEF Inv, NumbersAreLater
    <3> QED
      BY <3>4 DEF Accepts
  <2> QED
    BY <2>1, <2>2
<1>6. H = {x \in S : x.sender = p /\ e =< x.seq}
  BY <1>1, <1>5 DEF Incoming
<1>7. \A h \in H : h.seq \in Nat /\ h.seq =< nextSeq[p] + 1
  BY <1>1, <1>2, <1>3, <1>4, <1>6
<1>8. k = FirstMissing(H, e)
  BY DEF NextExpected
<1> HIDE DEF H, e, k
<1>9. /\ k \in Nat /\ e =< k
      /\ \A h \in H : h.seq # k
      /\ \A j \in e .. k - 1 : \E h \in H : h.seq = j
  <2>1. nextSeq[p] + 1 \in Nat
    BY <1>1
  <2> QED
    BY <2>1, <1>1, <1>7, <1>8, FirstMissingIsFirst
<1>10. Batch(n, m) = {x \in H : x.seq < k}
  BY DEF Batch, H, k
<1>11. Batch(n, m) = {x \in S : x.sender = p /\ e =< x.seq /\ x.seq < k}
  BY <1>6, <1>10
<1>12. \A j \in 1 .. k - 1 : \E x \in S : x.sender = p /\ x.seq = j
  <2> SUFFICES ASSUME NEW j \in 1 .. k - 1 PROVE \E x \in S : x.sender = p /\ x.seq = j
    OBVIOUS
  <2>1. CASE j < e
    <3>1. j \in 1 .. e - 1
      BY <2>1, <1>1, <1>9
    <3> QED
      BY <3>1, <1>1 DEF Inv, ExpectedIsMissing, e
  <2>2. CASE ~(j < e)
    <3>1. j \in e .. k - 1
      BY <2>2, <1>1, <1>9
    <3> QED
      BY <3>1, <1>6, <1>9
  <2> QED
    BY <2>1, <2>2
<1>13. \A x \in S : x.sender = p => x.seq # k
  BY <1>1, <1>6, <1>9, Zenon DEF Message
<1>14. ASSUME p = n PROVE k = q + 1 /\ Batch(n, m) = {m}
  <2>1. H = {m}
    BY <1>14, <1>1, <1>2, <1>4, <1>6
  <2>2. k # e /\ \A j \in e .. k - 1 : j = e
    BY <2>1, <1>14, <1>4, <1>9
  <2>3. k = e + 1
    <3>1. CASE e + 1 =< k - 1
      BY <3>1, <2>2, <1>1, <1>9, e + 1 \in e .. k - 1
    <3> QED
      BY <3>1, <2>2, <1>1, <1>9
  <2> QED
    BY <2>1, <2>3, <1>14, <1>1, <1>4, <1>10
<1>15. IsFiniteSet(Batch(n, m)) /\ Batch(n, m) \in SUBSET Message
  <2>1. IsFiniteSet(S)
    BY <1>1, FS_AddElement
  <2>2. Batch(n, m) \in SUBSET S
    BY <1>11
  <2> QED
    BY <2>1, <2>2, <1>1, FS_Subset
<1>16. \A x, y \in Batch(n, m) : x.seq = y.seq => x = y
  <2>1. CASE p = n
    BY <2>1, <1>14
  <2>2. CASE p # n
    <3>1. \A x \in Batch(n, m) : x \in seen[p] /\ x.sender = p
      BY <2>2, <1>2, <1>3, <1>11
    <3> QED
      BY <3>1, <1>1 DEF Inv, NumbersAreLater
  <2> QED
    BY <2>1, <2>2
<1> QED
  BY <1>1, <1>5, <1>9, <1>11, <1>12, <1>13, <1>14, <1>15, <1>16 DEF e, k

Own(n, m, c, q) == {Acknowledge(n, x, Writes(Batch(n, m)), c, q) : x \in Writes(Batch(n, m))}

LEMMA OwnAreAcks ==
    ASSUME Inv, NEW n \in Node, NEW m, NEW c, NEW q, Accepts(n, m, c, q)
    PROVE  /\ AreAcks(Own(n, m, c, q), Writes(Batch(n, m)), n, c, q)
           /\ Cardinality(Writes(Batch(n, m))) \in Nat
<1>1. /\ IsFiniteSet(Batch(n, m)) /\ Batch(n, m) \in SUBSET Message
      /\ \A x, y \in Batch(n, m) : x.seq = y.seq => x = y
  BY BatchIsRun
<1>2. Writes(Batch(n, m)) \in SUBSET Batch(n, m)
  BY DEF Writes
<1>3. IsFiniteSet(Writes(Batch(n, m))) /\ Cardinality(Writes(Batch(n, m))) \in Nat
  BY <1>1, <1>2, FS_Subset, FS_CardinalityType
<1> QED
  BY <1>1, <1>2, <1>3, AcknowledgeNumbers DEF Own, Accepts

(* The messages that n has seen and processed, its clock and the numbers it expects, once *)
(* it has handled m: K are the writes it acknowledges.                                    *)
MessagesAfter(n, m, c, q, K) ==
    /\ clock' = [clock EXCEPT ![n] = c + K]
    /\ nextSeq' = [nextSeq EXCEPT ![n] = q + K]
    /\ seen' = [seen EXCEPT ![n] = @ \union {m} \union Own(n, m, c, q)]
    /\ expectedSeq'[n][n] = q + K + 1
    /\ m.sender # n => expectedSeq'[n][m.sender] = NextExpected(n, m)
    /\ \A p \in Node : p # n /\ p # m.sender => expectedSeq'[n][p] = expectedSeq[n][p]
    /\ \A r \in Node : r # n => expectedSeq'[r] = expectedSeq[r]
    /\ expectedSeq' \in [Node -> [Node -> Nat]]

LEMMA HandlerMovesMessages ==
    ASSUME Inv, NEW n \in Node, NEW m, NEW c, NEW q, Accepts(n, m, c, q),
           ReceiveAndReplicate(n, m, c, q)
    PROVE  MessagesAfter(n, m, c, q, Cardinality(Writes(Batch(n, m))))
<1> DEFINE K == Cardinality(Writes(Batch(n, m)))
           row == [p \in Node |-> CASE p = n -> q + K + 1
                                    [] p = m.sender /\ p # n -> NextExpected(n, m)
                                    [] OTHER -> expectedSeq[n][p]]
<1>1. /\ clock' = [clock EXCEPT ![n] = c + K]
      /\ nextSeq' = [nextSeq EXCEPT ![n] = q + K]
      /\ seen' = [seen EXCEPT ![n] = @ \union {m} \union Own(n, m, c, q)]
  BY DEF ReceiveAndReplicate, Own
<1>2. expectedSeq' = [expectedSeq EXCEPT ![n] = row]
  BY DEF ReceiveAndReplicate
<1>3. K \in Nat /\ NextExpected(n, m) \in Nat /\ q \in Nat
  BY OwnAreAcks, BatchIsRun DEF Accepts
<1>4. expectedSeq \in [Node -> [Node -> Nat]]
  BY DEF Inv, TypeOK
<1>5. row \in [Node -> Nat]
  BY <1>3, <1>4
<1>6. /\ row[n] = q + K + 1
      /\ m.sender # n => row[m.sender] = NextExpected(n, m)
      /\ \A p \in Node : p # n /\ p # m.sender => row[p] = expectedSeq[n][p]
  BY DEF Accepts, Message
<1> HIDE DEF row, K
<1>7. /\ expectedSeq' \in [Node -> [Node -> Nat]]
      /\ expectedSeq'[n] = row
      /\ \A r \in Node : r # n => expectedSeq'[r] = expectedSeq[r]
  BY <1>2, <1>4, <1>5
<1> QED
  BY <1>1, <1>6, <1>7 DEF MessagesAfter, K

(* Node n has processed what it had processed, the batch, and its own acknowledgements; *)
(* nothing of the batch was processed before, and nothing changes elsewhere.            *)
LEMMA BatchIsProcessed ==
    ASSUME Inv, NEW n \in Node, NEW m, NEW c, NEW q, Accepts(n, m, c, q), NEW K,
           K = Cardinality(Writes(Batch(n, m))), MessagesAfter(n, m, c, q, K)
    PROVE  /\ Processed(n)' = Processed(n) \union Batch(n, m) \union Own(n, m, c, q)
           /\ \A x \in Batch(n, m) : x \notin Processed(n)
           /\ \A r \in Node : r # n => Processed(r)' = Processed(r)
<1> DEFINE p == m.sender
           S == seen[n] \union {m}
<1>1. PICK own, k, batch, e : /\ own = Own(n, m, c, q) /\ k = NextExpected(n, m)
                              /\ batch = Batch(n, m) /\ e = expectedSeq[n][p]
  OBVIOUS
<1>2. /\ k \in Nat /\ e \in Nat /\ 0 < e /\ e =< k /\ e =< m.seq
      /\ batch = {x \in S : x.sender = p /\ e =< x.seq /\ x.seq < k}
      /\ p = n => k = q + 1 /\ batch = {m}
  BY <1>1, BatchIsRun
<1>3. /\ \A a \in own : a.sender = n /\ a.seq \in q + 1 .. q + K
      /\ K \in Nat /\ q \in Nat /\ c \in Nat
  BY <1>1, OwnAreAcks DEF AreAcks, Accepts
<1>4. /\ TypeOK /\ p \in Node
      /\ \A x \in S : x.seq \in Nat /\ x.sender \in Node
  BY SeenFields DEF Inv, Accepts, Message
<1>5. /\ seen'[n] = S \union own
      /\ \A r \in Node : r # n => seen'[r] = seen[r]
  BY <1>1, <1>4 DEF TypeOK, MessagesAfter
<1>6. /\ \A x \in seen[n] : x.sender = n => x.seq =< nextSeq[n]
      /\ expectedSeq[n][n] = nextSeq[n] + 1 /\ nextSeq[n] \in Nat
      /\ \A r \in Node : expectedSeq[n][r] \in Nat
  BY <1>4 DEF Inv, SeenIsPast, ExpectedIsMissing, TypeOK
<1>7. nextSeq[n] =< q
  BY <1>3, <1>6 DEF Accepts, IsOwnWrite, IsOfAnother
<1>8. /\ expectedSeq'[n][n] = q + K + 1
      /\ p # n => expectedSeq'[n][p] = k
      /\ \A r \in Node : r # n /\ r # p => expectedSeq'[n][r] = expectedSeq[n][r]
  BY <1>1 DEF MessagesAfter
<1>9. \A x \in S : x.sender # p => x \in seen[n]
  OBVIOUS
<1>10. \A x \in batch : x \notin Processed(n)
  BY <1>1, <1>2, <1>4 DEF Processed
<1>11. \A x \in S \union own : x.seq < expectedSeq'[n][x.sender] <=>
                               x \in Processed(n) \union batch \union own
  <2>1. \A x \in own : x.seq < expectedSeq'[n][x.sender]
    BY <1>3, <1>8
  <2>2. ASSUME NEW x \in S, x.sender = n
        PROVE  x.seq < expectedSeq'[n][x.sender] /\ x \in Processed(n) \union batch \union own
    <3>1. x.seq =< q
      BY <2>2, <1>3, <1>4, <1>6, <1>7 DEF Accepts, IsOwnWrite, IsOfAnother
    <3>2. x.seq < expectedSeq'[n][x.sender]
      BY <3>1, <2>2, <1>3, <1>4, <1>8
    <3>3. CASE x \in seen[n]
      BY <3>2, <3>3, <2>2, <1>4, <1>6 DEF Processed
    <3>4. CASE x = m
      BY <3>2, <3>4, <2>2, <1>2
    <3> QED
      BY <3>2, <3>3, <3>4
  <2>3. ASSUME NEW x \in S, x.sender # n, x.sender = p
        PROVE  x.seq < expectedSeq'[n][x.sender] <=> x \in Processed(n) \union batch \union own
    <3>1. x \notin own
      BY <2>3, <1>3
    <3>2. CASE e =< x.seq
      BY <2>3, <3>1, <3>2, <1>1, <1>2, <1>4, <1>8 DEF Processed
    <3>3. CASE x.seq < e
      <4>1. x \in seen[n]
        BY <3>3, <1>2, <1>4
      <4> QED
        BY <4>1, <2>3, <3>3, <1>1, <1>2, <1>4, <1>8 DEF Processed
    <3> QED
      BY <3>2, <3>3, <1>2, <1>4
  <2>4. ASSUME NEW x \in S, x.sender # n, x.sender # p
        PROVE  x.seq < expectedSeq'[n][x.sender] <=> x \in Processed(n) \union batch \union own
    BY <2>4, <1>2, <1>3, <1>4, <1>8, <1>9 DEF Processed
  <2> QED
    BY <2>1, <2>2, <2>3, <2>4
<1>12. Processed(n)' = Processed(n) \union batch \union own
  <2>1. Processed(n)' = {x \in S \union own : x.seq < expectedSeq'[n][x.sender]}
    BY <1>5 DEF Processed
  <2>2. Processed(n) \union batch \union own \subseteq S \union own
    BY <1>2 DEF Processed
  <2> QED
    BY <2>1, <2>2, <1>11
<1>13. \A r \in Node : r # n => Processed(r)' = Processed(r)
  BY <1>5 DEF Processed, MessagesAfter
<1> QED
  BY <1>1, <1>10, <1>12, <1>13

(* The invariants of the messages, for the time being those of node r. *)
LEMMA MessagesKeep ==
    ASSUME Inv, NEW n \in Node, NEW m, NEW c, NEW q, Accepts(n, m, c, q), NEW K,
           K = Cardinality(Writes(Batch(n, m))), MessagesAfter(n, m, c, q, K)
    PROVE  /\ clock' \in [Node -> Nat] /\ nextSeq' \in [Node -> Nat]
           /\ seen' \in [Node -> SUBSET Message]
           /\ \A r \in Node : seen[r] \subseteq seen'[r]
           /\ Published' = Published \union {m} \union Own(n, m, c, q)
           /\ SeenIsPast' /\ NumbersAreLater' /\ WritesAreUnique'
           /\ ExpectedIsMissing' /\ AcksAreLater'
<1> DEFINE p == m.sender
<1>1. PICK own, batch : own = Own(n, m, c, q) /\ batch = Batch(n, m)
  OBVIOUS
<1>inv. /\ TypeOK /\ SeenIsPast /\ NumbersAreLater /\ WritesAreUnique
        /\ ExpectedIsMissing /\ AcksAreLater
  BY DEF Inv
<1>2. /\ m \in Message /\ p \in Node /\ m.seq \in Nat /\ m.timestamp \in Nat
      /\ m.timestamp =< c /\ clock[n] =< c /\ c \in Nat /\ q \in Nat
      /\ IsOwnWrite(n, m, q) \/ IsOfAnother(n, m, q)
  BY DEF Accepts, Message
<1>3. /\ K \in Nat /\ IsFiniteSet(own)
      /\ \A a \in own : /\ a \in Message /\ a.type = "ack" /\ a.sender = n
                        /\ a.seq \in q + 1 .. q + K
                        /\ a.timestamp = c + (a.seq - q)
                        /\ \E x \in Writes(batch) : x.id = a.id
      /\ \A j \in q + 1 .. q + K : \E a \in own : a.seq = j
      /\ \A a, b \in own : a.seq = b.seq => a = b
  BY <1>1, OwnAreAcks DEF AreAcks
<1>4. /\ \A r \in Node : r # n => /\ seen'[r] = seen[r] /\ clock'[r] = clock[r]
                                  /\ nextSeq'[r] = nextSeq[r]
      /\ seen'[n] = seen[n] \union {m} \union own
      /\ clock'[n] = c + K /\ nextSeq'[n] = q + K
      /\ \A r \in Node : /\ clock[r] \in Nat /\ nextSeq[r] \in Nat
                         /\ seen[r] \in SUBSET Message
  BY <1>1, <1>inv DEF TypeOK, MessagesAfter
<1>5. clock' \in [Node -> Nat] /\ nextSeq' \in [Node -> Nat] /\ seen' \in [Node -> SUBSET Message]
  <2>1. c + K \in Nat /\ q + K \in Nat /\ seen[n] \union {m} \union own \in SUBSET Message
    BY <1>2, <1>3, <1>4
  <2> QED
    BY <2>1, <1>1, <1>inv DEF TypeOK, MessagesAfter
<1>6. \A r \in Node : seen[r] \subseteq seen'[r] /\ nextSeq[r] =< nextSeq'[r]
  <2>1. nextSeq[n] =< q
    BY <1>2, <1>4 DEF IsOwnWrite, IsOfAnother
  <2> QED
    BY <2>1, <1>2, <1>3, <1>4
<1>7. Published' = Published \union {m} \union own
  BY <1>4 DEF Published
<1>8. \A x \in seen[n] : x.seq \in Nat /\ x.timestamp \in Nat /\ x.sender \in Node
  BY <1>4 DEF Message
<1>9. SeenIsPast'
  <2> SUFFICES ASSUME NEW r \in Node
               PROVE  /\ IsFiniteSet(seen'[r])
                      /\ \A x \in seen'[r] : /\ x \in seen'[x.sender]
                                             /\ x.seq \in 1 .. nextSeq'[x.sender]
                                             /\ x.timestamp =< clock'[r]
    BY DEF SeenIsPast
  <2>1. IsFiniteSet(seen'[r])
    <3>1. IsFiniteSet(seen[r])
      BY <1>inv DEF SeenIsPast
    <3>2. IsFiniteSet(seen[n] \union {m} \union own)
      <4>1. IsFiniteSet(seen[n])
        BY <1>inv DEF SeenIsPast
      <4> QED
        BY <4>1, <1>3, FS_AddElement, FS_Union
    <3> QED
      BY <3>1, <3>2, <1>4
  <2>2. ASSUME NEW x \in seen[r]
        PROVE  /\ x \in seen'[x.sender]
               /\ x.seq \in 1 .. nextSeq'[x.sender]
               /\ x.timestamp =< clock'[r]
    <3>1. x.sender \in Node /\ x.seq \in Nat /\ x.timestamp \in Nat
      BY <1>4 DEF Message
    <3>2. x \in seen[x.sender] /\ x.seq \in 1 .. nextSeq[x.sender] /\ x.timestamp =< clock[r]
      BY <1>inv DEF SeenIsPast
    <3>3. nextSeq'[x.sender] \in Nat /\ clock[r] =< clock'[r] /\ clock'[r] \in Nat
      BY <3>1, <1>2, <1>3, <1>4
    <3> QED
      BY <3>1, <3>2, <3>3, <1>4, <1>6
  <2>3. /\ m \in seen'[p]
        /\ m.seq \in 1 .. nextSeq'[p]
        /\ m.timestamp =< clock'[n]
    <3>1. m.timestamp =< clock'[n]
      BY <1>2, <1>3, <1>4
    <3>2. CASE IsOwnWrite(n, m, q)
      BY <3>1, <3>2, <1>2, <1>3, <1>4 DEF IsOwnWrite
    <3>3. CASE IsOfAnother(n, m, q)
      <4>1. m \in seen[p] /\ m.seq \in 1 .. nextSeq[p]
        BY <3>3, <1>inv DEF IsOfAnother, Published, SeenIsPast
      <4>2. nextSeq[p] =< nextSeq'[p] /\ nextSeq[p] \in Nat /\ nextSeq'[p] \in Nat
        BY <1>2, <1>4, <1>5, <1>6
      <4> QED
        BY <3>1, <4>1, <4>2, <1>2, <1>6
    <3> QED
      BY <1>2, <3>2, <3>3
  <2>4. ASSUME NEW x \in own
        PROVE  /\ x \in seen'[x.sender]
               /\ x.seq \in 1 .. nextSeq'[x.sender]
               /\ x.timestamp =< clock'[n]
    BY <1>2, <1>3, <1>4
  <2> QED
    BY <2>1, <2>2, <2>3, <2>4, <1>4
<1>10. NumbersAreLater'
  <2> DEFINE ownSeen(r) == {x \in seen'[r] : x.sender = r}
  <2>1. ASSUME NEW r \in Node, r # n
        PROVE  /\ \A j \in 1 .. nextSeq'[r] : \E x \in seen'[r] : x.sender = r /\ x.seq = j
               /\ \A a, b \in ownSeen(r) : /\ a.seq < b.seq => a.timestamp < b.timestamp
                                           /\ a.seq = b.seq => a = b
    BY <2>1, <1>inv, <1>4 DEF NumbersAreLater
  <2>2. /\ \A x \in seen[n] : x.sender = n => /\ x.seq =< nextSeq[n] /\ x.timestamp =< clock[n]
                                              /\ x.seq \in Nat /\ x.timestamp \in Nat
        /\ clock[n] \in Nat /\ nextSeq[n] \in Nat
    BY <1>inv, <1>4, <1>8 DEF SeenIsPast
  <2>3. \A j \in 1 .. nextSeq'[n] : \E x \in seen'[n] : x.sender = n /\ x.seq = j
    <3> SUFFICES ASSUME NEW j \in 1 .. q + K
                 PROVE  \E x \in seen'[n] : x.sender = n /\ x.seq = j
      BY <1>4
    <3>1. CASE j =< nextSeq[n]
      <4>1. j \in 1 .. nextSeq[n]
        BY <3>1, <2>2
      <4> QED
        BY <4>1, <1>inv, <1>4 DEF NumbersAreLater
    <3>2. CASE j > q
      BY <3>2, <1>2, <1>3, <1>4
    <3>3. CASE j > nextSeq[n] /\ j =< q
      <4>1. IsOwnWrite(n, m, q) /\ j = m.seq
        BY <3>3, <2>2, <1>2 DEF IsOwnWrite, IsOfAnother
      <4> QED
        BY <4>1, <1>4 DEF IsOwnWrite
    <3> QED
      BY <3>1, <3>2, <3>3, <2>2, <1>2
  <2>4. \A a, b \in ownSeen(n) : /\ a.seq < b.seq => a.timestamp < b.timestamp
                                 /\ a.seq = b.seq => a = b
    <3>1. \A x \in ownSeen(n) : \/ x \in seen[n] /\ x.sender = n
                                \/ x = m /\ IsOwnWrite(n, m, q)
                                \/ x \in own
      BY <1>2, <1>4 DEF IsOfAnother
    <3>2. \A a, b \in seen[n] : a.sender = n /\ b.sender = n =>
              /\ a.seq < b.seq => a.timestamp < b.timestamp
              /\ a.seq = b.seq => a = b
      BY <1>inv DEF NumbersAreLater
    <3>3. ASSUME NEW a \in seen[n], a.sender = n, IsOwnWrite(n, m, q)
          PROVE  a.seq < m.seq /\ a.timestamp < m.timestamp
      BY <3>3, <2>2, <1>2 DEF IsOwnWrite
    <3>4. nextSeq[n] =< q
      BY <1>2, <2>2 DEF IsOwnWrite, IsOfAnother
    <3>5. ASSUME NEW a \in seen[n], a.sender = n, NEW b \in own
          PROVE  a.seq < b.seq /\ a.timestamp < b.timestamp
      BY <3>4, <3>5, <2>2, <1>2, <1>3
    <3>6. ASSUME NEW b \in own, IsOwnWrite(n, m, q)
          PROVE  m.seq < b.seq /\ m.timestamp < b.timestamp
      BY <3>6, <1>2, <1>3 DEF IsOwnWrite
    <3>7. \A a, b \in own : /\ a.seq < b.seq => a.timestamp < b.timestamp
                            /\ a.seq = b.seq => a = b
      BY <1>2, <1>3
    <3>8. /\ \A a \in own : a.seq \in Nat /\ a.timestamp \in Nat
          /\ m.seq \in Nat /\ m.timestamp \in Nat
      BY <1>2, <1>3
    <3> SUFFICES ASSUME NEW a \in ownSeen(n), NEW b \in ownSeen(n)
                 PROVE  /\ a.seq < b.seq => a.timestamp < b.timestamp
                        /\ a.seq = b.seq => a = b
      OBVIOUS
    <3>9. CASE a \in seen[n] /\ a.sender = n
      BY <3>9, <3>1, <3>2, <3>3, <3>5, <3>8, <2>2
    <3>10. CASE a = m /\ IsOwnWrite(n, m, q)
      BY <3>10, <3>1, <3>3, <3>6, <3>8, <2>2
    <3>11. CASE a \in own
      BY <3>11, <3>1, <3>5, <3>6, <3>7, <3>8, <2>2
    <3> QED
      BY <3>1, <3>9, <3>10, <3>11
  <2> QED
    BY <2>1, <2>3, <2>4 DEF NumbersAreLater
<1>11. WritesAreUnique'
  <2>1. \A x \in own : x.type = "ack"
    BY <1>3
  <2>2. Writes(Published)' \subseteq Writes(Published) \union Writes({m})
    BY <1>7, <2>1 DEF Writes
  <2>3. CASE IsOwnWrite(n, m, q)
    BY <2>2, <2>3, <1>inv DEF WritesAreUnique, IsOwnWrite, Ids, Writes
  <2>4. CASE IsOfAnother(n, m, q)
    <3>1. Writes(Published)' \subseteq Writes(Published)
      BY <2>2, <2>4 DEF IsOfAnother, Writes
    <3> QED
      BY <3>1, <1>inv DEF WritesAreUnique
  <2> QED
    BY <2>3, <2>4, <1>2
<1>12. ExpectedIsMissing'
  <2> DEFINE e(r, s) == expectedSeq'[r][s]
             Good(r, s) == /\ e(r, s) > 0
                           /\ \A j \in 1 .. e(r, s) - 1 : \E x \in seen'[r] : x.sender = s /\ x.seq = j
                           /\ \A x \in seen'[r] : x.sender = s => x.seq # e(r, s)
  <2>1. ASSUME NEW r \in Node, NEW s \in Node, r # n PROVE Good(r, s)
    BY <2>1, <1>inv, <1>4 DEF ExpectedIsMissing, MessagesAfter
  <2>2. \A r \in Node : e(r, r) = nextSeq'[r] + 1
    BY <1>inv, <1>2, <1>3, <1>4 DEF ExpectedIsMissing, MessagesAfter
  <2>3. Good(n, n)
    <3>1. e(n, n) = nextSeq'[n] + 1 /\ nextSeq'[n] \in Nat
      BY <2>2, <1>5
    <3>2. \A j \in 1 .. nextSeq'[n] : \E x \in seen'[n] : x.sender = n /\ x.seq = j
      BY <1>10 DEF NumbersAreLater
    <3>3. \A x \in seen'[n] : x.sender = n => x.seq =< nextSeq'[n] /\ x.seq \in Nat
      BY <1>9, <3>1 DEF SeenIsPast
    <3> QED
      BY <3>1, <3>2, <3>3
  <2>4. ASSUME p # n PROVE Good(n, p)
    <3>1. e(n, p) = NextExpected(n, m)
      BY <2>4 DEF MessagesAfter
    <3>2. /\ NextExpected(n, m) \in Nat /\ 0 < NextExpected(n, m)
          /\ \A j \in 1 .. NextExpected(n, m) - 1 : \E x \in seen[n] \union {m} : x.sender = p /\ x.seq = j
          /\ \A x \in seen[n] \union {m} : x.sender = p => x.seq # NextExpected(n, m)
      BY BatchIsRun
    <3>3. \A x \in own : x.sender # p
      BY <2>4, <1>3
    <3> QED
      BY <3>1, <3>2, <3>3, <1>4
  <2>5. ASSUME NEW s \in Node, s # n, s # p PROVE Good(n, s)
    <3>1. e(n, s) = expectedSeq[n][s]
      BY <2>5 DEF MessagesAfter
    <3>2. \A x \in seen'[n] : x.sender = s => x \in seen[n]
      BY <2>5, <1>3, <1>4
    <3> QED
      BY <3>1, <3>2, <1>inv, <1>4 DEF ExpectedIsMissing
  <2> QED
    BY <2>1, <2>2, <2>3, <2>4, <2>5 DEF ExpectedIsMissing
<1>13. AcksAreLater'
  <2>1. Writes(Published) \subseteq Writes(Published)'
    BY <1>7 DEF Writes
  <2>2. ASSUME NEW r \in Node, NEW x \in seen[r], x.type = "ack"
        PROVE  \E w \in Writes(Published)' : w.id = x.id /\ w.timestamp < x.timestamp
    BY <2>1, <2>2, <1>inv DEF AcksAreLater
  <2>3. ASSUME NEW x \in own
        PROVE  \E w \in Writes(Published)' : w.id = x.id /\ w.timestamp < x.timestamp
    <3>1. PICK w \in Writes(batch) : w.id = x.id
      BY <1>3
    <3>2. w \in seen[n] \union {m} /\ w.type = "replicate"
      BY <3>1, <1>1, BatchIsRun DEF Writes
    <3>3. w.timestamp =< c /\ w.timestamp \in Nat
      BY <3>2, <1>2, <1>4, <1>8, <1>inv DEF SeenIsPast
    <3>4. w.timestamp < x.timestamp
      BY <3>3, <1>2, <1>3
    <3>5. w \in Writes(Published)'
      BY <3>2, <1>7 DEF Writes, Published
    <3> QED
      BY <3>1, <3>4, <3>5
  <2>4. m.type = "ack" => \E r \in Node : m \in seen[r]
    BY <1>2 DEF IsOwnWrite, IsOfAnother, Published
  <2> QED
    BY <2>2, <2>3, <2>4, <1>4 DEF AcksAreLater
<1> QED
  BY <1>1, <1>5, <1>6, <1>7, <1>9, <1>10, <1>11, <1>12, <1>13

-----------------------------------------------------------------------------
(* The order of delivery. *)

LEMMA BeforeIsTransitive ==
    ASSUME NEW a \in Message, NEW b \in Message, NEW x \in Message, Before(a, b), Before(b, x)
    PROVE  Before(a, x)
<1>1. \A y \in {a, b, x} : y.timestamp \in Nat /\ y.sender \in Nat
  BY NodesAreOrdered DEF Message
<1> QED
  BY <1>1 DEF Before

LEMMA BeforeIsStrict ==
    ASSUME NEW a \in Message, NEW b \in Message, Before(a, b)
    PROVE  ~Before(b, a) /\ a # b
<1>1. \A y \in {a, b} : y.timestamp \in Nat /\ y.sender \in Nat
  BY NodesAreOrdered DEF Message
<1> QED
  BY <1>1 DEF Before

(* Of two messages one is before the other, as a sender's timestamps differ. *)
LEMMA BeforeIsTotal ==
    ASSUME TypeOK, SeenIsPast, NumbersAreLater,
           NEW a \in Published, NEW b \in Published, a # b
    PROVE  Before(a, b) \/ Before(b, a)
<1>1. /\ a.sender \in Node /\ a.seq \in Nat /\ a.timestamp \in Nat /\ a \in seen[a.sender]
      /\ b.sender \in Node /\ b.seq \in Nat /\ b.timestamp \in Nat /\ b \in seen[b.sender]
  BY SeenFields DEF Published, SeenIsPast
<1>2. CASE a.sender = b.sender
  <2>1. a.timestamp # b.timestamp
    BY <1>1, <1>2 DEF NumbersAreLater
  <2> QED
    BY <2>1, <1>1 DEF Before
<1>3. CASE a.sender # b.sender
  <2>1. a.sender \in Nat /\ b.sender \in Nat
    BY <1>1, NodesAreOrdered
  <2>2. a.timestamp \in Nat /\ b.timestamp \in Nat
    BY <1>1
  <2>3. a.sender < b.sender \/ b.sender < a.sender
    BY <2>1, <1>3
  <2> QED
    BY <2>2, <2>3 DEF Before
<1> QED
  BY <1>2, <1>3

(* Once n has processed an acknowledgement of p that is later than b, it has processed *)
(* every message of p that is before b.                                                *)
LEMMA NothingBeforeIsMissing ==
    ASSUME TypeOK, SeenIsPast, NumbersAreLater, ExpectedIsMissing,
           NEW n \in Node, NEW k \in Processed(n), NEW a \in Published, NEW b \in Published,
           a.sender = k.sender, Before(a, b), b.timestamp < k.timestamp
    PROVE  a \in Processed(n)
<1> DEFINE p == k.sender
<1>1. k \in seen[n] /\ k.seq < expectedSeq[n][p]
  BY DEF Processed
<1>2. /\ p \in Node /\ k.seq \in Nat /\ k.timestamp \in Nat /\ k \in seen[p]
      /\ a.seq \in Nat /\ a.timestamp \in Nat /\ a \in seen[p]
      /\ b.timestamp \in Nat /\ a.seq > 0
  BY <1>1, SeenFields DEF Published, SeenIsPast
<1>3. a.timestamp < k.timestamp
  BY <1>2 DEF Before
<1>4. a.seq < k.seq
  BY <1>2, <1>3 DEF NumbersAreLater
<1>5. expectedSeq[n][p] \in Nat
  BY <1>2 DEF TypeOK
<1>6. a.seq \in 1 .. expectedSeq[n][p] - 1
  BY <1>1, <1>2, <1>4, <1>5
<1>7. PICK x \in seen[n] : x.sender = p /\ x.seq = a.seq
  BY <1>2, <1>6 DEF ExpectedIsMissing
<1>8. x \in seen[p]
  BY <1>7 DEF SeenIsPast
<1>9. x = a
  BY <1>2, <1>7, <1>8 DEF NumbersAreLater
<1> QED
  BY <1>1, <1>4, <1>5, <1>7, <1>9, <1>2 DEF Processed

(* What n has applied, every member has acknowledged to it, later: no write that n has *)
(* not processed is before one that it has applied.                                    *)
LEMMA AppliedIsSafe ==
    ASSUME TypeOK, SeenIsPast, NumbersAreLater, WritesAreUnique, ExpectedIsMissing, AcksAreLater,
           NEW n \in Node, NEW b \in Writes(Published), NEW a \in Published, Before(a, b),
           <<b.id, a.sender>> \in Acks(Processed(n))
    PROVE  a \in Processed(n)
<1>1. PICK k \in Processed(n) : k.type = "ack" /\ k.id = b.id /\ k.sender = a.sender
  BY DEF Acks
<1>2. k \in seen[n]
  BY DEF Processed
<1>3. PICK x \in Writes(Published) : x.id = k.id /\ x.timestamp < k.timestamp
  BY <1>1, <1>2 DEF AcksAreLater
<1>4. x = b
  BY <1>1, <1>3 DEF WritesAreUnique
<1> QED
  BY <1>1, <1>3, <1>4, NothingBeforeIsMissing DEF Writes

-----------------------------------------------------------------------------
(* What a handler does to a node's buffer, acknowledgements and log. *)

(* What can be applied is acknowledged by everybody and before all that stays behind. *)
LEMMA DeliverableIsFirst ==
    ASSUME NEW B \in SUBSET Message, NEW A,
           \A a, b \in B : a # b => Before(a, b) \/ Before(b, a)
    PROVE  /\ \A b \in Deliverable(B, A) : b \in B /\ Acknowledged(b, A)
           /\ \A b \in Deliverable(B, A), a \in B \ Deliverable(B, A) : Before(b, a)
<1> DEFINE D == Deliverable(B, A)
           unsafe == {b \in B : ~Acknowledged(b, A)}
<1>1. \A b \in B : b \in D <=> \A u \in unsafe : Before(b, u)
  BY DEF Deliverable
<1>2. D \subseteq B
  BY DEF Deliverable
<1>3. \A b \in D : Acknowledged(b, A)
  BY <1>1, <1>2, BeforeIsStrict
<1>4. ASSUME NEW b \in D, NEW a \in B \ D PROVE Before(b, a)
  <2>1. PICK u \in unsafe : ~Before(a, u)
    BY <1>1
  <2>2. Before(b, u) /\ u \in B
    BY <1>1, <1>2
  <2>3. ~Before(a, b)
    BY <2>1, <2>2, <1>2, BeforeIsTransitive
  <2> QED
    BY <2>3, <1>2
<1> QED
  BY <1>2, <1>3, <1>4

(* n applies the writes in ready, in the order of s, and keeps the other writes waiting. *)
Applies(n, m, c, q, ready, s) ==
    LET waiting == buffer[n] \union Writes(Batch(n, m))
        acked == acknowledgements[n] \union Acks(Batch(n, m) \union Own(n, m, c, q))
    IN  /\ ready = Deliverable(waiting, acked)
        /\ s \in [1 .. Cardinality(ready) -> ready]
        /\ Sorts(s, ready)
        /\ buffer' = [buffer EXCEPT ![n] = waiting \ ready]
        /\ acknowledgements' = [acknowledgements EXCEPT ![n] =
               {a \in acked : a[1] \notin Ids(ready)}]
        /\ log' = [log EXCEPT ![n] = @ \o [i \in DOMAIN s |-> s[i].id]]

LEMMA HandlerApplies ==
    ASSUME NEW n, NEW m, NEW c, NEW q, ReceiveAndReplicate(n, m, c, q)
    PROVE  \E ready, s : Applies(n, m, c, q, ready, s)
  BY DEF ReceiveAndReplicate, Applies, Own

(* The writes n has newly processed are all after what it has applied. *)
LEMMA NewIsLater ==
    ASSUME Inv, NEW n \in Node, NEW m, NEW c, NEW q, Accepts(n, m, c, q), NEW K,
           K = Cardinality(Writes(Batch(n, m))), MessagesAfter(n, m, c, q, K),
           NEW x \in Writes(Batch(n, m)),
           NEW b \in Writes(Processed(n)), b.id \in Range(log[n])
    PROVE  Before(b, x) /\ x.id # b.id
<1>2. b \in Published /\ b \in Writes(Published) /\ b \in Message
  BY SeenFields DEF Writes, Processed, Published, Inv
<1>3. x \in Batch(n, m) /\ x \notin Processed(n) /\ x \in seen[n] \union {m} /\ x \in Message
      /\ x.type = "replicate"
  BY BatchIsProcessed, BatchIsRun DEF Writes
<1>4. \A p \in Node : <<b.id, p>> \in Acks(Processed(n))
  BY DEF Inv, AcksAreCounted
<1>5. CASE x \in Published
  <2>1. ~Before(x, b)
    <3>1. x.sender \in Node
      BY <1>3 DEF Message
    <3> QED
      BY <3>1, <1>2, <1>3, <1>4, <1>5, AppliedIsSafe DEF Inv
  <2>2. x # b
    BY <1>3 DEF Writes
  <2>3. Before(b, x)
    BY <2>1, <2>2, <1>2, <1>5, BeforeIsTotal DEF Inv
  <2>4. x \in Writes(Published)
    BY <1>3, <1>5 DEF Writes
  <2> QED
    BY <2>2, <2>3, <2>4, <1>2 DEF Inv, WritesAreUnique
<1>6. CASE x \notin Published
  <2>1. x = m /\ IsOwnWrite(n, m, q)
    BY <1>3, <1>6 DEF Accepts, IsOfAnother, Published
  <2>2. b.timestamp =< clock[n] /\ clock[n] < x.timestamp
    BY <2>1 DEF Inv, SeenIsPast, Writes, Processed, IsOwnWrite
  <2>3. b.timestamp \in Nat /\ x.timestamp \in Nat /\ clock[n] \in Nat
    BY <1>2, <1>3 DEF Message, Inv, TypeOK
  <2>4. x.id # b.id
    BY <2>1, <1>2 DEF IsOwnWrite, Ids
  <2> QED
    BY <2>2, <2>3, <2>4 DEF Before
<1> QED
  BY <1>5, <1>6

(* The new entries t of a log L are the writes in ready, in the order of s. *)
Extends(L, t, s, ready) ==
    /\ t \in Seq(Write) /\ L \o t \in Seq(Write)
    /\ Len(L \o t) = Len(L) + Len(t)
    /\ \A i \in 1 .. Len(L) : (L \o t)[i] = L[i]
    /\ \A i \in Len(L) + 1 .. Len(L) + Len(t) : /\ i - Len(L) \in DOMAIN s
                                               /\ (L \o t)[i] = s[i - Len(L)].id
    /\ Range(L \o t) = Range(L) \union Ids(ready)

LEMMA LogGrows ==
    ASSUME NEW L \in Seq(Write), NEW ready \in SUBSET Message, IsFiniteSet(ready), NEW s,
           s \in [1 .. Cardinality(ready) -> ready], Sorts(s, ready)
    PROVE  Extends(L, [i \in DOMAIN s |-> s[i].id], s, ready)
<1> DEFINE t == [i \in DOMAIN s |-> s[i].id]
           N == Cardinality(ready)
<1>1. N \in Nat /\ DOMAIN s = 1 .. N
  BY FS_CardinalityType
<1>2. \A i \in 1 .. N : s[i] \in ready /\ s[i].id \in Write
  BY <1>1 DEF Message
<1>3. t \in [1 .. N -> Write] /\ \A i \in 1 .. N : t[i] = s[i].id
  BY <1>1, <1>2
<1> HIDE DEF t, N
<1>4. t \in Seq(Write) /\ Len(t) = N
  BY <1>1, <1>3
<1>5. /\ L \o t \in Seq(Write) /\ Len(L \o t) = Len(L) + N
      /\ \A i \in 1 .. Len(L) : (L \o t)[i] = L[i]
      /\ \A i \in Len(L) + 1 .. Len(L) + N : (L \o t)[i] = t[i - Len(L)]
  BY <1>4
<1>6. \A i \in Len(L) + 1 .. Len(L) + N : i - Len(L) \in 1 .. N
  BY <1>1
<1>7. \A i \in Len(L) + 1 .. Len(L) + N : (L \o t)[i] = s[i - Len(L)].id
  BY <1>3, <1>5, <1>6
<1>8. Range(L \o t) = Range(L) \union Ids(ready)
  <2>1. Range(s) = ready
    BY DEF Sorts
  <2>2. Ids(ready) = {s[i].id : i \in 1 .. N}
    BY <2>1, <1>1 DEF Ids, Range
  <2>3. Range(L) = {L[i] : i \in 1 .. Len(L)} /\ Len(L) \in Nat
    BY DEF Range
  <2>4. Range(L \o t) = {(L \o t)[i] : i \in 1 .. Len(L) + N}
    BY <1>5 DEF Range
  <2>5. \A i \in 1 .. N : Len(L) + i \in Len(L) + 1 .. Len(L) + N /\ (Len(L) + i) - Len(L) = i
    BY <2>3, <1>1
  <2>6. \A i \in 1 .. N : (L \o t)[Len(L) + i] = s[i].id
    BY <2>5, <1>7
  <2>7. \A w \in Range(L) : \E i \in 1 .. Len(L) + N : (L \o t)[i] = w
    BY <2>3, <1>1, <1>5
  <2>8. \A w \in Ids(ready) : \E i \in 1 .. Len(L) + N : (L \o t)[i] = w
    <3> SUFFICES ASSUME NEW j \in 1 .. N
                 PROVE  \E i \in 1 .. Len(L) + N : (L \o t)[i] = s[j].id
      BY <2>2
    <3>1. Len(L) + j \in 1 .. Len(L) + N
      BY <2>3, <1>1
    <3> QED
      BY <3>1, <2>6
  <2>9. \A i \in 1 .. Len(L) + N : (L \o t)[i] \in Range(L) \union Ids(ready)
    <3> SUFFICES ASSUME NEW i \in 1 .. Len(L) + N
                 PROVE  (L \o t)[i] \in Range(L) \union Ids(ready)
      OBVIOUS
    <3>1. CASE i \in 1 .. Len(L)
      BY <3>1, <2>3, <1>5
    <3>2. CASE i \in Len(L) + 1 .. Len(L) + N
      BY <3>2, <2>2, <1>6, <1>7
    <3>3. N \in Nat /\ Len(L) \in Nat
      BY <1>4
    <3>4. i \in 1 .. Len(L) \/ i \in Len(L) + 1 .. Len(L) + N
      BY <3>3
    <3> QED
      BY <3>1, <3>2, <3>4
  <2> QED
    BY <2>4, <2>7, <2>8, <2>9
<1> QED
  BY <1>1, <1>4, <1>5, <1>6, <1>7, <1>8 DEF t, Extends

LEMMA DeliveryKeeps ==
    ASSUME Inv, NEW n \in Node, NEW m, NEW c, NEW q, Accepts(n, m, c, q), NEW K,
           K = Cardinality(Writes(Batch(n, m))), MessagesAfter(n, m, c, q, K),
           NEW ready, NEW s, Applies(n, m, c, q, ready, s)
    PROVE  /\ buffer' \in [Node -> SUBSET Message]
           /\ acknowledgements' \in [Node -> SUBSET (Write \X Node)]
           /\ log' \in [Node -> Seq(Write)]
           /\ \A r \in Node : r # n => log'[r] = log[r]
           /\ Len(log[n]) =< Len(log'[n])
           /\ \A i \in 1 .. Len(log[n]) : log'[n][i] = log[n][i]
           /\ ProcessedIsHeld' /\ AcksAreCounted' /\ LogIsSorted' /\ NothingIsDeliverable'
<1>inv. /\ TypeOK /\ SeenIsPast /\ NumbersAreLater /\ WritesAreUnique
        /\ ProcessedIsHeld /\ AcksAreCounted /\ LogIsSorted /\ NothingIsDeliverable
  BY DEF Inv
<1>1. PICK own, batch, W, P, L, t :
          /\ own = Own(n, m, c, q) /\ batch = Batch(n, m) /\ W = Writes(batch)
          /\ P = Processed(n) /\ L = log[n] /\ t = [i \in DOMAIN s |-> s[i].id]
  OBVIOUS
<1>2. PICK waiting, acked :
          /\ waiting = buffer[n] \union W
          /\ acked = acknowledgements[n] \union Acks(batch \union own)
  OBVIOUS
<1>3. /\ Processed(n)' = P \union batch \union own
      /\ \A x \in batch : x \notin P
      /\ \A r \in Node : r # n => Processed(r)' = Processed(r)
  BY <1>1, BatchIsProcessed
<1>4. /\ \A x \in batch : x \in Message /\ x \in seen[n] \union {m}
      /\ IsFiniteSet(batch)
  BY <1>1, BatchIsRun
<1>5. /\ \A a \in own : a \in Message /\ a.type = "ack" /\ a.sender = n
      /\ \A x \in W : \E a \in own : a.id = x.id
  BY <1>1, OwnAreAcks DEF AreAcks
<1>6. /\ buffer[n] \subseteq Writes(P) /\ P \subseteq seen[n] /\ P \subseteq Message
      /\ IsFiniteSet(seen[n]) /\ L \in Seq(Write)
  BY <1>1, <1>inv DEF ProcessedIsHeld, Processed, TypeOK, SeenIsPast
<1>7. Writes(Processed(n))' = Writes(P) \union W
  <2>1. Writes(Processed(n))' = Writes(P \union batch \union own)
    BY <1>3 DEF Writes
  <2> QED
    BY <2>1, <1>1, <1>5 DEF Writes
<1>8. /\ waiting \in SUBSET Message /\ IsFiniteSet(waiting)
      /\ \A x \in waiting : x \in seen[n] \union {m} /\ x \in Writes(P) \union W
  <2>1. waiting \in SUBSET (seen[n] \union batch)
    BY <1>1, <1>2, <1>6 DEF Writes
  <2>2. IsFiniteSet(seen[n] \union batch)
    BY <1>4, <1>6, FS_Union
  <2> QED
    BY <2>1, <2>2, <1>1, <1>2, <1>4, <1>6, FS_Subset DEF Writes
<1>9. \A a, b \in seen[n] \union {m} : a # b => Before(a, b) \/ Before(b, a)
  <2>1. seen[n] \subseteq Published
    BY DEF Published
  <2>2. ASSUME NEW a \in seen[n] PROVE m \in Published \/ Before(a, m)
    <3>1. CASE IsOwnWrite(n, m, q)
      <4>1. a.timestamp =< clock[n] /\ clock[n] < m.timestamp
        BY <3>1, <1>inv DEF SeenIsPast, IsOwnWrite
      <4>2. a.timestamp \in Nat /\ m.timestamp \in Nat /\ clock[n] \in Nat
        BY <1>inv DEF TypeOK, Accepts, Message
      <4> QED
        BY <4>1, <4>2 DEF Before
    <3> QED
      BY <3>1 DEF Accepts, IsOfAnother
  <2> QED
    BY <2>1, <2>2, <1>inv, BeforeIsTotal
<1>10. /\ ready = Deliverable(waiting, acked)
       /\ s \in [1 .. Cardinality(ready) -> ready]
       /\ Sorts(s, ready)
       /\ buffer' = [buffer EXCEPT ![n] = waiting \ ready]
       /\ acknowledgements' = [acknowledgements EXCEPT ![n] = {a \in acked : a[1] \notin Ids(ready)}]
       /\ log' = [log EXCEPT ![n] = @ \o t]
  BY <1>1, <1>2 DEF Applies
<1>11. /\ \A b \in ready : b \in waiting /\ Acknowledged(b, acked)
       /\ \A b \in ready, a \in waiting \ ready : Before(b, a)
  BY <1>8, <1>9, <1>10, DeliverableIsFirst
<1>12. ready \in SUBSET Message /\ IsFiniteSet(ready)
  <2>1. ready \in SUBSET waiting
    BY <1>11
  <2> QED
    BY <2>1, <1>8, FS_Subset
<1>13. /\ t \in Seq(Write) /\ L \o t \in Seq(Write)
       /\ Len(L \o t) = Len(L) + Len(t)
       /\ \A i \in 1 .. Len(L) : (L \o t)[i] = L[i]
       /\ \A i \in Len(L) + 1 .. Len(L) + Len(t) : /\ i - Len(L) \in DOMAIN s
                                                  /\ (L \o t)[i] = s[i - Len(L)].id
       /\ Range(L \o t) = Range(L) \union Ids(ready)
  <2>1. Extends(L, [i \in DOMAIN s |-> s[i].id], s, ready)
    BY <1>6, <1>10, <1>12, LogGrows
  <2> QED
    BY <2>1, <1>1 DEF Extends
<1>14. /\ log' \in [Node -> Seq(Write)] /\ log'[n] = L \o t
       /\ \A r \in Node : r # n => log'[r] = log[r]
  BY <1>1, <1>10, <1>13, <1>inv DEF TypeOK
<1>15. /\ acked \in SUBSET (Write \X Node)
       /\ acknowledgements' \in [Node -> SUBSET (Write \X Node)]
       /\ acknowledgements'[n] = {a \in acked : a[1] \notin Ids(ready)}
       /\ \A r \in Node : r # n => acknowledgements'[r] = acknowledgements[r]
  <2>1. Acks(batch \union own) \in SUBSET (Write \X Node)
    BY <1>4, <1>5 DEF Acks, Message
  <2>2. acknowledgements \in [Node -> SUBSET (Write \X Node)]
    BY <1>inv DEF TypeOK
  <2>3. acked \in SUBSET (Write \X Node)
    BY <2>1, <2>2, <1>2
  <2>4. {a \in acked : a[1] \notin Ids(ready)} \in SUBSET (Write \X Node)
    BY <2>3
  <2> QED
    BY <2>2, <2>3, <2>4, <1>10
<1>16. /\ buffer' \in [Node -> SUBSET Message] /\ buffer'[n] = waiting \ ready
       /\ \A r \in Node : r # n => buffer'[r] = buffer[r]
  BY <1>8, <1>10, <1>inv DEF TypeOK
<1>17. \A a, b \in Writes(P) \union W : a.id = b.id => a = b
  <2>1. WritesAreUnique' /\ Published' = Published \union {m} \union own
    BY <1>1, MessagesKeep
  <2>2. Writes(P) \union W \subseteq Writes(Published)'
    BY <2>1, <1>1, <1>4, <1>6 DEF Writes, Published
  <2> QED
    BY <2>1, <2>2 DEF WritesAreUnique
<1>18. ASSUME NEW a \in Writes(P) \union W, a.id \in Range(L)
       PROVE  a \in Writes(P) /\ \A b \in waiting : Before(a, b) /\ a.id # b.id
  <2>1. PICK x \in Writes(P) : x.id = a.id
    BY <1>1, <1>18, <1>inv DEF ProcessedIsHeld, Ids
  <2>2. a \in Writes(P)
    BY <2>1, <1>17
  <2>3. ASSUME NEW b \in buffer[n] PROVE Before(a, b) /\ a.id # b.id
    BY <2>2, <1>1, <1>6, <1>18, <1>inv DEF LogIsSorted, ProcessedIsHeld
  <2>4. ASSUME NEW b \in W PROVE Before(a, b) /\ a.id # b.id
    BY <2>2, <1>1, <1>18, NewIsLater
  <2> QED
    BY <2>2, <2>3, <2>4, <1>2
<1>19. ProcessedIsHeld'
  <2>1. waiting \ ready \subseteq Writes(P) \union W
    BY <1>8
  <2>2. Range(L \o t) \subseteq Ids(Writes(P) \union W)
    <3>1. Range(L) \subseteq Ids(Writes(P))
      BY <1>1, <1>inv DEF ProcessedIsHeld
    <3>2. Ids(ready) \subseteq Ids(Writes(P) \union W)
      BY <1>8, <1>11 DEF Ids
    <3> QED
      BY <3>1, <3>2, <1>13 DEF Ids
  <2>3. ASSUME NEW x \in Writes(P) \union W
        PROVE  x \in waiting \ ready <=> x.id \notin Range(L \o t)
    <3>1. x \in ready <=> x.id \in Ids(ready)
      BY <1>8, <1>11, <1>17 DEF Ids
    <3>2. x \in waiting <=> x.id \notin Range(L)
      <4>1. x \in Writes(P) => (x \in buffer[n] <=> x.id \notin Range(L))
        BY <1>1, <1>inv DEF ProcessedIsHeld
      <4>2. x.id \in Range(L) => x \notin waiting
        BY <1>18
      <4> QED
        BY <4>1, <4>2, <1>2
    <3> QED
      BY <3>1, <3>2, <1>13
  <2>4. ASSUME NEW r \in Node, r # n
        PROVE  /\ buffer'[r] \subseteq Writes(Processed(r))'
               /\ Range(log'[r]) \subseteq Ids(Writes(Processed(r)))'
               /\ \A x \in Writes(Processed(r))' : x \in buffer'[r] <=> x.id \notin Range(log'[r])
    BY <2>4, <1>3, <1>14, <1>16, <1>inv DEF ProcessedIsHeld, Writes, Ids
  <2>5. /\ buffer'[n] \subseteq Writes(Processed(n))'
        /\ Range(log'[n]) \subseteq Ids(Writes(Processed(n)))'
        /\ \A x \in Writes(Processed(n))' : x \in buffer'[n] <=> x.id \notin Range(log'[n])
    BY <2>1, <2>2, <2>3, <1>7, <1>14, <1>16 DEF Ids
  <2> QED
    BY <2>4, <2>5 DEF ProcessedIsHeld, Writes, Ids, Range
<1>20. AcksAreCounted'
  <2>1. Acks(Processed(n))' = Acks(P) \union Acks(batch \union own)
    BY <1>3 DEF Acks
  <2>2. acknowledgements'[n] \subseteq Acks(Processed(n))' /\ acked \subseteq Acks(Processed(n))'
    BY <2>1, <1>1, <1>2, <1>15, <1>inv DEF AcksAreCounted
  <2>3. \A k \in Acks(Processed(n))' : k \in acknowledgements'[n] \/ k[1] \in Range(L \o t)
    <3>1. \A k \in Acks(P) : k \in acknowledgements[n] \/ k[1] \in Range(L)
      BY <1>1, <1>inv DEF AcksAreCounted
    <3> QED
      BY <3>1, <2>1, <1>2, <1>13, <1>15
  <2>4. \A x \in Writes(P) \union W : <<x.id, n>> \in Acks(Processed(n))'
    <3>1. \A x \in Writes(P) : <<x.id, n>> \in Acks(P)
      BY <1>1, <1>inv DEF AcksAreCounted
    <3>2. \A x \in W : <<x.id, n>> \in Acks(batch \union own)
      BY <1>5 DEF Acks
    <3> QED
      BY <3>1, <3>2, <2>1
  <2>5. \A w \in Range(L \o t), p \in Node : <<w, p>> \in Acks(Processed(n))'
    <3>1. \A w \in Range(L), p \in Node : <<w, p>> \in Acks(P)
      BY <1>1, <1>inv DEF AcksAreCounted
    <3>2. \A b \in ready, p \in Node : <<b.id, p>> \in Acks(Processed(n))'
      BY <2>2, <1>11 DEF Acknowledged
    <3> QED
      BY <3>1, <3>2, <2>1, <1>13 DEF Ids
  <2>6. ASSUME NEW r \in Node, r # n
        PROVE  /\ acknowledgements'[r] \subseteq Acks(Processed(r))'
               /\ \A k \in Acks(Processed(r))' : k \in acknowledgements'[r] \/ k[1] \in Range(log'[r])
               /\ \A x \in Writes(Processed(r))' : <<x.id, r>> \in Acks(Processed(r))'
               /\ \A w \in Range(log'[r]), p \in Node : <<w, p>> \in Acks(Processed(r))'
    <3>1. Acks(Processed(r))' = Acks(Processed(r)) /\ Writes(Processed(r))' = Writes(Processed(r))
      BY <2>6, <1>3 DEF Acks, Writes
    <3> QED
      BY <3>1, <2>6, <1>14, <1>15, <1>inv DEF AcksAreCounted
  <2>7. /\ acknowledgements'[n] \subseteq Acks(Processed(n))'
        /\ \A k \in Acks(Processed(n))' : k \in acknowledgements'[n] \/ k[1] \in Range(log'[n])
        /\ \A x \in Writes(Processed(n))' : <<x.id, n>> \in Acks(Processed(n))'
        /\ \A w \in Range(log'[n]), p \in Node : <<w, p>> \in Acks(Processed(n))'
    BY <2>2, <2>3, <2>4, <2>5, <1>7, <1>14
  <2> QED
    BY <2>6, <2>7 DEF AcksAreCounted, Range
<1>21. LogIsSorted'
  <2>1. ASSUME NEW a \in Writes(P) \union W, NEW b \in Writes(P) \union W,
               NEW i \in 1 .. Len(L) + Len(t), NEW j \in 1 .. Len(L) + Len(t),
               i < j, a.id = (L \o t)[i], b.id = (L \o t)[j]
        PROVE  Before(a, b)
    <3>1. Len(L) \in Nat /\ Len(t) \in Nat /\ DOMAIN L = 1 .. Len(L)
      BY <1>6, <1>13
    <3>2. \A k \in 1 .. Len(L) : (L \o t)[k] = L[k] /\ L[k] \in Range(L)
      BY <3>1, <1>13 DEF Range
    <3>3. \A k \in Len(L) + 1 .. Len(L) + Len(t) :
              /\ k - Len(L) \in DOMAIN s
              /\ s[k - Len(L)] \in ready
              /\ (L \o t)[k] = s[k - Len(L)].id
      BY <1>10, <1>13
    <3>4. CASE i \in 1 .. Len(L) /\ j \in 1 .. Len(L)
      <4>1. a \in Writes(P) /\ b \in Writes(P)
        BY <2>1, <3>2, <3>4, <1>18
      <4> QED
        BY <4>1, <2>1, <3>1, <3>2, <3>4, <1>1, <1>inv DEF LogIsSorted
    <3>5. CASE i \in 1 .. Len(L) /\ j \in Len(L) + 1 .. Len(L) + Len(t)
      <4>1. PICK x \in ready : x.id = b.id
        BY <2>1, <3>3, <3>5
      <4>2. x = b
        BY <4>1, <1>8, <1>11, <1>17
      <4> QED
        BY <4>1, <4>2, <2>1, <3>2, <3>5, <1>11, <1>18
    <3>6. CASE i \in Len(L) + 1 .. Len(L) + Len(t) /\ j \in Len(L) + 1 .. Len(L) + Len(t)
      <4>1. a = s[i - Len(L)] /\ b = s[j - Len(L)]
        BY <2>1, <3>3, <3>6, <1>8, <1>11, <1>17
      <4>2. i - Len(L) < j - Len(L)
        BY <2>1, <3>1, <3>6
      <4> QED
        BY <4>1, <4>2, <3>3, <3>6, <1>10 DEF Sorts
    <3> QED
      BY <2>1, <3>1, <3>4, <3>5, <3>6
  <2>2. ASSUME NEW a \in Writes(P) \union W, NEW b \in waiting \ ready, a.id \in Range(L \o t)
        PROVE  Before(a, b)
    <3>1. CASE a.id \in Range(L)
      BY <3>1, <2>2, <1>18
    <3>2. CASE a.id \in Ids(ready)
      <4>1. a \in ready
        BY <3>2, <1>8, <1>11, <1>17 DEF Ids
      <4> QED
        BY <4>1, <2>2, <1>11
    <3> QED
      BY <3>1, <3>2, <2>2, <1>13
  <2>3. DOMAIN log'[n] = 1 .. Len(L) + Len(t)
    BY <1>13, <1>14
  <2>4. \A a, b \in Writes(Processed(n))' :
            /\ \A i, j \in DOMAIN log'[n] :
                   i < j /\ a.id = log'[n][i] /\ b.id = log'[n][j] => Before(a, b)
            /\ a.id \in Range(log'[n]) /\ b \in buffer'[n] => Before(a, b)
    BY <2>1, <2>2, <2>3, <1>7, <1>14, <1>16
  <2>5. ASSUME NEW r \in Node, r # n
        PROVE  \A a, b \in Writes(Processed(r))' :
            /\ \A i, j \in DOMAIN log'[r] :
                   i < j /\ a.id = log'[r][i] /\ b.id = log'[r][j] => Before(a, b)
            /\ a.id \in Range(log'[r]) /\ b \in buffer'[r] => Before(a, b)
    <3>1. Writes(Processed(r))' = Writes(Processed(r))
      BY <2>5, <1>3 DEF Writes
    <3>2. log'[r] = log[r] /\ buffer'[r] = buffer[r]
      BY <2>5, <1>14, <1>16
    <3>3. \A a, b \in Writes(Processed(r)) :
            /\ \A i, j \in DOMAIN log[r] :
                   i < j /\ a.id = log[r][i] /\ b.id = log[r][j] => Before(a, b)
            /\ a.id \in Range(log[r]) /\ b \in buffer[r] => Before(a, b)
      BY <1>inv DEF LogIsSorted
    <3> QED
      BY <3>1, <3>2, <3>3
  <2> QED
    BY <2>4, <2>5 DEF LogIsSorted, Range, Before
<1>22. Len(log[n]) =< Len(log'[n]) /\ \A i \in 1 .. Len(log[n]) : log'[n][i] = log[n][i]
  BY <1>1, <1>6, <1>13, <1>14
<1>23. NothingIsDeliverable'
  <2>1. ASSUME NEW b \in waiting \ ready
        PROVE  \E u \in waiting \ ready : ~Acknowledged(u, acknowledgements'[n]) /\ ~Before(b, u)
    <3>1. PICK u \in waiting : ~Acknowledged(u, acked) /\ ~Before(b, u)
      BY <1>10 DEF Deliverable
    <3>2. ~Acknowledged(u, acknowledgements'[n]) /\ u \notin ready
      BY <3>1, <1>11, <1>15 DEF Acknowledged
    <3> QED
      BY <3>1, <3>2
  <2>2. Deliverable(buffer'[n], acknowledgements'[n]) = {}
    BY <2>1, <1>16 DEF Deliverable
  <2>3. ASSUME NEW r \in Node, r # n PROVE Deliverable(buffer'[r], acknowledgements'[r]) = {}
    BY <2>3, <1>15, <1>16, <1>inv DEF NothingIsDeliverable
  <2>4. \A r \in Node : Deliverable(buffer'[r], acknowledgements'[r]) = {}
    BY <2>2, <2>3
  <2> QED
    BY <2>4 DEF NothingIsDeliverable, Deliverable, Acknowledged, Before
<1> QED
  BY <1>14, <1>15, <1>16, <1>19, <1>20, <1>21, <1>22, <1>23

-----------------------------------------------------------------------------
(* Every step keeps the invariant. *)

LEMMA HandlerKeepsInv ==
    ASSUME Inv, NEW n \in Node, NEW m, NEW c, NEW q, Accepts(n, m, c, q),
           ReceiveAndReplicate(n, m, c, q)
    PROVE  /\ Inv'
           /\ Published' = Published \union {m} \union Own(n, m, c, q)
           /\ \A r \in Node : r # n => log'[r] = log[r]
           /\ Len(log[n]) =< Len(log'[n])
           /\ \A i \in 1 .. Len(log[n]) : log'[n][i] = log[n][i]
<1>1. PICK K : K = Cardinality(Writes(Batch(n, m)))
  OBVIOUS
<1>2. MessagesAfter(n, m, c, q, K)
  BY <1>1, HandlerMovesMessages
<1>3. PICK ready, s : Applies(n, m, c, q, ready, s)
  BY HandlerApplies
<1>4. /\ clock' \in [Node -> Nat] /\ nextSeq' \in [Node -> Nat]
      /\ seen' \in [Node -> SUBSET Message]
      /\ Published' = Published \union {m} \union Own(n, m, c, q)
      /\ SeenIsPast' /\ NumbersAreLater' /\ WritesAreUnique'
      /\ ExpectedIsMissing' /\ AcksAreLater'
  BY <1>1, <1>2, MessagesKeep
<1>5. expectedSeq' \in [Node -> [Node -> Nat]]
  BY <1>2 DEF MessagesAfter
<1>6. /\ buffer' \in [Node -> SUBSET Message]
      /\ acknowledgements' \in [Node -> SUBSET (Write \X Node)]
      /\ log' \in [Node -> Seq(Write)]
      /\ \A r \in Node : r # n => log'[r] = log[r]
      /\ Len(log[n]) =< Len(log'[n])
      /\ \A i \in 1 .. Len(log[n]) : log'[n][i] = log[n][i]
      /\ ProcessedIsHeld' /\ AcksAreCounted' /\ LogIsSorted' /\ NothingIsDeliverable'
  BY <1>1, <1>2, <1>3, DeliveryKeeps
<1>7. TypeOK'
  BY <1>4, <1>5, <1>6 DEF TypeOK, Message
<1> QED
  BY <1>4, <1>6, <1>7 DEF Inv

(* Each action is the handler, on a message that the node accepts. *)
LEMMA PutIsAccepted ==
    ASSUME Inv, NEW w \in Write, NEW n \in Node, ClientPut(w, n)
    PROVE  \E m, c, q : /\ m.type = "replicate" /\ m.id = w /\ m.sender = n
                        /\ Accepts(n, m, c, q) /\ ReceiveAndReplicate(n, m, c, q)
<1> DEFINE m == [type |-> "replicate", id |-> w, sender |-> n,
                 seq |-> nextSeq[n] + 1, timestamp |-> clock[n] + 1]
           c == clock[n] + 1
           q == nextSeq[n] + 1
<1>1. clock[n] \in Nat /\ nextSeq[n] \in Nat
  BY DEF Inv, TypeOK
<1>2. m \in Message /\ c \in Nat /\ q \in Nat
  BY <1>1 DEF Message
<1>3. m \notin seen[n]
  <2>1. m \in seen[n] => m.timestamp =< clock[n]
    BY DEF Inv, SeenIsPast
  <2> QED
    BY <2>1, <1>1
<1>4. IsOwnWrite(n, m, q)
  BY <1>1 DEF ClientPut, IsOwnWrite
<1>5. Accepts(n, m, c, q)
  BY <1>1, <1>2, <1>3, <1>4 DEF Accepts
<1>6. ReceiveAndReplicate(n, m, c, q)
  BY DEF ClientPut
<1> QED
  BY <1>5, <1>6

LEMMA ArrivalIsOfAnother ==
    ASSUME Inv, NEW n \in Node, NEW m \in Published \ seen[n]
    PROVE  Accepts(n, m, Later(n, m) + 1, nextSeq[n])
<1>1. /\ m \in Message /\ m.sender \in Node /\ m.timestamp \in Nat /\ m \in seen[m.sender]
      /\ clock[n] \in Nat /\ nextSeq[n] \in Nat
  <2>1. PICK r \in Node : m \in seen[r]
    BY DEF Published
  <2>2. TypeOK /\ SeenIsPast
    BY DEF Inv
  <2>3. m \in Message /\ m.sender \in Node /\ m.timestamp \in Nat
    BY <2>1, <2>2, SeenFields
  <2> QED
    BY <2>1, <2>2, <2>3 DEF TypeOK, SeenIsPast
<1>2. m.sender # n
  BY <1>1
<1>3. /\ Later(n, m) + 1 \in Nat /\ clock[n] =< Later(n, m) + 1
      /\ m.timestamp =< Later(n, m) + 1
  BY <1>1 DEF Later
<1> QED
  BY <1>1, <1>2, <1>3 DEF Accepts, IsOfAnother

LEMMA ArrivalIsAccepted ==
    ASSUME Inv, NEW n \in Node, Receive(n)
    PROVE  \E m, c, q : /\ m \in Published
                        /\ Accepts(n, m, c, q) /\ ReceiveAndReplicate(n, m, c, q)
  BY ArrivalIsOfAnother DEF Receive

LEMMA NextIsHandled ==
    ASSUME Inv, Next
    PROVE  \E n \in Node : \E m, c, q :
               Accepts(n, m, c, q) /\ ReceiveAndReplicate(n, m, c, q)
  BY PutIsAccepted, ArrivalIsAccepted DEF Next

LEMMA InvIsInitial == Init => Inv
<1> SUFFICES ASSUME Init PROVE Inv
  OBVIOUS
<1>1. TypeOK
  BY DEF Init, TypeOK
<1>2. /\ \A n \in Node : seen[n] = {} /\ log[n] = <<>> /\ buffer[n] = {} /\ nextSeq[n] = 0
      /\ \A n \in Node : acknowledgements[n] = {}
      /\ \A n, p \in Node : expectedSeq[n][p] = 1
  BY DEF Init
<1>3. Published = {} /\ \A n \in Node : Processed(n) = {} /\ Range(log[n]) = {}
  BY <1>2 DEF Published, Processed, Range
<1>4. SeenIsPast /\ NumbersAreLater
  BY <1>2, FS_EmptySet DEF SeenIsPast, NumbersAreLater
<1>5. WritesAreUnique /\ ExpectedIsMissing
  BY <1>2, <1>3 DEF WritesAreUnique, ExpectedIsMissing, Writes
<1>6. ProcessedIsHeld /\ AcksAreLater /\ AcksAreCounted
  BY <1>2, <1>3 DEF ProcessedIsHeld, AcksAreLater, AcksAreCounted, Writes, Acks
<1>7. LogIsSorted /\ NothingIsDeliverable
  BY <1>2, <1>3 DEF LogIsSorted, NothingIsDeliverable, Writes, Deliverable
<1> QED
  BY <1>1, <1>4, <1>5, <1>6, <1>7 DEF Inv

LEMMA NextKeepsInv == Inv /\ [Next]_vars => Inv'
<1> SUFFICES ASSUME Inv, [Next]_vars PROVE Inv'
  OBVIOUS
<1>1. CASE Next
  BY <1>1, NextIsHandled, HandlerKeepsInv
<1>2. CASE UNCHANGED vars
  <2>1. TypeOK' /\ SeenIsPast' /\ NumbersAreLater' /\ ExpectedIsMissing'
    BY <1>2 DEF vars, Inv, TypeOK, Message, SeenIsPast, NumbersAreLater, ExpectedIsMissing
  <2>2. WritesAreUnique' /\ AcksAreLater'
    BY <1>2 DEF vars, Inv, WritesAreUnique, AcksAreLater, Published, Writes
  <2>3. ProcessedIsHeld'
    BY <1>2 DEF vars, Inv, ProcessedIsHeld, Processed, Writes, Ids, Range
  <2>4. AcksAreCounted'
    <3>1. \A r \in Node : /\ Acks(Processed(r))' = Acks(Processed(r))
                          /\ Writes(Processed(r))' = Writes(Processed(r))
      BY <1>2 DEF vars, Processed, Writes, Acks
    <3>2. acknowledgements' = acknowledgements /\ log' = log
      BY <1>2 DEF vars
    <3> QED
      BY <3>1, <3>2 DEF Inv, AcksAreCounted, Range
  <2>5. LogIsSorted'
    BY <1>2 DEF vars, Inv, LogIsSorted, Processed, Writes, Before, Range
  <2>6. NothingIsDeliverable'
    BY <1>2 DEF vars, Inv, NothingIsDeliverable, Deliverable, Acknowledged, Before
  <2> QED
    BY <2>1, <2>2, <2>3, <2>4, <2>5, <2>6 DEF Inv
<1> QED
  BY <1>1, <1>2

(* What the nodes keep and know is consistent in every reachable state (Inv): each node's *)
(* acknowledgements, buffer and log are what it has processed of what it has seen.        *)
THEOREM Invariance == Spec => []Inv
<1> QED
  BY InvIsInitial, NextKeepsInv, PTL DEF Spec

-----------------------------------------------------------------------------
(* What follows. *)

LEMMA InvMeansClosed == Inv => AppliedIsClosed
<1> SUFFICES ASSUME Inv, NEW n \in Node, NEW a \in Writes(Published), NEW b \in Writes(Published),
                    Before(a, b), b.id \in Range(log[n])
             PROVE  a.id \in Range(log[n])
  BY DEF AppliedIsClosed
<1>1. a \in Published /\ a \in Message /\ b \in Message /\ a.sender \in Node
  BY SeenFields DEF Writes, Published, Inv
<1>2. a \in Processed(n)
  <2>1. <<b.id, a.sender>> \in Acks(Processed(n))
    BY <1>1 DEF Inv, AcksAreCounted
  <2> QED
    BY <2>1, <1>1, AppliedIsSafe DEF Inv
<1>3. a \in Writes(Processed(n))
  BY <1>2 DEF Writes
<1>4. b \in Writes(Processed(n))
  <2>1. PICK x \in Writes(Processed(n)) : x.id = b.id
    BY DEF Inv, ProcessedIsHeld, Ids
  <2>2. x \in Writes(Published)
    BY <2>1 DEF Writes, Processed, Published
  <2> QED
    BY <2>1, <2>2 DEF Inv, WritesAreUnique
<1>5. a \notin buffer[n]
  <2>1. a \in buffer[n] => Before(b, a)
    BY <1>3, <1>4 DEF Inv, LogIsSorted
  <2> QED
    BY <2>1, <1>1, BeforeIsStrict
<1> QED
  BY <1>3, <1>5 DEF Inv, ProcessedIsHeld

(* No write that comes before one a node has applied is still to be applied there. *)
THEOREM Closure == Spec => []AppliedIsClosed
<1> QED
  BY Invariance, InvMeansClosed, PTL

LEMMA InvMeansSettled == Inv => SettledMeansApplied
<1> SUFFICES ASSUME Inv, \A p \in Node : seen[p] = Published, NEW n \in Node
             PROVE  /\ Range(log[n]) = Submitted
                    /\ buffer[n] = {}
                    /\ \A p \in Node : Incoming(n, p) = {}
  BY DEF SettledMeansApplied
<1>1. ASSUME NEW r \in Node, NEW m \in Published
      PROVE  m.seq < expectedSeq[r][m.sender]
  <2> DEFINE p == m.sender
  <2>1. m \in seen[p] /\ p \in Node /\ m.seq \in 1 .. nextSeq[p] /\ nextSeq[p] \in Nat
    BY SeenFields DEF Published, Inv, SeenIsPast, TypeOK
  <2>2. \A j \in 1 .. nextSeq[p] : \E x \in seen[r] : x.sender = p /\ x.seq = j
    BY <2>1 DEF Inv, NumbersAreLater
  <2>3. /\ expectedSeq[r][p] \in Nat /\ expectedSeq[r][p] > 0
        /\ \A x \in seen[r] : x.sender = p => x.seq # expectedSeq[r][p]
    <3>1. expectedSeq \in [Node -> [Node -> Nat]]
      BY DEF Inv, TypeOK
    <3>2. ExpectedIsMissing
      BY DEF Inv
    <3> QED
      BY <2>1, <3>1, <3>2 DEF ExpectedIsMissing
  <2>4. expectedSeq[r][p] \notin 1 .. nextSeq[p]
    BY <2>2, <2>3
  <2> QED
    BY <2>1, <2>3, <2>4
<1>2. \A r \in Node : Processed(r) = Published
  BY <1>1 DEF Processed
<1>3. \A p \in Node : Incoming(n, p) = {}
  <2> SUFFICES ASSUME NEW p \in Node, NEW m \in Incoming(n, p) PROVE FALSE
    OBVIOUS
  <2>1. m \in seen[n] /\ m.sender = p /\ m.seq >= expectedSeq[n][p]
    BY DEF Incoming
  <2>2. m.seq < expectedSeq[n][p] /\ m.seq \in Nat /\ expectedSeq[n][p] \in Nat
    BY <2>1, <1>1, SeenFields DEF Inv, TypeOK
  <2> QED
    BY <2>1, <2>2
<1>4. \A m \in Writes(Published), p \in Node : <<m.id, p>> \in Acks(Processed(n))
  BY <1>2 DEF Inv, AcksAreCounted
<1>5. buffer[n] = {}
  <2>1. ASSUME NEW b \in buffer[n] PROVE Acknowledged(b, acknowledgements[n])
    <3>1. b \in Writes(Published) /\ b.id \notin Range(log[n])
      BY <1>2 DEF Inv, ProcessedIsHeld
    <3>2. \A p \in Node : <<b.id, p>> \in acknowledgements[n] \/ b.id \in Range(log[n])
      BY <3>1, <1>4 DEF Inv, AcksAreCounted
    <3> QED
      BY <3>1, <3>2 DEF Acknowledged
  <2>2. Deliverable(buffer[n], acknowledgements[n]) = buffer[n]
    BY <2>1 DEF Deliverable
  <2> QED
    BY <2>2 DEF Inv, NothingIsDeliverable
<1>6. Range(log[n]) = Submitted
  <2>1. Range(log[n]) \subseteq Submitted
    BY <1>2 DEF Inv, ProcessedIsHeld, Submitted
  <2>2. \A m \in Writes(Published) : m.id \in Range(log[n])
    BY <1>2, <1>5 DEF Inv, ProcessedIsHeld
  <2> QED
    BY <2>1, <2>2 DEF Submitted, Ids
<1> QED
  BY <1>3, <1>5, <1>6

(* Nothing is stuck once everybody has everything. *)
THEOREM Settlement == Spec => []SettledMeansApplied
<1> QED
  BY Invariance, InvMeansSettled, PTL

-----------------------------------------------------------------------------
(* One order: the logs of any two nodes agree as far as both go. *)

LEMMA LogsAgree ==
    Inv => \A n, p \in Node : \A i \in DOMAIN log[n] \intersect DOMAIN log[p] :
               log[n][i] = log[p][i]
<1> SUFFICES ASSUME Inv PROVE  \A n, p \in Node : \A i \in DOMAIN log[n] \intersect DOMAIN log[p] :
                                   log[n][i] = log[p][i]
  OBVIOUS
<1> DEFINE Differ(i) == \E n, p \in Node : /\ i \in DOMAIN log[n] \intersect DOMAIN log[p]
                                           /\ log[n][i] # log[p][i]
           Differing == {i \in Nat : Differ(i)}
<1>1. \A n \in Node : log[n] \in Seq(Write) /\ DOMAIN log[n] = 1 .. Len(log[n])
  BY DEF Inv, TypeOK
<1>2. SUFFICES ASSUME Differing # {} PROVE FALSE
  BY <1>1
<1>3. \E i \in Differing : \A j \in Differing : <<j, i>> \notin OpToRel(<, Nat)
  BY <1>2, NatLessThanWellFounded, WFMin, Zenon
<1>4. PICK i \in Differing : \A j \in Differing : ~(j < i)
  BY <1>3, Zenon DEF OpToRel
<1>5. PICK n \in Node, p \in Node : /\ i \in DOMAIN log[n] \intersect DOMAIN log[p]
                                    /\ log[n][i] # log[p][i]
  BY <1>4
<1>6. ASSUME NEW r \in Node, i \in DOMAIN log[r]
      PROVE  \E x \in Writes(Processed(r)) : x.id = log[r][i] /\ x \in Published /\ x \in Message
  <2>1. log[r][i] \in Range(log[r])
    BY <1>6 DEF Range
  <2>2. PICK x \in Writes(Processed(r)) : x.id = log[r][i]
    BY <2>1 DEF Inv, ProcessedIsHeld, Ids
  <2>3. x \in seen[r] /\ TypeOK
    BY <2>2 DEF Writes, Processed, Inv
  <2> QED
    BY <2>2, <2>3, SeenFields
<1>7. PICK a \in Writes(Processed(n)) : a.id = log[n][i] /\ a \in Published /\ a \in Message
  BY <1>5, <1>6
<1>8. PICK b \in Writes(Processed(p)) : b.id = log[p][i] /\ b \in Published /\ b \in Message
  BY <1>5, <1>6
<1>9. ASSUME NEW r \in Node, NEW q \in Node, NEW x \in Writes(Processed(r)),
             NEW y \in Writes(Processed(q)), x \in Published, y \in Published,
             x \in Message, y \in Message,
             i \in DOMAIN log[r] \intersect DOMAIN log[q],
             x.id = log[r][i], y.id = log[q][i], x.id # y.id, Before(x, y)
      PROVE  FALSE
  <2>1. x \in Writes(Published) /\ y \in Writes(Published)
    BY <1>9 DEF Writes
  <2>2. y.id \in Range(log[q])
    BY <1>9 DEF Range
  <2>3. x.id \in Range(log[q])
    BY <1>9, <2>1, <2>2, InvMeansClosed DEF AppliedIsClosed
  <2>4. PICK j \in DOMAIN log[q] : log[q][j] = x.id
    BY <2>3 DEF Range
  <2>5. i \in Nat /\ j \in Nat /\ j # i
    BY <1>1, <1>9, <2>4
  <2>6. CASE j < i
    <3>1. j \in DOMAIN log[r]
      BY <1>1, <1>9, <2>4, <2>6
    <3>2. log[r][j] = x.id
      BY <1>4, <2>4, <2>5, <2>6, <3>1
    <3>3. Before(x, x)
      BY <1>9, <2>6, <3>1, <3>2 DEF Inv, LogIsSorted
    <3> QED
      BY <3>3, <1>9, BeforeIsStrict
  <2>7. CASE i < j
    <3>1. x \in Writes(Processed(q))
      <4>1. x.id \in Ids(Writes(Processed(q)))
        BY <2>3 DEF Inv, ProcessedIsHeld
      <4>2. PICK z \in Writes(Processed(q)) : z.id = x.id
        BY <4>1 DEF Ids
      <4>3. z \in Writes(Published)
        BY <4>2 DEF Writes, Processed, Published
      <4> QED
        BY <4>2, <4>3, <2>1 DEF Inv, WritesAreUnique
    <3>2. Before(y, x)
      BY <1>9, <2>4, <2>7, <3>1 DEF Inv, LogIsSorted
    <3> QED
      BY <3>2, <1>9, BeforeIsStrict
  <2> QED
    BY <2>5, <2>6, <2>7
<1>10. Before(a, b) \/ Before(b, a)
  BY <1>5, <1>7, <1>8, BeforeIsTotal DEF Inv
<1> QED
  BY <1>5, <1>7, <1>8, <1>9, <1>10

(* Of finitely many nodes one has the longest log: the one that the fewest exceed. *)
LEMMA SomeLogIsLongest ==
    Inv => \E n \in Node : \A p \in Node : Len(log[p]) =< Len(log[n])
<1> SUFFICES ASSUME Inv PROVE \E n \in Node : \A p \in Node : Len(log[p]) =< Len(log[n])
  OBVIOUS
<1> DEFINE Longer(n) == {p \in Node : Len(log[n]) < Len(log[p])}
           Counts == {Cardinality(Longer(n)) : n \in Node}
<1>1. \A n \in Node : Len(log[n]) \in Nat
  BY DEF Inv, TypeOK
<1>2. \A n \in Node : IsFiniteSet(Longer(n)) /\ Cardinality(Longer(n)) \in Nat
  <2> SUFFICES ASSUME NEW n \in Node
               PROVE  IsFiniteSet(Longer(n)) /\ Cardinality(Longer(n)) \in Nat
    OBVIOUS
  <2>1. Longer(n) \in SUBSET Node
    OBVIOUS
  <2> QED
    BY <2>1, NodesAreOrdered, FS_Subset, FS_CardinalityType
<1> HIDE DEF Longer
<1>3. Counts \subseteq Nat /\ Counts # {}
  BY <1>2, NodesAreOrdered
<1>4. \E k \in Counts : \A j \in Counts : <<j, k>> \notin OpToRel(<, Nat)
  BY <1>3, NatLessThanWellFounded, WFMin, Zenon
<1> HIDE DEF Counts
<1>5. PICK k \in Counts : \A j \in Counts : ~(j < k)
  BY <1>3, <1>4, Zenon DEF OpToRel
<1>6. PICK n \in Node : k = Cardinality(Longer(n))
  BY <1>5 DEF Counts
<1>7. ASSUME NEW p \in Node, Len(log[n]) < Len(log[p]) PROVE FALSE
  <2>1. Longer(p) \in SUBSET Longer(n)
    BY <1>1, <1>7 DEF Longer
  <2>2. p \in Longer(n) /\ p \notin Longer(p)
    BY <1>1, <1>7 DEF Longer
  <2>3. Cardinality(Longer(p)) < Cardinality(Longer(n))
    BY <2>1, <2>2, <1>2, FS_Subset
  <2> QED
    BY <2>3, <1>5, <1>6 DEF Counts
<1> QED
  BY <1>1, <1>7

(* The order is the log of a node, every log is a prefix of it, and it has each write once. *)
OrderCovers ==
    /\ Order \in Seq(Write)
    /\ \E n \in Node : Order = log[n]
    /\ \A n \in Node : /\ Len(log[n]) =< Len(Order)
                       /\ \A i \in 1 .. Len(log[n]) : log[n][i] = Order[i]
    /\ IsInjective(Order)
    /\ Range(Order) \subseteq Submitted

LEMMA InvMeansCovered == Inv => OrderCovers
<1> SUFFICES ASSUME Inv PROVE OrderCovers
  OBVIOUS
<1>1. \A n \in Node : log[n] \in Seq(Write) /\ DOMAIN log[n] = 1 .. Len(log[n])
  BY DEF Inv, TypeOK
<1>2. PICK n \in Node : Order = log[n] /\ \A p \in Node : Len(log[p]) =< Len(log[n])
  BY SomeLogIsLongest DEF Order
<1>3. \A p \in Node : \A i \in 1 .. Len(log[p]) : log[p][i] = Order[i]
  BY <1>1, <1>2, LogsAgree
<1>4. IsInjective(Order)
  <2> SUFFICES ASSUME NEW i \in DOMAIN log[n], NEW j \in DOMAIN log[n], log[n][i] = log[n][j], i < j
               PROVE  FALSE
    BY <1>1, <1>2 DEF IsInjective
  <2>1. log[n][i] \in Range(log[n])
    BY DEF Range
  <2>2. PICK x \in Writes(Processed(n)) : x.id = log[n][i]
    BY <2>1 DEF Inv, ProcessedIsHeld, Ids
  <2>3. Before(x, x)
    BY <2>2 DEF Inv, LogIsSorted
  <2>4. x \in Message
    BY <2>2, SeenFields DEF Inv, Writes, Processed
  <2> QED
    BY <2>3, <2>4, BeforeIsStrict
<1>5. Range(Order) \subseteq Submitted
  <2>1. Range(log[n]) \subseteq Ids(Writes(Processed(n)))
    BY DEF Inv, ProcessedIsHeld
  <2>2. Processed(n) \subseteq Published
    BY DEF Processed, Published
  <2> QED
    BY <2>1, <2>2, <1>2 DEF Submitted, Ids, Writes
<1> QED
  BY <1>1, <1>2, <1>3, <1>4, <1>5 DEF OrderCovers

(* A step puts at most one write and lets at most one log grow. *)
LEMMA OneWriteIsPut ==
    ASSUME Inv, Next
    PROVE  Submitted' = Submitted \/ \E w \in Write \ Submitted : Submitted' = Submitted \union {w}
<1>1. ASSUME NEW n \in Node, NEW m, NEW c, NEW q, Accepts(n, m, c, q),
             ReceiveAndReplicate(n, m, c, q)
      PROVE  Submitted' = Ids(Writes(Published \union {m}))
  <2>1. Published' = Published \union {m} \union Own(n, m, c, q)
    BY <1>1, HandlerKeepsInv
  <2>2. \A a \in Own(n, m, c, q) : a.type = "ack"
    BY <1>1, OwnAreAcks DEF AreAcks
  <2>3. Writes(Published \union {m} \union Own(n, m, c, q)) = Writes(Published \union {m})
    BY <2>2 DEF Writes
  <2>4. Submitted' = Ids(Writes(Published'))
    BY DEF Submitted, Ids, Writes
  <2> QED
    BY <2>1, <2>3, <2>4
<1>2. ASSUME NEW w \in Write, NEW n \in Node, ClientPut(w, n)
      PROVE  w \notin Submitted /\ Submitted' = Submitted \union {w}
  <2>1. PICK m, c, q : /\ m.type = "replicate" /\ m.id = w /\ m.sender = n
                       /\ Accepts(n, m, c, q) /\ ReceiveAndReplicate(n, m, c, q)
    BY <1>2, PutIsAccepted
  <2>2. Ids(Writes(Published \union {m})) = Submitted \union {w}
    BY <2>1 DEF Ids, Writes, Submitted
  <2> QED
    BY <2>1, <2>2, <1>1, <1>2 DEF ClientPut, Submitted
<1>3. ASSUME NEW n \in Node, Receive(n) PROVE Submitted' = Submitted
  <2>1. PICK m, c, q : /\ m \in Published
                       /\ Accepts(n, m, c, q) /\ ReceiveAndReplicate(n, m, c, q)
    BY <1>3, ArrivalIsAccepted
  <2>2. Published \union {m} = Published
    BY <2>1
  <2> QED
    BY <2>1, <2>2, <1>1 DEF Submitted
<1> QED
  BY <1>2, <1>3 DEF Next

LEMMA OneLogGrows ==
    ASSUME Inv, Next
    PROVE  \E n \in Node : /\ \A r \in Node : r # n => log'[r] = log[r]
                           /\ Len(log[n]) =< Len(log'[n])
                           /\ \A i \in 1 .. Len(log[n]) : log'[n][i] = log[n][i]
<1>1. PICK n \in Node : \E m, c, q : Accepts(n, m, c, q) /\ ReceiveAndReplicate(n, m, c, q)
  BY NextIsHandled
<1> QED
  BY <1>1, HandlerKeepsInv

(* A prefix, entry by entry. *)
LEMMA PrefixByEntry ==
    ASSUME NEW S, NEW s \in Seq(S), NEW t \in Seq(S)
    PROVE  IsPrefix(s, t) <=> /\ Len(s) =< Len(t)
                              /\ \A i \in 1 .. Len(s) : s[i] = t[i]
<1>1. SubSeq(s, 1, Len(s)) = s
  OBVIOUS
<1>2. ASSUME Len(s) =< Len(t)
      PROVE  /\ SubSeq(t, 1, Len(s)) \in Seq(S)
             /\ Len(SubSeq(t, 1, Len(s))) = Len(s)
             /\ \A i \in 1 .. Len(s) : SubSeq(t, 1, Len(s))[i] = t[i]
  BY <1>2
<1>3. ASSUME IsPrefix(s, t)
      PROVE  Len(s) =< Len(t) /\ \A i \in 1 .. Len(s) : s[i] = t[i]
  BY <1>1, <1>2, <1>3 DEF IsPrefix
<1>4. ASSUME Len(s) =< Len(t), \A i \in 1 .. Len(s) : s[i] = t[i]
      PROVE  s = SubSeq(t, 1, Len(s))
  BY <1>2, <1>4
<1> QED
  BY <1>1, <1>3, <1>4 DEF IsPrefix

LEMMA StepIsBroadcastStep == Inv /\ Inv' /\ Next => Broadcast!Next
<1> SUFFICES ASSUME Inv, Inv', Next PROVE Broadcast!Next
  OBVIOUS
<1>1. OrderCovers
  BY InvMeansCovered
<1>2. OrderCovers'
  BY InvMeansCovered, PTL
<1>3. PICK L, M : L = Order /\ M = Order'
  OBVIOUS
<1>4. PICK n \in Node : /\ \A r \in Node : r # n => log'[r] = log[r]
                        /\ Len(log[n]) =< Len(log'[n])
                        /\ \A i \in 1 .. Len(log[n]) : log'[n][i] = log[n][i]
  BY OneLogGrows
<1>5. /\ log \in [Node -> Seq(Write)] /\ log' \in [Node -> Seq(Write)]
      /\ \A r \in Node : /\ log[r] \in Seq(Write) /\ Len(log[r]) \in Nat
                         /\ log'[r] \in Seq(Write) /\ Len(log'[r]) \in Nat
      /\ L \in Seq(Write) /\ Len(L) \in Nat /\ M \in Seq(Write) /\ Len(M) \in Nat
  <2>1. log \in [Node -> Seq(Write)]
    BY DEF Inv, TypeOK
  <2>2. log' \in [Node -> Seq(Write)]
    BY DEF Inv, TypeOK
  <2>3. L \in Seq(Write) /\ M \in Seq(Write)
    BY <1>1, <1>2, <1>3 DEF OrderCovers
  <2> QED
    BY <2>1, <2>2, <2>3
<1>6. Broadcast!Extend
  <2>1. PICK r \in Node : L = log[r]
    BY <1>1, <1>3 DEF OrderCovers
  <2>2. Len(log[r]) =< Len(log'[r]) /\ \A i \in 1 .. Len(log[r]) : log'[r][i] = log[r][i]
    <3>1. CASE r = n
      BY <3>1, <1>4
    <3>2. CASE r # n
      BY <3>2, <1>4, <1>5
    <3> QED
      BY <3>1, <3>2
  <2>3. Len(log'[r]) =< Len(M) /\ \A i \in 1 .. Len(log'[r]) : log'[r][i] = M[i]
    BY <1>2, <1>3 DEF OrderCovers
  <2>4. Len(L) =< Len(M) /\ \A i \in 1 .. Len(L) : L[i] = M[i]
    <3>1. PICK l, k : l = log[r] /\ k = log'[r]
      OBVIOUS
    <3>2. Len(l) \in Nat /\ Len(k) \in Nat /\ Len(l) =< Len(k) /\ Len(k) =< Len(M)
      BY <3>1, <2>2, <2>3, <1>5
    <3>3. /\ \A i \in 1 .. Len(l) : k[i] = l[i]
          /\ \A i \in 1 .. Len(k) : k[i] = M[i]
      BY <3>1, <2>2, <2>3
    <3> QED
      BY <3>1, <3>2, <3>3, <2>1, <1>5
  <2>5. IsPrefix(L, M)
    BY <2>4, <1>5, PrefixByEntry
  <2>6. IsInjective(M) /\ Range(M) \subseteq Submitted'
    BY <1>2, <1>3 DEF OrderCovers, IsInjective, Range
  <2> QED
    BY <1>3, <1>5, <2>5, <2>6
    DEF Broadcast!Extend, Broadcast!IsPrefix, IsPrefix, Broadcast!IsInjective, IsInjective,
        Broadcast!Range, Range
<1>7. (\E r \in Node : Broadcast!Deliver(r)) \/ UNCHANGED log
  <2>1. PICK l, k : l = log'[n] /\ k = Len(l)
    OBVIOUS
  <2>2. /\ l \in Seq(Write) /\ k \in Nat /\ k =< Len(M) /\ Len(log[n]) =< k
        /\ \A i \in 1 .. k : l[i] = M[i]
    BY <1>2, <1>3, <1>4, <1>5, <2>1 DEF OrderCovers
  <2>3. l = SubSeq(M, 1, k)
    BY <1>5, <2>1, <2>2
  <2>4. log' = [log EXCEPT ![n] = l]
    BY <1>4, <1>5, <2>1
  <2>5. CASE k = Len(log[n])
    <3>1. PICK p : p = log[n]
      OBVIOUS
    <3>2. p \in Seq(Write) /\ Len(p) = k /\ \A i \in 1 .. k : l[i] = p[i]
      BY <1>4, <1>5, <2>1, <2>5, <3>1
    <3>3. l = p
      BY <3>2, <2>1, <2>2
    <3> QED
      BY <3>1, <3>3, <1>5, <2>4
  <2>6. CASE k # Len(log[n])
    <3>1. k \in Len(log[n]) + 1 .. Len(M)
      BY <2>6, <1>5, <2>2
    <3> QED
      BY <3>1, <1>3, <2>3, <2>4 DEF Broadcast!Deliver
  <2> QED
    BY <2>5, <2>6
<1>8. Broadcast!Submit \/ UNCHANGED Submitted
  BY OneWriteIsPut DEF Broadcast!Submit
<1> QED
  BY <1>6, <1>7, <1>8 DEF Broadcast!Next

(* With the longest log as the order, NodeTotalOrderEagerBroadcast is an ordered broadcast. *)
THEOREM Refinement == Spec => ImplementsBroadcast
<1>1. Init => Broadcast!Init
  <2> SUFFICES ASSUME Init PROVE Broadcast!Init
    OBVIOUS
  <2>1. \A n \in Node : log[n] = <<>> /\ seen[n] = {}
    BY DEF Init
  <2>2. Submitted = {}
    BY <2>1 DEF Submitted, Published, Writes, Ids
  <2>3. Order = <<>>
    BY <2>1, InvIsInitial, InvMeansCovered DEF OrderCovers
  <2> QED
    BY <2>2, <2>3 DEF Init, Broadcast!Init
<1>2. UNCHANGED vars => UNCHANGED Broadcast!vars
  BY DEF vars, Broadcast!vars, Submitted, Published, Order, Ids, Writes
<1>3. Inv /\ Inv' /\ [Next]_vars => [Broadcast!Next]_Broadcast!vars
  BY <1>2, StepIsBroadcastStep
<1> QED
  BY <1>1, <1>3, Invariance, PTL DEF Spec, ImplementsBroadcast, Broadcast!Spec

(* What the cluster's clients see of it: any two nodes agree as far as both have got, and *)
(* no node applies a write twice or one that nobody put (_try_deliver).                   *)
THEOREM OneOrder == Spec => [](Broadcast!Agreement /\ Broadcast!Integrity)
<1>1. Inv => Broadcast!Agreement /\ Broadcast!Integrity
  <2> SUFFICES ASSUME Inv PROVE Broadcast!Agreement /\ Broadcast!Integrity
    OBVIOUS
  <2>1. \A n \in Node : log[n] \in Seq(Write) /\ Len(log[n]) \in Nat /\ DOMAIN log[n] = 1 .. Len(log[n])
    BY DEF Inv, TypeOK
  <2>2. OrderCovers
    BY InvMeansCovered
  <2>3. Broadcast!Agreement
    <3> SUFFICES ASSUME NEW m \in Node, NEW n \in Node
                 PROVE  IsPrefix(log[m], log[n]) \/ IsPrefix(log[n], log[m])
      BY DEF Broadcast!Agreement, Broadcast!IsPrefix, IsPrefix
    <3>1. \A p \in {m, n} : \A i \in 1 .. Len(log[p]) : log[p][i] = Order[i]
      BY <2>2 DEF OrderCovers
    <3>2. CASE Len(log[m]) =< Len(log[n])
      <4>1. \A i \in 1 .. Len(log[m]) : log[m][i] = log[n][i]
        BY <2>1, <3>1, <3>2
      <4> QED
        BY <2>1, <3>2, <4>1, PrefixByEntry
    <3>3. CASE Len(log[n]) =< Len(log[m])
      <4>1. \A i \in 1 .. Len(log[n]) : log[n][i] = log[m][i]
        BY <2>1, <3>1, <3>3
      <4> QED
        BY <2>1, <3>3, <4>1, PrefixByEntry
    <3> QED
      BY <2>1, <3>2, <3>3
  <2>4. ASSUME NEW n \in Node
        PROVE  IsInjective(log[n]) /\ Range(log[n]) \subseteq Submitted
    <3>1. /\ Order \in Seq(Write) /\ Len(log[n]) =< Len(Order)
          /\ \A i \in 1 .. Len(log[n]) : log[n][i] = Order[i]
      BY <2>2 DEF OrderCovers
    <3>2. \A i \in DOMAIN log[n] : i \in DOMAIN Order /\ log[n][i] = Order[i]
      BY <2>1, <3>1
    <3>3. IsInjective(log[n])
      BY <2>2, <3>2 DEF OrderCovers, IsInjective
    <3>4. Range(log[n]) \subseteq Range(Order)
      BY <3>2 DEF Range
    <3> QED
      BY <2>2, <3>3, <3>4 DEF OrderCovers
  <2> QED
    BY <2>3, <2>4 DEF Broadcast!Integrity, Broadcast!IsInjective, IsInjective, Broadcast!Range, Range
<1> QED
  BY <1>1, Invariance, PTL

-----------------------------------------------------------------------------
(* Causality. *)

(* What the node of a client had heard of when the client put a write comes before it. *)
KnownIsBefore ==
    /\ \A w \in Write : known[w] \subseteq Submitted
    /\ \A a, b \in Writes(Published) : a.id \in known[b.id] => Before(a, b)

LEMMA WritesAreAdded ==
    ASSUME Inv, NEW n \in Node, NEW m, NEW c, NEW q, Accepts(n, m, c, q),
           ReceiveAndReplicate(n, m, c, q)
    PROVE  /\ Writes(Published)' = Writes(Published \union {m})
           /\ \A r \in Node : r # n => seen'[r] = seen[r]
           /\ m \in seen'[n]
<1>1. Published' = Published \union {m} \union Own(n, m, c, q)
  BY HandlerKeepsInv
<1>2. \A a \in Own(n, m, c, q) : a.type = "ack"
  BY OwnAreAcks DEF AreAcks
<1>3. seen' = [seen EXCEPT ![n] = @ \union {m} \union Own(n, m, c, q)]
  BY HandlerMovesMessages DEF MessagesAfter
<1>4. seen \in [Node -> SUBSET Message]
  BY DEF Inv, TypeOK
<1> QED
  BY <1>1, <1>2, <1>3, <1>4 DEF Writes

LEMMA PutIsRemembered ==
    ASSUME Inv, Inv', KnownIsBefore, NEW w \in Write, NEW n \in Node, ClientPut(w, n), Remember
    PROVE  KnownIsBefore'
<1>1. PICK m, c, q : /\ m.type = "replicate" /\ m.id = w /\ m.sender = n
                     /\ Accepts(n, m, c, q) /\ ReceiveAndReplicate(n, m, c, q)
  BY PutIsAccepted
<1>2. /\ Writes(Published)' = Writes(Published) \union {m}
      /\ \A r \in Node : r # n => seen'[r] = seen[r]
      /\ m \in seen'[n]
  <2>1. Writes(Published \union {m}) = Writes(Published) \union {m}
    BY <1>1 DEF Writes
  <2> QED
    BY <1>1, <2>1, WritesAreAdded
<1>3. w \notin Submitted /\ Submitted' = Submitted \union {w}
  <2>1. Submitted' = Ids(Writes(Published)')
    BY DEF Submitted, Ids, Writes
  <2> QED
    BY <2>1, <1>1, <1>2 DEF Submitted, Ids, ClientPut
<1>4. \A r \in Node : w \in Ids(Writes(seen'[r])) <=> r = n
  <2>1. \A r \in Node : Ids(Writes(seen[r])) \subseteq Submitted
    BY DEF Submitted, Published, Ids, Writes
  <2>2. w \in Ids(Writes(seen'[n]))
    BY <1>1, <1>2 DEF Ids, Writes
  <2> QED
    BY <2>1, <2>2, <1>2, <1>3
<1>5. /\ known'[w] = Ids(Writes(seen[n]))
      /\ \A u \in Write : u # w => known'[u] = known[u]
  <2>1. (CHOOSE r \in Node : w \in Ids(Writes(seen'[r]))) = n
    BY <1>4
  <2>2. Submitted' \ Submitted = {w}
    BY <1>3
  <2> QED
    BY <2>1, <2>2 DEF Remember
<1>6. \A u \in Write : known'[u] \subseteq Submitted'
  <2>1. Ids(Writes(seen[n])) \subseteq Submitted
    BY DEF Submitted, Published, Ids, Writes
  <2> QED
    BY <2>1, <1>3, <1>5 DEF KnownIsBefore
<1>7. ASSUME NEW a \in Writes(Published) \union {m}, NEW b \in Writes(Published) \union {m},
             a.id \in known'[b.id]
      PROVE  Before(a, b)
  <2>1. \A x, y \in Writes(Published) \union {m} : x.id = y.id => x = y
    BY <1>2 DEF Inv, WritesAreUnique
  <2>2. \A x \in Writes(Published) : x.id \in Submitted /\ x.id \in Write
    BY SeenFields DEF Submitted, Ids, Writes, Published, Inv
  <2>3. CASE b = m
    <3>1. PICK x \in Writes(seen[n]) : x.id = a.id
      BY <2>3, <1>1, <1>5, <1>7 DEF Ids
    <3>2. x \in Writes(Published) /\ x \in seen[n]
      BY <3>1 DEF Writes, Published
    <3>3. x = a
      BY <3>1, <3>2, <2>1
    <3>4. a.timestamp =< clock[n] /\ a.timestamp \in Nat /\ clock[n] \in Nat
      BY <3>2, <3>3, SeenFields DEF Inv, SeenIsPast, TypeOK
    <3>5. clock[n] < m.timestamp /\ m.timestamp \in Nat
      <4>1. m \notin Published
        BY <1>1, <1>3, <2>2 DEF Writes
      <4> QED
        BY <4>1, <1>1 DEF Accepts, IsOwnWrite, IsOfAnother, Message
    <3> QED
      BY <2>3, <3>4, <3>5 DEF Before
  <2>4. CASE b # m
    <3>1. b \in Writes(Published) /\ known'[b.id] = known[b.id]
      BY <2>4, <2>2, <1>1, <1>3, <1>5
    <3>2. a \in Writes(Published)
      BY <3>1, <2>2, <1>1, <1>3, <1>7 DEF KnownIsBefore
    <3> QED
      BY <3>1, <3>2, <1>7 DEF KnownIsBefore
  <2> QED
    BY <2>3, <2>4
<1> QED
  BY <1>2, <1>6, <1>7 DEF KnownIsBefore, Before

LEMMA StepKeepsKnown ==
    Inv /\ Inv' /\ KnownIsBefore /\ [CausalNext]_<<vars, known>> => KnownIsBefore'
<1> SUFFICES ASSUME Inv, Inv', KnownIsBefore, [CausalNext]_<<vars, known>> PROVE KnownIsBefore'
  OBVIOUS
<1>1. ASSUME NEW n \in Node, Receive(n), Remember PROVE KnownIsBefore'
  <2>1. PICK m, c, q : /\ m \in Published
                       /\ Accepts(n, m, c, q) /\ ReceiveAndReplicate(n, m, c, q)
    BY <1>1, ArrivalIsAccepted
  <2>2. Published \union {m} = Published
    BY <2>1
  <2>3. Writes(Published)' = Writes(Published)
    BY <2>1, <2>2, WritesAreAdded
  <2>4. Submitted' = Submitted
    BY <2>3 DEF Submitted, Ids
  <2>5. \A w \in Write : known'[w] = known[w]
    BY <1>1, <2>4 DEF Remember
  <2>6. \A x \in Writes(Published) : x.id \in Write
    BY SeenFields DEF Writes, Published, Inv
  <2> QED
    BY <2>3, <2>4, <2>5, <2>6 DEF KnownIsBefore, Before
<1>2. CASE UNCHANGED <<vars, known>>
  BY <1>2 DEF vars, KnownIsBefore, Submitted, Published, Writes, Ids, Before
<1> QED
  BY <1>1, <1>2, PutIsRemembered DEF CausalNext, Next

LEMMA KnownMeansCausal == Inv /\ KnownIsBefore => CausalOrder
<1> SUFFICES ASSUME Inv, KnownIsBefore, NEW n \in Node,
                    NEW i \in DOMAIN log[n], NEW j \in DOMAIN log[n],
                    log[n][i] \in known[log[n][j]]
             PROVE  i < j
  BY DEF CausalOrder
<1>1. i \in Nat /\ j \in Nat
  BY DEF Inv, TypeOK
<1>2. \A k \in DOMAIN log[n] : \E x \in Writes(Processed(n)) : x.id = log[n][k]
  BY DEF Inv, ProcessedIsHeld, Ids, Range
<1>3. PICK a \in Writes(Processed(n)) : a.id = log[n][i]
  BY <1>2
<1>4. PICK b \in Writes(Processed(n)) : b.id = log[n][j]
  BY <1>2
<1>5. /\ a \in Writes(Published) /\ a \in Message
      /\ b \in Writes(Published) /\ b \in Message
  BY SeenFields DEF Inv, Writes, Processed, Published
<1>6. Before(a, b)
  BY <1>3, <1>4, <1>5 DEF KnownIsBefore
<1>7. i # j
  BY <1>3, <1>4, <1>5, <1>6, BeforeIsStrict DEF Inv, WritesAreUnique
<1>8. ~(j < i)
  BY <1>3, <1>4, <1>5, <1>6, BeforeIsStrict DEF Inv, LogIsSorted
<1> QED
  BY <1>1, <1>7, <1>8

(* No node applies a write before one that its client's node had heard of. *)
THEOREM Causality == CausalSpec => []CausalOrder
<1>1. CausalInit => Inv /\ KnownIsBefore
  <2> SUFFICES ASSUME CausalInit PROVE Inv /\ KnownIsBefore
    OBVIOUS
  <2>1. Inv
    BY InvIsInitial DEF CausalInit
  <2>2. Writes(Published) = {} /\ \A w \in Write : known[w] = {}
    BY DEF CausalInit, Init, Published, Writes
  <2> QED
    BY <2>1, <2>2 DEF KnownIsBefore
<1>2. Inv /\ [CausalNext]_<<vars, known>> => Inv'
  <2>1. [CausalNext]_<<vars, known>> => [Next]_vars
    BY DEF CausalNext
  <2> QED
    BY <2>1, NextKeepsInv
<1>3. Inv /\ KnownIsBefore /\ [CausalNext]_<<vars, known>> => Inv' /\ KnownIsBefore'
  BY <1>2, StepKeepsKnown
<1> QED
  BY <1>1, <1>3, KnownMeansCausal, PTL DEF CausalSpec
=============================================================================
