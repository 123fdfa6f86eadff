--------------------------- MODULE SendManyProofs ---------------------------
(***************************************************************************)
(* Proofs about the three baselines for every cluster, every number of     *)
(* writes and every loss, duplication and delay: Inv is inductive, and     *)
(* what TLC checks on a small instance follows from it.                    *)
(***************************************************************************)
EXTENDS SendMany, FiniteSetTheorems, SequenceTheorems, TLAPS

-----------------------------------------------------------------------------
(* Values, messages and copies. *)

NodeState == [log : Seq(Value), seen : SUBSET Value, nextSeq : Nat,
              expectedSeq : Nat, buffer : SUBSET Message]

(* Of three numbers one is the largest. *)
LEMMA LargestOfThree ==
    ASSUME NEW a \in Nat, NEW b \in Nat, NEW c \in Nat
    PROVE  Max({a, b, c}) \in Nat /\ Max({a, b, c}) >= a /\ Max({a, b, c}) >= b /\ Max({a, b, c}) >= c
<1> DEFINE S == {a, b, c}
<1>1. \E x \in S : \A y \in S : x >= y
  <2>1. CASE a >= b /\ a >= c
    BY <2>1
  <2>2. CASE b >= a /\ b >= c
    BY <2>2
  <2>3. CASE c >= a /\ c >= b
    BY <2>3
  <2> QED
    BY <2>1, <2>2, <2>3
<1>2. Max(S) \in S /\ \A y \in S : Max(S) >= y
  BY <1>1 DEF Max
<1> QED
  BY <1>2

LEMMA Classes ==
    Class = {"NodeMultiLeader", "NodeEagerBroadcast", "NodeSingleLeader"}
  BY WritesAndFaults DEF Class

(* What the clients write are values. *)
LEMMA WritesAreValues ==
    ASSUME NEW c \in Class
    PROVE  NumMessages[c] \in Nat /\ MaxFaults[c] \in Nat /\ \A v \in Nat : v < NumMessages[c] => v \in Value
<1>1. NumMessages[c] \in Nat /\ MaxFaults[c] \in Nat
  BY WritesAndFaults DEF Class
<1> DEFINE S == {NumMessages[d] : d \in Class}
<1>2. S = {NumMessages["NodeMultiLeader"], NumMessages["NodeEagerBroadcast"],
           NumMessages["NodeSingleLeader"]}
  BY Classes
<1>3. /\ NumMessages["NodeMultiLeader"] \in Nat /\ NumMessages["NodeEagerBroadcast"] \in Nat
      /\ NumMessages["NodeSingleLeader"] \in Nat
  BY WritesAndFaults
<1>4. Max(S) \in Nat /\ Max(S) >= NumMessages[c]
  BY <1>2, <1>3, LargestOfThree, Classes
<1>5. Value = 0 .. Max(S) - 1
  BY DEF Value
<1> HIDE DEF S
<1>6. \A v \in Nat : v < NumMessages[c] => v \in Value
  BY <1>1, <1>4, <1>5
<1> QED
  BY <1>1, <1>6

LEMMA ValuesAreNatural == Value \subseteq Nat
<1>1. PICK k : Value = 0 .. k
  BY DEF Value
<1> QED
  BY <1>1

LEMMA PeersGetMessages ==
    ASSUME NEW n \in Node, NEW v \in Value, NEW q \in Nat
    PROVE  /\ ToPeers(n, v, q) \subseteq Message /\ IsFiniteSet(ToPeers(n, v, q))
           /\ \A m \in ToPeers(n, v, q) : /\ m.value = v /\ m.seq = q /\ m.frm = n
                                          /\ m.to \in Node \ {n}
<1>1. ToPeers(n, v, q) \subseteq Message
  BY DEF ToPeers, Message
<1>2. \A m \in ToPeers(n, v, q) : m.value = v /\ m.seq = q /\ m.frm = n /\ m.to \in Node \ {n}
  BY DEF ToPeers
<1>3. IsFiniteSet(ToPeers(n, v, q))
  <2> DEFINE f == [p \in Node \ {n} |-> [value |-> v, seq |-> q, frm |-> n, to |-> p]]
  <2>1. f \in Surjection(Node \ {n}, ToPeers(n, v, q))
    BY DEF ToPeers, Surjection
  <2>2. IsFiniteSet(Node \ {n})
    BY NodesAreFinite, FS_RemoveElement
  <2> QED
    BY <2>1, <2>2, FS_Surjection
<1> QED
  BY <1>1, <1>2, <1>3

LEMMA SameFieldsSameMessage ==
    ASSUME NEW m \in Message, NEW o \in Message,
           m.value = o.value, m.seq = o.seq, m.frm = o.frm, m.to = o.to
    PROVE  m = o
  BY DEF Message

(* How the network's books change when it takes the messages of sent, none of which was *)
(* sent before.                                                                         *)
Takes(sent, rest) ==
    /\ DOMAIN copies' = sent \union DOMAIN copies
    /\ \A m \in DOMAIN copies : copies'[m] = copies[m]
    /\ \A m \in sent : copies'[m] \in 0 .. 2
    /\ inFlight' = rest \union {c \in sent \X {1, 2} : c[2] =< copies'[c[1]]}
    /\ faults' \in 0 .. MaxFaults[class]

LEMMA SendTakes ==
    ASSUME NEW sent, NEW rest, Send(sent, rest), IsFiniteSet(sent), sent \intersect DOMAIN copies = {},
           faults \in Nat, MaxFaults[class] \in Nat
    PROVE  Takes(sent, rest)
<1>1. PICK lost \in SUBSET sent, twice \in SUBSET sent :
          /\ faults + Cardinality(lost \union twice) =< MaxFaults[class]
          /\ faults' = faults + Cardinality(lost \union twice)
          /\ copies' = [m \in sent \union DOMAIN copies |->
                           IF m \notin sent THEN copies[m]
                           ELSE IF m \in lost THEN 0 ELSE IF m \in twice THEN 2 ELSE 1]
          /\ inFlight' = rest \union {c \in sent \X {1, 2} : c[2] =< copies'[c[1]]}
  BY DEF Send
<1>2. Cardinality(lost \union twice) \in Nat
  BY FS_Subset, FS_CardinalityType
<1>3. faults' \in 0 .. MaxFaults[class]
  BY <1>1, <1>2
<1>4. DOMAIN copies' = sent \union DOMAIN copies
  BY <1>1
<1>5. \A m \in DOMAIN copies : copies'[m] = copies[m]
  BY <1>1
<1>6. \A m \in sent : copies'[m] \in 0 .. 2
  BY <1>1
<1> QED
  BY <1>1, <1>3, <1>4, <1>5, <1>6 DEF Takes
-----------------------------------------------------------------------------
(* Logs. *)

LEMMA LogIsSequence ==
    ASSUME NEW s \in Seq(Value)
    PROVE  /\ Len(s) \in Nat /\ DOMAIN s = 1 .. Len(s)
           /\ \A i \in 1 .. Len(s) : s[i] \in Value
           /\ \A v : v \in Range(s) <=> \E i \in 1 .. Len(s) : s[i] = v
           /\ Range(s) \subseteq Value
           /\ s = <<>> <=> Len(s) = 0
  BY DEF Range

LEMMA AppendedLog ==
    ASSUME NEW s \in Seq(Value), NEW w \in Value
    PROVE  /\ Append(s, w) \in Seq(Value) /\ Len(Append(s, w)) = Len(s) + 1
           /\ \A i \in 1 .. Len(s) : Append(s, w)[i] = s[i]
           /\ Append(s, w)[Len(s) + 1] = w
           /\ Last(Append(s, w)) = w
           /\ Range(Append(s, w)) = Range(s) \union {w}
<1>1. PICK t : t = Append(s, w)
  OBVIOUS
<1>2. /\ t \in Seq(Value) /\ Len(t) = Len(s) + 1 /\ Len(s) \in Nat
      /\ \A i \in 1 .. Len(s) : t[i] = s[i]
      /\ t[Len(s) + 1] = w
  BY <1>1
<1>3. Last(t) = w
  BY <1>2 DEF Last
<1>4. ASSUME NEW v PROVE v \in Range(t) <=> v \in Range(s) \union {w}
  <2>1. v \in Range(t) <=> \E i \in 1 .. Len(s) + 1 : t[i] = v
    BY <1>2, LogIsSequence
  <2>2. v \in Range(s) <=> \E i \in 1 .. Len(s) : s[i] = v
    BY LogIsSequence
  <2>3. 1 .. Len(s) + 1 = (1 .. Len(s)) \union {Len(s) + 1}
    BY <1>2
  <2> QED
    BY <1>2, <2>1, <2>2, <2>3
<1> QED
  BY <1>1, <1>2, <1>3, <1>4

LEMMA CountsOfLog ==
    ASSUME NEW s \in Seq(Value), NEW v
    PROVE  Count(v, s) \in Nat /\ (Count(v, s) = 0 <=> v \notin Range(s))
<1> DEFINE I == {i \in DOMAIN s : s[i] = v}
<1>1. IsFiniteSet(I) /\ Cardinality(I) \in Nat
  <2>1. DOMAIN s = 1 .. Len(s) /\ Len(s) \in Nat
    BY LogIsSequence
  <2>2. I \in SUBSET (1 .. Len(s))
    BY <2>1
  <2> HIDE DEF I
  <2>3. IsFiniteSet(1 .. Len(s))
    BY <2>1, FS_Interval
  <2> QED
    BY <2>2, <2>3, FS_Subset, FS_CardinalityType
<1>2. I = {} <=> v \notin Range(s)
  BY LogIsSequence
<1>3. Count(v, s) = Cardinality(I)
  BY DEF Count
<1> HIDE DEF I
<1> QED
  BY <1>1, <1>2, <1>3, FS_EmptySet

(* Appending a value adds one to its count and nothing to that of others. *)
LEMMA CountsOfAppended ==
    ASSUME NEW s \in Seq(Value), NEW w \in Value
    PROVE  /\ Count(w, Append(s, w)) = Count(w, s) + 1
           /\ \A v : v # w => Count(v, Append(s, w)) = Count(v, s)
<1> DEFINE I(v) == {i \in 1 .. Len(s) : s[i] = v}
           J(v) == {i \in 1 .. Len(s) + 1 : Append(s, w)[i] = v}
<1>1. ASSUME NEW v PROVE Count(v, s) = Cardinality(I(v)) /\ Count(v, Append(s, w)) = Cardinality(J(v))
  <2>1. DOMAIN s = 1 .. Len(s) /\ DOMAIN Append(s, w) = 1 .. Len(s) + 1
    BY AppendedLog, LogIsSequence
  <2> QED
    BY <2>1 DEF Count
<1>2. IsFiniteSet(I(w)) /\ Len(s) + 1 \notin I(w) /\ Cardinality(I(w)) \in Nat
  <2>1. IsFiniteSet(1 .. Len(s)) /\ I(w) \in SUBSET (1 .. Len(s)) /\ Len(s) + 1 \notin I(w)
    BY LogIsSequence, FS_Interval
  <2> HIDE DEF I
  <2> QED
    BY <2>1, FS_Subset, FS_CardinalityType
<1>3. 1 .. Len(s) + 1 = (1 .. Len(s)) \union {Len(s) + 1} /\ Len(s) + 1 \notin 1 .. Len(s)
  BY LogIsSequence
<1>4. PICK t : t = Append(s, w)
  OBVIOUS
<1>5. t[Len(s) + 1] = w /\ \A i \in 1 .. Len(s) : t[i] = s[i]
  BY <1>4, AppendedLog
<1>6. J(w) = I(w) \union {Len(s) + 1}
  BY <1>3, <1>4, <1>5
<1>7. \A v : v # w => J(v) = I(v)
  BY <1>3, <1>4, <1>5
<1> HIDE DEF I, J
<1>8. Cardinality(J(w)) = Cardinality(I(w)) + 1
  BY <1>2, <1>6, FS_AddElement
<1> QED
  BY <1>1, <1>7, <1>8

LEMMA NodeFields ==
    ASSUME NEW s \in NodeState
    PROVE  /\ s.log \in Seq(Value) /\ s.seen \subseteq Value /\ s.nextSeq \in Nat
           /\ s.expectedSeq \in Nat /\ s.buffer \subseteq Message
  BY DEF NodeState

-----------------------------------------------------------------------------
(* What is common to all steps of a node. *)

(* A handler of n ran, sent the messages of sent, all of them new, and left rest in flight; *)
(* the log of n has grown or is the same.                                                   *)
Handled(n, sent, rest) ==
    /\ state' \in [Node -> NodeState]
    /\ \A p \in Node \ {n} : state'[p] = state[p]
    /\ Len(Log(n)) =< Len(state'[n].log)
    /\ \A i \in 1 .. Len(Log(n)) : state'[n].log[i] = Log(n)[i]
    /\ \A v \in Range(state'[n].log) : v < issued'
    /\ \A m \in sent : m \in Message /\ m.frm = n /\ m.to # n /\ m.value \in Range(state'[n].log)
    /\ Takes(sent, rest)
    /\ rest \subseteq inFlight
    /\ Snapshot(n, state'[n])
    /\ issued' \in 0 .. NumMessages[class] /\ (issued' = issued \/ issued' = issued + 1)
    /\ UNCHANGED <<class, spaced, values>>
    /\ values = None

LEMMA StateTyped ==
    ASSUME TypeOK
    PROVE  /\ state \in [Node -> NodeState] /\ class \in Class /\ issued \in Nat
           /\ MaxFaults[class] \in Nat /\ NumMessages[class] \in Nat /\ faults \in Nat
           /\ issued =< NumMessages[class]
           /\ \A m \in DOMAIN copies : m \in Message /\ m.frm # m.to /\ copies[m] \in 0 .. 2
           /\ \A c \in inFlight : /\ c = <<c[1], c[2]>> /\ c[1] \in DOMAIN copies /\ c[2] \in {1, 2}
           /\ inFlight \subseteq (DOMAIN copies) \X {1, 2}
           /\ lastState \in [Node -> Value \union {None}] /\ shown \in [Node -> Seq(Value)]
<1>1. class \in Class
  BY DEF TypeOK
<1>2. MaxFaults[class] \in Nat /\ NumMessages[class] \in Nat
  BY <1>1, WritesAreValues
<1>3. issued \in Nat /\ issued =< NumMessages[class] /\ faults \in Nat
  BY <1>2 DEF TypeOK
<1> QED
  BY <1>1, <1>2, <1>3 DEF TypeOK, NodeState

LEMMA LogsTyped ==
    ASSUME TypeOK, NEW n \in Node
    PROVE  Log(n) \in Seq(Value) /\ state[n].log = Log(n)
  BY StateTyped, NodeFields DEF Log

(* The store is a value of the log, as long as there is one. *)
LEMMA StoreOfLog ==
    ASSUME NEW s \in NodeState
    PROVE  /\ s.log = <<>> => Store(s) = None
           /\ s.log # <<>> => /\ Store(s) = s.log[Len(s.log)] /\ Store(s) \in Value
                              /\ Len(s.log) \in 1 .. Len(s.log)
<1>1. s.log \in Seq(Value)
  BY NodeFields
<1>2. s.log # <<>> => s.log[Len(s.log)] \in Value /\ Len(s.log) \in 1 .. Len(s.log)
  BY <1>1, LogIsSequence
<1> QED
  BY <1>2 DEF Store, Last

LEMMA NodesTyped ==
    ASSUME TypeOK, NEW n \in Node, NEW sent, NEW rest, Handled(n, sent, rest)
    PROVE  /\ \A p \in Node : state[p] \in NodeState /\ state'[p] \in NodeState
           /\ \A p \in Node : Log(p) \in Seq(Value) /\ Log(p)' \in Seq(Value)
           /\ \A p \in Node : p # n => state'[p] = state[p] /\ Log(p)' = Log(p)
           /\ Log(n)' = state'[n].log
           /\ \A p \in Node : Range(Log(p)) \subseteq Range(Log(p)')
<1>1. \A p \in Node : state[p] \in NodeState /\ state'[p] \in NodeState
  BY StateTyped DEF Handled
<1>2. \A p \in Node : Log(p) \in Seq(Value) /\ Log(p)' \in Seq(Value)
  BY <1>1, NodeFields DEF Log
<1>3. \A p \in Node : p # n => state'[p] = state[p] /\ Log(p)' = Log(p)
  BY DEF Handled, Log
<1>4. Log(n)' = state'[n].log
  BY DEF Log
<1>5. Range(Log(n)) \subseteq Range(Log(n)')
  <2> SUFFICES ASSUME NEW i \in 1 .. Len(Log(n)) PROVE Log(n)[i] \in Range(Log(n)')
    BY <1>2, LogIsSequence
  <2>1. i \in 1 .. Len(Log(n)') /\ Log(n)'[i] = Log(n)[i]
    BY <1>2, <1>4, LogIsSequence DEF Handled
  <2> QED
    BY <2>1, <1>2, LogIsSequence
<1> QED
  BY <1>1, <1>2, <1>3, <1>4, <1>5

LEMMA HandlingKeepsTypes ==
    ASSUME TypeOK, TraceIsCurrent, NEW n \in Node, NEW sent, NEW rest, Handled(n, sent, rest)
    PROVE  TypeOK'
<1>1. /\ class' = class /\ spaced' = spaced /\ values' = values
      /\ issued' \in 0 .. NumMessages[class]
  BY DEF Handled
<1>2. class' \in Class /\ spaced' \in BOOLEAN /\ values' \in [Node -> Value \union {None}] \union {None}
  BY <1>1 DEF TypeOK
<1>3. state' \in [Node -> [log : Seq(Value), seen : SUBSET Value, nextSeq : Nat,
                           expectedSeq : Nat, buffer : SUBSET Message]]
  BY DEF Handled, NodeState
<1>4. Takes(sent, rest)
  BY DEF Handled
<1>5. inFlight' \in SUBSET ((DOMAIN copies') \X {1, 2})
  <2>1. rest \subseteq (DOMAIN copies) \X {1, 2}
    BY StateTyped DEF Handled
  <2> QED
    BY <1>4, <2>1 DEF Takes
<1>6. \A m \in DOMAIN copies' : m \in Message /\ m.frm # m.to /\ copies'[m] \in 0 .. 2
  <2>1. \A m \in DOMAIN copies : m \in Message /\ m.frm # m.to /\ copies'[m] \in 0 .. 2
    BY <1>4, StateTyped DEF Takes
  <2>2. \A m \in sent : m \in Message /\ m.frm # m.to /\ copies'[m] \in 0 .. 2
    BY <1>4 DEF Takes, Handled
  <2> QED
    BY <1>4, <2>1, <2>2 DEF Takes
<1>7. faults' \in 0 .. MaxFaults[class]
  BY <1>4 DEF Takes
<1>8. Store(state'[n]) \in Value \union {None}
  BY NodesTyped, StoreOfLog
<1>9. lastState' \in [Node -> Value \union {None}]
  BY <1>8, StateTyped DEF Handled, Snapshot
<1>10. shown' \in [Node -> Seq(Value)]
  <2>1. Store(state'[n]) # lastState[n] => Store(state'[n]) \in Value
    <3> SUFFICES ASSUME state'[n].log = <<>> PROVE Store(state'[n]) = lastState[n]
      BY NodesTyped, StoreOfLog
    <3>1. Len(Log(n)) = 0
      <4>1. Len(state'[n].log) = 0
        BY NodesTyped, LogIsSequence
      <4>2. Len(Log(n)) \in Nat /\ Len(Log(n)) =< Len(state'[n].log)
        BY NodesTyped, LogIsSequence DEF Handled
      <4> QED
        BY <4>1, <4>2
    <3>2. state[n].log = <<>>
      BY <3>1, LogsTyped, LogIsSequence
    <3> QED
      BY <3>2, NodesTyped, StoreOfLog DEF TraceIsCurrent
  <2>2. shown[n] \in Seq(Value) /\ shown \in [Node -> Seq(Value)]
    BY StateTyped
  <2>3. (IF Store(state'[n]) = lastState[n] THEN shown[n] ELSE Append(shown[n], Store(state'[n])))
            \in Seq(Value)
    BY <2>1, <2>2
  <2> QED
    BY <2>2, <2>3 DEF Handled, Snapshot
<1> QED
  BY <1>1, <1>2, <1>3, <1>5, <1>6, <1>7, <1>9, <1>10 DEF TypeOK

LEMMA HandlingKeepsOrigins ==
    ASSUME TypeOK, NothingFromNowhere, NEW n \in Node, NEW sent, NEW rest, Handled(n, sent, rest)
    PROVE  NothingFromNowhere'
<1>1. ASSUME NEW p \in Node PROVE \A v \in Range(Log(p)') : v < issued'
  <2>1. CASE p = n
    BY <2>1, NodesTyped DEF Handled
  <2>2. CASE p # n
    <3> SUFFICES ASSUME NEW v \in Range(Log(p)) PROVE v < issued'
      BY <2>2, NodesTyped
    <3>1. v \in Nat /\ v < issued
      BY NodesTyped, LogIsSequence, ValuesAreNatural DEF NothingFromNowhere
    <3> QED
      BY <3>1, StateTyped DEF Handled
  <2> QED
    BY <2>1, <2>2
<1>2. ASSUME NEW m \in DOMAIN copies' PROVE m.value \in Range(Log(m.frm)')
  <2>1. CASE m \in sent
    BY <2>1, NodesTyped DEF Handled
  <2>2. CASE m \in DOMAIN copies
    <3>1. m.frm \in Node
      BY <2>2, StateTyped DEF Message
    <3> QED
      BY <3>1, <2>2, NodesTyped DEF NothingFromNowhere
  <2> QED
    BY <2>1, <2>2 DEF Handled, Takes
<1>3. ASSUME NEW c \in inFlight' PROVE c[2] =< copies'[c[1]]
  <2>1. Takes(sent, rest) /\ rest \subseteq inFlight
    BY DEF Handled
  <2>2. CASE c \in rest
    BY <2>1, <2>2, StateTyped DEF Takes, NothingFromNowhere
  <2> QED
    BY <2>1, <2>2 DEF Takes
<1> QED
  BY <1>1, <1>2, <1>3 DEF NothingFromNowhere

LEMMA HandlingKeepsValues ==
    ASSUME NEW n \in Node, NEW sent, NEW rest, Handled(n, sent, rest)
    PROVE  ValuesAreFinal'
  BY DEF Handled, ValuesAreFinal

(* shown is told by a log: each of its events is one of the log, in that order. *)
Told(events, log) ==
    \E at \in [DOMAIN events -> DOMAIN log] :
        \A i \in DOMAIN at : /\ events[i] = log[at[i]]
                             /\ \A j \in 1 .. i - 1 : at[j] < at[i]

LEMMA ToldByMore ==
    ASSUME NEW e \in Seq(Value), NEW s \in Seq(Value), NEW t \in Seq(Value), Told(e, s),
           Len(s) =< Len(t), \A i \in 1 .. Len(s) : t[i] = s[i]
    PROVE  Told(e, t)
<1>1. PICK at \in [DOMAIN e -> DOMAIN s] :
          \A i \in DOMAIN at : e[i] = s[at[i]] /\ \A j \in 1 .. i - 1 : at[j] < at[i]
  BY DEF Told
<1>2. DOMAIN s = 1 .. Len(s) /\ DOMAIN t = 1 .. Len(t) /\ DOMAIN s \subseteq DOMAIN t
  BY LogIsSequence
<1>3. at \in [DOMAIN e -> DOMAIN t]
  BY <1>2
<1>4. \A i \in DOMAIN at : at[i] \in 1 .. Len(s)
  BY <1>2
<1>5. \A i \in DOMAIN at : e[i] = t[at[i]] /\ \A j \in 1 .. i - 1 : at[j] < at[i]
  BY <1>1, <1>4
<1> QED
  BY <1>3, <1>5 DEF Told

LEMMA ToldWithLast ==
    ASSUME NEW e \in Seq(Value), NEW s \in Seq(Value), NEW t \in Seq(Value), Told(e, s),
           Len(s) < Len(t), \A i \in 1 .. Len(s) : t[i] = s[i]
    PROVE  Told(Append(e, t[Len(t)]), t)
<1>1. PICK at \in [DOMAIN e -> DOMAIN s] :
          \A i \in DOMAIN at : e[i] = s[at[i]] /\ \A j \in 1 .. i - 1 : at[j] < at[i]
  BY DEF Told
<1>2. /\ Len(e) \in Nat /\ Len(s) \in Nat /\ Len(t) \in Nat /\ Len(t) \in 1 .. Len(t)
      /\ DOMAIN e = 1 .. Len(e) /\ DOMAIN s = 1 .. Len(s) /\ DOMAIN t = 1 .. Len(t)
      /\ t[Len(t)] \in Value
  BY LogIsSequence
<1>3. PICK f : f = Append(e, t[Len(t)])
  OBVIOUS
<1>4. /\ DOMAIN f = 1 .. Len(e) + 1 /\ f[Len(e) + 1] = t[Len(t)]
      /\ \A i \in 1 .. Len(e) : f[i] = e[i]
  <2>1. f \in Seq(Value) /\ Len(f) = Len(e) + 1
    BY <1>2, <1>3, AppendedLog
  <2> QED
    BY <2>1, <1>2, <1>3, AppendedLog, LogIsSequence
<1>5. PICK to : to = [i \in 1 .. Len(e) + 1 |-> IF i = Len(e) + 1 THEN Len(t) ELSE at[i]]
  OBVIOUS
<1>6. \A i \in 1 .. Len(e) : at[i] \in 1 .. Len(s)
  BY <1>2
<1>7. /\ \A i \in 1 .. Len(e) : to[i] = at[i] /\ i \in 1 .. Len(e) + 1
      /\ to[Len(e) + 1] = Len(t) /\ DOMAIN to = 1 .. Len(e) + 1
      /\ \A i \in 1 .. Len(e) + 1 : i \in 1 .. Len(e) \/ i = Len(e) + 1
  BY <1>2, <1>5
<1>8. to \in [DOMAIN f -> DOMAIN t]
  <2>1. \A i \in 1 .. Len(e) + 1 : to[i] \in 1 .. Len(t)
    BY <1>2, <1>6, <1>7
  <2> QED
    BY <2>1, <1>2, <1>4, <1>5
<1>9. ASSUME NEW i \in DOMAIN to
      PROVE  f[i] = t[to[i]] /\ \A j \in 1 .. i - 1 : to[j] < to[i]
  <2>1. CASE i = Len(e) + 1
    <3>1. \A j \in 1 .. i - 1 : to[j] \in 1 .. Len(s)
      BY <2>1, <1>2, <1>6, <1>7
    <3> QED
      BY <2>1, <3>1, <1>2, <1>4, <1>7
  <2>2. CASE i \in 1 .. Len(e)
    <3>1. \A j \in 1 .. i - 1 : j \in 1 .. Len(e)
      BY <2>2, <1>2
    <3>2. e[i] = s[at[i]] /\ \A j \in 1 .. i - 1 : at[j] < at[i]
      BY <2>2, <1>1, <1>2
    <3> QED
      BY <2>2, <3>1, <3>2, <1>4, <1>6, <1>7
  <2> QED
    BY <2>1, <2>2, <1>7
<1> QED
  BY <1>3, <1>8, <1>9 DEF Told

(* What the trace has of a node, with events and log. *)
Tells(events, s) ==
    /\ Store(s) = IF events = <<>> THEN None ELSE Last(events)
    /\ \A i \in 1 .. Len(events) - 1 : events[i] # events[i + 1]
    /\ Told(events, s.log)

LEMMA TraceTells ==
    TraceTellsState <=> \A n \in Node : Tells(shown[n], state[n])
<1>1. ASSUME NEW n \in Node
      PROVE  Told(shown[n], state[n].log) <=>
                 \E at \in [DOMAIN shown[n] -> DOMAIN Log(n)] :
                     \A i \in DOMAIN at : /\ shown[n][i] = Log(n)[at[i]]
                                          /\ \A j \in 1 .. i - 1 : at[j] < at[i]
  BY DEF Told, Log
<1> QED
  BY <1>1 DEF TraceTellsState, Tells

LEMMA TraceTellsNext ==
    TraceTellsState' <=> \A n \in Node : Tells(shown'[n], state'[n])
<1>1. ASSUME NEW n \in Node
      PROVE  Told(shown'[n], state'[n].log) <=>
                 \E at \in [DOMAIN shown'[n] -> DOMAIN Log(n)'] :
                     \A i \in DOMAIN at : /\ shown'[n][i] = Log(n)'[at[i]]
                                          /\ \A j \in 1 .. i - 1 : at[j] < at[i]
  BY DEF Told, Log
<1> QED
  BY <1>1 DEF TraceTellsState, Tells, Store

LEMMA HandlingIsTraced ==
    ASSUME TypeOK, TraceIsCurrent, TraceTellsState,
           NEW n \in Node, NEW sent, NEW rest, Handled(n, sent, rest)
    PROVE  TraceIsCurrent' /\ TraceTellsState'
<1>1. /\ lastState' = [lastState EXCEPT ![n] = Store(state'[n])]
      /\ shown' = [shown EXCEPT ![n] = IF Store(state'[n]) = lastState[n] THEN @
                                       ELSE Append(@, Store(state'[n]))]
  BY DEF Handled, Snapshot
<1>2. lastState \in [Node -> Value \union {None}] /\ shown \in [Node -> Seq(Value)]
  BY StateTyped
<1>3. TraceIsCurrent'
  <2>1. ASSUME NEW p \in Node PROVE lastState'[p] = Store(state'[p])
    BY <1>1, <1>2, NodesTyped DEF TraceIsCurrent
  <2>2. \A p \in Node : Store(state[p])' = Store(state'[p])
    BY DEF Store
  <2> QED
    BY <2>1, <2>2 DEF TraceIsCurrent
<1>4. ASSUME NEW p \in Node, p # n PROVE Tells(shown'[p], state'[p])
  <2>1. shown'[p] = shown[p] /\ state'[p] = state[p]
    BY <1>1, <1>2, <1>4, NodesTyped
  <2> QED
    BY <2>1, TraceTells
<1>5. Tells(shown'[n], state'[n])
  <2>1. PICK e, s, t : e = shown[n] /\ s = state[n] /\ t = state'[n]
    OBVIOUS
  <2>2. /\ e \in Seq(Value) /\ s \in NodeState /\ t \in NodeState
        /\ s.log \in Seq(Value) /\ t.log \in Seq(Value) /\ lastState[n] = Store(s)
    BY <2>1, <1>2, NodesTyped, NodeFields DEF TraceIsCurrent
  <2>3. Len(s.log) =< Len(t.log) /\ \A i \in 1 .. Len(s.log) : t.log[i] = s.log[i]
    BY <2>1 DEF Handled, Log
  <2>4. Tells(e, s)
    BY <2>1, TraceTells
  <2>5. CASE Store(t) = Store(s)
    <3>1. shown'[n] = e
      BY <2>1, <2>2, <2>5, <1>1, <1>2
    <3>2. Told(e, t.log)
      BY <2>2, <2>3, <2>4, ToldByMore DEF Tells
    <3> QED
      BY <2>1, <2>4, <2>5, <3>1, <3>2 DEF Tells
  <2>6. CASE Store(t) # Store(s)
    <3>1. shown'[n] = Append(e, Store(t))
      BY <2>1, <2>2, <2>6, <1>1, <1>2
    <3>2. Len(s.log) < Len(t.log)
      <4> SUFFICES ASSUME Len(s.log) = Len(t.log) PROVE Store(s) = Store(t)
        BY <2>2, <2>3, <2>6, LogIsSequence
      <4>1. CASE s.log = <<>>
        BY <4>1, <2>2, StoreOfLog, LogIsSequence
      <4>2. CASE s.log # <<>>
        BY <4>2, <2>2, <2>3, StoreOfLog, LogIsSequence
      <4> QED
        BY <4>1, <4>2
    <3>3. t.log # <<>>
      BY <2>2, <3>2, LogIsSequence
    <3>4. Store(t) = t.log[Len(t.log)] /\ Store(t) \in Value
      BY <2>2, <3>3, StoreOfLog
    <3>5. Told(Append(e, Store(t)), t.log)
      BY <2>2, <2>3, <2>4, <3>2, <3>4, ToldWithLast DEF Tells
    <3>6. PICK f : f = Append(e, Store(t))
      OBVIOUS
    <3>7. /\ f \in Seq(Value) /\ Len(f) = Len(e) + 1 /\ Last(f) = Store(t) /\ f # <<>>
          /\ \A i \in 1 .. Len(e) : f[i] = e[i]
          /\ f[Len(e) + 1] = Store(t) /\ Len(e) \in Nat
      BY <2>2, <3>4, <3>6, AppendedLog, LogIsSequence
    <3>8. ASSUME NEW i \in 1 .. Len(f) - 1 PROVE f[i] # f[i + 1]
      <4>1. CASE i = Len(e)
        <5>1. e # <<>>
          BY <4>1, <2>2, <3>7, LogIsSequence
        <5>2. Store(s) = e[Len(e)]
          BY <5>1, <2>4 DEF Tells, Last
        <5> QED
          BY <4>1, <5>2, <3>7, <2>6
      <4>2. CASE i # Len(e)
        <5>1. i \in 1 .. Len(e) - 1 /\ i \in 1 .. Len(e) /\ i + 1 \in 1 .. Len(e)
          BY <4>2, <3>7
        <5>2. e[i] # e[i + 1]
          BY <5>1, <2>4 DEF Tells
        <5> QED
          BY <5>1, <5>2, <3>7
      <4> QED
        BY <4>1, <4>2
    <3> QED
      BY <2>1, <3>1, <3>5, <3>6, <3>7, <3>8 DEF Tells
  <2> QED
    BY <2>5, <2>6
<1>6. TraceTellsState'
  BY <1>4, <1>5, TraceTellsNext
<1> QED
  BY <1>3, <1>6

-----------------------------------------------------------------------------
(* Copies that arrive. *)

(* A message of which a copy has arrived now is one of which a copy had arrived, or that is *)
(* being handled; what was just sent has not arrived.                                       *)
LEMMA ArrivedNow ==
    ASSUME TypeOK, NEW n \in Node, NEW sent, NEW rest, Handled(n, sent, rest),
           NEW m \in DOMAIN copies', Arrived(m)'
    PROVE  m \in DOMAIN copies /\ (Arrived(m) \/ \E c \in inFlight \ rest : c[1] = m)
<1>1. Takes(sent, rest)
  BY DEF Handled
<1>2. PICK i \in 1 .. copies'[m] : <<m, i>> \notin inFlight'
  BY DEF Arrived
<1>3. m \notin sent
  <2> SUFFICES ASSUME m \in sent PROVE FALSE
    OBVIOUS
  <2>1. copies'[m] \in 0 .. 2
    BY <1>1 DEF Takes
  <2>2. i \in {1, 2} /\ i =< copies'[m]
    BY <2>1
  <2>3. <<m, i>> \in sent \X {1, 2} /\ <<m, i>>[2] =< copies'[<<m, i>>[1]]
    BY <2>2
  <2>4. <<m, i>> \in {c \in sent \X {1, 2} : c[2] =< copies'[c[1]]}
    BY <2>3, Zenon
  <2> QED
    BY <1>1, <1>2, <2>4, Zenon DEF Takes
<1>4. m \in DOMAIN copies /\ copies'[m] = copies[m]
  BY <1>1, <1>3 DEF Takes
<1>5. rest \subseteq inFlight'
  BY <1>1 DEF Takes
<1>6. CASE <<m, i>> \in inFlight
  <2>1. <<m, i>> \in inFlight \ rest /\ <<m, i>>[1] = m
    BY <1>2, <1>5, <1>6
  <2> QED
    BY <1>4, <2>1, Zenon
<1>7. CASE <<m, i>> \notin inFlight
  BY <1>4, <1>7 DEF Arrived
<1> QED
  BY <1>6, <1>7

(* If nothing is in flight, a message that was not lost has arrived. *)
LEMMA ArrivedIfNotOutstanding ==
    ASSUME TypeOK, NEW m \in DOMAIN copies, copies[m] # 0, \A c \in inFlight : c[1] # m
    PROVE  Arrived(m)
<1>1. 1 \in 1 .. copies[m]
  BY StateTyped
<1>2. <<m, 1>> \notin inFlight
  <2>1. <<m, 1>>[1] = m
    OBVIOUS
  <2> QED
    BY <2>1, Zenon
<1> QED
  BY <1>1, <1>2 DEF Arrived

-----------------------------------------------------------------------------
(* The nodes without a leader. *)

(* A client's write is accepted. *)
Accepted(n) ==
    /\ class # "NodeSingleLeader"
    /\ issued \in Value /\ issued' = issued + 1 /\ (spaced => inFlight = {})
    /\ state'[n].log = Append(Log(n), issued)
    /\ class = "NodeEagerBroadcast" => state'[n].seen = state[n].seen \union {issued}
    /\ Handled(n, ToPeers(n, issued, 0), inFlight)

(* A copy is handled and its write applied. *)
Applied(n, c, sent) ==
    /\ class # "NodeSingleLeader"
    /\ c \in inFlight /\ c[1].to = n /\ issued' = issued
    /\ state'[n].log = Append(Log(n), c[1].value)
    /\ class = "NodeEagerBroadcast" => /\ c[1].value \notin state[n].seen
                                       /\ state'[n].seen = state[n].seen \union {c[1].value}
                                       /\ sent = ToPeers(n, c[1].value, 0)
    /\ class = "NodeMultiLeader" => sent = {}
    /\ Handled(n, sent, inFlight \ {c})

(* A copy of a write that was seen before is handled. *)
Ignored(n, c) ==
    /\ class = "NodeEagerBroadcast"
    /\ c \in inFlight /\ c[1].to = n /\ issued' = issued
    /\ state'[n] = state[n]
    /\ c[1].value \in state[n].seen
    /\ Handled(n, {}, inFlight \ {c})

LEMMA TwoClasses ==
    ASSUME TypeOK
    PROVE  class \in {"NodeMultiLeader", "NodeEagerBroadcast", "NodeSingleLeader"}
  BY Classes DEF TypeOK

(* The write of a copy in flight. *)
LEMMA CopyFields ==
    ASSUME TypeOK, NEW c \in inFlight
    PROVE  /\ c[1] \in DOMAIN copies /\ c[1] \in Message /\ c[1].frm # c[1].to
           /\ c[1].value \in Value /\ c[1].to \in Node /\ c[1].frm \in Node /\ c[1].seq \in Nat
  BY StateTyped DEF Message

(* A write that is accepted is new to everyone. *)
LEMMA WriteIsNew ==
    ASSUME TypeOK, NothingFromNowhere
    PROVE  /\ \A p \in Node : issued \notin Range(Log(p))
           /\ \A m \in DOMAIN copies : m.value # issued
<1>1. \A p \in Node : issued \notin Range(Log(p))
  BY StateTyped DEF NothingFromNowhere
<1>2. \A m \in DOMAIN copies : m.frm \in Node /\ m.value \in Range(Log(m.frm))
  BY StateTyped DEF NothingFromNowhere, Message
<1> QED
  BY <1>1, <1>2

LEMMA UnorderedKeepsArrived ==
    ASSUME TypeOK, ArrivedIsApplied, class # "NodeSingleLeader",
           NEW n \in Node, NEW sent, NEW rest, Handled(n, sent, rest),
           \A m \in sent : m.seq = 0,
           \A c \in inFlight \ rest : c[1].to = n /\ c[1].value \in Range(state'[n].log),
           issued' # issued => /\ issued \in Range(state'[n].log)
                               /\ sent = ToPeers(n, issued, 0)
    PROVE  ArrivedIsApplied'
<1>1. Takes(sent, rest)
  BY DEF Handled
<1>2. ASSUME NEW v \in 0 .. issued' - 1
      PROVE  \E p \in Node : v \in Range(Log(p)') /\ ToPeers(p, v, 0) \subseteq DOMAIN copies'
  <2>1. CASE v \in 0 .. issued - 1
    <3>1. PICK p \in Node : v \in Range(Log(p)) /\ ToPeers(p, v, 0) \subseteq DOMAIN copies
      BY <2>1 DEF ArrivedIsApplied
    <3>2. v \in Range(Log(p)') /\ ToPeers(p, v, 0) \subseteq DOMAIN copies'
      BY <3>1, <1>1, NodesTyped DEF Takes
    <3> QED
      BY <3>2
  <2>2. CASE v \notin 0 .. issued - 1
    <3>1. v = issued /\ issued' # issued
      BY <2>2, StateTyped DEF Handled
    <3>2. v \in Range(Log(n)') /\ ToPeers(n, v, 0) \subseteq DOMAIN copies'
      BY <3>1, <1>1, NodesTyped DEF Takes
    <3> QED
      BY <3>2
  <2> QED
    BY <2>1, <2>2
<1>3. ASSUME NEW m \in DOMAIN copies'
      PROVE  m.seq = 0 /\ (Arrived(m)' => m.value \in Range(Log(m.to)'))
  <2>1. m.seq = 0
    BY <1>1 DEF Takes, ArrivedIsApplied
  <2>2. ASSUME Arrived(m)' PROVE m.value \in Range(Log(m.to)')
    <3>1. m \in DOMAIN copies /\ (Arrived(m) \/ \E c \in inFlight \ rest : c[1] = m)
      BY <2>2, ArrivedNow
    <3>2. CASE Arrived(m)
      <4>1. m.to \in Node /\ m.value \in Range(Log(m.to))
        BY <3>1, <3>2, StateTyped DEF ArrivedIsApplied, Message
      <4> QED
        BY <4>1, NodesTyped
    <3>3. CASE \E c \in inFlight \ rest : c[1] = m
      BY <3>3, NodesTyped
    <3> QED
      BY <3>1, <3>2, <3>3
  <2> QED
    BY <2>1, <2>2
<1>4. class' = class
  BY DEF Handled
<1> QED
  BY <1>2, <1>3, <1>4 DEF ArrivedIsApplied, ToPeers

LEMMA UnorderedKeepsLast ==
    ASSUME TypeOK, NothingFromNowhere, LastWriteIsLast, SeenIsApplied, NEW n \in Node,
           \/ Accepted(n)
           \/ \E c, sent : Applied(n, c, sent)
           \/ \E c : Ignored(n, c)
    PROVE  LastWriteIsLast'
<1> SUFFICES ASSUME spaced
             PROVE  /\ \A c \in inFlight' : c[1].value = issued' - 1
                    /\ \A p \in Node : issued' - 1 \in Range(Log(p)') => Last(Log(p)') = issued' - 1
  BY DEF LastWriteIsLast, Last, Accepted, Applied, Ignored, Handled
<1>1. CASE Accepted(n)
  <2>1. /\ class # "NodeSingleLeader" /\ issued \in Value /\ issued' = issued + 1 /\ inFlight = {}
        /\ state'[n].log = Append(Log(n), issued) /\ Handled(n, ToPeers(n, issued, 0), inFlight)
    BY <1>1 DEF Accepted
  <2>2. issued' - 1 = issued
    BY <2>1, StateTyped
  <2>3. \A m \in ToPeers(n, issued, 0) : m.value = issued
    BY <2>1, PeersGetMessages
  <2>4. \A c \in inFlight' : c[1] \in ToPeers(n, issued, 0)
    BY <2>1 DEF Handled, Takes
  <2>5. Last(Log(n)') = issued
    <3>1. Log(n)' = Append(Log(n), issued)
      BY <2>1, NodesTyped
    <3>2. Log(n) \in Seq(Value)
      BY LogsTyped
    <3>3. Last(Append(Log(n), issued)) = issued
      BY <3>2, <2>1, AppendedLog
    <3> QED
      BY <3>1, <3>3, Zenon
  <2>6. \A p \in Node : p # n => issued \notin Range(Log(p)')
    BY <2>1, WriteIsNew, NodesTyped
  <2> QED
    BY <2>2, <2>3, <2>4, <2>5, <2>6
<1>2. ASSUME NEW c, NEW sent, Applied(n, c, sent)
      PROVE  /\ \A d \in inFlight' : d[1].value = issued' - 1
             /\ \A p \in Node : issued' - 1 \in Range(Log(p)') => Last(Log(p)') = issued' - 1
  <2>1. /\ class # "NodeSingleLeader" /\ c \in inFlight /\ issued' = issued
        /\ state'[n].log = Append(Log(n), c[1].value) /\ Handled(n, sent, inFlight \ {c})
    BY <1>2 DEF Applied
  <2>2. c[1].value = issued - 1 /\ c[1].value \in Value
    BY <2>1, CopyFields DEF LastWriteIsLast
  <2>3. \A m \in sent : m.value = c[1].value
    BY <1>2, <2>2, TwoClasses, PeersGetMessages DEF Applied
  <2>4. \A d \in inFlight' : d \in inFlight \/ d[1] \in sent
    BY <2>1 DEF Handled, Takes
  <2>5. Last(Log(n)') = c[1].value
    <3>1. Log(n)' = Append(Log(n), c[1].value)
      BY <2>1, NodesTyped
    <3>2. Log(n) \in Seq(Value)
      BY LogsTyped
    <3>3. Last(Append(Log(n), c[1].value)) = c[1].value
      BY <3>2, <2>1, <2>2, AppendedLog
    <3> QED
      BY <3>1, <3>3, Zenon
  <2>6. \A p \in Node : p # n => Log(p)' = Log(p)
    BY <2>1, NodesTyped
  <2> QED
    BY <2>1, <2>2, <2>3, <2>4, <2>5, <2>6 DEF LastWriteIsLast
<1>3. ASSUME NEW c, Ignored(n, c)
      PROVE  /\ \A d \in inFlight' : d[1].value = issued' - 1
             /\ \A p \in Node : issued' - 1 \in Range(Log(p)') => Last(Log(p)') = issued' - 1
  <2>1. /\ class # "NodeSingleLeader" /\ issued' = issued
        /\ state'[n] = state[n] /\ Handled(n, {}, inFlight \ {c})
    BY <1>3 DEF Ignored
  <2>2. inFlight' \subseteq inFlight
    BY <2>1 DEF Handled, Takes
  <2>3. \A p \in Node : Log(p)' = Log(p)
    BY <2>1, NodesTyped DEF Log
  <2> QED
    BY <2>1, <2>2, <2>3 DEF LastWriteIsLast
<1> QED
  BY <1>1, <1>2, <1>3

LEMMA UnorderedKeepsSender ==
    ASSUME TypeOK, NothingFromNowhere, OneSender, NEW n \in Node,
           \/ Accepted(n)
           \/ \E c, sent : Applied(n, c, sent)
           \/ \E c : Ignored(n, c)
    PROVE  OneSender'
<1>1. CASE Accepted(n)
  <2>1. issued \in Value /\ Takes(ToPeers(n, issued, 0), inFlight) /\ class' = class
    BY <1>1 DEF Accepted, Handled
  <2>2. \A m \in ToPeers(n, issued, 0) : m.value = issued /\ m.frm = n
    BY <2>1, PeersGetMessages
  <2>3. \A m \in DOMAIN copies : m.value # issued
    BY WriteIsNew
  <2>4. DOMAIN copies' = ToPeers(n, issued, 0) \union DOMAIN copies
    BY <2>1 DEF Takes
  <2> QED
    BY <2>1, <2>2, <2>3, <2>4 DEF OneSender
<1>2. CASE \E c, sent : Applied(n, c, sent)
  BY <1>2 DEF OneSender, Applied, Handled, Takes
<1>3. CASE \E c : Ignored(n, c)
  BY <1>3 DEF OneSender, Ignored, Handled
<1> QED
  BY <1>1, <1>2, <1>3

(* How many copies of m are in flight. *)
LEMMA CopiesOfNewMessage ==
    ASSUME NEW k \in 0 .. 2, NEW m
    PROVE  Cardinality({c \in {m} \X {1, 2} : c[2] =< k}) = k
<1> DEFINE S == {c \in {m} \X {1, 2} : c[2] =< k}
<1>1. \A c : c \in {m} \X {1, 2} <=> c = <<m, 1>> \/ c = <<m, 2>>
  OBVIOUS
<1>2. CASE k = 0
  <2>1. S = {}
    BY <1>2
  <2> QED
    BY <1>2, <2>1, FS_EmptySet
<1>3. CASE k = 1
  <2>1. S = {<<m, 1>>}
    BY <1>3
  <2> QED
    BY <1>3, <2>1, FS_Singleton
<1>4. CASE k = 2
  <2>1. S = {<<m, 1>>} \union {<<m, 2>>}
    BY <1>4
  <2>2. <<m, 2>> \notin {<<m, 1>>}
    OBVIOUS
  <2> HIDE DEF S
  <2>3. IsFiniteSet({<<m, 1>>}) /\ Cardinality({<<m, 1>>}) = 1
    BY FS_Singleton
  <2>4. Cardinality(S) = 1 + 1
    BY <2>1, <2>2, <2>3, FS_AddElement
  <2> QED
    BY <1>4, <2>4 DEF S
<1> QED
  BY <1>2, <1>3, <1>4

Copies(m) == {c \in inFlight : c[1] = m}

LEMMA CopiesAreFinite ==
    ASSUME TypeOK, NEW m
    PROVE  IsFiniteSet(Copies(m)) /\ Cardinality(Copies(m)) \in Nat
<1>1. Copies(m) \in SUBSET ({<<m, 1>>} \union {<<m, 2>>})
  BY StateTyped DEF Copies
<1>2. IsFiniteSet({<<m, 1>>} \union {<<m, 2>>})
  BY FS_Singleton, FS_AddElement
<1> QED
  BY <1>1, <1>2, FS_Subset, FS_CardinalityType

LEMMA UnorderedKeepsCopies ==
    ASSUME TypeOK, NothingFromNowhere, ArrivedIsApplied, OneSender, AppliedPerCopy, NEW n \in Node,
           \/ Accepted(n)
           \/ \E c, sent : Applied(n, c, sent)
           \/ \E c : Ignored(n, c)
    PROVE  AppliedPerCopy'
<1> SUFFICES ASSUME class = "NodeMultiLeader", NEW m \in DOMAIN copies'
             PROVE  Count(m.value, Log(m.to)') + Cardinality(Copies(m)') = copies'[m]
  BY DEF AppliedPerCopy, Copies, Accepted, Applied, Ignored, Handled, Count
<1>a. ASSUME NEW o \in DOMAIN copies
      PROVE  /\ o.to \in Node /\ o \in Message /\ o.value \in Value
             /\ Count(o.value, Log(o.to)) + Cardinality(Copies(o)) = copies[o]
  BY <1>a, StateTyped DEF Message, AppliedPerCopy, Copies
<1>1. CASE Accepted(n)
  <2>1. PICK sent : sent = ToPeers(n, issued, 0)
    OBVIOUS
  <2>2. /\ issued \in Value /\ Takes(sent, inFlight)
        /\ state'[n].log = Append(Log(n), issued) /\ Handled(n, sent, inFlight)
    BY <1>1, <2>1 DEF Accepted, Handled
  <2>3. \A o \in sent : o.value = issued /\ o.to \in Node \ {n}
    BY <2>1, <2>2, PeersGetMessages
  <2>4. \A o \in DOMAIN copies : o.value # issued
    BY WriteIsNew
  <2>5. Log(n) \in Seq(Value) /\ Log(n)' = Append(Log(n), issued)
    BY <2>2, NodesTyped
  <2>6. inFlight' = inFlight \union {c \in sent \X {1, 2} : c[2] =< copies'[c[1]]}
    BY <2>2 DEF Takes
  <2>7. CASE m \in sent
    <3>1. Log(m.to)' = Log(m.to) /\ Log(m.to) \in Seq(Value) /\ m.value \notin Range(Log(m.to))
      BY <2>2, <2>3, <2>7, NodesTyped, WriteIsNew
    <3>2. Count(m.value, Log(m.to)') = 0
      BY <3>1, CountsOfLog
    <3>3. \A c \in inFlight : c[1] # m
      BY <2>3, <2>4, <2>7, CopyFields
    <3>4. {c \in inFlight' : c[1] = m} = {c \in {m} \X {1, 2} : c[2] =< copies'[m]}
      BY <2>6, <2>7, <3>3
    <3>5. copies'[m] \in 0 .. 2
      BY <2>2, <2>7 DEF Takes
    <3>6. Copies(m)' = {c \in inFlight' : c[1] = m}
      BY DEF Copies
    <3>7. Cardinality(Copies(m)') = copies'[m]
      BY <3>4, <3>5, <3>6, CopiesOfNewMessage
    <3> QED
      BY <3>2, <3>5, <3>7
  <2>8. CASE m \notin sent
    <3>1. m \in DOMAIN copies /\ copies'[m] = copies[m]
      BY <2>2, <2>8 DEF Takes
    <3>2. Count(m.value, Log(m.to)') = Count(m.value, Log(m.to))
      <4>1. CASE m.to = n
        <5>1. Count(m.value, Append(Log(n), issued)) = Count(m.value, Log(n))
          BY <2>2, <2>4, <2>5, <3>1, CountsOfAppended
        <5> QED
          BY <4>1, <5>1, <2>5
      <4>2. CASE m.to # n
        BY <4>2, <2>2, <3>1, <1>a, NodesTyped
      <4> QED
        BY <4>1, <4>2
    <3>3. Copies(m)' = Copies(m)
      BY <2>6, <2>8 DEF Copies
    <3> QED
      BY <3>1, <3>2, <3>3, <1>a
  <2> QED
    BY <2>7, <2>8
<1>2. ASSUME NEW c, NEW sent, Applied(n, c, sent)
      PROVE  Count(m.value, Log(m.to)') + Cardinality(Copies(m)') = copies'[m]
  <2>1. /\ c \in inFlight /\ c[1].to = n /\ state'[n].log = Append(Log(n), c[1].value)
        /\ sent = {} /\ Handled(n, sent, inFlight \ {c})
    BY <1>2 DEF Applied
  <2>2. /\ DOMAIN copies' = DOMAIN copies /\ copies'[m] = copies[m] /\ inFlight' = inFlight \ {c}
    BY <2>1 DEF Handled, Takes
  <2>3. PICK o, v : o = c[1] /\ v = c[1].value
    OBVIOUS
  <2>4. /\ Log(n) \in Seq(Value) /\ Log(n)' = Append(Log(n), v) /\ v \in Value
        /\ o \in DOMAIN copies /\ o \in Message /\ o.to = n /\ o.value = v
    BY <2>1, <2>3, NodesTyped, CopyFields
  <2>5. CASE m = o
    <3>1. Count(m.value, Log(m.to)') = Count(m.value, Log(m.to)) + 1
      <4>1. Count(v, Append(Log(n), v)) = Count(v, Log(n)) + 1
        BY <2>4, CountsOfAppended
      <4> QED
        BY <4>1, <2>4, <2>5
    <3>2. Copies(m)' = Copies(m) \ {c} /\ c \in Copies(m)
      BY <2>1, <2>2, <2>3, <2>5 DEF Copies
    <3>3. Cardinality(Copies(m)') = Cardinality(Copies(m)) - 1
      BY <3>2, CopiesAreFinite, FS_RemoveElement
    <3>4. Count(m.value, Log(m.to)) \in Nat /\ Cardinality(Copies(m)) \in Nat
      BY <2>4, <2>5, CountsOfLog, CopiesAreFinite
    <3>5. Count(m.value, Log(m.to)) + Cardinality(Copies(m)) = copies[m]
      BY <2>2, <1>a
    <3> QED
      BY <3>1, <3>3, <3>4, <3>5, <2>2
  <2>6. CASE m # o
    <3>1. Count(m.value, Log(m.to)') = Count(m.value, Log(m.to))
      <4>1. CASE m.to = n
        <5>1. m.value # v
          <6> SUFFICES ASSUME m.value = v PROVE m = o
            BY <2>6
          <6>1. m.frm = o.frm
            BY <2>2, <2>4 DEF OneSender
          <6>2. m.seq = 0 /\ o.seq = 0
            BY <2>2, <2>4 DEF ArrivedIsApplied
          <6>3. m \in Message
            BY <2>2, <1>a
          <6> QED
            BY <6>1, <6>2, <6>3, <4>1, <2>4, SameFieldsSameMessage
        <5>2. Count(m.value, Append(Log(n), v)) = Count(m.value, Log(n))
          BY <2>4, <5>1, CountsOfAppended
        <5> QED
          BY <4>1, <5>2, <2>4
      <4>2. CASE m.to # n
        BY <4>2, <2>1, <2>2, <1>a, NodesTyped
      <4> QED
        BY <4>1, <4>2
    <3>2. Copies(m)' = Copies(m)
      BY <2>2, <2>3, <2>6 DEF Copies
    <3> QED
      BY <3>1, <3>2, <2>2, <1>a
  <2> QED
    BY <2>5, <2>6
<1>3. CASE \E c : Ignored(n, c)
  BY <1>3 DEF Ignored
<1> QED
  BY <1>1, <1>2, <1>3

LEMMA UnorderedKeepsSeen ==
    ASSUME TypeOK, NothingFromNowhere, SeenIsApplied, NEW n \in Node,
           \/ Accepted(n)
           \/ \E c, sent : Applied(n, c, sent)
           \/ \E c : Ignored(n, c)
    PROVE  SeenIsApplied'
<1> DEFINE Seen(p) == /\ state'[p].seen = Range(Log(p)')
                      /\ \A v \in Range(Log(p)') : /\ Count(v, Log(p)') = 1
                                                  /\ ToPeers(p, v, 0) \subseteq DOMAIN copies'
<1> SUFFICES ASSUME class = "NodeEagerBroadcast", NEW p \in Node
             PROVE  Seen(p)
  BY DEF SeenIsApplied, ToPeers, Count, Accepted, Applied, Ignored, Handled
<1>1. ASSUME NEW v \in Value, NEW sent, NEW rest, Handled(n, sent, rest),
             v \notin Range(Log(n)), sent = ToPeers(n, v, 0),
             state'[n].log = Append(Log(n), v), state'[n].seen = state[n].seen \union {v}
      PROVE  Seen(p)
  <2>1. DOMAIN copies' = sent \union DOMAIN copies
    BY <1>1 DEF Handled, Takes
  <2>2. CASE p # n
    <3>1. state'[p] = state[p] /\ Log(p)' = Log(p)
      BY <1>1, <2>2, NodesTyped
    <3> QED
      BY <2>1, <3>1 DEF SeenIsApplied
  <2>3. CASE p = n
    <3>1. Log(n) \in Seq(Value) /\ Log(n)' = Append(Log(n), v)
      BY <1>1, NodesTyped
    <3>2. Range(Log(n)') = Range(Log(n)) \union {v}
      BY <3>1, AppendedLog
    <3>3. state'[n].seen = Range(Log(n)')
      BY <1>1, <3>2 DEF SeenIsApplied
    <3>4. Count(v, Append(Log(n), v)) = 1
      BY <1>1, <3>1, CountsOfAppended, CountsOfLog
    <3>5. \A w \in Range(Log(n)) : Count(w, Append(Log(n), v)) = 1
      BY <1>1, <3>1, CountsOfAppended DEF SeenIsApplied
    <3>6. \A w \in Range(Log(n)') : Count(w, Log(n)') = 1
      BY <3>1, <3>2, <3>4, <3>5
    <3>7. \A w \in Range(Log(n)') : ToPeers(n, w, 0) \subseteq DOMAIN copies'
      BY <1>1, <2>1, <3>2 DEF SeenIsApplied
    <3> QED
      BY <2>3, <3>3, <3>6, <3>7
  <2> QED
    BY <2>2, <2>3
<1>2. CASE Accepted(n)
  BY <1>1, <1>2, WriteIsNew DEF Accepted
<1>3. CASE \E c, sent : Applied(n, c, sent)
  <2>1. PICK c, sent : Applied(n, c, sent)
    BY <1>3
  <2>2. /\ c[1].value \in Value /\ c[1].value \notin Range(Log(n))
    BY <2>1, CopyFields DEF Applied, SeenIsApplied
  <2> QED
    BY <1>1, <2>1, <2>2 DEF Applied
<1>4. CASE \E c : Ignored(n, c)
  <2>1. PICK c : Ignored(n, c)
    BY <1>4
  <2>2. state'[p] = state[p] /\ Log(p)' = Log(p) /\ DOMAIN copies \subseteq DOMAIN copies'
    BY <2>1, NodesTyped DEF Ignored, Log, Handled, Takes
  <2> QED
    BY <2>2 DEF SeenIsApplied
<1> QED
  BY <1>2, <1>3, <1>4

-----------------------------------------------------------------------------
(* NodeSingleLeader. *)

(* Of any finite set of messages one number from e on is missing, no further from e than *)
(* there are messages.                                                                   *)
LEMMA SomeNumberIsMissing ==
    ASSUME NEW H \in SUBSET Message, IsFiniteSet(H), NEW e \in Nat
    PROVE  /\ Cardinality(H) \in Nat
           /\ \E j \in e .. e + Cardinality(H) : \A x \in H : x.seq # j
<1>1. PICK k \in Nat : k = Cardinality(H)
  BY FS_CardinalityType
<1> DEFINE I == e .. e + k
<1>2. SUFFICES ASSUME \A j \in I : \E x \in H : x.seq = j PROVE FALSE
  BY <1>1
<1> DEFINE f == [j \in I |-> CHOOSE x \in H : x.seq = j]
<1>3. \A j \in I : f[j] \in H /\ f[j].seq = j
  BY <1>2
<1>4. f \in Injection(I, H)
  BY <1>3 DEF Injection, IsInjective
<1> HIDE DEF f
<1>5. Cardinality(I) =< Cardinality(H)
  BY <1>4, FS_Injection
<1>6. Cardinality(I) = k + 1
  BY FS_Interval
<1> QED
  BY <1>1, <1>5, <1>6

(* The first number from e on that no message of H has. *)
Gap(H, e) == Min({j \in e .. e + Cardinality(H) : \A x \in H : x.seq # j})

LEMMA GapIsFirst ==
    ASSUME NEW H \in SUBSET Message, IsFiniteSet(H), NEW e \in Nat
    PROVE  /\ Gap(H, e) \in Nat /\ e =< Gap(H, e)
           /\ \A x \in H : x.seq # Gap(H, e)
           /\ \A j \in e .. Gap(H, e) - 1 : \E x \in H : x.seq = j
<1>1. PICK k \in Nat : k = Cardinality(H)
  BY SomeNumberIsMissing
<1> DEFINE G == {j \in Nat : j \in e .. e + k /\ \A x \in H : x.seq # j}
<1>2. G # {}
  BY <1>1, SomeNumberIsMissing
<1>3. \E l \in G : \A j \in G : <<j, l>> \notin OpToRel(<, Nat)
  BY <1>2, NatLessThanWellFounded, WFMin, Zenon
<1>4. \E l \in G : \A j \in G : ~(j < l)
  BY <1>3, Zenon DEF OpToRel
<1>5. \E l \in G : \A j \in G : l =< j
  BY <1>4
<1>6. Min(G) \in G /\ \A j \in G : Min(G) =< j
  BY <1>5 DEF Min
<1>7. Gap(H, e) = Min(G)
  <2>1. G = {j \in e .. e + Cardinality(H) : \A x \in H : x.seq # j}
    BY <1>1
  <2> HIDE DEF G
  <2> QED
    BY <2>1 DEF Gap
<1>8. PICK l : l = Min(G)
  OBVIOUS
<1>9. l \in e .. e + k /\ (\A x \in H : x.seq # l) /\ \A j \in e .. e + k : (\A x \in H : x.seq # j) => l =< j
  BY <1>6, <1>8
<1>10. \A j \in e .. l - 1 : \E x \in H : x.seq = j
  BY <1>9
<1> QED
  BY <1>7, <1>8, <1>9, <1>10

(* What on_message of a follower makes of its fields: with k the first number missing, it has *)
(* the leader's writes before k and holds the messages after it.                              *)
Follows(s, t, leader, held, k) ==
    /\ k \in Nat /\ s.expectedSeq =< k
    /\ \A x \in held : x.seq # k
    /\ k = s.expectedSeq \/ \E x \in held : x.seq = k - 1
    /\ t \in NodeState
    /\ t.expectedSeq = k /\ t.buffer = {x \in held : x.seq >= k}
    /\ Len(t.log) = Len(s.log) + (k - s.expectedSeq)
    /\ \A i \in 1 .. Len(s.log) : t.log[i] = s.log[i]
    /\ \A i \in 1 .. k - s.expectedSeq : t.log[Len(s.log) + i] = leader[s.expectedSeq + i - 1]

Released(H, e, k) == [i \in 1 .. k - e |-> (CHOOSE x \in H : x.seq = e + i - 1).value]
AfterRelease(s, H, e, k) ==
    [s EXCEPT !.log = @ \o Released(H, e, k), !.expectedSeq = k, !.buffer = {x \in H : x.seq >= k}]

LEMMA SingleReceiveReleases ==
    ASSUME NEW s, NEW m, ~(m.seq < s.expectedSeq)
    PROVE  /\ SingleReceive(s, m).sent = {}
           /\ SingleReceive(s, m).node = AfterRelease(s, s.buffer \union {m}, s.expectedSeq,
                                                     Gap(s.buffer \union {m}, s.expectedSeq))
  BY DEF SingleReceive, Gap, Released, AfterRelease

LEMMA SingleReceives ==
    ASSUME NEW s \in NodeState, NEW m \in Message, IsFiniteSet(s.buffer), m.seq >= s.expectedSeq,
           NEW leader,
           \A x \in s.buffer \union {m} : leader[x.seq] = x.value
    PROVE  /\ SingleReceive(s, m).sent = {}
           /\ \E k : Follows(s, SingleReceive(s, m).node, leader, s.buffer \union {m}, k)
<1>a. PICK H, e : H = s.buffer \union {m} /\ e = s.expectedSeq
  OBVIOUS
<1>1. H \in SUBSET Message /\ IsFiniteSet(H) /\ e \in Nat /\ s.log \in Seq(Value)
  BY <1>a, NodeFields, FS_AddElement
<1>2. PICK k : k = Gap(H, e)
  OBVIOUS
<1>3. /\ k \in Nat /\ e =< k /\ (\A x \in H : x.seq # k)
      /\ \A j \in e .. k - 1 : \E x \in H : x.seq = j
  BY <1>1, <1>2, GapIsFirst
<1>4. PICK released : released = Released(H, e, k)
  OBVIOUS
<1>5. ASSUME NEW i \in 1 .. k - e
      PROVE  released[i] \in Value /\ released[i] = leader[e + i - 1]
  <2>1. e + i - 1 \in e .. k - 1
    BY <1>1, <1>3
  <2>2. PICK x : x = CHOOSE y \in H : y.seq = e + i - 1
    OBVIOUS
  <2>3. x \in H /\ x.seq = e + i - 1
    BY <2>1, <2>2, <1>3
  <2>4. released[i] = x.value
    BY <1>4, <2>2 DEF Released
  <2>5. x.value \in Value
    BY <2>3, <1>1 DEF Message
  <2> QED
    BY <1>a, <2>3, <2>4, <2>5
<1>6. released \in Seq(Value) /\ Len(released) = k - e
  <2>1. k - e \in Nat
    BY <1>1, <1>3
  <2>2. released \in [1 .. k - e -> Value]
    BY <1>4, <1>5 DEF Released
  <2> QED
    BY <2>1, <2>2
<1>7. PICK t : t = SingleReceive(s, m).node
  OBVIOUS
<1>8. /\ SingleReceive(s, m).sent = {}
      /\ t = [s EXCEPT !.log = @ \o released, !.expectedSeq = k, !.buffer = {x \in H : x.seq >= k}]
  <2>1. ~(m.seq < e)
    BY <1>a, <1>1 DEF Message
  <2>2. ~(m.seq < s.expectedSeq)
    BY <1>a, <2>1
  <2>3. SingleReceive(s, m).sent = {} /\ t = AfterRelease(s, H, e, k)
    BY <2>2, <1>a, <1>2, <1>7, SingleReceiveReleases
  <2> QED
    BY <2>3, <1>4 DEF AfterRelease
<1>9. PICK log : log = s.log \o released
  OBVIOUS
<1>10. /\ log \in Seq(Value) /\ Len(log) = Len(s.log) + (k - e)
       /\ \A i \in 1 .. Len(s.log) : log[i] = s.log[i]
       /\ \A i \in 1 .. k - e : log[Len(s.log) + i] = released[i]
  <2>1. PICK a, l : a = s.log /\ l = k - e
    OBVIOUS
  <2>2. a \in Seq(Value) /\ released \in Seq(Value) /\ Len(released) = l /\ log = a \o released
    BY <2>1, <1>1, <1>6, <1>9
  <2>3. /\ log \in Seq(Value) /\ Len(log) = Len(a) + l
        /\ \A i \in 1 .. Len(a) : log[i] = a[i]
        /\ \A i \in 1 .. l : log[Len(a) + i] = released[i]
    <3>1. /\ a \o released \in Seq(Value) /\ Len(a \o released) = Len(a) + Len(released)
          /\ \A i \in 1 .. Len(a) + Len(released) :
                 (a \o released)[i] = IF i <= Len(a) THEN a[i] ELSE released[i - Len(a)]
      BY <2>2, ConcatProperties
    <3>2. /\ log \in Seq(Value) /\ Len(log) = Len(a) + l
          /\ \A i \in 1 .. Len(a) + l : log[i] = IF i <= Len(a) THEN a[i] ELSE released[i - Len(a)]
      BY <2>2, <3>1
    <3>3. Len(a) \in Nat /\ l \in Nat
      BY <2>2, LogIsSequence
    <3> QED
      BY <3>2, <3>3
  <2> QED
    BY <2>1, <2>3
<1>11. t \in NodeState /\ t.log = log /\ t.expectedSeq = k /\ t.buffer = {x \in H : x.seq >= k}
  BY <1>1, <1>3, <1>8, <1>9, <1>10 DEF NodeState
<1>12. k = e \/ \E x \in H : x.seq = k - 1
  BY <1>1, <1>3
<1>13. Follows(s, t, leader, H, k)
  BY <1>a, <1>3, <1>5, <1>10, <1>11, <1>12 DEF Follows
<1> QED
  BY <1>a, <1>7, <1>8, <1>13

(* The parts of NumbersFollowLeader. *)
LeaderHasSent ==
    /\ state[LeaderId].nextSeq = Len(Log(LeaderId)) + 1
    /\ \A i \in 1 .. Len(Log(LeaderId)) :
           ToPeers(LeaderId, Log(LeaderId)[i], i) \subseteq DOMAIN copies
MessagesAreNumbered ==
    \A m \in DOMAIN copies : /\ m.frm = LeaderId /\ m.seq \in 1 .. Len(Log(LeaderId))
                             /\ Log(LeaderId)[m.seq] = m.value
ArrivedIsHeld ==
    \A m \in DOMAIN copies :
        Arrived(m) => m.seq < state[m.to].expectedSeq \/ m \in state[m.to].buffer
Follower(n) ==
    /\ state[n].expectedSeq = Len(Log(n)) + 1
    /\ Len(Log(n)) =< Len(Log(LeaderId))
    /\ \A i \in 1 .. Len(Log(n)) : Log(n)[i] = Log(LeaderId)[i]
    /\ IsFiniteSet(state[n].buffer)
    /\ \A m \in state[n].buffer : m \in DOMAIN copies /\ m.to = n /\ m.seq > state[n].expectedSeq

LEMMA NumbersInParts ==
    ASSUME TypeOK
    PROVE  NumbersFollowLeader <=>
               (class = "NodeSingleLeader" =>
                    /\ LeaderHasSent /\ MessagesAreNumbered /\ ArrivedIsHeld
                    /\ \A n \in Node \ {LeaderId} : Follower(n))
<1>1. \A n \in Node : DOMAIN Log(n) = 1 .. Len(Log(n))
  BY LogsTyped, LogIsSequence
<1> QED
  BY <1>1, LeaderIsANode
     DEF NumbersFollowLeader, LeaderHasSent, MessagesAreNumbered, ArrivedIsHeld, Follower

LEMMA NumbersInPartsNext ==
    ASSUME TypeOK'
    PROVE  NumbersFollowLeader' <=>
               (class' = "NodeSingleLeader" =>
                    /\ LeaderHasSent' /\ MessagesAreNumbered' /\ ArrivedIsHeld'
                    /\ \A n \in Node \ {LeaderId} : Follower(n)')
<1>1. \A n \in Node : DOMAIN Log(n)' = 1 .. Len(Log(n)')
  <2> SUFFICES ASSUME NEW n \in Node PROVE Log(n)' \in Seq(Value)
    BY LogIsSequence
  <2> QED
    BY DEF TypeOK, Log
<1> QED
  BY <1>1, LeaderIsANode
     DEF NumbersFollowLeader, LeaderHasSent, MessagesAreNumbered, ArrivedIsHeld, Follower, ToPeers

(* The leader accepts a write. *)
Numbered(n) ==
    /\ class = "NodeSingleLeader" /\ n = LeaderId
    /\ issued \in Value /\ issued' = issued + 1
    /\ state'[n].log = Append(Log(n), issued) /\ state'[n].nextSeq = state[n].nextSeq + 1
    /\ Handled(n, ToPeers(n, issued, state[n].nextSeq), inFlight)

(* A client's write to another node is ignored. *)
Refused(n) ==
    /\ class = "NodeSingleLeader" /\ state'[n] = state[n]
    /\ Handled(n, {}, inFlight)

(* A copy of a message that was released before is ignored. *)
Late(n, c) ==
    /\ class = "NodeSingleLeader" /\ state'[n] = state[n]
    /\ c \in inFlight /\ c[1].to = n /\ c[1].seq < state[n].expectedSeq
    /\ Handled(n, {}, inFlight \ {c})

(* A copy is handled by a follower. *)
Followed(n, c, k) ==
    /\ class = "NodeSingleLeader"
    /\ c \in inFlight /\ c[1].to = n
    /\ Follows(state[n], state'[n], Log(LeaderId), state[n].buffer \union {c[1]}, k)
    /\ Handled(n, {}, inFlight \ {c})

LEMMA NumberingKeepsNumbers ==
    ASSUME TypeOK, TypeOK', NothingFromNowhere, NumbersFollowLeader, NEW n \in Node, Numbered(n)
    PROVE  NumbersFollowLeader'
<1>1. /\ LeaderHasSent /\ MessagesAreNumbered /\ ArrivedIsHeld
      /\ \A p \in Node \ {LeaderId} : Follower(p)
  BY NumbersInParts DEF Numbered
<1>2. PICK old, new, sent, q : /\ old = Log(LeaderId) /\ new = Log(LeaderId)'
                               /\ sent = ToPeers(LeaderId, issued, q) /\ q = state[LeaderId].nextSeq
  OBVIOUS
<1>3. /\ n = LeaderId /\ issued \in Value /\ Handled(n, sent, inFlight) /\ Takes(sent, inFlight)
      /\ state'[n].log = Append(old, issued) /\ state'[n].nextSeq = q + 1
  BY <1>2 DEF Numbered, Handled
<1>4. /\ old \in Seq(Value) /\ Len(old) \in Nat /\ q = Len(old) + 1 /\ q \in Nat
      /\ new = Append(old, issued)
  BY <1>1, <1>2, <1>3, NodesTyped, LogIsSequence DEF LeaderHasSent
<1>5. /\ Len(new) = q /\ new[q] = issued /\ \A i \in 1 .. Len(old) : new[i] = old[i]
      /\ \A i \in 1 .. q : i \in 1 .. Len(old) \/ i = q
  BY <1>3, <1>4, AppendedLog
<1>6. DOMAIN copies' = sent \union DOMAIN copies
  BY <1>3 DEF Takes
<1>7. \A p \in Node : p # LeaderId => state'[p] = state[p] /\ Log(p)' = Log(p) /\ Log(p) \in Seq(Value)
  BY <1>3, NodesTyped
<1>8. LeaderHasSent'
  <2>1. state'[LeaderId].nextSeq = Len(new) + 1
    BY <1>3, <1>5
  <2>2. \A i \in 1 .. Len(new) : ToPeers(LeaderId, new[i], i) \subseteq DOMAIN copies'
    <3>1. \A i \in 1 .. Len(old) : ToPeers(LeaderId, old[i], i) \subseteq DOMAIN copies
      BY <1>1, <1>2 DEF LeaderHasSent
    <3> QED
      BY <3>1, <1>2, <1>5, <1>6
  <2> QED
    BY <2>1, <2>2, <1>2 DEF LeaderHasSent, ToPeers
<1>9. MessagesAreNumbered'
  <2> SUFFICES ASSUME NEW m \in DOMAIN copies'
               PROVE  m.frm = LeaderId /\ m.seq \in 1 .. Len(new) /\ new[m.seq] = m.value
    BY <1>2 DEF MessagesAreNumbered
  <2>1. CASE m \in sent
    <3>1. m.value = issued /\ m.seq = q /\ m.frm = LeaderId
      BY <2>1, <1>2, <1>3, <1>4, PeersGetMessages
    <3> QED
      BY <3>1, <1>4, <1>5
  <2>2. CASE m \in DOMAIN copies
    <3>1. m.frm = LeaderId /\ m.seq \in 1 .. Len(old) /\ old[m.seq] = m.value
      BY <2>2, <1>1, <1>2 DEF MessagesAreNumbered
    <3> QED
      BY <3>1, <1>4, <1>5
  <2> QED
    BY <2>1, <2>2, <1>6
<1>10. ArrivedIsHeld'
  <2> SUFFICES ASSUME NEW m \in DOMAIN copies', Arrived(m)'
               PROVE  m.seq < state'[m.to].expectedSeq \/ m \in state'[m.to].buffer
    BY DEF ArrivedIsHeld
  <2>1. m \in DOMAIN copies /\ Arrived(m)
    BY <1>3, ArrivedNow
  <2>2. m.to \in Node /\ m.to # LeaderId
    BY <2>1, <1>1, StateTyped DEF MessagesAreNumbered, Message
  <2> QED
    BY <2>1, <2>2, <1>1, <1>7 DEF ArrivedIsHeld
<1>11. ASSUME NEW p \in Node \ {LeaderId} PROVE Follower(p)'
  <2>1. Follower(p) /\ state'[p] = state[p] /\ Log(p)' = Log(p) /\ Len(Log(p)) \in Nat
    BY <1>1, <1>7, LogIsSequence
  <2>2. Len(Log(p)) =< Len(new) /\ \A i \in 1 .. Len(Log(p)) : Log(p)[i] = new[i]
    <3>1. Len(Log(p)) =< Len(old) /\ \A i \in 1 .. Len(Log(p)) : Log(p)[i] = old[i]
      BY <2>1, <1>2 DEF Follower
    <3>2. \A i \in 1 .. Len(Log(p)) : i \in 1 .. Len(old)
      BY <2>1, <3>1, <1>4
    <3> QED
      BY <2>1, <3>1, <3>2, <1>4, <1>5
  <2>3. IsFiniteSet(state'[p].buffer)
    BY <2>1 DEF Follower
  <2>4. \A m \in state'[p].buffer : m \in DOMAIN copies' /\ m.to = p /\ m.seq > state'[p].expectedSeq
    BY <2>1, <1>6 DEF Follower
  <2>5. state'[p].expectedSeq = Len(Log(p)') + 1
    BY <2>1 DEF Follower
  <2> QED
    BY <2>1, <2>2, <2>3, <2>4, <2>5, <1>2 DEF Follower
<1> QED
  BY <1>8, <1>9, <1>10, <1>11, NumbersInPartsNext

LEMMA IgnoringKeepsNumbers ==
    ASSUME TypeOK, TypeOK', NumbersFollowLeader, NEW n \in Node,
           Refused(n) \/ \E c : Late(n, c)
    PROVE  NumbersFollowLeader'
<1>1. /\ LeaderHasSent /\ MessagesAreNumbered /\ ArrivedIsHeld
      /\ \A p \in Node \ {LeaderId} : Follower(p)
  BY NumbersInParts DEF Refused, Late
<1>2. PICK rest : /\ Handled(n, {}, rest) /\ state'[n] = state[n]
                  /\ \A c \in inFlight \ rest : c[1].to = n /\ c[1].seq < state[n].expectedSeq
  <2>1. CASE Refused(n)
    BY <2>1 DEF Refused
  <2>2. CASE \E c : Late(n, c)
    <3>1. PICK c : Late(n, c)
      BY <2>2
    <3>2. \A d \in inFlight \ (inFlight \ {c}) : d = c
      OBVIOUS
    <3>3. /\ Handled(n, {}, inFlight \ {c}) /\ state'[n] = state[n]
          /\ c[1].to = n /\ c[1].seq < state[n].expectedSeq
      BY <3>1 DEF Late
    <3> QED
      BY <3>2, <3>3
  <2> QED
    BY <2>1, <2>2
<1>3. DOMAIN copies' = DOMAIN copies
  BY <1>2 DEF Handled, Takes
<1>4. \A p \in Node : state'[p] = state[p] /\ Log(p)' = Log(p)
  BY <1>2, NodesTyped DEF Log
<1>5. LeaderHasSent' /\ MessagesAreNumbered'
  BY <1>1, <1>3, <1>4, LeaderIsANode DEF LeaderHasSent, MessagesAreNumbered, ToPeers
<1>6. ArrivedIsHeld'
  <2> SUFFICES ASSUME NEW m \in DOMAIN copies', Arrived(m)'
               PROVE  m.seq < state'[m.to].expectedSeq \/ m \in state'[m.to].buffer
    BY DEF ArrivedIsHeld
  <2>1. m \in DOMAIN copies /\ (Arrived(m) \/ \E c \in inFlight \ rest : c[1] = m)
    BY <1>2, ArrivedNow
  <2>2. m.to \in Node
    BY <2>1, StateTyped DEF Message
  <2> QED
    BY <2>1, <2>2, <1>1, <1>2, <1>4 DEF ArrivedIsHeld
<1>7. ASSUME NEW p \in Node \ {LeaderId} PROVE Follower(p)'
  <2>1. Follower(p)
    BY <1>1
  <2> QED
    BY <2>1, <1>3, <1>4, LeaderIsANode DEF Follower
<1> QED
  BY <1>5, <1>6, <1>7, NumbersInPartsNext

LEMMA FollowingKeepsNumbers ==
    ASSUME TypeOK, TypeOK', NumbersFollowLeader, NEW n \in Node, NEW c, NEW k, Followed(n, c, k)
    PROVE  NumbersFollowLeader'
<1>1. /\ LeaderHasSent /\ MessagesAreNumbered /\ ArrivedIsHeld
      /\ \A p \in Node \ {LeaderId} : Follower(p)
  BY NumbersInParts DEF Followed
<1>2. /\ c \in inFlight /\ c[1].to = n /\ Handled(n, {}, inFlight \ {c})
      /\ Follows(state[n], state'[n], Log(LeaderId), state[n].buffer \union {c[1]}, k)
  BY DEF Followed
<1>3. n \in Node \ {LeaderId} /\ c[1] \in DOMAIN copies
  BY <1>1, <1>2, CopyFields DEF MessagesAreNumbered
<1>4. DOMAIN copies' = DOMAIN copies
  BY <1>2 DEF Handled, Takes
<1>5. \A p \in Node : p # n => state'[p] = state[p] /\ Log(p)' = Log(p)
  BY <1>2, NodesTyped
<1>6. PICK s, t, leader, held : /\ s = state[n] /\ t = state'[n] /\ leader = Log(LeaderId)
                                /\ held = state[n].buffer \union {c[1]}
  OBVIOUS
<1>7. Log(LeaderId)' = leader /\ leader \in Seq(Value) /\ Len(leader) \in Nat /\ LeaderId # n
  BY <1>3, <1>5, <1>6, LeaderIsANode, LogsTyped, LogIsSequence
<1>8. LeaderHasSent' /\ MessagesAreNumbered'
  BY <1>1, <1>3, <1>4, <1>5, LeaderIsANode DEF LeaderHasSent, MessagesAreNumbered, ToPeers
<1>9. Follows(s, t, leader, held, k) /\ k \in Nat /\ t.expectedSeq = k /\ t.buffer = {x \in held : x.seq >= k}
  BY <1>2, <1>6 DEF Follows
<1>10. \A x \in held : x \in DOMAIN copies /\ x.to = n /\ x.seq \in 1 .. Len(leader)
  BY <1>1, <1>2, <1>3, <1>6 DEF Follower, MessagesAreNumbered
<1>11. /\ s.log \in Seq(Value) /\ Len(s.log) \in Nat /\ s.expectedSeq = Len(s.log) + 1
       /\ Len(s.log) =< Len(leader) /\ \A i \in 1 .. Len(s.log) : s.log[i] = leader[i]
       /\ IsFiniteSet(s.buffer) /\ s.log = Log(n)
  BY <1>1, <1>3, <1>6, LogsTyped, LogIsSequence DEF Follower
<1>12. ArrivedIsHeld'
  <2> SUFFICES ASSUME NEW m \in DOMAIN copies', Arrived(m)'
               PROVE  m.seq < state'[m.to].expectedSeq \/ m \in state'[m.to].buffer
    BY DEF ArrivedIsHeld
  <2>1. m \in DOMAIN copies /\ (Arrived(m) \/ m = c[1])
    BY <1>2, ArrivedNow
  <2>2. m.to \in Node /\ m.seq \in Nat
    BY <2>1, StateTyped DEF Message
  <2>3. CASE m.to # n
    BY <2>1, <2>2, <2>3, <1>1, <1>2, <1>5 DEF ArrivedIsHeld
  <2>4. CASE m.to = n
    <3>1. m.seq < s.expectedSeq \/ m \in held
      BY <2>1, <2>4, <1>1, <1>6 DEF ArrivedIsHeld
    <3>2. s.expectedSeq =< k
      BY <1>9 DEF Follows
    <3>3. m.seq < k \/ m \in t.buffer
      BY <3>1, <3>2, <2>2, <1>9, <1>11
    <3> QED
      BY <3>3, <2>4, <1>6, <1>9
  <2> QED
    BY <2>3, <2>4
<1>13. Follower(n)'
  <2>1. PICK log : log = t.log
    OBVIOUS
  <2>2. Log(n)' = log /\ Len(log) = k - 1
    <3>1. Len(t.log) = Len(s.log) + (k - s.expectedSeq)
      BY <1>9 DEF Follows
    <3> QED
      BY <3>1, <2>1, <1>6, <1>9, <1>11 DEF Log
  <2>3. k - 1 =< Len(leader)
    <3>1. k = s.expectedSeq \/ \E x \in held : x.seq = k - 1
      BY <1>9 DEF Follows
    <3> QED
      BY <3>1, <1>7, <1>9, <1>10, <1>11
  <2>4. ASSUME NEW i \in 1 .. k - 1 PROVE log[i] = leader[i]
    <3>1. CASE i \in 1 .. Len(s.log)
      BY <3>1, <2>1, <1>9, <1>11 DEF Follows
    <3>2. CASE i \notin 1 .. Len(s.log)
      <4>1. PICK j : j = i - Len(s.log)
        OBVIOUS
      <4>2. j \in 1 .. k - s.expectedSeq /\ Len(s.log) + j = i /\ s.expectedSeq + j - 1 = i
        BY <4>1, <3>2, <1>9, <1>11
      <4>3. log[Len(s.log) + j] = leader[s.expectedSeq + j - 1]
        BY <4>2, <2>1, <1>9 DEF Follows
      <4> QED
        BY <4>2, <4>3
    <3> QED
      BY <3>1, <3>2
  <2>5. IsFiniteSet(t.buffer)
    <3>1. IsFiniteSet(held)
      BY <1>6, <1>11, FS_AddElement
    <3>2. t.buffer \in SUBSET held
      BY <1>9
    <3> QED
      BY <3>1, <3>2, FS_Subset
  <2>6. \A m \in t.buffer : m \in DOMAIN copies' /\ m.to = n /\ m.seq > k
    <3>1. \A x \in held : x.seq # k
      BY <1>9 DEF Follows
    <3> QED
      BY <3>1, <1>4, <1>7, <1>9, <1>10
  <2> QED
    BY <2>2, <2>3, <2>4, <2>5, <2>6, <1>6, <1>7, <1>9 DEF Follower
<1>14. ASSUME NEW p \in Node \ {LeaderId} PROVE Follower(p)'
  <2>1. CASE p = n
    BY <2>1, <1>13
  <2>2. CASE p # n
    <3>1. Follower(p) /\ state'[p] = state[p] /\ Log(p)' = Log(p) /\ Log(LeaderId)' = Log(LeaderId)
      BY <2>2, <1>1, <1>5, <1>6, <1>7
    <3> QED
      BY <3>1, <1>4 DEF Follower
  <2> QED
    BY <2>1, <2>2
<1> QED
  BY <1>8, <1>12, <1>14, NumbersInPartsNext

-----------------------------------------------------------------------------
(* The handlers, and the invariant. *)

(* What surrounds a handler: rest are the copies left in flight, and run may have issued a *)
(* write.                                                                                  *)
Around(rest) ==
    /\ rest \subseteq inFlight
    /\ issued' \in 0 .. NumMessages[class] /\ (issued' = issued \/ issued' = issued + 1)
    /\ UNCHANGED <<class, spaced, values>>
    /\ values = None

(* A handler that makes the node s of n, with a log that has grown, and sends new messages. *)
Grows(n, s, sent) ==
    /\ s \in NodeState /\ IsFiniteSet(sent)
    /\ Len(Log(n)) =< Len(s.log) /\ \A i \in 1 .. Len(Log(n)) : s.log[i] = Log(n)[i]
    /\ \A v \in Range(s.log) : v < issued'
    /\ \A m \in sent : /\ m \in Message /\ m.frm = n /\ m.to # n
                        /\ m.value \in Range(s.log) /\ m \notin DOMAIN copies

LEMMA HandlingHappens ==
    ASSUME Inv, NEW n \in Node, NEW outcome, NEW rest, Handle(n, outcome, rest), Around(rest),
           Grows(n, outcome.node, outcome.sent)
    PROVE  state'[n] = outcome.node /\ Handled(n, outcome.sent, rest)
<1>a. PICK s, sent : s = outcome.node /\ sent = outcome.sent
  OBVIOUS
<1>b. Grows(n, s, sent) /\ s \in NodeState /\ IsFiniteSet(sent) /\ \A m \in sent : m \notin DOMAIN copies
  BY <1>a DEF Grows
<1>1. TypeOK /\ state' = [state EXCEPT ![n] = s] /\ Send(sent, rest) /\ Snapshot(n, s)
  BY <1>a DEF Inv, Handle
<1>2. state'[n] = s /\ state' \in [Node -> NodeState] /\ \A p \in Node \ {n} : state'[p] = state[p]
  BY <1>1, <1>b, StateTyped
<1>3. Takes(sent, rest)
  <2>1. sent \intersect DOMAIN copies = {}
    BY <1>b
  <2>2. faults \in Nat /\ MaxFaults[class] \in Nat
    BY <1>1, StateTyped
  <2> QED
    BY <1>1, <1>b, <2>1, <2>2, SendTakes
<1>4. Snapshot(n, state'[n])
  BY <1>1, <1>2, Zenon
<1>5. Handled(n, sent, rest)
  BY <1>b, <1>2, <1>3, <1>4 DEF Handled, Grows, Around
<1> QED
  BY <1>a, <1>2, <1>5

LEMMA LogStaysBelow ==
    ASSUME TypeOK, NothingFromNowhere, NEW n \in Node, issued' = issued \/ issued' = issued + 1
    PROVE  \A v \in Range(state[n].log) : v \in Nat /\ v < issued'
<1>1. state[n].log \in Seq(Value) /\ issued \in Nat /\ state[n].log = Log(n)
  BY LogsTyped, StateTyped
<1>2. \A v \in Range(Log(n)) : v \in Nat /\ v < issued
  BY <1>1, LogIsSequence, ValuesAreNatural DEF NothingFromNowhere
<1> QED
  BY <1>1, <1>2

(* A handler that applies v, and may send it to all peers if it is new to n. *)
Writes(n, outcome, v, q) ==
    /\ v \in Value /\ v < issued' /\ q \in Nat
    /\ outcome.node \in NodeState /\ outcome.node.log = Append(Log(n), v)
    /\ outcome.sent = {} \/ (outcome.sent = ToPeers(n, v, q) /\ v \notin Range(Log(n)))

LEMMA WritingHandles ==
    ASSUME Inv, NEW n \in Node, NEW outcome, NEW rest, Handle(n, outcome, rest), Around(rest),
           NEW v, NEW q, Writes(n, outcome, v, q)
    PROVE  state'[n] = outcome.node /\ Handled(n, outcome.sent, rest)
<1>a. PICK s, sent : s = outcome.node /\ sent = outcome.sent
  OBVIOUS
<1>b. /\ v \in Value /\ v < issued' /\ q \in Nat /\ s \in NodeState /\ s.log = Append(Log(n), v)
      /\ sent = {} \/ (sent = ToPeers(n, v, q) /\ v \notin Range(Log(n)))
  BY <1>a DEF Writes
<1>1. /\ TypeOK /\ NothingFromNowhere /\ Log(n) \in Seq(Value) /\ Len(Log(n)) \in Nat
      /\ Log(n) = state[n].log
  BY LogsTyped, LogIsSequence DEF Inv
<1>2. /\ Len(Log(n)) =< Len(s.log) /\ \A i \in 1 .. Len(Log(n)) : s.log[i] = Log(n)[i]
      /\ Range(s.log) = Range(Log(n)) \union {v}
  BY <1>1, <1>b, AppendedLog
<1>3. \A w \in Range(s.log) : w < issued'
  <2>1. issued' = issued \/ issued' = issued + 1
    BY DEF Around
  <2>2. \A w \in Range(Log(n)) : w < issued'
    BY <2>1, <1>1, LogStaysBelow
  <2> QED
    BY <2>2, <1>2, <1>b
<1>4. IsFiniteSet(sent)
  <2>1. IsFiniteSet({})
    BY FS_EmptySet
  <2>2. IsFiniteSet(ToPeers(n, v, q))
    BY <1>b, PeersGetMessages
  <2> QED
    BY <2>1, <2>2, <1>b
<1>5. \A m \in sent : /\ m \in Message /\ m.frm = n /\ m.to # n
                      /\ m.value \in Range(s.log) /\ m \notin DOMAIN copies
  BY <1>1, <1>2, <1>b, PeersGetMessages DEF NothingFromNowhere
<1>6. Grows(n, s, sent)
  BY <1>b, <1>2, <1>3, <1>4, <1>5 DEF Grows
<1> QED
  BY <1>a, <1>6, HandlingHappens

(* A handler that does nothing. *)
LEMMA DoingNothingHandles ==
    ASSUME Inv, NEW n \in Node, NEW outcome, NEW rest, Handle(n, outcome, rest), Around(rest),
           outcome.node = state[n], outcome.sent = {}
    PROVE  state'[n] = state[n] /\ Handled(n, {}, rest)
<1>1. TypeOK /\ NothingFromNowhere /\ state[n] \in NodeState /\ Log(n) = state[n].log
  BY StateTyped DEF Inv, Log
<1>2. Len(Log(n)) =< Len(state[n].log)
  BY <1>1, LogsTyped, LogIsSequence
<1>3. \A v \in Range(state[n].log) : v < issued'
  BY <1>1, LogStaysBelow DEF Around
<1>4. IsFiniteSet({})
  BY FS_EmptySet
<1>5. Grows(n, state[n], {})
  BY <1>1, <1>2, <1>3, <1>4 DEF Grows
<1>6. Grows(n, outcome.node, outcome.sent)
  BY <1>5, Zenon
<1> QED
  BY <1>6, HandlingHappens

LEMMA PutOutcomes ==
    ASSUME Inv, ClientPut
    PROVE  \E n \in Node : Accepted(n) \/ Numbered(n) \/ Refused(n)
<1>1. /\ values = None /\ issued < NumMessages[class] /\ (spaced => inFlight = {})
      /\ issued' = issued + 1 /\ UNCHANGED <<class, spaced, values>>
  BY DEF ClientPut
<1>2. PICK n \in Node : Handle(n, Put(n, issued), inFlight)
  BY DEF ClientPut
<1>3. TypeOK /\ NothingFromNowhere /\ SeenIsApplied /\ NumbersFollowLeader
  BY DEF Inv
<1>4. /\ issued \in Nat /\ issued \in Value /\ issued' \in 0 .. NumMessages[class] /\ issued < issued'
      /\ values = None /\ class \in Class
  BY <1>1, <1>3, StateTyped, WritesAreValues
<1>a. Around(inFlight)
  BY <1>1, <1>4 DEF Around
<1>5. /\ state[n] \in NodeState /\ state[n].log = Log(n) /\ Log(n) \in Seq(Value)
      /\ Append(Log(n), issued) \in Seq(Value) /\ issued \notin Range(Log(n))
  BY <1>3, <1>4, StateTyped, LogsTyped, AppendedLog, WriteIsNew
<1>6. PICK outcome : outcome = Put(n, issued)
  OBVIOUS
<1>7. CASE class = "NodeMultiLeader"
  <2>1. outcome = [node |-> Apply(state[n], issued), sent |-> ToPeers(n, issued, 0)]
    BY <1>6, <1>7 DEF Put, MultiPut
  <2>2. PICK s : s = Apply(state[n], issued)
    OBVIOUS
  <2>3. s \in NodeState /\ s.log = Append(Log(n), issued)
    BY <2>2, <1>5 DEF Apply, NodeState
  <2>4. state'[n] = s /\ Handled(n, ToPeers(n, issued, 0), inFlight)
    <3>1. Writes(n, outcome, issued, 0)
      BY <2>1, <2>2, <2>3, <1>4, <1>5 DEF Writes
    <3> QED
      BY <3>1, <2>1, <2>2, <1>2, <1>6, <1>a, WritingHandles
  <2> QED
    BY <2>3, <2>4, <1>1, <1>4, <1>7 DEF Accepted
<1>8. CASE class = "NodeEagerBroadcast"
  <2>1. issued \notin state[n].seen
    BY <1>3, <1>5, <1>8 DEF SeenIsApplied
  <2>2. PICK s : s = [Apply(state[n], issued) EXCEPT !.seen = @ \union {issued}]
    OBVIOUS
  <2>3. outcome = [node |-> s, sent |-> ToPeers(n, issued, 0)]
    BY <2>1, <2>2, <1>6, <1>8 DEF Put, EagerReceive
  <2>4. s \in NodeState /\ s.log = Append(Log(n), issued) /\ s.seen = state[n].seen \union {issued}
    BY <2>2, <1>4, <1>5 DEF Apply, NodeState
  <2>5. state'[n] = s /\ Handled(n, ToPeers(n, issued, 0), inFlight)
    <3>1. Writes(n, outcome, issued, 0)
      BY <2>3, <2>4, <1>4, <1>5 DEF Writes
    <3> QED
      BY <3>1, <2>3, <1>2, <1>6, <1>a, WritingHandles
  <2> QED
    BY <2>4, <2>5, <1>1, <1>4, <1>8 DEF Accepted
<1>9. CASE class = "NodeSingleLeader" /\ n # LeaderId
  <2>1. outcome = [node |-> state[n], sent |-> {}]
    BY <1>6, <1>9 DEF Put, SinglePut
  <2>2. state'[n] = state[n] /\ Handled(n, {}, inFlight)
    BY <2>1, <1>2, <1>6, <1>a, DoingNothingHandles
  <2> QED
    BY <2>2, <1>9 DEF Refused
<1>10. CASE class = "NodeSingleLeader" /\ n = LeaderId
  <2>1. PICK s, q : /\ s = [Apply(state[n], issued) EXCEPT !.nextSeq = @ + 1] /\ q = state[n].nextSeq
    OBVIOUS
  <2>2. outcome = [node |-> s, sent |-> ToPeers(n, issued, q)]
    BY <2>1, <1>6, <1>10 DEF Put, SinglePut
  <2>3. s \in NodeState /\ s.log = Append(Log(n), issued) /\ s.nextSeq = q + 1 /\ q \in Nat
    <3>1. q \in Nat
      BY <2>1, <1>5, NodeFields
    <3>2. state[n].nextSeq + 1 \in Nat
      BY <2>1, <3>1
    <3> QED
      BY <2>1, <3>1, <3>2, <1>5 DEF Apply, NodeState
  <2>4. state'[n] = s /\ Handled(n, ToPeers(n, issued, q), inFlight)
    <3>1. Writes(n, outcome, issued, q)
      BY <2>2, <2>3, <1>4, <1>5 DEF Writes
    <3> QED
      BY <3>1, <2>2, <1>2, <1>6, <1>a, WritingHandles
  <2> QED
    BY <2>1, <2>3, <2>4, <1>1, <1>4, <1>10 DEF Numbered
<1> QED
  BY <1>3, <1>7, <1>8, <1>9, <1>10, TwoClasses

LEMMA DeliveryOutcomes ==
    ASSUME Inv, Deliver
    PROVE  \E n \in Node : \E c : \/ \E sent : Applied(n, c, sent)
                                  \/ Ignored(n, c) \/ Late(n, c)
                                  \/ \E k : Followed(n, c, k)
<1>1. values = None /\ issued' = issued /\ UNCHANGED <<class, spaced, values>>
  BY DEF Deliver
<1>2. PICK c \in inFlight : Handle(c[1].to, OnMessage(c[1]), inFlight \ {c})
  BY DEF Deliver
<1>3. TypeOK /\ NothingFromNowhere /\ SeenIsApplied /\ NumbersFollowLeader
  BY DEF Inv
<1>4. PICK n, m, v, rest : n = c[1].to /\ m = c[1] /\ v = c[1].value /\ rest = inFlight \ {c}
  OBVIOUS
<1>5. /\ n \in Node /\ m \in DOMAIN copies /\ m \in Message /\ v \in Value /\ m.frm # n
      /\ rest \subseteq inFlight /\ values = None /\ m.frm \in Node /\ m.to = n /\ m.value = v
  BY <1>1, <1>3, <1>4, CopyFields
<1>6. issued \in Nat /\ issued' \in 0 .. NumMessages[class] /\ v < issued'
  BY <1>1, <1>3, <1>5, StateTyped DEF NothingFromNowhere
<1>a. Around(rest)
  BY <1>1, <1>5, <1>6 DEF Around
<1>7. /\ state[n] \in NodeState /\ state[n].log = Log(n) /\ Log(n) \in Seq(Value)
      /\ Append(Log(n), v) \in Seq(Value)
  BY <1>3, <1>5, StateTyped, LogsTyped, AppendedLog
<1>8. PICK outcome : outcome = OnMessage(m) /\ Handle(n, outcome, rest)
  BY <1>2, <1>4
<1>9. CASE class = "NodeMultiLeader"
  <2>1. PICK s : s = Apply(state[n], v)
    OBVIOUS
  <2>2. outcome = [node |-> s, sent |-> {}]
    BY <2>1, <1>5, <1>8, <1>9 DEF OnMessage, MultiReceive
  <2>3. s \in NodeState /\ s.log = Append(Log(n), v)
    BY <2>1, <1>7 DEF Apply, NodeState
  <2>4. state'[n] = s /\ Handled(n, {}, rest)
    <3>1. Writes(n, outcome, v, 0)
      BY <2>2, <2>3, <1>5, <1>6 DEF Writes
    <3> QED
      BY <3>1, <2>2, <1>5, <1>8, <1>a, WritingHandles
  <2>5. Applied(n, c, {})
    BY <2>3, <2>4, <1>1, <1>4, <1>9 DEF Applied
  <2> QED
    BY <2>5, <1>5
<1>10. CASE class = "NodeEagerBroadcast" /\ v \in state[n].seen
  <2>1. outcome = [node |-> state[n], sent |-> {}]
    BY <1>5, <1>8, <1>10 DEF OnMessage, EagerReceive
  <2>2. state'[n] = state[n] /\ Handled(n, {}, rest)
    BY <2>1, <1>5, <1>8, <1>a, DoingNothingHandles
  <2>3. Ignored(n, c)
    BY <2>2, <1>1, <1>4, <1>10 DEF Ignored
  <2> QED
    BY <2>3, <1>5
<1>11. CASE class = "NodeEagerBroadcast" /\ v \notin state[n].seen
  <2>1. PICK s : s = [Apply(state[n], v) EXCEPT !.seen = @ \union {v}]
    OBVIOUS
  <2>2. outcome = [node |-> s, sent |-> ToPeers(n, v, 0)]
    BY <2>1, <1>5, <1>8, <1>11 DEF OnMessage, EagerReceive
  <2>3. s \in NodeState /\ s.log = Append(Log(n), v) /\ s.seen = state[n].seen \union {v}
    BY <2>1, <1>5, <1>7 DEF Apply, NodeState
  <2>4. v \notin Range(Log(n))
    BY <1>3, <1>5, <1>11 DEF SeenIsApplied
  <2>5. state'[n] = s /\ Handled(n, ToPeers(n, v, 0), rest)
    <3>1. Writes(n, outcome, v, 0)
      BY <2>2, <2>3, <2>4, <1>5, <1>6 DEF Writes
    <3> QED
      BY <3>1, <2>2, <1>5, <1>8, <1>a, WritingHandles
  <2>6. Applied(n, c, ToPeers(n, v, 0))
    BY <2>3, <2>5, <1>1, <1>4, <1>11 DEF Applied
  <2> QED
    BY <2>6, <1>5
<1>12. CASE class = "NodeSingleLeader" /\ m.seq < state[n].expectedSeq
  <2>1. outcome.node = state[n] /\ outcome.sent = {}
    BY <1>5, <1>8, <1>12 DEF OnMessage, SingleReceive
  <2>2. state'[n] = state[n] /\ Handled(n, {}, rest)
    BY <2>1, <1>5, <1>8, <1>a, DoingNothingHandles
  <2>3. Late(n, c)
    BY <2>2, <1>4, <1>12 DEF Late
  <2> QED
    BY <2>3, <1>5
<1>13. CASE class = "NodeSingleLeader" /\ ~(m.seq < state[n].expectedSeq)
  <2>1. /\ LeaderHasSent /\ MessagesAreNumbered /\ ArrivedIsHeld
        /\ \A p \in Node \ {LeaderId} : Follower(p)
    BY <1>3, <1>13, NumbersInParts
  <2>2. n \in Node \ {LeaderId}
    BY <2>1, <1>5 DEF MessagesAreNumbered
  <2>3. outcome = SingleReceive(state[n], m)
    BY <1>5, <1>8, <1>13 DEF OnMessage
  <2>4. PICK leader, held, s : /\ leader = Log(LeaderId) /\ held = state[n].buffer \union {m}
                               /\ s = outcome.node
    OBVIOUS
  <2>5. \A x \in held : x \in DOMAIN copies
    BY <2>1, <2>2, <2>4, <1>5 DEF Follower
  <2>6. /\ leader \in Seq(Value) /\ Len(leader) \in Nat /\ IsFiniteSet(state[n].buffer)
        /\ state[n].expectedSeq = Len(Log(n)) + 1 /\ Len(Log(n)) \in Nat /\ m.seq \in Nat
    BY <2>1, <2>2, <2>4, <1>3, <1>5, <1>7, LogsTyped, LogIsSequence, LeaderIsANode DEF Follower, Message
  <2>7. \A x \in held : leader[x.seq] = x.value /\ x.seq \in 1 .. Len(leader)
    BY <2>1, <2>4, <2>5 DEF MessagesAreNumbered
  <2>8. m.seq >= state[n].expectedSeq
    BY <2>6, <1>13
  <2>9. outcome.sent = {} /\ \E k : Follows(state[n], s, leader, held, k)
    <3>1. \A x \in state[n].buffer \union {m} : leader[x.seq] = x.value
      BY <2>4, <2>7
    <3>2. /\ SingleReceive(state[n], m).sent = {}
          /\ \E k : Follows(state[n], SingleReceive(state[n], m).node, leader,
                           state[n].buffer \union {m}, k)
      BY <3>1, <2>6, <2>8, <1>5, <1>7, SingleReceives
    <3> QED
      BY <3>2, <2>3, <2>4, Zenon
  <2>10. PICK k : Follows(state[n], s, leader, held, k)
    BY <2>9
  <2>11. /\ k \in Nat /\ state[n].expectedSeq =< k /\ s \in NodeState
         /\ Len(s.log) = Len(Log(n)) + (k - state[n].expectedSeq)
         /\ \A i \in 1 .. Len(Log(n)) : s.log[i] = Log(n)[i]
         /\ \A i \in 1 .. k - state[n].expectedSeq :
                s.log[Len(Log(n)) + i] = leader[state[n].expectedSeq + i - 1]
         /\ k = state[n].expectedSeq \/ \E x \in held : x.seq = k - 1
    BY <2>10, <1>7 DEF Follows
  <2>12. Len(Log(n)) =< Len(s.log)
    BY <2>6, <2>11
  <2>13. \A w \in Range(s.log) : w < issued'
    <3>1. \A w \in Range(leader) : w < issued
      BY <2>4, <1>3, LeaderIsANode DEF NothingFromNowhere
    <3> SUFFICES ASSUME NEW i \in 1 .. Len(s.log) PROVE s.log[i] < issued'
      BY <2>11, NodeFields, LogIsSequence
    <3>2. CASE i \in 1 .. Len(Log(n))
      <4>1. Log(n)[i] \in Range(Log(n))
        BY <3>2, <1>7, LogIsSequence
      <4> QED
        BY <4>1, <3>2, <2>11, <1>1, <1>3, <1>5 DEF NothingFromNowhere
    <3>3. CASE i \notin 1 .. Len(Log(n))
      <4>1. PICK j : j = i - Len(Log(n))
        OBVIOUS
      <4>2. /\ j \in 1 .. k - state[n].expectedSeq /\ Len(Log(n)) + j = i
            /\ state[n].expectedSeq + j - 1 = i
        BY <4>1, <3>3, <2>6, <2>11
      <4>3. s.log[i] = leader[i]
        BY <4>2, <2>11
      <4>4. i \in 1 .. Len(leader)
        <5>1. Len(s.log) = k - 1
          BY <2>6, <2>11
        <5>2. k # state[n].expectedSeq
          BY <4>2, <2>6, <2>11
        <5> QED
          BY <5>1, <5>2, <2>6, <2>7, <2>11
      <4>5. leader[i] \in Range(leader)
        BY <4>4, <2>6, LogIsSequence
      <4> QED
        BY <4>3, <4>5, <3>1, <1>1
    <3> QED
      BY <3>2, <3>3
  <2>14. state'[n] = s /\ Handled(n, {}, rest)
    <3>1. IsFiniteSet({})
      BY FS_EmptySet
    <3>2. Grows(n, s, {})
      BY <3>1, <2>11, <2>12, <2>13 DEF Grows
    <3>3. Grows(n, outcome.node, outcome.sent)
      BY <3>2, <2>4, <2>9, Zenon
    <3> QED
      BY <3>3, <2>4, <2>9, <1>5, <1>8, <1>a, HandlingHappens
  <2>15. Followed(n, c, k)
    BY <2>4, <2>10, <2>14, <1>4, <1>13 DEF Followed
  <2> QED
    BY <2>15, <1>5
<1> QED
  BY <1>3, <1>9, <1>10, <1>11, <1>12, <1>13, TwoClasses

LEMMA Initially ==
    Init => Inv
<1> SUFFICES ASSUME Init PROVE Inv
  OBVIOUS
<1> USE DEF Init
<1>1. /\ class \in Class /\ issued = 0 /\ inFlight = {} /\ DOMAIN copies = {} /\ values = None
      /\ \A n \in Node : /\ state[n] \in NodeState /\ Log(n) = <<>> /\ state[n].log = <<>>
                         /\ state[n].seen = {} /\ state[n].nextSeq = 1
                         /\ state[n].expectedSeq = 1 /\ state[n].buffer = {}
                         /\ lastState[n] = None /\ shown[n] = <<>>
  BY DEF Log, NodeState
<1>2. Range(<<>>) = {} /\ Len(<<>>) = 0 /\ <<>> \in Seq(Value) /\ IsFiniteSet({})
  BY FS_EmptySet DEF Range
<1>3. NumMessages[class] \in Nat /\ MaxFaults[class] \in Nat
  BY <1>1, WritesAreValues
<1> HIDE DEF Init
<1>4. TypeOK
  BY <1>1, <1>2, <1>3 DEF TypeOK, Init
<1>5. NothingFromNowhere
  BY <1>1, <1>2 DEF NothingFromNowhere
<1>6. ArrivedIsApplied /\ LastWriteIsLast /\ OneSender /\ AppliedPerCopy /\ SeenIsApplied
  <2>1. 0 .. issued - 1 = {}
    BY <1>1
  <2>2. \A n \in Node : Range(Log(n)) = {}
    BY <1>1, <1>2
  <2> QED
    BY <2>1, <2>2, <1>1
       DEF ArrivedIsApplied, LastWriteIsLast, OneSender, AppliedPerCopy, SeenIsApplied
<1>7. NumbersFollowLeader
  <2>1. Len(Log(LeaderId)) = 0 /\ 1 .. 0 = {}
    BY <1>1, <1>2, LeaderIsANode
  <2>2. LeaderHasSent /\ MessagesAreNumbered /\ ArrivedIsHeld
    BY <2>1, <1>1, LeaderIsANode DEF LeaderHasSent, MessagesAreNumbered, ArrivedIsHeld
  <2>3. ASSUME NEW n \in Node PROVE Follower(n)
    <3>1. Len(Log(n)) = 0 /\ state[n].expectedSeq = 1 /\ state[n].buffer = {}
      BY <1>1, <1>2
    <3>2. IsFiniteSet(state[n].buffer)
      BY <3>1, <1>2
    <3> QED
      BY <2>1, <3>1, <3>2 DEF Follower
  <2> QED
    BY <2>2, <2>3, <1>4, NumbersInParts
<1>8. ValuesAreFinal
  BY <1>1 DEF ValuesAreFinal
<1>9. TraceIsCurrent
  BY <1>1 DEF TraceIsCurrent, Store
<1>10. TraceTellsState
  <2>2. Told(<<>>, <<>>)
    <3>1. PICK e : e = <<>>
      OBVIOUS
    <3>2. DOMAIN e = {}
      BY <3>1
    <3>3. PICK at : at = [i \in DOMAIN e |-> i]
      OBVIOUS
    <3>4. at \in [DOMAIN e -> DOMAIN e] /\ DOMAIN at = {}
      BY <3>2, <3>3
    <3>5. Told(e, e)
      BY <3>4 DEF Told
    <3> QED
      BY <3>1, <3>5
  <2>3. \A n \in Node : Tells(shown[n], state[n])
    BY <2>2, <1>1, <1>2 DEF Tells, Store
  <2> QED
    BY <2>3, TraceTells
<1> QED
  BY <1>4, <1>5, <1>6, <1>7, <1>8, <1>9, <1>10 DEF Inv

(* What every handler keeps. *)
LEMMA HandledKeeps ==
    ASSUME Inv, NEW n \in Node, NEW sent, NEW rest, Handled(n, sent, rest)
    PROVE  /\ TypeOK' /\ NothingFromNowhere' /\ ValuesAreFinal'
           /\ TraceIsCurrent' /\ TraceTellsState' /\ class' = class
<1>1. TypeOK /\ NothingFromNowhere /\ TraceIsCurrent /\ TraceTellsState
  BY DEF Inv
<1>2. class' = class
  BY DEF Handled
<1> QED
  BY <1>1, <1>2, HandlingKeepsTypes, HandlingKeepsOrigins, HandlingKeepsValues, HandlingIsTraced

LEMMA UnorderedSteps ==
    ASSUME Inv, NEW n \in Node,
           \/ Accepted(n)
           \/ \E c, sent : Applied(n, c, sent)
           \/ \E c : Ignored(n, c)
    PROVE  Inv'
<1>1. /\ TypeOK /\ NothingFromNowhere /\ ArrivedIsApplied /\ LastWriteIsLast /\ OneSender
      /\ AppliedPerCopy /\ SeenIsApplied
  BY DEF Inv
<1>2. \E sent, rest : Handled(n, sent, rest)
  BY DEF Accepted, Applied, Ignored
<1>3. /\ TypeOK' /\ NothingFromNowhere' /\ ValuesAreFinal'
      /\ TraceIsCurrent' /\ TraceTellsState' /\ class' = class
  BY <1>2, HandledKeeps
<1>4. ArrivedIsApplied'
  <2>1. CASE Accepted(n)
    <3>1. /\ class # "NodeSingleLeader" /\ issued \in Value
          /\ state'[n].log = Append(Log(n), issued) /\ Handled(n, ToPeers(n, issued, 0), inFlight)
      BY <2>1 DEF Accepted
    <3>2. \A m \in ToPeers(n, issued, 0) : m.seq = 0
      BY <3>1, PeersGetMessages
    <3>3. issued \in Range(state'[n].log)
      BY <3>1, <1>1, LogsTyped, AppendedLog
    <3> QED
      BY <3>1, <3>2, <3>3, <1>1, UnorderedKeepsArrived
  <2>2. CASE \E c, sent : Applied(n, c, sent)
    <3>1. PICK c, sent : Applied(n, c, sent)
      BY <2>2
    <3>2. /\ class # "NodeSingleLeader" /\ c \in inFlight /\ c[1].to = n /\ issued' = issued
          /\ state'[n].log = Append(Log(n), c[1].value) /\ Handled(n, sent, inFlight \ {c})
      BY <3>1 DEF Applied
    <3>3. c[1].value \in Value
      BY <3>2, <1>1, CopyFields
    <3>4. \A m \in sent : m.seq = 0
      BY <3>1, <3>3, <1>1, TwoClasses, PeersGetMessages DEF Applied
    <3>5. c[1].value \in Range(state'[n].log)
      BY <3>2, <3>3, <1>1, LogsTyped, AppendedLog
    <3>6. \A d \in inFlight \ (inFlight \ {c}) : d[1].to = n /\ d[1].value \in Range(state'[n].log)
      BY <3>2, <3>5
    <3> QED
      BY <3>2, <3>4, <3>6, <1>1, UnorderedKeepsArrived
  <2>3. CASE \E c : Ignored(n, c)
    <3>1. PICK c : Ignored(n, c)
      BY <2>3
    <3>2. /\ class = "NodeEagerBroadcast" /\ c \in inFlight /\ c[1].to = n /\ issued' = issued
          /\ state'[n] = state[n] /\ c[1].value \in state[n].seen /\ Handled(n, {}, inFlight \ {c})
      BY <3>1 DEF Ignored
    <3>3. c[1].value \in Range(state'[n].log)
      BY <3>2, <1>1 DEF SeenIsApplied, Log
    <3>4. \A d \in inFlight \ (inFlight \ {c}) : d[1].to = n /\ d[1].value \in Range(state'[n].log)
      BY <3>2, <3>3
    <3> QED
      BY <3>2, <3>4, <1>1, UnorderedKeepsArrived
  <2> QED
    BY <2>1, <2>2, <2>3
<1>5. LastWriteIsLast' /\ OneSender' /\ AppliedPerCopy' /\ SeenIsApplied'
  BY <1>1, UnorderedKeepsLast, UnorderedKeepsSender, UnorderedKeepsCopies, UnorderedKeepsSeen
<1>6. NumbersFollowLeader'
  <2>1. class' # "NodeSingleLeader"
    BY <1>3 DEF Accepted, Applied, Ignored
  <2> QED
    BY <2>1 DEF NumbersFollowLeader
<1> QED
  BY <1>3, <1>4, <1>5, <1>6 DEF Inv

LEMMA OrderedSteps ==
    ASSUME Inv, NEW n \in Node,
           \/ Numbered(n) \/ Refused(n)
           \/ \E c : Late(n, c)
           \/ \E c, k : Followed(n, c, k)
    PROVE  Inv'
<1>1. TypeOK /\ NothingFromNowhere /\ NumbersFollowLeader
  BY DEF Inv
<1>2. \E sent, rest : Handled(n, sent, rest)
  BY DEF Numbered, Refused, Late, Followed
<1>3. /\ TypeOK' /\ NothingFromNowhere' /\ ValuesAreFinal'
      /\ TraceIsCurrent' /\ TraceTellsState' /\ class' = class
  BY <1>2, HandledKeeps
<1>4. NumbersFollowLeader'
  BY <1>1, <1>3, NumberingKeepsNumbers, IgnoringKeepsNumbers, FollowingKeepsNumbers
<1>5. class' = "NodeSingleLeader"
  BY <1>3 DEF Numbered, Refused, Late, Followed
<1>6. ArrivedIsApplied' /\ LastWriteIsLast' /\ OneSender' /\ AppliedPerCopy' /\ SeenIsApplied'
  BY <1>5 DEF ArrivedIsApplied, LastWriteIsLast, OneSender, AppliedPerCopy, SeenIsApplied
<1> QED
  BY <1>3, <1>4, <1>6 DEF Inv

LEMMA SameStateKeeps ==
    ASSUME NothingFromNowhere, ArrivedIsApplied, LastWriteIsLast, OneSender, AppliedPerCopy,
           SeenIsApplied, NumbersFollowLeader, TraceIsCurrent, TraceTellsState,
           UNCHANGED <<class, spaced, issued, state, inFlight, copies, lastState, shown>>
    PROVE  /\ NothingFromNowhere' /\ ArrivedIsApplied' /\ LastWriteIsLast' /\ OneSender'
           /\ AppliedPerCopy' /\ SeenIsApplied' /\ NumbersFollowLeader'
           /\ TraceIsCurrent' /\ TraceTellsState'
<1>1. NothingFromNowhere' /\ OneSender' /\ TraceIsCurrent'
  BY DEF NothingFromNowhere, OneSender, TraceIsCurrent, Log, Store
<1>2. ArrivedIsApplied'
  BY DEF ArrivedIsApplied, Log, Arrived, ToPeers
<1>3. LastWriteIsLast'
  BY DEF LastWriteIsLast, Log, Last
<1>4. AppliedPerCopy'
  BY DEF AppliedPerCopy, Log, Count
<1>5. SeenIsApplied'
  BY DEF SeenIsApplied, Log, Count, ToPeers
<1>6. NumbersFollowLeader'
  BY DEF NumbersFollowLeader, Log, Arrived, ToPeers
<1>7. TraceTellsState'
  <2>1. \A n \in Node : Tells(shown'[n], state'[n])
    BY TraceTells
  <2> QED
    BY <2>1, TraceTellsNext
<1> QED
  BY <1>1, <1>2, <1>3, <1>4, <1>5, <1>6, <1>7

LEMMA FinishKeeps ==
    ASSUME Inv, Finish
    PROVE  Inv'
<1>1. /\ class' = class /\ spaced' = spaced /\ issued' = issued /\ state' = state
      /\ inFlight' = inFlight /\ copies' = copies /\ faults' = faults
      /\ lastState' = lastState /\ shown' = shown
      /\ values' = [n \in Node |-> Store(state[n])]
  BY DEF Finish, network, trace
<1>2. TypeOK'
  <2>1. \A n \in Node : Store(state[n]) \in Value \union {None}
    BY StateTyped, StoreOfLog DEF Inv
  <2>2. values' \in [Node -> Value \union {None}]
    BY <2>1, <1>1
  <2> QED
    BY <2>2, <1>1 DEF Inv, TypeOK
<1>3. ValuesAreFinal'
  BY <1>1 DEF ValuesAreFinal, Store
<1> QED
  BY <1>1, <1>2, <1>3, SameStateKeeps DEF Inv

LEMMA StutteringKeeps ==
    ASSUME Inv, UNCHANGED vars
    PROVE  Inv'
<1>1. /\ class' = class /\ spaced' = spaced /\ issued' = issued /\ state' = state
      /\ inFlight' = inFlight /\ copies' = copies /\ faults' = faults
      /\ lastState' = lastState /\ shown' = shown /\ values' = values
  BY DEF vars, network, trace
<1>2. TypeOK'
  BY <1>1 DEF Inv, TypeOK
<1>3. ValuesAreFinal'
  BY <1>1 DEF Inv, ValuesAreFinal, Store
<1> QED
  BY <1>1, <1>2, <1>3, SameStateKeeps DEF Inv

(* Inv is an invariant of the simulation on each of the baselines, for any cluster, any      *)
(* number of writes, any fault rules, and any delays. *)
THEOREM Invariance == Spec => []Inv
<1>1. Init => Inv
  BY Initially
<1>2. Inv /\ [Next]_vars => Inv'
  <2> SUFFICES ASSUME Inv, [Next]_vars PROVE Inv'
    OBVIOUS
  <2>1. CASE ClientPut
    BY <2>1, PutOutcomes, UnorderedSteps, OrderedSteps
  <2>2. CASE Deliver
    BY <2>2, DeliveryOutcomes, UnorderedSteps, OrderedSteps
  <2>3. CASE Finish
    BY <2>3, FinishKeeps
  <2>4. CASE UNCHANGED vars
    BY <2>4, StutteringKeeps
  <2> QED
    BY <2>1, <2>2, <2>3, <2>4 DEF Next
<1> QED
  BY <1>1, <1>2, PTL DEF Spec

-----------------------------------------------------------------------------
(* What follows from the invariant. *)

(* A message of which nothing has arrived was lost or is in flight. *)
LEMMA OutstandingUnlessArrived ==
    ASSUME TypeOK, NEW p, NEW n, NEW v, NEW q, ToPeers(p, v, q) \subseteq DOMAIN copies,
           n \in Node, n # p,
           NEW m, m = [value |-> v, seq |-> q, frm |-> p, to |-> n]
    PROVE  /\ m \in DOMAIN copies /\ m.value = v /\ m.seq = q /\ m.frm = p /\ m.to = n
           /\ Outstanding(p, n, v) \/ Arrived(m)
<1>1. m \in DOMAIN copies /\ m.value = v /\ m.seq = q /\ m.frm = p /\ m.to = n
  BY DEF ToPeers
<1>2. ASSUME ~Arrived(m) PROVE copies[m] = 0 \/ \E c \in inFlight : c[1] = m
  BY <1>1, <1>2, ArrivedIfNotOutstanding
<1>3. ASSUME ~Arrived(m) PROVE Outstanding(p, n, v)
  BY <1>1, <1>2, <1>3 DEF Outstanding
<1> QED
  BY <1>1, <1>3

LEMMA PrefixOfLeader ==
    ASSUME NEW s \in Seq(Value), NEW t \in Seq(Value), Len(s) =< Len(t),
           \A i \in 1 .. Len(s) : s[i] = t[i]
    PROVE  IsPrefix(s, t)
<1>1. Len(s) \in Nat /\ Len(t) \in Nat /\ Len(s) \in Int
  BY LogIsSequence
<1>2. /\ \A i \in 1 .. Len(s) : s[i] \in Value
      /\ \A i \in 1 .. Len(s) : t[i] \in Value
  BY <1>1, LogIsSequence
<1>3. PICK a, b, l : a = SubSeq(s, 1, l) /\ b = SubSeq(t, 1, l) /\ l = Len(s)
  OBVIOUS
<1>4. l \in Nat /\ l \in Int /\ 1 \in Int /\ l - 1 + 1 = l
  BY <1>1, <1>3
<1>5. /\ a \in Seq(Value) /\ Len(a) = (IF 1 <= l THEN l - 1 + 1 ELSE 0)
      /\ \A i \in 1 .. l - 1 + 1 : a[i] = s[1 + i - 1]
  BY <1>2, <1>3, <1>4, SubSeqProperties
<1>6. /\ b \in Seq(Value) /\ Len(b) = (IF 1 <= l THEN l - 1 + 1 ELSE 0)
      /\ \A i \in 1 .. l - 1 + 1 : b[i] = t[1 + i - 1]
  BY <1>2, <1>3, <1>4, SubSeqProperties
<1>7. Len(a) = l /\ Len(b) = l /\ \A i \in 1 .. l : a[i] = s[i] /\ b[i] = t[i]
  BY <1>4, <1>5, <1>6
<1>8. a = b
  BY <1>3, <1>5, <1>6, <1>7, SeqEqual
<1> QED
  BY <1>3, <1>8 DEF IsPrefix

LEMMA InvGuarantees ==
    ASSUME Inv
    PROVE  ClassGuarantee
<1>1. TypeOK
  BY DEF Inv
<1>2. FollowersFollowLeader
  <2> SUFFICES ASSUME class = "NodeSingleLeader", NEW n \in Node
               PROVE  /\ IsPrefix(Log(n), Log(LeaderId))
                      /\ Len(Log(n)) < Len(Log(LeaderId)) =>
                             Outstanding(LeaderId, n, Log(LeaderId)[Len(Log(n)) + 1])
    BY DEF FollowersFollowLeader
  <2>1. /\ LeaderHasSent /\ ArrivedIsHeld /\ \A p \in Node \ {LeaderId} : Follower(p)
    BY <1>1, NumbersInParts DEF Inv
  <2>2. /\ Log(n) \in Seq(Value) /\ Log(LeaderId) \in Seq(Value)
        /\ Len(Log(n)) \in Nat /\ Len(Log(LeaderId)) \in Nat
    BY <1>1, LeaderIsANode, LogsTyped, LogIsSequence
  <2>3. CASE n = LeaderId
    <3>1. IsPrefix(Log(LeaderId), Log(LeaderId))
      BY <2>2, PrefixOfLeader
    <3> QED
      BY <2>2, <2>3, <3>1
  <2>4. CASE n # LeaderId
    <3>1. IsPrefix(Log(n), Log(LeaderId))
      BY <2>1, <2>2, <2>4, PrefixOfLeader DEF Follower
    <3>2. ASSUME Len(Log(n)) < Len(Log(LeaderId))
          PROVE  Outstanding(LeaderId, n, Log(LeaderId)[Len(Log(n)) + 1])
      <4>1. PICK q, v : q = Len(Log(n)) + 1 /\ v = Log(LeaderId)[Len(Log(n)) + 1]
        OBVIOUS
      <4>2. q \in 1 .. Len(Log(LeaderId)) /\ q \in Nat /\ v = Log(LeaderId)[q]
        BY <2>2, <3>2, <4>1
      <4>3. ToPeers(LeaderId, v, q) \subseteq DOMAIN copies
        BY <2>1, <4>2 DEF LeaderHasSent
      <4>4. PICK m : m = [value |-> v, seq |-> q, frm |-> LeaderId, to |-> n]
        OBVIOUS
      <4>5. /\ m \in DOMAIN copies /\ m.seq = q /\ m.to = n
            /\ Outstanding(LeaderId, n, v) \/ Arrived(m)
        BY <1>1, <2>4, <4>3, <4>4, OutstandingUnlessArrived
      <4>6. state[n].expectedSeq = q /\ \A x \in state[n].buffer : x.seq > q
        BY <2>1, <2>4, <4>1 DEF Follower
      <4>7. ~Arrived(m)
        BY <2>1, <4>2, <4>5, <4>6 DEF ArrivedIsHeld
      <4> QED
        BY <4>1, <4>5, <4>7
    <3> QED
      BY <3>1, <3>2
  <2> QED
    BY <2>3, <2>4
<1>3. AppliedOnceFromAnyone
  <2> SUFFICES ASSUME class = "NodeEagerBroadcast", NEW n \in Node
               PROVE  /\ \A v \in Range(Log(n)) : Count(v, Log(n)) = 1
                      /\ \A p \in Node : \A v \in Range(Log(p)) \ Range(Log(n)) :
                             Outstanding(p, n, v)
    BY DEF AppliedOnceFromAnyone
  <2>1. \A v \in Range(Log(n)) : Count(v, Log(n)) = 1
    BY DEF Inv, SeenIsApplied
  <2>2. ASSUME NEW p \in Node, NEW v \in Range(Log(p)) \ Range(Log(n))
        PROVE  Outstanding(p, n, v)
    <3>1. ToPeers(p, v, 0) \subseteq DOMAIN copies /\ p # n
      BY <2>2 DEF Inv, SeenIsApplied
    <3>2. PICK m : m = [value |-> v, seq |-> 0, frm |-> p, to |-> n]
      OBVIOUS
    <3>3. /\ m \in DOMAIN copies /\ m.value = v /\ m.to = n
          /\ Outstanding(p, n, v) \/ Arrived(m)
      BY <1>1, <3>1, <3>2, OutstandingUnlessArrived
    <3>4. ~Arrived(m)
      BY <2>2, <3>3 DEF Inv, ArrivedIsApplied
    <3> QED
      BY <3>3, <3>4
  <2> QED
    BY <2>1, <2>2
<1> QED
  BY <1>2, <1>3 DEF ClassGuarantee, Inv

LEMMA InvConverges ==
    ASSUME Inv
    PROVE  ConvergesWhenSpacedOut
<1> SUFFICES ASSUME values # None, Idle, spaced, \A m \in DOMAIN copies : copies[m] > 0, NEW n \in Node
             PROVE  values[n] = IF class = "NodeSingleLeader"
                                THEN Store(state[LeaderId])
                                ELSE IF issued = 0 THEN None ELSE issued - 1
  BY DEF ConvergesWhenSpacedOut
<1>1. TypeOK /\ inFlight = {} /\ values[n] = Store(state[n]) /\ issued \in Nat
  BY StateTyped DEF Inv, ValuesAreFinal, Idle
<1>2. \A p, v : ~Outstanding(p, n, v)
  BY <1>1, StateTyped DEF Outstanding
<1>3. /\ state[n] \in NodeState /\ state[n].log = Log(n) /\ Log(n) \in Seq(Value)
      /\ Len(Log(n)) \in Nat
  BY <1>1, StateTyped, LogsTyped, LogIsSequence
<1>4. CASE class = "NodeSingleLeader"
  <2>1. PICK leader : leader = state[LeaderId] /\ leader.log = Log(LeaderId)
    BY DEF Log
  <2>2. leader \in NodeState /\ Log(LeaderId) \in Seq(Value) /\ Len(Log(LeaderId)) \in Nat
    BY <2>1, <1>1, LeaderIsANode, StateTyped, LogsTyped, LogIsSequence
  <2>3. CASE n = LeaderId
    BY <2>3, <1>1, <1>4
  <2>4. CASE n # LeaderId
    <3>1. Follower(n)
      BY <2>4, <1>1, <1>4, NumbersInParts DEF Inv
    <3>2. ~(Len(Log(n)) < Len(Log(LeaderId)))
      BY <1>2, <1>4, InvGuarantees DEF ClassGuarantee, FollowersFollowLeader
    <3>3. /\ Len(Log(n)) = Len(Log(LeaderId))
          /\ \A i \in 1 .. Len(Log(n)) : Log(n)[i] = Log(LeaderId)[i]
      BY <3>1, <3>2, <2>2, <1>3 DEF Follower
    <3>4. Log(n) = Log(LeaderId)
      BY <3>3, <1>3, <2>2, SeqEqual
    <3>5. Store(state[n]) = Store(leader)
      BY <3>4, <2>1, <1>3 DEF Store
    <3> QED
      BY <3>5, <2>1, <1>1, <1>4
  <2> QED
    BY <2>3, <2>4
<1>5. CASE class # "NodeSingleLeader" /\ issued = 0
  <2>1. Range(Log(n)) = {}
    <3>1. Range(Log(n)) \subseteq Nat /\ \A v \in Range(Log(n)) : v < 0
      BY <1>3, <1>5, LogIsSequence, ValuesAreNatural DEF Inv, NothingFromNowhere
    <3> QED
      BY <3>1
  <2>2. Log(n) = <<>>
    <3>1. PICK log : log = Log(n)
      OBVIOUS
    <3>2. log \in Seq(Value) /\ Range(log) = {}
      BY <3>1, <2>1, <1>3
    <3>3. Len(log) = 0
      <4> SUFFICES ASSUME Len(log) # 0
                   PROVE  FALSE
        OBVIOUS
      <4>1. Len(log) \in Nat /\ 1 \in 1 .. Len(log)
        BY <3>2, LogIsSequence
      <4>2. log[1] \in Range(log)
        BY <3>2, <4>1, LogIsSequence
      <4> QED
        BY <4>2, <3>2
    <3>4. log = <<>>
      BY <3>2, <3>3, LogIsSequence
    <3> QED
      BY <3>1, <3>4
  <2> QED
    BY <2>2, <1>1, <1>3, <1>5, StoreOfLog
<1>6. CASE class # "NodeSingleLeader" /\ issued # 0
  <2>1. PICK v : v = issued - 1
    OBVIOUS
  <2>2. v \in 0 .. issued - 1
    BY <2>1, <1>1, <1>6
  <2>3. PICK p \in Node : v \in Range(Log(p)) /\ ToPeers(p, v, 0) \subseteq DOMAIN copies
    BY <2>2, <1>6 DEF Inv, ArrivedIsApplied
  <2>4. v \in Range(Log(n))
    <3>1. CASE p = n
      BY <3>1, <2>3
    <3>2. CASE p # n
      <4>1. PICK m : m = [value |-> v, seq |-> 0, frm |-> p, to |-> n]
        OBVIOUS
      <4>2. m \in DOMAIN copies /\ m.value = v /\ m.to = n /\ Arrived(m)
        BY <1>1, <1>2, <2>3, <3>2, <4>1, OutstandingUnlessArrived
      <4> QED
        BY <4>2, <1>6 DEF Inv, ArrivedIsApplied
    <3> QED
      BY <3>1, <3>2
  <2>5. Last(Log(n)) = v
    BY <2>1, <2>4, <1>6 DEF Inv, LastWriteIsLast
  <2>6. Log(n) # <<>>
    BY <2>4, <1>3, LogIsSequence
  <2>7. Store(state[n]) = v
    BY <2>5, <2>6, <1>3 DEF Store
  <2> QED
    BY <2>1, <2>7, <1>1, <1>6
<1> QED
  BY <1>4, <1>5, <1>6

(* Each baseline guarantees what it promises, and no more: a follower of NodeSingleLeader has a  *)
(* prefix of the leader's log up to a message that is outstanding, NodeEagerBroadcast applies a *)
(* write once and misses it only while the message of every node that has it is outstanding,    *)
(* NodeMultiLeader applies it once per copy that has arrived.                                   *)
THEOREM Guarantees == Spec => []ClassGuarantee
<1>1. Inv => ClassGuarantee
  BY InvGuarantees
<1> QED
  BY <1>1, Invariance, PTL

(* When writes are spaced out and no message is lost, run ends with the last accepted write at *)
(* every node of each baseline, whatever is copied or overtaken on the way.                    *)
THEOREM Convergence == Spec => []ConvergesWhenSpacedOut
<1>1. Inv => ConvergesWhenSpacedOut
  BY InvConverges
<1> QED
  BY <1>1, Invariance, PTL

(* The state events of the trace tell each node's store at every time. *)
THEOREM Tracing == Spec => []TraceTellsState
<1>1. Inv => TraceTellsState
  BY DEF Inv
<1> QED
  BY <1>1, Invariance, PTL
=============================================================================
