-------------------------- MODULE ReplicatedCASProofs --------------------------
(***************************************************************************)
(* Proofs about NodeCAS for every cluster, every set of operations and     *)
(* every interleaving of messages, receipts and retries: it orders as      *)
(* LamportOrder does, forgets no transmission while its receipt is         *)
(* missing, and executes what one sequential execution of the order would. *)
(***************************************************************************)
EXTENDS ReplicatedCAS, LamportOrderProofs

-----------------------------------------------------------------------------
(* The fold of DeliverAll, as the states it goes through. *)

(* h holds the states from st on as the first k operations of s are delivered at n. *)
IsTrace(h, k, s, from, n, st) ==
    /\ h[0] = st
    /\ \A i \in 1 .. k : h[i] = Deliver(h[i - 1], s[i], from[s[i]], n)

(* g is the function that the fold takes its value from. *)
IsFold(g, k, s, from, n, st) ==
    g = [S \in SUBSET (1 .. k) |->
            IF S = {} THEN st ELSE Deliver(g[S \ {Max(S)}], s[Max(S)], from[s[Max(S)]], n)]

LEMMA MaxIsLast ==
    ASSUME NEW k \in Nat, NEW S \in SUBSET (1 .. k), k \in S
    PROVE  Max(S) = k
<1>1. \A y \in S : k >= y
  OBVIOUS
<1>2. \A x \in S : (\A y \in S : x >= y) => x = k
  OBVIOUS
<1> QED
  BY <1>1, <1>2 DEF Max

LEMMA FoldExists ==
    ASSUME NEW s, NEW from, NEW n, NEW st, NEW k \in Nat
    PROVE  \E g : IsFold(g, k, s, from, n, st)
<1> DEFINE C == {m \in Nat : ~\E g : IsFold(g, m, s, from, n, st)}
<1>1. SUFFICES ASSUME C # {} PROVE FALSE
  OBVIOUS
<1>2. \E l \in C : \A r \in C : <<r, l>> \notin OpToRel(<, Nat)
  BY <1>1, NatLessThanWellFounded, WFMin, Zenon
<1>3. PICK l \in C : \A r \in C : ~(r < l)
  BY <1>2, Zenon DEF OpToRel
<1>4. l # 0
  <2> SUFFICES ASSUME l = 0 PROVE FALSE
    OBVIOUS
  <2>1. SUBSET (1 .. 0) = {{}}
    OBVIOUS
  <2>2. IsFold([S \in SUBSET (1 .. 0) |-> st], 0, s, from, n, st)
    BY <2>1 DEF IsFold
  <2> QED
    BY <2>2
<1>5. PICK g : IsFold(g, l - 1, s, from, n, st)
  BY <1>3, <1>4
<1> DEFINE h == [S \in SUBSET (1 .. l) |->
                    IF l \in S THEN Deliver(g[S \ {l}], s[l], from[s[l]], n) ELSE g[S]]
<1>6. ASSUME NEW S \in SUBSET (1 .. l)
      PROVE  h[S] = IF S = {} THEN st
                    ELSE Deliver(h[S \ {Max(S)}], s[Max(S)], from[s[Max(S)]], n)
  <2>1. CASE l \in S
    <3>1. Max(S) = l
      BY <2>1, MaxIsLast
    <3>2. S \ {l} \in SUBSET (1 .. l) /\ l \notin S \ {l}
      OBVIOUS
    <3>3. h[S \ {l}] = g[S \ {l}]
      BY <3>2
    <3> QED
      BY <2>1, <3>1, <3>3
  <2>2. CASE l \notin S
    <3>1. \A x \in S : x \in 1 .. l - 1
      BY <2>2
    <3>2. S \in SUBSET (1 .. l - 1)
      BY <3>1
    <3>3. g[S] = IF S = {} THEN st
                 ELSE Deliver(g[S \ {Max(S)}], s[Max(S)], from[s[Max(S)]], n)
      BY <3>2, <1>5 DEF IsFold
    <3>4. h[S] = g[S]
      BY <2>2
    <3>5. S \ {Max(S)} \in SUBSET (1 .. l) /\ l \notin S \ {Max(S)}
      BY <2>2
    <3>6. h[S \ {Max(S)}] = g[S \ {Max(S)}]
      BY <3>5
    <3> QED
      BY <3>3, <3>4, <3>6
  <2> QED
    BY <2>1, <2>2
<1>7. IsFold(h, l, s, from, n, st)
  BY <1>6, Zenon DEF IsFold
<1> QED
  BY <1>3, <1>7

LEMMA DeliveriesHaveTrace ==
    ASSUME NEW s, NEW from, NEW n, NEW st, NEW k \in Nat, DOMAIN s = 1 .. k
    PROVE  \E h : IsTrace(h, k, s, from, n, st) /\ DeliverAll(s, from, n, st) = h[k]
<1> DEFINE g == CHOOSE g : IsFold(g, k, s, from, n, st)
           h == [i \in 0 .. k |-> g[1 .. i]]
<1>1. IsFold(g, k, s, from, n, st)
  BY FoldExists, Zenon
<1>2. DeliverAll(s, from, n, st) = g[1 .. k]
  BY DEF DeliverAll, FoldLeft, MapThenFoldSet, IsFold
<1> HIDE DEF g
<1>3. h[0] = st
  <2>1. 1 .. 0 = {} /\ 1 .. 0 \in SUBSET (1 .. k)
    OBVIOUS
  <2>2. g[1 .. 0] = st
    BY <2>1, <1>1 DEF IsFold
  <2> QED
    BY <2>2
<1>4. ASSUME NEW i \in 1 .. k
      PROVE  h[i] = Deliver(h[i - 1], s[i], from[s[i]], n)
  <2>1. 1 .. i \in SUBSET (1 .. k) /\ 1 .. i # {} /\ i \in 1 .. i /\ i \in Nat
    OBVIOUS
  <2>2. Max(1 .. i) = i
    BY <2>1, MaxIsLast
  <2>3. (1 .. i) \ {i} = 1 .. i - 1
    BY <2>1
  <2>4. g[1 .. i] = Deliver(g[1 .. i - 1], s[i], from[s[i]], n)
    BY <2>1, <2>2, <2>3, <1>1 DEF IsFold
  <2>5. i \in 0 .. k /\ i - 1 \in 0 .. k
    OBVIOUS
  <2> QED
    BY <2>4, <2>5
<1>5. h[k] = g[1 .. k]
  OBVIOUS
<1> QED
  BY <1>2, <1>3, <1>4, <1>5 DEF IsTrace

LEMMA TracesAreOne ==
    ASSUME NEW s, NEW from, NEW n, NEW st, NEW k \in Nat, NEW g, NEW h,
           IsTrace(g, k, s, from, n, st), IsTrace(h, k, s, from, n, st)
    PROVE  \A i \in 0 .. k : g[i] = h[i]
<1> DEFINE C == {m \in Nat : m =< k /\ g[m] # h[m]}
<1>1. SUFFICES ASSUME C # {} PROVE FALSE
  OBVIOUS
<1>2. \E l \in C : \A r \in C : <<r, l>> \notin OpToRel(<, Nat)
  BY <1>1, NatLessThanWellFounded, WFMin, Zenon
<1>3. PICK l \in C : \A r \in C : ~(r < l)
  BY <1>2, Zenon DEF OpToRel
<1>4. l # 0
  BY DEF IsTrace
<1>5. l \in 1 .. k /\ g[l - 1] = h[l - 1]
  BY <1>3, <1>4
<1> QED
  BY <1>5 DEF IsTrace

(* What a trace ends in is what DeliverAll makes of the operations. *)
LEMMA TraceIsDeliveries ==
    ASSUME NEW s, NEW from, NEW n, NEW st, NEW k \in Nat, DOMAIN s = 1 .. k,
           NEW h, IsTrace(h, k, s, from, n, st)
    PROVE  DeliverAll(s, from, n, st) = h[k]
<1>1. PICK g : IsTrace(g, k, s, from, n, st) /\ DeliverAll(s, from, n, st) = g[k]
  BY DeliveriesHaveTrace
<1>2. k \in 0 .. k
  OBVIOUS
<1> QED
  BY <1>1, <1>2, TracesAreOne

(* Delivering s and then t is delivering both. *)
LEMMA DeliveriesCompose ==
    ASSUME NEW s \in Seq(Write), NEW t \in Seq(Write), NEW from, NEW n, NEW st
    PROVE  DeliverAll(s \o t, from, n, st) = DeliverAll(t, from, n, DeliverAll(s, from, n, st))
<1>1. PICK k, l : k = Len(s) /\ l = Len(t)
  OBVIOUS
<1>2. k \in Nat /\ l \in Nat /\ DOMAIN s = 1 .. k /\ DOMAIN t = 1 .. l
  BY <1>1
<1>3. /\ DOMAIN (s \o t) = 1 .. k + l
      /\ \A i \in 1 .. k : (s \o t)[i] = s[i]
      /\ \A i \in k + 1 .. k + l : (s \o t)[i] = t[i - k]
  BY <1>1
<1>4. PICK g : IsTrace(g, k, s, from, n, st) /\ DeliverAll(s, from, n, st) = g[k]
  BY <1>2, DeliveriesHaveTrace
<1>5. PICK h : IsTrace(h, l, t, from, n, g[k]) /\ DeliverAll(t, from, n, g[k]) = h[l]
  BY <1>2, DeliveriesHaveTrace
<1>6. PICK f : f = [i \in 0 .. k + l |-> IF i =< k THEN g[i] ELSE h[i - k]]
  OBVIOUS
<1>7. f[0] = st
  BY <1>2, <1>4, <1>6 DEF IsTrace
<1>8. ASSUME NEW i \in 1 .. k + l
      PROVE  f[i] = Deliver(f[i - 1], (s \o t)[i], from[(s \o t)[i]], n)
  <2>1. i \in 0 .. k + l /\ i - 1 \in 0 .. k + l
    BY <1>2
  <2>2. CASE i \in 1 .. k
    <3>1. f[i] = g[i] /\ f[i - 1] = g[i - 1] /\ (s \o t)[i] = s[i]
      BY <2>1, <2>2, <1>2, <1>3, <1>6
    <3> QED
      BY <3>1, <2>2, <1>4 DEF IsTrace
  <2>3. CASE i \in k + 1 .. k + l
    <3>1. i - k \in 1 .. l /\ (i - k) - 1 = (i - 1) - k /\ ~(i =< k)
      BY <2>3, <1>2
    <3>2. f[i] = h[i - k] /\ (s \o t)[i] = t[i - k]
      BY <2>1, <2>3, <3>1, <1>3, <1>6
    <3>3. f[i - 1] = h[(i - k) - 1]
      <4>1. CASE i = k + 1
        <5>1. i - 1 = k /\ (i - k) - 1 = 0
          BY <4>1, <1>2
        <5>2. f[i - 1] = g[k]
          BY <5>1, <2>1, <1>2, <1>6
        <5> QED
          BY <5>1, <5>2, <1>5 DEF IsTrace
      <4>2. CASE i # k + 1
        <5>1. ~(i - 1 =< k) /\ (i - 1) - k = (i - k) - 1
          BY <4>2, <2>3, <1>2
        <5>2. f[i - 1] = h[(i - 1) - k]
          BY <5>1, <2>1, <1>6
        <5> QED
          BY <5>1, <5>2
      <4> QED
        BY <4>1, <4>2
    <3>4. h[i - k] = Deliver(h[(i - k) - 1], t[i - k], from[t[i - k]], n)
      BY <3>1, <1>5 DEF IsTrace
    <3> QED
      BY <3>2, <3>3, <3>4
  <2> QED
    BY <2>2, <2>3, <1>2
<1>9. IsTrace(f, k + l, s \o t, from, n, st)
  BY <1>7, <1>8 DEF IsTrace
<1>10. f[k + l] = h[l]
  <2>1. CASE l = 0
    <3>1. f[k + l] = g[k]
      BY <2>1, <1>2, <1>6
    <3> QED
      BY <3>1, <2>1, <1>5 DEF IsTrace
  <2>2. CASE l # 0
    <3>1. k + l \in 0 .. k + l /\ ~(k + l =< k) /\ (k + l) - k = l
      BY <2>2, <1>2
    <3> QED
      BY <3>1, <1>6
  <2> QED
    BY <2>1, <2>2
<1>11. DeliverAll(s \o t, from, n, st) = f[k + l]
  <2>1. PICK u, m : u = s \o t /\ m = k + l
    OBVIOUS
  <2>2. m \in Nat /\ DOMAIN u = 1 .. m /\ IsTrace(f, m, u, from, n, st)
    BY <2>1, <1>2, <1>3, <1>9
  <2>3. DeliverAll(u, from, n, st) = f[m]
    BY <2>2, TraceIsDeliveries
  <2> QED
    BY <2>1, <2>3
<1> QED
  BY <1>4, <1>5, <1>10, <1>11

LEMMA ExecutionTypes ==
    ASSUME NEW w \in Write, NEW p, NEW n, NEW v \in Value
    PROVE  /\ Execute(Operation[w], p, n, v).store \in Value
           /\ Execute(Operation[w], p, n, v).result \in Result
<1>1. PICK op : op = Operation[w]
  OBVIOUS
<1>2. op \in [kind : {"put"}, new : Value] \union [kind : {"get"}]
                \union [kind : {"cas"}, old : Value, new : Value]
  BY <1>1, OperationsAreKnown
<1>3. /\ op.kind \in {"put", "get", "cas"}
      /\ op.kind \in {"put", "cas"} => op.new \in Value
  BY <1>2
<1>4. op.kind \in {"put", "cas"} => AtNode(op.new, p, n) \in Value
  BY <1>3, WireIsStable DEF AtNode
<1>5. CASE op.kind = "put"
  BY <1>1, <1>4, <1>5 DEF Execute, Result
<1>6. CASE op.kind = "get"
  BY <1>1, <1>6 DEF Execute, Result
<1>7. CASE op.kind = "cas"
  BY <1>1, <1>4, <1>7 DEF Execute, Result
<1> QED
  BY <1>1, <1>3, <1>5, <1>6, <1>7

(* Delivering s leaves a value, and a result for each operation in s and no other new one. *)
IsState(st, W) ==
    st.store \in Value /\ st.results \in [W -> Result]

LEMMA DeliveriesType ==
    ASSUME NEW s \in Seq(Write), NEW from, NEW n, NEW st, NEW W, IsState(st, W)
    PROVE  IsState(DeliverAll(s, from, n, st), W \union Range(s))
<1>1. PICK k : k = Len(s)
  OBVIOUS
<1>2. k \in Nat /\ DOMAIN s = 1 .. k /\ \A i \in 1 .. k : s[i] \in Write
  BY <1>1
<1>3. PICK h : IsTrace(h, k, s, from, n, st) /\ DeliverAll(s, from, n, st) = h[k]
  BY <1>2, DeliveriesHaveTrace
<1> DEFINE Upto(i) == W \union {s[j] : j \in 1 .. i}
<1>4. /\ Upto(0) = W
      /\ \A i \in 1 .. k : Upto(i) = Upto(i - 1) \union {s[i]}
      /\ Upto(k) = W \union Range(s)
  <2>1. \A i \in 1 .. k : \A j : j \in 1 .. i <=> j \in 1 .. i - 1 \/ j = i
    OBVIOUS
  <2>2. \A i \in 1 .. k : {s[j] : j \in 1 .. i} = {s[j] : j \in 1 .. i - 1} \union {s[i]}
    BY <2>1
  <2>3. {s[j] : j \in 1 .. 0} = {}
    OBVIOUS
  <2>4. {s[j] : j \in 1 .. k} = Range(s)
    BY <1>2 DEF Range
  <2> QED
    BY <2>2, <2>3, <2>4
<1> HIDE DEF Upto
<1> DEFINE C == {m \in Nat : m =< k /\ ~IsState(h[m], Upto(m))}
<1>5. C = {}
  <2>1. SUFFICES ASSUME C # {} PROVE FALSE
    OBVIOUS
  <2>2. \E l \in C : \A r \in C : <<r, l>> \notin OpToRel(<, Nat)
    BY <2>1, NatLessThanWellFounded, WFMin, Zenon
  <2>3. PICK l \in C : \A r \in C : ~(r < l)
    BY <2>2, Zenon DEF OpToRel
  <2>4. l # 0
    BY <1>3, <1>4 DEF IsTrace
  <2>5. l \in 1 .. k /\ IsState(h[l - 1], Upto(l - 1))
    <3>1. l - 1 \in Nat /\ l - 1 =< k /\ l - 1 < l /\ l \in 1 .. k
      BY <2>4, <1>2
    <3>2. l - 1 \notin C
      BY <3>1, <2>3
    <3> QED
      BY <3>1, <3>2
  <2>6. PICK w, u, e : w = s[l] /\ u = h[l - 1] /\ e = Execute(Operation[w], from[w], n, u.store)
    OBVIOUS
  <2>7. w \in Write /\ e.store \in Value /\ e.result \in Result
    BY <2>5, <2>6, <1>2, ExecutionTypes DEF IsState
  <2>8. Upto(l) = Upto(l - 1) \union {w}
    BY <2>5, <2>6, <1>4
  <2>9. u.results \in [Upto(l - 1) -> Result]
    BY <2>5, <2>6 DEF IsState
  <2>10. h[l] = [store |-> e.store,
                 results |-> [x \in DOMAIN u.results \union {w} |->
                                  IF x = w THEN e.result ELSE u.results[x]]]
    BY <2>5, <2>6, <1>3 DEF IsTrace, Deliver
  <2>11. IsState(h[l], Upto(l))
    BY <2>7, <2>8, <2>9, <2>10 DEF IsState
  <2> QED
    BY <2>3, <2>11
<1>6. IsState(h[k], Upto(k))
  <2>1. k \notin C
    BY <1>5
  <2> QED
    BY <2>1, <1>2
<1> QED
  BY <1>3, <1>4, <1>6

(* Where JSON leaves the values alone, all nodes execute operations as their senders do. *)
LEMMA ExecutionSurvives ==
    ASSUME ValuesSurvive, NEW w \in Write, NEW p, NEW n, NEW v
    PROVE  Execute(Operation[w], p, n, v) = Execute(Operation[w], 0, 0, v)
<1>1. PICK op : op = Operation[w]
  OBVIOUS
<1>2. /\ op.kind \in {"put", "get", "cas"}
      /\ op.kind \in {"put", "cas"} => AtNode(op.new, p, n) = AtNode(op.new, 0, 0)
      /\ op.kind = "cas" => AtNode(op.old, p, n) = AtNode(op.old, 0, 0)
  <2>1. op \in [kind : {"put"}, new : Value] \union [kind : {"get"}]
                  \union [kind : {"cas"}, old : Value, new : Value]
    BY <1>1, OperationsAreKnown
  <2>2. /\ op.kind \in {"put", "cas"} => Wire[op.new] = op.new
        /\ op.kind = "cas" => Wire[op.old] = op.old
    BY <1>1 DEF ValuesSurvive
  <2> QED
    BY <2>1, <2>2 DEF AtNode
<1>3. CASE op.kind = "put"
  BY <1>1, <1>2, <1>3 DEF Execute
<1>4. CASE op.kind = "get"
  BY <1>1, <1>4 DEF Execute
<1>5. CASE op.kind = "cas"
  BY <1>1, <1>2, <1>5 DEF Execute
<1> QED
  BY <1>1, <1>2, <1>3, <1>4, <1>5

LEMMA DeliveriesSurvive ==
    ASSUME ValuesSurvive, NEW s \in Seq(Write), NEW from, NEW n, NEW st
    PROVE  DeliverAll(s, from, n, st) = DeliverAll(s, [w \in Write |-> 0], 0, st)
<1>1. PICK k, zero : k = Len(s) /\ zero = [w \in Write |-> 0]
  OBVIOUS
<1>2. k \in Nat /\ DOMAIN s = 1 .. k /\ \A i \in 1 .. k : s[i] \in Write
  BY <1>1
<1>3. PICK h : IsTrace(h, k, s, from, n, st) /\ DeliverAll(s, from, n, st) = h[k]
  BY <1>2, DeliveriesHaveTrace
<1>4. \A w \in Write : \A u : Deliver(u, w, from[w], n) = Deliver(u, w, zero[w], 0)
  <2>1. \A w \in Write : zero[w] = 0
    BY <1>1
  <2>2. \A w \in Write : \A u : Execute(Operation[w], from[w], n, u.store)
                                    = Execute(Operation[w], 0, 0, u.store)
    BY ExecutionSurvives
  <2> QED
    BY <2>1, <2>2 DEF Deliver
<1>5. IsTrace(h, k, s, zero, 0, st)
  BY <1>2, <1>3, <1>4 DEF IsTrace
<1>6. DeliverAll(s, zero, 0, st) = h[k]
  BY <1>2, <1>5, TraceIsDeliveries
<1> QED
  BY <1>1, <1>3, <1>6

-----------------------------------------------------------------------------
(* The parts of the actions. *)

(* Handler n appends t to its log; what it has newly seen, m among it, are messages. *)
Moves(n, m, t) ==
    /\ Inv' /\ log[n] \in Seq(Write) /\ t \in Seq(Write)
    /\ log' = [log EXCEPT ![n] = log[n] \o t]
    /\ t = SubSeq(log'[n], Len(log[n]) + 1, Len(log'[n]))
    /\ log' \in [Node -> Seq(Write)] /\ Range(log'[n]) = Range(log[n]) \union Range(t)
    /\ m \in seen'[n] /\ seen[n] \subseteq seen'[n] /\ seen'[n] \subseteq Message
    /\ \A r \in Node : r # n => seen'[r] = seen[r]

LEMMA AppendedPart ==
    ASSUME NEW S, NEW L \in Seq(S), NEW t \in Seq(S)
    PROVE  t = SubSeq(L \o t, Len(L) + 1, Len(L \o t))
<1>1. PICK M, k, l : M = L \o t /\ k = Len(L) /\ l = Len(t)
  OBVIOUS
<1>2. /\ k \in Nat /\ l \in Nat /\ M \in Seq(S) /\ Len(M) = k + l
      /\ \A i \in 1 .. l : M[k + i] = t[i]
  BY <1>1
<1>3. SubSeq(M, k + 1, k + l) = [i \in 1 .. l |-> M[k + i]]
  BY <1>2
<1>4. t = [i \in 1 .. l |-> t[i]]
  BY <1>1
<1> QED
  BY <1>1, <1>2, <1>3, <1>4

LEMMA HandlerMoves ==
    ASSUME Inv, NEW n \in Node, NEW m, NEW c, NEW q, Accepts(n, m, c, q),
           ReceiveAndReplicate(n, m, c, q)
    PROVE  \E t : Moves(n, m, t)
<1>1. Inv'
  BY HandlerKeepsInv
<1>2. seen' = [seen EXCEPT ![n] = @ \union {m} \union Own(n, m, c, q)]
  BY HandlerMovesMessages DEF MessagesAfter
<1>3. /\ seen \in [Node -> SUBSET Message] /\ seen' \in [Node -> SUBSET Message]
      /\ log \in [Node -> Seq(Write)] /\ log' \in [Node -> Seq(Write)]
  BY <1>1 DEF Inv, TypeOK, Message
<1>4. /\ m \in seen'[n] /\ seen[n] \subseteq seen'[n] /\ seen'[n] \subseteq Message
      /\ \A r \in Node : r # n => seen'[r] = seen[r]
  BY <1>2, <1>3
<1>5. PICK ready, s : Applies(n, m, c, q, ready, s)
  BY HandlerApplies
<1>6. PICK L, t, M : L = log[n] /\ t = [i \in DOMAIN s |-> s[i].id] /\ M = log'[n]
  OBVIOUS
<1>7. log' = [log EXCEPT ![n] = L \o t] /\ L \in Seq(Write) /\ M = L \o t
  BY <1>3, <1>5, <1>6 DEF Applies
<1>8. /\ ready \in SUBSET Message /\ IsFiniteSet(ready)
      /\ s \in [1 .. Cardinality(ready) -> ready] /\ Sorts(s, ready)
  <2>1. /\ IsFiniteSet(Batch(n, m)) /\ Batch(n, m) \in SUBSET Message
        /\ IsFiniteSet(seen[n]) /\ buffer[n] \subseteq seen[n]
    BY BatchIsRun DEF Inv, SeenIsPast, ProcessedIsHeld, Processed, Writes
  <2>2. ready \in SUBSET (seen[n] \union Batch(n, m))
    BY <1>5, <2>1 DEF Applies, Deliverable, Writes
  <2>3. IsFiniteSet(seen[n] \union Batch(n, m))
    BY <2>1, FS_Union
  <2> QED
    BY <1>3, <1>5, <2>1, <2>2, <2>3, FS_Subset DEF Applies
<1>9. Extends(L, t, s, ready) /\ Extends(<<>>, t, s, ready)
  <2>1. \A K \in Seq(Write) : Extends(K, [i \in DOMAIN s |-> s[i].id], s, ready)
    BY <1>8, LogGrows
  <2>2. <<>> \in Seq(Write)
    OBVIOUS
  <2> QED
    BY <2>1, <2>2, <1>6, <1>7
<1>10. t \in Seq(Write) /\ Range(M) = Range(L) \union Range(t)
  <2>1. <<>> \o t = t /\ Range(<<>>) = {}
    BY <1>9 DEF Extends, Range
  <2> QED
    BY <2>1, <1>7, <1>9 DEF Extends
<1>11. t = SubSeq(M, Len(L) + 1, Len(M))
  BY <1>7, <1>10, AppendedPart
<1> QED
  BY <1>1, <1>3, <1>4, <1>6, <1>7, <1>10, <1>11 DEF Moves

(* Node n executes what it appends to its log: from holds who put each operation. *)
Executes(n, m, t, from, d) ==
    /\ Moves(n, m, t)
    /\ d = DeliverAll(t, from, n, [store |-> store[n], results |-> results[n]])
    /\ store' = [store EXCEPT ![n] = d.store]
    /\ results' = [results EXCEPT ![n] = d.results]

LEMMA AcceptExecutes ==
    ASSUME Inv, NEW n \in Node, NEW m, NEW c, NEW q, Accepts(n, m, c, q),
           ReceiveAndReplicate(n, m, c, q), Accept(n)
    PROVE  \E t, from, d : Executes(n, m, t, from, d)
<1>1. PICK t : Moves(n, m, t)
  BY HandlerMoves
<1>2. PICK from : from = Sender'
  OBVIOUS
<1>3. PICK d : d = DeliverAll(t, from, n, [store |-> store[n], results |-> results[n]])
  OBVIOUS
<1>4. Delivered(n) = d
  BY <1>1, <1>2, <1>3 DEF Delivered, Moves
<1>5. store' = [store EXCEPT ![n] = d.store] /\ results' = [results EXCEPT ![n] = d.results]
  BY <1>4 DEF Accept
<1> QED
  BY <1>1, <1>3, <1>5 DEF Executes

LEMMA AcceptKeeps ==
    ASSUME CASInv, NEW n \in Node, NEW m, NEW c, NEW q, Accepts(n, m, c, q),
           ReceiveAndReplicate(n, m, c, q), Accept(n), NEW receipts,
           \A r \in receipts : \E p \in Peers(n) : r = Receipt(m, n, p),
           network' = network \union receipts \union CopiesToPeers(n)
    PROVE  CASInv'
<1>inv. /\ Inv /\ CASTypeOK /\ NetworkIsSeen /\ PendingIsSeen /\ NothingForgotten /\ RetryArmed
  BY DEF CASInv
<1>1. PICK t, from, d : Executes(n, m, t, from, d)
  BY <1>inv, AcceptExecutes
<1>2. /\ Inv' /\ t \in Seq(Write) /\ log' = [log EXCEPT ![n] = log[n] \o t]
      /\ log' \in [Node -> Seq(Write)] /\ Range(log'[n]) = Range(log[n]) \union Range(t)
      /\ m \in seen'[n] /\ seen[n] \subseteq seen'[n] /\ seen'[n] \subseteq Message
      /\ \A r \in Node : r # n => seen'[r] = seen[r]
  BY <1>1 DEF Executes, Moves
<1>3. PICK fresh, peers : fresh = Fresh(n) /\ peers = Peers(n)
  OBVIOUS
<1>4. /\ fresh = seen'[n] \ seen[n] /\ peers = Node \ {n}
      /\ pendingTransmissions' =
             [pendingTransmissions EXCEPT ![n] = @ \union (fresh \X peers)]
      /\ retryScheduled' = [retryScheduled EXCEPT ![n] = @ \/ peers # {}]
      /\ timers' = [timers EXCEPT ![n] =
                       IF retryScheduled[n] \/ peers = {} THEN @ ELSE @ + 1]
  BY <1>3 DEF Accept, SendReliably, Fresh, Peers
<1>5. /\ \A x \in network' : \/ x \in network
                             \/ \E p \in peers : x = Receipt(m, n, p)
                             \/ \E y \in fresh, p \in peers : x = Copy(y, n, p)
  BY <1>3 DEF CopiesToPeers
<1>6. fresh \subseteq Message /\ m \in Message
  BY <1>2, <1>4
<1>7. store' \in [Node -> Value]
      /\ results' \in [Node -> UNION {[W -> Result] : W \in SUBSET Write}]
      /\ \A r \in Node : DOMAIN results'[r] = Range(log'[r])
  <2>1. PICK W, st : W = Range(log[n]) /\ st = [store |-> store[n], results |-> results[n]]
    OBVIOUS
  <2>2. /\ store \in [Node -> Value] /\ log \in [Node -> Seq(Write)]
        /\ results \in [Node -> UNION {[V -> Result] : V \in SUBSET Write}]
        /\ \A r \in Node : DOMAIN results[r] = Range(log[r])
    BY <1>inv DEF CASTypeOK, TypeOK
  <2>3. results[n] \in [W -> Result]
    <3>1. PICK V \in SUBSET Write : results[n] \in [V -> Result]
      BY <2>2
    <3> QED
      BY <3>1, <2>1, <2>2
  <2>4. IsState(st, W)
    BY <2>1, <2>2, <2>3 DEF IsState
  <2>5. IsState(d, W \union Range(t)) /\ d.store \in Value
        /\ d.results \in [W \union Range(t) -> Result]
    <3>1. d = DeliverAll(t, from, n, st)
      BY <1>1, <2>1 DEF Executes
    <3>2. IsState(d, W \union Range(t))
      BY <3>1, <1>2, <2>4, DeliveriesType
    <3> QED
      BY <3>2 DEF IsState
  <2>6. PICK U : U = W \union Range(t)
    OBVIOUS
  <2>7. U = Range(log'[n]) /\ U \in SUBSET Write
    <3>1. PICK L : L = log'[n]
      OBVIOUS
    <3>2. U = Range(L) /\ L \in Seq(Write)
      BY <3>1, <2>1, <2>6, <1>2
    <3>3. Range(L) \in SUBSET Write
      BY <3>2 DEF Range
    <3> QED
      BY <3>1, <3>2, <3>3
  <2>8. d.results \in UNION {[V -> Result] : V \in SUBSET Write} /\ DOMAIN d.results = U
    BY <2>5, <2>6, <2>7
  <2>9. store' = [store EXCEPT ![n] = d.store] /\ results' = [results EXCEPT ![n] = d.results]
    BY <1>1 DEF Executes
  <2>10. \A r \in Node : r # n => log'[r] = log[r]
    BY <1>2, <2>2
  <2> QED
    <3>1. results' \in [Node -> UNION {[V -> Result] : V \in SUBSET Write}]
      BY <2>2, <2>8, <2>9
    <3>2. ASSUME NEW r \in Node PROVE DOMAIN results'[r] = Range(log'[r])
      BY <2>2, <2>7, <2>8, <2>9, <2>10
    <3> QED
      BY <3>1, <3>2, <2>2, <2>5, <2>9
<1>8. /\ pendingTransmissions \in [Node -> SUBSET (Message \X Node)]
      /\ retryScheduled \in [Node -> BOOLEAN] /\ timers \in [Node -> Nat]
      /\ network \in SUBSET [type : {"copy", "transport_receipt"}, msg : Message,
                             from : Node, to : Node]
  BY <1>inv DEF CASTypeOK
<1>9. /\ pendingTransmissions' \in [Node -> SUBSET (Message \X Node)]
      /\ retryScheduled' \in [Node -> BOOLEAN] /\ timers' \in [Node -> Nat]
  <2>1. fresh \X peers \in SUBSET (Message \X Node)
    BY <1>4, <1>6
  <2>2. pendingTransmissions' \in [Node -> SUBSET (Message \X Node)]
    BY <2>1, <1>4, <1>8
  <2>3. retryScheduled' \in [Node -> BOOLEAN]
    BY <1>4, <1>8
  <2>4. timers' \in [Node -> Nat]
    BY <1>4, <1>8
  <2> QED
    BY <2>2, <2>3, <2>4
<1>10. network' \in SUBSET [type : {"copy", "transport_receipt"}, msg : Message,
                            from : Node, to : Node]
  BY <1>4, <1>5, <1>6, <1>8 DEF Receipt, Copy
<1>11. CASTypeOK'
  <2>1. TypeOK'
    BY <1>2 DEF Inv
  <2> QED
    BY <2>1, <1>7, <1>9, <1>10 DEF CASTypeOK, Message
<1>12. NetworkIsSeen'
  <2> SUFFICES ASSUME NEW x \in network' PROVE x.msg \in seen'[x.from] /\ x.from # x.to
    BY DEF NetworkIsSeen
  <2>1. CASE x \in network
    <3>1. x.msg \in seen[x.from] /\ x.from # x.to /\ x.from \in Node
      BY <2>1, <1>8, <1>inv DEF NetworkIsSeen
    <3> QED
      BY <3>1, <1>2
  <2>2. CASE \E p \in peers : x = Receipt(m, n, p)
    BY <2>2, <1>2, <1>4 DEF Receipt
  <2>3. CASE \E y \in fresh, p \in peers : x = Copy(y, n, p)
    BY <2>3, <1>4 DEF Copy
  <2> QED
    BY <2>1, <2>2, <2>3, <1>5
<1>13. PendingIsSeen'
  <2> SUFFICES ASSUME NEW r \in Node, NEW x \in pendingTransmissions'[r]
               PROVE  x[1] \in seen'[r] /\ x[2] # r
    BY DEF PendingIsSeen
  <2>1. CASE x \in pendingTransmissions[r]
    BY <2>1, <1>inv, <1>2 DEF PendingIsSeen
  <2>2. CASE x \notin pendingTransmissions[r]
    <3>1. r = n /\ x \in fresh \X peers
      BY <2>2, <1>4, <1>8
    <3> QED
      BY <3>1, <1>4
  <2> QED
    BY <2>1, <2>2
<1>14. NothingForgotten'
  <2> SUFFICES ASSUME NEW p \in Node, NEW r \in Node, NEW x \in seen'[p] \ seen'[r]
               PROVE  <<x, r>> \in pendingTransmissions'[p]
    BY DEF NothingForgotten
  <2>1. x \notin seen[r] /\ p # r
    BY <1>2
  <2>2. CASE x \in seen[p]
    <3>1. <<x, r>> \in pendingTransmissions[p]
      BY <2>1, <2>2, <1>inv DEF NothingForgotten
    <3> QED
      BY <3>1, <1>4, <1>8
  <2>3. CASE x \notin seen[p]
    <3>1. p = n /\ x \in fresh /\ r \in peers
      BY <2>1, <2>3, <1>2, <1>4
    <3> QED
      BY <3>1, <1>4, <1>8
  <2> QED
    BY <2>2, <2>3
<1>15. RetryArmed'
  <2> SUFFICES ASSUME NEW r \in Node
               PROVE  /\ timers'[r] = IF retryScheduled'[r] THEN 1 ELSE 0
                      /\ pendingTransmissions'[r] # {} => retryScheduled'[r]
    BY DEF RetryArmed
  <2>1. /\ timers[r] = IF retryScheduled[r] THEN 1 ELSE 0
        /\ pendingTransmissions[r] # {} => retryScheduled[r]
        /\ retryScheduled[r] \in BOOLEAN /\ retryScheduled[n] \in BOOLEAN
    BY <1>inv, <1>8 DEF RetryArmed
  <2>2. CASE r # n
    BY <2>1, <2>2, <1>4, <1>8
  <2>3. CASE r = n /\ peers = {}
    BY <2>1, <2>3, <1>4, <1>8
  <2>4. CASE r = n /\ peers # {}
    <3>1. retryScheduled'[n] = TRUE
      BY <2>1, <2>4, <1>4, <1>8
    <3>2. timers'[n] = IF retryScheduled[n] THEN timers[n] ELSE timers[n] + 1
      BY <2>4, <1>4, <1>8
    <3> QED
      BY <3>1, <3>2, <2>1, <2>4
  <2> QED
    BY <2>2, <2>3, <2>4
<1> QED
  BY <1>2, <1>11, <1>12, <1>13, <1>14, <1>15 DEF CASInv
-----------------------------------------------------------------------------
(* The actions. *)

LEMMA ClientOperationKeepsInv ==
    ASSUME CASInv, NEW w \in Write, NEW n \in Node, ClientOperation(w, n)
    PROVE  CASInv'
<1>1. Inv /\ ClientPut(w, n) /\ Accept(n) /\ network' = network \union CopiesToPeers(n)
  BY DEF CASInv, ClientOperation
<1>2. PICK m, c, q : Accepts(n, m, c, q) /\ ReceiveAndReplicate(n, m, c, q)
  BY <1>1, PutIsAccepted
<1>3. PICK receipts : receipts = {}
  OBVIOUS
<1>4. /\ \A r \in receipts : \E p \in Peers(n) : r = Receipt(m, n, p)
      /\ network' = network \union receipts \union CopiesToPeers(n)
  BY <1>1, <1>3
<1> QED
  BY <1>1, <1>2, <1>4, AcceptKeeps

(* A message that arrives for the first time. *)
LEMMA NewCopyIsAccepted ==
    ASSUME CASInv, NEW c \in network, ReceiveCopy(c), c.msg \notin seen[c.to]
    PROVE  LET m == c.msg
               n == c.to
           IN  /\ n \in Node /\ m \in Published \ seen[n]
               /\ Accepts(n, m, Later(n, m) + 1, nextSeq[n])
               /\ ReceiveAndReplicate(n, m, Later(n, m) + 1, nextSeq[n])
               /\ Accept(n) /\ network' = network \union ReceiptFor(c) \union CopiesToPeers(n)
               /\ \A r \in ReceiptFor(c) : \E p \in Peers(n) : r = Receipt(m, n, p)
<1>1. PICK m, n : m = c.msg /\ n = c.to
  OBVIOUS
<1>2. c.from \in Node /\ n \in Node /\ c.from # n /\ m \in seen[c.from] /\ m \notin seen[n]
  BY <1>1 DEF CASInv, CASTypeOK, NetworkIsSeen
<1>3. m \in Published \ seen[n]
  BY <1>2 DEF Published
<1>4. Accepts(n, m, Later(n, m) + 1, nextSeq[n])
  BY <1>2, <1>3, ArrivalIsOfAnother DEF CASInv
<1>5. /\ ReceiveAndReplicate(n, m, Later(n, m) + 1, nextSeq[n])
      /\ Accept(n) /\ network' = network \union ReceiptFor(c) \union CopiesToPeers(n)
  BY <1>1 DEF ReceiveCopy
<1>6. \A r \in ReceiptFor(c) : \E p \in Peers(n) : r = Receipt(m, n, p)
  BY <1>1, <1>2 DEF ReceiptFor, Peers
<1> QED
  BY <1>1, <1>2, <1>3, <1>4, <1>5, <1>6

LEMMA OrderAndStoreStay ==
    ASSUME CASInv, UNCHANGED <<order, executing>>
    PROVE  /\ Inv' /\ TypeOK' /\ store' \in [Node -> Value]
           /\ results' \in [Node -> UNION {[W -> Result] : W \in SUBSET Write}]
           /\ \A n \in Node : DOMAIN results'[n] = Range(log'[n])
           /\ seen' = seen /\ log' = log /\ store' = store /\ results' = results
<1>1. Inv' /\ seen' = seen /\ log' = log /\ store' = store /\ results' = results
  <2>1. UNCHANGED vars
    BY DEF order
  <2>2. Inv'
    BY <2>1, NextKeepsInv DEF CASInv
  <2>3. seen' = seen /\ log' = log
    BY <2>1 DEF vars
  <2> QED
    BY <2>2, <2>3 DEF executing
<1>2. /\ store \in [Node -> Value]
      /\ results \in [Node -> UNION {[W -> Result] : W \in SUBSET Write}]
      /\ \A n \in Node : DOMAIN results[n] = Range(log[n])
  BY DEF CASInv, CASTypeOK
<1>3. TypeOK'
  BY <1>1 DEF Inv
<1> QED
  BY <1>1, <1>2, <1>3

LEMMA ReceiveCopyKeepsInv ==
    ASSUME CASInv, NEW c \in network, ReceiveCopy(c)
    PROVE  CASInv'
<1>1. CASE c.msg \notin seen[c.to]
  BY <1>1, NewCopyIsAccepted, AcceptKeeps
<1>2. CASE c.msg \in seen[c.to]
  <2>1. /\ network' = network \union ReceiptFor(c)
        /\ UNCHANGED <<order, executing>> /\ UNCHANGED sending
    BY <1>2 DEF ReceiveCopy
  <2>2. /\ Inv' /\ TypeOK' /\ store' \in [Node -> Value]
        /\ results' \in [Node -> UNION {[W -> Result] : W \in SUBSET Write}]
        /\ \A n \in Node : DOMAIN results'[n] = Range(log'[n])
        /\ seen' = seen
    BY <2>1, OrderAndStoreStay
  <2>3. /\ pendingTransmissions' = pendingTransmissions
        /\ retryScheduled' = retryScheduled /\ timers' = timers
    BY <2>1 DEF sending
  <2>4. /\ CASTypeOK /\ NetworkIsSeen /\ PendingIsSeen /\ NothingForgotten /\ RetryArmed
    BY DEF CASInv
  <2>5. network' \in SUBSET [type : {"copy", "transport_receipt"}, msg : Message,
                             from : Node, to : Node]
    BY <2>1, <2>4 DEF CASTypeOK, ReceiptFor, Receipt
  <2>6. CASTypeOK'
    BY <2>2, <2>3, <2>4, <2>5 DEF CASTypeOK, Message
  <2>7. NetworkIsSeen'
    BY <1>2, <2>1, <2>2, <2>4 DEF NetworkIsSeen, ReceiptFor, Receipt
  <2>8. PendingIsSeen' /\ NothingForgotten' /\ RetryArmed'
    BY <2>2, <2>3, <2>4 DEF PendingIsSeen, NothingForgotten, RetryArmed
  <2> QED
    BY <2>2, <2>6, <2>7, <2>8 DEF CASInv
<1> QED
  BY <1>1, <1>2

LEMMA ReceiveReceiptKeepsInv ==
    ASSUME CASInv, NEW c \in network, ReceiveReceipt(c)
    PROVE  CASInv'
<1>1. PICK left : left = EndTransmission(c)
  OBVIOUS
<1>2. /\ pendingTransmissions' = [pendingTransmissions EXCEPT ![c.to] = left]
      /\ retryScheduled' = retryScheduled /\ timers' = timers /\ network' = network
      /\ UNCHANGED <<order, executing>>
  BY <1>1 DEF ReceiveReceipt
<1>3. /\ Inv' /\ TypeOK' /\ store' \in [Node -> Value]
      /\ results' \in [Node -> UNION {[W -> Result] : W \in SUBSET Write}]
      /\ \A n \in Node : DOMAIN results'[n] = Range(log'[n])
      /\ seen' = seen
  BY <1>2, OrderAndStoreStay
<1>4. /\ CASTypeOK /\ NetworkIsSeen /\ PendingIsSeen /\ NothingForgotten /\ RetryArmed
  BY DEF CASInv
<1>5. pendingTransmissions \in [Node -> SUBSET (Message \X Node)]
  BY <1>4 DEF CASTypeOK
<1>6. /\ c.to \in Node /\ c.msg \in seen[c.from]
      /\ left = pendingTransmissions[c.to] \ {<<c.msg, c.from>>}
  BY <1>1, <1>4 DEF CASTypeOK, NetworkIsSeen, EndTransmission
<1>7. /\ pendingTransmissions' \in [Node -> SUBSET (Message \X Node)]
      /\ \A n \in Node : /\ pendingTransmissions'[n] \subseteq pendingTransmissions[n]
                         /\ pendingTransmissions[n] \ {<<c.msg, c.from>>}
                                \subseteq pendingTransmissions'[n]
  BY <1>2, <1>5, <1>6
<1>8. CASTypeOK'
  BY <1>2, <1>3, <1>4, <1>7 DEF CASTypeOK, Message
<1>9. NetworkIsSeen' /\ PendingIsSeen' /\ RetryArmed'
  BY <1>2, <1>3, <1>4, <1>7 DEF NetworkIsSeen, PendingIsSeen, RetryArmed
<1>10. NothingForgotten'
  <2> SUFFICES ASSUME NEW p \in Node, NEW r \in Node, NEW x \in seen[p] \ seen[r]
               PROVE  <<x, r>> \in pendingTransmissions'[p]
    BY <1>3 DEF NothingForgotten
  <2>1. <<x, r>> \in pendingTransmissions[p]
    BY <1>4 DEF NothingForgotten
  <2>2. <<x, r>> # <<c.msg, c.from>>
    BY <1>6
  <2> QED
    BY <2>1, <2>2, <1>7
<1> QED
  BY <1>3, <1>8, <1>9, <1>10 DEF CASInv

LEMMA RetryPendingKeepsInv ==
    ASSUME CASInv, NEW n \in Node, RetryPending(n)
    PROVE  CASInv'
<1>1. PICK pending : pending = pendingTransmissions[n]
  OBVIOUS
<1>2. /\ timers[n] > 0 /\ pendingTransmissions' = pendingTransmissions
      /\ network' = network \union {Copy(t[1], n, t[2]) : t \in pending}
      /\ retryScheduled' = [retryScheduled EXCEPT ![n] = pending # {}]
      /\ timers' = [timers EXCEPT ![n] = @ - 1 + IF pending # {} THEN 1 ELSE 0]
      /\ UNCHANGED <<order, executing>>
  BY <1>1 DEF RetryPending
<1>3. /\ Inv' /\ TypeOK' /\ store' \in [Node -> Value]
      /\ results' \in [Node -> UNION {[W -> Result] : W \in SUBSET Write}]
      /\ \A r \in Node : DOMAIN results'[r] = Range(log'[r])
      /\ seen' = seen
  BY <1>2, OrderAndStoreStay
<1>4. /\ CASTypeOK /\ NetworkIsSeen /\ PendingIsSeen /\ NothingForgotten /\ RetryArmed
  BY DEF CASInv
<1>5. /\ pendingTransmissions \in [Node -> SUBSET (Message \X Node)]
      /\ retryScheduled \in [Node -> BOOLEAN] /\ timers \in [Node -> Nat]
      /\ network \in SUBSET [type : {"copy", "transport_receipt"}, msg : Message,
                             from : Node, to : Node]
  BY <1>4 DEF CASTypeOK
<1>6. timers[n] = 1 /\ timers'[n] = IF pending # {} THEN 1 ELSE 0
  <2>1. timers[n] = 1
    BY <1>2, <1>4 DEF RetryArmed
  <2>2. timers'[n] = timers[n] - 1 + IF pending # {} THEN 1 ELSE 0
    BY <1>2, <1>5
  <2> QED
    BY <2>1, <2>2
<1>7. timers' \in [Node -> Nat] /\ retryScheduled' \in [Node -> BOOLEAN]
  <2>1. (1 - 1) + (IF pending # {} THEN 1 ELSE 0) \in Nat
    OBVIOUS
  <2>2. timers' \in [Node -> Nat]
    BY <2>1, <1>2, <1>5, <1>6
  <2> QED
    BY <2>2, <1>2, <1>5
<1>8. \A t \in pending : /\ t[1] \in seen[n] /\ t[1] \in Message /\ t[2] \in Node /\ t[2] # n
  BY <1>1, <1>4, <1>5 DEF PendingIsSeen
<1>9. network' \in SUBSET [type : {"copy", "transport_receipt"}, msg : Message,
                           from : Node, to : Node]
  BY <1>2, <1>5, <1>8 DEF Copy
<1>10. CASTypeOK'
  BY <1>2, <1>3, <1>5, <1>7, <1>9 DEF CASTypeOK, Message
<1>11. NetworkIsSeen'
  <2> SUFFICES ASSUME NEW x \in network' PROVE x.msg \in seen[x.from] /\ x.from # x.to
    BY <1>3 DEF NetworkIsSeen
  <2>1. CASE x \in network
    BY <2>1, <1>4 DEF NetworkIsSeen
  <2>2. CASE x \in {Copy(t[1], n, t[2]) : t \in pending}
    BY <2>2, <1>8 DEF Copy
  <2> QED
    BY <2>1, <2>2, <1>2
<1>12. PendingIsSeen' /\ NothingForgotten'
  BY <1>2, <1>3, <1>4 DEF PendingIsSeen, NothingForgotten
<1>13. RetryArmed'
  <2> SUFFICES ASSUME NEW r \in Node
               PROVE  /\ timers'[r] = IF retryScheduled'[r] THEN 1 ELSE 0
                      /\ pendingTransmissions[r] # {} => retryScheduled'[r]
    BY <1>2 DEF RetryArmed
  <2>1. CASE r # n
    <3>1. timers'[r] = timers[r] /\ retryScheduled'[r] = retryScheduled[r]
      BY <2>1, <1>2, <1>5
    <3> QED
      BY <3>1, <1>4 DEF RetryArmed
  <2>2. CASE r = n
    <3>1. retryScheduled'[n] <=> pending # {}
      BY <1>2, <1>5
    <3> QED
      BY <3>1, <2>2, <1>1, <1>6
  <2> QED
    BY <2>1, <2>2
<1> QED
  BY <1>3, <1>10, <1>11, <1>12, <1>13 DEF CASInv

LEMMA CASInvIsInitial == CASInit => CASInv
<1> SUFFICES ASSUME CASInit PROVE CASInv
  OBVIOUS
<1>1. Inv
  BY InvIsInitial DEF CASInit
<1>2. /\ store = [n \in Node |-> None] /\ results = [n \in Node |-> <<>>]
      /\ pendingTransmissions = [n \in Node |-> {}] /\ network = {}
      /\ retryScheduled = [n \in Node |-> FALSE] /\ timers = [n \in Node |-> 0]
      /\ \A n \in Node : log[n] = <<>> /\ seen[n] = {}
  BY DEF CASInit, Init
<1>3. /\ <<>> \in [{} -> Result] /\ Range(<<>>) = {} /\ DOMAIN <<>> = {}
  BY DEF Range
<1>4. results \in [Node -> UNION {[W -> Result] : W \in SUBSET Write}]
  <2>1. <<>> \in UNION {[W -> Result] : W \in SUBSET Write}
    BY <1>3
  <2> QED
    BY <2>1, <1>2
<1>5. CASTypeOK
  <2>1. \A n \in Node : DOMAIN results[n] = Range(log[n])
    BY <1>2, <1>3
  <2> QED
    BY <2>1, <1>1, <1>2, <1>4, NoneIsAValue DEF CASTypeOK, Inv
<1> QED
  BY <1>1, <1>2, <1>5 DEF CASInv, NetworkIsSeen, PendingIsSeen, NothingForgotten, RetryArmed

LEMMA CASNextKeepsInv == CASInv /\ [CASNext]_casVars => CASInv'
<1> SUFFICES ASSUME CASInv, [CASNext]_casVars PROVE CASInv'
  OBVIOUS
<1>1. CASE CASNext
  BY <1>1, ClientOperationKeepsInv, ReceiveCopyKeepsInv, ReceiveReceiptKeepsInv,
     RetryPendingKeepsInv DEF CASNext
<1>2. CASE UNCHANGED casVars
  <2>1. UNCHANGED <<order, executing>> /\ UNCHANGED sending /\ network' = network
    BY <1>2 DEF casVars
  <2>2. /\ Inv' /\ TypeOK' /\ store' \in [Node -> Value]
        /\ results' \in [Node -> UNION {[W -> Result] : W \in SUBSET Write}]
        /\ \A n \in Node : DOMAIN results'[n] = Range(log'[n])
        /\ seen' = seen
    BY <2>1, OrderAndStoreStay
  <2>3. /\ pendingTransmissions' = pendingTransmissions
        /\ retryScheduled' = retryScheduled /\ timers' = timers
    BY <2>1 DEF sending
  <2>4. CASTypeOK'
    BY <2>1, <2>2, <2>3 DEF CASTypeOK, Message, CASInv
  <2>5. NetworkIsSeen' /\ PendingIsSeen'
    BY <2>1, <2>2, <2>3 DEF CASInv, NetworkIsSeen, PendingIsSeen
  <2>6. NothingForgotten' /\ RetryArmed'
    BY <2>2, <2>3 DEF CASInv, NothingForgotten, RetryArmed
  <2> QED
    BY <2>2, <2>4, <2>5, <2>6 DEF CASInv
<1> QED
  BY <1>1, <1>2

(* What the nodes hold, remember and have sent is consistent in every reachable state *)
(* (CASInv): no transmission is of a message its sender has not seen, and no receipt  *)
(* speaks for a message its sender has not seen (on_message of NodeCAS).              *)
THEOREM CASInvariance == CASSpec => []CASInv
<1> QED
  BY CASInvIsInitial, CASNextKeepsInv, PTL DEF CASSpec

(* A node goes on sending a message to each peer that has not seen it, whatever is lost, *)
(* repeated or late among copies and receipts (_send_reliably, _retry_pending).          *)
THEOREM Persistence == CASSpec => []NothingForgotten
<1>1. CASInv => NothingForgotten
  BY DEF CASInv
<1> QED
  BY <1>1, CASInvariance, PTL

(* Exactly one retry timer runs while a receipt is missing (_schedule_retry). *)
THEOREM RetryDiscipline == CASSpec => []RetryArmed
<1>1. CASInv => RetryArmed
  BY DEF CASInv
<1> QED
  BY <1>1, CASInvariance, PTL
-----------------------------------------------------------------------------
(* The order, and the execution in that order. *)

(* Every behaviour of NodeCAS orders operations as LamportOrder does: a handler is a step *)
(* of it, and receipts, retries and repeated copies change nothing of the order.          *)
THEOREM CASRefinement == CASSpec => ImplementsLamportOrder
<1>1. CASInit => Init
  BY DEF CASInit
<1>2. CASInv /\ [CASNext]_casVars => [Next]_vars
  <2> SUFFICES ASSUME CASInv, [CASNext]_casVars PROVE Next \/ UNCHANGED vars
    OBVIOUS
  <2>1. ASSUME NEW w \in Write, NEW n \in Node, ClientOperation(w, n) PROVE Next
    BY <2>1 DEF ClientOperation, Next
  <2>2. ASSUME NEW c \in network, ReceiveCopy(c) PROVE Next \/ UNCHANGED vars
    <3>1. CASE c.msg \in seen[c.to]
      BY <2>2, <3>1 DEF ReceiveCopy, order
    <3>2. CASE c.msg \notin seen[c.to]
      <4>1. PICK m, n : m = c.msg /\ n = c.to
        OBVIOUS
      <4>2. /\ n \in Node /\ m \in Published \ seen[n]
            /\ ReceiveAndReplicate(n, m, Later(n, m) + 1, nextSeq[n])
        BY <2>2, <3>2, <4>1, NewCopyIsAccepted
      <4>3. Receive(n)
        BY <4>2 DEF Receive
      <4> QED
        BY <4>2, <4>3 DEF Next
    <3> QED
      BY <3>1, <3>2
  <2>3. ASSUME NEW c \in network, ReceiveReceipt(c) PROVE UNCHANGED vars
    BY <2>3 DEF ReceiveReceipt, order
  <2>4. ASSUME NEW n \in Node, RetryPending(n) PROVE UNCHANGED vars
    BY <2>4 DEF RetryPending, order
  <2>5. CASE UNCHANGED casVars
    BY <2>5 DEF casVars, order
  <2> QED
    BY <2>1, <2>2, <2>3, <2>4, <2>5 DEF CASNext
<1> QED
  BY <1>1, <1>2, CASInvariance, PTL DEF CASSpec, ImplementsLamportOrder, Spec

(* What deliveries leave is a store and results, and nothing else. *)
LEMMA DeliveriesAreRecords ==
    ASSUME NEW s \in Seq(Write), NEW from, NEW n, NEW st,
           st = [store |-> st.store, results |-> st.results]
    PROVE  LET d == DeliverAll(s, from, n, st)
           IN  d = [store |-> d.store, results |-> d.results]
<1>1. PICK k : k = Len(s)
  OBVIOUS
<1>2. k \in Nat /\ DOMAIN s = 1 .. k
  BY <1>1
<1>3. PICK h, e : /\ IsTrace(h, k, s, from, n, st) /\ DeliverAll(s, from, n, st) = h[k]
                  /\ e = h[k]
  BY <1>2, DeliveriesHaveTrace
<1>4. e = [store |-> e.store, results |-> e.results]
  <2>1. CASE k = 0
    BY <2>1, <1>3 DEF IsTrace
  <2>2. CASE k # 0
    <3>1. k \in 1 .. k
      BY <2>2, <1>2
    <3>2. h[k] = Deliver(h[k - 1], s[k], from[s[k]], n)
      BY <3>1, <1>3 DEF IsTrace
    <3> QED
      BY <3>2, <1>3 DEF Deliver
  <2> QED
    BY <2>1, <2>2
<1> QED
  BY <1>3, <1>4

LEMMA SequentialGrows ==
    ASSUME ValuesSurvive, NEW L \in Seq(Write), NEW t \in Seq(Write), NEW from, NEW n,
           NEW u, NEW r, Sequential(L).store = u, Sequential(L).results = r
    PROVE  Sequential(L \o t) = DeliverAll(t, from, n, [store |-> u, results |-> r])
<1>1. PICK zero, st : /\ zero = [w \in Write |-> 0]
                      /\ st = [store |-> None, results |-> <<>>]
  OBVIOUS
<1>2. \A s : Sequential(s) = DeliverAll(s, zero, 0, st)
  BY <1>1 DEF Sequential
<1>3. st = [store |-> st.store, results |-> st.results]
  BY <1>1
<1>4. Sequential(L) = [store |-> u, results |-> r]
  BY <1>2, <1>3, DeliveriesAreRecords
<1>5. DeliverAll(L \o t, zero, 0, st) = DeliverAll(t, zero, 0, Sequential(L))
  BY <1>2, DeliveriesCompose
<1>6. DeliverAll(t, zero, 0, Sequential(L)) = DeliverAll(t, from, n, Sequential(L))
  BY <1>1, DeliveriesSurvive
<1> QED
  BY <1>2, <1>4, <1>5, <1>6

LEMMA ExecutionFollowsOrder ==
    ASSUME ValuesSurvive, CASInv, ResultsFollowOrder, NEW n \in Node, NEW m, NEW t, NEW from,
           NEW d, Executes(n, m, t, from, d)
    PROVE  ResultsFollowOrder'
<1>1. /\ t \in Seq(Write) /\ log' = [log EXCEPT ![n] = log[n] \o t]
      /\ d = DeliverAll(t, from, n, [store |-> store[n], results |-> results[n]])
      /\ store' = [store EXCEPT ![n] = d.store] /\ results' = [results EXCEPT ![n] = d.results]
  BY DEF Executes, Moves
<1>2. log \in [Node -> Seq(Write)] /\ store \in [Node -> Value] /\ DOMAIN results = Node
  BY DEF CASInv, CASTypeOK, TypeOK
<1>3. \A r \in Node : /\ Sequential(log[r]).store = store[r]
                      /\ Sequential(log[r]).results = results[r]
  BY DEF ResultsFollowOrder
<1>4. PICK L : L = log[n]
  OBVIOUS
<1>5. L \in Seq(Write) /\ Sequential(L).store = store[n] /\ Sequential(L).results = results[n]
  BY <1>2, <1>3, <1>4
<1>6. Sequential(L \o t) = d
  BY <1>1, <1>5, SequentialGrows
<1>7. ASSUME NEW r \in Node
      PROVE  /\ store'[r] = Sequential(log'[r]).store
             /\ results'[r] = Sequential(log'[r]).results
  <2>1. CASE r = n
    <3>1. log'[n] = L \o t /\ store'[n] = d.store /\ results'[n] = d.results
      BY <1>1, <1>2, <1>4
    <3> QED
      BY <3>1, <2>1, <1>6
  <2>2. CASE r # n
    <3>1. log'[r] = log[r] /\ store'[r] = store[r] /\ results'[r] = results[r]
      BY <2>2, <1>1, <1>2
    <3> QED
      BY <3>1, <1>3
  <2> QED
    BY <2>1, <2>2
<1> QED
  BY <1>7 DEF ResultsFollowOrder

(* Linearizability: where JSON leaves the values of the operations as they are, the store *)
(* of every node and every result it has returned are those of one sequential execution   *)
(* of the common order ("Execute an operation only after total-order delivery").          *)
THEOREM Linearizability ==
    ASSUME ValuesSurvive
    PROVE  CASSpec => []ResultsFollowOrder
<1>1. CASInit => ResultsFollowOrder
  <2> SUFFICES ASSUME CASInit, NEW n \in Node
               PROVE  /\ store[n] = Sequential(log[n]).store
                      /\ results[n] = Sequential(log[n]).results
    BY DEF ResultsFollowOrder
  <2>1. store[n] = None /\ results[n] = <<>> /\ log[n] = <<>>
    BY DEF CASInit, Init
  <2>2. Sequential(<<>>) = [store |-> None, results |-> <<>>]
    <3>1. PICK zero, st, s : /\ zero = [w \in Write |-> 0] /\ s = <<>>
                             /\ st = [store |-> None, results |-> <<>>]
      OBVIOUS
    <3>2. DOMAIN s = 1 .. 0 /\ 0 \in Nat
      BY <3>1
    <3>3. PICK h : IsTrace(h, 0, s, zero, 0, st) /\ DeliverAll(s, zero, 0, st) = h[0]
      BY <3>2, DeliveriesHaveTrace
    <3> QED
      BY <3>1, <3>3 DEF Sequential, IsTrace
  <2> QED
    BY <2>1, <2>2
<1>2. CASInv /\ ResultsFollowOrder /\ [CASNext]_casVars => ResultsFollowOrder'
  <2> SUFFICES ASSUME CASInv, ResultsFollowOrder, [CASNext]_casVars PROVE ResultsFollowOrder'
    OBVIOUS
  <2>0. Inv
    BY DEF CASInv
  <2>1. ASSUME UNCHANGED <<order, executing>> PROVE ResultsFollowOrder'
    <3>1. log' = log /\ store' = store /\ results' = results
      BY <2>1, OrderAndStoreStay
    <3> QED
      BY <3>1 DEF ResultsFollowOrder
  <2>2. ASSUME NEW w \in Write, NEW n \in Node, ClientOperation(w, n)
        PROVE  ResultsFollowOrder'
    <3>1. PICK m, c, q : /\ Accepts(n, m, c, q) /\ ReceiveAndReplicate(n, m, c, q)
                         /\ Accept(n)
      BY <2>0, <2>2, PutIsAccepted DEF ClientOperation
    <3>2. PICK t, from, d : Executes(n, m, t, from, d)
      BY <2>0, <3>1, AcceptExecutes
    <3> QED
      BY <3>2, ExecutionFollowsOrder
  <2>3. ASSUME NEW c \in network, ReceiveCopy(c) PROVE ResultsFollowOrder'
    <3>1. CASE c.msg \in seen[c.to]
      <4>1. UNCHANGED <<order, executing>>
        BY <2>3, <3>1 DEF ReceiveCopy
      <4> QED
        BY <4>1, <2>1
    <3>2. CASE c.msg \notin seen[c.to]
      <4>1. PICK m, n : m = c.msg /\ n = c.to
        OBVIOUS
      <4>2. /\ n \in Node /\ Accepts(n, m, Later(n, m) + 1, nextSeq[n])
            /\ ReceiveAndReplicate(n, m, Later(n, m) + 1, nextSeq[n]) /\ Accept(n)
        BY <2>3, <3>2, <4>1, NewCopyIsAccepted
      <4>3. PICK t, from, d : Executes(n, m, t, from, d)
        BY <2>0, <4>2, AcceptExecutes
      <4> QED
        BY <4>2, <4>3, ExecutionFollowsOrder
    <3> QED
      BY <3>1, <3>2
  <2>4. ASSUME NEW c \in network, ReceiveReceipt(c) PROVE ResultsFollowOrder'
    BY <2>1, <2>4 DEF ReceiveReceipt
  <2>5. ASSUME NEW n \in Node, RetryPending(n) PROVE ResultsFollowOrder'
    BY <2>1, <2>5 DEF RetryPending
  <2>6. CASE UNCHANGED casVars
    BY <2>1, <2>6 DEF casVars
  <2> QED
    BY <2>2, <2>3, <2>4, <2>5, <2>6 DEF CASNext
<1> QED
  BY <1>1, <1>2, CASInvariance, PTL DEF CASSpec

(* So what LamportOrder promises of writes NodeCAS promises of operations: one order for *)
(* all, in which none is executed before its position is safe (_try_deliver).            *)
THEOREM CASOneOrder ==
    CASSpec => /\ ImplementsBroadcast
               /\ [](Broadcast!Agreement /\ Broadcast!Integrity)
               /\ [](AppliedIsClosed /\ SettledMeansApplied)
  BY CASRefinement, Refinement, OneOrder, Closure, Settlement, PTL DEF ImplementsLamportOrder

(* Replicas that have executed the same operations hold the same value, where JSON leaves *)
(* the values as they are: it is only deliver's comparison with a value that the wire has *)
(* changed that lets them part (sim_send_many.py: "leaves every node with the same        *)
(* value").                                                                               *)
THEOREM Agreement ==
    ASSUME ValuesSurvive
    PROVE  CASSpec => []ReplicasAgree
<1>1. ResultsFollowOrder => ReplicasAgree
  <2> SUFFICES ASSUME ResultsFollowOrder, NEW m \in Node, NEW n \in Node, log[m] = log[n]
               PROVE  store[m] = store[n]
    BY DEF ReplicasAgree
  <2>1. store[m] = Sequential(log[m]).store /\ store[n] = Sequential(log[n]).store
    BY DEF ResultsFollowOrder
  <2> QED
    BY <2>1
<1> QED
  BY <1>1, Linearizability, PTL
=============================================================================
