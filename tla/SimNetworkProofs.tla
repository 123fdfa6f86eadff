--------------------------- MODULE SimNetworkProofs ---------------------------
(***************************************************************************)
(* Proofs about SimNetwork for any nodes, messages and rules, any number   *)
(* of installed rules, and rules that come and go at any time: every copy  *)
(* is accounted for, and the rules in force at the send decide its fate.   *)
(***************************************************************************)
EXTENDS SimNetwork, NaturalsInduction, FiniteSetTheorems, TLAPS

-----------------------------------------------------------------------------
(* Induction over sets of numbers and of finite sets, and sums. *)

LEMMA EveryNumber ==
    ASSUME NEW C, 0 \in C, \A k \in Nat : k \in C => k + 1 \in C
    PROVE  \A k \in Nat : k \in C
<1> DEFINE D == {k \in Nat : k \notin C}
<1>1. SUFFICES ASSUME D # {} PROVE FALSE
  OBVIOUS
<1>2. \E l \in D : \A r \in D : <<r, l>> \notin OpToRel(<, Nat)
  BY <1>1, NatLessThanWellFounded, WFMin, Zenon
<1>3. PICK l \in D : \A r \in D : ~(r < l)
  BY <1>2, Zenon DEF OpToRel
<1>4. l # 0
  OBVIOUS
<1>5. l - 1 \in Nat /\ l - 1 < l /\ (l - 1) + 1 = l
  BY <1>4
<1>6. l - 1 \in C
  BY <1>3, <1>5
<1> QED
  BY <1>5, <1>6

(* The element with which a sum over T begins. *)
Pick(T) == CHOOSE x \in T : TRUE

LEMMA PickIsElement ==
    ASSUME NEW T, T # {}
    PROVE  Pick(T) \in T
  BY DEF Pick

LEMMA EverySubset ==
    ASSUME NEW S, IsFiniteSet(S), NEW C, {} \in C,
           \A T \in SUBSET S : T # {} /\ T \ {Pick(T)} \in C => T \in C
    PROVE  \A T \in SUBSET S : T \in C
<1> DEFINE D == {k \in Nat : \A T \in SUBSET S : Cardinality(T) = k => T \in C}
<1>1. ASSUME NEW T \in SUBSET S
      PROVE  IsFiniteSet(T) /\ Cardinality(T) \in Nat /\ (Cardinality(T) = 0 <=> T = {})
  BY FS_Subset, FS_CardinalityType, FS_EmptySet
<1>2. 0 \in D
  BY <1>1
<1>3. ASSUME NEW k \in Nat, k \in D PROVE k + 1 \in D
  <2> SUFFICES ASSUME NEW T \in SUBSET S, Cardinality(T) = k + 1 PROVE T \in C
    OBVIOUS
  <2>1. T # {} /\ IsFiniteSet(T)
    BY <1>1
  <2>2. PICK p, U : p = Pick(T) /\ U = T \ {p}
    OBVIOUS
  <2>3. U \in SUBSET S /\ Cardinality(U) = k
    <3>1. p \in T
      BY <2>1, <2>2, PickIsElement
    <3>2. Cardinality(U) = Cardinality(T) - 1
      BY <3>1, <2>1, <2>2, FS_RemoveElement
    <3> QED
      BY <3>2, <2>2
  <2> QED
    BY <1>3, <2>1, <2>2, <2>3
<1>4. \A k \in Nat : k \in D
  <2> HIDE DEF D
  <2> QED
    BY <1>2, <1>3, EveryNumber
<1> QED
  BY <1>1, <1>4

(* g[T] is the sum of f over the part T of S. *)
IsSum(g, S, f) ==
    g = [T \in SUBSET S |-> IF T = {} THEN 0 ELSE f[Pick(T)] + g[T \ {Pick(T)}]]

LEMMA SumsExist ==
    ASSUME NEW S, IsFiniteSet(S), NEW f
    PROVE  \E g : IsSum(g, S, f)
<1> DEFINE Upto(k) == {T \in SUBSET S : Cardinality(T) =< k}
           IsPart(h, k) ==
               h = [T \in Upto(k) |-> IF T = {} THEN 0 ELSE f[Pick(T)] + h[T \ {Pick(T)}]]
           C == {k \in Nat : \E h : IsPart(h, k)}
<1>1. ASSUME NEW T \in SUBSET S
      PROVE  IsFiniteSet(T) /\ Cardinality(T) \in Nat /\ (Cardinality(T) = 0 <=> T = {})
  BY FS_Subset, FS_CardinalityType, FS_EmptySet
<1>2. 0 \in C
  <2>1. Upto(0) = {{}}
    BY <1>1
  <2>2. IsPart([T \in Upto(0) |-> 0], 0)
    BY <2>1
  <2> QED
    BY <2>2
<1>3. ASSUME NEW k \in Nat, k \in C PROVE k + 1 \in C
  <2>1. PICK h : IsPart(h, k)
    BY <1>3
  <2> DEFINE j == [T \in Upto(k + 1) |-> IF T = {} THEN 0 ELSE f[Pick(T)] + h[T \ {Pick(T)}]]
  <2>2. ASSUME NEW T \in Upto(k + 1), T # {}
        PROVE  j[T \ {Pick(T)}] = h[T \ {Pick(T)}]
    <3>1. PICK U : U = T \ {Pick(T)}
      OBVIOUS
    <3>2. U \in Upto(k) /\ U \in Upto(k + 1)
      <4>1. Cardinality(T) \in Nat /\ Cardinality(T) =< k + 1 /\ IsFiniteSet(T)
        BY <1>1, <2>2
      <4>2. Cardinality(U) = Cardinality(T) - 1 /\ U \in SUBSET S
        BY <3>1, <4>1, <2>2, PickIsElement, FS_RemoveElement
      <4> QED
        BY <4>1, <4>2
    <3> HIDE DEF Upto
    <3>3. h[U] = IF U = {} THEN 0 ELSE f[Pick(U)] + h[U \ {Pick(U)}]
      BY <2>1, <3>2
    <3>4. j[U] = IF U = {} THEN 0 ELSE f[Pick(U)] + h[U \ {Pick(U)}]
      BY <3>2
    <3> QED
      BY <3>1, <3>3, <3>4
  <2> HIDE DEF Upto
  <2>3. \A T \in Upto(k + 1) : j[T] = IF T = {} THEN 0 ELSE f[Pick(T)] + j[T \ {Pick(T)}]
    BY <2>2
  <2>4. IsPart(j, k + 1)
    BY <2>3
  <2> HIDE DEF IsPart, j
  <2> QED
    BY <2>4
<1>4. \A k \in Nat : k \in C
  <2> HIDE DEF C
  <2> QED
    BY <1>2, <1>3, EveryNumber
<1>5. PICK h : IsPart(h, Cardinality(S))
  BY <1>4, FS_CardinalityType
<1>6. Upto(Cardinality(S)) = SUBSET S
  BY FS_Subset
<1> QED
  BY <1>5, <1>6 DEF IsSum

LEMMA SumIsSum ==
    ASSUME NEW S, IsFiniteSet(S), NEW f, DOMAIN f = S
    PROVE  \E g : IsSum(g, S, f) /\ Sum(f) = g[S]
<1> DEFINE g == CHOOSE g : IsSum(g, S, f)
<1>1. IsSum(g, S, f)
  BY SumsExist, Zenon
<1>2. Sum(f) = g[S]
  BY DEF Sum, MapThenSumSet, MapThenFoldSet, IsSum, Pick
<1> QED
  BY <1>1, <1>2

LEMMA SumIsNatural ==
    ASSUME NEW S, IsFiniteSet(S), NEW f \in [S -> Nat]
    PROVE  Sum(f) \in Nat
<1>1. PICK g : IsSum(g, S, f) /\ Sum(f) = g[S]
  BY SumIsSum
<1> DEFINE C == {T \in SUBSET S : g[T] \in Nat}
<1>2. {} \in C
  BY <1>1 DEF IsSum
<1>3. ASSUME NEW T \in SUBSET S, T # {}, T \ {Pick(T)} \in C PROVE T \in C
  <2>1. Pick(T) \in S
    BY <1>3, PickIsElement
  <2>2. g[T] = f[Pick(T)] + g[T \ {Pick(T)}]
    BY <1>1, <1>3 DEF IsSum
  <2> QED
    BY <1>3, <2>1, <2>2
<1>4. S \in C
  <2> HIDE DEF C
  <2> QED
    BY <1>2, <1>3, EverySubset
<1> QED
  BY <1>1, <1>4

LEMMA SumOfZeros ==
    ASSUME NEW S, IsFiniteSet(S), NEW f, DOMAIN f = S, \A x \in S : f[x] = 0
    PROVE  Sum(f) = 0
<1>1. PICK g : IsSum(g, S, f) /\ Sum(f) = g[S]
  BY SumIsSum
<1> DEFINE C == {T \in SUBSET S : g[T] = 0}
<1>2. {} \in C
  BY <1>1 DEF IsSum
<1>3. ASSUME NEW T \in SUBSET S, T # {}, T \ {Pick(T)} \in C PROVE T \in C
  <2>1. Pick(T) \in S
    BY <1>3, PickIsElement
  <2>2. g[T] = f[Pick(T)] + g[T \ {Pick(T)}]
    BY <1>1, <1>3 DEF IsSum
  <2> QED
    BY <1>3, <2>1, <2>2
<1>4. S \in C
  <2> HIDE DEF C
  <2> QED
    BY <1>2, <1>3, EverySubset
<1> QED
  BY <1>1, <1>4

(* Two sums that differ in the number for x only. *)
DifferBy(f, h, x) == Sum(h) + f[x] = Sum(f) + h[x]
AgreeBut(S, f, h, x) == \A y \in S : y # x => f[y] = h[y]

LEMMA SumsDiffer ==
    ASSUME NEW S, IsFiniteSet(S), NEW f \in [S -> Nat], NEW h \in [S -> Nat], NEW x \in S,
           AgreeBut(S, f, h, x)
    PROVE  DifferBy(f, h, x)
<1>1. PICK d : IsSum(d, S, f) /\ Sum(f) = d[S]
  BY SumIsSum
<1>2. PICK e : IsSum(e, S, h) /\ Sum(h) = e[S]
  BY SumIsSum
<1> DEFINE C == {T \in SUBSET S : /\ d[T] \in Nat /\ e[T] \in Nat
                                  /\ IF x \in T THEN e[T] + f[x] = d[T] + h[x]
                                                ELSE e[T] = d[T]}
<1>3. {} \in C
  BY <1>1, <1>2 DEF IsSum
<1>4. ASSUME NEW T \in SUBSET S, T # {}, T \ {Pick(T)} \in C PROVE T \in C
  <2>1. PICK p, U : p = Pick(T) /\ U = T \ {p}
    OBVIOUS
  <2>2. p \in T /\ p \in S /\ U \in C
    BY <1>4, <2>1, PickIsElement
  <2>3. d[T] = f[p] + d[U] /\ e[T] = h[p] + e[U]
    BY <1>1, <1>2, <1>4, <2>1 DEF IsSum
  <2>4. /\ f[p] \in Nat /\ h[p] \in Nat /\ d[U] \in Nat /\ e[U] \in Nat
        /\ f[x] \in Nat /\ h[x] \in Nat
    BY <2>2
  <2>5. CASE p = x
    <3>1. x \notin U /\ x \in T /\ e[U] = d[U]
      BY <2>1, <2>2, <2>5
    <3> QED
      BY <3>1, <2>3, <2>4, <2>5
  <2>6. CASE p # x
    <3>1. x \in T <=> x \in U
      BY <2>1, <2>6
    <3>2. IF x \in U THEN e[U] + f[x] = d[U] + h[x] ELSE e[U] = d[U]
      BY <2>2
    <3>3. f[p] = h[p]
      BY <2>2, <2>6 DEF AgreeBut
    <3> QED
      BY <3>1, <3>2, <3>3, <2>3, <2>4
  <2> QED
    BY <2>5, <2>6
<1>5. S \in C
  <2> HIDE DEF C
  <2> QED
    BY <1>3, <1>4, EverySubset
<1> QED
  BY <1>1, <1>2, <1>5 DEF DifferBy

LEMMA PositionsAreFinite ==
    ASSUME NEW K \in Nat
    PROVE  IsFiniteSet(1 .. K)
<1>1. 1 \in Int /\ K \in Int
  OBVIOUS
<1> QED
  BY <1>1, FS_Interval, Zenon

(* l up to position j, and nothing behind it. *)
Upto(l, j) == [i \in DOMAIN l |-> IF i =< j THEN l[i] ELSE 0]

LEMMA UptoIsTyped ==
    ASSUME NEW K \in Nat, NEW l \in [1 .. K -> Nat], NEW j \in Nat
    PROVE  Upto(l, j) \in [1 .. K -> Nat] /\ Sum(Upto(l, j)) \in Nat
<1>1. PICK u : u = Upto(l, j)
  OBVIOUS
<1>2. u \in [1 .. K -> Nat]
  BY <1>1 DEF Upto
<1>3. Sum(u) \in Nat
  <2>1. PICK D : D = 1 .. K
    OBVIOUS
  <2>2. IsFiniteSet(D) /\ u \in [D -> Nat]
    BY <2>1, <1>2, PositionsAreFinite, Zenon
  <2> QED
    BY <2>2, SumIsNatural
<1> QED
  BY <1>1, <1>2, <1>3

LEMMA UptoNothing ==
    ASSUME NEW K \in Nat, NEW l \in [1 .. K -> Nat]
    PROVE  Sum(Upto(l, 0)) = 0
<1>1. PICK u, D : u = Upto(l, 0) /\ D = 1 .. K
  OBVIOUS
<1>2. IsFiniteSet(D)
  BY <1>1, PositionsAreFinite, Zenon
<1>3. DOMAIN u = D /\ \A i \in D : u[i] = 0
  BY <1>1 DEF Upto
<1>4. Sum(u) = 0
  BY <1>2, <1>3, SumOfZeros
<1> QED
  BY <1>1, <1>4

LEMMA UptoNext ==
    ASSUME NEW K \in Nat, NEW l \in [1 .. K -> Nat], NEW j \in Nat, NEW k, k = j + 1, k =< K
    PROVE  Sum(Upto(l, k)) = Sum(Upto(l, j)) + l[k]
<1>1. PICK f, h, D : f = Upto(l, j) /\ h = Upto(l, k) /\ D = 1 .. K
  OBVIOUS
<1>2. /\ f \in [D -> Nat] /\ h \in [D -> Nat]
      /\ Sum(f) \in Nat /\ Sum(h) \in Nat
  <2>1. k \in Nat
    OBVIOUS
  <2> QED
    BY <2>1, <1>1, UptoIsTyped
<1>3. IsFiniteSet(D) /\ k \in D
  <2>1. IsFiniteSet(D)
    BY <1>1, PositionsAreFinite, Zenon
  <2>2. k \in D
    BY <1>1
  <2> QED
    BY <2>1, <2>2
<1>4. f[k] = 0 /\ h[k] = l[k] /\ l[k] \in Nat /\ \A i \in D : i # k => f[i] = h[i]
  BY <1>1 DEF Upto
<1>5. Sum(h) + f[k] = Sum(f) + h[k]
  <2>1. AgreeBut(D, f, h, k)
    BY <1>4 DEF AgreeBut
  <2>2. DifferBy(f, h, k)
    BY <2>1, <1>2, <1>3, SumsDiffer, Zenon
  <2> QED
    BY <2>2 DEF DifferBy
<1>6. PICK a, b : a = Sum(h) /\ b = Sum(f)
  OBVIOUS
<1>7. a = b + l[k]
  BY <1>2, <1>4, <1>5, <1>6
<1> QED
  BY <1>1, <1>6, <1>7

LEMMA UptoAll ==
    ASSUME NEW K \in Nat, NEW l \in [1 .. K -> Nat]
    PROVE  Upto(l, K) = l
  BY DEF Upto
-----------------------------------------------------------------------------
(* What the rules make of one send. *)

(* What came to the first rule and was added is what was lost and has left the last. *)
LEMMA RunsBalance ==
    ASSUME NEW K \in Nat, NEW counts \in [1 .. K + 1 -> Nat]
    PROVE  Sum([i \in 1 .. K |-> Added(counts, i)]) + counts[1]
               = Sum([i \in 1 .. K |-> Lost(counts, i)]) + counts[K + 1]
<1>1. PICK a, l : /\ a = [i \in 1 .. K |-> Added(counts, i)]
                  /\ l = [i \in 1 .. K |-> Lost(counts, i)]
  OBVIOUS
<1>2. ASSUME NEW i \in 1 .. K
      PROVE  /\ counts[i] \in Nat /\ counts[i + 1] \in Nat
             /\ Added(counts, i) \in Nat /\ Lost(counts, i) \in Nat
             /\ Added(counts, i) + counts[i] = Lost(counts, i) + counts[i + 1]
  <2>1. counts[i] \in Nat /\ counts[i + 1] \in Nat
    OBVIOUS
  <2> QED
    BY <2>1 DEF Added, Lost
<1>3. a \in [1 .. K -> Nat] /\ l \in [1 .. K -> Nat]
  BY <1>1, <1>2
<1> DEFINE C == {j \in Nat : j =< K => Sum(Upto(a, j)) + counts[1]
                                         = Sum(Upto(l, j)) + counts[j + 1]}
<1>4. 0 \in C
  <2>1. Sum(Upto(a, 0)) = 0 /\ Sum(Upto(l, 0)) = 0
    BY <1>3, UptoNothing
  <2>2. 0 + counts[1] = 0 + counts[0 + 1]
    OBVIOUS
  <2> QED
    BY <2>1, <2>2
<1>5. ASSUME NEW j \in Nat, j \in C PROVE j + 1 \in C
  <2>1. PICK k : k = j + 1
    OBVIOUS
  <2> SUFFICES ASSUME k =< K
               PROVE  Sum(Upto(a, k)) + counts[1] = Sum(Upto(l, k)) + counts[k + 1]
    BY <2>1
  <2>2. k \in 1 .. K /\ k \in Nat
    BY <2>1
  <2>3. PICK a0, a1, l0, l1 : /\ a0 = Sum(Upto(a, j)) /\ a1 = Sum(Upto(a, k))
                              /\ l0 = Sum(Upto(l, j)) /\ l1 = Sum(Upto(l, k))
    OBVIOUS
  <2>4. a0 \in Nat /\ a1 \in Nat /\ l0 \in Nat /\ l1 \in Nat
    BY <2>2, <2>3, <1>3, UptoIsTyped
  <2>5. a1 = a0 + a[k] /\ l1 = l0 + l[k]
    BY <2>1, <2>3, <1>3, UptoNext
  <2>6. a0 + counts[1] = l0 + counts[k]
    BY <1>5, <2>1, <2>3
  <2>7. a[k] \in Nat /\ l[k] \in Nat /\ a[k] + counts[k] = l[k] + counts[k + 1]
    BY <1>1, <1>2, <2>2
  <2>8. counts[1] \in Nat /\ counts[k] \in Nat /\ counts[k + 1] \in Nat
    BY <2>2
  <2>9. a1 + counts[1] = l1 + counts[k + 1]
    <3>1. PICK c, d, e, x, y : /\ c = counts[1] /\ d = counts[k] /\ e = counts[k + 1]
                               /\ x = a[k] /\ y = l[k]
      OBVIOUS
    <3>2. c \in Nat /\ d \in Nat /\ e \in Nat /\ x \in Nat /\ y \in Nat
      BY <3>1, <2>7, <2>8, Zenon
    <3>3. a1 = a0 + x /\ l1 = l0 + y /\ a0 + c = l0 + d /\ x + d = y + e
      BY <3>1, <2>5, <2>6, <2>7, Zenon
    <3>4. a1 + c = l1 + e
      BY <3>2, <3>3, <2>4
    <3> QED
      BY <3>1, <3>4, Zenon
  <2> QED
    BY <2>3, <2>9
<1>6. K \in C
  <2> HIDE DEF C
  <2> QED
    BY <1>4, <1>5, EveryNumber
<1>7. Upto(a, K) = a /\ Upto(l, K) = l
  BY <1>3, UptoAll
<1>8. Sum(a) + counts[1] = Sum(l) + counts[K + 1]
  BY <1>6, <1>7
<1> QED
  BY <1>1, <1>8

(* The losses, rule by rule, are all the losses, even if one rule is installed twice. *)
LEMMA LossesByRule ==
    ASSUME NEW K \in Nat, NEW s \in [1 .. K -> Rule], NEW l \in [1 .. K -> Nat]
    PROVE  Sum([r \in Rule |-> Sum([i \in 1 .. K |-> IF s[i] = r THEN l[i] ELSE 0])]) = Sum(l)
<1>1. PICK of : of = [r \in Rule |-> [i \in 1 .. K |-> IF s[i] = r THEN l[i] ELSE 0]]
  OBVIOUS
<1>2. of \in [Rule -> [1 .. K -> Nat]]
  BY <1>1
<1> DEFINE byRule(j) == [r \in Rule |-> Sum(Upto(of[r], j))]
           C == {j \in Nat : j =< K => Sum(byRule(j)) = Sum(Upto(l, j))}
<1>3. ASSUME NEW j \in Nat
      PROVE  byRule(j) \in [Rule -> Nat] /\ Sum(byRule(j)) \in Nat
  <2>1. PICK b : b = byRule(j)
    OBVIOUS
  <2>2. b \in [Rule -> Nat]
    BY <2>1, <1>2, UptoIsTyped
  <2>3. Sum(b) \in Nat
    BY <2>2, FinitelyMany, SumIsNatural
  <2> QED
    BY <2>1, <2>2, <2>3
<1>4. 0 \in C
  <2>1. PICK b : b = byRule(0)
    OBVIOUS
  <2>2. DOMAIN b = Rule /\ \A r \in Rule : b[r] = 0
    BY <2>1, <1>2, UptoNothing
  <2>3. Sum(b) = 0
    BY <2>2, FinitelyMany, SumOfZeros
  <2> QED
    BY <2>1, <2>3, UptoNothing
<1>5. ASSUME NEW j \in Nat, j \in C PROVE j + 1 \in C
  <2>1. PICK k : k = j + 1
    OBVIOUS
  <2> SUFFICES ASSUME k =< K PROVE Sum(byRule(k)) = Sum(Upto(l, k))
    BY <2>1
  <2>2. PICK q : q = s[k]
    OBVIOUS
  <2>3. k \in 1 .. K /\ k \in Nat /\ q \in Rule
    BY <2>1, <2>2
  <2>4. PICK f, h : f = byRule(j) /\ h = byRule(k)
    OBVIOUS
  <2>5. f \in [Rule -> Nat] /\ h \in [Rule -> Nat] /\ Sum(f) \in Nat /\ Sum(h) \in Nat
    BY <1>3, <2>3, <2>4
  <2>6. ASSUME NEW r \in Rule
        PROVE  h[r] = f[r] + IF r = q THEN l[k] ELSE 0
    <3>1. of[r] \in [1 .. K -> Nat] /\ of[r][k] = IF r = q THEN l[k] ELSE 0
      BY <1>1, <1>2, <2>2, <2>3
    <3>2. Sum(Upto(of[r], k)) = Sum(Upto(of[r], j)) + of[r][k]
      BY <3>1, <2>1, UptoNext
    <3> QED
      BY <3>1, <3>2, <2>4
  <2>7. \A r \in Rule : r # q => f[r] = h[r]
    BY <2>5, <2>6
  <2>8. Sum(h) + f[q] = Sum(f) + h[q]
    <3>1. IsFiniteSet(Rule)
      BY FinitelyMany
    <3>2. AgreeBut(Rule, f, h, q)
      BY <2>7 DEF AgreeBut
    <3>3. DifferBy(f, h, q)
      BY <3>1, <3>2, <2>3, <2>5, SumsDiffer, Zenon
    <3> QED
      BY <3>3 DEF DifferBy
  <2>9. PICK x, y, z : x = Sum(h) /\ y = Sum(f) /\ z = Sum(Upto(l, k))
    OBVIOUS
  <2>10. x = y + l[k]
    <3>1. PICK u, v, w : u = f[q] /\ v = h[q] /\ w = l[k]
      OBVIOUS
    <3>2. u \in Nat /\ v \in Nat /\ w \in Nat /\ v = u + w
      BY <3>1, <2>3, <2>5, <2>6
    <3>3. x + u = y + v /\ x \in Nat /\ y \in Nat
      BY <3>1, <2>5, <2>8, <2>9, Zenon
    <3>4. x = y + w
      BY <3>2, <3>3
    <3> QED
      BY <3>1, <3>4, Zenon
  <2>11. z = y + l[k]
    <3>1. y = Sum(Upto(l, j))
      BY <1>5, <2>1, <2>4, <2>9
    <3> QED
      BY <3>1, <2>1, <2>9, UptoNext
  <2> QED
    BY <2>4, <2>9, <2>10, <2>11
<1>6. K \in C
  <2> HIDE DEF C
  <2> QED
    BY <1>4, <1>5, EveryNumber
<1>7. Sum(byRule(K)) = Sum(l)
  BY <1>6, UptoAll
<1>8. byRule(K) = [r \in Rule |-> Sum([i \in 1 .. K |-> IF s[i] = r THEN l[i] ELSE 0])]
  <2>1. \A r \in Rule : Upto(of[r], K) = [i \in 1 .. K |-> IF s[i] = r THEN l[i] ELSE 0]
    BY <1>1, <1>2, UptoAll
  <2> QED
    BY <2>1
<1> QED
  BY <1>7, <1>8

(* The nodes in no group are on one side together. *)
LEMMA SidesSeparate ==
    ASSUME NEW r \in Rule, r.kind = "partition", NEW a \in Node, NEW b \in Node
    PROVE  SameSide(r, a, b) <=> ~Separates(r, a, b)
<1>1. \A g, h \in r.groups : g = h \/ g \intersect h = {}
  BY RulesAreKnown
<1>2. ASSUME SameSide(r, a, b) PROVE ~Separates(r, a, b)
  <2>1. CASE \E g \in r.groups : a \in g
    BY <1>2, <2>1 DEF SameSide, Separates
  <2>2. CASE \A g \in r.groups : a \notin g
    <3>1. a \notin UNION r.groups /\ b \notin UNION r.groups
      BY <1>2, <2>2 DEF SameSide
    <3>2. PICK G, o : G = r.groups \union {Node \ UNION r.groups} /\ o = Node \ UNION r.groups
      OBVIOUS
    <3>3. o \in G /\ {a, b} \subseteq o
      BY <3>1, <3>2
    <3>4. ~\A g \in G : ~({a, b} \subseteq g)
      BY <3>3, Zenon
    <3> QED
      BY <3>2, <3>4, Zenon DEF Separates
  <2> QED
    BY <2>1, <2>2
<1>3. ASSUME ~Separates(r, a, b) PROVE SameSide(r, a, b)
  <2>1. \E g \in r.groups \union {Node \ UNION r.groups} : a \in g /\ b \in g
    BY <1>3 DEF Separates
  <2>2. CASE \E g \in r.groups : a \in g /\ b \in g
    BY <1>1, <2>2 DEF SameSide
  <2>3. CASE a \in Node \ UNION r.groups /\ b \in Node \ UNION r.groups
    BY <2>3 DEF SameSide
  <2> QED
    BY <2>1, <2>2, <2>3
<1> QED
  BY <1>2, <1>3

(* What one rule may do. *)
Takes(r, a, b) == r.kind \in {"drop", "custom"} \/ Separates(r, a, b)

LEMMA LeavesAreBounded ==
    ASSUME NEW r \in Rule, NEW a \in Node, NEW b \in Node, NEW k \in Nat,
           NEW l \in Leaves(r, a, b, k)
    PROVE  /\ l \in Nat
           /\ Separates(r, a, b) => l = 0
           /\ k = 0 /\ r.kind # "custom" => l = 0
           /\ r.kind \notin {"duplicate", "custom"} => l =< k
           /\ ~Takes(r, a, b) => l >= k
<1>1. CASE r.kind = "delay"
  BY <1>1 DEF Leaves, Takes, Separates
<1>2. CASE r.kind = "drop"
  BY <1>2 DEF Leaves, Takes, Separates
<1>3. CASE r.kind = "duplicate"
  BY <1>3 DEF Leaves, Takes, Separates
<1>4. CASE r.kind = "custom"
  BY <1>4 DEF Leaves, Takes, Separates
<1>5. CASE r.kind = "partition"
  <2>1. l = IF SameSide(r, a, b) THEN k ELSE 0
    BY <1>5 DEF Leaves
  <2>2. SameSide(r, a, b) <=> ~Separates(r, a, b)
    BY <1>5, SidesSeparate
  <2> QED
    BY <1>5, <2>1, <2>2 DEF Takes
<1> QED
  BY <1>1, <1>2, <1>3, <1>4, <1>5, RulesAreKnown

(* What all of them do to the copy of one send: a is the sender, b the receiver. *)
LEMMA RunsAreBounded ==
    ASSUME rules \in Seq(Rule), NEW a \in Node, NEW b \in Node, NEW counts \in Runs(a, b),
           NEW K, K = Len(rules)
    PROVE  /\ K \in Nat
           /\ rules \in [1 .. K -> Rule]
           /\ counts \in [1 .. K + 1 -> Nat]
           /\ counts[1] = 1
           /\ \A i \in 1 .. K : counts[i + 1] \in Leaves(rules[i], a, b, counts[i])
<1>1. K \in Nat /\ rules \in [1 .. K -> Rule] /\ DOMAIN rules = 1 .. K
  OBVIOUS
<1>2. counts \in [1 .. K + 1 -> 0 .. MaxReturned * 2 ^ K]
  BY DEF Runs
<1>3. 0 .. MaxReturned * 2 ^ K \subseteq Nat
  OBVIOUS
<1>4. counts[1] = 1 /\ \A i \in DOMAIN rules : counts[i + 1] \in Leaves(rules[i], a, b, counts[i])
  BY DEF Runs
<1> QED
  BY <1>1, <1>2, <1>3, <1>4

LEMMA RunsFollowRules ==
    ASSUME rules \in Seq(Rule), NEW a \in Node, NEW b \in Node, NEW counts \in Runs(a, b),
           NEW K, K = Len(rules)
    PROVE  /\ CutOff(rules, a, b) => counts[K + 1] = 0
           /\ (\A i \in 1 .. K : ~Takes(rules[i], a, b)) => counts[K + 1] >= 1
           /\ (\A i \in 1 .. K : rules[i].kind \notin {"duplicate", "custom"})
                  => counts[K + 1] =< 1
           /\ \A i \in 1 .. K : Lost(counts, i) > 0 => Takes(rules[i], a, b)
<1>1. /\ K \in Nat
      /\ rules \in [1 .. K -> Rule]
      /\ counts \in [1 .. K + 1 -> Nat]
      /\ counts[1] = 1
      /\ \A i \in 1 .. K : counts[i + 1] \in Leaves(rules[i], a, b, counts[i])
  BY RunsAreBounded
<1>2. ASSUME NEW i \in 1 .. K, NEW j, j = i + 1
      PROVE  /\ counts[i] \in Nat /\ counts[j] \in Nat
             /\ Separates(rules[i], a, b) => counts[j] = 0
             /\ counts[i] = 0 /\ rules[i].kind # "custom" => counts[j] = 0
             /\ rules[i].kind \notin {"duplicate", "custom"} => counts[j] =< counts[i]
             /\ ~Takes(rules[i], a, b) => counts[j] >= counts[i]
  <2>1. rules[i] \in Rule /\ counts[i] \in Nat /\ counts[j] \in Leaves(rules[i], a, b, counts[i])
    BY <1>1, <1>2
  <2>2. PICK r, k, l : r = rules[i] /\ k = counts[i] /\ l = counts[j]
    OBVIOUS
  <2>3. r \in Rule /\ k \in Nat /\ l \in Leaves(r, a, b, k)
    BY <2>1, <2>2
  <2>4. /\ l \in Nat
        /\ Separates(r, a, b) => l = 0
        /\ k = 0 /\ r.kind # "custom" => l = 0
        /\ r.kind \notin {"duplicate", "custom"} => l =< k
        /\ ~Takes(r, a, b) => l >= k
    BY <2>3, LeavesAreBounded
  <2> QED
    BY <2>2, <2>3, <2>4
<1>3. ASSUME NEW i \in 1 .. K, Separates(rules[i], a, b),
             \A j \in i + 1 .. K : rules[j].kind # "custom"
      PROVE  counts[K + 1] = 0
  <2> DEFINE C == {j \in Nat : i =< j /\ j =< K => counts[j + 1] = 0}
  <2>1. 0 \in C
    BY <1>1
  <2>2. ASSUME NEW j \in Nat, j \in C PROVE j + 1 \in C
    <3>1. PICK k : k = j + 1
      OBVIOUS
    <3> SUFFICES ASSUME i =< k, k =< K PROVE counts[k + 1] = 0
      BY <3>1
    <3>2. k \in 1 .. K /\ (k = i \/ i =< j)
      BY <1>1, <3>1
    <3>3. CASE k = i
      BY <1>2, <1>3, <3>3
    <3>4. CASE i =< j
      <4>1. counts[k] = 0
        BY <1>1, <2>2, <3>1, <3>4
      <4>2. rules[k].kind # "custom"
        <5>1. k \in i + 1 .. K
          BY <1>1, <3>1, <3>2, <3>4
        <5> QED
          BY <5>1, <1>3
      <4> QED
        BY <4>1, <4>2, <3>2, <1>2
    <3> QED
      BY <3>2, <3>3, <3>4
  <2>3. K \in C
    <3> HIDE DEF C
    <3> QED
      BY <1>1, <2>1, <2>2, EveryNumber
  <2> QED
    BY <2>3, <1>1
<1>4. ASSUME \A i \in 1 .. K : ~Takes(rules[i], a, b) PROVE counts[K + 1] >= 1
  <2> DEFINE C == {j \in Nat : j =< K => counts[j + 1] >= 1}
  <2>1. 0 \in C
    BY <1>1
  <2>2. ASSUME NEW j \in Nat, j \in C PROVE j + 1 \in C
    <3>1. PICK k : k = j + 1
      OBVIOUS
    <3> SUFFICES ASSUME k =< K PROVE counts[k + 1] >= 1
      BY <3>1
    <3>2. k \in 1 .. K
      BY <1>1, <3>1
    <3>3. counts[k] >= 1
      BY <2>2, <3>1, <1>1
    <3>4. counts[k] \in Nat /\ counts[k + 1] \in Nat /\ counts[k + 1] >= counts[k]
      BY <1>2, <1>4, <3>2
    <3> QED
      BY <3>3, <3>4
  <2>3. K \in C
    <3> HIDE DEF C
    <3> QED
      BY <1>1, <2>1, <2>2, EveryNumber
  <2> QED
    BY <2>3
<1>5. ASSUME \A i \in 1 .. K : rules[i].kind \notin {"duplicate", "custom"}
      PROVE  counts[K + 1] =< 1
  <2> DEFINE C == {j \in Nat : j =< K => counts[j + 1] =< 1}
  <2>1. 0 \in C
    BY <1>1
  <2>2. ASSUME NEW j \in Nat, j \in C PROVE j + 1 \in C
    <3>1. PICK k : k = j + 1
      OBVIOUS
    <3> SUFFICES ASSUME k =< K PROVE counts[k + 1] =< 1
      BY <3>1
    <3>2. k \in 1 .. K
      BY <1>1, <3>1
    <3>3. counts[k] =< 1
      BY <2>2, <3>1, <1>1
    <3>4. counts[k] \in Nat /\ counts[k + 1] \in Nat /\ counts[k + 1] =< counts[k]
      BY <1>2, <1>5, <3>2
    <3> QED
      BY <3>3, <3>4
  <2>3. K \in C
    <3> HIDE DEF C
    <3> QED
      BY <1>1, <2>1, <2>2, EveryNumber
  <2> QED
    BY <2>3
<1>6. ASSUME NEW i \in 1 .. K, Lost(counts, i) > 0 PROVE Takes(rules[i], a, b)
  <2>1. PICK j : j = i + 1
    OBVIOUS
  <2>2. counts[j] < counts[i]
    BY <1>6, <2>1 DEF Lost
  <2> QED
    BY <1>2, <2>1, <2>2
<1>7. CutOff(rules, a, b) => counts[K + 1] = 0
  <2>1. DOMAIN rules = 1 .. K
    BY <1>1
  <2> QED
    BY <2>1, <1>3 DEF CutOff
<1> QED
  BY <1>4, <1>5, <1>6, <1>7

Tally(lost, added, left, row, a, b) ==
    /\ lost \in Nat /\ added \in Nat /\ left \in Nat
    /\ 1 + added = lost + left
    /\ row \in [Rule -> Nat]
    /\ Sum(row) = lost
    /\ \A r \in Rule : row[r] > 0 => r \in Range(rules) /\ Takes(r, a, b)

LEMMA SendTally ==
    ASSUME rules \in Seq(Rule), NEW a \in Node, NEW b \in Node, NEW counts \in Runs(a, b),
           NEW lost, lost = Sum([i \in DOMAIN rules |-> Lost(counts, i)]),
           NEW added, added = Sum([i \in DOMAIN rules |-> Added(counts, i)]),
           NEW left, left = counts[Len(rules) + 1],
           NEW row, row = [r \in Rule |->
               Sum([i \in DOMAIN rules |-> IF rules[i] = r THEN Lost(counts, i) ELSE 0])]
    PROVE  Tally(lost, added, left, row, a, b)
<1>1. PICK K : K = Len(rules)
  OBVIOUS
<1>2. /\ K \in Nat
      /\ rules \in [1 .. K -> Rule]
      /\ counts \in [1 .. K + 1 -> Nat]
      /\ counts[1] = 1
  BY <1>1, RunsAreBounded
<1>3. DOMAIN rules = 1 .. K
  BY <1>1
<1>4. PICK l, p, of : /\ l = [i \in 1 .. K |-> Lost(counts, i)]
                      /\ p = [i \in 1 .. K |-> Added(counts, i)]
                      /\ of = [r \in Rule |-> [i \in 1 .. K |-> IF rules[i] = r THEN l[i] ELSE 0]]
  OBVIOUS
<1>5. ASSUME NEW i \in 1 .. K PROVE Lost(counts, i) \in Nat /\ Added(counts, i) \in Nat
  <2>1. counts[i] \in Nat /\ counts[i + 1] \in Nat
    BY <1>2
  <2> QED
    BY <2>1 DEF Lost, Added
<1>6. l \in [1 .. K -> Nat] /\ p \in [1 .. K -> Nat] /\ of \in [Rule -> [1 .. K -> Nat]]
  BY <1>4, <1>5
<1>7. /\ lost = Sum(l) /\ added = Sum(p) /\ left = counts[K + 1]
      /\ row = [r \in Rule |-> Sum(of[r])]
  <2>1. lost = Sum(l) /\ added = Sum(p) /\ left = counts[K + 1]
    BY <1>1, <1>3, <1>4
  <2>2. ASSUME NEW r \in Rule
        PROVE  [i \in DOMAIN rules |-> IF rules[i] = r THEN Lost(counts, i) ELSE 0] = of[r]
    BY <1>3, <1>4
  <2>3. row = [r \in Rule |-> Sum(of[r])]
    BY <2>2
  <2> QED
    BY <2>1, <2>3
<1>8. IsFiniteSet(1 .. K)
  BY <1>2, PositionsAreFinite
<1>9. lost \in Nat /\ added \in Nat /\ left \in Nat
  <2>1. Sum(l) \in Nat /\ Sum(p) \in Nat
    BY <1>6, <1>8, SumIsNatural, Zenon
  <2>2. K + 1 \in 1 .. K + 1
    BY <1>2
  <2>3. counts[K + 1] \in Nat
    BY <1>2, <2>2
  <2> QED
    BY <1>7, <2>1, <2>3
<1>10. 1 + added = lost + left
  <2>1. Sum(p) + counts[1] = Sum(l) + counts[K + 1]
    BY <1>2, <1>4, RunsBalance
  <2>2. added + 1 = lost + left
    BY <2>1, <1>2, <1>7
  <2> QED
    BY <2>2, <1>9
<1>11. row \in [Rule -> Nat]
  <2>1. ASSUME NEW r \in Rule PROVE Sum(of[r]) \in Nat
    <3>1. of[r] \in [1 .. K -> Nat]
      BY <1>6
    <3> QED
      BY <3>1, <1>8, SumIsNatural, Zenon
  <2> QED
    BY <2>1, <1>7
<1>12. Sum(row) = lost
  <2>1. Sum([r \in Rule |-> Sum([i \in 1 .. K |-> IF rules[i] = r THEN l[i] ELSE 0])]) = Sum(l)
    BY <1>2, <1>6, LossesByRule
  <2>2. row = [r \in Rule |-> Sum([i \in 1 .. K |-> IF rules[i] = r THEN l[i] ELSE 0])]
    BY <1>4, <1>7
  <2> QED
    BY <2>1, <2>2, <1>7
<1>13. ASSUME NEW r \in Rule, row[r] > 0 PROVE r \in Range(rules) /\ Takes(r, a, b)
  <2>1. PICK i \in 1 .. K : of[r][i] # 0
    <3> SUFFICES ASSUME \A i \in 1 .. K : of[r][i] = 0 PROVE FALSE
      OBVIOUS
    <3>1. DOMAIN of[r] = 1 .. K
      BY <1>6
    <3>2. Sum(of[r]) = 0
      BY <3>1, <1>8, SumOfZeros
    <3> QED
      BY <3>2, <1>7, <1>13
  <2>2. rules[i] = r /\ l[i] # 0
    BY <2>1, <1>4
  <2>3. Lost(counts, i) > 0
    BY <2>2, <1>4, <1>5
  <2>4. Takes(rules[i], a, b)
    BY <2>3, <1>1, RunsFollowRules
  <2> QED
    BY <2>2, <2>4, <1>3 DEF Range
<1> QED
  BY <1>9, <1>10, <1>11, <1>12, <1>13 DEF Tally

(* Two sums of which h has v where f has 0. *)
FilledBy(f, h, v) == Sum(f) \in Nat /\ Sum(h) = Sum(f) + v

LEMMA SumFilled ==
    ASSUME NEW S, IsFiniteSet(S), NEW f \in [S -> Nat], NEW x \in S, f[x] = 0,
           NEW v \in Nat, NEW h, h = [f EXCEPT ![x] = v]
    PROVE  FilledBy(f, h, v)
<1>1. h \in [S -> Nat] /\ h[x] = v
  OBVIOUS
<1>2. Sum(f) \in Nat /\ Sum(h) \in Nat
  BY <1>1, SumIsNatural
<1>3. AgreeBut(S, f, h, x)
  BY DEF AgreeBut
<1>4. DifferBy(f, h, x)
  BY <1>1, <1>3, SumsDiffer, Zenon
<1>5. PICK F, H : F = Sum(f) /\ H = Sum(h)
  OBVIOUS
<1>6. H + 0 = F + v
  BY <1>1, <1>4, <1>5, Zenon DEF DifferBy
<1>7. H = F + v
  BY <1>2, <1>5, <1>6
<1> QED
  BY <1>2, <1>5, <1>7 DEF FilledBy

LEMMA SumOneMore ==
    ASSUME NEW S, IsFiniteSet(S), NEW f \in [S -> Nat], NEW x \in S,
           NEW h, h = [f EXCEPT ![x] = @ + 1]
    PROVE  Sum(f) \in Nat /\ Sum(h) = Sum(f) + 1
<1>1. f[x] \in Nat /\ h[x] = f[x] + 1 /\ h[x] \in Nat /\ h \in [S -> Nat]
  OBVIOUS
<1>2. Sum(f) \in Nat /\ Sum(h) \in Nat
  BY <1>1, SumIsNatural
<1>3. AgreeBut(S, f, h, x)
  BY DEF AgreeBut
<1>4. DifferBy(f, h, x)
  BY <1>1, <1>3, SumsDiffer, Zenon
<1>5. PICK u, v, F, H : u = f[x] /\ v = h[x] /\ F = Sum(f) /\ H = Sum(h)
  OBVIOUS
<1>6. H + u = F + v
  BY <1>4, <1>5, Zenon DEF DifferBy
<1>7. u \in Nat /\ F \in Nat /\ H \in Nat /\ v = u + 1
  BY <1>1, <1>2, <1>5, Zenon
<1>8. H = F + 1
  BY <1>6, <1>7
<1> QED
  BY <1>5, <1>7, <1>8, Zenon

PutBack(S, g, h, x) == h \in [S -> Nat] /\ g = [h EXCEPT ![x] = @ + 1]

LEMMA TakenAndPutBack ==
    ASSUME NEW S, NEW g \in [S -> Nat], NEW x \in S, g[x] # 0,
           NEW h, h = [g EXCEPT ![x] = @ - 1]
    PROVE  PutBack(S, g, h, x)
<1>1. PICK u : u = g[x] /\ u \in Nat /\ u - 1 \in Nat /\ (u - 1) + 1 = u
  OBVIOUS
<1>2. h \in [S -> Nat] /\ h[x] = u - 1 /\ h = [g EXCEPT ![x] = u - 1]
  BY <1>1
<1>3. h[x] + 1 = g[x]
  BY <1>1, <1>2
<1>4. \A y \in S : [h EXCEPT ![x] = @ + 1][y] = g[y]
  BY <1>2, <1>3
<1>5. g = [h EXCEPT ![x] = @ + 1]
  BY <1>2, <1>4
<1> QED
  BY <1>2, <1>5 DEF PutBack
-----------------------------------------------------------------------------
(* The steps. *)

LEMMA SmallestIsElement ==
    ASSUME NEW I \in SUBSET Nat, I # {}
    PROVE  Min(I) \in I
<1>1. \E l \in I : \A r \in I : <<r, l>> \notin OpToRel(<, Nat)
  BY NatLessThanWellFounded, WFMin, Zenon
<1>2. PICK l \in I : \A r \in I : ~(r < l)
  BY <1>1, Zenon DEF OpToRel
<1>3. \A r \in I : l =< r
  BY <1>2
<1> QED
  BY <1>3, Zenon DEF Min

LEMMA RemovalIsTyped ==
    ASSUME NEW R, NEW s \in Seq(R), NEW r
    PROVE  RemoveFirst(s, r) \in Seq(R)
<1>1. CASE \E i \in 1 .. Len(s) : s[i] = r
  <2>1. PICK I : I = {i \in 1 .. Len(s) : s[i] = r}
    OBVIOUS
  <2>2. I \in SUBSET Nat /\ I # {}
    BY <1>1, <2>1
  <2>3. PICK k : k = Min(I)
    OBVIOUS
  <2>4. k \in 1 .. Len(s)
    BY <2>1, <2>2, <2>3, SmallestIsElement
  <2>5. RemoveFirst(s, r) = SubSeq(s, 1, k - 1) \o SubSeq(s, k + 1, Len(s))
    BY <1>1, <2>1, <2>2, <2>3, Zenon DEF RemoveFirst, RemoveAt, SelectInSeq
  <2> QED
    BY <2>4, <2>5
<1>2. CASE ~\E i \in 1 .. Len(s) : s[i] = r
  BY <1>2 DEF RemoveFirst
<1> QED
  BY <1>1, <1>2

LEMMA InitKeepsInv == Init => Inv
<1> SUFFICES ASSUME Init PROVE Inv
  OBVIOUS
<1>1. TypeOK
  BY BoundsAreNatural DEF Init, TypeOK, Counter
<1>2. MessagesAreSentOnce
  BY FS_EmptySet DEF Init, MessagesAreSentOnce
<1>3. UnsentIsNowhere
  BY DEF Init, UnsentIsNowhere
<1>4. NothingUnaccounted
  <2>1. Cardinality(sends) = 0
    BY FS_EmptySet DEF Init
  <2>2. Sum(deliveries) = 0 /\ Sum(inFlight) = 0 /\ Sum(raised) = 0
    BY FinitelyMany, SumOfZeros DEF Init
  <2>3. PICK d : d = [m \in Message |-> Sum(drops[m])]
    OBVIOUS
  <2>4. ASSUME NEW m \in Message PROVE d[m] = 0
    <3>1. DOMAIN drops[m] = Rule /\ \A r \in Rule : drops[m][r] = 0
      BY DEF Init
    <3>2. Sum(drops[m]) = 0
      BY <3>1, FinitelyMany, SumOfZeros
    <3> QED
      BY <3>2, <2>3
  <2>5. Sum(d) = 0
    <3>1. DOMAIN d = Message
      BY <2>3
    <3> QED
      BY <3>1, <2>4, FinitelyMany, SumOfZeros
  <2>6. \A c \in Counter : stats[c] = 0
    BY DEF Init
  <2> QED
    BY <2>1, <2>2, <2>3, <2>5, <2>6 DEF NothingUnaccounted, Counter
<1>5. FateFollowsRules
  BY DEF Init, FateFollowsRules
<1> QED
  BY <1>1, <1>2, <1>3, <1>4, <1>5 DEF Inv

(* What concerns nodes, rules and payloads leaves the messages where they are. *)
LEMMA OthersKeepAccounts ==
    ASSUME Inv, UNCHANGED <<stats, inFlight, sends, drops, deliveries, raised>>
    PROVE  MessagesAreSentOnce' /\ UnsentIsNowhere' /\ NothingUnaccounted' /\ FateFollowsRules'
<1>1. MessagesAreSentOnce'
  BY DEF Inv, MessagesAreSentOnce
<1>2. UnsentIsNowhere'
  BY DEF Inv, UnsentIsNowhere
<1>3. NothingUnaccounted'
  BY DEF Inv, NothingUnaccounted
<1>4. FateFollowsRules'
  BY DEF Inv, FateFollowsRules
<1> QED
  BY <1>1, <1>2, <1>3, <1>4

LEMMA OthersKeepInv ==
    ASSUME Inv,
           \/ \E n \in Node : MakeEndpoint(n)
           \/ \E n \in Node : Register(n)
           \/ \E r \in Rule : AddRule(r)
           \/ \E r \in Rule : RemoveRule(r)
           \/ \E m \in Message : Edit(m)
           \/ UNCHANGED vars
    PROVE  Inv'
<1>1. UNCHANGED <<stats, inFlight, sends, drops, deliveries, raised>>
  BY DEF MakeEndpoint, Register, AddRule, RemoveRule, Edit, vars, trace
<1>2. TypeOK
  BY DEF Inv
<1>3. TypeOK'
  <2>1. ASSUME NEW n \in Node, MakeEndpoint(n) PROVE TypeOK'
    BY <1>2, <2>1 DEF TypeOK, MakeEndpoint, trace
  <2>2. ASSUME NEW n \in Node, Register(n) PROVE TypeOK'
    BY <1>2, <2>2 DEF TypeOK, Register, trace
  <2>3. ASSUME NEW r \in Rule, AddRule(r) PROVE TypeOK'
    <3>1. rules' \in Seq(Rule)
      BY <1>2, <2>3 DEF TypeOK, AddRule
    <3> QED
      BY <3>1, <1>2, <2>3 DEF TypeOK, AddRule, trace
  <2>4. ASSUME NEW r \in Rule, RemoveRule(r) PROVE TypeOK'
    <3>1. rules' \in Seq(Rule)
      <4>1. rules \in Seq(Rule) /\ rules' = RemoveFirst(rules, r)
        BY <1>2, <2>4 DEF TypeOK, RemoveRule
      <4> QED
        BY <4>1, RemovalIsTyped
    <3> QED
      BY <3>1, <1>2, <2>4 DEF TypeOK, RemoveRule, trace
  <2>5. ASSUME NEW m \in Message, Edit(m) PROVE TypeOK'
    <3>1. content' \in [Message -> 0 .. MaxEdits]
      <4>1. content \in [Message -> 0 .. MaxEdits]
        BY <1>2 DEF TypeOK
      <4>2. content[m] + 1 \in 0 .. MaxEdits
        BY <4>1, <2>5, BoundsAreNatural DEF Edit
      <4> QED
        BY <4>1, <4>2, <2>5 DEF Edit
    <3> QED
      BY <3>1, <1>2, <2>5 DEF TypeOK, Edit, trace
  <2>6. ASSUME UNCHANGED vars PROVE TypeOK'
    BY <1>2, <2>6 DEF TypeOK, vars, trace
  <2> QED
    BY <2>1, <2>2, <2>3, <2>4, <2>5, <2>6
<1> QED
  BY <1>1, <1>3, OthersKeepAccounts DEF Inv

(* A copy that comes due leaves the sum of its message's copies as it is. *)
LEMMA ArrivalsKeepFate ==
    ASSUME Inv, NEW e \in sends, inFlight[e.msg] > 0,
           inFlight' = [inFlight EXCEPT ![e.msg] = @ - 1],
           \/ deliveries' = [deliveries EXCEPT ![e.msg] = @ + 1] /\ raised' = raised
           \/ raised' = [raised EXCEPT ![e.msg] = @ + 1] /\ deliveries' = deliveries,
           UNCHANGED <<sends, drops>>
    PROVE  /\ inFlight' \in [Message -> Nat]
           /\ deliveries' \in [Message -> Nat]
           /\ raised' \in [Message -> Nat]
           /\ MessagesAreSentOnce' /\ UnsentIsNowhere' /\ FateFollowsRules'
<1>1. /\ inFlight \in [Message -> Nat]
      /\ deliveries \in [Message -> Nat]
      /\ raised \in [Message -> Nat]
      /\ \A d \in sends : d.msg \in Message
  BY DEF Inv, TypeOK, SendEvent
<1>2. PICK x \in Message : x = e.msg
  BY <1>1
<1>3. PICK f : f = inFlight[x] /\ f \in Nat /\ f > 0 /\ f - 1 \in Nat
  BY <1>1, <1>2
<1>4. /\ inFlight' \in [Message -> Nat]
      /\ deliveries' \in [Message -> Nat]
      /\ raised' \in [Message -> Nat]
  BY <1>1, <1>2, <1>3
<1>5. MessagesAreSentOnce'
  BY DEF Inv, MessagesAreSentOnce
<1>6. UnsentIsNowhere'
  <2> SUFFICES ASSUME NEW m \in Message, \A d \in sends : d.msg # m
               PROVE  /\ inFlight'[m] = 0 /\ deliveries'[m] = 0 /\ raised'[m] = 0
                      /\ \A r \in Rule : drops'[m][r] = 0
    BY DEF UnsentIsNowhere
  <2>1. m # x
    BY <1>2
  <2>2. /\ inFlight'[m] = inFlight[m] /\ deliveries'[m] = deliveries[m]
        /\ raised'[m] = raised[m]
    BY <1>1, <1>2, <2>1
  <2> QED
    BY <2>2 DEF Inv, UnsentIsNowhere
<1>7. ASSUME NEW m \in Message
      PROVE  deliveries'[m] + inFlight'[m] + raised'[m] = deliveries[m] + inFlight[m] + raised[m]
  <2>1. CASE m # x
    <3>1. /\ inFlight'[m] = inFlight[m] /\ deliveries'[m] = deliveries[m]
          /\ raised'[m] = raised[m]
      BY <1>1, <1>2, <2>1
    <3> QED
      BY <3>1
  <2>2. CASE m = x
    <3>1. PICK d, w : d = deliveries[x] /\ w = raised[x] /\ d \in Nat /\ w \in Nat
      BY <1>1
    <3>2. inFlight'[x] = f - 1
      BY <1>1, <1>2, <1>3
    <3>3. \/ deliveries'[x] = d + 1 /\ raised'[x] = w
          \/ deliveries'[x] = d /\ raised'[x] = w + 1
      BY <1>1, <1>2, <3>1
    <3>4. (d + 1) + (f - 1) + w = d + f + w /\ d + (f - 1) + (w + 1) = d + f + w
      BY <1>3, <3>1
    <3>5. deliveries'[x] + inFlight'[x] + raised'[x] = d + f + w
      BY <3>2, <3>3, <3>4
    <3> QED
      BY <2>2, <1>3, <3>1, <3>5
  <2> QED
    BY <2>1, <2>2
<1>8. FateFollowsRules'
  <2> SUFFICES ASSUME NEW d \in sends
               PROVE  LET copies == deliveries'[d.msg] + inFlight'[d.msg] + raised'[d.msg]
                          cut == CutOff(d.rules, d.frm, d.to)
                      IN  /\ cut => copies = 0
                          /\ ~cut /\ Kinds(d) \intersect {"drop", "custom"} = {} => copies >= 1
                          /\ Kinds(d) \intersect {"duplicate", "custom"} = {} => copies =< 1
                          /\ \A r \in Rule : drops'[d.msg][r] > 0 =>
                                 /\ r \in Range(d.rules)
                                 /\ r.kind \in {"drop", "custom"} \/ Separates(r, d.frm, d.to)
    BY DEF FateFollowsRules
  <2>1. deliveries'[d.msg] + inFlight'[d.msg] + raised'[d.msg]
          = deliveries[d.msg] + inFlight[d.msg] + raised[d.msg]
    BY <1>1, <1>7
  <2>2. FateFollowsRules
    BY DEF Inv
  <2> QED
    BY <2>1, <2>2 DEF FateFollowsRules
<1> QED
  BY <1>4, <1>5, <1>6, <1>8

LEMMA DeliverKeepsInv ==
    ASSUME Inv, NEW e \in sends, Deliver(e)
    PROVE  Inv'
<1>1. /\ inFlight' \in [Message -> Nat]
      /\ deliveries' \in [Message -> Nat]
      /\ raised' \in [Message -> Nat]
      /\ MessagesAreSentOnce' /\ UnsentIsNowhere' /\ FateFollowsRules'
  BY ArrivalsKeepFate, Zenon DEF Deliver
<1>2. TypeOK
  BY DEF Inv
<1>3. PICK x \in Message : x = e.msg
  BY <1>2 DEF TypeOK, SendEvent
<1>4. TypeOK'
  <2>1. stats' \in [Counter -> Nat]
    BY <1>2 DEF TypeOK, Deliver, Counter
  <2>2. received' \in [Message -> SUBSET (0 .. MaxEdits)]
    BY <1>2, <1>3 DEF TypeOK, Deliver
  <2> QED
    BY <1>1, <1>2, <2>1, <2>2 DEF TypeOK, Deliver
<1>5. NothingUnaccounted'
  <2>1. PICK f, d, f1, d1 : /\ f = Sum(inFlight) /\ f1 = Sum(inFlight')
                            /\ d = Sum(deliveries) /\ d1 = Sum(deliveries')
    OBVIOUS
  <2>2. /\ IsFiniteSet(Message) /\ inFlight \in [Message -> Nat] /\ inFlight[x] # 0
        /\ deliveries \in [Message -> Nat]
    BY FinitelyMany, <1>2, <1>3 DEF TypeOK, Deliver
  <2>3. /\ inFlight' = [inFlight EXCEPT ![x] = @ - 1]
        /\ deliveries' = [deliveries EXCEPT ![x] = @ + 1]
    BY <1>3 DEF Deliver
  <2>4. f1 \in Nat /\ f = f1 + 1
    <3>1. PICK g, h : g = inFlight /\ h = inFlight'
      OBVIOUS
    <3>2. g \in [Message -> Nat] /\ g[x] # 0 /\ h = [g EXCEPT ![x] = @ - 1]
      BY <3>1, <2>2, <2>3
    <3>3. PutBack(Message, g, h, x)
      BY <3>2, TakenAndPutBack, Zenon
    <3>4. h \in [Message -> Nat] /\ g = [h EXCEPT ![x] = @ + 1] /\ IsFiniteSet(Message)
      BY <3>3, <2>2 DEF PutBack
    <3>5. Sum(h) \in Nat /\ Sum(g) = Sum(h) + 1
      BY <3>4, SumOneMore, Zenon
    <3> QED
      BY <2>1, <3>1, <3>5
  <2>5. d \in Nat /\ d1 = d + 1
    BY <2>1, <2>2, <2>3, SumOneMore, Zenon
  <2>7. PICK s0, s1, s2, s3, w : /\ s0 = stats["sent"] /\ s1 = stats["delivered"]
                                 /\ s2 = stats["dropped"] /\ s3 = stats["duplicated"]
                                 /\ w = Sum(raised)
    OBVIOUS
  <2>8. s0 \in Nat /\ s1 \in Nat /\ s2 \in Nat /\ s3 \in Nat /\ w \in Nat
    <3>1. s0 \in Nat /\ s1 \in Nat /\ s2 \in Nat /\ s3 \in Nat
      BY <1>2, <2>7 DEF TypeOK, Counter
    <3>2. IsFiniteSet(Message) /\ raised \in [Message -> Nat]
      BY FinitelyMany, <1>2 DEF TypeOK
    <3>3. w \in Nat
      BY <3>2, <2>7, SumIsNatural
    <3> QED
      BY <3>1, <3>3
  <2>9. /\ stats'["sent"] = s0 /\ stats'["delivered"] = s1 + 1
        /\ stats'["dropped"] = s2 /\ stats'["duplicated"] = s3
    BY <1>2, <2>7 DEF TypeOK, Deliver, Counter
  <2>10. /\ s0 = Cardinality(sends) /\ s1 = d /\ s2 = Sum([m \in Message |-> Sum(drops[m])])
         /\ s0 + s3 = s2 + s1 + f + w
    BY <2>1, <2>7 DEF Inv, NothingUnaccounted
  <2>11. s0 + s3 = s2 + (s1 + 1) + f1 + w
    BY <2>4, <2>8, <2>10
  <2>12. sends' = sends /\ drops' = drops /\ raised' = raised
    BY DEF Deliver
  <2> QED
    BY <2>1, <2>5, <2>7, <2>9, <2>10, <2>11, <2>12 DEF NothingUnaccounted
<1> QED
  BY <1>1, <1>4, <1>5 DEF Inv

LEMMA DeliveryRaisesKeepsInv ==
    ASSUME Inv, NEW e \in sends, DeliveryRaises(e)
    PROVE  Inv'
<1>1. /\ inFlight' \in [Message -> Nat]
      /\ deliveries' \in [Message -> Nat]
      /\ raised' \in [Message -> Nat]
      /\ MessagesAreSentOnce' /\ UnsentIsNowhere' /\ FateFollowsRules'
  BY ArrivalsKeepFate, Zenon DEF DeliveryRaises, trace
<1>2. TypeOK
  BY DEF Inv
<1>3. PICK x \in Message : x = e.msg
  BY <1>2 DEF TypeOK, SendEvent
<1>4. TypeOK'
  BY <1>1, <1>2 DEF TypeOK, DeliveryRaises, trace
<1>5. NothingUnaccounted'
  <2>1. PICK f, w, f1, w1 : /\ f = Sum(inFlight) /\ f1 = Sum(inFlight')
                            /\ w = Sum(raised) /\ w1 = Sum(raised')
    OBVIOUS
  <2>2. /\ IsFiniteSet(Message) /\ inFlight \in [Message -> Nat] /\ inFlight[x] # 0
        /\ raised \in [Message -> Nat]
    BY FinitelyMany, <1>2, <1>3 DEF TypeOK, DeliveryRaises
  <2>3. /\ inFlight' = [inFlight EXCEPT ![x] = @ - 1]
        /\ raised' = [raised EXCEPT ![x] = @ + 1]
    BY <1>3 DEF DeliveryRaises
  <2>4. f1 \in Nat /\ f = f1 + 1
    <3>1. PICK g, h : g = inFlight /\ h = inFlight'
      OBVIOUS
    <3>2. g \in [Message -> Nat] /\ g[x] # 0 /\ h = [g EXCEPT ![x] = @ - 1]
      BY <3>1, <2>2, <2>3
    <3>3. PutBack(Message, g, h, x)
      BY <3>2, TakenAndPutBack, Zenon
    <3>4. h \in [Message -> Nat] /\ g = [h EXCEPT ![x] = @ + 1] /\ IsFiniteSet(Message)
      BY <3>3, <2>2 DEF PutBack
    <3>5. Sum(h) \in Nat /\ Sum(g) = Sum(h) + 1
      BY <3>4, SumOneMore, Zenon
    <3> QED
      BY <2>1, <3>1, <3>5
  <2>5. w \in Nat /\ w1 = w + 1
    BY <2>1, <2>2, <2>3, SumOneMore, Zenon
  <2>6. PICK s : s = stats["dropped"] + stats["delivered"]
    OBVIOUS
  <2>7. s \in Nat
    BY <1>2, <2>6 DEF TypeOK, Counter
  <2>8. s + f1 + w1 = s + f + w
    BY <2>4, <2>5, <2>7
  <2>9. /\ stats' = stats /\ sends' = sends /\ drops' = drops /\ deliveries' = deliveries
    BY DEF DeliveryRaises, trace
  <2>10. NothingUnaccounted
    BY DEF Inv
  <2> QED
    BY <2>1, <2>6, <2>8, <2>9, <2>10 DEF NothingUnaccounted
<1> QED
  BY <1>1, <1>4, <1>5 DEF Inv

LEMMA SendKeepsInv ==
    ASSUME Inv, NEW x \in Message, NEW a \in Node, NEW b \in Node, Send(x, a, b)
    PROVE  Inv'
<1>1. TypeOK /\ rules \in Seq(Rule)
  BY DEF Inv, TypeOK
<1>2. PICK e : e = [msg |-> x, frm |-> a, to |-> b, value |-> content[x], rules |-> rules]
  OBVIOUS
<1>3. /\ e.msg = x /\ e.frm = a /\ e.to = b /\ e.rules = rules
      /\ e \in SendEvent
      /\ sends' = sends \union {e}
  BY <1>1, <1>2 DEF Send, TypeOK, SendEvent
<1>4. PICK counts \in Runs(a, b) :
          /\ inFlight' = [inFlight EXCEPT ![x] = counts[Len(rules) + 1]]
          /\ stats' = [stats EXCEPT
                 !["sent"] = @ + 1,
                 !["dropped"] = @ + Sum([i \in DOMAIN rules |-> Lost(counts, i)]),
                 !["duplicated"] = @ + Sum([i \in DOMAIN rules |-> Added(counts, i)])]
          /\ drops' = [drops EXCEPT ![x] = [r \in Rule |->
                 Sum([i \in DOMAIN rules |-> IF rules[i] = r THEN Lost(counts, i) ELSE 0])]]
  BY DEF Send
<1>5. PICK lost, added, left, row, K :
          /\ lost = Sum([i \in DOMAIN rules |-> Lost(counts, i)])
          /\ added = Sum([i \in DOMAIN rules |-> Added(counts, i)])
          /\ left = counts[Len(rules) + 1]
          /\ row = [r \in Rule |->
                 Sum([i \in DOMAIN rules |-> IF rules[i] = r THEN Lost(counts, i) ELSE 0])]
          /\ K = Len(rules)
  OBVIOUS
<1>6. /\ inFlight' = [inFlight EXCEPT ![x] = left]
      /\ stats' = [stats EXCEPT !["sent"] = @ + 1,
                                !["dropped"] = @ + lost,
                                !["duplicated"] = @ + added]
      /\ drops' = [drops EXCEPT ![x] = row]
  BY <1>4, <1>5, Zenon
<1>7. UNCHANGED <<endpoints, handlers, rules, content, deliveries, received, raised>>
  BY DEF Send
<1>8. /\ lost \in Nat /\ added \in Nat /\ left \in Nat
      /\ 1 + added = lost + left
      /\ row \in [Rule -> Nat]
      /\ Sum(row) = lost
      /\ \A r \in Rule : row[r] > 0 => r \in Range(rules) /\ Takes(r, a, b)
  <2>1. Tally(lost, added, left, row, a, b)
    BY <1>1, <1>5, SendTally, Zenon
  <2> QED
    BY <2>1, Zenon DEF Tally
<1>9. /\ CutOff(rules, a, b) => left = 0
      /\ (\A i \in 1 .. K : ~Takes(rules[i], a, b)) => left >= 1
      /\ (\A i \in 1 .. K : rules[i].kind \notin {"duplicate", "custom"}) => left =< 1
  BY <1>1, <1>5, RunsFollowRules
<1> HIDE <1>4, <1>5
<1>10. \A d \in sends : d.msg # x
  BY DEF Send
<1>11. /\ inFlight[x] = 0 /\ deliveries[x] = 0 /\ raised[x] = 0
       /\ \A r \in Rule : drops[x][r] = 0
  BY <1>10 DEF Inv, UnsentIsNowhere
<1>12. TypeOK'
  <2>1. stats' \in [Counter -> Nat]
    <3>1. stats \in [Counter -> Nat]
      BY <1>1 DEF TypeOK
    <3>2. PICK s0, s2, s3 : /\ s0 = stats["sent"] + 1 /\ s2 = stats["dropped"] + lost
                            /\ s3 = stats["duplicated"] + added
      OBVIOUS
    <3>3. s0 \in Nat /\ s2 \in Nat /\ s3 \in Nat
      BY <3>1, <3>2, <1>8 DEF Counter
    <3>4. stats' = [stats EXCEPT !["sent"] = s0, !["dropped"] = s2, !["duplicated"] = s3]
      BY <3>1, <3>2, <1>6 DEF Counter
    <3> QED
      BY <3>1, <3>3, <3>4
  <2>2. inFlight' \in [Message -> Nat] /\ drops' \in [Message -> [Rule -> Nat]]
    BY <1>1, <1>6, <1>8 DEF TypeOK
  <2>3. \A d \in sends' : d \in SendEvent
    BY <1>1, <1>3 DEF TypeOK
  <2> QED
    BY <1>1, <1>7, <2>1, <2>2, <2>3 DEF TypeOK
<1>13. MessagesAreSentOnce'
  <2>1. IsFiniteSet(sends')
    BY <1>3, FS_AddElement DEF Inv, MessagesAreSentOnce
  <2> QED
    BY <2>1, <1>3, <1>10 DEF Inv, MessagesAreSentOnce
<1>14. ASSUME NEW m \in Message, m # x
       PROVE  inFlight'[m] = inFlight[m] /\ drops'[m] = drops[m]
  BY <1>1, <1>6, <1>14 DEF TypeOK
<1>15. UnsentIsNowhere'
  <2> SUFFICES ASSUME NEW m \in Message, \A d \in sends' : d.msg # m
               PROVE  /\ inFlight'[m] = 0 /\ deliveries'[m] = 0 /\ raised'[m] = 0
                      /\ \A r \in Rule : drops'[m][r] = 0
    BY DEF UnsentIsNowhere
  <2>1. m # x /\ \A d \in sends : d.msg # m
    BY <1>3
  <2> QED
    BY <2>1, <1>7, <1>14 DEF Inv, UnsentIsNowhere
<1>16. inFlight'[x] = left /\ drops'[x] = row
  BY <1>1, <1>6 DEF TypeOK
<1>17. FateFollowsRules'
  <2> DEFINE Fate(d) ==
               LET copies == deliveries'[d.msg] + inFlight'[d.msg] + raised'[d.msg]
                   cut == CutOff(d.rules, d.frm, d.to)
               IN  /\ cut => copies = 0
                   /\ ~cut /\ Kinds(d) \intersect {"drop", "custom"} = {} => copies >= 1
                   /\ Kinds(d) \intersect {"duplicate", "custom"} = {} => copies =< 1
                   /\ \A r \in Rule : drops'[d.msg][r] > 0 =>
                          /\ r \in Range(d.rules)
                          /\ r.kind \in {"drop", "custom"} \/ Separates(r, d.frm, d.to)
  <2>1. ASSUME NEW d \in sends PROVE Fate(d)
    <3>1. d.msg \in Message /\ d.msg # x
      BY <1>1, <1>10 DEF TypeOK, SendEvent
    <3>2. /\ inFlight'[d.msg] = inFlight[d.msg] /\ drops'[d.msg] = drops[d.msg]
          /\ deliveries' = deliveries /\ raised' = raised
      BY <3>1, <1>7, <1>14
    <3> QED
      BY <3>2 DEF Inv, FateFollowsRules
  <2>2. Fate(e)
    <3>1. deliveries'[x] + inFlight'[x] + raised'[x] = left
      BY <1>7, <1>8, <1>11, <1>16
    <3>2. \A i \in 1 .. K : rules[i] \in Range(rules)
      BY <1>1, <1>5 DEF Range
    <3>5. /\ ~CutOff(rules, a, b)
          /\ {r.kind : r \in Range(rules)} \intersect {"drop", "custom"} = {}
          => left >= 1
      <4> SUFFICES ASSUME ~CutOff(rules, a, b),
                          {r.kind : r \in Range(rules)} \intersect {"drop", "custom"} = {}
                   PROVE  left >= 1
        OBVIOUS
      <4>1. \A i \in 1 .. K : rules[i].kind \notin {"drop", "custom"}
        BY <3>2
      <4>2. \A i \in 1 .. K : ~Separates(rules[i], a, b)
        <5> SUFFICES ASSUME NEW i \in 1 .. K, Separates(rules[i], a, b) PROVE FALSE
          OBVIOUS
        <5>1. \A j \in i + 1 .. Len(rules) : j \in 1 .. K
          BY <1>1, <1>5
        <5>2. i \in DOMAIN rules
          BY <1>1, <1>5
        <5> QED
          BY <4>1, <5>1, <5>2 DEF CutOff
      <4> QED
        BY <1>9, <4>1, <4>2 DEF Takes
    <3>6. {r.kind : r \in Range(rules)} \intersect {"duplicate", "custom"} = {} => left =< 1
      BY <1>9, <3>2
    <3>7. \A r \in Rule : drops'[x][r] > 0 =>
              /\ r \in Range(rules)
              /\ r.kind \in {"drop", "custom"} \/ Separates(r, a, b)
      BY <1>8, <1>16 DEF Takes
    <3> QED
      BY <1>3, <1>9, <3>1, <3>5, <3>6, <3>7 DEF Kinds
  <2> HIDE DEF Fate
  <2>3. \A d \in sends' : Fate(d)
    BY <1>3, <2>1, <2>2
  <2> USE DEF Fate
  <2> QED
    BY <2>3 DEF FateFollowsRules, Kinds
<1>18. NothingUnaccounted'
  <2>1. Cardinality(sends') = Cardinality(sends) + 1 /\ Cardinality(sends) \in Nat
    <3>1. e \notin sends /\ IsFiniteSet(sends)
      BY <1>3, <1>10 DEF Inv, MessagesAreSentOnce
    <3> QED
      BY <3>1, <1>3, FS_AddElement, FS_CardinalityType
  <2>2. PICK s0, s1, s2, s3 : /\ s0 = stats["sent"] /\ s1 = stats["delivered"]
                              /\ s2 = stats["dropped"] /\ s3 = stats["duplicated"]
    OBVIOUS
  <2>3. s0 \in Nat /\ s1 \in Nat /\ s2 \in Nat /\ s3 \in Nat
    BY <1>1, <2>2 DEF TypeOK, Counter
  <2>4. /\ stats'["sent"] = s0 + 1 /\ stats'["delivered"] = s1
        /\ stats'["dropped"] = s2 + lost /\ stats'["duplicated"] = s3 + added
    BY <1>1, <1>6, <2>2 DEF TypeOK, Counter
  <2>5. PICK f, f1, w, d, d1 : /\ f = Sum(inFlight) /\ f1 = Sum(inFlight') /\ w = Sum(raised)
                               /\ d = [m \in Message |-> Sum(drops[m])]
                               /\ d1 = [m \in Message |-> Sum(drops'[m])]
    OBVIOUS
  <2>6. IsFiniteSet(Message) /\ IsFiniteSet(Rule)
    BY FinitelyMany
  <2>7. f \in Nat /\ f1 = f + left
    <3>1. inFlight \in [Message -> Nat]
      BY <1>1 DEF TypeOK
    <3>2. FilledBy(inFlight, inFlight', left)
      BY <3>1, <1>6, <1>8, <1>11, <2>6, SumFilled, Zenon
    <3> QED
      BY <3>2, <2>5 DEF FilledBy
  <2>8. d1 = [d EXCEPT ![x] = lost] /\ d[x] = 0 /\ d \in [Message -> Nat]
    <3>1. ASSUME NEW m \in Message PROVE d[m] \in Nat
      <4>1. drops[m] \in [Rule -> Nat]
        BY <1>1 DEF TypeOK
      <4>2. Sum(drops[m]) \in Nat
        BY <4>1, <2>6, SumIsNatural
      <4> QED
        BY <4>2, <2>5
    <3>2. d[x] = 0
      <4>1. DOMAIN drops[x] = Rule
        BY <1>1 DEF TypeOK
      <4>2. Sum(drops[x]) = 0
        BY <4>1, <1>11, <2>6, SumOfZeros
      <4> QED
        BY <4>2, <2>5
    <3>3. ASSUME NEW m \in Message PROVE d1[m] = IF m = x THEN lost ELSE d[m]
      <4>1. drops'[m] = IF m = x THEN row ELSE drops[m]
        BY <1>14, <1>16
      <4> QED
        BY <4>1, <1>8, <2>5
    <3> QED
      BY <3>1, <3>2, <3>3, <2>5
  <2>9. Sum(d) \in Nat /\ Sum(d1) = Sum(d) + lost
    <3>1. FilledBy(d, d1, lost)
      BY <1>8, <2>6, <2>8, SumFilled, Zenon
    <3> QED
      BY <3>1 DEF FilledBy
  <2>10. w \in Nat
    <3>1. raised \in [Message -> Nat]
      BY <1>1 DEF TypeOK
    <3> QED
      BY <3>1, <2>5, <2>6, SumIsNatural
  <2>11. /\ s0 = Cardinality(sends) /\ s1 = Sum(deliveries) /\ s2 = Sum(d)
         /\ s0 + s3 = s2 + s1 + f + w
    BY <2>2, <2>5 DEF Inv, NothingUnaccounted
  <2>12. (s0 + 1) + (s3 + added) = (s2 + lost) + s1 + f1 + w
    BY <1>8, <2>3, <2>7, <2>10, <2>11
  <2>13. s0 + 1 = Cardinality(sends') /\ s2 + lost = Sum(d1)
    BY <2>1, <2>9, <2>11
  <2>14. deliveries' = deliveries /\ raised' = raised
    BY <1>7
  <2> QED
    BY <2>4, <2>5, <2>11, <2>12, <2>13, <2>14 DEF NothingUnaccounted
<1> QED
  BY <1>12, <1>13, <1>15, <1>17, <1>18 DEF Inv
-----------------------------------------------------------------------------
(* At all times, in words: the types are as stated, each message is sent once and unknown *)
(* before, every copy is accounted for, and its rules decide a message's fate.            *)
THEOREM Invariance == Spec => []Inv
<1>1. ASSUME Inv, [Next]_vars PROVE Inv'
  <2>1. ASSUME NEW m \in Message, NEW a \in Node, NEW b \in Node, Send(m, a, b) PROVE Inv'
    BY <1>1, <2>1, SendKeepsInv
  <2>2. ASSUME NEW e \in sends, Deliver(e) PROVE Inv'
    BY <1>1, <2>2, DeliverKeepsInv
  <2>3. ASSUME NEW e \in sends, DeliveryRaises(e) PROVE Inv'
    BY <1>1, <2>3, DeliveryRaisesKeepsInv
  <2>4. CASE \/ \E n \in Node : MakeEndpoint(n)
             \/ \E n \in Node : Register(n)
             \/ \E r \in Rule : AddRule(r)
             \/ \E r \in Rule : RemoveRule(r)
             \/ \E m \in Message : Edit(m)
             \/ UNCHANGED vars
    BY <1>1, <2>4, OthersKeepInv
  <2> QED
    BY <1>1, <2>1, <2>2, <2>3, <2>4 DEF Next
<1> QED
  BY InitKeepsInv, <1>1, PTL DEF Spec

(* Every copy is accounted for, whatever rules are installed, in any number and order,    *)
(* and whenever they come and go: the counters agree with the trace, and what was sent    *)
(* and added is dropped, delivered, raised or in flight (SimNetwork._send and deliver).   *)
THEOREM Accounting == Spec => []NothingUnaccounted
<1>1. Inv => NothingUnaccounted
  BY DEF Inv
<1> QED
  BY <1>1, Invariance, PTL

(* The rules installed when a message was sent decide its fate, whatever is installed or  *)
(* lifted while it is in flight: no copy crosses a partition, none is lost that no rule   *)
(* could take, and none is added that no rule could add (_send, partition).               *)
THEOREM Fate == Spec => []FateFollowsRules
<1>1. Inv => FateFollowsRules
  BY DEF Inv
<1> QED
  BY <1>1, Invariance, PTL
=============================================================================
