-------------------------- MODULE TotalOrderProofs --------------------------
(***************************************************************************)
(* Proofs about NodeTotalOrder for every cluster, every set of writes and  *)
(* every behaviour of the network: Inv is inductive, and the properties    *)
(* that TLC checks on a small instance follow from it.                     *)
(***************************************************************************)
EXTENDS TotalOrder, WellFoundedInduction, TLAPS

-----------------------------------------------------------------------------
(* Sequences and buffers. *)

(* Concatenation: length and entries of the result. *)
LEMMA Concatenated ==
    ASSUME NEW S, NEW s \in Seq(S), NEW t \in Seq(S)
    PROVE  /\ s \o t \in Seq(S)
           /\ Len(s \o t) = Len(s) + Len(t)
           /\ \A i \in 1 .. Len(s) : (s \o t)[i] = s[i]
           /\ \A i \in Len(s) + 1 .. Len(s) + Len(t) : (s \o t)[i] = t[i - Len(s)]
  OBVIOUS

(* A prefix, entry by entry. *)
LEMMA PrefixByEntry ==
    ASSUME NEW S, NEW s \in Seq(S), NEW t \in Seq(S)
    PROVE  IsPrefix(s, t) <=> /\ Len(s) =< Len(t)
                              /\ \A i \in 1 .. Len(s) : s[i] = t[i]
<1>1. SubSeq(s, 1, Len(s)) = s
  OBVIOUS
<1>2. ASSUME Len(s) =< Len(t)
      PROVE  /\ SubSeq(t, 1, Len(s)) \in Seq(S)
             /\ Len(SubSeq(t, 1, Len(s))) = Len(s)
             /\ \A i \in 1 .. Len(s) : SubSeq(t, 1, Len(s))[i] = t[i]
  BY <1>2
<1> QED
  BY <1>1, <1>2 DEF IsPrefix

(* The while loop of process_ordered ends: a buffer whose numbers are bounded lacks *)
(* one, and Gap is the first it lacks.                                              *)
LEMMA GapIsFirst ==
    ASSUME NEW B \in SUBSET Numbered, NEW e \in Nat, NEW top \in Nat,
           \A b \in B : b.seq =< top
    PROVE  /\ Gap(B, e) \in Nat
           /\ e =< Gap(B, e)
           /\ Gap(B, e) \notin Buffered(B)
           /\ e .. Gap(B, e) - 1 \subseteq Buffered(B)
<1> DEFINE Lacks == {k \in Nat : e =< k /\ k \notin Buffered(B)}
<1>1. e + top + 1 \in Lacks
  BY DEF Buffered, Numbered
<1>2. \E k \in Lacks : \A j \in Lacks : <<j, k>> \notin OpToRel(<, Nat)
  BY <1>1, NatLessThanWellFounded, WFMin, Zenon
<1>3. PICK k \in Lacks : \A j \in Lacks : ~(j < k)
  BY <1>2, Zenon DEF OpToRel
<1>4. e .. k - 1 \subseteq Buffered(B)
  BY <1>3
<1>5. k \in {e} \union {b.seq + 1 : b \in B}
  <2>1. CASE k = e
    BY <2>1
  <2>2. CASE k # e
    <3>1. k - 1 \in Buffered(B)
      BY <2>2, <1>4
    <3> QED
      BY <3>1 DEF Buffered, Numbered
  <2> QED
    BY <2>1, <2>2
<1> QED
  BY <1>4, <1>5 DEF Gap, Numbered
(* p is a prefix of L, entry by entry, and B holds later entries of L under their numbers. *)
Follows(p, L) == Len(p) =< Len(L) /\ \A i \in 1 .. Len(p) : p[i] = L[i]
Fits(B, p, L) == \A b \in B : b.seq > Len(p) /\ b.seq =< Len(L) /\ L[b.seq] = b.id

(* l is p with the entries of B numbered below k, and R is what B keeps. *)
Extension(L, p, B, e, k, l, R) ==
    /\ k \in Nat /\ e =< k /\ k =< Len(L) + 1
    /\ l \in Seq(Write) /\ Len(l) = k - 1
    /\ \A i \in 1 .. k - 1 : l[i] = L[i]
    /\ \A b \in R : b \in B /\ b.seq > k
    /\ Range(l) \union {b.id : b \in R} = Range(p) \union {b.id : b \in B}

(* Applying what is next in a rightly numbered buffer B extends a prefix p of L to a *)
(* longer prefix of L, leaves what is behind the first gap, and loses nothing.       *)
LEMMA RunExtends ==
    ASSUME NEW L \in Seq(Write), NEW p \in Seq(Write), NEW B \in SUBSET Numbered,
           Follows(p, L), Fits(B, p, L),
           NEW e \in Nat, e = Len(p) + 1,
           NEW k, k = Gap(B, e)
    PROVE  Extension(L, p, B, e, k, p \o Run(B, e, k), Rest(B, e, k))
<1> DEFINE f == Run(B, e, k)
           l == p \o f
<1>1. /\ e > 0 /\ Len(L) \in Nat /\ Len(p) \in Nat /\ e - 1 =< Len(L)
      /\ \A i \in 1 .. Len(p) : p[i] = L[i]
  BY DEF Follows
<1>2. /\ k \in Nat /\ e =< k /\ k \notin Buffered(B)
      /\ e .. k - 1 \subseteq Buffered(B)
  <2>1. \A b \in B : b.seq =< Len(L)
    BY DEF Fits
  <2> QED
    BY <2>1, <1>1, GapIsFirst
<1>3. \A b \in B : /\ b.seq \in Nat /\ b.seq > Len(p) /\ b.seq =< Len(L)
                   /\ L[b.seq] = b.id
  BY DEF Numbered, Fits
<1>4. k =< Len(L) + 1
  <2>1. CASE k = e
    BY <2>1, <1>1
  <2>2. CASE k # e
    <3>1. k - 1 \in Buffered(B)
      BY <2>2, <1>2, k - 1 \in e .. k - 1
    <3>2. PICK b \in B : b.seq = k - 1
      BY <3>1 DEF Buffered
    <3> QED
      BY <3>2, <1>1, <1>2, <1>3
  <2> QED
    BY <2>1, <2>2
<1>5. \A i \in 1 .. k - e : f[i] = L[e + i - 1]
  <2> SUFFICES ASSUME NEW i \in 1 .. k - e PROVE f[i] = L[e + i - 1]
    OBVIOUS
  <2>1. e + i - 1 \in e .. k - 1
    BY <1>1, <1>2
  <2>2. \E b \in B : b.seq = e + i - 1
    BY <2>1, <1>2 DEF Buffered
  <2>3. PICK c \in B : c = (CHOOSE b \in B : b.seq = e + i - 1) /\ c.seq = e + i - 1
    BY <2>2
  <2>4. f[i] = c.id
    BY <2>3 DEF Run
  <2> QED
    BY <2>3, <2>4, <1>3
<1>6. f = [i \in 1 .. k - e |-> f[i]]
  BY DEF Run
<1> HIDE DEF f, l
<1>7. f \in [1 .. k - e -> Write] /\ k - e \in Nat
  <2>1. \A i \in 1 .. k - e : e + i - 1 \in 1 .. Len(L)
    BY <1>1, <1>2, <1>4
  <2>2. \A i \in 1 .. k - e : f[i] \in Write
    BY <1>5, <2>1
  <2>3. f \in [1 .. k - e -> Write]
    BY <1>6, <2>2
  <2> QED
    BY <2>3, <1>1, <1>2
<1>8. /\ l \in Seq(Write)
      /\ Len(l) = Len(p) + (k - e)
      /\ \A i \in 1 .. Len(p) : l[i] = p[i]
      /\ \A i \in Len(p) + 1 .. Len(p) + (k - e) : l[i] = f[i - Len(p)]
  <2>1. f \in Seq(Write) /\ Len(f) = k - e
    BY <1>7
  <2>2. /\ p \o f \in Seq(Write)
        /\ Len(p \o f) = Len(p) + Len(f)
        /\ \A i \in 1 .. Len(p) : (p \o f)[i] = p[i]
        /\ \A i \in Len(p) + 1 .. Len(p) + Len(f) : (p \o f)[i] = f[i - Len(p)]
    BY <2>1, Concatenated
  <2> QED
    BY <2>1, <2>2 DEF l
<1>9. Len(l) = k - 1
  BY <1>1, <1>2, <1>8
<1>10. ASSUME NEW i \in 1 .. k - 1 PROVE l[i] = L[i]
  <2>1. CASE i =< Len(p)
    BY <2>1, <1>1, <1>2, <1>8
  <2>2. CASE i > Len(p)
    <3>1. i - Len(p) \in 1 .. k - e /\ e + (i - Len(p)) - 1 = i
      BY <2>2, <1>1, <1>2
    <3>2. f[i - Len(p)] = L[i]
      BY <3>1, <1>5
    <3>3. i \in Len(p) + 1 .. Len(p) + (k - e)
      BY <2>2, <1>1, <1>2
    <3> QED
      BY <3>2, <3>3, <1>8
  <2> QED
    BY <2>1, <2>2, <1>1, <1>2
<1>11. \A b \in Rest(B, e, k) : b \in B /\ b.seq > k
  <2> SUFFICES ASSUME NEW b \in B, b.seq \notin e .. k - 1 PROVE b.seq > k
    BY DEF Rest
  <2>1. b.seq \in Nat /\ b.seq >= e
    BY <1>1, <1>3
  <2>2. b.seq # k
    BY <1>2 DEF Buffered
  <2> QED
    BY <2>1, <2>2, <1>1, <1>2
<1>12. Range(l) = {L[i] : i \in 1 .. k - 1} /\ Range(p) = {L[i] : i \in 1 .. Len(p)}
  <2>1. DOMAIN l = 1 .. k - 1 /\ DOMAIN p = 1 .. Len(p)
    BY <1>8, <1>9
  <2>2. Range(l) = {l[i] : i \in 1 .. k - 1} /\ Range(p) = {p[i] : i \in 1 .. Len(p)}
    BY <2>1 DEF Range
  <2> QED
    BY <2>2, <1>1, <1>10
<1>13. ASSUME NEW b \in B PROVE b.id \in Range(l) \union {c.id : c \in Rest(B, e, k)}
  <2>1. CASE b \in Rest(B, e, k)
    BY <2>1
  <2>2. CASE b \notin Rest(B, e, k)
    <3>1. b.seq \in e .. k - 1
      BY <2>2 DEF Rest
    <3>2. b.seq \in 1 .. k - 1 /\ b.id = L[b.seq]
      BY <3>1, <1>1, <1>2, <1>3
    <3> QED
      BY <3>2, <1>12
  <2> QED
    BY <2>1, <2>2
<1>14. Range(p) \subseteq Range(l)
  BY <1>12, <1>1, <1>2
<1>15. Range(l) \subseteq Range(p) \union {b.id : b \in B}
  <2> SUFFICES ASSUME NEW i \in 1 .. k - 1
               PROVE  L[i] \in Range(p) \union {b.id : b \in B}
    BY <1>12
  <2>1. CASE i =< Len(p)
    BY <2>1, <1>12, <1>1, <1>2
  <2>2. CASE i > Len(p)
    <3>1. i \in Buffered(B)
      BY <2>2, <1>1, <1>2
    <3>2. PICK b \in B : b.seq = i
      BY <3>1 DEF Buffered
    <3> QED
      BY <3>2, <1>3
  <2> QED
    BY <2>1, <2>2, <1>1, <1>2
<1>16. {b.id : b \in Rest(B, e, k)} \subseteq {b.id : b \in B}
  BY <1>11
<1>17. {b.id : b \in B} \subseteq Range(l) \union {c.id : c \in Rest(B, e, k)}
  BY <1>13
<1>18. Range(l) \union {b.id : b \in Rest(B, e, k)} = Range(p) \union {b.id : b \in B}
  BY <1>14, <1>15, <1>16, <1>17
<1> QED
  BY <1>2, <1>4, <1>8, <1>9, <1>10, <1>11, <1>18 DEF f, l, Extension

-----------------------------------------------------------------------------
(* Handlers. *)

(* The leader appends a new write to its log at once: nothing is ever buffered there. *)
LEMMA LeaderAppends ==
    ASSUME TypeOK, LeaderAppliesAll, LogsFollowLeader, SeenIsHeld,
           NEW w \in Write, w \notin sequenced, ReceiveAndReplicate(w)
    PROVE  /\ log' = [log EXCEPT ![Leader] = Append(@, w)]
           /\ expectedSeq' = [expectedSeq EXCEPT ![Leader] = nextSeq + 1]
           /\ buffer' = buffer
           /\ seen' = [seen EXCEPT ![Leader] = @ \union {w}]
           /\ sequenced' = sequenced \union {w}
           /\ nextSeq' = nextSeq + 1
           /\ pendingReplications' =
                  pendingReplications \union {Replicate(w, nextSeq, p) : p \in Node \ {Leader}}
<1> DEFINE e == nextSeq
           B == {[id |-> w, seq |-> e]}
<1>1. /\ e \in Nat /\ expectedSeq[Leader] = e /\ buffer[Leader] = {}
      /\ w \notin seen[Leader]
      /\ log[Leader] \in Seq(Write)
  BY LeaderIsANode DEF TypeOK, LeaderAppliesAll, LogsFollowLeader, SeenIsHeld
<1>2. B = {b \in buffer[Leader] : b.seq # e} \union {[id |-> w, seq |-> e]}
  BY <1>1
<1>3. B \in SUBSET Numbered /\ Buffered(B) = {e} /\ \A b \in B : b.seq =< e
  BY <1>1 DEF Numbered, Buffered
<1>4. Gap(B, e) = e + 1
  <2> HIDE DEF e, B
  <2>0. /\ Gap(B, e) \in Nat /\ e =< Gap(B, e) /\ Gap(B, e) \notin Buffered(B)
        /\ e .. Gap(B, e) - 1 \subseteq Buffered(B)
    BY <1>1, <1>3, GapIsFirst
  <2>1. /\ Gap(B, e) \in Nat /\ e =< Gap(B, e) /\ Gap(B, e) # e
        /\ e .. Gap(B, e) - 1 \subseteq {e}
    BY <2>0, <1>3
  <2>2. ASSUME NEW k \in Nat, e =< k, k # e, e .. k - 1 \subseteq {e} PROVE k = e + 1
    <3>1. CASE e + 1 =< k - 1
      BY <3>1, <2>2, <1>1, e + 1 \in e .. k - 1
    <3> QED
      BY <3>1, <2>2, <1>1
  <2> QED
    BY <2>1, <2>2
<1>5. Run(B, e, e + 1) = <<w>>
  <2>1. \A i \in 1 .. e + 1 - e : (CHOOSE b \in B : b.seq = e + i - 1) = [id |-> w, seq |-> e]
    BY <1>1
  <2>2. Run(B, e, e + 1) = [i \in 1 .. 1 |-> w]
    BY <2>1, <1>1 DEF Run
  <2> QED
    BY <2>2
<1>6. log[Leader] \o <<w>> = Append(log[Leader], w)
  BY <1>1
<1>7. Rest(B, e, e + 1) = {}
  BY <1>1 DEF Rest
<1>8. HandleReplication(Leader, w, e)
  BY DEF ReceiveAndReplicate
<1>9. /\ log' = [log EXCEPT ![Leader] = Append(@, w)]
      /\ expectedSeq' = [expectedSeq EXCEPT ![Leader] = nextSeq + 1]
      /\ buffer' = [buffer EXCEPT ![Leader] = {}]
      /\ seen' = [seen EXCEPT ![Leader] = @ \union {w}]
  <2>1. ProcessOrdered(Leader, w, e) /\ seen' = [seen EXCEPT ![Leader] = @ \union {w}]
    BY <1>8, <1>1 DEF HandleReplication
  <2>2. ~(e < e)
    BY <1>1
  <2>3. /\ log' = [log EXCEPT ![Leader] = @ \o Run(B, e, Gap(B, e))]
        /\ expectedSeq' = [expectedSeq EXCEPT ![Leader] = Gap(B, e)]
        /\ buffer' = [buffer EXCEPT ![Leader] = Rest(B, e, Gap(B, e))]
    BY <2>1, <2>2, <1>1, <1>2 DEF ProcessOrdered
  <2>4. /\ Run(B, e, Gap(B, e)) = <<w>>
        /\ Rest(B, e, Gap(B, e)) = {}
    BY <1>4, <1>5, <1>7, Zenon
  <2> HIDE DEF B
  <2> QED
    BY <2>1, <2>3, <2>4, <1>4, <1>6
<1>10. buffer' = buffer
  BY <1>9, <1>1 DEF TypeOK
<1> QED
  BY <1>9, <1>10 DEF ReceiveAndReplicate

(* A node that handles a new, rightly numbered write is not the leader; it extends  *)
(* its log along the leader's and keeps in its buffer what is still behind a gap.   *)
LEMMA FollowerApplies ==
    ASSUME TypeOK, LeaderAppliesAll, LogsFollowLeader, BuffersInOrder, SeenIsHeld,
           NEW n \in Node, NEW w \in Write, NEW s \in 1 .. Len(log[Leader]),
           log[Leader][s] = w, w \notin seen[n], HandleReplication(n, w, s)
    PROVE  /\ n # Leader
           /\ log'[Leader] = log[Leader]
           /\ log' \in [Node -> Seq(Write)]
           /\ expectedSeq' \in [Node -> Nat \ {0}]
           /\ buffer' \in [Node -> SUBSET Numbered]
           /\ buffer'[Leader] = buffer[Leader]
           /\ seen' = [seen EXCEPT ![n] = @ \union {w}]
           /\ LogsFollowLeader'
           /\ BuffersInOrder'
           /\ SeenIsHeld'
           /\ \A q \in Node \ {n} : log'[q] = log[q]
           /\ Len(log[n]) =< Len(log'[n])
<1>1. PICK L, p, e : L = log[Leader] /\ p = log[n] /\ e = expectedSeq[n]
  OBVIOUS
<1>2. /\ L \in Seq(Write) /\ p \in Seq(Write) /\ e \in Nat
      /\ Len(L) \in Nat /\ Len(p) \in Nat /\ e = Len(p) + 1
      /\ Len(p) =< Len(L) /\ \A i \in 1 .. Len(p) : p[i] = L[i]
      /\ Follows(p, L)
  BY <1>1, LeaderIsANode DEF TypeOK, LogsFollowLeader, Follows
<1>3. /\ buffer[n] \in SUBSET Numbered
      /\ seen[n] = Range(p) \union {b.id : b \in buffer[n]}
      /\ \A b \in buffer[n] : b.seq > e /\ b.seq =< Len(L) /\ L[b.seq] = b.id
  <2>1. /\ buffer[n] \in SUBSET Numbered
        /\ seen[n] = Range(p) \union {b.id : b \in buffer[n]}
    BY <1>1 DEF TypeOK, SeenIsHeld
  <2>2. \A b \in buffer[n] : b.seq > e /\ b.seq \in 1 .. Len(L) /\ L[b.seq] = b.id
    BY <1>1 DEF BuffersInOrder, InOrder
  <2> QED
    BY <2>1, <2>2, <1>2
<1>4. n # Leader
  <2>1. seen[Leader] = Range(L) /\ w \in Range(L)
    BY <1>1, <1>2, LeaderIsANode DEF LeaderAppliesAll, SeenIsHeld, Range
  <2> QED
    BY <2>1
<1>5. s >= e /\ s =< Len(L) /\ s \in Nat /\ L[s] = w
  <2>1. CASE s =< Len(p)
    <3>1. p[s] = w /\ s \in DOMAIN p
      BY <2>1, <1>1, <1>2
    <3> QED
      BY <3>1, <1>3 DEF Range
  <2> QED
    BY <2>1, <1>1, <1>2
<1>6. \A b \in buffer[n] : b.seq # s
  BY <1>3, <1>5
<1>7. PICK new : new = [id |-> w, seq |-> s]
  OBVIOUS
<1>8. PICK B : B = buffer[n] \union {new}
  OBVIOUS
<1>9. B = {b \in buffer[n] : b.seq # s} \union {[id |-> w, seq |-> s]}
  BY <1>6, <1>7, <1>8
<1>10. /\ new \in Numbered /\ new.seq = s /\ new.id = w
       /\ B \in SUBSET Numbered
  BY <1>3, <1>5, <1>7, <1>8 DEF Numbered
<1>11. /\ \A b \in B : b.seq > Len(p) /\ b.seq =< Len(L) /\ L[b.seq] = b.id
       /\ Fits(B, p, L)
  <2>1. \A b \in buffer[n] : b.seq > Len(p)
    BY <1>2, <1>3 DEF Numbered
  <2>2. new.seq > Len(p) /\ new.seq =< Len(L) /\ L[new.seq] = new.id
    BY <1>2, <1>5, <1>10
  <2> QED
    BY <2>1, <2>2, <1>3, <1>8 DEF Fits
<1>12. PICK k, l, R : k = Gap(B, e) /\ l = p \o Run(B, e, k) /\ R = Rest(B, e, k)
  OBVIOUS
<1>13. /\ k \in Nat /\ e =< k /\ k =< Len(L) + 1
       /\ l \in Seq(Write) /\ Len(l) = k - 1
       /\ \A i \in 1 .. k - 1 : l[i] = L[i]
       /\ \A b \in R : b \in B /\ b.seq > k
       /\ Range(l) \union {b.id : b \in R} = Range(p) \union {b.id : b \in B}
  <2>1. Extension(L, p, B, e, k, l, R)
    BY <1>2, <1>10, <1>11, <1>12, RunExtends
  <2> QED
    BY <2>1 DEF Extension
<1>14. /\ log' = [log EXCEPT ![n] = l]
       /\ expectedSeq' = [expectedSeq EXCEPT ![n] = k]
       /\ buffer' = [buffer EXCEPT ![n] = R]
       /\ seen' = [seen EXCEPT ![n] = @ \union {w}]
  <2>1. ~(s < expectedSeq[n])
    BY <1>1, <1>2, <1>5
  <2>2. ProcessOrdered(n, w, s) /\ seen' = [seen EXCEPT ![n] = @ \union {w}]
    BY DEF HandleReplication
  <2> QED
    BY <2>1, <2>2, <1>1, <1>9, <1>12 DEF ProcessOrdered
<1>15. /\ log'[n] = l /\ expectedSeq'[n] = k /\ buffer'[n] = R
       /\ seen'[n] = seen[n] \union {w}
       /\ \A q \in Node \ {n} : /\ log'[q] = log[q] /\ expectedSeq'[q] = expectedSeq[q]
                                /\ buffer'[q] = buffer[q] /\ seen'[q] = seen[q]
       /\ log'[Leader] = L /\ buffer'[Leader] = buffer[Leader]
  BY <1>1, <1>4, <1>14, LeaderIsANode DEF TypeOK
<1>16. /\ log' \in [Node -> Seq(Write)]
       /\ expectedSeq' \in [Node -> Nat \ {0}]
       /\ buffer' \in [Node -> SUBSET Numbered]
  <2>1. k \in Nat \ {0} /\ R \in SUBSET Numbered
    BY <1>2, <1>10, <1>13
  <2> QED
    BY <2>1, <1>13, <1>14 DEF TypeOK
<1>17. LogsFollowLeader'
  <2> SUFFICES ASSUME NEW q \in Node
               PROVE  /\ expectedSeq'[q] = Len(log'[q]) + 1
                      /\ Len(log'[q]) =< Len(L)
                      /\ \A i \in 1 .. Len(log'[q]) : log'[q][i] = L[i]
    BY <1>15 DEF LogsFollowLeader
  <2>1. CASE q = n
    BY <2>1, <1>2, <1>13, <1>15
  <2>2. CASE q # n
    BY <2>2, <1>1, <1>15 DEF LogsFollowLeader
  <2> QED
    BY <2>1, <2>2
<1>18. BuffersInOrder'
  <2> SUFFICES ASSUME NEW q \in Node, NEW b \in buffer'[q]
               PROVE  /\ b.seq \in 1 .. Len(L) /\ L[b.seq] = b.id
                      /\ b.seq > expectedSeq'[q]
    BY <1>15 DEF BuffersInOrder, InOrder
  <2>1. CASE q = n
    <3>1. b \in B /\ b.seq > k /\ b.seq \in Nat
      BY <2>1, <1>10, <1>13, <1>15 DEF Numbered
    <3> QED
      BY <3>1, <2>1, <1>2, <1>11, <1>13, <1>15
  <2>2. CASE q # n
    BY <2>2, <1>1, <1>15 DEF BuffersInOrder, InOrder
  <2> QED
    BY <2>1, <2>2
<1>19. SeenIsHeld'
  <2>1. {b.id : b \in B} = {b.id : b \in buffer[n]} \union {w}
    BY <1>8, <1>10
  <2>2. seen'[n] = Range(l) \union {b.id : b \in R}
    BY <2>1, <1>3, <1>13, <1>15
  <2> QED
    BY <2>2, <1>15 DEF SeenIsHeld
<1> QED
  BY <1>1, <1>2, <1>4, <1>13, <1>14, <1>15, <1>16, <1>17, <1>18, <1>19
-----------------------------------------------------------------------------
(* Messages and timers. *)

(* The fields of each kind of message. *)
LEMMA MessageFields ==
    ASSUME NEW w, NEW s, NEW n
    PROVE  /\ ClientWrite(w, n).type = "client_write"
           /\ ClientWrite(w, n).id = w /\ ClientWrite(w, n).from = n
           /\ RequestAck(w, n).type = "request_ack"
           /\ RequestAck(w, n).id = w /\ RequestAck(w, n).to = n
           /\ Replicate(w, s, n).type = "replicate"
           /\ Replicate(w, s, n).id = w /\ Replicate(w, s, n).seq = s
           /\ Replicate(w, s, n).to = n
           /\ ReplicationAck(w, n).type = "replication_ack"
           /\ ReplicationAck(w, n).id = w /\ ReplicationAck(w, n).from = n
  BY DEF ClientWrite, RequestAck, Replicate, ReplicationAck

(* Each kind of message is a message. *)
LEMMA MessageTypes ==
    ASSUME NEW w \in Write, NEW s \in Nat, NEW n \in Node
    PROVE  /\ ClientWrite(w, n) \in Message
           /\ RequestAck(w, n) \in Message
           /\ Replicate(w, s, n) \in ReplicateMessage
           /\ Replicate(w, s, n) \in Message
           /\ ReplicationAck(w, n) \in Message
  BY DEF ClientWrite, RequestAck, Replicate, ReplicationAck, Message, ReplicateMessage

(* A replicate message among the messages carries a write and a number. *)
LEMMA ReplicateTypes ==
    ASSUME NEW m \in Message, m.type = "replicate"
    PROVE  m.id \in Write /\ m.seq \in Nat /\ m.to \in Node
<1>1. CASE m \in ReplicateMessage
  BY <1>1 DEF ReplicateMessage
<1>2. CASE m \notin ReplicateMessage
  BY <1>2 DEF Message
<1> QED
  BY <1>1, <1>2

(* schedule_retry leaves one timer exactly when the flag is set, and sets it if needed. *)
LEMMA ScheduleRetryArms ==
    ASSUME TypeOK, RetryArmed, NEW n \in Node, ScheduleRetry(n),
           \A p \in Node \ {n} : HasPending(p)' => HasPending(p)
    PROVE  /\ RetryArmed'
           /\ retryScheduled' \in [Node -> BOOLEAN]
           /\ timers' \in [Node -> Nat]
<1>1. CASE ~retryScheduled[n] /\ HasPending(n)'
  <2>1. /\ retryScheduled' = [retryScheduled EXCEPT ![n] = TRUE]
        /\ timers' = [timers EXCEPT ![n] = @ + 1]
    BY <1>1 DEF ScheduleRetry
  <2>2. timers[n] = 0
    BY <1>1 DEF RetryArmed
  <2> QED
    BY <2>1, <2>2 DEF RetryArmed, TypeOK
<1>2. CASE ~(~retryScheduled[n] /\ HasPending(n)')
  <2>1. UNCHANGED retrying
    BY <1>2 DEF ScheduleRetry
  <2> QED
    BY <1>2, <2>1 DEF RetryArmed, TypeOK, retrying
<1> QED
  BY <1>1, <1>2

(* Handling a message can add to the network only what is sent. *)
LEMMA OnlySent ==
    ASSUME NEW m, NEW out, ReceiveAndSend(m, out)
    PROVE  network' \subseteq network \union out
  BY DEF ReceiveAndSend
-----------------------------------------------------------------------------
(* Inv is inductive. *)

LEMMA InitInv == Init => Inv
<1> SUFFICES ASSUME Init PROVE Inv
  OBVIOUS
<1> USE DEF Init
<1>1. TypeOK
  BY DEF TypeOK
<1>2. Range(<<>>) = {} /\ Len(<<>>) = 0 /\ IsInjective(<<>>)
  BY DEF Range, IsInjective
<1>3. LeaderAppliesAll
  BY <1>2, LeaderIsANode DEF LeaderAppliesAll
<1>4. LogsFollowLeader
  BY <1>2, LeaderIsANode DEF LogsFollowLeader
<1>5. BuffersInOrder /\ MessagesInOrder
  BY DEF BuffersInOrder, MessagesInOrder
<1>6. SeenIsHeld
  BY <1>2 DEF SeenIsHeld
<1>7. AcksAreTrue
  BY DEF AcksAreTrue
<1>8. NothingForgotten
  BY <1>2, LeaderIsANode DEF NothingForgotten
<1>9. RetryArmed
  BY DEF RetryArmed, HasPending
<1> QED
  BY <1>1, <1>3, <1>4, <1>5, <1>6, <1>7, <1>8, <1>9 DEF Inv

(* A client write reaching the leader, for the first time or again. *)
LEMMA NumberingKeepsInv ==
    ASSUME Inv, NEW w \in Write, NEW n \in Node, ReceiveAndReplicate(w),
           submitted' = submitted \union {w}, pendingRequests' = pendingRequests,
           network' \subseteq network \union Replications(w) \union {RequestAck(w, n)}
    PROVE  Inv'
<1>inv. /\ TypeOK /\ LeaderAppliesAll /\ LogsFollowLeader /\ BuffersInOrder
        /\ MessagesInOrder /\ SeenIsHeld /\ AcksAreTrue /\ NothingForgotten /\ RetryArmed
  BY DEF Inv
<1>1. CASE w \in sequenced
  <2>1. UNCHANGED <<leading, replica, retrying>> /\ Replications(w) = {}
    BY <1>1 DEF ReceiveAndReplicate, Replications
  <2>2. w \in submitted /\ submitted' = submitted
    BY <1>1, <1>inv DEF LeaderAppliesAll
  <2>3. network' \subseteq network \union {RequestAck(w, n)}
    BY <2>1
  <2> USE <2>1, <2>2 DEF leading, replica, retrying
  <2>4. TypeOK'
    BY <1>inv, <2>3, MessageTypes DEF TypeOK
  <2>5. LeaderAppliesAll' /\ LogsFollowLeader' /\ SeenIsHeld' /\ BuffersInOrder'
    BY <1>inv DEF LeaderAppliesAll, LogsFollowLeader, SeenIsHeld, BuffersInOrder, InOrder
  <2>6. MessagesInOrder'
    BY <1>inv, <2>3, MessageFields DEF MessagesInOrder, InOrder
  <2>7. AcksAreTrue'
    <3> SUFFICES ASSUME NEW v \in Write, NEW q \in Node
                 PROVE  /\ ReplicationAck(v, q) \in network' => v \in seen[q]
                        /\ RequestAck(v, q) \in network' => v \in sequenced
                        /\ ClientWrite(v, q) \in network' => v \in submitted
                        /\ v \in pendingRequests[q] => v \in submitted
      BY DEF AcksAreTrue
    <3>1. RequestAck(v, q) \in network' => RequestAck(v, q) \in network \/ v = w
      BY <2>3, MessageFields
    <3>2. /\ ReplicationAck(v, q) \in network' => ReplicationAck(v, q) \in network
          /\ ClientWrite(v, q) \in network' => ClientWrite(v, q) \in network
      BY <2>3, MessageFields
    <3> QED
      BY <3>1, <3>2, <1>1, <1>inv DEF AcksAreTrue
  <2>8. NothingForgotten' /\ RetryArmed'
    BY <1>inv DEF NothingForgotten, RetryArmed, HasPending
  <2> QED
    BY <2>4, <2>5, <2>6, <2>7, <2>8 DEF Inv
<1>2. CASE w \notin sequenced
  <2>1. PICK L, e : L = log[Leader] /\ e = nextSeq
    OBVIOUS
  <2>2. /\ log' = [log EXCEPT ![Leader] = Append(@, w)]
        /\ expectedSeq' = [expectedSeq EXCEPT ![Leader] = e + 1]
        /\ buffer' = buffer
        /\ seen' = [seen EXCEPT ![Leader] = @ \union {w}]
        /\ sequenced' = sequenced \union {w}
        /\ nextSeq' = e + 1
        /\ pendingReplications' =
               pendingReplications \union {Replicate(w, e, p) : p \in Node \ {Leader}}
    BY <1>inv, <1>2, <2>1, LeaderAppends
  <2>3. ScheduleRetry(Leader)
    BY <1>2 DEF ReceiveAndReplicate
  <2>4. /\ L \in Seq(Write) /\ Len(L) \in Nat /\ e = Len(L) + 1
        /\ sequenced = Range(L) /\ buffer[Leader] = {} /\ IsInjective(L)
        /\ Range(L) = {L[i] : i \in 1 .. Len(L)}
    BY <1>inv, <2>1, LeaderIsANode DEF TypeOK, LeaderAppliesAll, Range
  <2>5. PICK M : M = Append(L, w)
    OBVIOUS
  <2>6. /\ M \in Seq(Write) /\ Len(M) = e
        /\ \A i \in 1 .. Len(L) : M[i] = L[i]
        /\ M[e] = w
        /\ DOMAIN M = 1 .. e
        /\ Range(M) = Range(L) \union {w}
    <3>1. /\ M \in Seq(Write) /\ Len(M) = e /\ M[e] = w
          /\ DOMAIN M = 1 .. e /\ \A i \in 1 .. Len(L) : M[i] = L[i]
      BY <2>4, <2>5
    <3>2. Range(M) = {M[i] : i \in 1 .. e}
      BY <3>1 DEF Range
    <3> QED
      BY <3>1, <3>2, <2>4
  <2>7. /\ log'[Leader] = M /\ seen'[Leader] = seen[Leader] \union {w}
        /\ expectedSeq'[Leader] = e + 1
        /\ \A p \in Node \ {Leader} : /\ log'[p] = log[p] /\ seen'[p] = seen[p]
                                      /\ expectedSeq'[p] = expectedSeq[p]
    BY <1>inv, <2>1, <2>2, <2>5, LeaderIsANode DEF TypeOK
  <2>8. network' \subseteq network \union {Replicate(w, e, p) : p \in Node \ {Leader}}
                                   \union {RequestAck(w, n)}
    BY <1>2, <2>1 DEF Replications, Relays
  <2>9. RetryArmed' /\ retryScheduled' \in [Node -> BOOLEAN] /\ timers' \in [Node -> Nat]
    <3>1. \A p \in Node \ {Leader} : HasPending(p)' => HasPending(p)
      BY DEF HasPending
    <3> QED
      BY <3>1, <2>3, <1>inv, LeaderIsANode, ScheduleRetryArms
  <2>10. TypeOK'
    <3>1. \A p \in Node : Replicate(w, e, p) \in ReplicateMessage \cap Message
      <4>1. e \in Nat
        BY <2>4
      <4> QED
        BY <4>1, MessageTypes
    <3>2. network' \in SUBSET Message
      BY <3>1, <2>8, <1>inv, MessageTypes DEF TypeOK
    <3>3. pendingReplications' \in SUBSET ReplicateMessage
      BY <3>1, <2>2, <1>inv DEF TypeOK
    <3>4. log' \in [Node -> Seq(Write)] /\ expectedSeq' \in [Node -> Nat \ {0}]
      <4>1. log' = [log EXCEPT ![Leader] = M] /\ e + 1 \in Nat \ {0}
        BY <2>1, <2>2, <2>4, <2>5
      <4>2. log' \in [Node -> Seq(Write)]
        BY <4>1, <1>inv, <2>6 DEF TypeOK
      <4>3. expectedSeq' \in [Node -> Nat \ {0}]
        BY <4>1, <1>inv, <2>2 DEF TypeOK
      <4> QED
        BY <4>2, <4>3
    <3> QED
      BY <3>2, <3>3, <3>4, <2>2, <2>4, <2>9, <1>inv DEF TypeOK
  <2>11. LeaderAppliesAll'
    <3>1. IsInjective(M)
      <4> SUFFICES ASSUME NEW i \in 1 .. e, NEW j \in 1 .. e, M[i] = M[j] PROVE i = j
        BY <2>6 DEF IsInjective
      <4>1. \A k \in 1 .. Len(L) : M[k] # w
        BY <1>2, <2>4, <2>6
      <4>2. CASE i \in 1 .. Len(L) /\ j \in 1 .. Len(L)
        BY <4>2, <2>4, <2>6 DEF IsInjective
      <4> QED
        BY <4>1, <4>2, <2>4, <2>6
    <3>2. sequenced' \subseteq submitted'
      BY <2>2, <1>inv DEF LeaderAppliesAll
    <3> QED
      BY <3>1, <3>2, <2>2, <2>4, <2>6, <2>7 DEF LeaderAppliesAll
  <2>12. LogsFollowLeader'
    <3> SUFFICES ASSUME NEW p \in Node
                 PROVE  /\ expectedSeq'[p] = Len(log'[p]) + 1
                        /\ Len(log'[p]) =< Len(M)
                        /\ \A i \in 1 .. Len(log'[p]) : log'[p][i] = M[i]
      BY <2>7 DEF LogsFollowLeader
    <3>1. CASE p = Leader
      BY <3>1, <2>4, <2>6, <2>7
    <3>2. CASE p # Leader
      <4>1. /\ expectedSeq[p] = Len(log[p]) + 1 /\ Len(log[p]) =< Len(L)
            /\ Len(log[p]) \in Nat
            /\ \A i \in 1 .. Len(log[p]) : log[p][i] = L[i]
        BY <1>inv, <2>1 DEF LogsFollowLeader, TypeOK
      <4> QED
        BY <4>1, <3>2, <2>4, <2>6, <2>7
    <3> QED
      BY <3>1, <3>2
  <2>13. \A r : InOrder(r) => InOrder(r)'
    BY <2>1, <2>4, <2>6, <2>7 DEF InOrder
  <2>14. BuffersInOrder'
    <3> SUFFICES ASSUME NEW p \in Node, NEW b \in buffer[p]
                 PROVE  InOrder(b)' /\ b.seq > expectedSeq'[p]
      BY <2>2 DEF BuffersInOrder
    <3>1. p # Leader
      BY <2>4
    <3> QED
      BY <3>1, <2>7, <2>13, <1>inv DEF BuffersInOrder
  <2>15. MessagesInOrder'
    <3>1. \A p : InOrder(Replicate(w, e, p))'
      BY <2>4, <2>6, <2>7, MessageFields DEF InOrder
    <3>2. ASSUME NEW m \in network', m.type = "replicate" PROVE InOrder(m)'
      <4>1. CASE m \in network
        BY <4>1, <3>2, <2>13, <1>inv DEF MessagesInOrder
      <4>2. CASE m \notin network
        BY <4>2, <3>1, <3>2, <2>8, MessageFields
      <4> QED
        BY <4>1, <4>2
    <3>3. ASSUME NEW m \in pendingReplications' PROVE InOrder(m)'
      <4>1. CASE m \in pendingReplications
        BY <4>1, <2>13, <1>inv DEF MessagesInOrder
      <4>2. CASE m \notin pendingReplications
        BY <4>2, <3>1, <2>2
      <4> QED
        BY <4>1, <4>2
    <3> QED
      BY <3>2, <3>3 DEF MessagesInOrder
  <2>16. SeenIsHeld'
    <3> SUFFICES ASSUME NEW p \in Node
                 PROVE  seen'[p] = Range(log'[p]) \union {b.id : b \in buffer[p]}
      BY <2>2 DEF SeenIsHeld
    <3>1. seen[p] = Range(log[p]) \union {b.id : b \in buffer[p]}
      BY <1>inv DEF SeenIsHeld
    <3> QED
      BY <3>1, <2>1, <2>6, <2>7
  <2>17. AcksAreTrue'
    <3> SUFFICES ASSUME NEW v \in Write, NEW q \in Node
                 PROVE  /\ ReplicationAck(v, q) \in network' => v \in seen'[q]
                        /\ RequestAck(v, q) \in network' => v \in sequenced'
                        /\ ClientWrite(v, q) \in network' => v \in submitted'
                        /\ v \in pendingRequests[q] => v \in submitted'
      BY DEF AcksAreTrue
    <3>1. /\ RequestAck(v, q) \in network' => RequestAck(v, q) \in network \/ v = w
          /\ ReplicationAck(v, q) \in network' => ReplicationAck(v, q) \in network
          /\ ClientWrite(v, q) \in network' => ClientWrite(v, q) \in network
      BY <2>8, MessageFields
    <3>2. seen[q] \subseteq seen'[q]
      BY <2>7
    <3> QED
      BY <3>1, <3>2, <2>2, <1>inv DEF AcksAreTrue
  <2>18. NothingForgotten'
    <3>1. ASSUME NEW v \in submitted' \ sequenced' PROVE \E q \in Node : v \in pendingRequests'[q]
      BY <3>1, <2>2, <1>inv DEF NothingForgotten
    <3>2. ASSUME NEW i \in 1 .. e, NEW q \in Node \ {Leader}
          PROVE  \/ M[i] \in seen'[q]
                 \/ Replicate(M[i], i, q) \in pendingReplications'
      <4>1. CASE i = e
        BY <4>1, <2>2, <2>6
      <4>2. CASE i # e
        <5>1. i \in 1 .. Len(L) /\ M[i] = L[i]
          BY <4>2, <2>4, <2>6
        <5>2. L[i] \in seen[q] \/ Replicate(L[i], i, q) \in pendingReplications
          BY <5>1, <1>inv, <2>1 DEF NothingForgotten
        <5> QED
          BY <5>1, <5>2, <2>2, <2>7
      <4> QED
        BY <4>1, <4>2
    <3> QED
      BY <3>1, <3>2, <2>6, <2>7 DEF NothingForgotten
  <2> QED
    BY <2>9, <2>10, <2>11, <2>12, <2>14, <2>15, <2>16, <2>17, <2>18 DEF Inv
<1> QED
  BY <1>1, <1>2

(* A client write put at a node that is not the leader. *)
LEMMA FollowerPutKeepsInv ==
    ASSUME Inv, NEW w \in Write, NEW n \in Node, ClientPutAtFollower(w, n)
    PROVE  Inv'
<1>inv. /\ TypeOK /\ LeaderAppliesAll /\ LogsFollowLeader /\ BuffersInOrder
        /\ MessagesInOrder /\ SeenIsHeld /\ AcksAreTrue /\ NothingForgotten /\ RetryArmed
  BY DEF Inv
<1>1. /\ submitted' = submitted \union {w}
      /\ pendingRequests' = [pendingRequests EXCEPT ![n] = @ \union {w}]
      /\ network' = network \union {ClientWrite(w, n)}
      /\ UNCHANGED <<replica, leading>>
      /\ n # Leader
      /\ ScheduleRetry(n)
  BY DEF ClientPutAtFollower, Send
<1>2. /\ pendingRequests'[n] = pendingRequests[n] \union {w}
      /\ \A p \in Node \ {n} : pendingRequests'[p] = pendingRequests[p]
  BY <1>1, <1>inv DEF TypeOK
<1> USE <1>1 DEF replica, leading
<1>3. RetryArmed' /\ retryScheduled' \in [Node -> BOOLEAN] /\ timers' \in [Node -> Nat]
  <2>1. \A p \in Node \ {n} : HasPending(p)' => HasPending(p)
    BY <1>2 DEF HasPending
  <2> QED
    BY <2>1, <1>inv, ScheduleRetryArms
<1>4. TypeOK'
  <2>1. network' \in SUBSET Message
    BY <1>inv, MessageTypes DEF TypeOK
  <2> QED
    BY <2>1, <1>3, <1>inv DEF TypeOK
<1>5. LeaderAppliesAll' /\ LogsFollowLeader' /\ SeenIsHeld' /\ BuffersInOrder'
  BY <1>inv DEF LeaderAppliesAll, LogsFollowLeader, SeenIsHeld, BuffersInOrder, InOrder
<1>6. MessagesInOrder'
  BY <1>inv, MessageFields DEF MessagesInOrder, InOrder
<1>7. AcksAreTrue'
  <2> SUFFICES ASSUME NEW v \in Write, NEW q \in Node
               PROVE  /\ ReplicationAck(v, q) \in network' => v \in seen[q]
                      /\ RequestAck(v, q) \in network' => v \in sequenced
                      /\ ClientWrite(v, q) \in network' => v \in submitted'
                      /\ v \in pendingRequests'[q] => v \in submitted'
    BY DEF AcksAreTrue
  <2>1. /\ RequestAck(v, q) \in network' => RequestAck(v, q) \in network
        /\ ReplicationAck(v, q) \in network' => ReplicationAck(v, q) \in network
        /\ ClientWrite(v, q) \in network' => ClientWrite(v, q) \in network \/ v = w
    BY MessageFields
  <2>2. v \in pendingRequests'[q] => v \in pendingRequests[q] \/ v = w
    BY <1>2
  <2> QED
    BY <2>1, <2>2, <1>inv DEF AcksAreTrue
<1>8. NothingForgotten'
  <2>1. ASSUME NEW v \in submitted' \ sequenced' PROVE \E q \in Node : v \in pendingRequests'[q]
    <3>1. CASE v = w
      BY <3>1, <1>2
    <3>2. CASE v # w
      <4>1. PICK q \in Node : v \in pendingRequests[q]
        BY <3>2, <2>1, <1>inv DEF NothingForgotten
      <4> QED
        BY <4>1, <1>2
    <3> QED
      BY <3>1, <3>2
  <2> QED
    BY <2>1, <1>inv DEF NothingForgotten
<1> QED
  BY <1>3, <1>4, <1>5, <1>6, <1>7, <1>8 DEF Inv

(* A replicate message, new or a duplicate. *)
LEMMA ReplicateKeepsInv ==
    ASSUME Inv, NEW w \in Write, NEW n \in Node, ReceiveReplicate(w, n)
    PROVE  Inv'
<1>inv. /\ TypeOK /\ LeaderAppliesAll /\ LogsFollowLeader /\ BuffersInOrder
        /\ MessagesInOrder /\ SeenIsHeld /\ AcksAreTrue /\ NothingForgotten /\ RetryArmed
  BY DEF Inv
<1>1. PICK m \in network :
          /\ m.type = "replicate" /\ m.id = w /\ m.to = n
          /\ HandleReplication(n, w, m.seq)
          /\ ReceiveAndSend(m, Acks(n, w) \union Relays(n, w, m.seq))
          /\ UNCHANGED <<leading, pendingRequests, retrying, submitted>>
  BY DEF ReceiveReplicate
<1>2. PICK s : s = m.seq
  OBVIOUS
<1>3. s \in 1 .. Len(log[Leader]) /\ log[Leader][s] = w /\ s \in Nat
  <2>1. InOrder(m)
    BY <1>1, <1>inv DEF MessagesInOrder
  <2>2. s \in Nat
    BY <1>1, <1>2, <1>inv, ReplicateTypes DEF TypeOK
  <2> QED
    BY <2>1, <2>2, <1>1, <1>2 DEF InOrder
<1>4. HandleReplication(n, w, s)
  BY <1>1, <1>2
<1>5. network' \subseteq network \union {ReplicationAck(w, n)}
                            \union {Replicate(w, s, p) : p \in Node \ {n}}
  <2>1. network' \subseteq network \union (Acks(n, w) \union Relays(n, w, s))
    BY <1>1, <1>2, OnlySent
  <2> QED
    BY <2>1 DEF Acks, Relays
<1>6. /\ log'[Leader] = log[Leader]
      /\ log' \in [Node -> Seq(Write)]
      /\ expectedSeq' \in [Node -> Nat \ {0}]
      /\ buffer' \in [Node -> SUBSET Numbered]
      /\ buffer'[Leader] = buffer[Leader]
      /\ seen' \in [Node -> SUBSET Write]
      /\ \A p \in Node : seen[p] \subseteq seen'[p]
      /\ w \in seen'[n]
      /\ LogsFollowLeader'
      /\ BuffersInOrder'
      /\ SeenIsHeld'
  <2>1. CASE w \in seen[n]
    <3>1. UNCHANGED replica
      BY <2>1, <1>4 DEF HandleReplication
    <3> QED
      BY <3>1, <2>1, <1>inv
      DEF TypeOK, LogsFollowLeader, BuffersInOrder, InOrder, SeenIsHeld, replica
  <2>2. CASE w \notin seen[n]
    <3>1. /\ log'[Leader] = log[Leader]
          /\ log' \in [Node -> Seq(Write)]
          /\ expectedSeq' \in [Node -> Nat \ {0}]
          /\ buffer' \in [Node -> SUBSET Numbered]
          /\ buffer'[Leader] = buffer[Leader]
          /\ seen' = [seen EXCEPT ![n] = @ \union {w}]
          /\ LogsFollowLeader'
          /\ BuffersInOrder'
          /\ SeenIsHeld'
      BY <2>2, <1>3, <1>4, <1>inv, FollowerApplies
    <3>2. /\ seen' \in [Node -> SUBSET Write]
          /\ \A p \in Node : seen[p] \subseteq seen'[p]
          /\ w \in seen'[n]
      BY <3>1, <1>inv DEF TypeOK
    <3> QED
      BY <3>1, <3>2
  <2> QED
    BY <2>1, <2>2
<1>7. UNCHANGED <<nextSeq, sequenced, pendingReplications, pendingRequests,
                  retryScheduled, timers, submitted>>
  BY <1>1 DEF leading, retrying
<1>8. TypeOK'
  <2>1. network' \in SUBSET Message
    <3>1. /\ ReplicationAck(w, n) \in Message
          /\ \A p \in Node : Replicate(w, s, p) \in Message
      BY <1>3, MessageTypes
    <3>2. network \subseteq Message
      BY <1>inv DEF TypeOK
    <3> QED
      BY <1>5, <3>1, <3>2
  <2> QED
    BY <2>1, <1>6, <1>7, <1>inv DEF TypeOK
<1>9. LeaderAppliesAll'
  BY <1>6, <1>7, <1>inv DEF LeaderAppliesAll
<1>10. MessagesInOrder'
  <2>1. \A p : InOrder(Replicate(w, s, p))
    BY <1>3, MessageFields DEF InOrder
  <2>2. \A r : InOrder(r) => InOrder(r)'
    BY <1>6 DEF InOrder
  <2>3. ASSUME NEW c \in network', c.type = "replicate" PROVE InOrder(c)
    <3>1. CASE c \in network
      BY <3>1, <2>3, <1>inv DEF MessagesInOrder
    <3>2. CASE c \notin network
      BY <3>2, <2>1, <2>3, <1>5, MessageFields
    <3> QED
      BY <3>1, <3>2
  <2> QED
    BY <2>2, <2>3, <1>7, <1>inv DEF MessagesInOrder
<1>11. AcksAreTrue'
  <2> SUFFICES ASSUME NEW v \in Write, NEW q \in Node
               PROVE  /\ ReplicationAck(v, q) \in network' => v \in seen'[q]
                      /\ RequestAck(v, q) \in network' => v \in sequenced
                      /\ ClientWrite(v, q) \in network' => v \in submitted
                      /\ v \in pendingRequests[q] => v \in submitted
    BY <1>7 DEF AcksAreTrue
  <2>1. /\ RequestAck(v, q) \in network' => RequestAck(v, q) \in network
        /\ ReplicationAck(v, q) \in network' => \/ ReplicationAck(v, q) \in network
                                                \/ v = w /\ q = n
        /\ ClientWrite(v, q) \in network' => ClientWrite(v, q) \in network
    BY <1>5, MessageFields
  <2> QED
    BY <2>1, <1>6, <1>inv DEF AcksAreTrue
<1>12. NothingForgotten'
  BY <1>6, <1>7, <1>inv DEF NothingForgotten
<1>13. RetryArmed'
  BY <1>7, <1>inv DEF RetryArmed, HasPending
<1> QED
  BY <1>6, <1>8, <1>9, <1>10, <1>11, <1>12, <1>13 DEF Inv

(* An acknowledgement of either kind. *)
LEMMA AckKeepsInv ==
    ASSUME Inv, NEW w \in Write, NEW n \in Node,
           ReceiveRequestAck(w, n) \/ ReceiveReplicationAck(w, n)
    PROVE  Inv'
<1>inv. /\ TypeOK /\ LeaderAppliesAll /\ LogsFollowLeader /\ BuffersInOrder
        /\ MessagesInOrder /\ SeenIsHeld /\ AcksAreTrue /\ NothingForgotten /\ RetryArmed
  BY DEF Inv
<1>1. /\ UNCHANGED <<replica, nextSeq, sequenced, retrying, submitted>>
      /\ network' \subseteq network
  BY OnlySent DEF ReceiveRequestAck, ReceiveReplicationAck, leading
<1>2. /\ \A p \in Node : pendingRequests'[p] \subseteq pendingRequests[p]
      /\ pendingRequests' \in [Node -> SUBSET Write]
      /\ pendingReplications' \subseteq pendingReplications
  BY <1>inv DEF ReceiveRequestAck, ReceiveReplicationAck, leading, TypeOK
<1> USE <1>1 DEF replica, retrying
<1>3. TypeOK'
  BY <1>2, <1>inv DEF TypeOK
<1>4. LeaderAppliesAll' /\ LogsFollowLeader' /\ SeenIsHeld' /\ BuffersInOrder'
  BY <1>inv DEF LeaderAppliesAll, LogsFollowLeader, SeenIsHeld, BuffersInOrder, InOrder
<1>5. MessagesInOrder' /\ AcksAreTrue'
  BY <1>2, <1>inv DEF MessagesInOrder, InOrder, AcksAreTrue
<1>6. ASSUME NEW v \in submitted' \ sequenced' PROVE \E q \in Node : v \in pendingRequests'[q]
  <2>1. PICK q \in Node : v \in pendingRequests[q]
    BY <1>6, <1>inv DEF NothingForgotten
  <2>2. CASE ReceiveRequestAck(w, n)
    <3>1. v # w
      BY <2>2, <1>6, <1>inv DEF ReceiveRequestAck, AcksAreTrue
    <3>2. v \in pendingRequests'[q]
      BY <2>1, <2>2, <3>1, <1>inv DEF ReceiveRequestAck, TypeOK
    <3> QED
      BY <3>2
  <2>3. CASE ReceiveReplicationAck(w, n)
    BY <2>1, <2>3 DEF ReceiveReplicationAck
  <2> QED
    BY <2>2, <2>3
<1>7. ASSUME NEW i \in 1 .. Len(log[Leader]), NEW q \in Node \ {Leader},
             log[Leader][i] \notin seen[q]
      PROVE  Replicate(log[Leader][i], i, q) \in pendingReplications'
  <2>1. Replicate(log[Leader][i], i, q) \in pendingReplications
    BY <1>7, <1>inv DEF NothingForgotten
  <2>2. CASE ReceiveRequestAck(w, n)
    BY <2>1, <2>2 DEF ReceiveRequestAck, leading
  <2>3. CASE ReceiveReplicationAck(w, n)
    <3>1. w \in seen[n]
      BY <2>3, <1>inv DEF ReceiveReplicationAck, AcksAreTrue
    <3>2. ~(log[Leader][i] = w /\ q = n)
      BY <3>1, <1>7
    <3> QED
      BY <2>1, <2>3, <3>2, MessageFields DEF ReceiveReplicationAck
  <2> QED
    BY <2>2, <2>3
<1>8. NothingForgotten'
  BY <1>6, <1>7 DEF NothingForgotten
<1>9. RetryArmed'
  BY <1>2, <1>inv DEF RetryArmed, HasPending
<1> QED
  BY <1>3, <1>4, <1>5, <1>8, <1>9 DEF Inv

(* The retry timer, a lost message, and a step of another component. *)
LEMMA ResendOrLossKeepsInv ==
    ASSUME Inv,
           \/ \E n \in Node : RetryPending(n)
           \/ \E m \in network : Lose(m)
           \/ UNCHANGED vars
    PROVE  Inv'
<1>inv. /\ TypeOK /\ LeaderAppliesAll /\ LogsFollowLeader /\ BuffersInOrder
        /\ MessagesInOrder /\ SeenIsHeld /\ AcksAreTrue /\ NothingForgotten /\ RetryArmed
  BY DEF Inv
<1>1. UNCHANGED <<replica, leading, pendingRequests, submitted>>
  BY DEF RetryPending, Lose, vars, replica, leading
<1>2. /\ RetryArmed'
      /\ retryScheduled' \in [Node -> BOOLEAN]
      /\ timers' \in [Node -> Nat]
  <2>1. \A p \in Node : HasPending(p)' <=> HasPending(p)
    BY <1>1 DEF HasPending, leading
  <2>2. ASSUME NEW n \in Node, RetryPending(n)
        PROVE  /\ RetryArmed'
               /\ retryScheduled' \in [Node -> BOOLEAN]
               /\ timers' \in [Node -> Nat]
    <3>1. timers[n] = 1 /\ HasPending(n) \in BOOLEAN
      BY <2>2, <1>inv DEF RetryPending, RetryArmed, HasPending, TypeOK
    <3>2. /\ retryScheduled' = [retryScheduled EXCEPT ![n] = HasPending(n)]
          /\ timers' = [timers EXCEPT ![n] = IF HasPending(n) THEN 1 ELSE 0]
      BY <2>2, <3>1 DEF RetryPending
    <3> QED
      BY <2>1, <3>1, <3>2, <1>inv DEF RetryArmed, TypeOK
  <2>3. CASE UNCHANGED retrying
    BY <2>1, <2>3, <1>inv DEF RetryArmed, TypeOK, retrying
  <2> QED
    BY <2>2, <2>3 DEF Lose, vars, retrying
<1>3. \A m \in network' :
          \/ m \in network
          \/ m \in pendingReplications
          \/ \E n \in Node : \E w \in pendingRequests[n] : m = ClientWrite(w, n)
  BY DEF RetryPending, Send, Resent, Lose, vars
<1> USE <1>1 DEF replica, leading
<1>4. TypeOK'
  <2>1. ReplicateMessage \subseteq Message
    BY DEF Message
  <2>2. network' \in SUBSET Message
    BY <2>1, <1>3, <1>inv, MessageTypes DEF TypeOK
  <2> QED
    BY <2>2, <1>2, <1>inv DEF TypeOK
<1>5. LeaderAppliesAll' /\ LogsFollowLeader' /\ SeenIsHeld' /\ BuffersInOrder'
  BY <1>inv DEF LeaderAppliesAll, LogsFollowLeader, SeenIsHeld, BuffersInOrder, InOrder
<1>6. MessagesInOrder'
  BY <1>3, <1>inv, MessageFields DEF MessagesInOrder, InOrder
<1>7. AcksAreTrue'
  <2> SUFFICES ASSUME NEW v \in Write, NEW q \in Node
               PROVE  /\ ReplicationAck(v, q) \in network' => v \in seen[q]
                      /\ RequestAck(v, q) \in network' => v \in sequenced
                      /\ ClientWrite(v, q) \in network' => v \in submitted
                      /\ v \in pendingRequests[q] => v \in submitted
    BY DEF AcksAreTrue
  <2>1. \A c \in pendingReplications : c.type = "replicate"
    BY <1>inv DEF TypeOK, ReplicateMessage
  <2>2. ASSUME NEW c \in network', c \notin network, c.type # "replicate"
        PROVE  c.type = "client_write" /\ c.from \in Node /\ c.id \in pendingRequests[c.from]
    <3>1. PICK n \in Node : \E w \in pendingRequests[n] : c = ClientWrite(w, n)
      BY <2>1, <2>2, <1>3
    <3>2. PICK w \in pendingRequests[n] : c = ClientWrite(w, n)
      BY <3>1
    <3> QED
      BY <3>2, MessageFields
  <2>3. /\ RequestAck(v, q) \in network' => RequestAck(v, q) \in network
        /\ ReplicationAck(v, q) \in network' => ReplicationAck(v, q) \in network
    <3>1. /\ RequestAck(v, q).type = "request_ack"
          /\ ReplicationAck(v, q).type = "replication_ack"
      BY MessageFields
    <3> QED
      BY <2>2, <3>1
  <2>4. ClientWrite(v, q) \in network' => \/ ClientWrite(v, q) \in network
                                          \/ v \in pendingRequests[q]
    <3>1. /\ ClientWrite(v, q).type = "client_write"
          /\ ClientWrite(v, q).id = v /\ ClientWrite(v, q).from = q
      BY MessageFields
    <3> QED
      BY <2>2, <3>1
  <2> QED
    BY <2>3, <2>4, <1>inv DEF AcksAreTrue
<1>8. NothingForgotten'
  BY <1>inv DEF NothingForgotten
<1> QED
  BY <1>2, <1>4, <1>5, <1>6, <1>7, <1>8 DEF Inv

(* Every step of the protocol keeps the invariant. *)
LEMMA NextKeepsInv == Inv /\ [Next]_vars => Inv'
<1> SUFFICES ASSUME Inv, [Next]_vars PROVE Inv'
  OBVIOUS
<1>1. ASSUME NEW w \in Write, ClientPutAtLeader(w) PROVE Inv'
  BY <1>1, NumberingKeepsInv, LeaderIsANode DEF ClientPutAtLeader, Send
<1>2. ASSUME NEW w \in Write, NEW n \in Node, ClientPutAtFollower(w, n) PROVE Inv'
  BY <1>2, FollowerPutKeepsInv
<1>3. ASSUME NEW w \in Write, NEW n \in Node, ReceiveClientWrite(w, n) PROVE Inv'
  <2>1. submitted' = submitted \union {w} /\ pendingRequests' = pendingRequests
    BY <1>3 DEF ReceiveClientWrite, Inv, AcksAreTrue
  <2>2. network' \subseteq network \union Replications(w) \union {RequestAck(w, n)}
    BY <1>3, OnlySent DEF ReceiveClientWrite
  <2> QED
    BY <1>3, <2>1, <2>2, NumberingKeepsInv DEF ReceiveClientWrite
<1>4. ASSUME NEW w \in Write, NEW n \in Node, ReceiveRequestAck(w, n) PROVE Inv'
  BY <1>4, AckKeepsInv
<1>5. ASSUME NEW w \in Write, NEW n \in Node, ReceiveReplicate(w, n) PROVE Inv'
  BY <1>5, ReplicateKeepsInv
<1>6. ASSUME NEW w \in Write, NEW n \in Node, ReceiveReplicationAck(w, n) PROVE Inv'
  BY <1>6, AckKeepsInv
<1>7. ASSUME NEW n \in Node, RetryPending(n) PROVE Inv'
  BY <1>7, ResendOrLossKeepsInv
<1>8. ASSUME NEW m \in network, Lose(m) PROVE Inv'
  BY <1>8, ResendOrLossKeepsInv
<1>9. CASE UNCHANGED vars
  BY <1>9, ResendOrLossKeepsInv
<1> QED
  BY <1>1, <1>2, <1>3, <1>4, <1>5, <1>6, <1>7, <1>8, <1>9 DEF Next

(* Inv holds in every reachable state: with it the types of all variables. *)
THEOREM Invariance == Spec => []Inv
<1> QED
  BY InitInv, NextKeepsInv, PTL DEF Spec
-----------------------------------------------------------------------------
(* The properties of the protocol. *)

(* The logs of any two nodes agree, in every reachable state. *)
THEOREM Agreement == Spec => []LogsAgree
<1>1. Inv => LogsAgree
  <2> SUFFICES ASSUME Inv, NEW m \in Node, NEW n \in Node
               PROVE  IsPrefix(log[m], log[n]) \/ IsPrefix(log[n], log[m])
    BY DEF LogsAgree, TOB!Agreement, TOB!IsPrefix, IsPrefix
  <2>1. \A q \in Node : /\ log[q] \in Seq(Write) /\ Len(log[q]) \in Nat
                        /\ Len(log[q]) =< Len(log[Leader])
                        /\ \A i \in 1 .. Len(log[q]) : log[q][i] = log[Leader][i]
    BY DEF Inv, TypeOK, LogsFollowLeader
  <2>2. CASE Len(log[m]) =< Len(log[n])
    <3>1. \A i \in 1 .. Len(log[m]) : log[m][i] = log[n][i]
      BY <2>1, <2>2
    <3> QED
      BY <2>1, <2>2, <3>1, PrefixByEntry
  <2>3. CASE Len(log[n]) =< Len(log[m])
    <3>1. \A i \in 1 .. Len(log[n]) : log[n][i] = log[m][i]
      BY <2>1, <2>3
    <3> QED
      BY <2>1, <2>3, <3>1, PrefixByEntry
  <2> QED
    BY <2>1, <2>2, <2>3
<1> QED
  BY <1>1, Invariance, PTL

(* No node applies a write twice or one that nobody put. *)
THEOREM Integrity == Spec => []AppliedOnce
<1>1. Inv => AppliedOnce
  <2> SUFFICES ASSUME Inv, NEW n \in Node
               PROVE  IsInjective(log[n]) /\ Range(log[n]) \subseteq submitted
    BY DEF AppliedOnce, TOB!Integrity, TOB!IsInjective, IsInjective, TOB!Range, Range
  <2>1. PICK l, L : l = log[n] /\ L = log[Leader]
    OBVIOUS
  <2>2. /\ l \in Seq(Write) /\ L \in Seq(Write) /\ Len(l) =< Len(L)
        /\ \A i \in 1 .. Len(l) : l[i] = L[i]
        /\ IsInjective(L) /\ Range(L) \subseteq submitted
    BY <2>1, LeaderIsANode DEF Inv, TypeOK, LogsFollowLeader, LeaderAppliesAll
  <2>3. DOMAIN l = 1 .. Len(l) /\ DOMAIN L = 1 .. Len(L) /\ Len(l) \in Nat /\ Len(L) \in Nat
    BY <2>2
  <2>4. IsInjective(l)
    <3>1. \A i, j \in 1 .. Len(L) : L[i] = L[j] => i = j
      BY <2>2, <2>3 DEF IsInjective
    <3>2. \A i \in 1 .. Len(l) : i \in 1 .. Len(L)
      BY <2>2, <2>3
    <3>3. \A i, j \in 1 .. Len(l) : l[i] = l[j] => i = j
      BY <2>2, <3>1, <3>2
    <3> QED
      BY <2>3, <3>3 DEF IsInjective
  <2>5. Range(l) \subseteq Range(L)
    BY <2>2, <2>3 DEF Range
  <2> QED
    BY <2>1, <2>2, <2>4, <2>5
<1> QED
  BY <1>1, Invariance, PTL

(* What is missing somewhere is pending somewhere. *)
THEOREM Retention == Spec => []NothingForgotten
  BY Invariance, PTL DEF Inv

(* A node with something pending has exactly one retry timer, and never two. *)
THEOREM TimerDiscipline == Spec => []RetryArmed
  BY Invariance, PTL DEF Inv

(* When nothing is pending anywhere, every node has applied every write: were a node  *)
(* to lack the write after its last one, it would hold it in its buffer, out of order. *)
THEOREM Settlement == Spec => []SettledMeansApplied
<1>1. Inv => SettledMeansApplied
  <2> SUFFICES ASSUME Inv, \A n \in Node : ~HasPending(n), NEW n \in Node
               PROVE  Range(log[n]) = submitted
    BY DEF SettledMeansApplied
  <2>inv. /\ TypeOK /\ LeaderAppliesAll /\ LogsFollowLeader /\ BuffersInOrder
          /\ SeenIsHeld /\ NothingForgotten
    BY DEF Inv
  <2>1. (\A q \in Node : pendingRequests[q] = {}) /\ pendingReplications = {}
    BY LeaderIsANode DEF HasPending
  <2>2. PICK l, L : l = log[n] /\ L = log[Leader]
    OBVIOUS
  <2>3. /\ l \in Seq(Write) /\ L \in Seq(Write) /\ Len(l) =< Len(L)
        /\ Len(l) \in Nat /\ Len(L) \in Nat
        /\ \A i \in 1 .. Len(l) : l[i] = L[i]
        /\ \A i, j \in 1 .. Len(L) : L[i] = L[j] => i = j
        /\ Range(l) = {l[i] : i \in 1 .. Len(l)}
    BY <2>2, <2>inv, LeaderIsANode DEF TypeOK, LogsFollowLeader, LeaderAppliesAll, IsInjective, Range
  <2>4. Range(L) = submitted
    BY <2>1, <2>2, <2>inv DEF LeaderAppliesAll, NothingForgotten
  <2>5. Len(l) = Len(L)
    <3> SUFFICES ASSUME Len(l) < Len(L) PROVE FALSE
      BY <2>3
    <3>1. n # Leader
      BY <2>2, <2>3
    <3>2. PICK e : e = Len(l) + 1
      OBVIOUS
    <3>3. e \in 1 .. Len(L) /\ e = expectedSeq[n]
      BY <3>2, <2>2, <2>3, <2>inv DEF LogsFollowLeader
    <3>4. L[e] \in seen[n]
      BY <3>1, <3>3, <2>1, <2>2, <2>inv DEF NothingForgotten
    <3>5. L[e] \notin Range(l)
      BY <3>2, <3>3, <2>3
    <3>6. PICK b \in buffer[n] : b.id = L[e]
      BY <3>4, <3>5, <2>2, <2>inv DEF SeenIsHeld
    <3>7. b.seq \in 1 .. Len(L) /\ L[b.seq] = L[e] /\ b.seq > e
      BY <3>3, <3>6, <2>2, <2>inv DEF BuffersInOrder, InOrder
    <3> QED
      BY <3>3, <3>7, <2>3
  <2>6. Range(l) = Range(L)
    BY <2>3, <2>5 DEF Range
  <2> QED
    BY <2>2, <2>4, <2>6
<1> QED
  BY <1>1, Invariance, PTL
-----------------------------------------------------------------------------
(* The protocol implements the abstract ordered broadcast. *)

(* A step extends at most one log, and the leader's log only at its end. *)
LEMMA OneLogGrows ==
    ASSUME Inv, Next
    PROVE  /\ \E n \in Node : /\ \A q \in Node \ {n} : log'[q] = log[q]
                              /\ Len(log[n]) =< Len(log'[n])
           /\ Follows(log[Leader], log'[Leader])
<1>inv. /\ TypeOK /\ LeaderAppliesAll /\ LogsFollowLeader /\ BuffersInOrder
        /\ MessagesInOrder /\ SeenIsHeld
  BY DEF Inv
<1>0. \A q \in Node : log[q] \in Seq(Write) /\ Len(log[q]) \in Nat
  BY <1>inv DEF TypeOK
<1> DEFINE Goal == /\ \E n \in Node : /\ \A q \in Node \ {n} : log'[q] = log[q]
                                      /\ Len(log[n]) =< Len(log'[n])
                   /\ Follows(log[Leader], log'[Leader])
<1>1. ASSUME UNCHANGED log PROVE Goal
  BY <1>1, <1>0, LeaderIsANode DEF Follows
<1>2. ASSUME NEW w \in Write, ReceiveAndReplicate(w) PROVE Goal
  <2>1. CASE w \in sequenced
    BY <2>1, <1>1, <1>2 DEF ReceiveAndReplicate, replica
  <2>2. CASE w \notin sequenced
    <3>1. log' = [log EXCEPT ![Leader] = Append(@, w)]
      BY <2>2, <1>2, <1>inv, LeaderAppends
    <3>2. /\ log'[Leader] = Append(log[Leader], w)
          /\ \A q \in Node \ {Leader} : log'[q] = log[q]
      BY <3>1, <1>inv, LeaderIsANode DEF TypeOK
    <3>3. /\ Len(log[Leader]) =< Len(log'[Leader])
          /\ Follows(log[Leader], log'[Leader])
      BY <3>2, <1>0, LeaderIsANode DEF Follows
    <3> QED
      BY <3>2, <3>3, LeaderIsANode
  <2> QED
    BY <2>1, <2>2
<1>3. ASSUME NEW w \in Write, NEW n \in Node, ReceiveReplicate(w, n) PROVE Goal
  <2>1. PICK m \in network : m.type = "replicate" /\ m.id = w /\ HandleReplication(n, w, m.seq)
    BY <1>3 DEF ReceiveReplicate
  <2>2. CASE w \in seen[n]
    BY <2>1, <2>2, <1>1 DEF HandleReplication, replica
  <2>3. CASE w \notin seen[n]
    <3>1. PICK s : s = m.seq
      OBVIOUS
    <3>2. s \in 1 .. Len(log[Leader]) /\ log[Leader][s] = w
      BY <2>1, <3>1, <1>inv DEF MessagesInOrder, InOrder
    <3>3. /\ log'[Leader] = log[Leader]
          /\ \A q \in Node \ {n} : log'[q] = log[q]
          /\ Len(log[n]) =< Len(log'[n])
      BY <2>1, <2>3, <3>1, <3>2, <1>inv, FollowerApplies
    <3>4. Follows(log[Leader], log'[Leader])
      BY <3>3, <1>0, LeaderIsANode DEF Follows
    <3> QED
      BY <3>3, <3>4
  <2> QED
    BY <2>2, <2>3
<1> HIDE DEF Goal
<1>4. Goal
  BY <1>1, <1>2, <1>3
  DEF Next, ClientPutAtLeader, ClientPutAtFollower, ReceiveClientWrite, ReceiveRequestAck,
      ReceiveReplicationAck, RetryPending, Lose, replica
<1> QED
  BY <1>4 DEF Goal

(* A step puts at most one write, and takes none back. *)
LEMMA OneWritePut ==
    ASSUME Inv, Next
    PROVE  TOB!Submit \/ UNCHANGED submitted
<1>1. ASSUME NEW w \in Write, w \notin submitted, submitted' = submitted \union {w}
      PROVE  TOB!Submit
  BY <1>1 DEF TOB!Submit
<1> QED
  BY <1>1
  DEF Next, ClientPutAtLeader, ClientPutAtFollower, ReceiveClientWrite, ReceiveRequestAck,
      ReceiveReplicate, ReceiveReplicationAck, RetryPending, Lose

(* With the leader's log as the order, NodeTotalOrder is an ordered broadcast. *)
THEOREM Refinement == Spec => ImplementsBroadcast
<1>1. Init => TOB!Init
  BY LeaderIsANode DEF Init, TOB!Init
<1>2. Inv /\ Inv' /\ [Next]_vars => [TOB!Next]_TOB!vars
  <2>1. CASE UNCHANGED vars
    BY <2>1 DEF vars, TOB!vars
  <2>2. ASSUME Inv, Inv', Next PROVE TOB!Next
    <3>1. PICK L, M : L = log[Leader] /\ M = log'[Leader]
      OBVIOUS
    <3>2. /\ \A q \in Node : log[q] \in Seq(Write) /\ Len(log[q]) \in Nat
          /\ \A q \in Node : log'[q] \in Seq(Write) /\ Len(log'[q]) \in Nat
          /\ log \in [Node -> Seq(Write)] /\ log' \in [Node -> Seq(Write)]
          /\ L \in Seq(Write) /\ M \in Seq(Write)
      BY <2>2, <3>1, LeaderIsANode DEF Inv, TypeOK
    <3>3. TOB!Extend
      <4>1. IsPrefix(L, M)
        BY <2>2, <3>1, <3>2, OneLogGrows, PrefixByEntry DEF Follows
      <4>2. IsInjective(M) /\ Range(M) \subseteq submitted'
        BY <2>2, <3>1 DEF Inv, LeaderAppliesAll
      <4> QED
        BY <3>1, <3>2, <4>1, <4>2
        DEF TOB!Extend, TOB!IsPrefix, IsPrefix, TOB!IsInjective, IsInjective, TOB!Range, Range
    <3>4. PICK n \in Node : /\ \A q \in Node \ {n} : log'[q] = log[q]
                            /\ Len(log[n]) =< Len(log'[n])
      BY <2>2, OneLogGrows
    <3>5. PICK l, k : l = log'[n] /\ k = Len(l)
      OBVIOUS
    <3>6. /\ l \in Seq(Write) /\ k \in Nat /\ k =< Len(M) /\ Len(log[n]) =< k
          /\ \A i \in 1 .. k : l[i] = M[i]
      BY <2>2, <3>1, <3>2, <3>4, <3>5 DEF Inv, LogsFollowLeader
    <3>7. l = SubSeq(M, 1, k)
      BY <3>2, <3>5, <3>6
    <3>8. log' = [log EXCEPT ![n] = l]
      BY <3>2, <3>4, <3>5
    <3>9. (\E q \in Node : TOB!Deliver(q)) \/ UNCHANGED log
      <4>1. CASE k = Len(log[n])
        <5>1. PICK p : p = log[n]
          OBVIOUS
        <5>2. p \in Seq(Write) /\ Len(p) = k
          BY <4>1, <5>1, <3>2
        <5>3. \A i \in 1 .. k : p[i] = L[i] /\ L[i] = M[i]
          <6>1. k =< Len(L) /\ \A i \in 1 .. k : p[i] = L[i]
            BY <2>2, <5>1, <5>2, <3>1 DEF Inv, LogsFollowLeader
          <6>2. \A i \in 1 .. Len(L) : L[i] = M[i]
            BY <2>2, <3>1, OneLogGrows DEF Follows
          <6>3. Len(L) \in Nat /\ k \in Nat
            BY <3>2, <3>6
          <6> QED
            BY <6>1, <6>2, <6>3
        <5>4. l = p
          BY <5>2, <5>3, <3>5, <3>6
        <5> QED
          BY <5>1, <5>4, <3>2, <3>8
      <4>2. CASE k # Len(log[n])
        <5>1. k \in Len(log[n]) + 1 .. Len(M)
          BY <4>2, <3>2, <3>6
        <5> QED
          BY <5>1, <3>1, <3>7, <3>8 DEF TOB!Deliver
      <4> QED
        BY <4>1, <4>2
    <3> QED
      BY <2>2, <3>3, <3>9, OneWritePut DEF TOB!Next
  <2> QED
    BY <2>1, <2>2
<1> QED
  BY <1>1, <1>2, Invariance, PTL DEF Spec, ImplementsBroadcast, TOB!Spec
=============================================================================
