-------------------------- MODULE JobManagerProofs --------------------------
(***************************************************************************)
(* Proofs about NodeJobManager for every cluster, every set of jobs and    *)
(* every interleaving: what nodes store, run and answer is decided by the  *)
(* order of the operations (Inv), and the properties TLC checks follow.    *)
(***************************************************************************)
EXTENDS JobManager, FiniteSetTheorems, TLAPS

-----------------------------------------------------------------------------
(* Operations and the order. *)

LEMMA OperationFields ==
    ASSUME NEW o \in Operation
    PROVE  /\ o.op \in {"submit", "query", "claim", "complete"}
           /\ o.sender \in Node
           /\ o.op = "submit" => o.job \in Job /\ o.def \in Definition
           /\ o.op = "query" => o.job \in Job
           /\ o.op = "claim" => o.task \in Task
           /\ o.op = "complete" => o.task \in Task /\ o = Completion(o.task, o.sender)
  BY DEF Operation, Submission, Query, Claim, Completion

(* What the order says at position p, and up to p, stays as it is. *)
Keeps(p) ==
    /\ order'[p] = order[p]
    /\ \A j : /\ Submits(p, j)' <=> Submits(p, j)
              /\ Queries(p, j)' <=> Queries(p, j)
              /\ Defines(p, j)' <=> Defines(p, j)
    /\ \A t : /\ Claims(p, t)' <=> Claims(p, t)
              /\ Completes(p, t)' <=> Completes(p, t)
              /\ Wins(p, t)' <=> Wins(p, t)
KeepsUpTo(p) ==
    /\ \A j, d : DefinedAs(j, d, p)' <=> DefinedAs(j, d, p)
    /\ \A t, w : WonBy(t, w, p)' <=> WonBy(t, w, p)
    /\ \A t : Completed(t, p)' <=> Completed(t, p)
    /\ \A j, d : Finished(j, d, p)' <=> Finished(j, d, p)

LEMMA KeepingAddsUp ==
    ASSUME NEW k, \A p \in 1 .. k : Keeps(p)
    PROVE  KeepsUpTo(k)
<1>1. \A j, d : DefinedAs(j, d, k)' <=> DefinedAs(j, d, k)
  BY DEF DefinedAs, Keeps
<1>2. \A t, w : WonBy(t, w, k)' <=> WonBy(t, w, k)
  BY DEF WonBy, Keeps
<1>3. \A t : Completed(t, k)' <=> Completed(t, k)
  BY DEF Completed, Keeps
<1>4. \A j, d : Finished(j, d, k)' <=> Finished(j, d, k)
  BY <1>3 DEF Finished
<1> QED
  BY <1>1, <1>2, <1>3, <1>4 DEF KeepsUpTo

LEMMA OrderStays ==
    ASSUME order' = order
    PROVE  \A p : Keeps(p) /\ KeepsUpTo(p)
<1>1. \A p : Keeps(p)
  BY DEF Keeps, Submits, Queries, Defines, Claims, Completes, Wins
<1> QED
  BY <1>1, KeepingAddsUp

LEMMA OrderGrows ==
    ASSUME order \in Seq(Operation), NEW o \in Operation, order' = Append(order, o)
    PROVE  /\ order' \in Seq(Operation) /\ Len(order') = Len(order) + 1
           /\ order'[Len(order) + 1] = o
           /\ \A p \in 1 .. Len(order) : Keeps(p)
           /\ \A p \in 0 .. Len(order) : KeepsUpTo(p)
<1>1. /\ order' \in Seq(Operation) /\ Len(order') = Len(order) + 1 /\ Len(order) \in Nat
      /\ order'[Len(order) + 1] = o
      /\ \A p \in 1 .. Len(order) : order'[p] = order[p]
  OBVIOUS
<1>2. ASSUME NEW p \in 1 .. Len(order) PROVE Keeps(p)
  <2>1. \A q \in 1 .. p - 1 : q \in 1 .. Len(order)
    BY <1>1
  <2> QED
    BY <1>1, <2>1 DEF Keeps, Submits, Queries, Defines, Claims, Completes, Wins
<1>3. ASSUME NEW p \in 0 .. Len(order) PROVE KeepsUpTo(p)
  <2>1. \A q \in 1 .. p : q \in 1 .. Len(order)
    BY <1>1
  <2>2. \A q \in 1 .. p : Keeps(q)
    BY <2>1, <1>2
  <2> QED
    BY <2>2, KeepingAddsUp
<1> QED
  BY <1>1, <1>2, <1>3

(* Of the operations of a kind one is the first. *)
LEMMA SomeSubmissionDefines ==
    ASSUME NEW k \in Nat, NEW p \in 1 .. k, NEW j, Submits(p, j)
    PROVE  \E q \in 1 .. k : Defines(q, j)
<1> DEFINE S == {q \in Nat : q \in 1 .. k /\ Submits(q, j)}
<1>1. p \in S
  OBVIOUS
<1>2. \E q \in S : \A r \in S : <<r, q>> \notin OpToRel(<, Nat)
  BY <1>1, NatLessThanWellFounded, WFMin, Zenon
<1>3. PICK q \in S : \A r \in S : ~(r < q)
  BY <1>2, Zenon DEF OpToRel
<1>4. \A r \in 1 .. q - 1 : ~Submits(r, j)
  BY <1>3
<1> QED
  BY <1>3, <1>4 DEF Defines

LEMMA SomeClaimWins ==
    ASSUME NEW k \in Nat, NEW p \in 1 .. k, NEW t, Claims(p, t)
    PROVE  \E q \in 1 .. k : Wins(q, t)
<1> DEFINE S == {q \in Nat : q \in 1 .. k /\ Claims(q, t)}
<1>1. p \in S
  OBVIOUS
<1>2. \E q \in S : \A r \in S : <<r, q>> \notin OpToRel(<, Nat)
  BY <1>1, NatLessThanWellFounded, WFMin, Zenon
<1>3. PICK q \in S : \A r \in S : ~(r < q)
  BY <1>2, Zenon DEF OpToRel
<1>4. \A r \in 1 .. q - 1 : ~Claims(r, t)
  BY <1>3
<1> QED
  BY <1>3, <1>4 DEF Wins

LEMMA OneDefines ==
    ASSUME NEW p \in Nat \ {0}, NEW q \in Nat \ {0}, NEW j, Defines(p, j), Defines(q, j)
    PROVE  p = q
<1>1. p \in 1 .. q - 1 \/ q \in 1 .. p - 1 \/ p = q
  OBVIOUS
<1> QED
  BY <1>1 DEF Defines

LEMMA OneWins ==
    ASSUME NEW p \in Nat \ {0}, NEW q \in Nat \ {0}, NEW t, Wins(p, t), Wins(q, t)
    PROVE  p = q
<1>1. p \in 1 .. q - 1 \/ q \in 1 .. p - 1 \/ p = q
  OBVIOUS
<1> QED
  BY <1>1 DEF Wins

LEMMA OneDefinition ==
    ASSUME NEW k \in Nat, NEW l \in Nat, NEW j, NEW d, NEW e, DefinedAs(j, d, k), DefinedAs(j, e, l)
    PROVE  d = e
  BY OneDefines DEF DefinedAs

LEMMA OneWinner ==
    ASSUME NEW k \in Nat, NEW l \in Nat, NEW t, NEW v, NEW w, WonBy(t, v, k), WonBy(t, w, l)
    PROVE  v = w
  BY OneWins DEF WonBy

(* What the order has settled it settles for good. *)
LEMMA SettledStays ==
    ASSUME NEW k \in Nat, NEW l \in Nat, k =< l
    PROVE  /\ \A j, d : DefinedAs(j, d, k) => DefinedAs(j, d, l)
           /\ \A t, w : WonBy(t, w, k) => WonBy(t, w, l)
           /\ \A t : Completed(t, k) => Completed(t, l)
           /\ \A j, d : Finished(j, d, k) => Finished(j, d, l)
<1>1. \A p \in 1 .. k : p \in 1 .. l
  OBVIOUS
<1>2. \A t : Completed(t, k) => Completed(t, l)
  BY <1>1 DEF Completed
<1> QED
  BY <1>1, <1>2 DEF DefinedAs, WonBy, Finished

(* What one more operation adds. *)
LEMMA OneMore ==
    ASSUME NEW k \in Nat
    PROVE  /\ \A j, d : DefinedAs(j, d, k + 1) <=>
                           DefinedAs(j, d, k) \/ (Defines(k + 1, j) /\ order[k + 1].def = d)
           /\ \A t, w : WonBy(t, w, k + 1) <=>
                           WonBy(t, w, k) \/ (Wins(k + 1, t) /\ order[k + 1].sender = w)
           /\ \A t : Completed(t, k + 1) <=> Completed(t, k) \/ Completes(k + 1, t)
<1>1. \A p : p \in 1 .. k + 1 <=> p \in 1 .. k \/ p = k + 1
  OBVIOUS
<1> QED
  BY <1>1 DEF DefinedAs, WonBy, Completed

(* A store has no job, or one definition of it: that of the position that defines it. *)
LEMMA JobsAreSingle ==
    ASSUME TypeOK, JobsFollowOrder, NEW n \in Node, NEW j \in Job
    PROVE  /\ jobs[n][j] = {} => \A p \in 1 .. delivered[n] : ~Submits(p, j)
           /\ \A d, e \in jobs[n][j] : d = e
           /\ jobs[n][j] \subseteq Definition
<1>1. /\ delivered[n] \in Nat /\ delivered[n] =< Len(order) /\ Len(order) \in Nat
      /\ order \in Seq(Operation) /\ jobs[n][j] \subseteq Definition
  BY DEF TypeOK
<1>2. ASSUME jobs[n][j] = {}, NEW p \in 1 .. delivered[n], Submits(p, j) PROVE FALSE
  <2>1. PICK q \in 1 .. delivered[n] : Defines(q, j)
    BY <1>1, <1>2, SomeSubmissionDefines
  <2>2. order[q].def \in Definition
    BY <2>1, <1>1, OperationFields DEF Defines, Submits
  <2> QED
    BY <2>1, <2>2, <1>2 DEF JobsFollowOrder, DefinedAs
<1>3. ASSUME NEW d \in jobs[n][j], NEW e \in jobs[n][j] PROVE d = e
  BY <1>1, OneDefinition DEF JobsFollowOrder
<1> QED
  BY <1>1, <1>2, <1>3

(* A task is free at a node that has executed no claim of it. *)
LEMMA TasksAreWon ==
    ASSUME TypeOK, TasksFollowOrder, NEW n \in Node, NEW t \in Task
    PROVE  /\ tasks[n][t] = Unclaimed <=> \A w \in Node : ~WonBy(t, w, delivered[n])
           /\ tasks[n][t] = Unclaimed => \A p \in 1 .. delivered[n] : ~Claims(p, t)
           /\ tasks[n][t].status = "complete" <=> Completed(t, delivered[n])
           /\ \A w \in Node : WonBy(t, w, delivered[n]) =>
                  tasks[n][t] = IF Completed(t, delivered[n]) THEN Complete(w) ELSE Claimed(w)
<1>1. delivered[n] \in Nat /\ delivered[n] =< Len(order) /\ order \in Seq(Operation)
  BY DEF TypeOK
<1>2. \A w : Claimed(w) # Unclaimed /\ Complete(w) # Unclaimed
  BY DEF Claimed, Complete, Unclaimed
<1>3. /\ Unclaimed.status = "none"
      /\ \A w : Claimed(w).status = "claimed" /\ Complete(w).status = "complete"
  BY DEF Claimed, Complete, Unclaimed
<1>4. \A v, w \in Node : WonBy(t, v, delivered[n]) /\ WonBy(t, w, delivered[n]) => v = w
  BY <1>1, OneWinner
<1>5. ASSUME NEW p \in 1 .. delivered[n], Claims(p, t)
      PROVE  \E w \in Node : WonBy(t, w, delivered[n])
  <2>1. PICK q \in 1 .. delivered[n] : Wins(q, t)
    BY <1>1, <1>5, SomeClaimWins
  <2>2. order[q].sender \in Node
    BY <2>1, <1>1, OperationFields
  <2> QED
    BY <2>1, <2>2 DEF WonBy
<1>6. CASE /\ tasks[n][t] = Unclaimed
           /\ ~Completed(t, delivered[n])
           /\ \A w \in Node : ~WonBy(t, w, delivered[n])
  BY <1>3, <1>5, <1>6
<1>7. ASSUME NEW w \in Node, WonBy(t, w, delivered[n]),
             tasks[n][t] = IF Completed(t, delivered[n]) THEN Complete(w) ELSE Claimed(w)
      PROVE  /\ tasks[n][t] # Unclaimed
             /\ tasks[n][t].status = "complete" <=> Completed(t, delivered[n])
             /\ \A v \in Node : WonBy(t, v, delivered[n]) => v = w
  <2>1. CASE Completed(t, delivered[n])
    BY <2>1, <1>2, <1>3, <1>4, <1>7
  <2>2. CASE ~Completed(t, delivered[n])
    BY <2>2, <1>2, <1>3, <1>4, <1>7
  <2> QED
    BY <2>1, <2>2
<1> QED
  BY <1>5, <1>6, <1>7 DEF TasksFollowOrder

-----------------------------------------------------------------------------
(* What is published. *)

LEMMA PublishedGrows ==
    ASSUME TypeOK, OwnOutbox, NEW n \in Node, NEW s \in Seq(Operation),
           \A o \in Range(s) : o.sender = n,
           Publish(n, s), order' = order
    PROVE  /\ outbox' \in [Node -> Seq(Operation)]
           /\ OwnOutbox'
           /\ \A o : o.sender \in Node => (IsPublished(o)' <=> IsPublished(o) \/ o \in Range(s))
<1>1. outbox \in [Node -> Seq(Operation)]
  BY DEF TypeOK
<1>2. PICK b : b = outbox[n]
  OBVIOUS
<1>3. b \in Seq(Operation)
  BY <1>1, <1>2
<1>4. b \o s \in Seq(Operation) /\ Range(b \o s) = Range(b) \union Range(s)
  <2>1. /\ b \o s \in Seq(Operation) /\ Len(b \o s) = Len(b) + Len(s)
        /\ \A i \in 1 .. Len(b) : (b \o s)[i] = b[i]
        /\ \A i \in Len(b) + 1 .. Len(b) + Len(s) : (b \o s)[i] = s[i - Len(b)]
        /\ Len(b) \in Nat /\ Len(s) \in Nat
    BY <1>3
  <2>2. /\ Range(b) = {b[i] : i \in 1 .. Len(b)} /\ Range(s) = {s[i] : i \in 1 .. Len(s)}
        /\ Range(b \o s) = {(b \o s)[i] : i \in 1 .. Len(b) + Len(s)}
    BY <1>3, <2>1 DEF Range
  <2>3. ASSUME NEW i \in 1 .. Len(s) PROVE s[i] \in Range(b \o s)
    <3>1. /\ Len(b) + i \in Len(b) + 1 .. Len(b) + Len(s) /\ (Len(b) + i) - Len(b) = i
          /\ Len(b) + i \in 1 .. Len(b) + Len(s)
      BY <2>1
    <3>2. (b \o s)[Len(b) + i] = s[i]
      BY <3>1, <2>1
    <3> QED
      BY <3>1, <3>2, <2>2
  <2>4. ASSUME NEW i \in 1 .. Len(b) PROVE b[i] \in Range(b \o s)
    <3>1. i \in 1 .. Len(b) + Len(s)
      BY <2>1
    <3> QED
      BY <3>1, <2>1, <2>2
  <2>5. ASSUME NEW i \in 1 .. Len(b) + Len(s) PROVE (b \o s)[i] \in Range(b) \union Range(s)
    <3>1. CASE i \in 1 .. Len(b)
      BY <3>1, <2>1, <2>2
    <3>2. CASE i \in Len(b) + 1 .. Len(b) + Len(s)
      <4>1. i - Len(b) \in 1 .. Len(s)
        BY <3>2, <2>1
      <4> QED
        BY <3>2, <4>1, <2>1, <2>2
    <3> QED
      BY <3>1, <3>2, <2>1
  <2>6. Range(b \o s) \subseteq Range(b) \union Range(s)
    BY <2>2, <2>5
  <2>7. Range(b) \union Range(s) \subseteq Range(b \o s)
    BY <2>2, <2>3, <2>4
  <2> QED
    BY <2>1, <2>6, <2>7
<1>5. outbox' = [outbox EXCEPT ![n] = b \o s]
  BY <1>2 DEF Publish
<1>6. /\ outbox' \in [Node -> Seq(Operation)]
      /\ outbox'[n] = b \o s
      /\ \A r \in Node : r # n => outbox'[r] = outbox[r]
  BY <1>1, <1>4, <1>5
<1>7. \A r \in Node : Range(outbox'[r]) =
                         IF r = n THEN Range(outbox[r]) \union Range(s) ELSE Range(outbox[r])
  BY <1>2, <1>4, <1>6
<1>8. OwnOutbox'
  BY <1>7 DEF OwnOutbox, Range
<1>9. ASSUME NEW o, o.sender \in Node
      PROVE  IsPublished(o)' <=> IsPublished(o) \/ o \in Range(s)
  <2>1. IsPublished(o)' <=> o \in Range(order) \/ o \in Range(outbox'[o.sender])
    BY DEF IsPublished, Range
  <2> QED
    BY <2>1, <1>7, <1>9 DEF IsPublished
<1> QED
  BY <1>6, <1>8, <1>9

-----------------------------------------------------------------------------
(* Every step keeps the invariant. *)

LEMMA InvIsInitial == Init => Inv
<1> SUFFICES ASSUME Init PROVE Inv
  OBVIOUS
<1>1. TypeOK
  BY DEF Init, TypeOK, TaskState
<1>2. /\ order = <<>> /\ responses = {} /\ failed = {}
      /\ \A n \in Node : /\ outbox[n] = <<>> /\ delivered[n] = 0
                         /\ started[n] = {} /\ executed[n] = {} /\ executing[n] = {}
                         /\ \A j \in Job : jobs[n][j] = {}
                         /\ \A t \in Task : tasks[n][t] = Unclaimed
      /\ \A t \in Task : runs[t] = 0
  BY DEF Init
<1>none. /\ \A j, d : ~DefinedAs(j, d, 0)
         /\ \A t, w : ~WonBy(t, w, 0)
         /\ \A t : ~Completed(t, 0)
  BY DEF DefinedAs, WonBy, Completed
<1>3. OwnOutbox /\ JobsFollowOrder /\ TasksFollowOrder
  BY <1>none, <1>2 DEF OwnOutbox, JobsFollowOrder, TasksFollowOrder, Range
<1>4. WinnersExecute /\ SharesAreClaimed /\ AnswersFollowOrder
  BY <1>none, <1>2 DEF WinnersExecute, SharesAreClaimed, AnswersFollowOrder
<1>5. CompletionsAreTrue
  <2>1. \A n \in Node, t \in Task : ~IsPublished(Completion(t, n))
    BY <1>2 DEF IsPublished, Completion, Range
  <2> QED
    BY <2>1, <1>2 DEF CompletionsAreTrue
<1> QED
  BY <1>1, <1>3, <1>4, <1>5 DEF Inv

LEMMA RequestKeepsInv ==
    ASSUME Inv, NEW n \in Node, Request(n)
    PROVE  Inv'
<1>1. PICK call \in Calls \ requests : /\ call.sender = n
                                       /\ requests' = requests \union {call}
                                       /\ Publish(n, <<call>>)
  BY DEF Request
<1>2. call \in Operation /\ call.op # "complete"
  BY CallsAreRequests
<1>3. UNCHANGED <<order, delivered, store, callbacks, responses, history>>
  BY DEF Request
<1>4. /\ order' = order /\ delivered' = delivered /\ jobs' = jobs /\ tasks' = tasks
      /\ started' = started /\ starting' = starting /\ executed' = executed
      /\ executing' = executing /\ responses' = responses /\ runs' = runs /\ failed' = failed
  BY <1>3 DEF store, callbacks, history
<1>5. \A p : Keeps(p) /\ KeepsUpTo(p)
  BY <1>4, OrderStays
<1>6. /\ outbox' \in [Node -> Seq(Operation)] /\ OwnOutbox'
      /\ \A o : o.sender \in Node => (IsPublished(o)' <=> IsPublished(o) \/ o = call)
  <2>1. <<call>> \in Seq(Operation) /\ Range(<<call>>) = {call}
    BY <1>2 DEF Range
  <2> QED
    BY <2>1, <1>1, <1>4, PublishedGrows DEF Inv
<1>7. TypeOK'
  BY <1>1, <1>4, <1>6 DEF Inv, TypeOK
<1>8. JobsFollowOrder' /\ TasksFollowOrder' /\ AnswersFollowOrder'
  <2>1. JobsFollowOrder'
    BY <1>4, <1>5 DEF Inv, JobsFollowOrder, KeepsUpTo
  <2>2. TasksFollowOrder'
    BY <1>4, <1>5 DEF Inv, TasksFollowOrder, KeepsUpTo
  <2>3. AnswersFollowOrder'
    BY <1>4, <1>5 DEF Inv, AnswersFollowOrder, FollowsOrder, Keeps, KeepsUpTo
  <2> QED
    BY <2>1, <2>2, <2>3
<1>9. \A t \in Task, r \in Node : IsPublished(Completion(t, r))' <=> IsPublished(Completion(t, r))
  BY <1>2, <1>6 DEF Completion
<1>10. \A t : \A r \in Node : IsPublished(Claim(t, r)) => IsPublished(Claim(t, r))'
  BY <1>6 DEF Claim
<1>11. CompletionsAreTrue'
  BY <1>4, <1>5, <1>9 DEF Inv, CompletionsAreTrue, Keeps, KeepsUpTo
<1>12. WinnersExecute'
  BY <1>4, <1>5, <1>9 DEF Inv, WinnersExecute, KeepsUpTo
<1>13. SharesAreClaimed'
  BY <1>4, <1>10 DEF Inv, SharesAreClaimed
<1> QED
  BY <1>6, <1>7, <1>8, <1>11, <1>12, <1>13 DEF Inv

LEMMA DecideKeepsInv ==
    ASSUME Inv, NEW n \in Node, Decide(n)
    PROVE  Inv'
<1>1. PICK b, o, l : b = outbox[n] /\ o = Head(b) /\ l = Len(order)
  OBVIOUS
<1>2. /\ b # <<>> /\ order' = Append(order, o) /\ outbox' = [outbox EXCEPT ![n] = Tail(b)]
      /\ UNCHANGED <<delivered, store, callbacks, responses, requests, history>>
  BY <1>1 DEF Decide
<1>3. /\ delivered' = delivered /\ jobs' = jobs /\ tasks' = tasks
      /\ started' = started /\ starting' = starting /\ executed' = executed
      /\ executing' = executing /\ responses' = responses /\ runs' = runs /\ failed' = failed
      /\ requests' = requests
  BY <1>2 DEF store, callbacks, history
<1>4. outbox \in [Node -> Seq(Operation)] /\ order \in Seq(Operation) /\ b \in Seq(Operation)
  BY <1>1 DEF Inv, TypeOK
<1>5. /\ o \in Operation /\ Tail(b) \in Seq(Operation)
      /\ Range(b) = {o} \union Range(Tail(b))
  <2>1. /\ Len(b) \in Nat \ {0} /\ o = b[1] /\ Len(Tail(b)) = Len(b) - 1
        /\ Tail(b) \in Seq(Operation)
        /\ \A i \in 1 .. Len(b) - 1 : Tail(b)[i] = b[i + 1]
    BY <1>1, <1>2, <1>4
  <2>2. ASSUME NEW i \in 1 .. Len(b) PROVE b[i] = o \/ b[i] \in Range(Tail(b))
    <3>1. CASE i = 1
      BY <3>1, <2>1
    <3>2. CASE i # 1
      <4>1. i - 1 \in 1 .. Len(b) - 1 /\ (i - 1) + 1 = i
        BY <3>2, <2>1
      <4>2. Tail(b)[i - 1] = b[i]
        BY <4>1, <2>1
      <4>3. DOMAIN Tail(b) = 1 .. Len(b) - 1
        BY <2>1
      <4> QED
        BY <4>1, <4>2, <4>3 DEF Range
    <3> QED
      BY <3>1, <3>2
  <2>3. ASSUME NEW i \in 1 .. Len(b) - 1 PROVE Tail(b)[i] \in Range(b)
    <3>1. i + 1 \in 1 .. Len(b)
      BY <2>1
    <3> QED
      BY <3>1, <2>1, <1>4 DEF Range
  <2>4. 1 \in 1 .. Len(b) /\ DOMAIN b = 1 .. Len(b) /\ DOMAIN Tail(b) = 1 .. Len(b) - 1
    BY <2>1, <1>4
  <2>5. Range(b) \subseteq {o} \union Range(Tail(b))
    BY <2>2, <2>4 DEF Range
  <2>6. {o} \union Range(Tail(b)) \subseteq Range(b)
    BY <2>1, <2>3, <2>4 DEF Range
  <2> QED
    BY <2>1, <2>4, <2>5, <2>6, <1>4
<1>6. /\ order' \in Seq(Operation) /\ Len(order') = l + 1 /\ l \in Nat /\ DOMAIN order = 1 .. l
      /\ order'[l + 1] = o
      /\ \A p \in 1 .. l : Keeps(p)
      /\ \A p \in 0 .. l : KeepsUpTo(p)
  BY <1>1, <1>2, <1>4, <1>5, OrderGrows
<1>7. /\ outbox' \in [Node -> Seq(Operation)] /\ outbox'[n] = Tail(b)
      /\ \A r \in Node : r # n => outbox'[r] = outbox[r]
  BY <1>2, <1>4, <1>5
<1>8. o.sender = n
  BY <1>1, <1>5 DEF Inv, OwnOutbox
<1>9. OwnOutbox'
  <2>1. \A r \in Node : Range(outbox'[r]) \subseteq Range(outbox[r])
    BY <1>1, <1>5, <1>7
  <2> QED
    BY <2>1 DEF Inv, OwnOutbox, Range
<1>10. \A x : x.sender \in Node => (IsPublished(x)' <=> IsPublished(x))
  <2>1. Range(order') = Range(order) \union {o}
    <3>1. \A i \in 1 .. l + 1 : i \in 1 .. l \/ i = l + 1
      BY <1>6
    <3>2. \A i \in 1 .. l : i \in 1 .. l + 1
      BY <1>6
    <3>3. l + 1 \in 1 .. l + 1
      BY <1>6
    <3>4. DOMAIN order = 1 .. l /\ DOMAIN order' = 1 .. l + 1
      BY <1>4, <1>6
    <3> QED
      BY <3>1, <3>2, <3>3, <3>4, <1>6 DEF Range, Keeps
  <2>2. ASSUME NEW x, x.sender \in Node PROVE IsPublished(x)' <=> IsPublished(x)
    <3>1. IsPublished(x)' <=> x \in Range(order') \/ x \in Range(outbox'[x.sender])
      BY DEF IsPublished, Range
    <3> QED
      BY <3>1, <2>1, <2>2, <1>1, <1>5, <1>7, <1>8 DEF IsPublished
  <2> QED
    BY <2>2
<1>11. \A r \in Node : delivered[r] \in 0 .. l
  BY <1>1 DEF Inv, TypeOK
<1>12. TypeOK'
  <2>1. delivered' \in [Node -> 0 .. Len(order')]
    BY <1>3, <1>6 DEF Inv, TypeOK
  <2>2. \A r \in responses' : r.at \in DOMAIN order'
    BY <1>3, <1>4, <1>6 DEF Inv, TypeOK
  <2> QED
    BY <2>1, <2>2, <1>3, <1>6, <1>7 DEF Inv, TypeOK
<1>13. JobsFollowOrder'
  BY <1>3, <1>6, <1>11 DEF Inv, JobsFollowOrder, KeepsUpTo
<1>14. TasksFollowOrder'
  BY <1>3, <1>6, <1>11 DEF Inv, TasksFollowOrder, KeepsUpTo
<1>15. AnswersFollowOrder'
  <2> SUFFICES ASSUME NEW r \in responses PROVE FollowsOrder(r)'
    BY <1>3 DEF AnswersFollowOrder
  <2>1. FollowsOrder(r) /\ r.at \in 1 .. l
    BY <1>6 DEF Inv, AnswersFollowOrder, TypeOK
  <2>2. Keeps(r.at) /\ KeepsUpTo(r.at)
    BY <2>1, <1>6
  <2> QED
    BY <2>1, <2>2, <1>3 DEF FollowsOrder, Keeps, KeepsUpTo
<1>16. CompletionsAreTrue'
  <2>1. \A t \in Task, r \in Node : IsPublished(Completion(t, r))' =>
            /\ runs'[t] = 1 /\ t \notin failed'
            /\ t \in executed'[r] \ executing'[r]
    BY <1>3, <1>10 DEF Inv, CompletionsAreTrue, Completion
  <2>2. ASSUME NEW t \in Task, NEW w \in Node, NEW q \in 1 .. l,
               Completes(q, t)', order'[q].sender = w
        PROVE  WonBy(t, w, q - 1)'
    <3>1. Completes(q, t) /\ order[q].sender = w
      BY <2>2, <1>6 DEF Keeps
    <3>2. WonBy(t, w, q - 1)
      BY <3>1, <1>4, <1>6 DEF Inv, CompletionsAreTrue
    <3>3. q - 1 \in 0 .. l
      BY <1>6
    <3> QED
      BY <3>2, <3>3, <1>6 DEF KeepsUpTo
  <2>3. ASSUME NEW t \in Task, NEW w \in Node, Completes(l + 1, t)', order'[l + 1].sender = w
        PROVE  WonBy(t, w, l)'
    <3>1. o = Completion(t, n) /\ w = n
      BY <2>3, <1>5, <1>6, <1>8, OperationFields DEF Completes
    <3>2. IsPublished(Completion(t, n))
      BY <3>1, <1>1, <1>5, <1>8 DEF IsPublished
    <3>3. WonBy(t, n, delivered[n])
      BY <3>2 DEF Inv, CompletionsAreTrue, WinnersExecute
    <3>4. WonBy(t, n, l)
      BY <3>3, <1>6, <1>11, SettledStays
    <3>5. l \in 0 .. l
      BY <1>6
    <3> QED
      BY <3>1, <3>4, <3>5, <1>6 DEF KeepsUpTo
  <2>4. ASSUME NEW t \in Task, NEW w \in Node, NEW q \in 1 .. l + 1,
               Completes(q, t)', order'[q].sender = w
        PROVE  WonBy(t, w, q - 1)'
    <3>1. CASE q \in 1 .. l
      BY <3>1, <2>2, <2>4
    <3>2. CASE q = l + 1
      <4>1. q - 1 = l
        BY <3>2, <1>6
      <4> QED
        BY <3>2, <4>1, <2>3, <2>4
    <3> QED
      BY <3>1, <3>2, <1>6
  <2>5. DOMAIN order' = 1 .. l + 1
    BY <1>6
  <2> QED
    BY <2>1, <2>4, <2>5 DEF CompletionsAreTrue
<1>17. WinnersExecute'
  <2>1. \A t \in Task, r \in Node : IsPublished(Completion(t, r))' <=> IsPublished(Completion(t, r))
    BY <1>10 DEF Completion
  <2> QED
    BY <2>1, <1>3, <1>6, <1>11 DEF Inv, WinnersExecute, KeepsUpTo
<1>18. SharesAreClaimed'
  <2>1. \A t : \A r \in Node : IsPublished(Claim(t, r)) => IsPublished(Claim(t, r))'
    BY <1>10 DEF Claim
  <2> QED
    BY <2>1, <1>3 DEF Inv, SharesAreClaimed
<1> QED
  BY <1>9, <1>12, <1>13, <1>14, <1>15, <1>16, <1>17, <1>18 DEF Inv

-----------------------------------------------------------------------------
(* A node executes its next operation. *)

(* Node n executes operation k of the order, o. *)
Executes(n, o, k) ==
    /\ k \in 1 .. Len(order) /\ o = order[k] /\ o \in Operation
    /\ order' = order /\ outbox' = outbox /\ requests' = requests
    /\ runs' = runs /\ failed' = failed
    /\ delivered[n] = k - 1 /\ delivered' = [delivered EXCEPT ![n] = k]
    /\ delivered' \in [Node -> 0 .. Len(order)] /\ delivered'[n] = k
    /\ \A r \in Node : r # n => delivered'[r] = delivered[r]
    /\ \A r \in Node : delivered[r] =< delivered'[r]

LEMMA DeliveryExecutes ==
    ASSUME TypeOK, NEW n \in Node, NEW op, Delivers(n, op)
    PROVE  \E o, k : /\ o = Current(n) /\ k = delivered[n] + 1 /\ o.op = op
                     /\ Executes(n, o, k)
<1>1. PICK o, k : o = Current(n) /\ k = delivered[n] + 1
  OBVIOUS
<1>2. /\ delivered \in [Node -> 0 .. Len(order)] /\ order \in Seq(Operation) /\ Len(order) \in Nat
  BY DEF TypeOK
<1>3. /\ delivered[n] < Len(order) /\ o = order[k] /\ o.op = op
      /\ delivered' = [delivered EXCEPT ![n] = k]
      /\ UNCHANGED <<outbox, order, requests, history>>
  BY <1>1 DEF Delivers, Current
<1>4. k \in 1 .. Len(order) /\ delivered[n] = k - 1
  BY <1>1, <1>2, <1>3
<1>5. /\ delivered' \in [Node -> 0 .. Len(order)] /\ delivered'[n] = k
      /\ \A r \in Node : r # n => delivered'[r] = delivered[r]
  BY <1>2, <1>3, <1>4
<1>6. \A r \in Node : delivered[r] =< delivered'[r]
  BY <1>2, <1>4, <1>5
<1>7. o \in Operation
  BY <1>2, <1>3, <1>4
<1> QED
  BY <1>1, <1>3, <1>4, <1>5, <1>6, <1>7 DEF Executes, history

(* What one operation adds to what the order has settled for n. *)
LEMMA ExecutionAdds ==
    ASSUME TypeOK, NEW n \in Node, NEW o, NEW k, Executes(n, o, k)
    PROVE  /\ \A p : Keeps(p) /\ KeepsUpTo(p)
           /\ \A x : IsPublished(x)' <=> IsPublished(x)
           /\ \A j, d : DefinedAs(j, d, k) <=>
                  DefinedAs(j, d, delivered[n]) \/ (Defines(k, j) /\ o.def = d)
           /\ \A t, w : WonBy(t, w, k) <=>
                  WonBy(t, w, delivered[n]) \/ (Wins(k, t) /\ o.sender = w)
           /\ \A t : Completed(t, k) <=> Completed(t, delivered[n]) \/ Completes(k, t)
           /\ o.op # "submit" => \A j : ~Defines(k, j)
           /\ o.op # "claim" => \A t : ~Wins(k, t)
           /\ o.op # "complete" => \A t : ~Completes(k, t)
<1>1. \A p : Keeps(p) /\ KeepsUpTo(p)
  BY OrderStays DEF Executes
<1>2. \A x : IsPublished(x)' <=> IsPublished(x)
  BY DEF Executes, IsPublished, Range
<1>3. PICK l : l = delivered[n]
  OBVIOUS
<1>4. l \in Nat /\ k = l + 1 /\ order[l + 1] = o
  BY <1>3 DEF TypeOK, Executes
<1>5. /\ \A j, d : DefinedAs(j, d, k) <=> DefinedAs(j, d, l) \/ (Defines(k, j) /\ o.def = d)
      /\ \A t, w : WonBy(t, w, k) <=> WonBy(t, w, l) \/ (Wins(k, t) /\ o.sender = w)
      /\ \A t : Completed(t, k) <=> Completed(t, l) \/ Completes(k, t)
  BY <1>4, OneMore
<1>6. order[k] = o
  BY <1>4
<1> QED
  BY <1>1, <1>2, <1>3, <1>5, <1>6 DEF Defines, Submits, Wins, Claims, Completes

(* What every execution leaves as it was: the parts of the invariant it does not touch. *)
LEMMA ExecutionKeeps ==
    ASSUME Inv, NEW n \in Node, NEW o, NEW k, Executes(n, o, k)
    PROVE  /\ OwnOutbox'
           /\ o.op # "submit" /\ jobs' = jobs => JobsFollowOrder'
           /\ o.op \notin {"claim", "complete"} /\ tasks' = tasks => TasksFollowOrder'
           /\ executed' = executed /\ executing' = executing => CompletionsAreTrue'
           /\ o.op # "claim" /\ executed' = executed /\ executing' = executing => WinnersExecute'
           /\ started' = started /\ starting' = starting /\ jobs' = jobs => SharesAreClaimed'
           /\ \A r \in responses : FollowsOrder(r)'
<1>adds. /\ \A p : Keeps(p) /\ KeepsUpTo(p)
         /\ \A x : IsPublished(x)' <=> IsPublished(x)
         /\ \A j, d : DefinedAs(j, d, k) <=>
                DefinedAs(j, d, delivered[n]) \/ (Defines(k, j) /\ o.def = d)
         /\ \A t, w : WonBy(t, w, k) <=>
                WonBy(t, w, delivered[n]) \/ (Wins(k, t) /\ o.sender = w)
         /\ \A t : Completed(t, k) <=> Completed(t, delivered[n]) \/ Completes(k, t)
         /\ o.op # "submit" => \A j : ~Defines(k, j)
         /\ o.op # "claim" => \A t : ~Wins(k, t)
         /\ o.op # "complete" => \A t : ~Completes(k, t)
  BY ExecutionAdds DEF Inv
<1>1. /\ order' = order /\ outbox' = outbox /\ runs' = runs /\ failed' = failed
      /\ delivered'[n] = k
      /\ \A r \in Node : r # n => delivered'[r] = delivered[r]
  BY DEF Executes
<1>2. OwnOutbox'
  BY <1>1 DEF Inv, OwnOutbox, Range
<1>3. ASSUME o.op # "submit", jobs' = jobs PROVE JobsFollowOrder'
  <2>1. ASSUME NEW r \in Node, NEW j \in Job, NEW d \in Definition
        PROVE  DefinedAs(j, d, delivered[r])' <=> DefinedAs(j, d, delivered[r])
    <3>1. \A i : DefinedAs(j, d, i)' <=> DefinedAs(j, d, i)
      BY <1>adds DEF KeepsUpTo
    <3>2. CASE r = n
      BY <3>1, <3>2, <1>1, <1>3, <1>adds
    <3>3. CASE r # n
      BY <3>1, <3>3, <1>1
    <3> QED
      BY <3>2, <3>3
  <2> QED
    BY <2>1, <1>3 DEF Inv, JobsFollowOrder
<1>4. ASSUME o.op \notin {"claim", "complete"}, tasks' = tasks PROVE TasksFollowOrder'
  <2>1. ASSUME NEW r \in Node, NEW t \in Task
        PROVE  /\ Completed(t, delivered[r])' <=> Completed(t, delivered[r])
               /\ \A w : WonBy(t, w, delivered[r])' <=> WonBy(t, w, delivered[r])
    <3>1. /\ \A i : Completed(t, i)' <=> Completed(t, i)
          /\ \A w, i : WonBy(t, w, i)' <=> WonBy(t, w, i)
      BY <1>adds DEF KeepsUpTo
    <3>2. CASE r = n
      BY <3>1, <3>2, <1>1, <1>4, <1>adds
    <3>3. CASE r # n
      BY <3>1, <3>3, <1>1
    <3> QED
      BY <3>2, <3>3
  <2> QED
    BY <2>1, <1>4 DEF Inv, TasksFollowOrder
<1>5. ASSUME executed' = executed, executing' = executing PROVE CompletionsAreTrue'
  <2>1. \A t \in Task, w \in Node, q \in DOMAIN order :
            /\ Completes(q, t)' <=> Completes(q, t)
            /\ WonBy(t, w, q - 1)' <=> WonBy(t, w, q - 1)
    BY <1>adds DEF Keeps, KeepsUpTo
  <2> QED
    BY <2>1, <1>1, <1>5, <1>adds DEF Inv, CompletionsAreTrue
<1>6. ASSUME o.op # "claim", executed' = executed, executing' = executing PROVE WinnersExecute'
  <2>1. ASSUME NEW r \in Node, NEW t \in Task
        PROVE  WonBy(t, r, delivered[r])' <=> WonBy(t, r, delivered[r])
    <3>1. \A w, i : WonBy(t, w, i)' <=> WonBy(t, w, i)
      BY <1>adds DEF KeepsUpTo
    <3>2. CASE r = n
      BY <3>1, <3>2, <1>1, <1>6, <1>adds
    <3>3. CASE r # n
      BY <3>1, <3>3, <1>1
    <3> QED
      BY <3>2, <3>3
  <2> QED
    BY <2>1, <1>1, <1>6, <1>adds DEF Inv, WinnersExecute
<1>7. ASSUME started' = started, starting' = starting, jobs' = jobs PROVE SharesAreClaimed'
  BY <1>7, <1>adds DEF Inv, SharesAreClaimed
<1>8. ASSUME NEW r \in responses PROVE FollowsOrder(r)'
  <2>1. FollowsOrder(r) /\ r.at \in 1 .. Len(order)
    BY DEF Inv, AnswersFollowOrder, TypeOK
  <2>2. order[r.at].sender \in Node
    BY <2>1, OperationFields DEF Inv, TypeOK
  <2>3. r.at \in 1 .. delivered'[order[r.at].sender]
    <3>1. PICK a, b, w : w = order[r.at].sender /\ a = delivered[w] /\ b = delivered'[w]
      OBVIOUS
    <3>2. a \in Nat /\ b \in Nat /\ a =< b
      BY <3>1, <2>2 DEF Executes, Inv, TypeOK
    <3> QED
      BY <3>1, <3>2, <2>1 DEF FollowsOrder
  <2>4. Keeps(r.at) /\ KeepsUpTo(r.at)
    BY <1>adds
  <2> QED
    BY <2>1, <2>3, <2>4, <1>1 DEF FollowsOrder, Keeps, KeepsUpTo
<1> QED
  BY <1>2, <1>3, <1>4, <1>5, <1>6, <1>7, <1>8

(* The new answer, r, is right if it is what the order says of position k. *)
LEMMA AnswersAreAdded ==
    ASSUME Inv, NEW n \in Node, NEW o, NEW k, Executes(n, o, k),
           NEW r, r.at = k, responses' = responses \union (IF o.sender = n THEN {r} ELSE {}),
           \A j \in Job :
               /\ Submits(k, j) => (r.submitted <=> DefinedAs(j, o.def, k))
               /\ Queries(k, j) =>
                      (r.complete <=> \E d \in Definition : DefinedAs(j, d, k) /\ Finished(j, d, k))
    PROVE  AnswersFollowOrder' /\ \A q \in responses' : q.at \in DOMAIN order'
<1>1. ASSUME o.sender = n PROVE FollowsOrder(r)'
  <2>1. Keeps(k) /\ KeepsUpTo(k)
    BY ExecutionAdds DEF Inv
  <2>2. /\ order' = order /\ order[k] = o /\ delivered'[n] = k /\ k \in 1 .. k
    BY DEF Executes
  <2> QED
    BY <2>1, <2>2, <1>1 DEF FollowsOrder, Keeps, KeepsUpTo
<1>2. AnswersFollowOrder'
  BY <1>1, ExecutionKeeps DEF AnswersFollowOrder
<1>3. \A q \in responses' : q.at \in DOMAIN order'
  <2>1. order' = order /\ k \in DOMAIN order
    BY DEF Executes, Inv, TypeOK
  <2> QED
    BY <2>1 DEF Inv, TypeOK
<1> QED
  BY <1>2, <1>3

LEMMA DeliverQueryKeepsInv ==
    ASSUME Inv, NEW n \in Node, DeliverQuery(n)
    PROVE  Inv'
<1>1. PICK o, k : /\ o = Current(n) /\ k = delivered[n] + 1 /\ o.op = "query"
                  /\ Executes(n, o, k)
  BY DeliveryExecutes DEF Inv, DeliverQuery
<1>2. PICK r : r = [at |-> k, found |-> jobs[n][o.job] # {},
                    complete |-> \E d \in jobs[n][o.job] : JobComplete(n, o.job, d)]
  OBVIOUS
<1>3. /\ responses' = responses \union (IF o.sender = n THEN {r} ELSE {})
      /\ jobs' = jobs /\ tasks' = tasks /\ started' = started /\ starting' = starting
      /\ executed' = executed /\ executing' = executing
  BY <1>1, <1>2 DEF DeliverQuery, Respond, store, callbacks
<1>4. o.op = "query" /\ o.job \in Job /\ o = order[k]
  BY <1>1, OperationFields DEF Executes
<1>5. /\ \A j, d : DefinedAs(j, d, k) <=> DefinedAs(j, d, delivered[n])
      /\ \A t : Completed(t, k) <=> Completed(t, delivered[n])
  BY <1>1, ExecutionAdds DEF Inv
<1>6. r.complete <=> \E d \in Definition : DefinedAs(o.job, d, k) /\ Finished(o.job, d, k)
  <2>1. \A d \in Definition : d \in jobs[n][o.job] <=> DefinedAs(o.job, d, k)
    BY <1>4, <1>5 DEF Inv, JobsFollowOrder
  <2>2. ASSUME NEW d \in Definition
        PROVE  JobComplete(n, o.job, d) <=> Finished(o.job, d, k)
    <3>1. \A i \in 0 .. Tasks[d] - 1 : <<o.job, i>> \in Task
      BY <1>4 DEF Task, Index
    <3>2. \A t \in Task : tasks[n][t].status = "complete" <=> Completed(t, k)
      BY <1>5, TasksAreWon DEF Inv
    <3> QED
      BY <3>1, <3>2 DEF JobComplete, Finished
  <2>3. jobs[n][o.job] \subseteq Definition
    BY <1>4 DEF Inv, TypeOK
  <2> QED
    BY <2>1, <2>2, <2>3, <1>2
<1>7. AnswersFollowOrder' /\ \A q \in responses' : q.at \in DOMAIN order'
  <2>1. \A j \in Job : ~Submits(k, j) /\ (Queries(k, j) => j = o.job)
    BY <1>4 DEF Submits, Queries
  <2>2. \A j \in Job :
            /\ Submits(k, j) => (r.submitted <=> DefinedAs(j, o.def, k))
            /\ Queries(k, j) =>
                   (r.complete <=> \E d \in Definition : DefinedAs(j, d, k) /\ Finished(j, d, k))
    BY <2>1, <1>6
  <2>3. r.at = k
    BY <1>2
  <2> QED
    BY <2>2, <2>3, <1>1, <1>3, AnswersAreAdded
<1>8. TypeOK'
  BY <1>1, <1>3, <1>7 DEF Inv, TypeOK, Executes
<1>9. /\ OwnOutbox' /\ JobsFollowOrder' /\ TasksFollowOrder' /\ CompletionsAreTrue'
      /\ WinnersExecute' /\ SharesAreClaimed'
  BY <1>1, <1>3, ExecutionKeeps
<1> QED
  BY <1>7, <1>8, <1>9 DEF Inv

LEMMA DeliverSubmissionKeepsInv ==
    ASSUME Inv, NEW n \in Node, DeliverSubmission(n)
    PROVE  Inv'
<1>1. PICK o, k : /\ o = Current(n) /\ k = delivered[n] + 1 /\ o.op = "submit"
                  /\ Executes(n, o, k)
  BY DeliveryExecutes DEF Inv, DeliverSubmission
<1>2. PICK j, d, old, accepted, news :
         /\ j = o.job /\ d = o.def /\ old = jobs[n][j]
         /\ accepted = (AfterSubmission(old, d) = {d})
         /\ news = IF accepted THEN {j} \ started[n] ELSE {}
  OBVIOUS
<1>3. PICK r : r = [at |-> k, submitted |-> accepted]
  OBVIOUS
<1>4. j \in Job /\ d \in Definition /\ o = order[k] /\ old \subseteq Definition
  BY <1>1, <1>2, OperationFields DEF Executes, Inv, TypeOK
<1>5. /\ jobs' = [jobs EXCEPT ![n][j] = AfterSubmission(old, d)]
      /\ started' = [started EXCEPT ![n] = @ \union news]
      /\ starting' = [starting EXCEPT ![n] = @ \union news]
      /\ responses' = responses \union (IF o.sender = n THEN {r} ELSE {})
      /\ tasks' = tasks /\ executed' = executed /\ executing' = executing
  BY <1>1, <1>2, <1>3 DEF DeliverSubmission, Respond
<1>6. /\ AfterSubmission(old, d) = IF old = {} THEN {d} ELSE old
      /\ \A e, f \in old : e = f
      /\ accepted <=> old = {} \/ d \in old
  <2>1. \A e, f \in old : e = f
    BY <1>2, <1>4, JobsAreSingle DEF Inv
  <2> QED
    BY <2>1, <1>2 DEF AfterSubmission
<1>7. /\ old = {} <=> j \notin started[n]
      /\ news = IF old = {} THEN {j} ELSE {}
  <2>1. old = {} <=> j \notin started[n]
    BY <1>2, <1>4 DEF Inv, SharesAreClaimed
  <2>2. news = IF accepted THEN {j} \ started[n] ELSE {}
    BY <1>2
  <2> QED
    BY <2>1, <2>2, <1>6
<1>8. /\ jobs' \in [Node -> [Job -> SUBSET Definition]]
      /\ \A m \in Node, i \in Job :
             jobs'[m][i] = IF m = n /\ i = j THEN (IF old = {} THEN {d} ELSE old) ELSE jobs[m][i]
  BY <1>4, <1>5, <1>6 DEF Inv, TypeOK
<1>9. /\ started' \in [Node -> SUBSET Job] /\ starting' \in [Node -> SUBSET Job]
      /\ \A m \in Node :
             /\ started'[m] = IF m = n THEN started[m] \union news ELSE started[m]
             /\ starting'[m] = IF m = n THEN starting[m] \union news ELSE starting[m]
  BY <1>4, <1>5, <1>7 DEF Inv, TypeOK
<1>adds. /\ \A p : Keeps(p) /\ KeepsUpTo(p)
         /\ \A x : IsPublished(x)' <=> IsPublished(x)
         /\ \A i, e : DefinedAs(i, e, k) <=>
                DefinedAs(i, e, delivered[n]) \/ (Defines(k, i) /\ d = e)
  BY <1>1, <1>2, ExecutionAdds DEF Inv
<1>10. Defines(k, j) <=> old = {}
  <2>1. Submits(k, j)
    BY <1>1, <1>2, <1>4 DEF Submits
  <2>2. CASE old = {}
    <3>1. \A q \in 1 .. delivered[n] : ~Submits(q, j)
      BY <2>2, <1>2, <1>4, JobsAreSingle DEF Inv
    <3> QED
      BY <3>1, <2>1, <2>2, <1>1 DEF Defines, Executes
  <2>3. CASE old # {}
    <3>1. PICK e \in old : TRUE
      BY <2>3
    <3>2. DefinedAs(j, e, delivered[n])
      BY <3>1, <1>2, <1>4 DEF Inv, JobsFollowOrder
    <3> QED
      BY <3>2, <2>3, <1>1 DEF Defines, DefinedAs, Executes
  <2> QED
    BY <2>2, <2>3
<1>11. \A i \in Job, e \in Definition : e \in jobs'[n][i] <=> DefinedAs(i, e, k)
  <2> SUFFICES ASSUME NEW i \in Job, NEW e \in Definition
               PROVE  e \in jobs'[n][i] <=> DefinedAs(i, e, k)
    OBVIOUS
  <2>1. e \in jobs[n][i] <=> DefinedAs(i, e, delivered[n])
    BY DEF Inv, JobsFollowOrder
  <2>2. i # j => ~Defines(k, i)
    BY <1>2, <1>4 DEF Defines, Submits
  <2>3. CASE i # j
    BY <2>1, <2>2, <2>3, <1>8, <1>adds
  <2>4. CASE i = j /\ old = {}
    <3>1. jobs[n][i] = {}
      BY <2>4, <1>2
    <3>2. jobs'[n][i] = {d}
      BY <2>4, <1>8
    <3> QED
      BY <3>1, <3>2, <2>1, <2>4, <1>10, <1>adds
  <2>5. CASE i = j /\ old # {}
    <3>1. jobs'[n][i] = jobs[n][i]
      BY <2>5, <1>2, <1>8
    <3> QED
      BY <3>1, <2>1, <2>5, <1>10, <1>adds
  <2> QED
    BY <2>3, <2>4, <2>5
<1>12. JobsFollowOrder'
  <2>1. \A i, e, p : DefinedAs(i, e, p)' <=> DefinedAs(i, e, p)
    BY <1>adds DEF KeepsUpTo
  <2>2. delivered'[n] = k /\ \A m \in Node : m # n => delivered'[m] = delivered[m]
    BY <1>1 DEF Executes
  <2>3. ASSUME NEW m \in Node, m # n, NEW i \in Job, NEW e \in Definition
        PROVE  e \in jobs'[m][i] <=> DefinedAs(i, e, delivered[m])
    BY <2>3, <1>8 DEF Inv, JobsFollowOrder
  <2>4. ASSUME NEW m \in Node, NEW i \in Job, NEW e \in Definition
        PROVE  (e \in jobs[m][i] <=> DefinedAs(i, e, delivered[m]))'
    BY <2>1, <2>2, <2>3, <1>11
  <2> QED
    BY <2>4 DEF JobsFollowOrder
<1>13. AnswersFollowOrder' /\ \A q \in responses' : q.at \in DOMAIN order'
  <2>1. \A i \in Job : ~Queries(k, i) /\ (Submits(k, i) => i = j)
    BY <1>1, <1>2, <1>4 DEF Submits, Queries
  <2>2. r.at = k /\ (r.submitted <=> accepted)
    BY <1>3
  <2>3. accepted <=> DefinedAs(j, d, k)
    <3>1. accepted <=> d \in jobs'[n][j]
      BY <1>4, <1>6, <1>8
    <3> QED
      BY <3>1, <1>4, <1>11
  <2>4. \A i \in Job :
            /\ Submits(k, i) => (r.submitted <=> DefinedAs(i, o.def, k))
            /\ Queries(k, i) =>
                   (r.complete <=> \E e \in Definition : DefinedAs(i, e, k) /\ Finished(i, e, k))
    BY <2>1, <2>2, <2>3, <1>2
  <2> QED
    BY <2>2, <2>4, <1>1, <1>5, AnswersAreAdded
<1>14. SharesAreClaimed'
  <2>1. ASSUME NEW m \in Node, NEW i \in Job
        PROVE  /\ i \in started'[m] <=> jobs'[m][i] # {}
               /\ i \in started'[m] \ starting'[m] =>
                      i \in started[m] \ starting[m] /\ jobs'[m][i] = jobs[m][i]
    <3>1. /\ i \in started[m] <=> jobs[m][i] # {}
          /\ old = jobs[n][j]
      BY <1>2 DEF Inv, SharesAreClaimed
    <3>2. CASE m = n /\ i = j
      BY <3>1, <3>2, <1>7, <1>8, <1>9
    <3>3. CASE ~(m = n /\ i = j)
      BY <3>1, <3>3, <1>7, <1>8, <1>9
    <3> QED
      BY <3>2, <3>3
  <2> QED
    BY <2>1, <1>adds DEF Inv, SharesAreClaimed
<1>15. TypeOK'
  <2>1. \A m \in Node : starting'[m] \subseteq started'[m]
    BY <1>9 DEF Inv, TypeOK
  <2> QED
    BY <2>1, <1>1, <1>5, <1>8, <1>9, <1>13 DEF Inv, TypeOK, Executes
<1>16. OwnOutbox' /\ TasksFollowOrder' /\ CompletionsAreTrue' /\ WinnersExecute'
  BY <1>1, <1>5, ExecutionKeeps
<1> QED
  BY <1>12, <1>13, <1>14, <1>15, <1>16 DEF Inv

LEMMA DeliverClaimKeepsInv ==
    ASSUME Inv, NEW n \in Node, DeliverClaim(n)
    PROVE  Inv'
<1>1. PICK o, k : /\ o = Current(n) /\ k = delivered[n] + 1 /\ o.op = "claim"
                  /\ Executes(n, o, k)
  BY DeliveryExecutes DEF Inv, DeliverClaim
<1>2. PICK t, w, old, mine :
         /\ t = o.task /\ w = o.sender /\ old = tasks[n][t]
         /\ mine = IF old = Unclaimed /\ w = n THEN {t} \ executed[n] ELSE {}
  OBVIOUS
<1>3. PICK r : r = [at |-> k, claimed |-> old = Unclaimed]
  OBVIOUS
<1>4. t \in Task /\ w \in Node /\ o = order[k]
  BY <1>1, <1>2, OperationFields DEF Executes
<1>5. /\ tasks' = [tasks EXCEPT ![n][t] = IF old = Unclaimed THEN Claimed(w) ELSE old]
      /\ executed' = [executed EXCEPT ![n] = @ \union mine]
      /\ executing' = [executing EXCEPT ![n] = @ \union mine]
      /\ responses' = responses \union (IF o.sender = n THEN {r} ELSE {})
      /\ jobs' = jobs /\ started' = started /\ starting' = starting
  BY <1>1, <1>2, <1>3 DEF DeliverClaim, Respond, IsFree
<1>6. /\ old = Unclaimed <=> \A v \in Node : ~WonBy(t, v, delivered[n])
      /\ old = Unclaimed => \A p \in 1 .. delivered[n] : ~Claims(p, t)
      /\ old.status = "complete" <=> Completed(t, delivered[n])
  BY <1>2, <1>4, TasksAreWon DEF Inv
<1>7. old = Unclaimed => ~Completed(t, delivered[n])
  BY <1>6 DEF Unclaimed
<1>8. Wins(k, t) <=> old = Unclaimed
  <2>1. Claims(k, t)
    BY <1>1, <1>2, <1>4 DEF Claims
  <2>2. CASE old = Unclaimed
    BY <2>1, <2>2, <1>1, <1>6 DEF Wins, Executes
  <2>3. CASE old # Unclaimed
    BY <2>3, <1>1, <1>6 DEF Wins, WonBy, Executes
  <2> QED
    BY <2>2, <2>3
<1>9. t \in executed[n] <=> WonBy(t, n, delivered[n])
  BY <1>4 DEF Inv, WinnersExecute
<1>10. mine = IF old = Unclaimed /\ w = n THEN {t} ELSE {}
  <2>1. old = Unclaimed => t \notin executed[n]
    BY <1>6, <1>9
  <2> QED
    BY <2>1, <1>2
<1>11. /\ tasks' \in [Node -> [Task -> TaskState]]
       /\ \A m \in Node, u \in Task :
              tasks'[m][u] = IF m = n /\ u = t THEN (IF old = Unclaimed THEN Claimed(w) ELSE old)
                             ELSE tasks[m][u]
  <2>1. tasks \in [Node -> [Task -> TaskState]]
    BY DEF Inv, TypeOK
  <2>2. old \in TaskState
    BY <2>1, <1>2, <1>4
  <2>3. Claimed(w) \in TaskState
    BY <1>4 DEF TaskState
  <2> QED
    BY <2>1, <2>2, <2>3, <1>4, <1>5
<1>12. /\ executed' \in [Node -> SUBSET Task] /\ executing' \in [Node -> SUBSET Task]
       /\ \A m \in Node :
              /\ executed'[m] = IF m = n THEN executed[m] \union mine ELSE executed[m]
              /\ executing'[m] = IF m = n THEN executing[m] \union mine ELSE executing[m]
  BY <1>4, <1>5, <1>10 DEF Inv, TypeOK
<1>13. \A m \in Node, u \in Task :
           u \in executed'[m] \ executing'[m] <=> u \in executed[m] \ executing[m]
  <2>1. \A u \in mine : u \notin executed[n]
    BY <1>2
  <2> QED
    BY <2>1, <1>12
<1>adds. /\ \A p : Keeps(p) /\ KeepsUpTo(p)
         /\ \A x : IsPublished(x)' <=> IsPublished(x)
         /\ \A u, v : WonBy(u, v, k) <=> WonBy(u, v, delivered[n]) \/ (Wins(k, u) /\ w = v)
         /\ \A u : Completed(u, k) <=> Completed(u, delivered[n])
  BY <1>1, <1>2, ExecutionAdds DEF Inv
<1>14. \A u : Wins(k, u) => u = t
  BY <1>2, <1>4 DEF Wins, Claims
<1>15. /\ runs' = runs /\ failed' = failed /\ order' = order /\ delivered'[n] = k
       /\ \A m \in Node : m # n => delivered'[m] = delivered[m]
  BY <1>1 DEF Executes
<1>16. \A u, v, p : /\ WonBy(u, v, p)' <=> WonBy(u, v, p)
                    /\ Completed(u, p)' <=> Completed(u, p)
  BY <1>adds DEF KeepsUpTo
<1>17. TasksFollowOrder'
  <2> SUFFICES ASSUME NEW m \in Node, NEW u \in Task
               PROVE  (\/ /\ tasks[m][u] = Unclaimed
                          /\ ~Completed(u, delivered[m])
                          /\ \A v \in Node : ~WonBy(u, v, delivered[m])
                       \/ \E v \in Node :
                              /\ WonBy(u, v, delivered[m])
                              /\ tasks[m][u] = IF Completed(u, delivered[m]) THEN Complete(v)
                                               ELSE Claimed(v))'
    BY DEF TasksFollowOrder
  <2>1. \/ /\ tasks[m][u] = Unclaimed
           /\ ~Completed(u, delivered[m])
           /\ \A v \in Node : ~WonBy(u, v, delivered[m])
        \/ \E v \in Node :
               /\ WonBy(u, v, delivered[m])
               /\ tasks[m][u] = IF Completed(u, delivered[m]) THEN Complete(v) ELSE Claimed(v)
    BY DEF Inv, TasksFollowOrder
  <2>2. CASE m = n /\ u = t /\ old = Unclaimed
    <3>1. tasks'[m][u] = Claimed(w) /\ WonBy(u, w, k) /\ ~Completed(u, k)
      BY <2>2, <1>7, <1>8, <1>11, <1>adds
    <3> QED
      BY <3>1, <2>2, <1>4, <1>15, <1>16
  <2>3. CASE ~(m = n /\ u = t /\ old = Unclaimed)
    <3>1. tasks'[m][u] = tasks[m][u]
      BY <2>3, <1>2, <1>11
    <3>2. /\ Completed(u, delivered[m])' <=> Completed(u, delivered[m])
          /\ \A v : WonBy(u, v, delivered[m])' <=> WonBy(u, v, delivered[m])
      <4>1. CASE m = n
        BY <4>1, <2>3, <1>8, <1>14, <1>15, <1>16, <1>adds
      <4>2. CASE m # n
        BY <4>2, <1>15, <1>16
      <4> QED
        BY <4>1, <4>2
    <3> QED
      BY <3>1, <3>2, <2>1
  <2> QED
    BY <2>2, <2>3
<1>18. WinnersExecute'
  <2>1. ASSUME NEW m \in Node, NEW u \in Task
        PROVE  (u \in executed[m] <=> WonBy(u, m, delivered[m]))'
    <3>1. u \in executed[m] <=> WonBy(u, m, delivered[m])
      BY DEF Inv, WinnersExecute
    <3>2. CASE m = n
      <4>1. u \in mine <=> Wins(k, u) /\ w = n
        BY <1>8, <1>10, <1>14
      <4> QED
        BY <4>1, <3>1, <3>2, <1>12, <1>15, <1>16, <1>adds
    <3>3. CASE m # n
      BY <3>1, <3>3, <1>12, <1>15, <1>16
    <3> QED
      BY <3>2, <3>3
  <2>2. ASSUME NEW m \in Node, NEW u \in Task, u \in executed'[m] \ executing'[m]
        PROVE  u \in failed' \/ IsPublished(Completion(u, m))'
    BY <2>2, <1>13, <1>15, <1>adds DEF Inv, WinnersExecute
  <2>3. ASSUME NEW u \in Task
        PROVE  /\ runs'[u] \in {0, 1}
               /\ (runs'[u] = 1 \/ u \in failed')
                      => \E m \in Node : u \in executed'[m] \ executing'[m]
    BY <1>13, <1>15 DEF Inv, WinnersExecute
  <2> QED
    BY <2>1, <2>2, <2>3 DEF WinnersExecute
<1>19. CompletionsAreTrue'
  <2>1. \A u \in Task, m \in Node : IsPublished(Completion(u, m))' =>
            /\ runs'[u] = 1 /\ u \notin failed'
            /\ u \in executed'[m] \ executing'[m]
    BY <1>13, <1>15, <1>adds DEF Inv, CompletionsAreTrue
  <2>2. \A u \in Task, v \in Node, q \in DOMAIN order :
            /\ Completes(q, u)' <=> Completes(q, u)
            /\ WonBy(u, v, q - 1)' <=> WonBy(u, v, q - 1)
    BY <1>adds DEF Keeps, KeepsUpTo
  <2>3. \A u \in Task, v \in Node, q \in DOMAIN order' :
            Completes(q, u)' /\ order'[q].sender = v => WonBy(u, v, q - 1)'
    BY <2>2, <1>15 DEF Inv, CompletionsAreTrue
  <2> QED
    BY <2>1, <2>3 DEF CompletionsAreTrue
<1>20. AnswersFollowOrder' /\ \A q \in responses' : q.at \in DOMAIN order'
  <2>1. \A i \in Job : ~Queries(k, i) /\ ~Submits(k, i)
    BY <1>1, <1>4 DEF Submits, Queries
  <2>2. \A i \in Job :
            /\ Submits(k, i) => (r.submitted <=> DefinedAs(i, o.def, k))
            /\ Queries(k, i) =>
                   (r.complete <=> \E e \in Definition : DefinedAs(i, e, k) /\ Finished(i, e, k))
    BY <2>1
  <2>3. r.at = k
    BY <1>3
  <2> QED
    BY <2>2, <2>3, <1>1, <1>5, AnswersAreAdded
<1>21. TypeOK'
  <2>1. \A m \in Node : executing'[m] \subseteq executed'[m]
    BY <1>12 DEF Inv, TypeOK
  <2> QED
    BY <2>1, <1>1, <1>5, <1>11, <1>12, <1>20 DEF Inv, TypeOK, Executes
<1>22. OwnOutbox' /\ JobsFollowOrder' /\ SharesAreClaimed'
  BY <1>1, <1>5, ExecutionKeeps
<1> QED
  BY <1>17, <1>18, <1>19, <1>20, <1>21, <1>22 DEF Inv

LEMMA DeliverCompletionKeepsInv ==
    ASSUME Inv, NEW n \in Node, DeliverCompletion(n)
    PROVE  Inv'
<1>1. PICK o, k : /\ o = Current(n) /\ k = delivered[n] + 1 /\ o.op = "complete"
                  /\ Executes(n, o, k)
  BY DeliveryExecutes DEF Inv, DeliverCompletion
<1>2. PICK t, w, old : t = o.task /\ w = o.sender /\ old = tasks[n][t]
  OBVIOUS
<1>3. t \in Task /\ w \in Node /\ o = order[k] /\ k - 1 = delivered[n] /\ k \in DOMAIN order
  BY <1>1, <1>2, OperationFields DEF Executes, Inv, TypeOK
<1>4. /\ tasks' = [tasks EXCEPT ![n][t] = IF old = Claimed(w) THEN Complete(w) ELSE old]
      /\ jobs' = jobs /\ started' = started /\ starting' = starting
      /\ executed' = executed /\ executing' = executing /\ responses' = responses
  BY <1>1, <1>2 DEF DeliverCompletion, callbacks
<1>5. Completes(k, t) /\ \A u : Completes(k, u) => u = t
  BY <1>1, <1>2, <1>3 DEF Completes
<1>6. WonBy(t, w, delivered[n])
  <2>1. WonBy(t, w, k - 1)
    BY <1>2, <1>3, <1>5 DEF Inv, CompletionsAreTrue
  <2> QED
    BY <2>1, <1>3
<1>7. old = Complete(w) \/ old = Claimed(w)
  <2>1. old = IF Completed(t, delivered[n]) THEN Complete(w) ELSE Claimed(w)
    BY <1>2, <1>3, <1>6, TasksAreWon DEF Inv
  <2> QED
    BY <2>1
<1>8. /\ tasks' \in [Node -> [Task -> TaskState]]
      /\ \A m \in Node, u \in Task :
             tasks'[m][u] = IF m = n /\ u = t THEN Complete(w) ELSE tasks[m][u]
  <2>1. Complete(w) \in TaskState
    BY <1>3 DEF TaskState
  <2>2. tasks' = [tasks EXCEPT ![n][t] = Complete(w)]
    BY <1>4, <1>7
  <2>3. tasks \in [Node -> [Task -> TaskState]]
    BY DEF Inv, TypeOK
  <2> QED
    BY <2>1, <2>2, <2>3, <1>3
<1>adds. /\ \A p : Keeps(p) /\ KeepsUpTo(p)
         /\ \A u, v : WonBy(u, v, k) <=> WonBy(u, v, delivered[n])
         /\ \A u : Completed(u, k) <=> Completed(u, delivered[n]) \/ Completes(k, u)
  BY <1>1, ExecutionAdds DEF Inv
<1>9. \A u, v, p : /\ WonBy(u, v, p)' <=> WonBy(u, v, p)
                   /\ Completed(u, p)' <=> Completed(u, p)
  BY <1>adds DEF KeepsUpTo
<1>10. delivered'[n] = k /\ \A m \in Node : m # n => delivered'[m] = delivered[m]
  BY <1>1 DEF Executes
<1>11. TasksFollowOrder'
  <2> SUFFICES ASSUME NEW m \in Node, NEW u \in Task
               PROVE  (\/ /\ tasks[m][u] = Unclaimed
                          /\ ~Completed(u, delivered[m])
                          /\ \A v \in Node : ~WonBy(u, v, delivered[m])
                       \/ \E v \in Node :
                              /\ WonBy(u, v, delivered[m])
                              /\ tasks[m][u] = IF Completed(u, delivered[m]) THEN Complete(v)
                                               ELSE Claimed(v))'
    BY DEF TasksFollowOrder
  <2>1. \/ /\ tasks[m][u] = Unclaimed
           /\ ~Completed(u, delivered[m])
           /\ \A v \in Node : ~WonBy(u, v, delivered[m])
        \/ \E v \in Node :
               /\ WonBy(u, v, delivered[m])
               /\ tasks[m][u] = IF Completed(u, delivered[m]) THEN Complete(v) ELSE Claimed(v)
    BY DEF Inv, TasksFollowOrder
  <2>2. CASE m = n /\ u = t
    <3>1. tasks'[m][u] = Complete(w) /\ WonBy(u, w, k) /\ Completed(u, k)
      BY <2>2, <1>5, <1>6, <1>8, <1>adds
    <3> QED
      BY <3>1, <2>2, <1>3, <1>9, <1>10
  <2>3. CASE ~(m = n /\ u = t)
    <3>1. tasks'[m][u] = tasks[m][u]
      BY <2>3, <1>8
    <3>2. /\ Completed(u, delivered[m])' <=> Completed(u, delivered[m])
          /\ \A v : WonBy(u, v, delivered[m])' <=> WonBy(u, v, delivered[m])
      <4>1. CASE m = n
        BY <4>1, <2>3, <1>5, <1>9, <1>10, <1>adds
      <4>2. CASE m # n
        BY <4>2, <1>9, <1>10
      <4> QED
        BY <4>1, <4>2
    <3> QED
      BY <3>1, <3>2, <2>1
  <2> QED
    BY <2>2, <2>3
<1>12. AnswersFollowOrder'
  BY <1>1, <1>4, ExecutionKeeps DEF AnswersFollowOrder
<1>13. TypeOK'
  BY <1>1, <1>4, <1>8 DEF Inv, TypeOK, Executes
<1>14. OwnOutbox' /\ JobsFollowOrder' /\ CompletionsAreTrue' /\ WinnersExecute' /\ SharesAreClaimed'
  BY <1>1, <1>4, ExecutionKeeps
<1> QED
  BY <1>11, <1>12, <1>13, <1>14 DEF Inv

-----------------------------------------------------------------------------
(* Callbacks. *)

LEMMA SharesAreFinite ==
    ASSUME NEW n \in Node, NEW d \in Definition
    PROVE  /\ IsFiniteSet(Owned(n, d)) /\ Cardinality(Owned(n, d)) \in Nat
           /\ Owned(n, d) \subseteq 0 .. Tasks[d] - 1
           /\ Owned(n, d) \subseteq Index
<1>1. Tasks[d] \in Nat
  BY TasksAreCounted
<1>2. IsFiniteSet(0 .. Tasks[d] - 1)
  BY <1>1, FS_Interval
<1>3. Owned(n, d) \subseteq 0 .. Tasks[d] - 1
  BY DEF Owned
<1>4. IsFiniteSet(Owned(n, d))
  BY <1>2, <1>3, FS_Subset
<1> QED
  BY <1>3, <1>4, FS_CardinalityType DEF Index

LEMMA StartJobKeepsInv ==
    ASSUME Inv, NEW n \in Node, StartJob(n)
    PROVE  Inv'
<1>1. PICK j \in starting[n] : \E d \in jobs[n][j] : \E s \in Ascending(Owned(n, d)) :
          /\ Publish(n, [k \in DOMAIN s |-> Claim(<<j, s[k]>>, n)])
          /\ starting' = [starting EXCEPT ![n] = @ \ {j}]
  BY DEF StartJob
<1>2. PICK d \in jobs[n][j] : \E s \in Ascending(Owned(n, d)) :
          /\ Publish(n, [k \in DOMAIN s |-> Claim(<<j, s[k]>>, n)])
          /\ starting' = [starting EXCEPT ![n] = @ \ {j}]
  BY <1>1
<1>3. PICK s \in Ascending(Owned(n, d)) :
          /\ Publish(n, [k \in DOMAIN s |-> Claim(<<j, s[k]>>, n)])
          /\ starting' = [starting EXCEPT ![n] = @ \ {j}]
  BY <1>2
<1>4. /\ order' = order /\ delivered' = delivered /\ jobs' = jobs /\ tasks' = tasks
      /\ started' = started /\ executed' = executed /\ executing' = executing
      /\ responses' = responses /\ requests' = requests /\ runs' = runs /\ failed' = failed
  BY DEF StartJob, store, history
<1>5. j \in Job /\ d \in Definition
  <2>1. starting[n] \in SUBSET Job /\ jobs \in [Node -> [Job -> SUBSET Definition]]
    BY DEF Inv, TypeOK
  <2> QED
    BY <2>1
<1>6. PICK c : c = [k \in DOMAIN s |-> Claim(<<j, s[k]>>, n)]
  OBVIOUS
<1>7. /\ c \in Seq(Operation)
      /\ \A x \in Range(c) : \E i \in Owned(n, d) : x = Claim(<<j, i>>, n)
      /\ \A i \in Owned(n, d) : Claim(<<j, i>>, n) \in Range(c)
  <2>1. PICK m : m = Cardinality(Owned(n, d))
    OBVIOUS
  <2>2. m \in Nat /\ Owned(n, d) \subseteq Index
    BY <2>1, <1>5, SharesAreFinite
  <2>3. s \in [1 .. m -> Owned(n, d)] /\ Range(s) = Owned(n, d)
    BY <2>1 DEF Ascending
  <2>4. DOMAIN s = 1 .. m /\ DOMAIN c = 1 .. m /\ \A k \in 1 .. m : c[k] = Claim(<<j, s[k]>>, n)
    BY <2>3, <1>6
  <2>5. \A i \in Owned(n, d) : Claim(<<j, i>>, n) \in Operation
    BY <2>2, <1>5 DEF Operation, Task
  <2>6. c \in [1 .. m -> Operation]
    BY <2>3, <2>4, <2>5, <1>6
  <2>7. c \in Seq(Operation)
    BY <2>2, <2>6
  <2>8. \A x \in Range(c) : \E i \in Owned(n, d) : x = Claim(<<j, i>>, n)
    BY <2>3, <2>4 DEF Range
  <2>9. \A i \in Owned(n, d) : Claim(<<j, i>>, n) \in Range(c)
    BY <2>3, <2>4 DEF Range
  <2> QED
    BY <2>7, <2>8, <2>9
<1>8. /\ outbox' \in [Node -> Seq(Operation)] /\ OwnOutbox'
      /\ \A x : x.sender \in Node => (IsPublished(x)' <=> IsPublished(x) \/ x \in Range(c))
  <2>1. \A x \in Range(c) : x.sender = n
    BY <1>7 DEF Claim
  <2> QED
    BY <2>1, <1>3, <1>4, <1>6, <1>7, PublishedGrows DEF Inv
<1>9. \A p : Keeps(p) /\ KeepsUpTo(p)
  BY <1>4, OrderStays
<1>10. \A t \in Task, m \in Node : IsPublished(Completion(t, m))' <=> IsPublished(Completion(t, m))
  BY <1>7, <1>8 DEF Completion, Claim
<1>11. /\ starting' \in [Node -> SUBSET Job]
       /\ \A m \in Node : starting'[m] = IF m = n THEN starting[m] \ {j} ELSE starting[m]
  BY <1>3 DEF Inv, TypeOK
<1>12. TypeOK'
  <2>1. \A m \in Node : starting'[m] \subseteq started'[m]
    BY <1>4, <1>11 DEF Inv, TypeOK
  <2> QED
    BY <2>1, <1>4, <1>8, <1>11 DEF Inv, TypeOK
<1>13. JobsFollowOrder'
  BY <1>4, <1>9 DEF Inv, JobsFollowOrder, KeepsUpTo
<1>14. TasksFollowOrder'
  BY <1>4, <1>9 DEF Inv, TasksFollowOrder, KeepsUpTo
<1>15. AnswersFollowOrder'
  BY <1>4, <1>9 DEF Inv, AnswersFollowOrder, FollowsOrder, Keeps, KeepsUpTo
<1>16. CompletionsAreTrue'
  BY <1>4, <1>9, <1>10 DEF Inv, CompletionsAreTrue, Keeps, KeepsUpTo
<1>17. WinnersExecute'
  BY <1>4, <1>9, <1>10 DEF Inv, WinnersExecute, KeepsUpTo
<1>18. SharesAreClaimed'
  <2>1. \A t, m : m \in Node /\ IsPublished(Claim(t, m)) => IsPublished(Claim(t, m))'
    BY <1>8 DEF Claim
  <2>2. \A e \in jobs[n][j] : e = d
    BY <1>5, JobsAreSingle DEF Inv
  <2>3. \A i \in Owned(n, d) : IsPublished(Claim(<<j, i>>, n))'
    BY <1>7, <1>8 DEF Claim
  <2>4. ASSUME NEW m \in Node, NEW i \in Job, i \in started[m] \ starting'[m],
               NEW e \in jobs[m][i], NEW x \in Owned(m, e)
        PROVE  IsPublished(Claim(<<i, x>>, m))'
    <3>1. CASE m = n /\ i = j
      BY <3>1, <2>2, <2>3, <2>4
    <3>2. CASE ~(m = n /\ i = j)
      BY <3>2, <2>1, <2>4, <1>11 DEF Inv, SharesAreClaimed
    <3> QED
      BY <3>1, <3>2
  <2>5. \A m \in Node, i \in Job : i \in started[m] <=> jobs[m][i] # {}
    BY DEF Inv, SharesAreClaimed
  <2> QED
    BY <2>4, <2>5, <1>4 DEF SharesAreClaimed, Owned
<1> QED
  BY <1>8, <1>12, <1>13, <1>14, <1>15, <1>16, <1>17, <1>18 DEF Inv

(* A node that is about to execute a task has won it and is the first to execute it. *)
LEMMA TasksAreFresh ==
    ASSUME Inv, NEW n \in Node, NEW t \in executing[n]
    PROVE  /\ t \in Task /\ runs[t] = 0 /\ t \notin failed
           /\ tasks[n][t] = Claimed(n)
           /\ \A m \in Node : ~IsPublished(Completion(t, m))
<1>1. /\ t \in Task /\ t \in executed[n]
      /\ delivered[n] \in Nat /\ delivered[n] =< Len(order) /\ order \in Seq(Operation)
      /\ \A m \in Node : delivered[m] \in Nat
  <2>1. /\ executing \in [Node -> SUBSET Task] /\ executing[n] \subseteq executed[n]
        /\ order \in Seq(Operation) /\ Len(order) \in Nat
        /\ delivered \in [Node -> 0 .. Len(order)]
    BY DEF Inv, TypeOK
  <2> QED
    BY <2>1
<1>2. WonBy(t, n, delivered[n])
  BY <1>1 DEF Inv, WinnersExecute
<1>3. \A m \in Node : t \notin executed[m] \ executing[m]
  <2>1. \A m \in Node : t \in executed[m] => m = n
    BY <1>1, <1>2, OneWinner DEF Inv, WinnersExecute
  <2> QED
    BY <2>1
<1>4. runs[t] = 0 /\ t \notin failed
  BY <1>1, <1>3 DEF Inv, WinnersExecute
<1>5. \A m \in Node : ~IsPublished(Completion(t, m))
  BY <1>1, <1>4 DEF Inv, CompletionsAreTrue
<1>6. ~Completed(t, delivered[n])
  <2> SUFFICES ASSUME NEW q \in 1 .. delivered[n], Completes(q, t) PROVE FALSE
    BY DEF Completed
  <2>1. q \in DOMAIN order /\ order[q] \in Operation
    BY <1>1
  <2>2. order[q].sender \in Node /\ order[q] = Completion(t, order[q].sender)
    BY <2>1, OperationFields DEF Completes
  <2>3. order[q] \in Range(order)
    BY <2>1 DEF Range
  <2>4. IsPublished(Completion(t, order[q].sender))
    BY <2>2, <2>3 DEF IsPublished
  <2> QED
    BY <2>2, <2>4, <1>5
<1>7. tasks[n][t] = Claimed(n)
  BY <1>1, <1>2, <1>6, TasksAreWon DEF Inv
<1> QED
  BY <1>1, <1>4, <1>5, <1>7

LEMMA ExecuteTaskKeepsInv ==
    ASSUME Inv, NEW n \in Node, ExecuteTask(n)
    PROVE  Inv'
<1>1. PICK t \in executing[n] :
          LET inputs == {d \in jobs[n][t[1]] : t[2] < Tasks[d]}
              runnable == inputs # {} /\ tasks[n][t] = Claimed(n)
              raises == inputs = {} \/ \E d \in inputs : <<d, t[2]>> \in Failing
          IN  /\ executing' = [executing EXCEPT ![n] = @ \ {t}]
              /\ runs' = IF runnable THEN [runs EXCEPT ![t] = @ + 1] ELSE runs
              /\ failed' = IF raises THEN failed \union {t} ELSE failed
              /\ Publish(n, IF runnable /\ ~raises THEN <<Completion(t, n)>> ELSE <<>>)
              /\ UNCHANGED <<order, delivered, store, started, starting, executed, responses,
                             requests>>
  BY DEF ExecuteTask
<1>2. /\ executing' = [executing EXCEPT ![n] = @ \ {t}]
      /\ order' = order /\ delivered' = delivered /\ jobs' = jobs /\ tasks' = tasks
      /\ started' = started /\ starting' = starting /\ executed' = executed
      /\ responses' = responses /\ requests' = requests
  BY <1>1 DEF store
<1>3. /\ t \in Task /\ runs[t] = 0 /\ t \notin failed
      /\ tasks[n][t] = Claimed(n)
      /\ \A m \in Node : ~IsPublished(Completion(t, m))
  BY TasksAreFresh
<1>4. PICK c : /\ Publish(n, c)
               /\ runs' = runs \/ runs' = [runs EXCEPT ![t] = 1]
               /\ \/ c = <<>> /\ failed' = failed \union {t}
                  \/ /\ c = <<Completion(t, n)>>
                     /\ failed' = failed
                     /\ runs' = [runs EXCEPT ![t] = 1]
  <2> DEFINE inputs == {d \in jobs[n][t[1]] : t[2] < Tasks[d]}
             runnable == inputs # {} /\ tasks[n][t] = Claimed(n)
             raises == inputs = {} \/ \E d \in inputs : <<d, t[2]>> \in Failing
  <2>1. /\ runs' = IF runnable THEN [runs EXCEPT ![t] = @ + 1] ELSE runs
        /\ failed' = IF raises THEN failed \union {t} ELSE failed
        /\ Publish(n, IF runnable /\ ~raises THEN <<Completion(t, n)>> ELSE <<>>)
    BY <1>1
  <2>2. ~raises => runnable
    BY <1>3
  <2>3. [runs EXCEPT ![t] = @ + 1] = [runs EXCEPT ![t] = 1]
    BY <1>3
  <2> HIDE DEF inputs, runnable, raises
  <2>4. CASE raises
    <3>1. Publish(n, <<>>) /\ failed' = failed \union {t}
      BY <2>1, <2>4
    <3> QED
      BY <3>1, <2>1, <2>3
  <2>5. CASE ~raises
    <3>1. Publish(n, <<Completion(t, n)>>) /\ failed' = failed /\ runs' = [runs EXCEPT ![t] = 1]
      BY <2>1, <2>2, <2>3, <2>5
    <3> QED
      BY <3>1
  <2> QED
    BY <2>4, <2>5
<1>5. /\ c \in Seq(Operation)
      /\ Range(c) = IF c = <<>> THEN {} ELSE {Completion(t, n)}
  <2>1. Completion(t, n) \in Operation
    BY <1>3 DEF Operation
  <2>2. <<>> \in Seq(Operation) /\ Range(<<>>) = {}
    BY DEF Range
  <2>3. /\ <<Completion(t, n)>> \in Seq(Operation)
        /\ Range(<<Completion(t, n)>>) = {Completion(t, n)}
        /\ <<Completion(t, n)>> # <<>>
    BY <2>1 DEF Range
  <2> QED
    BY <2>2, <2>3, <1>4
<1>6. /\ outbox' \in [Node -> Seq(Operation)] /\ OwnOutbox'
      /\ \A x : x.sender \in Node => (IsPublished(x)' <=> IsPublished(x) \/ x \in Range(c))
  <2>1. \A x \in Range(c) : x.sender = n
    BY <1>5 DEF Completion
  <2> QED
    BY <2>1, <1>2, <1>4, <1>5, PublishedGrows DEF Inv
<1>7. \A u \in Task, m \in Node :
          IsPublished(Completion(u, m))' <=>
              \/ IsPublished(Completion(u, m))
              \/ c # <<>> /\ u = t /\ m = n
  BY <1>5, <1>6 DEF Completion
<1>8. \A p : Keeps(p) /\ KeepsUpTo(p)
  BY <1>2, OrderStays
<1>9. /\ executing' \in [Node -> SUBSET Task]
      /\ \A m \in Node : executing'[m] = IF m = n THEN executing[m] \ {t} ELSE executing[m]
  BY <1>2 DEF Inv, TypeOK
<1>10. /\ runs' \in [Task -> Nat] /\ runs'[t] \in {0, 1}
       /\ \A u \in Task : u # t => runs'[u] = runs[u]
       /\ c # <<>> => runs'[t] = 1
  <2>1. runs \in [Task -> Nat]
    BY DEF Inv, TypeOK
  <2> QED
    BY <2>1, <1>3, <1>4
<1>11. t \in executed[n] /\ executed[n] \subseteq Task
  BY DEF Inv, TypeOK
<1>12. TypeOK'
  <2>1. \A m \in Node : executing'[m] \subseteq executed'[m]
    BY <1>2, <1>9 DEF Inv, TypeOK
  <2>2. failed' \subseteq Task
    BY <1>3, <1>4 DEF Inv, TypeOK
  <2> QED
    BY <2>1, <2>2, <1>2, <1>6, <1>9, <1>10 DEF Inv, TypeOK
<1>13. JobsFollowOrder'
  BY <1>2, <1>8 DEF Inv, JobsFollowOrder, KeepsUpTo
<1>14. TasksFollowOrder'
  BY <1>2, <1>8 DEF Inv, TasksFollowOrder, KeepsUpTo
<1>15. AnswersFollowOrder'
  BY <1>2, <1>8 DEF Inv, AnswersFollowOrder, FollowsOrder, Keeps, KeepsUpTo
<1>16. CompletionsAreTrue'
  <2>1. ASSUME NEW u \in Task, NEW m \in Node, IsPublished(Completion(u, m))'
        PROVE  /\ runs'[u] = 1 /\ u \notin failed'
               /\ u \in executed'[m] \ executing'[m]
    <3>1. CASE IsPublished(Completion(u, m))
      <4>1. runs[u] = 1 /\ u \notin failed /\ u \in executed[m] \ executing[m]
        BY <3>1 DEF Inv, CompletionsAreTrue
      <4>2. u # t
        BY <4>1, <1>3
      <4> QED
        BY <4>1, <4>2, <1>2, <1>4, <1>9, <1>10
    <3>2. CASE c # <<>> /\ u = t /\ m = n
      BY <3>2, <1>2, <1>3, <1>4, <1>9, <1>10, <1>11
    <3> QED
      BY <3>1, <3>2, <2>1, <1>7
  <2>2. \A u \in Task, m \in Node, q \in DOMAIN order' :
            Completes(q, u)' /\ order'[q].sender = m => WonBy(u, m, q - 1)'
    BY <1>2, <1>8 DEF Inv, CompletionsAreTrue, Keeps, KeepsUpTo
  <2> QED
    BY <2>1, <2>2 DEF CompletionsAreTrue
<1>17. WinnersExecute'
  <2>1. \A m \in Node, u \in Task : (u \in executed[m] <=> WonBy(u, m, delivered[m]))'
    BY <1>2, <1>8 DEF Inv, WinnersExecute, KeepsUpTo
  <2>2. ASSUME NEW m \in Node, NEW u \in Task, u \in executed'[m] \ executing'[m]
        PROVE  u \in failed' \/ IsPublished(Completion(u, m))'
    <3>1. CASE m = n /\ u = t
      BY <3>1, <1>4, <1>7
    <3>2. CASE ~(m = n /\ u = t)
      <4>1. u \in executed[m] \ executing[m]
        BY <3>2, <2>2, <1>2, <1>9
      <4> QED
        BY <4>1, <1>4, <1>7 DEF Inv, WinnersExecute
    <3> QED
      BY <3>1, <3>2
  <2>3. ASSUME NEW u \in Task
        PROVE  /\ runs'[u] \in {0, 1}
               /\ (runs'[u] = 1 \/ u \in failed')
                      => \E m \in Node : u \in executed'[m] \ executing'[m]
    <3>1. CASE u = t
      BY <3>1, <1>2, <1>9, <1>10, <1>11
    <3>2. CASE u # t
      <4>1. \A m \in Node : u \in executed[m] \ executing[m] => u \in executed'[m] \ executing'[m]
        BY <1>2, <1>9
      <4>2. /\ runs[u] \in {0, 1}
            /\ (runs[u] = 1 \/ u \in failed)
                   => \E m \in Node : u \in executed[m] \ executing[m]
        BY DEF Inv, WinnersExecute
      <4> QED
        BY <4>1, <4>2, <3>2, <1>4, <1>10
    <3> QED
      BY <3>1, <3>2
  <2> QED
    BY <2>1, <2>2, <2>3 DEF WinnersExecute
<1>18. SharesAreClaimed'
  <2>1. \A u : \A m \in Node : IsPublished(Claim(u, m)) => IsPublished(Claim(u, m))'
    BY <1>6 DEF Claim
  <2> QED
    BY <2>1, <1>2 DEF Inv, SharesAreClaimed
<1> QED
  BY <1>6, <1>12, <1>13, <1>14, <1>15, <1>16, <1>17, <1>18 DEF Inv

LEMMA NextKeepsInv == Inv /\ [Next]_vars => Inv'
<1> SUFFICES ASSUME Inv, [Next]_vars PROVE Inv'
  OBVIOUS
<1>1. CASE Next
  <2>1. PICK n \in Node : \/ Request(n) \/ Decide(n)
                          \/ DeliverSubmission(n) \/ DeliverQuery(n)
                          \/ DeliverClaim(n) \/ DeliverCompletion(n)
                          \/ StartJob(n) \/ ExecuteTask(n)
    BY <1>1 DEF Next
  <2> QED
    BY <2>1, RequestKeepsInv, DecideKeepsInv, DeliverSubmissionKeepsInv, DeliverQueryKeepsInv,
       DeliverClaimKeepsInv, DeliverCompletionKeepsInv, StartJobKeepsInv, ExecuteTaskKeepsInv
<1>2. CASE UNCHANGED vars
  <2>1. /\ order' = order /\ outbox' = outbox /\ delivered' = delivered /\ jobs' = jobs
        /\ tasks' = tasks /\ started' = started /\ starting' = starting
        /\ executed' = executed /\ executing' = executing /\ responses' = responses
        /\ requests' = requests /\ runs' = runs /\ failed' = failed
    BY <1>2 DEF vars, store, callbacks, history
  <2>2. \A p : Keeps(p) /\ KeepsUpTo(p)
    BY <2>1, OrderStays
  <2>3. \A o : IsPublished(o)' <=> IsPublished(o)
    BY <2>1 DEF IsPublished, Range
  <2>4. TypeOK' /\ OwnOutbox'
    BY <2>1 DEF Inv, TypeOK, OwnOutbox, Range
  <2>5. JobsFollowOrder'
    BY <2>1, <2>2 DEF Inv, JobsFollowOrder, KeepsUpTo
  <2>6. TasksFollowOrder'
    BY <2>1, <2>2 DEF Inv, TasksFollowOrder, KeepsUpTo
  <2>7. AnswersFollowOrder'
    BY <2>1, <2>2 DEF Inv, AnswersFollowOrder, FollowsOrder, Keeps, KeepsUpTo
  <2>8. CompletionsAreTrue'
    BY <2>1, <2>2, <2>3 DEF Inv, CompletionsAreTrue, Keeps, KeepsUpTo
  <2>9. WinnersExecute'
    BY <2>1, <2>2, <2>3 DEF Inv, WinnersExecute, KeepsUpTo
  <2>10. SharesAreClaimed'
    BY <2>1, <2>3 DEF Inv, SharesAreClaimed
  <2> QED
    BY <2>4, <2>5, <2>6, <2>7, <2>8, <2>9, <2>10 DEF Inv
<1> QED
  BY <1>1, <1>2

(* Types, and that the order of the operations alone decides what every node stores, runs *)
(* and answers (deliver, _start_job, _execute_task): the inductive invariant.             *)
THEOREM Invariance == Spec => []Inv
  BY InvIsInitial, NextKeepsInv, PTL DEF Spec

-----------------------------------------------------------------------------
(* What follows from the invariant. *)

(* No action is applied twice to an input, whoever claims its task and however often      *)
(* (claim_task, _execute_task).                                                           *)
THEOREM SingleRuns == Spec => []RunAtMostOnce
<1>1. Inv => RunAtMostOnce
  BY DEF Inv, WinnersExecute, RunAtMostOnce
<1> QED
  BY <1>1, Invariance, PTL

(* An answer to an operation on a job is the order's. *)
LEMMA AnswersTell ==
    ASSUME Inv, NEW r \in responses
    PROVE  /\ r.at \in Nat \ {0} /\ order[r.at].sender \in Node
           /\ r.at \in 1 .. delivered[order[r.at].sender]
           /\ delivered[order[r.at].sender] \in Nat
           /\ \A j : Submits(r.at, j) =>
                  /\ j \in Job /\ order[r.at].def \in Definition
                  /\ r.submitted <=> DefinedAs(j, order[r.at].def, r.at)
           /\ \A j : Queries(r.at, j) =>
                  /\ j \in Job
                  /\ r.complete <=> \E d \in Definition :
                                       DefinedAs(j, d, r.at) /\ Finished(j, d, r.at)
<1>1. FollowsOrder(r) /\ r.at \in DOMAIN order /\ order \in Seq(Operation)
  BY DEF Inv, AnswersFollowOrder, TypeOK
<1>2. order[r.at] \in Operation
  BY <1>1
<1>3. order[r.at].sender \in Node /\ r.at \in Nat \ {0}
  BY <1>1, <1>2, OperationFields
<1>4. delivered[order[r.at].sender] \in Nat
  BY <1>3 DEF Inv, TypeOK
<1>5. \A j : Submits(r.at, j) => j \in Job /\ order[r.at].def \in Definition
  BY <1>2, OperationFields DEF Submits
<1>6. \A j : Queries(r.at, j) => j \in Job
  BY <1>2, OperationFields DEF Queries
<1> QED
  BY <1>1, <1>3, <1>4, <1>5, <1>6 DEF FollowsOrder

(* Of the submissions under one id those with one definition are accepted, those with     *)
(* another refused, whichever nodes were asked (submit_job).                              *)
THEOREM SingleDefinition == Spec => []OneDefinitionAccepted
<1>1. Inv => OneDefinitionAccepted
  <2> SUFFICES ASSUME Inv, NEW p \in responses, NEW q \in responses,
                      order[p.at].op = "submit", order[q.at].op = "submit",
                      order[p.at].job = order[q.at].job, p.submitted
               PROVE  q.submitted <=> order[p.at].def = order[q.at].def
    BY DEF OneDefinitionAccepted
  <2>1. PICK j, x, y : /\ j = order[p.at].job /\ x = p.at /\ y = q.at
                       /\ Submits(x, j) /\ Submits(y, j)
    BY DEF Submits
  <2>2. /\ x \in Nat \ {0} /\ y \in Nat \ {0}
        /\ DefinedAs(j, order[x].def, x)
        /\ q.submitted <=> DefinedAs(j, order[y].def, y)
    BY <2>1, AnswersTell
  <2>3. q.submitted => order[x].def = order[y].def
    BY <2>2, OneDefinition
  <2>4. DefinedAs(j, order[x].def, y)
    <3>1. PICK u \in 1 .. x : Defines(u, j) /\ order[u].def = order[x].def
      BY <2>2 DEF DefinedAs
    <3>2. PICK v \in 1 .. y : Defines(v, j)
      BY <2>1, <2>2, SomeSubmissionDefines
    <3>3. u = v
      BY <3>1, <3>2, <2>2, OneDefines
    <3> QED
      BY <3>1, <3>2, <3>3 DEF DefinedAs
  <2> QED
    BY <2>1, <2>2, <2>3, <2>4
<1> QED
  BY <1>1, Invariance, PTL

(* A job that was reported complete is complete in every answer later in the order,       *)
(* whichever nodes were asked (_job_complete).                                            *)
THEOREM Monotony == Spec => []CompleteStaysComplete
<1>1. Inv => CompleteStaysComplete
  <2> SUFFICES ASSUME Inv, NEW j \in Job, NEW p \in Answered(j), NEW q \in Answered(j),
                      p.at < q.at, p.complete
               PROVE  q.complete
    BY DEF CompleteStaysComplete
  <2>1. /\ p \in responses /\ q \in responses
        /\ Queries(p.at, j) /\ Queries(q.at, j)
    BY DEF Answered, Queries
  <2>2. PICK d \in Definition : DefinedAs(j, d, p.at) /\ Finished(j, d, p.at)
    BY <2>1, AnswersTell
  <2>3. p.at \in Nat /\ q.at \in Nat /\ p.at =< q.at
    BY <2>1, AnswersTell
  <2>4. DefinedAs(j, d, q.at) /\ Finished(j, d, q.at)
    BY <2>2, <2>3, SettledStays
  <2> QED
    BY <2>1, <2>4, AnswersTell
<1> QED
  BY <1>1, Invariance, PTL

(* Who completes a task has published its completion, and so has run it. *)
LEMMA CompletedMeansRun ==
    ASSUME Inv, NEW t \in Task, NEW k \in Nat, k =< Len(order), Completed(t, k)
    PROVE  runs[t] = 1 /\ t \notin failed
<1>1. PICK q \in 1 .. k : Completes(q, t)
  BY DEF Completed
<1>2. order \in Seq(Operation) /\ q \in DOMAIN order /\ order[q] \in Operation
  BY DEF Inv, TypeOK
<1>3. order[q].sender \in Node /\ order[q] = Completion(t, order[q].sender)
  BY <1>1, <1>2, OperationFields DEF Completes
<1>4. IsPublished(Completion(t, order[q].sender))
  BY <1>2, <1>3 DEF IsPublished, Range
<1> QED
  BY <1>3, <1>4 DEF Inv, CompletionsAreTrue

(* A client that is told a job is complete, or is given its results, is told so of an     *)
(* accepted job of which every input was processed once, without failure (_job_complete). *)
THEOREM Completeness == Spec => []CompleteMeansRun
<1>1. Inv => CompleteMeansRun
  <2> SUFFICES ASSUME Inv, NEW j \in Job, NEW r \in Answered(j), r.complete
               PROVE  \E d \in Definition :
                          /\ \E n \in Node : d \in jobs[n][j]
                          /\ \A i \in 0 .. Tasks[d] - 1 : runs[<<j, i>>] = 1 /\ <<j, i>> \notin failed
    BY DEF CompleteMeansRun
  <2>1. PICK k, n : k = r.at /\ n = order[r.at].sender
    OBVIOUS
  <2>2. r \in responses /\ Queries(k, j)
    BY <2>1 DEF Answered, Queries
  <2>3. /\ k \in Nat /\ n \in Node /\ delivered[n] \in Nat /\ k =< delivered[n]
        /\ \E d \in Definition : DefinedAs(j, d, k) /\ Finished(j, d, k)
    BY <2>1, <2>2, AnswersTell
  <2>4. PICK d \in Definition : DefinedAs(j, d, k) /\ Finished(j, d, k)
    BY <2>3
  <2>5. d \in jobs[n][j]
    BY <2>3, <2>4, SettledStays DEF Inv, JobsFollowOrder
  <2>6. k =< Len(order)
    BY <2>3 DEF Inv, TypeOK
  <2>7. ASSUME NEW i \in 0 .. Tasks[d] - 1
        PROVE  runs[<<j, i>>] = 1 /\ <<j, i>> \notin failed
    <3>1. <<j, i>> \in Task /\ Completed(<<j, i>>, k)
      BY <2>4 DEF Task, Index, Finished
    <3> QED
      BY <3>1, <2>3, <2>6, CompletedMeansRun
  <2> QED
    BY <2>3, <2>5, <2>7
<1> QED
  BY <1>1, Invariance, PTL

(* Every index has an owner among the members. *)
LEMMA PlacesAreTaken ==
    ASSUME NEW S, S \subseteq Nat, IsFiniteSet(S), NEW r \in Nat, r < Cardinality(S)
    PROVE  \E n \in S : Cardinality({p \in S : p < n}) = r
<1> DEFINE Below(n) == {p \in S : p < n}
           k == Cardinality(S)
<1>1. k \in Nat
  BY FS_CardinalityType
<1>2. \A n \in S : IsFiniteSet(Below(n)) /\ Cardinality(Below(n)) \in 0 .. k - 1
  <2> SUFFICES ASSUME NEW n \in S
               PROVE  IsFiniteSet(Below(n)) /\ Cardinality(Below(n)) \in 0 .. k - 1
    OBVIOUS
  <2>1. Below(n) \in SUBSET S /\ n \in S /\ n \notin Below(n)
    OBVIOUS
  <2> HIDE DEF Below
  <2>2. /\ IsFiniteSet(Below(n)) /\ Cardinality(Below(n)) \in Nat
        /\ Cardinality(Below(n)) =< k /\ Cardinality(Below(n)) # k
    BY <2>1, FS_Subset, FS_CardinalityType
  <2> QED
    BY <2>2, <1>1
<1>3. \A m, n \in S : m < n => Cardinality(Below(m)) < Cardinality(Below(n))
  <2> SUFFICES ASSUME NEW m \in S, NEW n \in S, m < n
               PROVE  Cardinality(Below(m)) < Cardinality(Below(n))
    OBVIOUS
  <2>1. Below(m) \in SUBSET Below(n) /\ m \in Below(n) /\ m \notin Below(m)
    <3>1. m \in Nat /\ n \in Nat /\ \A p \in S : p \in Nat
      OBVIOUS
    <3>2. \A p \in S : p < m => p < n
      BY <3>1
    <3>3. ~(m < m)
      BY <3>1
    <3> QED
      BY <3>2, <3>3
  <2> HIDE DEF Below
  <2>2. /\ Cardinality(Below(m)) =< Cardinality(Below(n))
        /\ Cardinality(Below(m)) # Cardinality(Below(n))
    BY <2>1, <1>2, FS_Subset
  <2> QED
    BY <2>2, <1>1, <1>2
<1> DEFINE f == [n \in S |-> Cardinality(Below(n))]
<1>4. f \in [S -> 0 .. k - 1]
  BY <1>2
<1>5. \A m, n \in S : f[m] = f[n] => m = n
  <2> SUFFICES ASSUME NEW m \in S, NEW n \in S, Cardinality(Below(m)) = Cardinality(Below(n))
               PROVE  m = n
    OBVIOUS
  <2>1. Cardinality(Below(m)) \in Nat /\ Cardinality(Below(n)) \in Nat /\ m \in Nat /\ n \in Nat
    BY <1>1, <1>2
  <2> HIDE DEF Below
  <2> QED
    BY <2>1, <1>3
<1> HIDE DEF f
<1>6. f \in Injection(S, 0 .. k - 1)
  BY <1>4, <1>5, Zenon DEF Injection, IsInjective
<1> HIDE DEF k
<1>7. IsFiniteSet(0 .. k - 1) /\ Cardinality(0 .. k - 1) = k
  <2>1. 0 \in Int /\ k - 1 \in Int /\ (k - 1) - 0 + 1 = k /\ (0 > k - 1 <=> k = 0)
    BY <1>1
  <2> QED
    BY <2>1, FS_Interval
<1>8. f \in Surjection(S, 0 .. k - 1)
  BY <1>6, <1>7, FS_Injection DEF k
<1>9. r \in 0 .. k - 1
  BY <1>1 DEF k
<1> QED
  BY <1>8, <1>9 DEF Surjection, f

LEMMA OwnersExist ==
    ASSUME NEW i \in Nat, Node # {}
    PROVE  Owner(i) \in Node
<1>1. PICK k : k = Cardinality(Node)
  OBVIOUS
<1>2. k \in Nat \ {0}
  BY <1>1, NodesAreOrdered, FS_CardinalityType, FS_EmptySet
<1>3. i % k \in Nat /\ i % k < k
  BY <1>2
<1>4. \E n \in Node : Cardinality({p \in Node : p < n}) = i % Cardinality(Node)
  BY <1>1, <1>3, NodesAreOrdered, PlacesAreTaken
<1> QED
  BY <1>4 DEF Owner

(* When the cluster goes quiet every input of an accepted job has been processed and      *)
(* every node knows it, or its execution has raised (_start_job, _execute_task).          *)
THEOREM Quiescence == Spec => []QuietMeansProcessed
<1>1. Inv => QuietMeansProcessed
  <2> SUFFICES ASSUME Inv, Quiet, NEW n \in Node, NEW j \in Job, NEW d \in jobs[n][j],
                      NEW i \in 0 .. Tasks[d] - 1
               PROVE  <<j, i>> \in failed \/ tasks[n][<<j, i>>].status = "complete"
    BY DEF QuietMeansProcessed
  <2>1. PICK t, w, l : t = <<j, i>> /\ w = Owner(i) /\ l = Len(order)
    OBVIOUS
  <2>2. /\ d \in Definition /\ order \in Seq(Operation) /\ l \in Nat /\ DOMAIN order = 1 .. l
        /\ \A m \in Node : delivered[m] = l /\ outbox[m] = <<>> /\ starting[m] = {}
                           /\ executing[m] = {}
    <3>1. jobs \in [Node -> [Job -> SUBSET Definition]] /\ order \in Seq(Operation)
      BY DEF Inv, TypeOK
    <3> QED
      BY <3>1, <2>1 DEF Quiet
  <2>3. t \in Task /\ i \in Owned(w, d) /\ w \in Node
    <3>1. i \in Nat /\ t \in Task
      BY <2>1, <2>2, TasksAreCounted DEF Task, Index
    <3> QED
      BY <3>1, <2>1, OwnersExist DEF Owned
  <2>4. \A o : o.sender \in Node /\ IsPublished(o) => \E p \in 1 .. l : order[p] = o
    BY <2>2 DEF IsPublished, Range
  <2>5. d \in jobs[w][j]
    BY <2>2, <2>3 DEF Inv, JobsFollowOrder
  <2>6. IsPublished(Claim(t, w))
    BY <2>1, <2>2, <2>3, <2>5 DEF Inv, SharesAreClaimed
  <2>7. PICK p \in 1 .. l : order[p] = Claim(t, w)
    BY <2>3, <2>4, <2>6 DEF Claim
  <2>8. PICK q \in 1 .. l : Wins(q, t)
    BY <2>2, <2>7, SomeClaimWins DEF Claims, Claim
  <2>9. PICK v \in Node : WonBy(t, v, l)
    BY <2>2, <2>8, OperationFields DEF WonBy
  <2>10. t \in executed[v] \ executing[v]
    BY <2>2, <2>3, <2>9 DEF Inv, WinnersExecute
  <2>11. t \in failed \/ IsPublished(Completion(t, v))
    BY <2>3, <2>10 DEF Inv, WinnersExecute
  <2>12. CASE IsPublished(Completion(t, v))
    <3>1. PICK c \in 1 .. l : order[c] = Completion(t, v)
      BY <2>4, <2>12 DEF Completion
    <3>2. Completed(t, delivered[n])
      BY <3>1, <2>2 DEF Completed, Completes, Completion
    <3> QED
      BY <3>2, <2>1, <2>3, TasksAreWon DEF Inv
  <2> QED
    BY <2>1, <2>11, <2>12
<1> QED
  BY <1>1, Invariance, PTL
=============================================================================
