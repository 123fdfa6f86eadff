------------------------- MODULE SimSchedulerProofs -------------------------
(* Theorems about SimScheduler, for every set of delays and times and every bound. *)
EXTENDS SimScheduler, TLAPS

(* Appending an entry keeps the others, and puts the new one last. *)
LEMMA Appended ==
    ASSUME NEW S, NEW t \in Seq(S), NEW x \in S
    PROVE  /\ Append(t, x) \in Seq(S)
           /\ Len(Append(t, x)) = Len(t) + 1
           /\ Append(t, x)[Len(t) + 1] = x
           /\ \A i \in 1 .. Len(t) : Append(t, x)[i] = t[i]
           /\ 1 .. Len(Append(t, x)) = (1 .. Len(t)) \union {Len(t) + 1}
  OBVIOUS

(* An entry of the trace is an entry, of an event created so far. *)
LEMMA EntryFields ==
    ASSUME Inv, NEW i \in 1 .. Len(trace)
    PROVE  trace[i].when \in Nat /\ trace[i].seq \in 1 .. seq
<1>1. \A t \in Seq(Entry) : \A j \in 1 .. Len(t) : t[j] \in Entry
  OBVIOUS
<1>2. trace[i].when \in Nat
  BY <1>1 DEF Inv, TypeOK, Entry
<1>3. trace[i].seq \in 1 .. seq
  BY DEF Inv, OneOutcome
<1> QED
  BY <1>2, <1>3

(* The stack of runs: the innermost one is a run, and so is each below it. *)
LEMMA Stack ==
    ASSUME NEW c \in Seq(Run), c # <<>>
    PROVE  /\ c[Len(c)] \in Run
           /\ SubSeq(c, 1, Len(c) - 1) \in Seq(Run)
           /\ \A b \in BOOLEAN : [c EXCEPT ![Len(c)].running = b] \in Seq(Run)
<1>1. Len(c) \in 1 .. Len(c) /\ c[Len(c)] \in Run
  OBVIOUS
<1>2. \A b \in BOOLEAN : [c[Len(c)] EXCEPT !.running = b] \in Run
  BY <1>1 DEF Run
<1>3. SubSeq(c, 1, Len(c) - 1) \in Seq(Run)
  BY <1>1
<1>4. \A r \in Run : [c EXCEPT ![Len(c)] = r] \in Seq(Run)
  BY <1>1
<1> QED
  BY <1>1, <1>2, <1>3, <1>4

(* An entry added to the trace: it is the first of its event, and if the event was *)
(* fired, everything fired before comes before it.                                 *)
LEMMA EntryKeepsOrder ==
    ASSUME Inv, NEW x \in Entry,
           x.seq \in live, trace' = Append(trace, x), live' = live \ {x.seq}, seq' = seq,
           x.what = "fired" =>
               \A i \in 1 .. Len(trace) : trace[i].what = "fired" => Before(trace[i], x)
    PROVE  RunsInOrder' /\ OneOutcome'
<1>1. PICK t, u : t = trace /\ u = trace'
  OBVIOUS
<1>2. /\ t \in Seq(Entry) /\ Len(t) \in Nat /\ Len(u) = Len(t) + 1
      /\ u[Len(t) + 1] = x /\ \A i \in 1 .. Len(t) : u[i] = t[i]
      /\ 1 .. Len(u) = (1 .. Len(t)) \union {Len(t) + 1}
  BY <1>1, Appended DEF Inv, TypeOK
<1>3. RunsInOrder'
  <2>1. \A i, j \in 1 .. Len(t) :
            i < j /\ t[i].what = "fired" /\ t[j].what = "fired" => Before(t[i], t[j])
    BY <1>1 DEF Inv, RunsInOrder
  <2>2. \A i \in 1 .. Len(t) :
            t[i].what = "fired" /\ x.what = "fired" => Before(t[i], x)
    BY <1>1
  <2>3. ASSUME NEW i \in 1 .. Len(u), NEW j \in 1 .. Len(u),
               i < j, u[i].what = "fired", u[j].what = "fired"
        PROVE  Before(u[i], u[j])
    <3>1. i \in 1 .. Len(t)
      BY <1>2, <2>3
    <3>2. CASE j \in 1 .. Len(t)
      BY <1>2, <2>1, <2>3, <3>1, <3>2
    <3>3. CASE j = Len(t) + 1
      BY <1>2, <2>2, <2>3, <3>1, <3>3
    <3> QED
      BY <1>2, <3>2, <3>3
  <2> QED
    BY <1>1, <2>3 DEF RunsInOrder, Before
<1>4. OneOutcome'
  <2>1. /\ \A i, j \in 1 .. Len(t) : t[i].seq = t[j].seq => i = j
        /\ {t[i].seq : i \in 1 .. Len(t)} = (1 .. seq) \ live
    BY <1>1 DEF Inv, OneOutcome
  <2>2. \A i \in 1 .. Len(t) : t[i].seq # x.seq
    BY <2>1
  <2>3. \A i, j \in 1 .. Len(u) : u[i].seq = u[j].seq => i = j
    BY <1>2, <2>1, <2>2
  <2>4. {u[i].seq : i \in 1 .. Len(u)} = {t[i].seq : i \in 1 .. Len(t)} \union {x.seq}
    <3>1. Len(t) + 1 \in 1 .. Len(u) /\ \A i \in 1 .. Len(t) : i \in 1 .. Len(u)
      BY <1>2
    <3>2. {u[i].seq : i \in 1 .. Len(u)} \subseteq {t[i].seq : i \in 1 .. Len(t)} \union {x.seq}
      BY <1>2
    <3>3. {t[i].seq : i \in 1 .. Len(t)} \union {x.seq} \subseteq {u[i].seq : i \in 1 .. Len(u)}
      BY <1>2, <3>1
    <3> QED
      BY <3>2, <3>3
  <2>5. {u[i].seq : i \in 1 .. Len(u)} = (1 .. seq) \ (live \ {x.seq})
    <3>1. x.seq \in 1 .. seq
      BY DEF Inv, TypeOK
    <3> QED
      BY <2>1, <2>4, <3>1
  <2> QED
    BY <1>1, <2>3, <2>5 DEF OneOutcome
<1> QED
  BY <1>3, <1>4
-----------------------------------------------------------------------------
LEMMA InitInv == Init => Inv
  BY BoundsAreNatural
  DEF Init, Inv, TypeOK, HeapIsAhead, LiveIsInHeap, FiredIsBehind, RunsInOrder, OneOutcome

LEMMA CallLaterKeepsInv ==
    ASSUME Inv, NEW ms \in Delay, CallLater(ms) PROVE Inv'
<1>1. PICK e : e = [when |-> now + ms, seq |-> seq + 1]
  OBVIOUS
<1>2. /\ ms \in Nat /\ now \in Nat /\ seq \in Nat /\ MaxTimers \in Nat /\ seq < MaxTimers
      /\ seq' = seq + 1 /\ heap' = heap \union {e} /\ live' = live \union {seq + 1}
      /\ UNCHANGED <<now, steps, calls, trace>>
      /\ e.when = now + ms /\ e.seq = seq + 1
      /\ e \in [when : Nat, seq : 1 .. seq + 1]
  BY <1>1, DelaysAreNatural, BoundsAreNatural DEF Inv, TypeOK, CallLater
<1>3. TypeOK'
  <2>1. 1 .. seq \subseteq 1 .. seq + 1 /\ seq + 1 \in 0 .. MaxTimers /\ seq + 1 \in 1 .. seq + 1
    BY <1>2
  <2>2. heap' \in SUBSET [when : Nat, seq : 1 .. seq']
    BY <1>2, <2>1 DEF Inv, TypeOK
  <2> QED
    BY <1>2, <2>1, <2>2 DEF Inv, TypeOK
<1>4. HeapIsAhead' /\ LiveIsInHeap'
  BY <1>2 DEF Inv, HeapIsAhead, LiveIsInHeap
<1>5. FiredIsBehind'
  <2>1. ASSUME NEW i \in 1 .. Len(trace), trace[i].what = "fired"
        PROVE  trace[i].when =< now /\ \A f \in heap' : Before(trace[i], f)
    <3>1. trace[i].when \in Nat /\ trace[i].seq \in 1 .. seq
      BY EntryFields
    <3>2. trace[i].when =< now /\ \A f \in heap : Before(trace[i], f)
      BY <2>1 DEF Inv, FiredIsBehind
    <3>3. Before(trace[i], e)
      BY <1>2, <3>1, <3>2 DEF Before
    <3> QED
      BY <1>2, <3>2, <3>3
  <2> QED
    BY <1>2, <2>1 DEF FiredIsBehind, Before
<1>6. RunsInOrder' /\ OneOutcome'
  <2>1. (1 .. seq + 1) \ (live \union {seq + 1}) = (1 .. seq) \ live
    BY <1>2
  <2> QED
    BY <1>2, <2>1 DEF Inv, RunsInOrder, OneOutcome, Before
<1> QED
  BY <1>3, <1>4, <1>5, <1>6 DEF Inv

LEMMA CancelKeepsInv ==
    ASSUME Inv, NEW s \in 1 .. MaxTimers, Cancel(s) PROVE Inv'
<1>1. CASE s \notin live
  <2>1. UNCHANGED vars
    BY <1>1 DEF Cancel, vars
  <2> QED
    BY <2>1 DEF vars, Inv, TypeOK, HeapIsAhead, LiveIsInHeap, FiredIsBehind, RunsInOrder,
                OneOutcome, Before
<1>2. CASE s \in live
  <2>1. PICK x : x = [what |-> "cancelled", when |-> now, seq |-> s]
    OBVIOUS
  <2>2. x \in Entry /\ x.seq = s /\ x.what = "cancelled"
    BY <2>1 DEF Inv, TypeOK, Entry
  <2>3. /\ live' = live \ {s} /\ trace' = Append(trace, x)
        /\ UNCHANGED <<now, heap, seq, steps, calls>>
    BY <1>2, <2>1 DEF Cancel
  <2>4. RunsInOrder' /\ OneOutcome'
    BY <1>2, <2>2, <2>3, EntryKeepsOrder
  <2>5. TypeOK'
    BY <2>2, <2>3, Appended DEF Inv, TypeOK
  <2>6. HeapIsAhead' /\ LiveIsInHeap'
    BY <2>3 DEF Inv, HeapIsAhead, LiveIsInHeap
  <2>7. FiredIsBehind'
    <3>1. /\ \A i \in 1 .. Len(trace) : trace'[i] = trace[i]
          /\ 1 .. Len(trace') = (1 .. Len(trace)) \union {Len(trace) + 1}
          /\ trace'[Len(trace) + 1] = x
      BY <2>2, <2>3, Appended DEF Inv, TypeOK
    <3> QED
      BY <2>2, <2>3, <3>1 DEF Inv, FiredIsBehind, Before
  <2> QED
    BY <2>4, <2>5, <2>6, <2>7 DEF Inv
<1> QED
  BY <1>1, <1>2

LEMMA PeekKeepsInv ==
    ASSUME Inv, Peek PROVE Inv'
<1>1. /\ heap' \subseteq heap /\ UNCHANGED <<now, live, seq, steps, calls, trace>>
      /\ \A e \in heap : e.seq \in live => e \in heap'
  BY DEF Peek
<1>2. TypeOK' /\ HeapIsAhead' /\ LiveIsInHeap'
  BY <1>1 DEF Inv, TypeOK, HeapIsAhead, LiveIsInHeap
<1>3. FiredIsBehind' /\ RunsInOrder' /\ OneOutcome'
  BY <1>1 DEF Inv, FiredIsBehind, RunsInOrder, OneOutcome, Before
<1> QED
  BY <1>2, <1>3 DEF Inv

(* The turn of a loop: what is fired comes before all that stays in the heap. *)
LEMMA RunNextKeepsInv ==
    ASSUME Inv, RunNext PROVE Inv'
<1>1. PICK e \in heap : /\ IsFirst(e) /\ heap' = heap \ {e}
                        /\ IF e.seq \in live
                           THEN /\ live' = live \ {e.seq}
                                /\ now' = e.when
                                /\ trace' = Append(trace, [what |-> "fired", when |-> e.when,
                                                           seq |-> e.seq])
                                /\ calls' = [calls EXCEPT ![Len(calls)].running = TRUE]
                           ELSE UNCHANGED <<now, live, calls, trace>>
  BY DEF RunNext, Fire
<1>2. /\ UNCHANGED <<seq, steps>> /\ calls # <<>> /\ now \in Nat
      /\ e.when \in Nat /\ e.seq \in 1 .. seq /\ e.when >= now
      /\ \A f \in heap : f.when \in Nat
      /\ \A f \in heap' : Before(e, f)
  BY <1>1 DEF RunNext, InLoop, IsFirst, Inv, TypeOK, HeapIsAhead
<1>3. LiveIsInHeap'
  BY <1>1, <1>2 DEF Inv, LiveIsInHeap
<1>4. CASE e.seq \notin live
  <2>1. heap' \subseteq heap /\ UNCHANGED <<now, live, seq, steps, calls, trace>>
    BY <1>1, <1>2, <1>4
  <2>2. TypeOK' /\ HeapIsAhead'
    BY <2>1 DEF Inv, TypeOK, HeapIsAhead
  <2>3. FiredIsBehind' /\ RunsInOrder' /\ OneOutcome'
    BY <2>1 DEF Inv, FiredIsBehind, RunsInOrder, OneOutcome, Before
  <2> QED
    BY <1>3, <2>2, <2>3 DEF Inv
<1>5. CASE e.seq \in live
  <2>1. PICK x : x = [what |-> "fired", when |-> e.when, seq |-> e.seq]
    OBVIOUS
  <2>2. x \in Entry /\ x.seq = e.seq /\ x.when = e.when /\ x.what = "fired"
    BY <1>2, <2>1, BoundsAreNatural DEF Inv, TypeOK, Entry
  <2>3. /\ live' = live \ {x.seq} /\ now' = x.when /\ trace' = Append(trace, x)
        /\ calls' = [calls EXCEPT ![Len(calls)].running = TRUE]
    BY <1>1, <1>5, <2>1, <2>2
  <2>4. \A f : (Before(f, e) => Before(f, x)) /\ (Before(e, f) => Before(x, f))
    BY <2>2 DEF Before
  <2>5. \A i \in 1 .. Len(trace) :
            trace[i].what = "fired" => /\ trace[i].when =< now
                                       /\ Before(trace[i], x)
                                       /\ \A f \in heap' : Before(trace[i], f)
    BY <1>1, <2>4 DEF Inv, FiredIsBehind
  <2>6. RunsInOrder' /\ OneOutcome'
    BY <1>2, <1>5, <2>2, <2>3, <2>5, EntryKeepsOrder
  <2>7. TypeOK'
    <3>1. trace' \in Seq(Entry)
      BY <2>2, <2>3, Appended DEF Inv, TypeOK
    <3>2. calls' \in Seq(Run)
      BY <1>2, <2>3, Stack DEF Inv, TypeOK
    <3> QED
      BY <1>1, <1>2, <2>2, <2>3, <3>1, <3>2 DEF Inv, TypeOK
  <2>8. HeapIsAhead'
    BY <1>1, <1>2, <2>2, <2>3 DEF HeapIsAhead, Before
  <2>9. FiredIsBehind'
    <3>1. /\ \A i \in 1 .. Len(trace) : trace'[i] = trace[i]
          /\ 1 .. Len(trace') = (1 .. Len(trace)) \union {Len(trace) + 1}
          /\ trace'[Len(trace) + 1] = x
      BY <2>2, <2>3, Appended DEF Inv, TypeOK
    <3>2. \A i \in 1 .. Len(trace) : trace[i].when \in Nat
      BY EntryFields
    <3>3. \A i \in 1 .. Len(trace) :
              trace[i].what = "fired" => trace[i].when =< x.when
      BY <1>2, <2>2, <2>5, <3>2
    <3>4. \A f \in heap' : Before(x, f)
      BY <1>2, <2>4
    <3>5. \A i \in 1 .. Len(trace') :
              trace'[i].what = "fired" =>
                  trace'[i].when =< now' /\ \A f \in heap' : Before(trace'[i], f)
      BY <1>2, <2>2, <2>3, <2>5, <3>1, <3>3, <3>4
    <3> QED
      BY <3>5 DEF FiredIsBehind, Before
  <2> QED
    BY <1>3, <2>6, <2>7, <2>8, <2>9 DEF Inv
<1> QED
  BY <1>4, <1>5

(* A run that returns moves the clock on, never past what is left in the heap. *)
LEMMA ReturnMovesClock ==
    ASSUME Inv, Return
    PROVE  now' \in Nat /\ now' >= now /\ \A e \in heap : e.when >= now'
<1>1. PICK r : r = Top
  OBVIOUS
<1>2. r \in Run /\ now \in Nat /\ \A e \in heap : e.when \in Nat /\ e.when >= now
  BY <1>1, Stack DEF Return, InLoop, Inv, TypeOK, HeapIsAhead, Top
<1>3. r.call # "step" =>
          /\ r.until \in Int /\ r.call \in {"run_until", "run_until_idle"}
          /\ \A e \in heap : e.when > r.until
  <2>1. \A e \in heap : ~(r.call # "step" => e.when =< r.until)
    BY <1>1 DEF Return, Takes
  <2>2. r.call # "step" =>
            r.until \in Int /\ r.call \in {"run_until", "run_until_idle"}
    BY <1>2, UntilsAreTimes DEF Run
  <2> QED
    BY <1>2, <2>1, <2>2
<1>4. CASE r.call = "run_until" \/ (r.call = "run_until_idle" /\ live # {})
  <2>1. now' = Later(now, r.until)
    BY <1>1, <1>4 DEF Return, ReturnTo
  <2> QED
    BY <1>1, <1>2, <1>3, <1>4, <2>1 DEF Later
<1>5. CASE ~(r.call = "run_until" \/ (r.call = "run_until_idle" /\ live # {}))
  <2>1. now' = now
    BY <1>1, <1>5 DEF Return, ReturnTo, Later
  <2> QED
    BY <1>1, <1>2, <1>3, <1>5, <2>1
<1> QED
  BY <1>4, <1>5

(* A run that begins, ends or goes on changes the stack, and when it returns the clock. *)
LEMMA RunKeepsInv ==
    ASSUME Inv,
           \/ \E t \in Until : BeginRunUntil(t) \/ BeginRunUntilIdle(t)
           \/ BeginStep \/ CallbackReturns \/ CallbackRaises \/ Return
    PROVE  Inv'
<1>1. calls' \in Seq(Run) /\ steps' \in Nat
  <2>1. ASSUME NEW r \in Run, Begin(r) PROVE calls' \in Seq(Run) /\ steps' \in Nat
    BY <2>1 DEF Begin, Inv, TypeOK
  <2>2. /\ \A t \in Until :
               /\ [call |-> "run_until", until |-> t, running |-> FALSE] \in Run
               /\ [call |-> "run_until_idle", until |-> t, running |-> FALSE] \in Run
        /\ [call |-> "step", running |-> FALSE] \in Run
    BY DEF Run
  <2>3. ASSUME CallbackReturns \/ CallbackRaises \/ Return
        PROVE  calls' \in Seq(Run) /\ steps' \in Nat
    <3>1. calls # <<>> /\ calls \in Seq(Run) /\ steps \in Nat
      BY <2>3 DEF CallbackReturns, CallbackRaises, Return, InLoop, Inv, TypeOK
    <3>2. \/ calls' = Below
          \/ calls' = [calls EXCEPT ![Len(calls)].running = FALSE]
      BY <2>3 DEF CallbackReturns, CallbackRaises, Return
    <3>3. steps' = steps \/ steps' = steps + 1
      BY <2>3 DEF CallbackReturns, CallbackRaises, Return
    <3>4. Below \in Seq(Run) /\ [calls EXCEPT ![Len(calls)].running = FALSE] \in Seq(Run)
      BY <3>1, Stack DEF Below
    <3>5. calls' \in Seq(Run)
      BY <3>2, <3>4, Zenon
    <3>6. steps' \in Nat
      BY <3>1, <3>3
    <3> QED
      BY <3>5, <3>6
  <2> QED
    BY <2>1, <2>2, <2>3 DEF BeginRunUntil, BeginRunUntilIdle, BeginStep
<1>2. UNCHANGED <<heap, live, seq, trace>>
  BY DEF BeginRunUntil, BeginRunUntilIdle, BeginStep, Begin, CallbackReturns, CallbackRaises,
         Return
<1>3. now' \in Nat /\ now' >= now /\ \A e \in heap : e.when >= now'
  <2>1. CASE Return
    BY <2>1, ReturnMovesClock
  <2>2. CASE UNCHANGED now
    BY <2>2 DEF Inv, TypeOK, HeapIsAhead
  <2> QED
    BY <2>1, <2>2
    DEF BeginRunUntil, BeginRunUntilIdle, BeginStep, Begin, CallbackReturns, CallbackRaises
<1>4. TypeOK' /\ HeapIsAhead' /\ LiveIsInHeap'
  BY <1>1, <1>2, <1>3 DEF Inv, TypeOK, HeapIsAhead, LiveIsInHeap
<1>5. FiredIsBehind'
  <2>1. \A i \in 1 .. Len(trace) :
            trace[i].what = "fired" => /\ trace[i].when \in Nat /\ trace[i].when =< now
                                       /\ \A e \in heap : Before(trace[i], e)
    BY EntryFields DEF Inv, FiredIsBehind
  <2>2. now \in Nat
    BY DEF Inv, TypeOK
  <2> QED
    BY <1>2, <1>3, <2>1, <2>2 DEF FiredIsBehind, Before
<1>6. RunsInOrder' /\ OneOutcome'
  BY <1>2 DEF Inv, RunsInOrder, OneOutcome, Before
<1> QED
  BY <1>4, <1>5, <1>6 DEF Inv

LEMMA NextKeepsInv == Inv /\ [Next]_vars => Inv'
<1>1. ASSUME Inv, UNCHANGED vars PROVE Inv'
  <2>1. TypeOK' /\ HeapIsAhead' /\ LiveIsInHeap'
    BY <1>1 DEF vars, Inv, TypeOK, HeapIsAhead, LiveIsInHeap
  <2>2. FiredIsBehind' /\ RunsInOrder' /\ OneOutcome'
    BY <1>1 DEF vars, Inv, FiredIsBehind, RunsInOrder, OneOutcome, Before
  <2> QED
    BY <2>1, <2>2 DEF Inv
<1> QED
  BY <1>1, CallLaterKeepsInv, CancelKeepsInv, PeekKeepsInv, RunNextKeepsInv, RunKeepsInv DEF Next
-----------------------------------------------------------------------------
(* The inductive invariant holds for any number of timers and any nesting of runs. *)
THEOREM Invariance == Spec => []Inv
  BY InitInv, NextKeepsInv, PTL DEF Spec

(* Callbacks run by due time, first in first out among equals. *)
THEOREM DueOrder == Spec => []RunsInOrder
  BY Invariance, PTL DEF Inv

(* No live event is overdue, and none is lost from the heap. *)
THEOREM Punctuality == Spec => []NothingOverdueOrLost
<1>1. Inv => NothingOverdueOrLost
  BY DEF Inv, HeapIsAhead, LiveIsInHeap, NothingOverdueOrLost
<1> QED
  BY <1>1, Invariance, PTL

(* A timer is fired once, or cancelled once, or still live. *)
THEOREM Outcomes == Spec => []OneOutcome
  BY Invariance, PTL DEF Inv

(* The clock is monotone. *)
THEOREM Monotonicity == Spec => ClockNeverRunsBack
<1>1. Inv /\ [Next]_vars => [now' >= now]_now
  <2>1. ASSUME Inv, RunNext PROVE now' >= now
    BY <2>1 DEF RunNext, Fire, Inv, TypeOK, HeapIsAhead
  <2>2. ASSUME Inv, Return PROVE now' >= now
    BY <2>2, ReturnMovesClock
  <2> QED
    BY <2>1, <2>2
    DEF Next, vars, CallLater, Cancel, Peek, BeginRunUntil, BeginRunUntilIdle, BeginStep, Begin,
        CallbackReturns, CallbackRaises
<1> QED
  BY <1>1, Invariance, PTL DEF Spec, ClockNeverRunsBack

(* What the heap's order and the live events say about the timers still to run. *)
LEMMA HeapHoldsTimers ==
    ASSUME Inv
    PROVE  /\ \A s : s \in live <=> \E e \in heap : e.seq \in live /\ e.seq = s
           /\ \A e \in heap : e.when \in Nat /\ e.seq \in 1 .. seq
           /\ seq \in Nat /\ now \in Nat /\ live \subseteq 1 .. seq
<1>1. \A s \in live : \E e \in heap : e.seq \in live /\ e.seq = s
  BY DEF Inv, LiveIsInHeap
<1>2. \A e \in heap : e.when \in Nat /\ e.seq \in 1 .. seq
  BY DEF Inv, TypeOK
<1>3. seq \in Nat /\ now \in Nat /\ live \subseteq 1 .. seq
  BY BoundsAreNatural DEF Inv, TypeOK
<1> QED
  BY <1>1, <1>2, <1>3

(* User code that calls the scheduler, seen without the heap. *)
LEMMA CallsAreCalls ==
    ASSUME Inv,
           \/ \E ms \in Delay : CallLater(ms)
           \/ \E s \in 1 .. MaxTimers : Cancel(s)
           \/ Peek
           \/ \E t \in Until : BeginRunUntil(t) \/ BeginRunUntilIdle(t)
           \/ BeginStep
    PROVE  [Timers!Next]_(Timers!vars)
<1>1. Timers!UserHasControl <=> InUserCode
  BY DEF Timers!UserHasControl, Timers!Innermost, InUserCode, Top
<1>2. ASSUME NEW ms \in Delay, CallLater(ms) PROVE Timers!Set(ms)
  <2>1. PICK n : n = [when |-> now + ms, seq |-> seq + 1]
    OBVIOUS
  <2>2. /\ heap' = heap \union {n} /\ live' = live \union {seq + 1} /\ n.seq = seq + 1
        /\ \A e \in heap : e.seq # seq + 1
    BY <1>2, <2>1, HeapHoldsTimers DEF CallLater
  <2>3. {e \in heap : e.seq \in live}' = {e \in heap : e.seq \in live} \union {n}
    BY <2>2
  <2> QED
    BY <1>1, <1>2, <2>1, <2>3 DEF CallLater, Timers!Set
<1>3. ASSUME NEW s \in 1 .. MaxTimers, Cancel(s) PROVE Timers!Cancel \/ UNCHANGED Timers!vars
  <2>1. CASE s \notin live
    BY <1>3, <2>1 DEF Cancel, Timers!vars
  <2>2. CASE s \in live
    <3>1. PICK e \in heap : e.seq = s
      BY <2>2, HeapHoldsTimers
    <3>2. e \in {f \in heap : f.seq \in live}
      BY <2>2, <3>1
    <3>3. {f \in heap : f.seq \in live}' = {f \in {g \in heap : g.seq \in live} : f.seq # e.seq}
      BY <1>3, <2>2, <3>1 DEF Cancel
    <3>4. trace' = Append(trace, [what |-> "cancelled", when |-> now', seq |-> e.seq])
      BY <1>3, <2>2, <3>1 DEF Cancel
    <3> QED
      BY <1>1, <1>3, <3>2, <3>3, <3>4 DEF Cancel, Timers!Cancel, Timers!Without, Timers!Ends
  <2> QED
    BY <2>1, <2>2
<1>4. ASSUME Peek PROVE UNCHANGED Timers!vars
  <2>1. {e \in heap : e.seq \in live}' = {e \in heap : e.seq \in live}
    BY <1>4 DEF Peek
  <2> QED
    BY <1>4, <2>1 DEF Peek, Timers!vars
<1>5. ASSUME NEW r, Begin(r),
             \/ \E t \in Until : r = [call |-> "run_until", until |-> t, running |-> FALSE]
             \/ \E t \in Until : r = [call |-> "run_until_idle", until |-> t, running |-> FALSE]
             \/ r = [call |-> "step", running |-> FALSE]
      PROVE  Timers!Run
  BY <1>1, <1>5 DEF Begin, Timers!Run
<1> QED
  BY <1>2, <1>3, <1>4, <1>5 DEF Timers!Next, BeginRunUntil, BeginRunUntilIdle, BeginStep

(* A turn of a loop fires the earliest timer, which is due, or passes over a cancelled event. *)
LEMMA TurnsFireTimers ==
    ASSUME Inv, RunNext PROVE Timers!Fire \/ UNCHANGED Timers!vars
<1>1. PICK e \in heap : /\ IsFirst(e) /\ Takes(e) /\ heap' = heap \ {e}
                        /\ IF e.seq \in live THEN Fire(e) ELSE UNCHANGED <<now, live, calls, trace>>
  BY DEF RunNext
<1>2. CASE e.seq \notin live
  <2>1. {f \in heap : f.seq \in live}' = {f \in heap : f.seq \in live}
    BY <1>1, <1>2
  <2> QED
    BY <1>1, <1>2, <2>1 DEF RunNext, Timers!vars
<1>3. CASE e.seq \in live
  <2>1. {f \in heap : f.seq \in live}' = {f \in {g \in heap : g.seq \in live} : f.seq # e.seq}
    BY <1>1, <1>3 DEF Fire
  <2>2. \A f \in heap : e.when < f.when \/ (e.when = f.when /\ e.seq =< f.seq)
    BY <1>1, HeapHoldsTimers DEF IsFirst, Before
  <2>3. e \in {f \in heap : f.seq \in live} /\ Timers!Due(e) /\ Timers!Earliest(e)
    BY <1>1, <1>3, <2>2 DEF Takes, Timers!Due, Timers!Earliest, Timers!Innermost, Top
  <2>4. ~Timers!UserHasControl
    BY DEF RunNext, InLoop, Timers!UserHasControl, Timers!Innermost, Top
  <2>5. trace' = Append(trace, [what |-> "fired", when |-> now', seq |-> e.seq])
    BY <1>1, <1>3 DEF Fire
  <2> QED
    BY <1>1, <1>3, <2>1, <2>3, <2>4, <2>5
    DEF RunNext, Fire, Timers!Fire, Timers!Without, Timers!Ends
<1> QED
  BY <1>2, <1>3

(* Callbacks and runs end as promised, the clock included. *)
LEMMA EndsAreEnds ==
    ASSUME Inv, CallbackReturns \/ CallbackRaises \/ Return
    PROVE  Timers!CallbackEnds \/ Timers!RunEnds
<1>1. Timers!Innermost = Top /\ Timers!Outer = Below
  BY DEF Timers!Innermost, Timers!Outer, Top, Below
<1>2. {e \in heap : e.seq \in live}' = {e \in heap : e.seq \in live}
  BY DEF CallbackReturns, CallbackRaises, Return
<1>3. CASE CallbackReturns \/ CallbackRaises
  <2>1. UNCHANGED <<now, seq, trace>> /\ calls # <<>> /\ Top.running
    BY <1>3 DEF CallbackReturns, CallbackRaises
  <2>2. \/ Top.call = "step" /\ calls' = Below /\ steps' = steps + 1
        \/ Top.call # "step" /\ calls' = [calls EXCEPT ![Len(calls)].running = FALSE]
                             /\ UNCHANGED steps
        \/ calls' = Below /\ UNCHANGED steps
    BY <1>3 DEF CallbackReturns, CallbackRaises
  <2> QED
    BY <1>1, <1>2, <2>1, <2>2 DEF Timers!CallbackEnds
<1>4. CASE Return
  <2>1. PICK r : r = Top
    OBVIOUS
  <2>2. r \in Run /\ now \in Nat /\ \A e \in heap : e.when \in Nat
    BY <1>4, <2>1, Stack DEF Return, InLoop, Inv, TypeOK, Top
  <2>3. r.call \in {"run_until", "run_until_idle", "step"}
        /\ (r.call # "step" => r.until \in Int)
    BY <2>2, UntilsAreTimes DEF Run
  <2>4. \A e \in heap : ~(r.call = "step" \/ e.when =< r.until)
    BY <1>4, <2>1 DEF Return, Takes
  <2>5. live = {} <=> {e \in heap : e.seq \in live} = {}
    BY HeapHoldsTimers
  <2>6. now' = IF \/ r.call = "step"
                  \/ r.call = "run_until_idle" /\ {e \in heap : e.seq \in live} = {}
                  \/ now > r.until
               THEN now ELSE r.until
    <3>1. now' = Later(now, IF r.call = "run_until" \/ (r.call = "run_until_idle" /\ live # {})
                            THEN r.until ELSE now)
      BY <1>4, <2>1 DEF Return, ReturnTo
    <3>2. CASE r.call = "run_until" \/ (r.call = "run_until_idle" /\ live # {})
      <4>1. now' = Later(now, r.until)
        BY <3>1, <3>2
      <4> QED
        BY <2>2, <2>3, <2>5, <3>2, <4>1 DEF Later
    <3>3. CASE ~(r.call = "run_until" \/ (r.call = "run_until_idle" /\ live # {}))
      <4>1. now' = now
        BY <3>1, <3>3 DEF Later
      <4> QED
        BY <2>3, <2>5, <3>3, <4>1
    <3> QED
      BY <3>2, <3>3
  <2>7. ~Timers!UserHasControl
    BY <1>4 DEF Return, InLoop, Timers!UserHasControl, Timers!Innermost, Top
  <2>8. \A e \in {f \in heap : f.seq \in live} : ~Timers!Due(e)
    BY <1>1, <2>1, <2>4 DEF Timers!Due
  <2>9. calls' = Below /\ UNCHANGED <<seq, steps, trace>>
    BY <1>4 DEF Return
  <2> QED
    BY <1>1, <1>2, <2>1, <2>6, <2>7, <2>8, <2>9 DEF Timers!RunEnds
<1> QED
  BY <1>3, <1>4

(* SimScheduler, with its heap of live and cancelled events, runs exactly the timers *)
(* it should and leaves the clock exactly where it should.                           *)
THEOREM Refinement == Spec => ImplementsTimers
<1>1. Init => Timers!Init
  BY DEF Init, Timers!Init
<1>2. Inv /\ [Next]_vars => [Timers!Next]_(Timers!vars)
  <2>1. ASSUME UNCHANGED vars PROVE UNCHANGED Timers!vars
    BY <2>1 DEF vars, Timers!vars
  <2> QED
    BY <2>1, CallsAreCalls, TurnsFireTimers, EndsAreEnds DEF Next, Timers!Next
<1> QED
  BY <1>1, <1>2, Invariance, PTL DEF Spec, ImplementsTimers, Timers!Spec
=============================================================================
