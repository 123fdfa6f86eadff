---------------------------- MODULE SimScheduler ----------------------------
(***************************************************************************)
(* SimScheduler (scheduler.py): a heap of callbacks and a clock that moves *)
(* only while the scheduler is asked to run.  Everything else in the       *)
(* package rests on it: message deliveries and retry timers are its events.*)
(*                                                                         *)
(* The program and the callbacks call the scheduler between them: a        *)
(* callback may add timers, cancel them, peek, run the scheduler again     *)
(* from inside, and raise.  So a run is a stack of calls, and its steps    *)
(* are the turns of their loops.  Every timer is taken to belong to a      *)
(* node: the trace says which were fired and which were cancelled.         *)
(*                                                                         *)
(* An operator standing right before another with the same parameters      *)
(* (PeekAndTake before Peek, and so on) is a plausible slip in it.  Next   *)
(* uses none; put in the other's place, each makes one of the properties   *)
(* fail (PROJECT.json, "mutants").                                         *)
(***************************************************************************)
EXTENDS Integers, Sequences

CONSTANTS
    Delay,          \* the delays call_later is asked for
    Until,          \* the times run_until and run_until_idle are asked for
    MaxTimers,      \* bound: how many timers are ever set
    MaxDepth        \* bound: how deep runs are nested

ASSUME DelaysAreNatural == Delay \subseteq Nat    \* call_later rejects a negative one
ASSUME UntilsAreTimes == Until \subseteq Int
ASSUME BoundsAreNatural == MaxTimers \in Nat /\ MaxDepth \in Nat

VARIABLES
    now,            \* the clock
    heap,           \* the events in the heap, cancelled ones included
    live,           \* the numbers of the events neither run nor cancelled
    seq,            \* the number of the last event created
    steps,          \* how many calls of step() ran an event and returned
    calls,          \* the runs in progress, the innermost last
    trace           \* the timer entries of the trace

vars == <<now, heap, live, seq, steps, calls, trace>>

Run == [call : {"run_until", "run_until_idle"}, until : Until, running : BOOLEAN]
            \union [call : {"step"}, running : BOOLEAN]
Entry == [what : {"fired", "cancelled"}, when : Nat, seq : 1 .. MaxTimers]

TypeOK ==
    /\ now \in Nat
    /\ seq \in 0 .. MaxTimers
    /\ heap \in SUBSET [when : Nat, seq : 1 .. seq]
    /\ live \in SUBSET (1 .. seq)
    /\ steps \in Nat
    /\ calls \in Seq(Run)
    /\ trace \in Seq(Entry)

Init ==
    /\ now = 0
    /\ heap = {}
    /\ live = {}
    /\ seq = 0
    /\ steps = 0
    /\ calls = <<>>
    /\ trace = <<>>
-----------------------------------------------------------------------------
(* The order of the heap: by due time, and first in first out among equals. *)
LastInFirstOut(e, f) == e.when < f.when \/ (e.when = f.when /\ e.seq > f.seq)
OldestFirst(e, f) == e.seq < f.seq
Before(e, f) == e.when < f.when \/ (e.when = f.when /\ e.seq < f.seq)

IsFirst(e) == e \in heap /\ \A f \in heap \ {e} : Before(e, f)

Top == calls[Len(calls)]
Below == SubSeq(calls, 1, Len(calls) - 1)

(* The program, or the callback of the innermost run, is executing. *)
InUserCode == calls # <<>> => Top.running

(* The innermost run is at the head of its loop. *)
InLoop == calls # <<>> /\ ~Top.running

Later(a, b) == IF a > b THEN a ELSE b
-----------------------------------------------------------------------------
(* What user code may ask of the scheduler. *)

(* call_later. *)
CallLater(ms) ==
    /\ InUserCode /\ seq < MaxTimers
    /\ seq' = seq + 1
    /\ heap' = heap \union {[when |-> now + ms, seq |-> seq + 1]}
    /\ live' = live \union {seq + 1}
    /\ UNCHANGED <<now, steps, calls, trace>>

(* The cancel closure of event s, which may be called again, or after s has run. *)
CancelUnchecked(s) ==
    /\ InUserCode /\ s =< seq
    /\ live' = live \ {s}
    /\ trace' = Append(trace, [what |-> "cancelled", when |-> now, seq |-> s])
    /\ UNCHANGED <<now, heap, seq, steps, calls>>
Cancel(s) ==
    /\ InUserCode /\ s =< seq
    /\ IF s \in live
       THEN /\ live' = live \ {s}
            /\ trace' = Append(trace, [what |-> "cancelled", when |-> now, seq |-> s])
       ELSE UNCHANGED <<live, trace>>
    /\ UNCHANGED <<now, heap, seq, steps, calls>>

(* peek discards the cancelled events in front of the first live one. *)
PeekAndTake ==
    /\ InUserCode
    /\ heap' = {e \in heap : \E f \in heap : f.seq \in live /\ Before(f, e)}
    /\ UNCHANGED <<now, live, seq, steps, calls, trace>>
Peek ==
    /\ InUserCode
    /\ heap' = {e \in heap : \E f \in heap : f.seq \in live /\ (f = e \/ Before(f, e))}
    /\ UNCHANGED <<now, live, seq, steps, calls, trace>>

(* run_until, run_until_idle and step begin. *)
Begin(run) ==
    /\ InUserCode /\ Len(calls) < MaxDepth
    /\ calls' = Append(calls, run)
    /\ UNCHANGED <<now, heap, live, seq, steps, trace>>

BeginRunUntil(t) == Begin([call |-> "run_until", until |-> t, running |-> FALSE])
BeginRunUntilIdle(t) == Begin([call |-> "run_until_idle", until |-> t, running |-> FALSE])
BeginStep == Begin([call |-> "step", running |-> FALSE])
-----------------------------------------------------------------------------
(* What the loops do. *)

(* The loop of the innermost run takes the event e. *)
Takes(e) == Top.call # "step" => e.when =< Top.until

(* The callback of the live event e begins, at its due time. *)
Fire(e) ==
    /\ live' = live \ {e.seq}
    /\ now' = e.when
    /\ trace' = Append(trace, [what |-> "fired", when |-> e.when, seq |-> e.seq])
    /\ calls' = [calls EXCEPT ![Len(calls)].running = TRUE]

(* One turn: the first event leaves the heap; a live one moves the clock and its *)
(* callback begins, a cancelled one is passed over.                              *)
RunNextLive ==
    /\ InLoop
    /\ \E e \in heap : IsFirst(e) /\ Takes(e)
    /\ heap' = {e \in heap : \E f \in heap : f.seq \in live /\ Before(f, e)}
    /\ IF live = {}
       THEN UNCHANGED <<now, live, calls, trace>>
       ELSE \E e \in heap :
                /\ e.seq \in live
                /\ \A f \in heap : f.seq \in live => f = e \/ Before(e, f)
                /\ Fire(e)
    /\ UNCHANGED <<seq, steps>>
RunNext ==
    /\ InLoop
    /\ \E e \in heap :
        /\ IsFirst(e) /\ Takes(e)
        /\ heap' = heap \ {e}
        /\ IF e.seq \in live THEN Fire(e) ELSE UNCHANGED <<now, live, calls, trace>>
    /\ UNCHANGED <<seq, steps>>

(* The callback returns: step() is over, the other runs go on. *)
CallbackReturns ==
    /\ calls # <<>> /\ Top.running
    /\ IF Top.call = "step"
       THEN calls' = Below /\ steps' = steps + 1
       ELSE calls' = [calls EXCEPT ![Len(calls)].running = FALSE] /\ UNCHANGED steps
    /\ UNCHANGED <<now, heap, live, seq, trace>>

(* The callback raises: the innermost run is abandoned as it is, and whoever asked *)
(* for it catches the exception or, if that was a callback, raises in turn.        *)
CallbackRaises ==
    /\ calls # <<>> /\ Top.running
    /\ calls' = Below
    /\ UNCHANGED <<now, heap, live, seq, steps, trace>>

(* The loop ends: nothing is left to take.  run_until moves the clock to its time, *)
(* run_until_idle only when something live is left.                                *)
ReturnTo(t) ==
    IF Top.call = "run_until" \/ (Top.call = "run_until_idle" /\ live # {})
    THEN t ELSE now
Overshoots ==
    /\ InLoop
    /\ ~\E e \in heap : Takes(e)
    /\ now' = ReturnTo(Top.until)
    /\ calls' = Below
    /\ UNCHANGED <<heap, live, seq, steps, trace>>
Return ==
    /\ InLoop
    /\ ~\E e \in heap : Takes(e)
    /\ now' = Later(now, ReturnTo(Top.until))
    /\ calls' = Below
    /\ UNCHANGED <<heap, live, seq, steps, trace>>

Next ==
    \/ \E ms \in Delay : CallLater(ms)
    \/ \E s \in 1 .. MaxTimers : Cancel(s)
    \/ Peek
    \/ \E t \in Until : BeginRunUntil(t)
    \/ \E t \in Until : BeginRunUntilIdle(t)
    \/ BeginStep
    \/ RunNext
    \/ CallbackReturns
    \/ CallbackRaises
    \/ Return

Spec == Init /\ [][Next]_vars
-----------------------------------------------------------------------------
(* Properties. *)

(* Callbacks run in the order of their due times, first in first out among equals, *)
(* each at its due time, although callbacks add timers while others are due and    *)
(* runs are nested in them: "a run given the same inputs always produces the same  *)
(* result".                                                                        *)
RunsInOrder ==
    \A i, j \in 1 .. Len(trace) :
        i < j /\ trace[i].what = "fired" /\ trace[j].what = "fired"
            => Before(trace[i], trace[j])

(* No event that is still to run is overdue, whichever run moved the clock, and one *)
(* that is neither run nor cancelled is in the heap: peek and the abandoned runs     *)
(* lose none.                                                                        *)
NothingOverdueOrLost ==
    \A s \in live : \E e \in heap : e.seq = s /\ e.when >= now

(* Every timer is fired at most once or cancelled at most once, never both, and *)
(* the trace has its outcome as soon as it can no longer run.                   *)
OneOutcome ==
    /\ \A i, j \in 1 .. Len(trace) : trace[i].seq = trace[j].seq => i = j
    /\ {trace[i].seq : i \in 1 .. Len(trace)} = (1 .. seq) \ live

(* The clock never runs back, not even when a run returns whose callback ran further. *)
ClockNeverRunsBack == [][now' >= now]_now

(* The scheduler keeps the promise of TimerService to those who never see its heap, *)
(* in which cancelled events stay until they come to the front: a run fires exactly   *)
(* the timers due by its time, one that a callback adds for that time included, none  *)
(* behind a cancelled one that is not due itself, and leaves the clock where the      *)
(* docstrings and tests say, exactly.                                                 *)
Timers == INSTANCE TimerService
    WITH clock <- now, pending <- {e \in heap : e.seq \in live}, made <- seq,
         stepped <- steps, runs <- calls, outcomes <- trace
ImplementsTimers == Timers!Spec
-----------------------------------------------------------------------------
(* The inductive invariant: why the properties hold. *)

(* No event in the heap, live or cancelled, is overdue. *)
HeapIsAhead == \A e \in heap : e.when >= now

(* An event that is neither run nor cancelled is in the heap. *)
LiveIsInHeap == \A s \in live : \E e \in heap : e.seq = s

(* What has been fired is past, and comes before all that is still in the heap. *)
FiredIsBehind ==
    \A i \in 1 .. Len(trace) :
        trace[i].what = "fired" =>
            trace[i].when =< now /\ \A e \in heap : Before(trace[i], e)

(* The conjunction that every step preserves. *)
Inv ==
    /\ TypeOK
    /\ HeapIsAhead
    /\ LiveIsInHeap
    /\ FiredIsBehind
    /\ RunsInOrder
    /\ OneOutcome
=============================================================================
