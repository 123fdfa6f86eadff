---------------------------- MODULE TimerService ----------------------------
(***************************************************************************)
(* What SimScheduler promises to those who set timers and run it, with     *)
(* no heap: the timers still to run are a set, a cancelled timer is gone   *)
(* at once, and a run fires the earliest one for as long as that is due    *)
(* by the time it was asked for.                                           *)
(*                                                                         *)
(* The promise is the one of the docstrings and of the tests: run_until    *)
(* runs "every callback due at or before t_ms", and no other, "then sets   *)
(* the clock to t_ms"; run_until_idle leaves the clock at the last         *)
(* callback when nothing remains, and at its bound when something does     *)
(* (test_scheduler.py: now_ms() == 10 and now_ms() == 1000); step runs     *)
(* exactly one.  No run moves the clock back.                              *)
(***************************************************************************)
EXTENDS Integers, Sequences

CONSTANTS
    Delay,          \* the delays timers are set with
    Until,          \* the times runs are asked for
    MaxTimers,      \* bound: how many timers are ever set
    MaxDepth        \* bound: how deep runs are nested

VARIABLES
    clock,
    pending,        \* the timers neither run nor cancelled
    made,           \* how many timers were ever set
    stepped,        \* how many calls of step ran a timer
    runs,           \* the runs in progress, the innermost last
    outcomes        \* what became of timers, in the order it did

vars == <<clock, pending, made, stepped, runs, outcomes>>

Init ==
    /\ clock = 0 /\ pending = {} /\ made = 0 /\ stepped = 0
    /\ runs = <<>> /\ outcomes = <<>>
-----------------------------------------------------------------------------
Innermost == runs[Len(runs)]
Outer == SubSeq(runs, 1, Len(runs) - 1)

(* The program, or the callback of the innermost run, has control. *)
UserHasControl == runs # <<>> => Innermost.running

Without(s) == {e \in pending : e.seq # s}
Ends(what, s) == outcomes' = Append(outcomes, [what |-> what, when |-> clock', seq |-> s])

(* A timer is due in a run by the time the run was asked for; a step has no such time. *)
Due(e) == Innermost.call = "step" \/ e.when =< Innermost.until

Earliest(e) ==
    \A f \in pending : e.when < f.when \/ (e.when = f.when /\ e.seq =< f.seq)
-----------------------------------------------------------------------------
Set(ms) ==
    /\ UserHasControl /\ made < MaxTimers
    /\ made' = made + 1
    /\ pending' = pending \union {[when |-> clock + ms, seq |-> made + 1]}
    /\ UNCHANGED <<clock, stepped, runs, outcomes>>

(* Cancelling a timer that is not pending any more does nothing, and is a stutter. *)
Cancel ==
    /\ UserHasControl
    /\ \E e \in pending : pending' = Without(e.seq) /\ Ends("cancelled", e.seq)
    /\ UNCHANGED <<clock, made, stepped, runs>>

Run ==
    /\ UserHasControl /\ Len(runs) < MaxDepth
    /\ \/ \E call \in {"run_until", "run_until_idle"}, t \in Until :
              runs' = Append(runs, [call |-> call, until |-> t, running |-> FALSE])
       \/ runs' = Append(runs, [call |-> "step", running |-> FALSE])
    /\ UNCHANGED <<clock, pending, made, stepped, outcomes>>

Fire ==
    /\ ~UserHasControl
    /\ \E e \in pending :
        /\ Due(e) /\ Earliest(e)
        /\ clock' = e.when
        /\ pending' = Without(e.seq) /\ Ends("fired", e.seq)
    /\ runs' = [runs EXCEPT ![Len(runs)].running = TRUE]
    /\ UNCHANGED <<made, stepped>>

(* A callback ends: a step ends with it, and every run does whose callback raises. *)
CallbackEnds ==
    /\ runs # <<>> /\ Innermost.running
    /\ \/ Innermost.call = "step" /\ runs' = Outer /\ stepped' = stepped + 1
       \/ Innermost.call # "step" /\ runs' = [runs EXCEPT ![Len(runs)].running = FALSE]
                                  /\ UNCHANGED stepped
       \/ runs' = Outer /\ UNCHANGED stepped
    /\ UNCHANGED <<clock, pending, made, outcomes>>

(* A run ends when nothing pending is due in it, with the clock at its time, unless *)
(* the clock is past it, or it is to stay at the last timer.                        *)
RunEnds ==
    /\ ~UserHasControl
    /\ \A e \in pending : ~Due(e)
    /\ clock' = IF \/ Innermost.call = "step"
                   \/ Innermost.call = "run_until_idle" /\ pending = {}
                   \/ clock > Innermost.until
                THEN clock ELSE Innermost.until
    /\ runs' = Outer
    /\ UNCHANGED <<pending, made, stepped, outcomes>>

Next == (\E ms \in Delay : Set(ms)) \/ Cancel \/ Run \/ Fire \/ CallbackEnds \/ RunEnds

Spec == Init /\ [][Next]_vars
=============================================================================
