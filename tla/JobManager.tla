----------------------------- MODULE JobManager -----------------------------
(***************************************************************************)
(* NodeJobManager (nodes/node_job_manager.py): jobs are submitted with a   *)
(* compare-and-set, every node that learns of one claims its share of the  *)
(* tasks with further ones, and runs what it has claimed.                  *)
(*                                                                         *)
(* The node extends NodeCAS, which is taken here as what ReplicatedCAS     *)
(* shows of it: what nodes publish gets into one order, which respects the *)
(* order in which each node published, and each node executes its next     *)
(* operation at its own time.  The position of an operation in the order   *)
(* stands for its uid.  Jobs and task states are values that JSON leaves   *)
(* as they are, and clients leave the keys of jobs and tasks alone.        *)
(***************************************************************************)
EXTENDS SequencesExt

CONSTANTS
    Node,           \* the members, as numbers in the order of their ids
    Job,            \* job ids
    Definition,     \* job actions with their data
    Tasks,          \* Tasks[d]: the number of inputs in d
    Failing,        \* the <<d, i>> for which d's action raises on input i
    Calls,          \* the operations clients may ask for, each once: submissions, queries and,
                    \* by calling claim_task themselves, claims
    MaxCalls        \* how many of them clients ask for, at most

ASSUME NodesAreOrdered == Node \subseteq Nat /\ IsFiniteSet(Node)
ASSUME TasksAreCounted == Tasks \in [Definition -> Nat]

Index == UNION {0 .. Tasks[d] - 1 : d \in Definition}
Task == Job \X Index

ASSUME InputsExist == Failing \subseteq Definition \X Index

VARIABLES
    outbox,         \* outbox[n]: what n has published and is not in the order yet
    order,          \* the total order of the operations
    delivered,      \* delivered[n]: how many of them n has executed
    jobs,           \* jobs[n][j]: the set of the definition n's store has for j, if any
    tasks,          \* tasks[n][t]: n's store for task t: its status and worker
    started,        \* started[n]: started_jobs
    starting,       \* starting[n]: jobs for which a _start_job callback is armed
    executed,       \* executed[n]: executed_tasks
    executing,      \* executing[n]: tasks for which an _execute_task callback is armed
    responses,      \* the responses prepared so far, each with its operation's position
    requests,       \* the calls clients have made
    runs,           \* runs[t]: how often an action was applied to t's input, by any node
    failed          \* the tasks of which an execution has raised

store == <<jobs, tasks>>
callbacks == <<started, starting, executed, executing>>
history == <<runs, failed>>
vars == <<outbox, order, delivered, store, callbacks, responses, requests, history>>

Unclaimed == [status |-> "none"]
Claimed(w) == [status |-> "claimed", worker |-> w]
Complete(w) == [status |-> "complete", worker |-> w]
TaskState == {Unclaimed} \union {Claimed(w) : w \in Node} \union {Complete(w) : w \in Node}

Submission(j, d, n) == [op |-> "submit", job |-> j, def |-> d, sender |-> n]
Query(j, n) == [op |-> "query", job |-> j, sender |-> n]     \* of status or results
Claim(t, n) == [op |-> "claim", task |-> t, sender |-> n]
Completion(t, n) == [op |-> "complete", task |-> t, sender |-> n]

Operation ==
    {Submission(j, d, n) : j \in Job, d \in Definition, n \in Node}
    \union {Query(j, n) : j \in Job, n \in Node}
    \union {Claim(t, n) : t \in Task, n \in Node}
    \union {Completion(t, n) : t \in Task, n \in Node}

ASSUME CallsAreRequests == Calls \subseteq {o \in Operation : o.op # "complete"}

TypeOK ==
    /\ outbox \in [Node -> Seq(Operation)]
    /\ order \in Seq(Operation)
    /\ delivered \in [Node -> 0 .. Len(order)]
    /\ jobs \in [Node -> [Job -> SUBSET Definition]]
    /\ tasks \in [Node -> [Task -> TaskState]]
    /\ {started, starting} \subseteq [Node -> SUBSET Job]
    /\ {executed, executing} \subseteq [Node -> SUBSET Task]
    /\ \A n \in Node : starting[n] \subseteq started[n] /\ executing[n] \subseteq executed[n]
    /\ \A r \in responses : r.at \in DOMAIN order
    /\ requests \subseteq Calls
    /\ runs \in [Task -> Nat]
    /\ failed \subseteq Task

Init ==
    /\ outbox = [n \in Node |-> <<>>]
    /\ order = <<>>
    /\ delivered = [n \in Node |-> 0]
    /\ jobs = [n \in Node |-> [j \in Job |-> {}]]
    /\ tasks = [n \in Node |-> [t \in Task |-> Unclaimed]]
    /\ started = [n \in Node |-> {}]
    /\ starting = [n \in Node |-> {}]
    /\ executed = [n \in Node |-> {}]
    /\ executing = [n \in Node |-> {}]
    /\ responses = {}
    /\ requests = {}
    /\ runs = [t \in Task |-> 0]
    /\ failed = {}
-----------------------------------------------------------------------------
(* _publish, of the operations in s. *)
Publish(n, s) == outbox' = [outbox EXCEPT ![n] = @ \o s]

(* submit_job, query_job_status, get_job_results and claim_task, called by a client. *)
Request(n) ==
    /\ Cardinality(requests) < MaxCalls
    /\ \E call \in Calls \ requests :
           /\ call.sender = n
           /\ requests' = requests \union {call}
           /\ Publish(n, <<call>>)
    /\ UNCHANGED <<order, delivered, store, callbacks, responses, history>>

(* NodeCAS gets the next operation of n into the order. *)
Decide(n) ==
    /\ outbox[n] # <<>>
    /\ order' = Append(order, Head(outbox[n]))
    /\ outbox' = [outbox EXCEPT ![n] = Tail(@)]
    /\ UNCHANGED <<delivered, store, callbacks, responses, requests, history>>
-----------------------------------------------------------------------------
(* deliver: n executes its next operation, and then what belongs to its kind. *)
Delivers(n, op) ==
    /\ delivered[n] < Len(order)
    /\ order[delivered[n] + 1].op = op
    /\ delivered' = [delivered EXCEPT ![n] = @ + 1]
    /\ UNCHANGED <<outbox, order, requests, history>>

Current(n) == order[delivered[n] + 1]

(* Only the node a client asked prepares the response, r. *)
Respond(n, r) == responses' = responses \union (IF Current(n).sender = n THEN {r} ELSE {})

(* client_cas on the key of a job, from None to definition d. *)
AfterLastSubmission(old, d) == {d}
AfterSubmission(old, d) == IF old = {} THEN {d} ELSE old

DeliverSubmission(n) ==
    LET j == Current(n).job
        d == Current(n).def
        accepted == AfterSubmission(jobs[n][j], d) = {d}
        news == IF accepted THEN {j} \ started[n] ELSE {}
    IN  /\ Delivers(n, "submit")
        /\ jobs' = [jobs EXCEPT ![n][j] = AfterSubmission(@, d)]
        /\ started' = [started EXCEPT ![n] = @ \union news]
        /\ starting' = [starting EXCEPT ![n] = @ \union news]
        /\ Respond(n, [at |-> delivered[n] + 1, submitted |-> accepted])
        /\ UNCHANGED <<tasks, executed, executing>>

(* _job_complete: every task of j is complete in n's store. *)
ClaimedOrComplete(n, j, d) == \A i \in 0 .. Tasks[d] - 1 : tasks[n][<<j, i>>] # Unclaimed
NothingOpen(n, j, d) == \A i \in 0 .. Tasks[d] - 1 : tasks[n][<<j, i>>].status # "claimed"
JobComplete(n, j, d) == \A i \in 0 .. Tasks[d] - 1 : tasks[n][<<j, i>>].status = "complete"

(* A status query says whether the job is complete, a results query returns results if   *)
(* it is; their operation is a get, which changes nothing.                               *)
DeliverQuery(n) ==
    LET j == Current(n).job
    IN  /\ Delivers(n, "query")
        /\ Respond(n, [at |-> delivered[n] + 1,
                       found |-> jobs[n][j] # {},
                       complete |-> \E d \in jobs[n][j] : JobComplete(n, j, d)])
        /\ UNCHANGED <<store, callbacks>>

(* client_cas on the key of a task succeeds, for a claim, when nobody has claimed it. *)
IsNotComplete(old) == old.status # "complete"
IsFree(old) == old = Unclaimed

DeliverClaim(n) ==
    LET t == Current(n).task
        w == Current(n).sender
        claimed == IsFree(tasks[n][t])
        mine == IF claimed /\ w = n THEN {t} \ executed[n] ELSE {}
    IN  /\ Delivers(n, "claim")
        /\ tasks' = [tasks EXCEPT ![n][t] = IF claimed THEN Claimed(w) ELSE @]
        /\ executed' = [executed EXCEPT ![n] = @ \union mine]
        /\ executing' = [executing EXCEPT ![n] = @ \union mine]
        /\ Respond(n, [at |-> delivered[n] + 1, claimed |-> claimed])
        /\ UNCHANGED <<jobs, started, starting>>

(* client_cas from claimed by w to complete: nothing but the store. *)
DeliverCompletion(n) ==
    LET t == Current(n).task
        w == Current(n).sender
    IN  /\ Delivers(n, "complete")
        /\ tasks' = [tasks EXCEPT ![n][t] = IF @ = Claimed(w) THEN Complete(w) ELSE @]
        /\ UNCHANGED <<jobs, callbacks, responses>>
-----------------------------------------------------------------------------
(* members[index % len(members)] *)
Owner(i) ==
    CHOOSE n \in Node : Cardinality({p \in Node : p < n}) = i % Cardinality(Node)

(* The indices in I from the smallest to the largest. *)
Ascending(I) ==
    {s \in [1 .. Cardinality(I) -> I] :
        Range(s) = I /\ \A k, l \in DOMAIN s : k < l => s[k] < s[l]}

(* n's share of the tasks of d. *)
OwnedFromOne(n, d) == {i \in 1 .. Tasks[d] : Owner(i) = n}
OwnedButLast(n, d) == {i \in 0 .. Tasks[d] - 2 : Owner(i) = n}
Owned(n, d) == {i \in 0 .. Tasks[d] - 1 : Owner(i) = n}

(* _start_job: claim n's share of the tasks. *)
StartJob(n) ==
    /\ \E j \in starting[n] : \E d \in jobs[n][j] : \E s \in Ascending(Owned(n, d)) :
           /\ Publish(n, [k \in DOMAIN s |-> Claim(<<j, s[k]>>, n)])
           /\ starting' = [starting EXCEPT ![n] = @ \ {j}]
    /\ UNCHANGED <<order, delivered, store, started, executed, executing, responses, requests,
                   history>>

(* _execute_task, of a task n has claimed: apply the job's action to the input, unless    *)
(* there is no such job or input, and publish the result, unless the action raises.       *)
ExecuteTask(n) ==
    \E t \in executing[n] :
        LET inputs == {d \in jobs[n][t[1]] : t[2] < Tasks[d]}
            runnable == inputs # {} /\ tasks[n][t] = Claimed(n)
            raises == inputs = {} \/ \E d \in inputs : <<d, t[2]>> \in Failing
        IN  /\ executing' = [executing EXCEPT ![n] = @ \ {t}]
            /\ runs' = IF runnable THEN [runs EXCEPT ![t] = @ + 1] ELSE runs
            /\ failed' = IF raises THEN failed \union {t} ELSE failed
            /\ Publish(n, IF runnable /\ ~raises THEN <<Completion(t, n)>> ELSE <<>>)
            /\ UNCHANGED <<order, delivered, store, started, starting, executed, responses,
                           requests>>

Next ==
    \E n \in Node :
        \/ Request(n)
        \/ Decide(n)
        \/ DeliverSubmission(n)
        \/ DeliverQuery(n)
        \/ DeliverClaim(n)
        \/ DeliverCompletion(n)
        \/ StartJob(n)
        \/ ExecuteTask(n)

Spec == Init /\ [][Next]_vars
-----------------------------------------------------------------------------
(* No action is applied twice to one input, by one node or by two, although nodes, and    *)
(* clients of several nodes, claim the same task at the same time, and each node only     *)
(* learns later whether its claim was the first (claim_task, _execute_task).              *)
RunAtMostOnce == \A t \in Task : runs[t] =< 1

(* Of the submissions under one id, concurrent or repeated, those with one definition are *)
(* accepted and those with another are refused, whichever node was asked (submit_job).    *)
OneDefinitionAccepted ==
    \A p, q \in responses :
        /\ order[p.at].op = "submit" /\ order[q.at].op = "submit"
        /\ order[p.at].job = order[q.at].job
        /\ p.submitted
        => (q.submitted <=> order[p.at].def = order[q.at].def)

Answered(j) == {r \in responses : order[r.at].op = "query" /\ order[r.at].job = j}

(* A client that is told a job is complete, or given its results, is told so of a job     *)
(* that was accepted with every input processed once and without failure (_job_complete,  *)
(* which reads one node's store).                                                         *)
CompleteMeansRun ==
    \A j \in Job : \A r \in Answered(j) :
        r.complete => \E d \in Definition :
            /\ \E n \in Node : d \in jobs[n][j]
            /\ \A i \in 0 .. Tasks[d] - 1 : runs[<<j, i>>] = 1 /\ <<j, i>> \notin failed

(* A job that was reported complete is complete in every answer that is later in the      *)
(* order, whichever nodes were asked: claims that come late do not reopen a task.         *)
CompleteStaysComplete ==
    \A j \in Job : \A p, q \in Answered(j) : p.at < q.at /\ p.complete => q.complete

(* Nothing is left to do: all operations are executed and no callback is armed. *)
Quiet ==
    \A n \in Node : /\ outbox[n] = <<>>
                    /\ delivered[n] = Len(order)
                    /\ starting[n] = {}
                    /\ executing[n] = {}

(* No input of an accepted job is left behind: when the cluster goes quiet, each has been *)
(* processed and every node knows so, unless its execution raised: nothing will ever try  *)
(* that one again, and the job stays in progress (_start_job, _execute_task).             *)
QuietMeansProcessed ==
    Quiet => \A n \in Node, j \in Job : \A d \in jobs[n][j] : \A i \in 0 .. Tasks[d] - 1 :
        <<j, i>> \in failed \/ tasks[n][<<j, i>>].status = "complete"
-----------------------------------------------------------------------------
(* Why: the order alone decides what the nodes' stores, callbacks and answers hold. *)

Submits(p, j) == order[p].op = "submit" /\ order[p].job = j
Queries(p, j) == order[p].op = "query" /\ order[p].job = j
Claims(p, t) == order[p].op = "claim" /\ order[p].task = t
Completes(p, t) == order[p].op = "complete" /\ order[p].task = t

(* Position p of the order defines job j; position p wins task t for its sender. *)
Defines(p, j) == Submits(p, j) /\ \A q \in 1 .. p - 1 : ~Submits(q, j)
Wins(p, t) == Claims(p, t) /\ \A q \in 1 .. p - 1 : ~Claims(q, t)

(* What the first k operations come to: j has definition d, t is w's, t is complete, and *)
(* all tasks that d has are.                                                             *)
DefinedAs(j, d, k) == \E p \in 1 .. k : Defines(p, j) /\ order[p].def = d
WonBy(t, w, k) == \E p \in 1 .. k : Wins(p, t) /\ order[p].sender = w
Completed(t, k) == \E q \in 1 .. k : Completes(q, t)
Finished(j, d, k) == \A i \in 0 .. Tasks[d] - 1 : Completed(<<j, i>>, k)

(* Whether o was published: it may wait in its sender's outbox. *)
IsPublished(o) == o \in Range(order) \/ o \in Range(outbox[o.sender])

OwnOutbox == \A n \in Node : \A o \in Range(outbox[n]) : o.sender = n

(* A store has the first definition of each job ... *)
JobsFollowOrder ==
    \A n \in Node, j \in Job, d \in Definition :
        d \in jobs[n][j] <=> DefinedAs(j, d, delivered[n])

(* ... and each task with the worker whose claim was the first, until it is completed. *)
TasksFollowOrder ==
    \A n \in Node, t \in Task :
        \/ /\ tasks[n][t] = Unclaimed
           /\ ~Completed(t, delivered[n])
           /\ \A w \in Node : ~WonBy(t, w, delivered[n])
        \/ \E w \in Node :
               /\ WonBy(t, w, delivered[n])
               /\ tasks[n][t] = IF Completed(t, delivered[n]) THEN Complete(w) ELSE Claimed(w)

(* Who completes a task has won it, and has run its action once, without failure. *)
CompletionsAreTrue ==
    /\ \A t \in Task, n \in Node : IsPublished(Completion(t, n)) =>
           /\ runs[t] = 1 /\ t \notin failed
           /\ t \in executed[n] \ executing[n]
    /\ \A t \in Task, w \in Node, q \in DOMAIN order :
           Completes(q, t) /\ order[q].sender = w => WonBy(t, w, q - 1)

(* The winner of a task runs it, once, and nobody else does; then it has failed or the    *)
(* winner has completed it.                                                               *)
WinnersExecute ==
    /\ \A n \in Node, t \in Task :
           /\ t \in executed[n] <=> WonBy(t, n, delivered[n])
           /\ t \in executed[n] \ executing[n] =>
                  t \in failed \/ IsPublished(Completion(t, n))
    /\ \A t \in Task :
           /\ runs[t] \in {0, 1}
           /\ runs[t] = 1 \/ t \in failed => \E n \in Node : t \in executed[n] \ executing[n]

(* A node that knows a job has claimed its share of it, or is about to. *)
SharesAreClaimed ==
    \A n \in Node, j \in Job :
        /\ j \in started[n] <=> jobs[n][j] # {}
        /\ j \in started[n] \ starting[n] =>
               \A d \in jobs[n][j] : \A i \in Owned(n, d) : IsPublished(Claim(<<j, i>>, n))

(* An answer is what the order says at its position. *)
FollowsOrder(r) ==
    /\ r.at \in 1 .. delivered[order[r.at].sender]
    /\ \A j \in Job :
           /\ Submits(r.at, j) => (r.submitted <=> DefinedAs(j, order[r.at].def, r.at))
           /\ Queries(r.at, j) =>
                  (r.complete <=> \E d \in Definition :
                                     DefinedAs(j, d, r.at) /\ Finished(j, d, r.at))

AnswersFollowOrder == \A r \in responses : FollowsOrder(r)

Inv ==
    /\ TypeOK
    /\ OwnOutbox
    /\ JobsFollowOrder
    /\ TasksFollowOrder
    /\ CompletionsAreTrue
    /\ WinnersExecute
    /\ SharesAreClaimed
    /\ AnswersFollowOrder
=============================================================================
