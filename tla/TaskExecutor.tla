---------------------------- MODULE TaskExecutor ----------------------------
(***************************************************************************)
(* TaskExecutor.execute (planning/executor.py): one execution of a plan.   *)
(*                                                                         *)
(* The scheduler coroutine and one asyncio task per scheduled node share   *)
(* an event loop.  A coroutine runs without interruption until it awaits   *)
(* something unfinished, so an action is everything one coroutine does     *)
(* between two awaits: the scheduler stops only in asyncio.wait            *)
(* ("waiting") and in the gather of _drain_cancelled ("draining"), a node  *)
(* in the semaphore ("queued"), in wait_for(invoke) ("invoking") and in    *)
(* the backoff sleep ("backoff").                                          *)
(***************************************************************************)
EXTENDS TaskGraph

CONSTANTS
    Plans,          \* the plans execute() may be given
    MaxParallel     \* TaskExecutor._max_parallel

ASSUME PlansAssumption == Plans \subseteq PlanType
ASSUME MaxParallelAssumption == MaxParallel \in Nat \ {0}

NoResult == [status |-> "NONE", attempts |-> 0]

VARIABLES
    plan,       \* the plan being executed (never changes)
    main,       \* where the scheduler coroutine is
    cancel,     \* self._cancel.is_set()
    status,     \* node.status
    result,     \* node.result (status and attempts)
    completed,  \* completed_ids
    inFlight,   \* the nodes of the dict in_flight
    task,       \* where each node's asyncio task is
    outcome,    \* what an ended task returned, or "RAISED"
    attempts,   \* the local variable attempts of _run_node
    permits,    \* the semaphore's counter
    turn,       \* the scheduling turn that created the node's task
    scratch     \* status of the node's result in the scratchpad

vars == <<plan, main, cancel, status, result, completed, inFlight, task,
          outcome, attempts, permits, turn, scratch>>

nodeVars == <<outcome, attempts, permits>>

Init ==
    /\ plan \in Plans
    /\ main = "idle"
    /\ cancel = FALSE
    /\ status = [n \in Nodes |-> "PENDING"]
    /\ result = [n \in Nodes |-> NoResult]
    /\ completed = {}
    /\ inFlight = {}
    /\ task = [n \in Nodes |-> "none"]
    /\ outcome = [n \in Nodes |-> "NONE"]
    /\ attempts = [n \in Nodes |-> 0]
    /\ permits = MaxParallel
    /\ turn = [n \in Nodes |-> 0]
    /\ scratch = [n \in Nodes |-> "NONE"]

-----------------------------------------------------------------------------
(***************************************************************************)
(* The scheduler.  TurnOfLoop is the head of `while True`, entered with    *)
(* the statuses, completed ids, in-flight nodes and scratchpad that the    *)
(* code before it has produced; c is whether the cancel event is set.      *)
(***************************************************************************)
MarkPending(st, s) == [n \in Nodes |-> IF st[n] = "PENDING" THEN s ELSE st[n]]

Schedule(st, comp, flying) ==
    LET ready == ReadyNodes(plan.deps, st, comp) IN
    /\ status' = [n \in Nodes |-> IF n \in ready THEN "READY" ELSE st[n]]
    /\ task' = [n \in Nodes |-> IF n \in ready THEN "queued" ELSE task[n]]
    /\ turn' = [n \in Nodes |-> IF st[n] = "PENDING" THEN turn[n] + 1 ELSE turn[n]]
    /\ inFlight' = flying \cup ready
    /\ main' = "waiting"

\* Fault: the loop ends when nothing is ready, without waiting for what runs.
NothingToRun_IgnoresRunning(st, comp, flying) ==
    ReadyNodes(plan.deps, st, comp) = {}

NothingToRun(st, comp, flying) ==
    flying = {} /\ ReadyNodes(plan.deps, st, comp) = {}

TurnOfLoop(c, st, comp, flying, scr) ==
    \/ /\ ~c /\ ~NothingToRun(st, comp, flying)
       /\ Schedule(st, comp, flying)
       /\ scratch' = scr
    \/ /\ ~c /\ NothingToRun(st, comp, flying)
       /\ status' = MarkPending(st, "SKIPPED")
       /\ main' = "returned"
       /\ inFlight' = flying
       /\ scratch' = scr
       /\ UNCHANGED <<task, turn>>
    \/ /\ c /\ flying # {}
       /\ status' = st
       /\ main' = "draining"
       /\ inFlight' = flying
       /\ scratch' = scr
       /\ UNCHANGED <<task, turn>>
    \/ /\ c /\ flying = {}
       /\ status' = MarkPending(st, "CANCELLED")
       /\ scratch' = [n \in Nodes |-> IF st[n] = "PENDING" THEN "CANCELLED" ELSE scr[n]]
       /\ main' = "returned"
       /\ inFlight' = flying
       /\ UNCHANGED <<task, turn>>

\* execute() up to its first await: a new cancel event, then validation, then
\* the first turn of the loop; a rejected plan is reported as all failed.
ExecuteValid ==
    /\ main = "idle"
    /\ Valid(plan.deps)
    /\ cancel' = FALSE
    /\ TurnOfLoop(FALSE, status, completed, inFlight, scratch)
    /\ UNCHANGED <<plan, result, completed, nodeVars>>

ExecuteInvalid ==
    /\ main = "idle"
    /\ ~Valid(plan.deps)
    /\ cancel' = FALSE
    /\ status' = [n \in Nodes |-> "FAILED"]
    /\ result' = [n \in Nodes |-> [status |-> "FAILED", attempts |-> 0]]
    /\ main' = "returned"
    /\ UNCHANGED <<plan, completed, inFlight, task, turn, scratch, nodeVars>>

\* cancel(), called by another coroutine.
Cancel ==
    /\ ~cancel
    /\ main # "returned"
    /\ cancel' = TRUE
    /\ UNCHANGED <<plan, main, status, result, completed, inFlight, task, turn,
                   scratch, nodeVars>>

(***************************************************************************)
(* _finish_node for each node of D, with the results res: the nodes become *)
(* completed, and a failed critical node skips what it makes unreachable.  *)
(***************************************************************************)
\* Fault: a timeout of a critical node is not taken for a failure.
CriticalFailures_NotTimeouts(D, res) ==
    {n \in D \cap plan.critical : res[n].status \in {"FAILED", "CANCELLED"}}

CriticalFailures(D, res) ==
    {n \in D \cap plan.critical : res[n].status \in Failures}

SkippedBy(D, res) ==
    SkipUnreachable(plan.deps, [n \in Nodes |-> IF n \in D THEN res[n].status ELSE status[n]],
                    CriticalFailures(D, res))

Finished(f, D, res) ==
    [n \in Nodes |-> IF n \in D THEN res[n].status
                     ELSE IF n \in SkippedBy(D, res) THEN "SKIPPED" ELSE f[n]]

\* Fault: only nodes that succeeded are added to completed_ids.
FinishNodes_OnlySuccesses(D, res) ==
    /\ result' = [n \in Nodes |-> IF n \in D THEN res[n] ELSE result[n]]
    /\ completed' = completed \cup {n \in D : res[n].status = "SUCCEEDED"}
                        \cup SkippedBy(D, res)

FinishNodes(D, res) ==
    /\ result' = [n \in Nodes |-> IF n \in D THEN res[n] ELSE result[n]]
    /\ completed' = completed \cup D \cup SkippedBy(D, res)

Ended == {n \in inFlight : task[n] = "ended"}

\* asyncio.wait returns with every task that has ended by then; each is
\* finished with what it returned, and the loop turns.
Collect ==
    LET returned == [n \in Nodes |-> [status |-> outcome[n], attempts |-> attempts[n]]] IN
    /\ main = "waiting"
    /\ Ended # {}
    /\ \A n \in Ended : outcome[n] # "RAISED"    \* task.result() would raise
    /\ FinishNodes(Ended, returned)
    /\ TurnOfLoop(cancel, Finished(status, Ended, returned), completed',
                  inFlight \ Ended, Finished(scratch, Ended, returned))
    /\ UNCHANGED <<plan, cancel, nodeVars>>

\* The gather of _drain_cancelled is over.  No in-flight node has a result yet,
\* so each is given CANCELLED, whatever its task returned; then the rest.
DrainDone ==
    LET returned == [n \in Nodes |-> [status |-> "CANCELLED", attempts |-> 0]] IN
    /\ main = "draining"
    /\ Ended = inFlight
    /\ FinishNodes({n \in inFlight : result[n] = NoResult}, returned)
    /\ LET D == {n \in inFlight : result[n] = NoResult}
           st == Finished(status, D, returned)
           scr == Finished(scratch, D, returned) IN
       /\ status' = MarkPending(st, "CANCELLED")
       /\ scratch' = [n \in Nodes |-> IF st[n] = "PENDING" THEN "CANCELLED" ELSE scr[n]]
    /\ inFlight' = {}
    /\ main' = "returned"
    /\ UNCHANGED <<plan, cancel, task, turn, nodeVars>>

-----------------------------------------------------------------------------
(***************************************************************************)
(* The tasks: _run_node.                                                   *)
(***************************************************************************)
mainVars == <<plan, main, cancel, result, completed, inFlight, turn, scratch>>

End(n, s) ==
    /\ task' = [task EXCEPT ![n] = "ended"]
    /\ outcome' = [outcome EXCEPT ![n] = s]

\* Fault: the cancel event is not consulted before an attempt.
Attempt_IgnoresCancel(n, held) ==
    /\ task' = [task EXCEPT ![n] = "invoking"]
    /\ attempts' = [attempts EXCEPT ![n] = @ + 1]
    /\ permits' = permits - (1 - held)
    /\ UNCHANGED outcome

\* Fault: attempts are not counted, so a failing node is retried for ever.
Attempt_Uncounted(n, held) ==
    \/ /\ cancel
       /\ End(n, "CANCELLED")
       /\ permits' = permits + held
       /\ UNCHANGED attempts
    \/ /\ ~cancel
       /\ task' = [task EXCEPT ![n] = "invoking"]
       /\ permits' = permits - (1 - held)
       /\ UNCHANGED <<outcome, attempts>>

\* The head of `for attempt in range(max_retries + 1)`, holding a permit when
\* held = 1 and taking one otherwise; leaving the `async with` gives it back.
Attempt(n, held) ==
    \/ /\ cancel
       /\ End(n, "CANCELLED")
       /\ permits' = permits + held
       /\ UNCHANGED attempts
    \/ /\ ~cancel
       /\ task' = [task EXCEPT ![n] = "invoking"]
       /\ attempts' = [attempts EXCEPT ![n] = @ + 1]
       /\ permits' = permits - (1 - held)
       /\ UNCHANGED outcome

\* Tasks wait for the semaphore in the order in which they were created.
Ahead(m, n) ==
    \/ turn[m] < turn[n]
    \/ turn[m] = turn[n] /\ plan.rank[m] < plan.rank[n]

AcquireSlot(n) ==
    /\ main = "waiting"
    /\ task[n] = "queued"
    /\ permits > 0
    /\ \A m \in Nodes : task[m] = "queued" => ~Ahead(m, n)
    /\ status' = [status EXCEPT ![n] = "RUNNING"]
    /\ Attempt(n, 0)
    /\ UNCHANGED mainVars

BackoffOver(n) ==
    /\ main = "waiting"
    /\ task[n] = "backoff"
    /\ Attempt(n, 1)
    /\ UNCHANGED <<mainVars, status>>

InvokeSucceeds(n) ==
    /\ main = "waiting"
    /\ task[n] = "invoking"
    /\ End(n, "SUCCEEDED")
    /\ permits' = permits + 1
    /\ UNCHANGED <<mainVars, status, attempts>>

\* A failed attempt: another one while fewer than `last` were made.
FailAs(n, s, reported, last) ==
    /\ main = "waiting"
    /\ task[n] = "invoking"
    /\ \/ /\ attempts[n] < last /\ ~cancel
          /\ task' = [task EXCEPT ![n] = "backoff"]
          /\ UNCHANGED <<outcome, permits>>
       \/ /\ ~(attempts[n] < last /\ ~cancel)
          /\ End(n, reported)
          /\ permits' = permits + 1
    /\ UNCHANGED <<mainVars, status, attempts>>

\* Fault: one attempt too few.
InvokeFails_OneRetryLess(n, s) == FailAs(n, s, s, plan.retries[n])

\* An attempt fails: the backend reports failure or raises (s = "FAILED"), or
\* wait_for expires (s = "TIMED_OUT").  Retry while the policy allows.
InvokeFails(n, s) ==
    /\ main = "waiting"
    /\ task[n] = "invoking"
    /\ \/ /\ attempts[n] <= plan.retries[n] /\ ~cancel
          /\ task' = [task EXCEPT ![n] = "backoff"]
          /\ UNCHANGED <<outcome, permits>>
       \/ /\ ~(attempts[n] <= plan.retries[n] /\ ~cancel)
          /\ End(n, s)
          /\ permits' = permits + 1
    /\ UNCHANGED <<mainVars, status, attempts>>

(***************************************************************************)
(* task.cancel() has been called: the task resumes with CancelledError.    *)
(* Only the wait_for is inside the try that turns it into a result; in the *)
(* semaphore or in the sleep it leaves _run_node.  An answer that arrived  *)
(* before the cancellation is delivered may still win inside wait_for.     *)
(***************************************************************************)
AbortInvoke(n) ==
    /\ main = "draining"
    /\ task[n] = "invoking"
    /\ \E s \in {"CANCELLED", "SUCCEEDED", "FAILED"} : End(n, s)
    /\ permits' = permits + 1
    /\ UNCHANGED <<mainVars, status, attempts>>

\* Fault: a task cancelled in its backoff keeps its slot.
AbortElsewhere_KeepsSlot(n) ==
    /\ main = "draining"
    /\ task[n] \in {"queued", "backoff"}
    /\ End(n, "RAISED")
    /\ UNCHANGED <<permits, mainVars, status, attempts>>

AbortElsewhere(n) ==
    /\ main = "draining"
    /\ task[n] \in {"queued", "backoff"}
    /\ End(n, "RAISED")
    /\ permits' = permits + (IF task[n] = "backoff" THEN 1 ELSE 0)
    /\ UNCHANGED <<mainVars, status, attempts>>

-----------------------------------------------------------------------------
RunNode(n) ==
    \/ AcquireSlot(n)
    \/ BackoffOver(n)
    \/ InvokeSucceeds(n)
    \/ \E s \in {"FAILED", "TIMED_OUT"} : InvokeFails(n, s)
    \/ AbortInvoke(n)
    \/ AbortElsewhere(n)

Scheduler == ExecuteValid \/ ExecuteInvalid \/ Collect \/ DrainDone

\* execute() has returned its metrics; stuttering here is not a deadlock.
Returned == main = "returned" /\ UNCHANGED vars

Next == Scheduler \/ Cancel \/ Returned \/ \E n \in Nodes : RunNode(n)

Spec == Init /\ [][Next]_vars

\* The event loop runs every ready coroutine, wait_for bounds each attempt by
\* task_timeout_seconds, and each backoff sleep ends.
FairSpec ==
    /\ Spec
    /\ WF_vars(Scheduler)
    /\ \A n \in Nodes : WF_vars(RunNode(n))

-----------------------------------------------------------------------------
TypeOK ==
    /\ plan \in Plans
    /\ main \in {"idle", "waiting", "draining", "returned"}
    /\ cancel \in BOOLEAN
    /\ status \in [Nodes -> Status]
    /\ result \in [Nodes -> [status : Status \cup {"NONE"}, attempts : Nat]]
    /\ completed \in SUBSET Nodes
    /\ inFlight \in SUBSET Nodes
    /\ task \in [Nodes -> {"none", "queued", "invoking", "backoff", "ended"}]
    /\ outcome \in [Nodes -> {"NONE", "RAISED", "SUCCEEDED"} \cup Failures]
    /\ attempts \in [Nodes -> Nat]
    /\ permits \in Int
    /\ turn \in [Nodes -> Nat]
    /\ scratch \in [Nodes -> Status \cup {"NONE"}]

-----------------------------------------------------------------------------
Blocks(d, st) ==
    \/ st[d] = "SKIPPED"
    \/ d \in plan.critical /\ st[d] \in Failures

Holding == {n \in Nodes : task[n] \in {"invoking", "backoff"}}

\* The semaphore's counter and the tasks inside its `async with` always add up
\* to max_parallel, on every way out of _run_node: no slot is leaked and no
\* more than max_parallel nodes run at once.
SlotsAccounted == permits >= 0 /\ permits + Cardinality(Holding) = MaxParallel

\* A node whose task exists has dependencies that are all settled, recorded in
\* the scratchpad from which its context is built, and none of which is a
\* failed critical node or was skipped.
StartedOnlyWhenReady ==
    \A n \in Nodes : task[n] # "none" =>
        \A d \in plan.deps[n] :
            /\ status[d] \in Terminal
            /\ scratch[d] = status[d]
            /\ ~Blocks(d, status)

\* A node is skipped only because a dependency blocks it: the deadlock guard of
\* execute(), which skips whatever is left over, never finds anything to skip.
SkippedForCause ==
    \A n \in Nodes : status[n] = "SKIPPED" => \E d \in plan.deps[n] : Blocks(d, status)

\* When execute() returns, every node is in a terminal state, so the counts of
\* its metrics add up to the total; no task is left running; and the scratchpad,
\* from which the answer is synthesised, tells the same story as the metrics.
ReturnedIsComplete ==
    main = "returned" =>
        \A n \in Nodes :
            /\ status[n] \in Terminal
            /\ task[n] \in {"none", "ended"}
            /\ Valid(plan.deps) => scratch[n] = status[n]

\* The scheduler never meets a task that ended by raising: task.result() in the
\* loop of execute() would re-raise it and no metrics would be returned.
CollectNeverRaises ==
    main = "waiting" => \A n \in Ended : outcome[n] # "RAISED"

\* A node is reported as cancelled only if cancel() was called meanwhile.
CancelledOnlyOnRequest ==
    main # "idle" /\ (\E n \in Nodes : status[n] = "CANCELLED") => cancel

\* Without a cancellation, a node of a valid plan is reported as failed only
\* after all the attempts of its retry policy, and with their number.
RetriesExhausted ==
    \A n \in Nodes :
        /\ Valid(plan.deps) /\ ~cancel
        /\ status[n] \in {"FAILED", "TIMED_OUT"}
        => result[n].attempts = plan.retries[n] + 1 /\ attempts[n] = plan.retries[n] + 1

\* Once cancel() has been called, no node is scheduled and no attempt is begun.
NoStartAfterCancel ==
    [][cancel /\ main # "idle" =>
         \A n \in Nodes : task'[n] \in {"queued", "invoking"} => task'[n] = task[n]]_vars

\* execute() returns, whatever the backends do and whenever it is cancelled.
ExecuteReturns == main \in {"waiting", "draining"} ~> main = "returned"

(***************************************************************************)
(* The executor implements the contract of a plan execution.               *)
(***************************************************************************)
PhaseOf(s) ==
    CASE s = "PENDING"                 -> "todo"
      [] s \in {"READY", "RUNNING"}    -> "active"
      [] s = "SUCCEEDED"               -> "succeeded"
      [] s \in {"FAILED", "TIMED_OUT"} -> "failed"
      [] s = "CANCELLED"               -> "cancelled"
      [] s = "SKIPPED"                 -> "skipped"

Phase == [n \in Nodes |-> PhaseOf(status[n])]

Contract == INSTANCE PlanContract WITH
    deps <- plan.deps, critical <- plan.critical,
    open <- main # "returned", stopping <- cancel /\ main # "idle", phase <- Phase

\* The detailed scheduler starts, skips, cancels and settles nodes only as the
\* contract allows, and returns exactly when the last node is settled.
ImplementsContract == Contract!Spec
=============================================================================
