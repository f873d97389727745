------------------------------ MODULE TaskQueue ------------------------------
(***************************************************************************)
(* orchestrator/task_queue.py: an asyncio.Queue of agent tasks, drained by *)
(* the workers start() creates and stop() cancels.                         *)
(*                                                                         *)
(* A worker suspends in two places: in queue.get() ("idle") and inside the *)
(* handler ("busy").  stop() is atomic up to its gather(); it then waits   *)
(* for the workers it cancelled and only afterwards clears the list, so    *)
(* other coroutines, start() among them, run in between.  The queue, its   *)
(* counter of unfinished tasks and the event join() waits for belong to    *)
(* asyncio and are modelled from their use here.                           *)
(***************************************************************************)
EXTENDS Integers, Sequences, FiniteSets

CONSTANTS Tasks,          \* the tasks a client may enqueue, each at most once
          Joiners,        \* coroutines that call join(), each once
          WorkerCount,    \* worker_count
          MaxStarts,      \* bound: calls of start() that create workers
          NoTask          \* held by a worker outside its handler

ASSUME ConstantsAssumption ==
    /\ WorkerCount \in Nat \ {0}
    /\ MaxStarts \in Nat
    /\ IsFiniteSet(Tasks)
    /\ NoTask \notin Tasks

\* The index-th worker of the n-th start().
WorkerIds == (1..MaxStarts) \X (1..WorkerCount)

VARIABLES
    queue,        \* _queue, oldest task first
    unfinished,   \* _queue._unfinished_tasks
    running,      \* _running
    starts,       \* how many times start() has created workers
    workers,      \* _workers
    worker,       \* what each worker is doing
    holding,      \* the task whose handler a worker is in
    cancelled,    \* workers with a pending CancelledError
    stopping,     \* one entry per stop() in its gather(): the workers it awaits
    outcome,      \* what became of each task; "done" is a key of _results
    joins,        \* where each join() is
    joined        \* the tasks unfinished when that join() was called

vars == <<queue, unfinished, running, starts, workers, worker, holding,
          cancelled, stopping, outcome, joins, joined>>

Outcomes == {"new", "queued", "handled", "done", "failed", "interrupted"}
Finished == {"done", "failed", "interrupted"}

TypeOK ==
    /\ queue \in Seq(Tasks)
    /\ unfinished \in Nat
    /\ running \in BOOLEAN
    /\ starts \in 0..MaxStarts
    /\ workers \subseteq WorkerIds
    /\ worker \in [WorkerIds -> {"absent", "idle", "busy", "dead"}]
    /\ holding \in [WorkerIds -> Tasks \cup {NoTask}]
    /\ cancelled \subseteq WorkerIds
    /\ stopping \subseteq SUBSET WorkerIds
    /\ outcome \in [Tasks -> Outcomes]
    /\ joins \in [Joiners -> {"idle", "waiting", "released", "returned"}]
    /\ joined \in [Joiners -> SUBSET Tasks]

Init ==
    /\ queue = <<>>
    /\ unfinished = 0
    /\ running = FALSE
    /\ starts = 0
    /\ workers = {}
    /\ worker = [w \in WorkerIds |-> "absent"]
    /\ holding = [w \in WorkerIds |-> NoTask]
    /\ cancelled = {}
    /\ stopping = {}
    /\ outcome = [t \in Tasks |-> "new"]
    /\ joins = [j \in Joiners |-> "idle"]
    /\ joined = [j \in Joiners |-> {}]

Live == {w \in WorkerIds : worker[w] \in {"idle", "busy"}}
Busy == {w \in WorkerIds : worker[w] = "busy"}

(***************************************************************************)
(* Clients.                                                                *)
(***************************************************************************)
Created == {starts + 1} \X (1..WorkerCount)

Start ==
    /\ ~running
    /\ starts < MaxStarts
    /\ running' = TRUE
    /\ starts' = starts + 1
    /\ workers' = Created
    /\ worker' = [w \in WorkerIds |-> IF w \in Created THEN "idle" ELSE worker[w]]
    /\ UNCHANGED <<queue, unfinished, holding, cancelled, stopping, outcome,
                   joins, joined>>

\* stop() up to gather(): every worker on the list is cancelled.  A gather() of
\* nobody does not suspend: stop() then returns at once.
StopCall ==
    /\ running
    /\ running' = FALSE
    /\ cancelled' = cancelled \cup (workers \cap Live)
    /\ stopping' = stopping \cup ({workers} \ {{}})
    /\ UNCHANGED <<queue, unfinished, starts, workers, worker, holding, outcome,
                   joins, joined>>

\* Fault: before it clears the list, stop() cancels whoever is on it by now.
StopReturn_CancelsAgain(S) ==
    /\ S \cap Live = {}
    /\ workers' = {}
    /\ cancelled' = cancelled \cup (workers \cap Live)
    /\ stopping' = stopping \ {S}
    /\ UNCHANGED <<queue, unfinished, running, starts, worker, holding, outcome,
                   joins, joined>>

\* gather() is over; whatever the list holds by now is cleared.
StopReturn(S) ==
    /\ S \cap Live = {}
    /\ workers' = {}
    /\ stopping' = stopping \ {S}
    /\ UNCHANGED <<queue, unfinished, running, starts, worker, holding, cancelled,
                   outcome, joins, joined>>

Enqueue(t) ==
    /\ outcome[t] = "new"
    /\ outcome' = [outcome EXCEPT ![t] = "queued"]
    /\ queue' = Append(queue, t)
    /\ unfinished' = unfinished + 1
    /\ UNCHANGED <<running, starts, workers, worker, holding, cancelled, stopping,
                   joins, joined>>

Join(j) ==
    /\ joins[j] = "idle"
    /\ joins' = [joins EXCEPT ![j] = IF unfinished > 0 THEN "waiting" ELSE "returned"]
    /\ joined' = [joined EXCEPT ![j] = {t \in Tasks : outcome[t] \in {"queued", "handled"}}]
    /\ UNCHANGED <<queue, unfinished, running, starts, workers, worker, holding,
                   cancelled, stopping, outcome>>

\* The released join() is resumed; it does not look at the counter again.
JoinReturn(j) ==
    /\ joins[j] = "released"
    /\ joins' = [joins EXCEPT ![j] = "returned"]
    /\ UNCHANGED <<queue, unfinished, running, starts, workers, worker, holding,
                   cancelled, stopping, outcome, joined>>

(***************************************************************************)
(* Workers.                                                                *)
(***************************************************************************)
Get(w) ==
    /\ worker[w] = "idle"
    /\ w \notin cancelled
    /\ queue # <<>>
    /\ queue' = Tail(queue)
    /\ worker' = [worker EXCEPT ![w] = "busy"]
    /\ holding' = [holding EXCEPT ![w] = Head(queue)]
    /\ outcome' = [outcome EXCEPT ![Head(queue)] = "handled"]
    /\ UNCHANGED <<unfinished, running, starts, workers, cancelled, stopping,
                   joins, joined>>

\* Fault: the event that join() waits for is never set.
TaskDone_NoRelease ==
    /\ unfinished' = unfinished - 1
    /\ joins' = joins

\* task_done(): the last one sets the event that every join() waits for.
TaskDone ==
    /\ unfinished' = unfinished - 1
    /\ joins' = [j \in Joiners |-> IF joins[j] = "waiting" /\ unfinished' = 0
                                   THEN "released" ELSE joins[j]]

\* The worker's turn of the loop ends with this outcome, in this state.
Settle(w, result, next) ==
    /\ worker[w] = "busy"
    /\ worker' = [worker EXCEPT ![w] = next]
    /\ holding' = [holding EXCEPT ![w] = NoTask]
    /\ outcome' = [outcome EXCEPT ![holding[w]] = result]
    /\ TaskDone
    /\ UNCHANGED <<queue, running, starts, workers, stopping, joined>>

HandlerReturns(w) ==
    /\ w \notin cancelled
    /\ Settle(w, "done", "idle")
    /\ UNCHANGED cancelled

\* Fault: an exception of the handler ends the worker.
HandlerRaises_KillsWorker(w) ==
    /\ w \notin cancelled
    /\ Settle(w, "failed", "dead")
    /\ UNCHANGED cancelled

\* Fault: task_done() is not in a finally clause.
HandlerRaises_NotDone(w) ==
    /\ w \notin cancelled
    /\ worker[w] = "busy"
    /\ worker' = [worker EXCEPT ![w] = "idle"]
    /\ holding' = [holding EXCEPT ![w] = NoTask]
    /\ outcome' = [outcome EXCEPT ![holding[w]] = "failed"]
    /\ UNCHANGED <<queue, unfinished, running, starts, workers, cancelled,
                   stopping, joins, joined>>

HandlerRaises(w) ==
    /\ w \notin cancelled
    /\ Settle(w, "failed", "idle")
    /\ UNCHANGED cancelled

\* CancelledError in queue.get(): no task is lost.
CancelIdle(w) ==
    /\ w \in cancelled
    /\ worker[w] = "idle"
    /\ worker' = [worker EXCEPT ![w] = "dead"]
    /\ cancelled' = cancelled \ {w}
    /\ UNCHANGED <<queue, unfinished, running, starts, workers, holding, stopping,
                   outcome, joins, joined>>

\* CancelledError in the handler: only the finally clause runs, so the task is
\* counted as done although it has no result.
CancelBusy(w) ==
    /\ w \in cancelled
    /\ Settle(w, "interrupted", "dead")
    /\ cancelled' = cancelled \ {w}

Worker(w) ==
    \/ Get(w) \/ HandlerReturns(w) \/ HandlerRaises(w)
    \/ CancelIdle(w) \/ CancelBusy(w)

Next ==
    \/ Start \/ StopCall
    \/ \E S \in stopping : StopReturn(S)
    \/ \E t \in Tasks : Enqueue(t)
    \/ \E j \in Joiners : Join(j) \/ JoinReturn(j)
    \/ \E w \in WorkerIds : Worker(w)

Spec == Init /\ [][Next]_vars

(***************************************************************************)
(* The event loop runs every coroutine that can run, and handlers end.     *)
(* Nobody is obliged to start, stop, enqueue or join.                      *)
(***************************************************************************)
Fairness ==
    /\ \A w \in WorkerIds : WF_vars(Worker(w))
    /\ \A j \in Joiners : WF_vars(JoinReturn(j))
    /\ \A S \in SUBSET WorkerIds : WF_vars(S \in stopping /\ StopReturn(S))

FairSpec == Spec /\ Fairness

-----------------------------------------------------------------------------
Queued == {queue[i] : i \in 1..Len(queue)}
Held == {holding[w] : w \in Busy}

(***************************************************************************)
(* The counter behind join() is the number of tasks still to be finished:  *)
(* those in the queue and one per busy worker.  A path out of the worker's *)
(* loop body that skips task_done(), or takes it twice, breaks this, and   *)
(* then join() hangs or returns early.                                     *)
(***************************************************************************)
CountsUnfinished == unfinished = Len(queue) + Cardinality(Busy)

(***************************************************************************)
(* A task is in one place: in the queue, with the one worker that handles  *)
(* it, or finished, across any number of restarts.                         *)
(***************************************************************************)
InOnePlace ==
    /\ Queued = {t \in Tasks : outcome[t] = "queued"}
    /\ Held = {t \in Tasks : outcome[t] = "handled"}
    /\ \A i, k \in 1..Len(queue) : queue[i] = queue[k] => i = k
    /\ \A v, w \in Busy : holding[v] = holding[w] => v = w

(***************************************************************************)
(* When join() returns, no task that was in the queue or in a handler when *)
(* it was called is there still, although other tasks may be by then.      *)
(***************************************************************************)
JoinWaited ==
    \A j \in Joiners : joins[j] \in {"released", "returned"} =>
        \A t \in joined[j] : outcome[t] \in Finished

(***************************************************************************)
(* A task loses its handler only while a stop() is in progress: not before *)
(* one is called and not after the last one has returned.                  *)
(***************************************************************************)
LostOnlyToStop ==
    [][\A t \in Tasks : outcome[t] # "interrupted" /\ outcome'[t] = "interrupted"
                           => stopping # {}]_vars

(***************************************************************************)
(* While the queue runs, the workers of its last start() are all there,    *)
(* and nobody has cancelled them: neither a stop() still in the gather()   *)
(* of their predecessors nor a failing handler takes one away.             *)
(***************************************************************************)
StartedWorkersServe ==
    running => \A n \in 1..WorkerCount : <<starts, n>> \in Live \ cancelled

(***************************************************************************)
(* is_running ("Return whether queue workers are active") tells the truth  *)
(* whenever no stop() is in progress.  It does not: a stop() that returns  *)
(* after the next start() clears the list of that one's workers, so that   *)
(* the next stop() finds nobody to cancel.                                 *)
(***************************************************************************)
IsRunningIsTrue == stopping = {} => (running <=> Live # {})

(***************************************************************************)
(* If the queue is started and eventually not stopped any more, every task *)
(* in it is finished, failing handlers or not.                             *)
(***************************************************************************)
Drains ==
    <>[]running => \A t \in Tasks : outcome[t] = "queued" ~> outcome[t] \in Finished

(***************************************************************************)
(* Under the same condition every join() returns.                          *)
(***************************************************************************)
JoinReturns ==
    <>[]running => \A j \in Joiners : joins[j] = "waiting" ~> joins[j] = "returned"

(***************************************************************************)
(* stop() returns, whatever its workers were doing.                        *)
(***************************************************************************)
StopReturns == \A S \in SUBSET WorkerIds : S \in stopping ~> S \notin stopping
=============================================================================
