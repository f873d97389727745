--------------------------- MODULE WorkflowEngine ---------------------------
(***************************************************************************)
(* orchestrator/workflow.py: execute() runs a plan in waves.  Each turn of *)
(* its loop scans the pending steps in the plan's order, skips those whose *)
(* condition is not met, starts the ones whose dependencies are completed, *)
(* and gathers them all before it looks again.  A scan never suspends, so  *)
(* a turn, from the end of one gather to the next, is one action.          *)
(*                                                                         *)
(* One engine serves every caller (Orchestrator.workflow_engine) and keeps *)
(* a single flag for cancel(): several executions share it.                *)
(***************************************************************************)
EXTENDS Integers, FiniteSets

CONSTANTS Runs,         \* executions on the engine, each started once
          StepCount,    \* steps of a plan, numbered in the plan's order
          Submitted,    \* the plans callers may submit, one to each execution
          MaxAttempts   \* max_retries + 1

Steps == 1..StepCount

\* A dependency is the step_id of a step, or 0 for an id that no step has.
Plan == [deps : [Steps -> SUBSET (0..StepCount)], conditional : SUBSET Steps]

\* Is every dependency declared before the step that needs it?
Ordered(p) == \A s \in Steps : \A d \in p.deps[s] : d < s

ASSUME WorkflowAssumption ==
    /\ StepCount \in Nat \ {0}
    /\ Submitted \subseteq [Runs -> Plan]
    /\ MaxAttempts \in Nat \ {0}

VARIABLES
    cancelled,   \* _cancelled, the engine's one flag
    phase,       \* where each execute() is
    plan,        \* its plan, once started
    wave,        \* the steps in its current gather()
    step,        \* the state of each of its steps
    attempts,    \* attempts of each step so far
    asked        \* history: was cancel() called while it ran ("yes"), and has an
                 \* execute() cleared the flag since ("revived")?

vars == <<cancelled, phase, plan, wave, step, attempts, asked>>

\* "answered": route() returned an AgentResult, whatever its success flag.
Settled == {"answered", "failed", "cancelled", "skipped"}
Active  == {"running", "backoff"}

TypeOK ==
    /\ cancelled \in BOOLEAN
    /\ phase \in [Runs -> {"idle", "gather", "aborting", "returned", "aborted"}]
    /\ plan \in [Runs -> Plan]
    /\ wave \in [Runs -> SUBSET Steps]
    /\ step \in [Runs -> [Steps -> {"pending"} \cup Active \cup Settled]]
    /\ attempts \in [Runs -> [Steps -> 0..MaxAttempts]]
    /\ asked \in [Runs -> {"no", "yes", "revived"}]

Init ==
    /\ cancelled = FALSE
    /\ phase = [r \in Runs |-> "idle"]
    /\ plan \in Submitted
    /\ wave = [r \in Runs |-> {}]
    /\ step = [r \in Runs |-> [s \in Steps |-> "pending"]]
    /\ attempts = [r \in Runs |-> [s \in Steps |-> 0]]
    /\ asked = [r \in Runs |-> "no"]

(***************************************************************************)
(* The scan of a turn.  The completed ids grow while it goes through the   *)
(* plan: a skipped step counts for the steps that come after it.           *)
(***************************************************************************)
Pending(st) == {s \in Steps : st[s] = "pending"}
Completed(st) == {s \in Steps : st[s] \in Settled}

\* Fault: one completed dependency is enough.
Satisfied_Any(p, st, skipped, s) ==
    p.deps[s] = {} \/ p.deps[s] \cap (Completed(st) \cup skipped) # {}

Satisfied(p, st, skipped, s) ==
    p.deps[s] \subseteq Completed(st) \cup {k \in skipped : k < s}

\* The steps skipped when the conditions of unmet return False.
Skips(p, st, unmet, skipped) ==
    skipped = {s \in Pending(st) \cap unmet : Satisfied(p, st, skipped, s)}

Ready(p, st, skipped) ==
    {s \in Pending(st) \ skipped : Satisfied(p, st, skipped, s)}

Return(r, st) ==
    /\ phase' = [phase EXCEPT ![r] = "returned"]
    /\ wave' = [wave EXCEPT ![r] = {}]
    /\ step' = [step EXCEPT ![r] = st]
    /\ attempts' = attempts

\* Without a ready step the loop ends, and calls it a deadlock if any is pending.
StartWave(r, st, skipped) ==
    LET ready == Ready(plan[r], st, skipped)
        after == [s \in Steps |-> IF s \in skipped THEN "skipped" ELSE st[s]]
    IN  IF ready = {} THEN Return(r, after)
        ELSE /\ phase' = [phase EXCEPT ![r] = "gather"]
             /\ wave' = [wave EXCEPT ![r] = ready]
             /\ step' = [step EXCEPT ![r] = [s \in Steps |->
                            IF s \in ready THEN "running" ELSE after[s]]]
             /\ attempts' = [attempts EXCEPT ![r] = [s \in Steps |->
                            IF s \in ready THEN 1 ELSE attempts[r][s]]]

TurnOfLoop(r, st, flag) ==
    IF Pending(st) = {} \/ flag THEN Return(r, st)
    ELSE \E unmet \in SUBSET plan[r].conditional, skipped \in SUBSET Pending(st) :
            /\ Skips(plan[r], st, unmet, skipped)
            /\ StartWave(r, st, skipped)

\* Fault: a cancellation of an earlier execution stays in force.
Execute_KeepsFlag(r) ==
    /\ phase[r] = "idle"
    /\ cancelled' = cancelled
    /\ TurnOfLoop(r, step[r], cancelled')
    /\ UNCHANGED <<plan, asked>>

\* The flag is cleared, for the executions under way too.
Execute(r) ==
    /\ phase[r] = "idle"
    /\ cancelled' = FALSE
    /\ asked' = [q \in Runs |-> IF phase[q] = "gather" /\ asked[q] = "yes"
                                THEN "revived" ELSE asked[q]]
    /\ TurnOfLoop(r, step[r], cancelled')
    /\ UNCHANGED plan

\* Fault: an execution that returns clears the flag.
WaveEnds_ClearsFlag(r) ==
    /\ phase[r] = "gather"
    /\ \A s \in wave[r] : step[r][s] \in Settled
    /\ TurnOfLoop(r, step[r], cancelled \/ \E s \in wave[r] : step[r][s] = "cancelled")
    /\ cancelled' = (cancelled /\ phase'[r] # "returned")
    /\ UNCHANGED <<plan, asked>>

\* gather() is over: the results are recorded, a cancelled step sets the flag.
WaveEnds(r) ==
    /\ phase[r] = "gather"
    /\ \A s \in wave[r] : step[r][s] \in Settled
    /\ cancelled' = (cancelled \/ \E s \in wave[r] : step[r][s] = "cancelled")
    /\ TurnOfLoop(r, step[r], cancelled')
    /\ UNCHANGED <<plan, asked>>

Cancel ==
    /\ cancelled' = TRUE
    /\ asked' = [r \in Runs |-> IF phase[r] = "gather" THEN "yes" ELSE asked[r]]
    /\ UNCHANGED <<phase, plan, wave, step, attempts>>

\* The task that called execute() is cancelled (TaskQueue.stop does this), and
\* gather() passes it on to the steps of the wave.
Abort(r) ==
    /\ phase[r] = "gather"
    /\ phase' = [phase EXCEPT ![r] = "aborting"]
    /\ UNCHANGED <<cancelled, plan, wave, step, attempts, asked>>

\* CancelledError leaves execute() once every step of the wave has ended.
AbortEnds(r) ==
    /\ phase[r] = "aborting"
    /\ \A s \in wave[r] : step[r][s] \in Settled
    /\ phase' = [phase EXCEPT ![r] = "aborted"]
    /\ wave' = [wave EXCEPT ![r] = {}]
    /\ UNCHANGED <<cancelled, plan, step, attempts, asked>>

(***************************************************************************)
(* _execute_step(): attempts, timeouts and backoff.                        *)
(***************************************************************************)
StepTo(r, s, state, n) ==
    /\ step' = [step EXCEPT ![r][s] = state]
    /\ attempts' = [attempts EXCEPT ![r][s] = n]
    /\ UNCHANGED <<cancelled, phase, plan, wave, asked>>

RouteReturns(r, s) ==
    /\ phase[r] = "gather" /\ step[r][s] = "running"
    /\ StepTo(r, s, "answered", attempts[r][s])

\* TimeoutError: the next attempt starts at once.
RouteTimesOut(r, s) ==
    /\ phase[r] = "gather" /\ step[r][s] = "running"
    /\ IF attempts[r][s] < MaxAttempts
       THEN StepTo(r, s, "running", attempts[r][s] + 1)
       ELSE StepTo(r, s, "failed", attempts[r][s])

\* Any other exception: the next attempt follows a sleep.
RouteRaises(r, s) ==
    /\ phase[r] = "gather" /\ step[r][s] = "running"
    /\ IF attempts[r][s] < MaxAttempts
       THEN StepTo(r, s, "backoff", attempts[r][s])
       ELSE StepTo(r, s, "failed", attempts[r][s])

\* Fault: the attempt after a sleep is not counted.
BackoffOver_Uncounted(r, s) ==
    /\ phase[r] = "gather" /\ step[r][s] = "backoff"
    /\ StepTo(r, s, "running", attempts[r][s])

BackoffOver(r, s) ==
    /\ phase[r] = "gather" /\ step[r][s] = "backoff"
    /\ StepTo(r, s, "running", attempts[r][s] + 1)

\* CancelledError is not an Exception: it ends the step without a retry.  route()
\* raises it of itself, or an aborted gather() does.
StepCancelled(r, s) ==
    /\ \/ phase[r] = "gather" /\ step[r][s] = "running"
       \/ phase[r] = "aborting" /\ step[r][s] \in Active
    /\ StepTo(r, s, "cancelled", attempts[r][s])

ExecuteStep(r, s) ==
    \/ RouteReturns(r, s) \/ RouteTimesOut(r, s) \/ RouteRaises(r, s)
    \/ BackoffOver(r, s) \/ StepCancelled(r, s)

Next ==
    \/ Cancel
    \/ \E r \in Runs : \/ Execute(r) \/ WaveEnds(r) \/ Abort(r) \/ AbortEnds(r)
                       \/ \E s \in Steps : ExecuteStep(r, s)

Spec == Init /\ [][Next]_vars

(***************************************************************************)
(* A route() that was called ends, in time or not, and the event loop runs *)
(* every coroutine that can run.  Nobody has to call execute() or cancel().*)
(***************************************************************************)
Fairness ==
    \A r \in Runs : /\ WF_vars(WaveEnds(r))
                    /\ WF_vars(AbortEnds(r))
                    /\ \A s \in Steps : WF_vars(ExecuteStep(r, s))

FairSpec == Spec /\ Fairness

-----------------------------------------------------------------------------
Over(r) == phase[r] \in {"returned", "aborted"}

(***************************************************************************)
(* A step is started or skipped only when every step it depends on has     *)
(* been collected from its wave; an unknown id is never satisfied.         *)
(***************************************************************************)
DependenciesFirst ==
    \A r \in Runs, s \in Steps : step[r][s] # "pending" =>
        \A d \in plan[r].deps[s] : d \in Completed(step[r]) /\ d \notin wave[r]

(***************************************************************************)
(* execute() never ends with a step still running: not on cancel(), not    *)
(* when a step is cancelled, not when its own task is.                     *)
(***************************************************************************)
NothingLeftRunning ==
    \A r \in Runs : Over(r) => \A s \in Steps : step[r][s] \notin Active

(***************************************************************************)
(* A step reported as failed by the engine used all its attempts, however  *)
(* timeouts and exceptions alternate.                                      *)
(***************************************************************************)
FailsWhenExhausted ==
    \A r \in Runs, s \in Steps : step[r][s] = "failed" => attempts[r][s] = MaxAttempts

(***************************************************************************)
(* cancel() stops every execution under way: until the next execute(), no  *)
(* step of theirs is begun, whichever of them return in the meantime.      *)
(***************************************************************************)
CancelHolds ==
    [][\A r \in Runs, s \in Steps :
          asked[r] = "yes" /\ step[r][s] = "pending" => step'[r][s] = "pending"]_vars

(***************************************************************************)
(* Once cancel() has been called during an execution ("Workflow execution  *)
(* cancelled"), no further step of it is ever begun.  Another execute()    *)
(* clears the flag, and the cancelled execution goes on.                   *)
(***************************************************************************)
NothingBegunAfterCancel ==
    [][\A r \in Runs, s \in Steps :
          asked[r] # "no" /\ step[r][s] = "pending" => step'[r][s] = "pending"]_vars

(***************************************************************************)
(* execute() returns with steps undone only if its cancellation stands, a  *)
(* step was cancelled (its own, or one of an execution it shares the       *)
(* engine with), or each of those steps misses a dependency ("Workflow     *)
(* deadlocked: %d steps pending with unsatisfied dependencies").  A plan   *)
(* that lists a step before one it depends on can break this: the scan is  *)
(* past the first when it skips the second.                                *)
(***************************************************************************)
HasCause(r) ==
    \/ asked[r] = "yes"
    \/ \E q \in Runs, s \in Steps : step[q][s] = "cancelled"
    \/ \A s \in Pending(step[r]) : ~(plan[r].deps[s] \subseteq Completed(step[r]))

UndoneForCause == \A r \in Runs : phase[r] = "returned" => HasCause(r)

(***************************************************************************)
(* The same, of the plans that list a step after those it depends on.      *)
(***************************************************************************)
OrderedUndoneForCause ==
    \A r \in Runs : phase[r] = "returned" /\ Ordered(plan[r]) => HasCause(r)

(***************************************************************************)
(* execute() ends, whatever route() answers.                               *)
(***************************************************************************)
ExecuteEnds == \A r \in Runs : phase[r] = "gather" ~> Over(r)
=============================================================================
