------------------------ MODULE WorkflowEngineProofs ------------------------
(***************************************************************************)
(* What WorkflowEngine keeps for any number of executions that share the   *)
(* engine, and any plans.                                                  *)
(***************************************************************************)
EXTENDS WorkflowEngine, TLAPS

-----------------------------------------------------------------------------
(***************************************************************************)
(* The inductive invariant.                                                *)
(***************************************************************************)
\* Nothing has happened to an execution that has not begun.
Fresh == \A r \in Runs : phase[r] = "idle" =>
            wave[r] = {} /\ \A s \in Steps : step[r][s] = "pending"

\* The wave holds every active step, and no pending one.
WaveAccounts == \A r \in Runs, s \in Steps :
    /\ step[r][s] \in Active => s \in wave[r] /\ phase[r] \in {"gather", "aborting"}
    /\ s \in wave[r] => step[r][s] # "pending"

\* A step that sleeps has an attempt left.
BackoffHasAttempt == \A r \in Runs, s \in Steps :
    step[r][s] = "backoff" => attempts[r][s] < MaxAttempts

Inv ==
    /\ TypeOK
    /\ Fresh
    /\ WaveAccounts
    /\ BackoffHasAttempt
    /\ DependenciesFirst
    /\ FailsWhenExhausted

-----------------------------------------------------------------------------
LEMMA InitInv == Init => Inv
<1> SUFFICES ASSUME Init PROVE Inv
  OBVIOUS
<1>1. TypeOK
  <2>1. 0 \in 0..MaxAttempts
    BY WorkflowAssumption
  <2>2. attempts \in [Runs -> [Steps -> 0..MaxAttempts]]
    BY <2>1 DEF Init
  <2>3. step \in [Runs -> [Steps -> {"pending"} \cup Active \cup Settled]]
    BY DEF Init
  <2>4. plan \in [Runs -> Plan]
    BY WorkflowAssumption DEF Init
  <2> QED BY <2>2, <2>3, <2>4 DEF Init, TypeOK
<1>2. Fresh /\ WaveAccounts /\ BackoffHasAttempt /\ DependenciesFirst /\ FailsWhenExhausted
  BY DEF Init, Fresh, WaveAccounts, BackoffHasAttempt, DependenciesFirst,
         FailsWhenExhausted, Active
<1> QED BY <1>1, <1>2 DEF Inv

-----------------------------------------------------------------------------
(***************************************************************************)
(* A turn of the loop.  It begins when no step of the execution is active. *)
(***************************************************************************)
\* What a turn does to its own execution.  skipped and ready partition the steps
\* that leave "pending"; a turn that starts nothing returns.
TurnShape(r, flag, skipped, ready) ==
    /\ skipped \subseteq Pending(step[r]) /\ ready \subseteq Pending(step[r])
    /\ skipped \cap ready = {}
    /\ \A s \in skipped \cup ready : Satisfied(plan[r], step[r], skipped, s)
    /\ phase' = [phase EXCEPT ![r] = IF ready = {} THEN "returned" ELSE "gather"]
    /\ wave' = [wave EXCEPT ![r] = ready]
    /\ step' = [step EXCEPT ![r] = [s \in Steps |->
                  IF s \in ready THEN "running"
                  ELSE IF s \in skipped THEN "skipped" ELSE step[r][s]]]
    /\ attempts' = [attempts EXCEPT ![r] = [s \in Steps |->
                      IF s \in ready THEN 1 ELSE attempts[r][s]]]
    /\ flag => skipped = {} /\ ready = {}
    /\ ready = {} /\ ~flag => \A s \in Pending(step[r]) \ skipped :
                                 ~Satisfied(plan[r], step[r], skipped, s)

LEMMA TurnHasShape ==
    ASSUME TypeOK, NEW r \in Runs, NEW flag \in BOOLEAN, TurnOfLoop(r, step[r], flag)
    PROVE  \E skipped, ready \in SUBSET Steps : TurnShape(r, flag, skipped, ready)
<1>1. step[r] = [s \in Steps |-> step[r][s]] /\ attempts[r] = [s \in Steps |-> attempts[r][s]]
  BY DEF TypeOK
<1>2. CASE Pending(step[r]) = {} \/ flag
  <2>1. Return(r, step[r])
    BY <1>2 DEF TurnOfLoop
  <2>2. TurnShape(r, flag, {}, {})
    BY <1>1, <1>2, <2>1 DEF TypeOK, Return, TurnShape
  <2> QED BY <2>2
<1>3. CASE ~(Pending(step[r]) = {} \/ flag)
  <2>1. PICK unmet \in SUBSET plan[r].conditional, skipped \in SUBSET Pending(step[r]) :
             Skips(plan[r], step[r], unmet, skipped) /\ StartWave(r, step[r], skipped)
    BY <1>3 DEF TurnOfLoop
  <2> DEFINE ready == Ready(plan[r], step[r], skipped)
             after == [s \in Steps |-> IF s \in skipped THEN "skipped" ELSE step[r][s]]
  <2>2. /\ ready \subseteq Pending(step[r]) \ skipped
        /\ \A s \in ready : Satisfied(plan[r], step[r], skipped, s)
        /\ \A s \in Pending(step[r]) \ skipped :
              Satisfied(plan[r], step[r], skipped, s) => s \in ready
    BY DEF Ready
  <2>3. \A s \in skipped : Satisfied(plan[r], step[r], skipped, s)
    BY <2>1 DEF Skips
  <2>4. skipped \in SUBSET Steps /\ ready \in SUBSET Steps
    BY <2>2 DEF Pending
  <2>5. CASE ready = {}
    <3>1. Return(r, after)
      BY <2>1, <2>5 DEF StartWave
    <3>2. TurnShape(r, flag, skipped, ready)
      BY <1>1, <1>3, <2>2, <2>3, <2>5, <3>1 DEF TypeOK, Return, TurnShape
    <3> QED BY <2>4, <3>2
  <2>6. CASE ready # {}
    <3>1. /\ phase' = [phase EXCEPT ![r] = "gather"]
          /\ wave' = [wave EXCEPT ![r] = ready]
          /\ step' = [step EXCEPT ![r] = [s \in Steps |->
                         IF s \in ready THEN "running" ELSE after[s]]]
          /\ attempts' = [attempts EXCEPT ![r] = [s \in Steps |->
                         IF s \in ready THEN 1 ELSE attempts[r][s]]]
      BY <2>1, <2>6 DEF StartWave
    <3>2. [s \in Steps |-> IF s \in ready THEN "running" ELSE after[s]]
          = [s \in Steps |-> IF s \in ready THEN "running"
                             ELSE IF s \in skipped THEN "skipped" ELSE step[r][s]]
      OBVIOUS
    <3>3. TurnShape(r, flag, skipped, ready)
      BY <1>3, <2>2, <2>3, <2>6, <3>1, <3>2 DEF TurnShape
    <3> QED BY <2>4, <3>3
  <2> QED BY <2>5, <2>6
<1> QED BY <1>2, <1>3

LEMMA TurnKeepsInv ==
    ASSUME Inv, NEW r \in Runs, NEW flag \in BOOLEAN, TurnOfLoop(r, step[r], flag),
           phase[r] \in {"idle", "gather"}, \A s \in Steps : step[r][s] \notin Active,
           cancelled' \in BOOLEAN, plan' = plan,
           asked' \in [Runs -> {"no", "yes", "revived"}]
    PROVE  Inv'
<1> USE DEF Inv
<1>1. PICK skipped \in SUBSET Steps, ready \in SUBSET Steps : TurnShape(r, flag, skipped, ready)
  BY TurnHasShape
<1>2. /\ skipped \subseteq Pending(step[r]) /\ ready \subseteq Pending(step[r])
      /\ skipped \cap ready = {}
      /\ \A s \in skipped \cup ready : Satisfied(plan[r], step[r], skipped, s)
  BY <1>1 DEF TurnShape
<1>3. /\ \A q \in Runs \ {r} : /\ phase'[q] = phase[q] /\ wave'[q] = wave[q]
                               /\ step'[q] = step[q] /\ attempts'[q] = attempts[q]
      /\ phase'[r] = IF ready = {} THEN "returned" ELSE "gather"
      /\ wave'[r] = ready
      /\ \A s \in Steps :
            /\ step'[r][s] = IF s \in ready THEN "running"
                             ELSE IF s \in skipped THEN "skipped" ELSE step[r][s]
            /\ attempts'[r][s] = IF s \in ready THEN 1 ELSE attempts[r][s]
  BY <1>1 DEF TurnShape, TypeOK
<1>4. TypeOK'
  <2>1. 1 \in 0..MaxAttempts
    BY WorkflowAssumption
  <2>2. /\ phase' \in [Runs -> {"idle", "gather", "aborting", "returned", "aborted"}]
        /\ wave' \in [Runs -> SUBSET Steps]
    BY <1>1 DEF TurnShape, TypeOK
  <2>3. step' \in [Runs -> [Steps -> {"pending"} \cup Active \cup Settled]]
    BY <1>1 DEF TurnShape, TypeOK, Active, Settled
  <2>4. attempts' \in [Runs -> [Steps -> 0..MaxAttempts]]
    BY <1>1, <2>1 DEF TurnShape, TypeOK
  <2> QED BY <2>2, <2>3, <2>4 DEF TypeOK
<1>5. Fresh' /\ WaveAccounts'
  BY <1>2, <1>3 DEF Fresh, WaveAccounts, Active, Pending
<1>6. BackoffHasAttempt' /\ FailsWhenExhausted'
  BY <1>2, <1>3 DEF BackoffHasAttempt, FailsWhenExhausted, Pending, Active
<1>7. DependenciesFirst'
  <2> SUFFICES ASSUME NEW q \in Runs, NEW s \in Steps, step'[q][s] # "pending",
                      NEW d \in plan[q].deps[s]
               PROVE  d \in Completed(step'[q]) /\ d \notin wave'[q]
    BY DEF DependenciesFirst
  <2>1. CASE q # r
    BY <1>3, <2>1 DEF DependenciesFirst, Completed
  <2>2. CASE q = r
    <3>1. d \in Completed(step[r]) \cup skipped
      BY <1>2, <1>3, <2>2 DEF Satisfied, DependenciesFirst
    <3>2. d \notin ready /\ d \in Steps
      BY <1>2, <3>1 DEF Completed, Pending, Settled
    <3> QED BY <1>3, <2>2, <3>1, <3>2 DEF Completed, Settled
  <2> QED BY <2>1, <2>2
<1> QED BY <1>4, <1>5, <1>6, <1>7

-----------------------------------------------------------------------------
\* A step of a wave moves.
LEMMA StepToKeepsInv ==
    ASSUME Inv, NEW r \in Runs, NEW s \in Steps, step[r][s] \in Active,
           NEW state \in Active \cup Settled, NEW n \in 0..MaxAttempts,
           StepTo(r, s, state, n),
           state = "failed" => n = MaxAttempts,
           state = "backoff" => n < MaxAttempts
    PROVE  Inv'
<1> USE DEF Inv
<1>1. /\ UNCHANGED <<cancelled, phase, plan, wave, asked>>
      /\ step' = [step EXCEPT ![r][s] = state]
      /\ attempts' = [attempts EXCEPT ![r][s] = n]
  BY DEF StepTo
<1>2. TypeOK'
  BY <1>1 DEF TypeOK
<1>3. \A q \in Runs, u \in Steps :
         \/ q = r /\ u = s /\ step'[q][u] = state /\ attempts'[q][u] = n
         \/ step'[q][u] = step[q][u] /\ attempts'[q][u] = attempts[q][u]
  BY <1>1 DEF TypeOK
<1>4. s \in wave[r] /\ phase[r] # "idle" /\ step[r][s] # "pending" /\ state # "pending"
  BY DEF WaveAccounts, Active, Settled
<1>5. Fresh' /\ WaveAccounts' /\ BackoffHasAttempt' /\ FailsWhenExhausted'
  BY <1>1, <1>3, <1>4 DEF Fresh, WaveAccounts, BackoffHasAttempt, FailsWhenExhausted,
                          Active, Settled
<1>6. DependenciesFirst'
  <2> SUFFICES ASSUME NEW q \in Runs, NEW u \in Steps, step'[q][u] # "pending",
                      NEW d \in plan[q].deps[u]
               PROVE  d \in Completed(step'[q]) /\ d \notin wave[q]
    BY <1>1 DEF DependenciesFirst
  <2>1. d \in Completed(step[q]) /\ d \notin wave[q]
    BY <1>3, <1>4 DEF DependenciesFirst
  <2>2. step'[q][d] = step[q][d]
    BY <1>3, <1>4, <2>1 DEF Completed
  <2> QED BY <2>1, <2>2 DEF Completed
<1> QED BY <1>2, <1>5, <1>6

LEMMA ExecuteStepKeepsInv ==
    ASSUME Inv, NEW r \in Runs, NEW s \in Steps, ExecuteStep(r, s)
    PROVE  Inv'
<1>1. attempts[r][s] \in 0..MaxAttempts /\ MaxAttempts \in Nat
  BY WorkflowAssumption DEF Inv, TypeOK
<1>2. step[r][s] \in Active
  BY DEF ExecuteStep, RouteReturns, RouteTimesOut, RouteRaises, BackoffOver,
         StepCancelled, Active
<1>3. \E state \in Active \cup Settled, n \in 0..MaxAttempts :
         /\ StepTo(r, s, state, n)
         /\ state = "failed" => n = MaxAttempts
         /\ state = "backoff" => n < MaxAttempts
  <2>1. CASE RouteReturns(r, s)
    BY <1>1, <2>1 DEF RouteReturns, Settled
  <2>2. CASE RouteTimesOut(r, s)
    <3>1. CASE attempts[r][s] < MaxAttempts
      <4>1. StepTo(r, s, "running", attempts[r][s] + 1) /\ attempts[r][s] + 1 \in 0..MaxAttempts
        BY <1>1, <2>2, <3>1 DEF RouteTimesOut
      <4> QED BY <4>1 DEF Active
    <3>2. CASE ~(attempts[r][s] < MaxAttempts)
      <4>1. StepTo(r, s, "failed", attempts[r][s]) /\ attempts[r][s] = MaxAttempts
        BY <1>1, <2>2, <3>2 DEF RouteTimesOut
      <4> QED BY <1>1, <4>1 DEF Settled
    <3> QED BY <3>1, <3>2
  <2>3. CASE RouteRaises(r, s)
    <3>1. CASE attempts[r][s] < MaxAttempts
      <4>1. StepTo(r, s, "backoff", attempts[r][s])
        BY <2>3, <3>1 DEF RouteRaises
      <4> QED BY <1>1, <3>1, <4>1 DEF Active
    <3>2. CASE ~(attempts[r][s] < MaxAttempts)
      <4>1. StepTo(r, s, "failed", attempts[r][s]) /\ attempts[r][s] = MaxAttempts
        BY <1>1, <2>3, <3>2 DEF RouteRaises
      <4> QED BY <1>1, <4>1 DEF Settled
    <3> QED BY <3>1, <3>2
  <2>4. CASE BackoffOver(r, s)
    <3>1. StepTo(r, s, "running", attempts[r][s] + 1) /\ attempts[r][s] + 1 \in 0..MaxAttempts
      BY <1>1, <2>4 DEF BackoffOver, Inv, BackoffHasAttempt
    <3> QED BY <3>1 DEF Active
  <2>5. CASE StepCancelled(r, s)
    BY <1>1, <2>5 DEF StepCancelled, Settled
  <2> QED BY <2>1, <2>2, <2>3, <2>4, <2>5 DEF ExecuteStep
<1> QED BY <1>2, <1>3, StepToKeepsInv

LEMMA NextInv == Inv /\ [Next]_vars => Inv'
<1> SUFFICES ASSUME Inv, [Next]_vars PROVE Inv'
  OBVIOUS
<1>1. CASE Cancel
  BY <1>1 DEF Cancel, Inv, TypeOK, Fresh, WaveAccounts, BackoffHasAttempt,
              DependenciesFirst, Completed, FailsWhenExhausted
<1>2. ASSUME NEW r \in Runs, Execute(r) PROVE Inv'
  <2>1. /\ phase[r] = "idle" /\ cancelled' = FALSE /\ plan' = plan
        /\ asked' \in [Runs -> {"no", "yes", "revived"}]
        /\ TurnOfLoop(r, step[r], FALSE)
    BY <1>2 DEF Execute, Inv, TypeOK
  <2>2. \A s \in Steps : step[r][s] \notin Active
    BY <2>1 DEF Inv, Fresh, Active
  <2> QED BY <2>1, <2>2, TurnKeepsInv
<1>3. ASSUME NEW r \in Runs, WaveEnds(r) PROVE Inv'
  <2>1. /\ phase[r] = "gather" /\ plan' = plan
        /\ asked' \in [Runs -> {"no", "yes", "revived"}]
        /\ \A s \in wave[r] : step[r][s] \in Settled
        /\ TurnOfLoop(r, step[r], cancelled')
    BY <1>3 DEF WaveEnds, Inv, TypeOK
  <2>2. cancelled' \in BOOLEAN
    BY <1>3 DEF WaveEnds, Inv, TypeOK
  <2>3. \A s \in Steps : step[r][s] \notin Active
    BY <2>1 DEF Inv, WaveAccounts, Active, Settled
  <2> QED BY <2>1, <2>2, <2>3, TurnKeepsInv
<1>4. ASSUME NEW r \in Runs, Abort(r) \/ AbortEnds(r) PROVE Inv'
  <2> USE DEF Inv
  <2>1. /\ UNCHANGED <<cancelled, plan, step, attempts, asked>>
        /\ \A q \in Runs \ {r} : phase'[q] = phase[q] /\ wave'[q] = wave[q]
        /\ \/ phase'[r] = "aborting" /\ wave'[r] = wave[r]
           \/ /\ phase'[r] = "aborted" /\ wave'[r] = {}
              /\ \A s \in wave[r] : step[r][s] \in Settled
    BY <1>4 DEF Abort, AbortEnds, TypeOK
  <2>2. TypeOK'
    BY <1>4 DEF Abort, AbortEnds, TypeOK
  <2>3. Fresh' /\ BackoffHasAttempt' /\ FailsWhenExhausted'
    BY <2>1 DEF Fresh, BackoffHasAttempt, FailsWhenExhausted
  <2>4. WaveAccounts'
    BY <2>1 DEF WaveAccounts, Active, Settled
  <2>5. DependenciesFirst'
    BY <2>1 DEF DependenciesFirst, Completed
  <2> QED BY <2>2, <2>3, <2>4, <2>5
<1>5. ASSUME NEW r \in Runs, NEW s \in Steps, ExecuteStep(r, s) PROVE Inv'
  BY <1>5, ExecuteStepKeepsInv
<1>6. CASE UNCHANGED vars
  BY <1>6 DEF vars, Inv, TypeOK, Fresh, WaveAccounts, BackoffHasAttempt,
              DependenciesFirst, Completed, FailsWhenExhausted
<1> QED BY <1>1, <1>2, <1>3, <1>4, <1>5, <1>6 DEF Next

LEMMA InvHolds == Spec => []Inv
BY InitInv, NextInv, PTL DEF Spec

-----------------------------------------------------------------------------
\* The variables keep their types; no step makes more than max_retries + 1 attempts.
THEOREM TypeCorrect == Spec => []TypeOK
<1>1. Inv => TypeOK
  BY DEF Inv
<1> QED BY <1>1, InvHolds, PTL

\* For every plan, a step begins only after its dependencies have been collected.
THEOREM DependenciesRespected == Spec => []DependenciesFirst
<1>1. Inv => DependenciesFirst
  BY DEF Inv
<1> QED BY <1>1, InvHolds, PTL

\* execute() leaves no step running behind, on any way out.
THEOREM NothingLeft == Spec => []NothingLeftRunning
<1>1. Inv => NothingLeftRunning
  BY DEF Inv, WaveAccounts, NothingLeftRunning, Over
<1> QED BY <1>1, InvHolds, PTL

\* A step fails only when its attempts are used up.
THEOREM FailsExhausted == Spec => []FailsWhenExhausted
<1>1. Inv => FailsWhenExhausted
  BY DEF Inv
<1> QED BY <1>1, InvHolds, PTL

-----------------------------------------------------------------------------
(***************************************************************************)
(* The engine's one flag and the executions that share it.                 *)
(***************************************************************************)
CancelledSteps == {x \in Runs \X Steps : step[x[1]][x[2]] = "cancelled"}

\* While it is not revived, a cancel() keeps the flag set; and the flag is set
\* for a cancel() or for a step that was cancelled, and for nothing else.
FlagStands == \A r \in Runs :
    /\ asked[r] # "no" => phase[r] # "idle"
    /\ phase[r] = "gather" => (asked[r] = "yes" => cancelled)
    /\ phase[r] = "gather" /\ cancelled => asked[r] = "yes" \/ CancelledSteps # {}

\* What a turn leaves alone: other executions, and steps that have left "pending".
LEMMA TurnLeaves ==
    ASSUME TypeOK, NEW r \in Runs, NEW flag \in BOOLEAN, TurnOfLoop(r, step[r], flag)
    PROVE  /\ \A q \in Runs \ {r} : phase'[q] = phase[q] /\ step'[q] = step[q]
           /\ phase'[r] \in {"gather", "returned"}
           /\ flag => phase'[r] = "returned" /\ step'[r] = step[r]
           /\ \A s \in Steps : step[r][s] # "pending" => step'[r][s] = step[r][s]
<1>1. PICK skipped \in SUBSET Steps, ready \in SUBSET Steps : TurnShape(r, flag, skipped, ready)
  BY TurnHasShape
<1>2. /\ \A q \in Runs \ {r} : phase'[q] = phase[q] /\ step'[q] = step[q]
      /\ phase'[r] = IF ready = {} THEN "returned" ELSE "gather"
      /\ step'[r] = [s \in Steps |-> IF s \in ready THEN "running"
                                     ELSE IF s \in skipped THEN "skipped" ELSE step[r][s]]
      /\ flag => skipped = {} /\ ready = {}
      /\ skipped \subseteq Pending(step[r]) /\ ready \subseteq Pending(step[r])
  BY <1>1 DEF TurnShape, TypeOK
<1>3. step[r] = [s \in Steps |-> step[r][s]]
  BY DEF TypeOK
<1>4. flag => step'[r] = step[r]
  BY <1>2, <1>3
<1>5. \A s \in Steps : step[r][s] # "pending" => step'[r][s] = step[r][s]
  BY <1>2 DEF Pending
<1> QED BY <1>2, <1>4, <1>5

\* A step that was cancelled stays cancelled.
LEMMA CancelledStays ==
    ASSUME Inv, [Next]_vars
    PROVE  CancelledSteps \subseteq CancelledSteps'
<1> SUFFICES ASSUME NEW q \in Runs, NEW s \in Steps, step[q][s] = "cancelled"
             PROVE  step'[q][s] = "cancelled"
  BY DEF CancelledSteps
<1> USE DEF Inv
<1>1. ASSUME NEW r \in Runs, Execute(r) \/ WaveEnds(r) PROVE step'[q][s] = "cancelled"
  <2>1. PICK flag \in BOOLEAN : TurnOfLoop(r, step[r], flag)
    BY <1>1 DEF Execute, WaveEnds, TypeOK
  <2>2. step'[q] = step[q] \/ (q = r /\ step'[r][s] = step[r][s])
    BY <2>1, TurnLeaves
  <2> QED BY <2>2
<1>2. ASSUME NEW r \in Runs, NEW u \in Steps, ExecuteStep(r, u)
      PROVE  step'[q][s] = "cancelled"
  BY <1>2 DEF ExecuteStep, RouteReturns, RouteTimesOut, RouteRaises, BackoffOver,
              StepCancelled, StepTo, TypeOK, Active
<1>3. CASE Cancel \/ (\E r \in Runs : Abort(r) \/ AbortEnds(r)) \/ UNCHANGED vars
  BY <1>3 DEF Cancel, Abort, AbortEnds, vars
<1> QED BY <1>1, <1>2, <1>3 DEF Next

LEMMA FlagKept ==
    ASSUME Inv, FlagStands, [Next]_vars
    PROVE  FlagStands'
<1> USE DEF Inv
<1>0. CancelledSteps # {} => CancelledSteps' # {}
  BY CancelledStays
<1>1. CASE Cancel
  BY <1>0, <1>1 DEF Cancel, FlagStands, TypeOK
<1>2. ASSUME NEW r \in Runs, Execute(r) PROVE FlagStands'
  <2>1. /\ phase[r] = "idle" /\ cancelled' = FALSE
        /\ \A q \in Runs : /\ asked'[q] # "no" => asked[q] # "no"
                           /\ phase[q] = "gather" => asked'[q] # "yes"
        /\ asked'[r] = asked[r]
    BY <1>2 DEF Execute, TypeOK
  <2>2. /\ \A q \in Runs \ {r} : phase'[q] = phase[q]
        /\ phase'[r] \in {"gather", "returned"}
    BY <1>2, TurnLeaves DEF Execute
  <2>3. asked[r] = "no"
    BY <2>1 DEF FlagStands, TypeOK
  <2> QED BY <2>1, <2>2, <2>3 DEF FlagStands
<1>3. ASSUME NEW r \in Runs, WaveEnds(r) PROVE FlagStands'
  <2>1. /\ phase[r] = "gather" /\ asked' = asked /\ cancelled' \in BOOLEAN
        /\ cancelled' = (cancelled \/ \E s \in wave[r] : step[r][s] = "cancelled")
        /\ TurnOfLoop(r, step[r], cancelled')
    BY <1>3 DEF WaveEnds, TypeOK
  <2>2. /\ \A q \in Runs \ {r} : phase'[q] = phase[q]
        /\ phase'[r] \in {"gather", "returned"}
    BY <2>1, TurnLeaves
  <2>3. cancelled' => cancelled \/ CancelledSteps # {}
    <3>1. \A s \in wave[r] : step[r][s] = "cancelled" => <<r, s>> \in CancelledSteps
      BY DEF CancelledSteps, TypeOK
    <3> QED BY <2>1, <3>1
  <2>4. cancelled => cancelled'
    BY <2>1
  <2> QED BY <1>0, <2>1, <2>2, <2>3, <2>4 DEF FlagStands
<1>4. ASSUME NEW r \in Runs, Abort(r) \/ AbortEnds(r) PROVE FlagStands'
  <2>1. /\ UNCHANGED <<cancelled, asked>>
        /\ \A q \in Runs \ {r} : phase'[q] = phase[q]
        /\ phase'[r] \in {"aborting", "aborted"}
    BY <1>4 DEF Abort, AbortEnds, TypeOK
  <2> QED BY <1>0, <2>1 DEF FlagStands
<1>5. ASSUME NEW r \in Runs, NEW s \in Steps, ExecuteStep(r, s) PROVE FlagStands'
  <2>1. UNCHANGED <<cancelled, phase, asked>>
    BY <1>5 DEF ExecuteStep, RouteReturns, RouteTimesOut, RouteRaises, BackoffOver,
                StepCancelled, StepTo
  <2> QED BY <1>0, <2>1 DEF FlagStands
<1>6. CASE UNCHANGED vars
  BY <1>0, <1>6 DEF vars, FlagStands
<1> QED BY <1>1, <1>2, <1>3, <1>4, <1>5, <1>6 DEF Next

LEMMA FlagHolds == Spec => [](Inv /\ FlagStands)
<1>1. Init => FlagStands
  BY DEF Init, FlagStands
<1>2. Inv /\ FlagStands /\ [Next]_vars => FlagStands'
  BY FlagKept
<1> QED BY <1>1, <1>2, InvHolds, PTL DEF Spec

\* cancel() holds for every execution under way until the next execute(), however
\* many share the engine and in whatever order they end.
THEOREM CancelStops == Spec => CancelHolds
<1> DEFINE Kept == \A r \in Runs, s \in Steps :
               asked[r] = "yes" /\ step[r][s] = "pending" => step'[r][s] = "pending"
<1>1. Inv /\ FlagStands /\ [Next]_vars => Kept
  <2> SUFFICES ASSUME Inv, FlagStands, [Next]_vars, NEW r \in Runs, NEW s \in Steps,
                      asked[r] = "yes", step[r][s] = "pending"
               PROVE  step'[r][s] = "pending"
    OBVIOUS
  <2> USE DEF Inv
  <2>1. phase[r] # "idle" /\ (phase[r] = "gather" => cancelled)
    BY DEF FlagStands
  <2>2. ASSUME NEW q \in Runs, Execute(q) \/ WaveEnds(q) PROVE step'[r][s] = "pending"
    <3>1. PICK flag \in BOOLEAN : /\ TurnOfLoop(q, step[q], flag)
                                  /\ q = r => flag
      BY <2>1, <2>2 DEF Execute, WaveEnds, TypeOK
    <3>2. step'[r] = step[r]
      BY <3>1, TurnLeaves
    <3> QED BY <3>2
  <2>3. ASSUME NEW q \in Runs, NEW u \in Steps, ExecuteStep(q, u)
        PROVE  step'[r][s] = "pending"
    <3>1. step[q][u] # "pending"
      BY <2>3 DEF ExecuteStep, RouteReturns, RouteTimesOut, RouteRaises, BackoffOver,
                  StepCancelled, Active
    <3>2. \E state : step' = [step EXCEPT ![q][u] = state]
      BY <2>3 DEF ExecuteStep, RouteReturns, RouteTimesOut, RouteRaises, BackoffOver,
                  StepCancelled, StepTo
    <3>3. q # r \/ u # s
      BY <3>1
    <3>4. step'[r][s] = step[r][s]
      BY <3>2, <3>3 DEF TypeOK
    <3> QED BY <3>4
  <2>4. CASE Cancel \/ (\E q \in Runs : Abort(q) \/ AbortEnds(q)) \/ UNCHANGED vars
    BY <2>4 DEF Cancel, Abort, AbortEnds, vars
  <2> QED BY <2>2, <2>3, <2>4 DEF Next
<1>2. Inv /\ FlagStands /\ [Next]_vars => [Kept]_vars
  BY <1>1
<1> QED BY <1>2, FlagHolds, PTL DEF Spec, CancelHolds

-----------------------------------------------------------------------------
\* Where steps are listed after the steps they depend on, execute() leaves steps
\* undone only for a reason, alone on the engine or not.
THEOREM ReturnsForCause == Spec => []OrderedUndoneForCause
<1>1. Init => OrderedUndoneForCause
  BY DEF Init, OrderedUndoneForCause
<1>2. Inv /\ FlagStands /\ OrderedUndoneForCause /\ [Next]_vars => OrderedUndoneForCause'
  <2> SUFFICES ASSUME Inv, FlagStands, OrderedUndoneForCause, [Next]_vars, NEW r \in Runs,
                      phase'[r] = "returned", Ordered(plan'[r])
               PROVE  HasCause(r)'
    BY DEF OrderedUndoneForCause
  <2> USE DEF Inv
  <2>1. CancelledSteps \subseteq CancelledSteps'
    BY CancelledStays
  <2>2. plan' = plan
    BY DEF Next, Cancel, Execute, WaveEnds, Abort, AbortEnds, ExecuteStep, RouteReturns,
           RouteTimesOut, RouteRaises, BackoffOver, StepCancelled, StepTo, vars
  \* A turn of r that returns.
  <2>3. ASSUME NEW flag \in BOOLEAN, TurnOfLoop(r, step[r], flag),
               flag => asked'[r] = "yes" \/ CancelledSteps # {}
        PROVE  HasCause(r)'
    <3>1. PICK skipped \in SUBSET Steps, ready \in SUBSET Steps :
               TurnShape(r, flag, skipped, ready)
      BY <2>3, TurnHasShape
    <3>2. /\ ready = {}
          /\ \A s \in Steps : step'[r][s] = IF s \in skipped THEN "skipped" ELSE step[r][s]
      BY <3>1 DEF TurnShape, TypeOK
    <3>3. ~flag => \A s \in Pending(step[r]) \ skipped :
                        ~Satisfied(plan[r], step[r], skipped, s)
      BY <3>1, <3>2 DEF TurnShape
    <3>4. CASE flag
      BY <2>1, <2>3, <3>4 DEF HasCause, CancelledSteps
    <3>5. CASE ~flag
      <4> SUFFICES ASSUME NEW s \in Pending(step'[r]),
                          plan[r].deps[s] \subseteq Completed(step'[r])
                   PROVE  FALSE
        BY <2>2 DEF HasCause
      <4>1. s \in Pending(step[r]) \ skipped
        BY <3>2 DEF Pending
      <4>2. \A d \in plan[r].deps[s] : d < s
        BY <2>2, <4>1 DEF TypeOK, Ordered, Pending
      <4>3. Completed(step'[r]) \subseteq Completed(step[r]) \cup skipped
        BY <3>2 DEF Completed
      <4>4. Satisfied(plan[r], step[r], skipped, s)
        BY <4>2, <4>3 DEF Satisfied
      <4> QED BY <3>3, <3>5, <4>1, <4>4
    <3> QED BY <3>4, <3>5
  <2>4. CASE Execute(r)
    <3>1. TurnOfLoop(r, step[r], FALSE)
      BY <2>4 DEF Execute
    <3> QED BY <2>3, <3>1
  <2>5. CASE WaveEnds(r)
    <3>1. /\ TurnOfLoop(r, step[r], cancelled') /\ asked' = asked
          /\ phase[r] = "gather" /\ cancelled' \in BOOLEAN
          /\ cancelled' = (cancelled \/ \E s \in wave[r] : step[r][s] = "cancelled")
      BY <2>5 DEF WaveEnds, TypeOK
    <3>2. cancelled' => asked'[r] = "yes" \/ CancelledSteps # {}
      <4>1. \A s \in wave[r] : step[r][s] = "cancelled" => <<r, s>> \in CancelledSteps
        BY DEF CancelledSteps, TypeOK
      <4> QED BY <3>1, <4>1 DEF FlagStands
    <3> QED BY <2>3, <3>1, <3>2
  \* Any other step leaves r as it was.
  <2>6. ASSUME ~Execute(r), ~WaveEnds(r) PROVE HasCause(r)'
    <3>1. phase[r] = "returned" /\ step'[r] = step[r] /\ (asked[r] = "yes" => asked'[r] = "yes")
      <4>1. ASSUME NEW q \in Runs \ {r}, Execute(q) \/ WaveEnds(q)
            PROVE  /\ phase[r] = "returned" /\ step'[r] = step[r]
                   /\ asked[r] = "yes" => asked'[r] = "yes"
        <5>1. PICK flag \in BOOLEAN : TurnOfLoop(q, step[q], flag)
          BY <4>1 DEF Execute, WaveEnds, TypeOK
        <5>2. phase[r] = "returned" /\ step'[r] = step[r]
          BY <5>1, TurnLeaves
        <5> QED BY <4>1, <5>2 DEF Execute, WaveEnds, TypeOK
      <4>2. ASSUME NEW q \in Runs, Abort(q) \/ AbortEnds(q)
            PROVE  phase[r] = "returned" /\ step' = step /\ asked' = asked
        BY <4>2 DEF Abort, AbortEnds, TypeOK
      <4>3. ASSUME NEW q \in Runs, NEW u \in Steps, ExecuteStep(q, u)
            PROVE  phase[r] = "returned" /\ step'[r] = step[r] /\ asked' = asked
        BY <4>3 DEF ExecuteStep, RouteReturns, RouteTimesOut, RouteRaises, BackoffOver,
                    StepCancelled, StepTo, TypeOK
      <4>4. CASE Cancel \/ UNCHANGED vars
        BY <4>4 DEF Cancel, vars, TypeOK
      <4> QED BY <2>6, <4>1, <4>2, <4>3, <4>4 DEF Next
    <3>2. HasCause(r)
      BY <2>2, <3>1 DEF OrderedUndoneForCause
    <3>3. CASE asked[r] = "yes"
      BY <3>1, <3>3 DEF HasCause
    <3>4. CASE \E q \in Runs, s \in Steps : step[q][s] = "cancelled"
      <4>1. CancelledSteps # {}
        <5>1. PICK q \in Runs, s \in Steps : step[q][s] = "cancelled"
          BY <3>4
        <5>2. <<q, s>> \in CancelledSteps
          BY <5>1 DEF CancelledSteps
        <5> QED BY <5>2
      <4>2. \E q \in Runs, s \in Steps : step'[q][s] = "cancelled"
        BY <2>1, <4>1 DEF CancelledSteps
      <4> QED BY <4>2 DEF HasCause
    <3>5. CASE \A s \in Pending(step[r]) : ~(plan[r].deps[s] \subseteq Completed(step[r]))
      BY <2>2, <3>1, <3>5 DEF HasCause, Pending, Completed
    <3> QED BY <3>2, <3>3, <3>4, <3>5 DEF HasCause
  <2> QED BY <2>4, <2>5, <2>6
<1> QED BY <1>1, <1>2, FlagHolds, PTL DEF Spec
=============================================================================
