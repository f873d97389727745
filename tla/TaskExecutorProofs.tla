------------------------- MODULE TaskExecutorProofs -------------------------
(***************************************************************************)
(* Theorems about TaskExecutor, for every finite set of nodes, every set   *)
(* of plans and every max_parallel.                                        *)
(***************************************************************************)
EXTENDS TaskExecutor, FiniteSetTheorems, TLAPS

-----------------------------------------------------------------------------
(***************************************************************************)
(* What skip_unreachable returns.                                          *)
(***************************************************************************)
\* Only pending nodes are skipped, and every pending dependent of a failed or
\* a skipped node is skipped.
LEMMA SkipUnreachableIsClosed ==
    ASSUME NEW deps, NEW st, NEW failed
    PROVE  /\ SkipUnreachable(deps, st, failed) \subseteq PendingNodes(st)
           /\ SkipClosed(deps, st, failed, SkipUnreachable(deps, st, failed))
BY DEF SkipUnreachable, SkipClosed

\* A node is skipped only if it depends on a failed or a skipped one.
LEMMA SkipUnreachableHasCause ==
    ASSUME NEW deps, NEW st, NEW failed,
           NEW n \in SkipUnreachable(deps, st, failed)
    PROVE  deps[n] \cap (failed \cup SkipUnreachable(deps, st, failed)) # {}
<1> DEFINE K == SkipUnreachable(deps, st, failed)
<1>1. SUFFICES ASSUME deps[n] \cap (failed \cup K) = {} PROVE FALSE
  OBVIOUS
<1>2. K \subseteq PendingNodes(st) /\ SkipClosed(deps, st, failed, K)
  BY SkipUnreachableIsClosed
<1>3. SkipClosed(deps, st, failed, K \ {n})
  BY <1>1, <1>2 DEF SkipClosed
<1>4. K \ {n} \in SUBSET PendingNodes(st)
  BY <1>2
<1>5. n \in K \ {n}
  BY <1>3, <1>4 DEF SkipUnreachable
<1> QED BY <1>5

-----------------------------------------------------------------------------
(***************************************************************************)
(* The inductive invariant.  The properties of TaskExecutor speak of what  *)
(* an observer sees; they are preserved because of what the scheduler      *)
(* knows at the head of its loop: completed_ids and in_flight agree with   *)
(* the statuses, and no pending node has a dependency that blocks it       *)
(* (skip_unreachable has already caught every such node).                  *)
(***************************************************************************)
Outcomes == {"SUCCEEDED"} \cup Failures

SkipCause(st) ==
    \A n \in Nodes : st[n] = "SKIPPED" => \E d \in plan.deps[n] : Blocks(d, st)

Started(st, scr, tsk) ==
    \A n \in Nodes : tsk[n] # "none" =>
        \A d \in plan.deps[n] :
            /\ st[d] \in Terminal
            /\ scr[d] = st[d]
            /\ ~Blocks(d, st)

PendingUnblocked(st) ==
    \A n \in Nodes : st[n] = "PENDING" => \A d \in plan.deps[n] : ~Blocks(d, st)

Books(st, comp, flying, scr, tsk) ==
    /\ comp = {n \in Nodes : st[n] \in Terminal}
    /\ flying = {n \in Nodes : st[n] \in {"READY", "RUNNING"}}
    /\ \A n \in Nodes :
         /\ tsk[n] = "none" <=> st[n] \in {"PENDING", "SKIPPED"}
         /\ st[n] \in Terminal => scr[n] = st[n] /\ tsk[n] \in {"none", "ended"}

\* What holds at the head of the scheduler's loop, and at its awaits.
LoopHead(st, comp, flying, scr, tsk) ==
    /\ st \in [Nodes -> Status]
    /\ scr \in [Nodes -> Status \cup {"NONE"}]
    /\ Books(st, comp, flying, scr, tsk)
    /\ PendingUnblocked(st)
    /\ Started(st, scr, tsk)
    /\ SkipCause(st)

\* What holds when execute() returns from a valid plan.
AllSettled(st, scr, tsk) ==
    /\ st \in [Nodes -> Status]
    /\ scr \in [Nodes -> Status \cup {"NONE"}]
    /\ \A n \in Nodes :
         st[n] \in Terminal /\ scr[n] = st[n] /\ tsk[n] \in {"none", "ended"}
    /\ Started(st, scr, tsk)
    /\ SkipCause(st)

Fresh ==
    main = "idle" =>
        /\ completed = {} /\ inFlight = {}
        /\ \A n \in Nodes :
             /\ status[n] = "PENDING" /\ task[n] = "none"
             /\ outcome[n] = "NONE" /\ scratch[n] = "NONE" /\ result[n] = NoResult

Loop ==
    main \in {"waiting", "draining"} =>
        /\ Valid(plan.deps)
        /\ LoopHead(status, completed, inFlight, scratch, task)
        /\ inFlight # {}
        /\ \A n \in Nodes : status[n] \notin Terminal => result[n] = NoResult

Done ==
    main = "returned" =>
        IF Valid(plan.deps)
          THEN AllSettled(status, scratch, task)
          ELSE \A n \in Nodes : status[n] = "FAILED" /\ task[n] = "none"

Tasks ==
    /\ main = "draining" => cancel
    /\ \A n \in Nodes :
         /\ task[n] = "ended" => outcome[n] \in Outcomes \cup {"RAISED"}
         /\ main = "waiting" => outcome[n] # "RAISED"
         /\ main # "idle" /\ outcome[n] = "CANCELLED" => cancel

Inv ==
    /\ TypeOK
    /\ Fresh
    /\ Loop
    /\ Done
    /\ Tasks
    /\ CancelledOnlyOnRequest

\* What the inductive invariant says to an observer.
LEMMA InvImplies ==
    Inv => /\ StartedOnlyWhenReady /\ SkippedForCause
           /\ ReturnedIsComplete /\ CollectNeverRaises
<1> SUFFICES ASSUME Inv
             PROVE  /\ StartedOnlyWhenReady /\ SkippedForCause
                    /\ ReturnedIsComplete /\ CollectNeverRaises
  OBVIOUS
<1>1. main \in {"idle", "waiting", "draining", "returned"}
  BY DEF Inv, TypeOK
<1>2. StartedOnlyWhenReady
  BY <1>1 DEF Inv, Fresh, Loop, Done, LoopHead, AllSettled, Started,
              StartedOnlyWhenReady
<1>3. SkippedForCause
  BY <1>1 DEF Inv, Fresh, Loop, Done, LoopHead, AllSettled, SkipCause,
              SkippedForCause
<1>4. ReturnedIsComplete
  BY DEF Inv, Done, AllSettled, ReturnedIsComplete, Terminal, Failures
<1>5. CollectNeverRaises
  BY DEF Inv, TypeOK, Tasks, CollectNeverRaises, Ended
<1> QED BY <1>2, <1>3, <1>4, <1>5

-----------------------------------------------------------------------------
(***************************************************************************)
(* The steps of the scheduler, from one head of its loop to the next.      *)
(***************************************************************************)
\* Finishing ended nodes re-establishes what holds at the head of the loop:
\* whatever a failed critical node blocks has been skipped.
LEMMA FinishStep ==
    ASSUME TypeOK, Valid(plan.deps),
           LoopHead(status, completed, inFlight, scratch, task),
           NEW D \in SUBSET inFlight, NEW res,
           \A n \in D : task[n] = "ended" /\ res[n].status \in Outcomes
    PROVE  LoopHead(Finished(status, D, res), completed \cup D \cup SkippedBy(D, res),
                    inFlight \ D, Finished(scratch, D, res), task)
<1> DEFINE F   == CriticalFailures(D, res)
           K   == SkippedBy(D, res)
           st0 == [n \in Nodes |-> IF n \in D THEN res[n].status ELSE status[n]]
           st1 == Finished(status, D, res)
           sc1 == Finished(scratch, D, res)
<1>1. /\ D \subseteq Nodes
      /\ \A n \in D : status[n] \in {"READY", "RUNNING"}
      /\ Outcomes \subseteq Terminal \ {"SKIPPED"}
      /\ "PENDING" \notin Outcomes /\ Terminal \subseteq Status
      /\ \A s \in Terminal : s \notin {"PENDING", "READY", "RUNNING"}
  BY DEF TypeOK, LoopHead, Books, Outcomes, Terminal, Failures, Status
<1>2. /\ K \subseteq PendingNodes(st0)
      /\ SkipClosed(plan.deps, st0, F, K)
  BY SkipUnreachableIsClosed DEF SkippedBy
<1>3. \A n \in K : n \in Nodes /\ n \notin D /\ status[n] = "PENDING"
  BY <1>1, <1>2 DEF PendingNodes
<1>4. \A n \in K : plan.deps[n] \cap (F \cup K) # {}
  BY SkipUnreachableHasCause DEF SkippedBy
<1>5. \A n \in Nodes :
        /\ n \in D => st1[n] = res[n].status /\ sc1[n] = res[n].status
        /\ n \in K => st1[n] = "SKIPPED" /\ sc1[n] = "SKIPPED"
        /\ n \notin D \cup K => st1[n] = status[n] /\ sc1[n] = scratch[n]
  BY <1>3 DEF Finished
<1>6. st1 \in [Nodes -> Status] /\ sc1 \in [Nodes -> Status \cup {"NONE"}]
  BY <1>1 DEF Finished, TypeOK, Status, Terminal
<1>7. Books(st1, completed \cup D \cup K, inFlight \ D, sc1, task)
  BY <1>1, <1>3, <1>5 DEF LoopHead, Books, Terminal
<1>8. \A n \in Nodes : Blocks(n, st1) <=> Blocks(n, status) \/ n \in F \/ n \in K
  <2> SUFFICES ASSUME NEW n \in Nodes
               PROVE  Blocks(n, st1) <=> Blocks(n, status) \/ n \in F \/ n \in K
    OBVIOUS
  <2>1. CASE n \in D
    BY <2>1, <1>1, <1>3, <1>5 DEF Blocks, CriticalFailures, Failures
  <2>2. CASE n \in K
    BY <2>2, <1>3, <1>5 DEF Blocks
  <2>3. CASE n \notin D \cup K
    BY <2>3, <1>5 DEF Blocks, CriticalFailures
  <2> QED BY <2>1, <2>2, <2>3
<1>9. \A n \in Nodes : plan.deps[n] \subseteq Nodes
  BY DEF Valid, KnownDeps
<1>10. PendingUnblocked(st1)
  <2> SUFFICES ASSUME NEW n \in Nodes, st1[n] = "PENDING", NEW d \in plan.deps[n]
               PROVE  ~Blocks(d, st1)
    BY DEF PendingUnblocked
  <2>1. n \notin D \cup K /\ status[n] = "PENDING"
    BY <1>1, <1>5
  <2>2. ~Blocks(d, status)
    BY <2>1 DEF LoopHead, PendingUnblocked
  <2>3. d \notin F \cup K
    BY <2>1, <1>2 DEF SkipClosed, PendingNodes
  <2> QED BY <2>2, <2>3, <1>8, <1>9
<1>11. Started(st1, sc1, task)
  <2> SUFFICES ASSUME NEW n \in Nodes, task[n] # "none", NEW d \in plan.deps[n]
               PROVE  st1[d] \in Terminal /\ sc1[d] = st1[d] /\ ~Blocks(d, st1)
    BY DEF Started
  <2>1. d \in Nodes /\ status[d] \in Terminal /\ scratch[d] = status[d] /\ ~Blocks(d, status)
    BY <1>9 DEF LoopHead, Started
  <2>2. d \notin D /\ d \notin K /\ d \notin F
    BY <2>1, <1>1, <1>3 DEF CriticalFailures
  <2> QED BY <2>1, <2>2, <1>5, <1>8
<1>12. SkipCause(st1)
  <2> SUFFICES ASSUME NEW n \in Nodes, st1[n] = "SKIPPED"
               PROVE  \E d \in plan.deps[n] : Blocks(d, st1)
    BY DEF SkipCause
  <2>1. CASE n \in K
    BY <2>1, <1>4, <1>8, <1>9
  <2>2. CASE n \notin K
    <3>1. status[n] = "SKIPPED"
      BY <2>2, <1>1, <1>5
    <3>2. PICK d \in plan.deps[n] : Blocks(d, status)
      BY <3>1 DEF LoopHead, SkipCause
    <3> QED BY <3>2, <1>8, <1>9
  <2> QED BY <2>1, <2>2
<1> QED BY <1>6, <1>7, <1>10, <1>11, <1>12 DEF LoopHead

\* The deadlock guard: in a valid plan with no node in flight, a pending node
\* would mean that some pending node is ready, since the graph has no cycle.
LEMMA NothingLeftOver ==
    ASSUME Valid(plan.deps),
           NEW st, NEW comp, NEW flying, NEW scr, NEW tsk,
           LoopHead(st, comp, flying, scr, tsk),
           NothingToRun(st, comp, flying)
    PROVE  PendingNodes(st) = {}
<1>1. SUFFICES ASSUME PendingNodes(st) # {} PROVE FALSE
  OBVIOUS
<1>2. PICK n \in PendingNodes(st) : plan.deps[n] \cap PendingNodes(st) = {}
  <2>1. PendingNodes(st) \in SUBSET Nodes
    BY DEF PendingNodes
  <2> QED BY <1>1, <2>1 DEF Valid, Acyclic
<1>3. \A d \in plan.deps[n] : d \in Nodes /\ st[d] # "PENDING"
  BY <1>2 DEF Valid, KnownDeps, PendingNodes
<1>4. \A d \in Nodes : st[d] \notin {"READY", "RUNNING"}
  BY DEF NothingToRun, LoopHead, Books
<1>5. \A d \in plan.deps[n] : st[d] \in Terminal
  BY <1>3, <1>4 DEF LoopHead, Status
<1>6. plan.deps[n] \subseteq comp
  BY <1>3, <1>5 DEF LoopHead, Books
<1> QED BY <1>6 DEF NothingToRun, ReadyNodes

\* Marking the pending nodes as cancelled disturbs nothing that has started.
LEMMA CancelRest ==
    ASSUME NEW st, NEW comp, NEW scr, NEW tsk, Valid(plan.deps),
           LoopHead(st, comp, {}, scr, tsk)
    PROVE  AllSettled(MarkPending(st, "CANCELLED"),
                      [n \in Nodes |-> IF st[n] = "PENDING" THEN "CANCELLED" ELSE scr[n]], tsk)
<1> DEFINE st1 == MarkPending(st, "CANCELLED")
           sc1 == [n \in Nodes |-> IF st[n] = "PENDING" THEN "CANCELLED" ELSE scr[n]]
<1>1. \A n \in Nodes : plan.deps[n] \subseteq Nodes
  BY DEF Valid, KnownDeps
<1>2. \A n \in Nodes : st[n] \in Terminal \cup {"PENDING"}
  BY DEF LoopHead, Books, Status
<1>3. \A n \in Nodes : /\ st[n] = "PENDING" => st1[n] = "CANCELLED" /\ sc1[n] = "CANCELLED"
                       /\ st[n] # "PENDING" => st1[n] = st[n] /\ sc1[n] = scr[n]
  BY DEF MarkPending
<1>4. st1 \in [Nodes -> Status] /\ sc1 \in [Nodes -> Status \cup {"NONE"}]
  BY DEF LoopHead, MarkPending, Status, Terminal, Failures
<1>5. \A n \in Nodes : st1[n] \in Terminal /\ sc1[n] = st1[n] /\ tsk[n] \in {"none", "ended"}
  BY <1>2, <1>3 DEF LoopHead, Books, Terminal, Failures
<1>6. Started(st1, sc1, tsk)
  BY <1>1, <1>3 DEF LoopHead, Started, Blocks, Terminal, Failures
<1>7. SkipCause(st1)
  BY <1>1, <1>3 DEF LoopHead, SkipCause, Blocks, Failures
<1> QED BY <1>4, <1>5, <1>6, <1>7 DEF AllSettled

\* The changes that a turn of the loop makes to a node.
TurnMoves(c, st) ==
    \A n \in Nodes :
        \/ status'[n] = st[n] /\ task'[n] = task[n]
        \/ /\ st[n] = "PENDING" /\ status'[n] = "READY" /\ ~c
           /\ task[n] = "none" /\ task'[n] = "queued"
        \/ /\ st[n] = "PENDING" /\ status'[n] = "CANCELLED" /\ c
           /\ task'[n] = task[n]

\* One turn of the loop keeps what holds at its head, or settles every node.
LEMMA TurnStep ==
    ASSUME TypeOK, Valid(plan.deps), NEW c \in BOOLEAN,
           NEW st, NEW comp, NEW flying, NEW scr,
           LoopHead(st, comp, flying, scr, task),
           TurnOfLoop(c, st, comp, flying, scr)
    PROVE  /\ main' \in {"waiting", "draining", "returned"}
           /\ status' \in [Nodes -> Status]
           /\ scratch' \in [Nodes -> Status \cup {"NONE"}]
           /\ inFlight' \in SUBSET Nodes
           /\ task' \in [Nodes -> {"none", "queued", "invoking", "backoff", "ended"}]
           /\ turn' \in [Nodes -> Nat]
           /\ main' \in {"waiting", "draining"} =>
                LoopHead(status', comp, inFlight', scratch', task') /\ inFlight' # {}
           /\ main' = "returned" => AllSettled(status', scratch', task')
           /\ main' = "draining" => c
           /\ TurnMoves(c, st)
<1>1. \A n \in Nodes : plan.deps[n] \subseteq Nodes
  BY DEF Valid, KnownDeps
<1>2. /\ st \in [Nodes -> Status] /\ flying \in SUBSET Nodes
      /\ scr \in [Nodes -> Status \cup {"NONE"}]
  BY DEF LoopHead, Books
<1>3. CASE ~c /\ ~NothingToRun(st, comp, flying) /\ Schedule(st, comp, flying) /\ scratch' = scr
  <2> DEFINE R == ReadyNodes(plan.deps, st, comp)
  <2>1. /\ R \subseteq Nodes
        /\ \A n \in R : st[n] = "PENDING" /\ plan.deps[n] \subseteq comp
    BY DEF ReadyNodes, PendingNodes
  <2>2. /\ status' = [n \in Nodes |-> IF n \in R THEN "READY" ELSE st[n]]
        /\ task' = [n \in Nodes |-> IF n \in R THEN "queued" ELSE task[n]]
        /\ turn' = [n \in Nodes |-> IF st[n] = "PENDING" THEN turn[n] + 1 ELSE turn[n]]
        /\ inFlight' = flying \cup R
        /\ main' = "waiting"
    BY <1>3 DEF Schedule
  <2>3. /\ status' \in [Nodes -> Status]
        /\ task' \in [Nodes -> {"none", "queued", "invoking", "backoff", "ended"}]
        /\ turn' \in [Nodes -> Nat]
    BY <1>2, <2>2 DEF TypeOK, Status
  <2>4. \A n \in Nodes : st[n] \in Terminal => n \notin R /\ status'[n] = st[n]
    BY <2>1, <2>2 DEF Terminal, Failures
  <2>5. \A n \in Nodes : Blocks(n, status') <=> Blocks(n, st)
    BY <2>1, <2>2 DEF Blocks, Failures
  <2>6. Books(status', comp, inFlight', scratch', task')
    BY <1>2, <1>3, <2>1, <2>2, <2>4 DEF LoopHead, Books, Terminal, Failures
  <2>7. PendingUnblocked(status')
    BY <1>1, <2>2, <2>5 DEF LoopHead, PendingUnblocked
  <2>8. Started(status', scratch', task')
    <3> SUFFICES ASSUME NEW n \in Nodes, task'[n] # "none", NEW d \in plan.deps[n]
                 PROVE  status'[d] \in Terminal /\ scratch'[d] = status'[d]
                        /\ ~Blocks(d, status')
      BY DEF Started
    <3>1. CASE n \in R
      <4>1. st[d] \in Terminal /\ scr[d] = st[d] /\ ~Blocks(d, st)
        BY <3>1, <2>1, <1>1 DEF LoopHead, Books, PendingUnblocked
      <4> QED BY <4>1, <1>1, <1>3, <2>4, <2>5
    <3>2. CASE n \notin R
      <4>1. st[d] \in Terminal /\ scr[d] = st[d] /\ ~Blocks(d, st)
        BY <3>2, <2>2 DEF LoopHead, Started
      <4> QED BY <4>1, <1>1, <1>3, <2>4, <2>5
    <3> QED BY <3>1, <3>2
  <2>9. SkipCause(status')
    BY <1>1, <2>2, <2>5 DEF LoopHead, SkipCause
  <2>10. LoopHead(status', comp, inFlight', scratch', task')
    BY <1>2, <1>3, <2>3, <2>6, <2>7, <2>8, <2>9 DEF LoopHead
  <2>11. TurnMoves(c, st)
    <3>1. \A n \in R : task[n] = "none"
      BY <2>1 DEF LoopHead, Books
    <3> QED BY <1>2, <1>3, <2>1, <2>2, <3>1 DEF TurnMoves, TypeOK
  <2>12. inFlight' # {}
    BY <1>3, <2>2 DEF NothingToRun
  <2> QED BY <1>2, <1>3, <2>1, <2>2, <2>3, <2>10, <2>11, <2>12
<1>4. CASE /\ ~c /\ NothingToRun(st, comp, flying)
           /\ status' = MarkPending(st, "SKIPPED")
           /\ main' = "returned" /\ inFlight' = flying /\ scratch' = scr
           /\ UNCHANGED <<task, turn>>
  <2>1. PendingNodes(st) = {}
    BY <1>4, NothingLeftOver
  <2>2. status' = st
    BY <1>2, <1>4, <2>1 DEF MarkPending, PendingNodes
  <2>3. \A n \in Nodes : st[n] \in Terminal
    BY <1>2, <1>4, <2>1 DEF NothingToRun, LoopHead, Books, PendingNodes, Status
  <2>4. AllSettled(status', scratch', task')
    BY <1>2, <1>4, <2>2, <2>3 DEF LoopHead, Books, AllSettled
  <2> QED BY <1>2, <1>4, <2>2, <2>4 DEF TypeOK, TurnMoves
<1>5. CASE /\ c /\ flying # {}
           /\ status' = st
           /\ main' = "draining" /\ inFlight' = flying /\ scratch' = scr
           /\ UNCHANGED <<task, turn>>
  BY <1>2, <1>5 DEF TypeOK, TurnMoves
<1>6. CASE /\ c /\ flying = {}
           /\ status' = MarkPending(st, "CANCELLED")
           /\ scratch' = [n \in Nodes |-> IF st[n] = "PENDING" THEN "CANCELLED" ELSE scr[n]]
           /\ main' = "returned" /\ inFlight' = flying
           /\ UNCHANGED <<task, turn>>
  <2>1. AllSettled(status', scratch', task')
    BY <1>6, CancelRest
  <2>2. TurnMoves(c, st)
    BY <1>2, <1>6 DEF TurnMoves, MarkPending
  <2> QED BY <1>2, <1>6, <2>1, <2>2 DEF TypeOK, AllSettled
<1> QED BY <1>3, <1>4, <1>5, <1>6 DEF TurnOfLoop

-----------------------------------------------------------------------------
(***************************************************************************)
(* The invariant is inductive: one lemma for the initial states and for    *)
(* each kind of step.                                                      *)
(***************************************************************************)
LEMMA InitInv == Init => Inv
<1> SUFFICES ASSUME Init PROVE Inv
  OBVIOUS
<1>1. TypeOK
  <2>1. /\ plan \in Plans /\ permits \in Int /\ completed \in SUBSET Nodes
        /\ inFlight \in SUBSET Nodes /\ main = "idle"
    BY MaxParallelAssumption, SMT DEF Init
  <2>5. cancel \in BOOLEAN
    BY DEF Init
  <2>2. /\ status \in [Nodes -> Status]
        /\ result \in [Nodes -> [status : Status \cup {"NONE"}, attempts : Nat]]
        /\ scratch \in [Nodes -> Status \cup {"NONE"}]
    BY DEF Init, NoResult, Status
  <2>3. /\ task \in [Nodes -> {"none", "queued", "invoking", "backoff", "ended"}]
        /\ outcome \in [Nodes -> {"NONE", "RAISED", "SUCCEEDED"} \cup Failures]
        /\ attempts \in [Nodes -> Nat]
        /\ turn \in [Nodes -> Nat]
    BY DEF Init
  <2> QED BY <2>1, <2>2, <2>3, <2>5 DEF TypeOK
<1>2. Fresh /\ Loop /\ Done /\ Tasks /\ CancelledOnlyOnRequest
  BY DEF Init, Fresh, Loop, Done, Tasks, CancelledOnlyOnRequest
<1> QED BY <1>1, <1>2 DEF Inv

\* The primed form of a predicate on the scheduler's state, for a plan that
\* does not change.
LEMMA PrimedHead ==
    ASSUME plan' = plan
    PROVE  /\ LoopHead(status, completed, inFlight, scratch, task)' <=>
                LoopHead(status', completed', inFlight', scratch', task')
           /\ AllSettled(status, scratch, task)' <=> AllSettled(status', scratch', task')
BY DEF LoopHead, AllSettled, Books, PendingUnblocked, Started, SkipCause, Blocks

LEMMA ExecuteValidInv == Inv /\ ExecuteValid => Inv'
<1> SUFFICES ASSUME Inv, ExecuteValid PROVE Inv'
  OBVIOUS
<1>1. /\ TypeOK /\ main = "idle" /\ Valid(plan.deps) /\ cancel' = FALSE
      /\ TurnOfLoop(FALSE, status, completed, inFlight, scratch)
      /\ UNCHANGED <<plan, result, completed, outcome, attempts, permits>>
  BY DEF Inv, ExecuteValid, nodeVars
<1>2. /\ completed = {} /\ inFlight = {}
      /\ \A n \in Nodes : /\ status[n] = "PENDING" /\ task[n] = "none"
                          /\ outcome[n] = "NONE" /\ result[n] = NoResult
  BY <1>1 DEF Inv, Fresh
<1>3. LoopHead(status, completed, inFlight, scratch, task)
  BY <1>1, <1>2 DEF LoopHead, Books, PendingUnblocked, Started, SkipCause, Blocks,
     TypeOK, Terminal, Failures, Valid, KnownDeps
<1>4. /\ main' \in {"waiting", "draining", "returned"}
      /\ status' \in [Nodes -> Status]
      /\ scratch' \in [Nodes -> Status \cup {"NONE"}]
      /\ inFlight' \in SUBSET Nodes
      /\ task' \in [Nodes -> {"none", "queued", "invoking", "backoff", "ended"}]
      /\ turn' \in [Nodes -> Nat]
      /\ main' \in {"waiting", "draining"} =>
           LoopHead(status', completed, inFlight', scratch', task') /\ inFlight' # {}
      /\ main' = "returned" => AllSettled(status', scratch', task')
      /\ main' # "draining"
      /\ TurnMoves(FALSE, status)
  BY <1>1, <1>3, TurnStep
<1>5. TypeOK'
  BY <1>1, <1>4 DEF TypeOK
<1>6. Fresh' /\ Loop' /\ Done'
  BY <1>1, <1>2, <1>4, PrimedHead DEF Fresh, Loop, Done
<1>7. Tasks'
  BY <1>1, <1>2, <1>4 DEF Tasks, TurnMoves
<1>8. CancelledOnlyOnRequest'
  BY <1>1, <1>2, <1>4 DEF CancelledOnlyOnRequest, TurnMoves
<1> QED BY <1>5, <1>6, <1>7, <1>8 DEF Inv

LEMMA ExecuteInvalidInv == Inv /\ ExecuteInvalid => Inv'
<1> SUFFICES ASSUME Inv, ExecuteInvalid PROVE Inv'
  OBVIOUS
<1>1. /\ main = "idle" /\ ~Valid(plan.deps) /\ cancel' = FALSE /\ main' = "returned"
      /\ status' = [n \in Nodes |-> "FAILED"]
      /\ result' = [n \in Nodes |-> [status |-> "FAILED", attempts |-> 0]]
      /\ UNCHANGED <<plan, completed, inFlight, task, turn, scratch,
                     outcome, attempts, permits>>
  BY DEF ExecuteInvalid, nodeVars
<1>2. TypeOK'
  BY <1>1 DEF Inv, TypeOK, Status, Terminal, Failures
<1>3. ~Valid(plan.deps)' /\ Fresh' /\ Loop'
  BY <1>1 DEF Fresh, Loop, Valid, KnownDeps, Acyclic
<1>4. Done'
  BY <1>1, <1>3 DEF Inv, Fresh, Done
<1>5. Tasks' /\ CancelledOnlyOnRequest'
  BY <1>1 DEF Inv, Fresh, Tasks, CancelledOnlyOnRequest
<1> QED BY <1>2, <1>3, <1>4, <1>5 DEF Inv

LEMMA CancelInv == Inv /\ Cancel => Inv'
<1> SUFFICES ASSUME Inv, Cancel PROVE Inv'
  OBVIOUS
<1>1. UNCHANGED <<plan, main, status, result, completed, inFlight, task, turn,
                  scratch, outcome, attempts, permits>> /\ cancel' = TRUE
  BY DEF Cancel, nodeVars
<1>2. TypeOK' /\ Fresh' /\ Tasks' /\ CancelledOnlyOnRequest'
  BY <1>1 DEF Inv, TypeOK, Fresh, Tasks, CancelledOnlyOnRequest
<1>3. Loop' /\ Done'
  BY <1>1, PrimedHead DEF Inv, Loop, Done
<1> QED BY <1>2, <1>3 DEF Inv

\* What Collect does: the ended nodes are finished with what their tasks
\* returned, which brings the scheduler to the head of its loop, and it turns.
Returns == [n \in Nodes |-> [status |-> outcome[n], attempts |-> attempts[n]]]

LEMMA CollectHead ==
    ASSUME Inv, Collect
    PROVE  /\ Ended \in SUBSET inFlight /\ Ended \subseteq Nodes
           /\ \A n \in Ended : task[n] = "ended" /\ outcome[n] \in Outcomes
           /\ LoopHead(Finished(status, Ended, Returns), completed', inFlight \ Ended,
                       Finished(scratch, Ended, Returns), task)
           /\ TurnOfLoop(cancel, Finished(status, Ended, Returns), completed',
                         inFlight \ Ended, Finished(scratch, Ended, Returns))
           /\ result' = [n \in Nodes |-> IF n \in Ended THEN Returns[n] ELSE result[n]]
<1>1. /\ TypeOK /\ main = "waiting"
      /\ Valid(plan.deps)
      /\ LoopHead(status, completed, inFlight, scratch, task)
  BY DEF Inv, Collect, Loop
<1>2. /\ \A n \in Ended : outcome[n] # "RAISED"
      /\ result' = [n \in Nodes |-> IF n \in Ended THEN Returns[n] ELSE result[n]]
      /\ completed' = completed \cup Ended \cup SkippedBy(Ended, Returns)
      /\ TurnOfLoop(cancel, Finished(status, Ended, Returns), completed',
                    inFlight \ Ended, Finished(scratch, Ended, Returns))
  BY DEF Collect, FinishNodes, Returns
<1>3. /\ Ended \in SUBSET inFlight /\ Ended \subseteq Nodes
      /\ \A n \in Ended : task[n] = "ended" /\ outcome[n] \in Outcomes
  BY <1>1, <1>2 DEF Ended, TypeOK, Inv, Tasks
<1>4. \A n \in Ended : Returns[n].status = outcome[n]
  BY <1>3 DEF Returns
<1>5. LoopHead(Finished(status, Ended, Returns), completed', inFlight \ Ended,
               Finished(scratch, Ended, Returns), task)
  BY <1>1, <1>2, <1>3, <1>4, FinishStep
<1> QED BY <1>2, <1>3, <1>5

LEMMA CollectInv == Inv /\ Collect => Inv'
<1> SUFFICES ASSUME Inv, Collect PROVE Inv'
  OBVIOUS
<1> DEFINE st  == Finished(status, Ended, Returns)
           scr == Finished(scratch, Ended, Returns)
<1>1. /\ TypeOK /\ main = "waiting" /\ cancel \in BOOLEAN
      /\ Valid(plan.deps)
      /\ \A n \in Nodes : status[n] \notin Terminal => result[n] = NoResult
      /\ UNCHANGED <<plan, cancel, outcome, attempts, permits>>
  BY DEF Inv, Collect, Loop, TypeOK, nodeVars
<1>2. /\ Ended \in SUBSET inFlight /\ Ended \subseteq Nodes
      /\ \A n \in Ended : task[n] = "ended" /\ outcome[n] \in Outcomes
      /\ LoopHead(st, completed', inFlight \ Ended, scr, task)
      /\ TurnOfLoop(cancel, st, completed', inFlight \ Ended, scr)
      /\ result' = [n \in Nodes |-> IF n \in Ended THEN Returns[n] ELSE result[n]]
  BY CollectHead
<1>3. /\ main' \in {"waiting", "draining", "returned"}
      /\ status' \in [Nodes -> Status]
      /\ scratch' \in [Nodes -> Status \cup {"NONE"}]
      /\ inFlight' \in SUBSET Nodes
      /\ task' \in [Nodes -> {"none", "queued", "invoking", "backoff", "ended"}]
      /\ turn' \in [Nodes -> Nat]
      /\ main' \in {"waiting", "draining"} =>
           LoopHead(status', completed', inFlight', scratch', task') /\ inFlight' # {}
      /\ main' = "returned" => AllSettled(status', scratch', task')
      /\ main' = "draining" => cancel
      /\ TurnMoves(cancel, st)
  BY <1>1, <1>2, TurnStep
<1>4. \A n \in Nodes : /\ n \in Ended => st[n] = outcome[n]
                       /\ n \notin Ended => st[n] \in {status[n], "SKIPPED"}
  BY <1>2 DEF Finished, Returns
<1>5. Outcomes \subseteq Terminal /\ Terminal \subseteq Status /\ "SKIPPED" \in Terminal
  BY DEF Outcomes, Terminal, Status
<1>6. TypeOK'
  <2>1. result' \in [Nodes -> [status : Status \cup {"NONE"}, attempts : Nat]]
    BY <1>1, <1>2, <1>5 DEF TypeOK, Returns
  <2>2. completed' \in SUBSET Nodes
    BY <1>2 DEF LoopHead, Books
  <2> QED BY <1>1, <1>3, <2>1, <2>2 DEF TypeOK
<1>7. \A n \in Nodes : status'[n] \notin Terminal => result'[n] = NoResult
  <2> SUFFICES ASSUME NEW n \in Nodes, status'[n] \notin Terminal
               PROVE  result'[n] = NoResult
    OBVIOUS
  <2>1. st[n] \notin Terminal
    BY <1>3 DEF TurnMoves, Terminal, Failures
  <2>2. n \notin Ended /\ status[n] \notin Terminal
    BY <2>1, <1>2, <1>4, <1>5
  <2> QED BY <2>2, <1>1, <1>2
<1>8. Fresh' /\ Loop' /\ Done'
  BY <1>1, <1>3, <1>7, PrimedHead DEF Fresh, Loop, Done
<1>9. Tasks'
  BY <1>1, <1>3 DEF Inv, Tasks, TurnMoves
<1>10. CancelledOnlyOnRequest'
  <2> SUFFICES ASSUME NEW n \in Nodes, status'[n] = "CANCELLED" PROVE cancel
    BY <1>1 DEF CancelledOnlyOnRequest
  <2>1. CASE n \in Ended /\ outcome[n] = "CANCELLED"
    BY <2>1, <1>1 DEF Inv, Tasks
  <2>2. CASE status[n] = "CANCELLED"
    BY <2>2, <1>1 DEF Inv, CancelledOnlyOnRequest
  <2> QED BY <2>1, <2>2, <1>3, <1>4 DEF TurnMoves
<1> QED BY <1>6, <1>8, <1>9, <1>10 DEF Inv

LEMMA DrainDoneInv == Inv /\ DrainDone => Inv'
<1> SUFFICES ASSUME Inv, DrainDone PROVE Inv'
  OBVIOUS
<1> DEFINE res == [n \in Nodes |-> [status |-> "CANCELLED", attempts |-> 0]]
           D   == {n \in inFlight : result[n] = NoResult}
           st  == Finished(status, D, res)
           scr == Finished(scratch, D, res)
           K   == SkippedBy(D, res)
<1>1. /\ TypeOK /\ main = "draining" /\ cancel
      /\ Valid(plan.deps)
      /\ LoopHead(status, completed, inFlight, scratch, task)
      /\ \A n \in Nodes : status[n] \notin Terminal => result[n] = NoResult
  BY DEF Inv, DrainDone, Loop, Tasks
<1>2. /\ Ended = inFlight /\ inFlight' = {} /\ main' = "returned"
      /\ result' = [n \in Nodes |-> IF n \in D THEN res[n] ELSE result[n]]
      /\ completed' = completed \cup D \cup K
      /\ status' = MarkPending(st, "CANCELLED")
      /\ scratch' = [n \in Nodes |-> IF st[n] = "PENDING" THEN "CANCELLED" ELSE scr[n]]
      /\ UNCHANGED <<plan, cancel, task, turn, outcome, attempts, permits>>
  BY DEF DrainDone, FinishNodes, nodeVars
<1>3. D = inFlight /\ inFlight \subseteq Nodes
  BY <1>1 DEF LoopHead, Books, Terminal, Failures
<1>4. \A n \in D : task[n] = "ended" /\ res[n].status \in Outcomes
  BY <1>2, <1>3 DEF Ended, Outcomes, Failures
<1>5. LoopHead(st, completed', inFlight \ D, scr, task)
  BY <1>1, <1>2, <1>3, <1>4, FinishStep
<1>6. AllSettled(status', scratch', task')
  <2>1. LoopHead(st, completed', {}, scr, task)
    BY <1>3, <1>5
  <2>2. AllSettled(status', scratch', task)
    BY <1>1, <1>2, <2>1, CancelRest
  <2> QED BY <1>2, <2>2
<1>7. completed' \in SUBSET Nodes
  BY <1>5 DEF LoopHead, Books
<1>8. TypeOK'
  BY <1>1, <1>2, <1>6, <1>7 DEF TypeOK, AllSettled, Status, Terminal, Failures
<1>9. Fresh' /\ Loop' /\ Done'
  <2>1. Valid(plan.deps)'
    BY <1>1, <1>2
  <2>2. AllSettled(status, scratch, task)'
    BY <1>2, <1>6, PrimedHead
  <2> QED BY <1>2, <2>1, <2>2 DEF Fresh, Loop, Done
<1>10. Tasks' /\ CancelledOnlyOnRequest'
  BY <1>1, <1>2 DEF Inv, Tasks, CancelledOnlyOnRequest
<1> QED BY <1>8, <1>9, <1>10 DEF Inv

(***************************************************************************)
(* The steps of a task.  None of them settles a node: it moves its own     *)
(* task along, and at most from READY to RUNNING.                          *)
(***************************************************************************)
TaskStep(n) ==
    /\ n \in Nodes
    /\ UNCHANGED mainVars
    /\ main \in {"waiting", "draining"}
    /\ task[n] \in {"queued", "invoking", "backoff"}
    /\ \E t \in {"invoking", "backoff", "ended"} : task' = [task EXCEPT ![n] = t]
    /\ status' = status \/ status' = [status EXCEPT ![n] = "RUNNING"]
    /\ outcome' \in [Nodes -> {"NONE", "RAISED", "SUCCEEDED"} \cup Failures]
    /\ attempts' \in [Nodes -> Nat]
    /\ permits' \in Int
    /\ \A m \in Nodes : m # n => outcome'[m] = outcome[m]
    /\ \/ outcome'[n] = outcome[n] /\ task'[n] # "ended"
       \/ /\ task'[n] = "ended" /\ outcome'[n] \in Outcomes \cup {"RAISED"}
          /\ main = "waiting" => outcome'[n] # "RAISED"
          /\ outcome'[n] = "CANCELLED" => cancel

LEMMA RunNodeIsTaskStep ==
    ASSUME Inv, NEW n \in Nodes, RunNode(n)
    PROVE  TaskStep(n)
<1>1. TypeOK /\ (main = "draining" => cancel)
  BY DEF Inv, Tasks
<1>2. CASE AcquireSlot(n)
  <2>1. /\ main = "waiting" /\ task[n] = "queued" /\ UNCHANGED mainVars
        /\ status' = [status EXCEPT ![n] = "RUNNING"] /\ Attempt(n, 0)
    BY <1>2 DEF AcquireSlot
  <2>2. CASE /\ cancel /\ End(n, "CANCELLED") /\ permits' = permits + 0
             /\ UNCHANGED attempts
    BY <1>1, <2>1, <2>2 DEF TypeOK, End, TaskStep, Outcomes, Failures
  <2>3. CASE /\ task' = [task EXCEPT ![n] = "invoking"]
             /\ attempts' = [attempts EXCEPT ![n] = @ + 1]
             /\ permits' = permits - (1 - 0)
             /\ UNCHANGED outcome
    BY <1>1, <2>1, <2>3 DEF TypeOK, TaskStep
  <2> QED BY <2>1, <2>2, <2>3 DEF Attempt
<1>3. CASE BackoffOver(n)
  BY <1>1, <1>3 DEF TypeOK, BackoffOver, Attempt, End, TaskStep, Outcomes, Failures
<1>4. CASE InvokeSucceeds(n)
  BY <1>1, <1>4 DEF TypeOK, InvokeSucceeds, End, TaskStep, Outcomes, Failures
<1>5. ASSUME NEW s \in {"FAILED", "TIMED_OUT"}, InvokeFails(n, s) PROVE TaskStep(n)
  BY <1>1, <1>5 DEF TypeOK, InvokeFails, End, TaskStep, Outcomes, Failures
<1>6. CASE AbortInvoke(n)
  BY <1>1, <1>6 DEF TypeOK, AbortInvoke, End, TaskStep, Outcomes, Failures
<1>7. CASE AbortElsewhere(n)
  BY <1>1, <1>7 DEF TypeOK, AbortElsewhere, End, TaskStep, Outcomes, Failures
<1> QED BY <1>2, <1>3, <1>4, <1>5, <1>6, <1>7 DEF RunNode

LEMMA TaskStepInv ==
    ASSUME Inv, NEW n \in Nodes, TaskStep(n)
    PROVE  Inv'
<1>1. /\ TypeOK /\ main \in {"waiting", "draining"}
      /\ Valid(plan.deps)
      /\ LoopHead(status, completed, inFlight, scratch, task) /\ inFlight # {}
      /\ \A m \in Nodes : status[m] \notin Terminal => result[m] = NoResult
  BY DEF Inv, Loop, TaskStep
<1>2. UNCHANGED <<plan, main, cancel, result, completed, inFlight, turn, scratch>>
  BY DEF TaskStep, mainVars
<1>3. PICK t \in {"invoking", "backoff", "ended"} : task' = [task EXCEPT ![n] = t]
  BY DEF TaskStep
<1>4. task[n] \in {"queued", "invoking", "backoff"}
  BY DEF TaskStep
<1>5. status[n] \in {"READY", "RUNNING"}
  BY <1>1, <1>4 DEF LoopHead, Books, Status
<1>6. /\ \A m \in Nodes : m # n => status'[m] = status[m]
      /\ status'[n] \in {"READY", "RUNNING"}
      /\ status' \in [Nodes -> Status]
  BY <1>1, <1>5 DEF TaskStep, TypeOK, Status
<1>7. /\ \A m \in Nodes : m # n => task'[m] = task[m]
      /\ task'[n] = t
      /\ task' \in [Nodes -> {"none", "queued", "invoking", "backoff", "ended"}]
  BY <1>1, <1>3 DEF TypeOK
<1>8. LoopHead(status', completed, inFlight, scratch, task')
  <2>1. \A m \in Nodes : plan.deps[m] \subseteq Nodes
    BY <1>1 DEF Valid, KnownDeps
  <2>2. \A m \in Nodes : /\ Blocks(m, status') <=> Blocks(m, status)
                         /\ status'[m] \in Terminal <=> status[m] \in Terminal
                         /\ status[m] \in Terminal => status'[m] = status[m]
    BY <1>5, <1>6 DEF Blocks, Terminal, Failures
  <2>3. Books(status', completed, inFlight, scratch, task')
    BY <1>1, <1>4, <1>5, <1>6, <1>7, <2>2 DEF LoopHead, Books, Terminal, Failures
  <2>4. PendingUnblocked(status') /\ SkipCause(status')
    BY <1>1, <1>5, <1>6, <2>1, <2>2 DEF LoopHead, PendingUnblocked, SkipCause
  <2>5. Started(status', scratch, task')
    BY <1>1, <1>4, <1>7, <2>1, <2>2 DEF LoopHead, Started
  <2> QED BY <1>1, <1>6, <2>3, <2>4, <2>5 DEF LoopHead
<1>9. TypeOK'
  BY <1>1, <1>2, <1>6, <1>7 DEF TypeOK, TaskStep
<1>10. Fresh' /\ Done'
  BY <1>1, <1>2 DEF Fresh, Done
<1>11. Loop'
  <2>1. LoopHead(status, completed, inFlight, scratch, task)'
    BY <1>2, <1>8, PrimedHead
  <2>2. \A m \in Nodes : status'[m] \notin Terminal => result'[m] = NoResult
    BY <1>1, <1>2, <1>5, <1>6 DEF Terminal, Failures
  <2> QED BY <1>1, <1>2, <2>1, <2>2 DEF Loop
<1>12. Tasks'
  BY <1>1, <1>2, <1>7 DEF Inv, Tasks, TaskStep, Outcomes, Failures
<1>13. CancelledOnlyOnRequest'
  BY <1>2, <1>6 DEF Inv, CancelledOnlyOnRequest
<1> QED BY <1>9, <1>10, <1>11, <1>12, <1>13 DEF Inv

LEMMA NextInv == Inv /\ [Next]_vars => Inv'
<1> SUFFICES ASSUME Inv, [Next]_vars PROVE Inv'
  OBVIOUS
<1>1. CASE Scheduler
  BY <1>1, ExecuteValidInv, ExecuteInvalidInv, CollectInv, DrainDoneInv DEF Scheduler
<1>2. CASE Cancel
  BY <1>2, CancelInv
<1>3. ASSUME NEW n \in Nodes, RunNode(n) PROVE Inv'
  BY <1>3, RunNodeIsTaskStep, TaskStepInv
<1>4. CASE UNCHANGED vars
  <2>1. UNCHANGED <<plan, main, cancel, status, result, completed, inFlight, task,
                    outcome, attempts, permits, turn, scratch>>
    BY <1>4 DEF vars
  <2>2. TypeOK' /\ Fresh' /\ Tasks' /\ CancelledOnlyOnRequest'
    BY <2>1 DEF Inv, TypeOK, Fresh, Tasks, CancelledOnlyOnRequest
  <2>3. Loop' /\ Done'
    BY <2>1, PrimedHead DEF Inv, Loop, Done
  <2> QED BY <2>2, <2>3 DEF Inv
<1> QED BY <1>1, <1>2, <1>3, <1>4 DEF Next, Returned

THEOREM Invariant == Spec => []Inv
<1>1. Init => Inv
  BY InitInv
<1>2. Inv /\ [Next]_vars => Inv'
  BY NextInv
<1> QED BY <1>1, <1>2, PTL DEF Spec

-----------------------------------------------------------------------------
\* Every variable keeps its type.
THEOREM TypeCorrect == Spec => []TypeOK
<1>1. Inv => TypeOK
  BY DEF Inv
<1> QED BY <1>1, Invariant, PTL

\* A node runs only after its dependencies have settled, been recorded for its
\* context and proved not to block it.
THEOREM DependenciesRespected == Spec => []StartedOnlyWhenReady
<1>1. Inv => StartedOnlyWhenReady
  BY InvImplies
<1> QED BY <1>1, Invariant, PTL

\* Whatever is skipped is skipped because a dependency blocks it, so the
\* deadlock guard of execute() never fires.
THEOREM SkipsHaveCause == Spec => []SkippedForCause
<1>1. Inv => SkippedForCause
  BY InvImplies
<1> QED BY <1>1, Invariant, PTL

\* When execute() returns, nothing is left unsettled, running or unrecorded.
THEOREM CompleteOnReturn == Spec => []ReturnedIsComplete
<1>1. Inv => ReturnedIsComplete
  BY InvImplies
<1> QED BY <1>1, Invariant, PTL

\* task.result() never raises into execute(), so execute() itself never raises.
THEOREM NeverRaises == Spec => []CollectNeverRaises
<1>1. Inv => CollectNeverRaises
  BY InvImplies
<1> QED BY <1>1, Invariant, PTL

\* A node is reported cancelled only if cancel() was called during the run.
THEOREM CancelledHonestly == Spec => []CancelledOnlyOnRequest
<1>1. Inv => CancelledOnlyOnRequest
  BY DEF Inv
<1> QED BY <1>1, Invariant, PTL

-----------------------------------------------------------------------------
(***************************************************************************)
(* What follows from the inductive invariant: the semaphore never leaks a  *)
(* slot, nothing is begun once cancellation has been requested, and the    *)
(* executor implements PlanContract.                                       *)
(***************************************************************************)
\* The only task a step of the scheduler touches is one it creates, and after a
\* cancellation it creates none.
LEMMA SchedulerCreatesTasks ==
    ASSUME Inv, Scheduler, NEW n \in Nodes
    PROVE  \/ task'[n] = task[n]
           \/ /\ task[n] = "none" /\ task'[n] = "queued"
              /\ main = "idle" \/ ~cancel
<1>1. CASE ExecuteValid
  <2>1. /\ main = "idle" /\ TurnOfLoop(FALSE, status, completed, inFlight, scratch)
        /\ \A m \in Nodes : task[m] = "none"
    BY <1>1 DEF ExecuteValid, Inv, Fresh
  <2>2. \/ task' = task
        \/ task' = [m \in Nodes |-> IF m \in ReadyNodes(plan.deps, status, completed)
                                    THEN "queued" ELSE task[m]]
    BY <2>1 DEF TurnOfLoop, Schedule
  <2> QED BY <2>1, <2>2
<1>2. CASE Collect
  <2> DEFINE st  == Finished(status, Ended, Returns)
             scr == Finished(scratch, Ended, Returns)
  <2>1. TypeOK /\ Valid(plan.deps) /\ cancel \in BOOLEAN
    BY <1>2 DEF Inv, Loop, Collect, TypeOK
  <2>2. /\ LoopHead(st, completed', inFlight \ Ended, scr, task)
        /\ TurnOfLoop(cancel, st, completed', inFlight \ Ended, scr)
    BY <1>2, CollectHead
  <2>3. TurnMoves(cancel, st)
    BY <2>1, <2>2, TurnStep
  <2> QED BY <2>3 DEF TurnMoves
<1>3. CASE ExecuteInvalid \/ DrainDone
  BY <1>3 DEF ExecuteInvalid, DrainDone
<1> QED BY <1>1, <1>2, <1>3 DEF Scheduler

-----------------------------------------------------------------------------
(***************************************************************************)
(* The slots of the semaphore.                                             *)
(***************************************************************************)
LEMMA HoldingIsFinite == IsFiniteSet(Holding) /\ Cardinality(Holding) \in Nat
<1>1. Holding \in SUBSET Nodes
  BY DEF Holding
<1>2. IsFiniteSet(Holding)
  BY <1>1, NodesAssumption, FS_Subset
<1> QED BY <1>2, FS_CardinalityType

LEMMA InitSlots == Init => SlotsAccounted
<1> SUFFICES ASSUME Init PROVE SlotsAccounted
  OBVIOUS
<1>1. Holding = {} /\ permits = MaxParallel
  BY DEF Init, Holding
<1>2. Cardinality(Holding) = 0
  BY <1>1, FS_EmptySet
<1> QED BY <1>1, <1>2, MaxParallelAssumption DEF SlotsAccounted

\* A task takes a permit when it enters the set of holders, returns it when it
\* leaves, and touches no permit otherwise.
LEMMA SlotsKept ==
    ASSUME Inv, SlotsAccounted, NEW n \in Nodes, RunNode(n)
    PROVE  SlotsAccounted'
<1>1. TypeOK /\ permits \in Int /\ n \in DOMAIN task /\ IsFiniteSet(Holding)
      /\ Cardinality(Holding) \in Nat
  BY HoldingIsFinite DEF Inv, TypeOK
<1>2. \/ Holding' = Holding /\ permits' = permits
      \/ n \notin Holding /\ Holding' = Holding \cup {n}
           /\ permits > 0 /\ permits' = permits - 1
      \/ n \in Holding /\ Holding' = Holding \ {n} /\ permits' = permits + 1
  <2>1. CASE AcquireSlot(n)
    <3>1. /\ task[n] = "queued" /\ permits > 0
          /\ \/ task' = [task EXCEPT ![n] = "ended"] /\ permits' = permits + 0
             \/ task' = [task EXCEPT ![n] = "invoking"] /\ permits' = permits - (1 - 0)
      BY <2>1 DEF AcquireSlot, Attempt, End
    <3> QED BY <1>1, <3>1 DEF TypeOK, Holding
  <2>2. CASE BackoffOver(n)
    <3>1. /\ task[n] = "backoff"
          /\ \/ task' = [task EXCEPT ![n] = "ended"] /\ permits' = permits + 1
             \/ task' = [task EXCEPT ![n] = "invoking"] /\ permits' = permits - (1 - 1)
      BY <2>2 DEF BackoffOver, Attempt, End
    <3> QED BY <1>1, <3>1 DEF TypeOK, Holding
  <2>3. CASE InvokeSucceeds(n) \/ AbortInvoke(n)
    <3>1. task[n] = "invoking" /\ task' = [task EXCEPT ![n] = "ended"]
          /\ permits' = permits + 1
      BY <2>3 DEF InvokeSucceeds, AbortInvoke, End
    <3> QED BY <1>1, <3>1 DEF TypeOK, Holding
  <2>4. ASSUME NEW s \in {"FAILED", "TIMED_OUT"}, InvokeFails(n, s)
        PROVE  \/ Holding' = Holding /\ permits' = permits
               \/ n \in Holding /\ Holding' = Holding \ {n} /\ permits' = permits + 1
    <3>1. /\ task[n] = "invoking"
          /\ \/ task' = [task EXCEPT ![n] = "ended"] /\ permits' = permits + 1
             \/ task' = [task EXCEPT ![n] = "backoff"] /\ permits' = permits
      BY <2>4 DEF InvokeFails, End
    <3> QED BY <1>1, <3>1 DEF TypeOK, Holding
  <2>5. CASE AbortElsewhere(n)
    <3>1. /\ task[n] \in {"queued", "backoff"} /\ task' = [task EXCEPT ![n] = "ended"]
          /\ permits' = permits + (IF task[n] = "backoff" THEN 1 ELSE 0)
      BY <2>5 DEF AbortElsewhere, End
    <3> QED BY <1>1, <3>1 DEF TypeOK, Holding
  <2> QED BY <2>1, <2>2, <2>3, <2>4, <2>5 DEF RunNode
<1>3. /\ n \notin Holding => Cardinality(Holding \cup {n}) = Cardinality(Holding) + 1
      /\ n \in Holding => Cardinality(Holding \ {n}) = Cardinality(Holding) - 1
  BY <1>1, FS_AddElement, FS_RemoveElement
<1>4. \/ Cardinality(Holding') = Cardinality(Holding) /\ permits' = permits
      \/ /\ Cardinality(Holding') = Cardinality(Holding) + 1
         /\ permits > 0 /\ permits' = permits - 1
      \/ Cardinality(Holding') = Cardinality(Holding) - 1 /\ permits' = permits + 1
  <2>1. CASE Holding' = Holding /\ permits' = permits
    BY <2>1
  <2>2. CASE /\ n \notin Holding /\ Holding' = Holding \cup {n}
             /\ permits > 0 /\ permits' = permits - 1
    <3>1. Cardinality(Holding') = Cardinality(Holding \cup {n})
      BY <2>2
    <3> QED BY <2>2, <3>1, <1>3
  <2>3. CASE n \in Holding /\ Holding' = Holding \ {n} /\ permits' = permits + 1
    <3>1. Cardinality(Holding') = Cardinality(Holding \ {n})
      BY <2>3
    <3> QED BY <2>3, <3>1, <1>3
  <2> QED BY <1>2, <2>1, <2>2, <2>3
<1>5. MaxParallel \in Nat /\ permits >= 0 /\ permits + Cardinality(Holding) = MaxParallel
  BY MaxParallelAssumption DEF SlotsAccounted
<1> QED BY <1>1, <1>4, <1>5 DEF SlotsAccounted

\* No slot of the semaphore is lost or invented, so at most max_parallel nodes
\* run at once, on every path out of _run_node.
THEOREM SlotsSafe == Spec => []SlotsAccounted
<1>1. Init => SlotsAccounted
  BY InitSlots
<1>2. Inv /\ SlotsAccounted /\ [Next]_vars => SlotsAccounted'
  <2> SUFFICES ASSUME Inv, SlotsAccounted, [Next]_vars PROVE SlotsAccounted'
    OBVIOUS
  <2>1. CASE Scheduler
    <3>1. \A n \in Nodes : \/ task'[n] = task[n]
                           \/ task[n] = "none" /\ task'[n] = "queued"
      BY <2>1, SchedulerCreatesTasks
    <3>2. Holding' = Holding
      BY <3>1 DEF Holding
    <3>3. permits' = permits
      BY <2>1 DEF Scheduler, ExecuteValid, ExecuteInvalid, Collect, DrainDone, nodeVars
    <3> QED BY <3>2, <3>3 DEF SlotsAccounted
  <2>2. CASE Cancel \/ UNCHANGED vars
    <3>1. task' = task /\ permits' = permits
      BY <2>2 DEF Cancel, vars, nodeVars
    <3>2. Holding' = Holding
      BY <3>1 DEF Holding
    <3> QED BY <3>1, <3>2 DEF SlotsAccounted
  <2>3. ASSUME NEW n \in Nodes, RunNode(n) PROVE SlotsAccounted'
    BY <2>3, SlotsKept
  <2> QED BY <2>1, <2>2, <2>3 DEF Next, Returned
<1> QED BY <1>1, <1>2, Invariant, PTL DEF Spec

-----------------------------------------------------------------------------
\* Once cancel() has been called during a run, no node is handed to the event
\* loop and no attempt is begun, neither a first one nor a retry.
THEOREM NothingBegunAfterCancel == Spec => NoStartAfterCancel
<1> DEFINE Quiet == cancel /\ main # "idle" =>
                      \A n \in Nodes : task'[n] \in {"queued", "invoking"} => task'[n] = task[n]
<1>1. Inv /\ [Next]_vars => [Quiet]_vars
  <2> SUFFICES ASSUME Inv, [Next]_vars, cancel, main # "idle",
                      NEW n \in Nodes, task'[n] \in {"queued", "invoking"}
               PROVE  task'[n] = task[n]
    OBVIOUS
  <2>1. CASE Scheduler
    BY <2>1, SchedulerCreatesTasks
  <2>2. CASE Cancel \/ UNCHANGED vars
    BY <2>2 DEF Cancel, vars
  <2>3. ASSUME NEW m \in Nodes, RunNode(m) PROVE task'[n] = task[n]
    <3>1. \E t \in {"backoff", "ended"} : task' = [task EXCEPT ![m] = t]
      BY <2>3 DEF RunNode, AcquireSlot, BackoffOver, InvokeSucceeds, InvokeFails,
                  AbortInvoke, AbortElsewhere, Attempt, End
    <3>2. task \in [Nodes -> {"none", "queued", "invoking", "backoff", "ended"}]
      BY DEF Inv, TypeOK
    <3> QED BY <3>1, <3>2
  <2> QED BY <2>1, <2>2, <2>3 DEF Next, Returned
<1> QED BY <1>1, Invariant, PTL DEF Spec, NoStartAfterCancel

-----------------------------------------------------------------------------
(***************************************************************************)
(* The attempts of a node.  While a node is in its loop it has made no     *)
(* more attempts than its policy allows, and only a node with attempts     *)
(* left backs off; so without a cancellation a task that ends with a       *)
(* failure has used them all up, and that is what Collect stores.          *)
(***************************************************************************)
Attempted ==
    \A n \in Nodes :
        /\ task[n] \in {"none", "queued"} => attempts[n] = 0
        /\ task[n] = "invoking" => attempts[n] \in 1..(plan.retries[n] + 1)
        /\ task[n] = "backoff" => attempts[n] <= plan.retries[n]
        /\ task[n] = "ended" /\ outcome[n] \in {"FAILED", "TIMED_OUT"} /\ ~cancel
             => attempts[n] = plan.retries[n] + 1

RetryInv == Attempted /\ RetriesExhausted

LEMMA SchedulerKeepsAttempts ==
    ASSUME Inv, RetryInv, Scheduler
    PROVE  RetryInv'
<1>1. CASE ExecuteValid
  <2>1. /\ main = "idle" /\ TurnOfLoop(FALSE, status, completed, inFlight, scratch)
        /\ UNCHANGED <<plan, result, outcome, attempts>>
        /\ \A n \in Nodes : /\ status[n] = "PENDING" /\ task[n] = "none"
                            /\ outcome[n] = "NONE"
    BY <1>1 DEF ExecuteValid, nodeVars, Inv, Fresh
  <2>2. \A n \in Nodes : /\ status'[n] \in {"PENDING", "READY", "SKIPPED"}
                         /\ task'[n] \in {"none", "queued"}
    BY <2>1, <1>1, SchedulerCreatesTasks DEF TurnOfLoop, Schedule, MarkPending, Scheduler
  <2> QED BY <2>1, <2>2 DEF RetryInv, Attempted, RetriesExhausted
<1>2. CASE ExecuteInvalid
  BY <1>2 DEF ExecuteInvalid, nodeVars, RetryInv, Attempted, RetriesExhausted,
     Valid, KnownDeps, Acyclic, Inv, Fresh
<1>3. CASE Collect
  <2> DEFINE st  == Finished(status, Ended, Returns)
             scr == Finished(scratch, Ended, Returns)
  <2>1. /\ TypeOK /\ Valid(plan.deps) /\ cancel \in BOOLEAN
        /\ UNCHANGED <<plan, cancel, outcome, attempts>>
    BY <1>3 DEF Inv, Loop, Collect, nodeVars, TypeOK
  <2>2. /\ Ended \subseteq Nodes
        /\ \A n \in Ended : task[n] = "ended"
        /\ LoopHead(st, completed', inFlight \ Ended, scr, task)
        /\ TurnOfLoop(cancel, st, completed', inFlight \ Ended, scr)
        /\ result' = [n \in Nodes |-> IF n \in Ended THEN Returns[n] ELSE result[n]]
    BY <1>3, CollectHead
  <2>3. TurnMoves(cancel, st)
    BY <2>1, <2>2, TurnStep
  <2>4. Attempted'
    BY <2>1, <2>3 DEF TurnMoves, RetryInv, Attempted
  <2>5. RetriesExhausted'
    <3> SUFFICES ASSUME NEW n \in Nodes, ~cancel, status'[n] \in {"FAILED", "TIMED_OUT"}
                 PROVE  /\ result'[n].attempts = plan.retries[n] + 1
                        /\ attempts[n] = plan.retries[n] + 1
      BY <2>1 DEF RetriesExhausted
    <3>1. st[n] \in {"FAILED", "TIMED_OUT"}
      BY <2>3 DEF TurnMoves
    <3>2. CASE n \in Ended
      <4>1. outcome[n] \in {"FAILED", "TIMED_OUT"} /\ result'[n].attempts = attempts[n]
        BY <2>2, <3>1, <3>2 DEF Finished, Returns
      <4> QED BY <2>2, <3>2, <4>1 DEF RetryInv, Attempted
    <3>3. CASE n \notin Ended
      <4>1. status[n] \in {"FAILED", "TIMED_OUT"} /\ result'[n] = result[n]
        BY <2>2, <3>1, <3>3 DEF Finished
      <4> QED BY <2>1, <4>1 DEF RetryInv, RetriesExhausted
    <3> QED BY <3>2, <3>3
  <2> QED BY <2>4, <2>5 DEF RetryInv
<1>4. CASE DrainDone
  BY <1>4 DEF DrainDone, nodeVars, Inv, Tasks, RetryInv, Attempted, RetriesExhausted
<1> QED BY <1>1, <1>2, <1>3, <1>4 DEF Scheduler

LEMMA RunNodeKeepsAttempts ==
    ASSUME Inv, RetryInv, NEW n \in Nodes, RunNode(n)
    PROVE  RetryInv'
<1>1. TypeOK /\ plan.retries[n] \in Nat /\ attempts[n] \in Nat
  BY PlansAssumption DEF Inv, TypeOK, PlanType
<1>2. TaskStep(n) /\ (main = "draining" => cancel)
  BY RunNodeIsTaskStep DEF Inv, Tasks
<1>3. /\ UNCHANGED <<plan, main, cancel, result>>
      /\ \A m \in Nodes \ {n} : /\ task'[m] = task[m] /\ outcome'[m] = outcome[m]
                                /\ status'[m] = status[m]
  BY <1>1, <1>2 DEF TaskStep, mainVars, TypeOK
<1>4. \A m \in Nodes \ {n} : attempts'[m] = attempts[m]
  <2>1. attempts' = attempts \/ attempts' = [attempts EXCEPT ![n] = @ + 1]
    BY DEF RunNode, AcquireSlot, BackoffOver, InvokeSucceeds, InvokeFails,
           AbortInvoke, AbortElsewhere, Attempt
  <2> QED BY <1>1, <2>1 DEF TypeOK
<1>5. /\ task'[n] \in {"none", "queued"} => attempts'[n] = 0
      /\ task'[n] = "invoking" => attempts'[n] \in 1..(plan.retries[n] + 1)
      /\ task'[n] = "backoff" => attempts'[n] <= plan.retries[n]
      /\ task'[n] = "ended" /\ outcome'[n] \in {"FAILED", "TIMED_OUT"} /\ ~cancel
           => attempts'[n] = plan.retries[n] + 1
  <2>1. CASE AcquireSlot(n)
    <3>1. attempts[n] = 0
      BY <2>1 DEF AcquireSlot, RetryInv, Attempted
    <3> QED BY <1>1, <2>1, <3>1 DEF TypeOK, AcquireSlot, Attempt, End
  <2>2. CASE BackoffOver(n)
    <3>1. attempts[n] <= plan.retries[n]
      BY <2>2 DEF BackoffOver, RetryInv, Attempted
    <3> QED BY <1>1, <2>2, <3>1 DEF TypeOK, BackoffOver, Attempt, End
  <2>3. CASE InvokeSucceeds(n)
    BY <1>1, <2>3 DEF TypeOK, InvokeSucceeds, End
  <2>4. ASSUME NEW s \in {"FAILED", "TIMED_OUT"}, InvokeFails(n, s)
        PROVE  /\ task'[n] \in {"backoff", "ended"} /\ attempts' = attempts
               /\ task'[n] = "backoff" => attempts[n] <= plan.retries[n]
               /\ task'[n] = "ended" /\ ~cancel => attempts[n] = plan.retries[n] + 1
    <3>1. attempts[n] \in 1..(plan.retries[n] + 1)
      BY <2>4 DEF InvokeFails, RetryInv, Attempted
    <3>2. CASE attempts[n] <= plan.retries[n] /\ ~cancel
      BY <1>1, <2>4, <3>2 DEF TypeOK, InvokeFails
    <3>3. CASE ~(attempts[n] <= plan.retries[n] /\ ~cancel)
      <4>1. task' = [task EXCEPT ![n] = "ended"] /\ attempts' = attempts
        BY <2>4, <3>3 DEF InvokeFails, End
      <4>2. task'[n] = "ended"
        BY <1>1, <4>1 DEF TypeOK
      <4>3. ~cancel => attempts[n] = plan.retries[n] + 1
        BY <1>1, <3>1, <3>3
      <4> QED BY <4>1, <4>2, <4>3
    <3> QED BY <3>2, <3>3
  <2>5. CASE AbortInvoke(n) \/ AbortElsewhere(n)
    BY <1>1, <1>2, <2>5 DEF TypeOK, AbortInvoke, AbortElsewhere, End
  <2> QED BY <2>1, <2>2, <2>3, <2>4, <2>5 DEF RunNode
<1>6. Attempted'
  BY <1>3, <1>4, <1>5 DEF RetryInv, Attempted
<1>7. RetriesExhausted'
  <2>1. status[n] \notin {"FAILED", "TIMED_OUT"} /\ status'[n] \notin {"FAILED", "TIMED_OUT"}
    <3>1. status[n] \in {"READY", "RUNNING"}
      BY <1>1, <1>2 DEF TaskStep, Inv, Loop, LoopHead, Books, Status, TypeOK
    <3> QED BY <1>1, <1>2, <3>1 DEF TaskStep, TypeOK
  <2> QED BY <1>3, <1>4, <2>1 DEF RetryInv, RetriesExhausted
<1> QED BY <1>6, <1>7 DEF RetryInv

\* A node reported as failed has used up the attempts of its retry policy, no
\* more and no fewer, unless the run was cancelled.
THEOREM RetriesUsedUp == Spec => []RetriesExhausted
<1>1. Init => RetryInv
  BY DEF Init, RetryInv, Attempted, RetriesExhausted
<1>2. Inv /\ RetryInv /\ [Next]_vars => RetryInv'
  <2> SUFFICES ASSUME Inv, RetryInv, [Next]_vars PROVE RetryInv'
    OBVIOUS
  <2>1. CASE Scheduler
    BY <2>1, SchedulerKeepsAttempts
  <2>2. CASE Cancel \/ UNCHANGED vars
    BY <2>2 DEF Cancel, vars, nodeVars, RetryInv, Attempted, RetriesExhausted, Valid,
       KnownDeps, Acyclic
  <2>3. ASSUME NEW n \in Nodes, RunNode(n) PROVE RetryInv'
    BY <2>3, RunNodeKeepsAttempts
  <2> QED BY <2>1, <2>2, <2>3 DEF Next, Returned
<1>3. RetryInv => RetriesExhausted
  BY DEF RetryInv
<1> QED BY <1>1, <1>2, <1>3, Invariant, PTL DEF Spec

-----------------------------------------------------------------------------
(***************************************************************************)
(* The refinement of PlanContract.                                         *)
(***************************************************************************)
LEMMA Phases ==
    ASSUME NEW s \in Status
    PROVE  /\ PhaseOf(s) = "todo" <=> s = "PENDING"
           /\ PhaseOf(s) = "active" <=> s \in {"READY", "RUNNING"}
           /\ PhaseOf(s) = "succeeded" <=> s = "SUCCEEDED"
           /\ PhaseOf(s) = "failed" <=> s \in {"FAILED", "TIMED_OUT"}
           /\ PhaseOf(s) = "cancelled" <=> s = "CANCELLED"
           /\ PhaseOf(s) = "skipped" <=> s = "SKIPPED"
           /\ PhaseOf(s) \in Contract!Settled <=> s \in Terminal
BY DEF PhaseOf, Status, Terminal, Failures, Contract!Settled

\* How a step may change the status of a node.
Moved(old, new) ==
    \/ new = old
    \/ old = "PENDING" /\ new \in {"READY", "SKIPPED", "CANCELLED"}
    \/ old = "READY" /\ new = "RUNNING"
    \/ old \in {"READY", "RUNNING"} /\ new \in Outcomes

LEMMA FinishedMoves ==
    ASSUME TypeOK, NEW D \in SUBSET Nodes, NEW res,
           \A n \in D : status[n] \in {"READY", "RUNNING"} /\ res[n].status \in Outcomes,
           NEW n \in Nodes
    PROVE  LET st == Finished(status, D, res) IN
             \/ n \in D /\ st[n] \in Outcomes
             \/ status[n] = "PENDING" /\ st[n] = "SKIPPED"
             \/ st[n] = status[n]
<1> DEFINE st0 == [m \in Nodes |-> IF m \in D THEN res[m].status ELSE status[m]]
<1>1. SkippedBy(D, res) \subseteq PendingNodes(st0)
  BY SkipUnreachableIsClosed DEF SkippedBy
<1> QED BY <1>1 DEF Finished, PendingNodes

LEMMA StatusMoves ==
    ASSUME Inv, Next, ~ExecuteInvalid, NEW n \in Nodes
    PROVE  Moved(status[n], status'[n])
<1>1. CASE ExecuteValid
  <2>1. /\ main = "idle" /\ TurnOfLoop(FALSE, status, completed, inFlight, scratch)
        /\ \A m \in Nodes : status[m] = "PENDING"
    BY <1>1 DEF ExecuteValid, Inv, Fresh
  <2>2. status'[n] \in {"PENDING", "READY", "SKIPPED"}
    BY <2>1 DEF TurnOfLoop, Schedule, MarkPending
  <2> QED BY <2>1, <2>2 DEF Moved
<1>2. CASE Collect
  <2> DEFINE st  == Finished(status, Ended, Returns)
             scr == Finished(scratch, Ended, Returns)
  <2>1. /\ TypeOK /\ Valid(plan.deps) /\ cancel \in BOOLEAN
        /\ \A m \in inFlight : status[m] \in {"READY", "RUNNING"}
    BY <1>2 DEF Inv, Loop, Collect, TypeOK, LoopHead, Books
  <2>2. /\ Ended \in SUBSET inFlight /\ Ended \subseteq Nodes
        /\ \A m \in Ended : outcome[m] \in Outcomes
        /\ LoopHead(st, completed', inFlight \ Ended, scr, task)
        /\ TurnOfLoop(cancel, st, completed', inFlight \ Ended, scr)
    BY <1>2, CollectHead
  <2>3. TurnMoves(cancel, st)
    BY <2>1, <2>2, TurnStep
  <2>4. \/ n \in Ended /\ st[n] \in Outcomes
        \/ status[n] = "PENDING" /\ st[n] = "SKIPPED"
        \/ st[n] = status[n]
    BY <2>1, <2>2, FinishedMoves DEF Returns
  <2> QED BY <2>1, <2>2, <2>3, <2>4 DEF TurnMoves, Moved, Outcomes, Failures
<1>3. CASE DrainDone
  <2> DEFINE res == [m \in Nodes |-> [status |-> "CANCELLED", attempts |-> 0]]
             D   == {m \in inFlight : result[m] = NoResult}
             st  == Finished(status, D, res)
  <2>1. TypeOK /\ \A m \in inFlight : m \in Nodes /\ status[m] \in {"READY", "RUNNING"}
    BY <1>3 DEF Inv, Loop, DrainDone, LoopHead, Books
  <2>2. \/ n \in D /\ st[n] \in Outcomes
        \/ status[n] = "PENDING" /\ st[n] = "SKIPPED"
        \/ st[n] = status[n]
    BY <2>1, FinishedMoves DEF Outcomes, Failures
  <2>3. status' = MarkPending(st, "CANCELLED")
    BY <1>3 DEF DrainDone
  <2> QED BY <2>1, <2>2, <2>3 DEF MarkPending, Moved, Outcomes, Failures
<1>4. CASE Cancel \/ Returned
  BY <1>4 DEF Cancel, Returned, vars, Moved
<1>5. ASSUME NEW m \in Nodes, RunNode(m) PROVE Moved(status[n], status'[n])
  <2>1. TaskStep(m)
    BY <1>5, RunNodeIsTaskStep
  <2>2. /\ LoopHead(status, completed, inFlight, scratch, task) /\ TypeOK
        /\ task[m] \in {"queued", "invoking", "backoff"}
    BY <2>1 DEF Inv, Loop, TaskStep
  <2>3. status[m] \in {"READY", "RUNNING"}
    BY <2>2 DEF LoopHead, Books, Status
  <2> QED BY <2>1, <2>2, <2>3 DEF TaskStep, Moved, TypeOK
<1> QED BY <1>1, <1>2, <1>3, <1>4, <1>5 DEF Next, Scheduler

LEMMA ReadyMeansNotStopped ==
    ASSUME Inv, Next, NEW n \in Nodes, status[n] = "PENDING", status'[n] = "READY"
    PROVE  ~cancel'
<1>1. CASE Collect
  <2> DEFINE st  == Finished(status, Ended, Returns)
             scr == Finished(scratch, Ended, Returns)
  <2>1. TypeOK /\ Valid(plan.deps) /\ cancel \in BOOLEAN /\ cancel' = cancel
    BY <1>1 DEF Inv, Loop, Collect, TypeOK
  <2>2. /\ \A m \in Ended : outcome[m] \in Outcomes
        /\ LoopHead(st, completed', inFlight \ Ended, scr, task)
        /\ TurnOfLoop(cancel, st, completed', inFlight \ Ended, scr)
    BY <1>1, CollectHead
  <2>3. TurnMoves(cancel, st)
    BY <2>1, <2>2, TurnStep
  <2>4. st[n] # "READY"
    BY <2>2 DEF Finished, Returns, Outcomes, Failures
  <2> QED BY <2>1, <2>3, <2>4 DEF TurnMoves
<1>2. CASE ExecuteValid
  BY <1>2 DEF ExecuteValid
<1>3. CASE ExecuteInvalid \/ Cancel \/ Returned
  BY <1>3 DEF ExecuteInvalid, Cancel, Returned, vars
<1>4. CASE DrainDone
  <2>1. status'[n] \in Outcomes \cup {"SKIPPED", "PENDING"}
    BY <1>4 DEF DrainDone, MarkPending, Finished, Outcomes, Failures
  <2> QED BY <2>1 DEF Outcomes, Failures
<1>5. ASSUME NEW m \in Nodes, RunNode(m) PROVE FALSE
  <2>1. TaskStep(m)
    BY <1>5, RunNodeIsTaskStep
  <2> QED BY <2>1 DEF TaskStep, Inv, TypeOK
<1> QED BY <1>1, <1>2, <1>3, <1>4, <1>5 DEF Next, Scheduler

\* Every step of the executor is a step of the contract, or changes nothing in it.
LEMMA ContractStep ==
    ASSUME Inv, Inv', Next
    PROVE  Contract!Next \/ UNCHANGED Contract!vars
<1> DEFINE stop == cancel /\ main # "idle"
<1>1. /\ TypeOK /\ TypeOK'
      /\ \A n \in Nodes : status[n] \in Status /\ status'[n] \in Status
  BY DEF Inv, TypeOK
<1>2. \A n \in Nodes : Phase[n] = PhaseOf(status[n]) /\ Phase'[n] = PhaseOf(status'[n])
  BY DEF Phase
<1>3. plan' = plan
  BY DEF Next, Scheduler, ExecuteValid, ExecuteInvalid, Collect, DrainDone, Cancel,
     Returned, vars, RunNode, AcquireSlot, BackoffOver, InvokeSucceeds, InvokeFails,
     AbortInvoke, AbortElsewhere, mainVars
<1>4. CASE ExecuteInvalid
  <2>1. /\ main = "idle" /\ main' = "returned" /\ cancel' = FALSE
        /\ \A n \in Nodes : status[n] = "PENDING" /\ status'[n] = "FAILED"
    BY <1>4 DEF ExecuteInvalid, Inv, Fresh
  <2>2. \A n \in Nodes : Phase[n] = "todo" /\ Phase'[n] = "failed"
    BY <1>1, <1>2, <2>1, Phases
  <2> QED BY <1>3, <2>1, <2>2 DEF Contract!Next, Contract!Reject
<1>5. CASE Returned
  BY <1>5 DEF Returned, vars, Contract!vars, Phase
<1>6. CASE Cancel /\ main = "idle"
  BY <1>6 DEF Cancel, Contract!vars, Phase
<1>7. CASE ~ExecuteInvalid /\ ~Returned /\ ~(Cancel /\ main = "idle")
  <2>1. main # "returned"
    BY <1>7 DEF Next, Scheduler, ExecuteValid, ExecuteInvalid, Collect, DrainDone, Cancel,
       RunNode, AcquireSlot, BackoffOver, InvokeSucceeds, InvokeFails,
       AbortInvoke, AbortElsewhere
  <2>2. stop => stop'
    <3>1. CASE Collect
      BY <3>1 DEF Collect, TurnOfLoop, Schedule
    <3>2. CASE ExecuteValid \/ DrainDone \/ Cancel
      BY <3>2 DEF ExecuteValid, DrainDone, Cancel
    <3>3. ASSUME NEW n \in Nodes, RunNode(n) PROVE stop => stop'
      BY <3>3, RunNodeIsTaskStep DEF TaskStep, mainVars
    <3> QED BY <1>7, <3>1, <3>2, <3>3 DEF Next, Scheduler
  <2>3. \A n \in Nodes : Moved(status[n], status'[n])
    BY <1>7, StatusMoves
  <2>4. main' # "idle"
    <3>1. CASE Collect \/ ExecuteValid
      BY <3>1 DEF Collect, ExecuteValid, TurnOfLoop, Schedule
    <3>2. CASE DrainDone \/ Cancel
      BY <1>7, <3>2 DEF DrainDone, Cancel
    <3>3. ASSUME NEW n \in Nodes, RunNode(n) PROVE main' # "idle"
      BY <3>3, RunNodeIsTaskStep DEF TaskStep, mainVars
    <3> QED BY <1>7, <3>1, <3>2, <3>3 DEF Next, Scheduler
  <2>5. \A n \in Nodes : status'[n] = "CANCELLED" => stop'
    BY <2>4 DEF Inv, CancelledOnlyOnRequest
  <2>6. \A n \in Nodes : status[n] = "PENDING" /\ status'[n] = "READY" => ~stop'
    BY ReadyMeansNotStopped
  <2>7. Valid(plan.deps) /\ \A n \in Nodes : plan.deps[n] \subseteq Nodes
    <3>1. CASE main = "idle"
      BY <1>7, <3>1 DEF Next, Scheduler, ExecuteValid, Collect, DrainDone, RunNode,
         AcquireSlot, BackoffOver, InvokeSucceeds, InvokeFails, AbortInvoke,
         AbortElsewhere, Valid, KnownDeps
    <3>2. CASE main \in {"waiting", "draining"}
      BY <3>2 DEF Inv, Loop, Valid, KnownDeps
    <3> QED BY <1>1, <2>1, <3>1, <3>2 DEF TypeOK
  <2>8. /\ StartedOnlyWhenReady' /\ SkippedForCause'
        /\ ReturnedIsComplete'
    BY InvImplies, PTL
  <2>9. \A n \in Nodes : Blocks(n, status)' <=> Contract!Blocks(n, Phase')
    BY <1>1, <1>2, <1>3, Phases DEF Blocks, Contract!Blocks, Failures
  <2>10. ASSUME NEW n \in Nodes PROVE Contract!Moves(n)
    <3>1. Moved(status[n], status'[n])
      BY <2>3
    <3>2. CASE PhaseOf(status'[n]) = PhaseOf(status[n])
      BY <1>2, <3>2 DEF Contract!Moves
    <3>3. CASE status[n] = "PENDING" /\ status'[n] = "READY"
      <4>1. task'[n] # "none"
        BY <1>1, <2>4, <3>3 DEF Inv, TypeOK, Loop, LoopHead, Books, Done, AllSettled,
           Terminal, Failures
      <4>2. \A d \in plan.deps[n] : status'[d] \in Terminal /\ ~Blocks(d, status)'
        BY <1>3, <4>1, <2>8 DEF StartedOnlyWhenReady
      <4>3. \A d \in plan.deps[n] : Phase'[d] \in Contract!Settled
                                     /\ ~Contract!Blocks(d, Phase')
        BY <1>1, <1>2, <2>7, <2>9, <4>2, Phases
      <4>4. Phase[n] = "todo" /\ Phase'[n] = "active" /\ ~stop'
        BY <1>1, <1>2, <2>6, <3>3, Phases
      <4> QED BY <4>3, <4>4 DEF Contract!Moves, Contract!MayStart
    <3>4. CASE status[n] = "PENDING" /\ status'[n] = "SKIPPED"
      <4>1. PICK d \in plan.deps[n] : Blocks(d, status)'
        BY <1>3, <2>8, <3>4 DEF SkippedForCause
      <4>2. Contract!Blocks(d, Phase')
        BY <2>7, <2>9, <4>1
      <4>3. Phase[n] = "todo" /\ Phase'[n] = "skipped"
        BY <1>1, <1>2, <3>4, Phases
      <4> QED BY <4>2, <4>3 DEF Contract!Moves, Contract!MaySkip
    <3>5. CASE status[n] \in {"PENDING", "READY", "RUNNING"} /\ status'[n] = "CANCELLED"
      <4>1. Phase[n] \in {"todo", "active"} /\ Phase'[n] = "cancelled"
        BY <1>1, <1>2, <3>5, Phases
      <4> QED BY <2>5, <3>5, <4>1 DEF Contract!Moves, Contract!MayCancel
    <3>6. CASE /\ status[n] \in {"READY", "RUNNING"}
               /\ status'[n] \in {"SUCCEEDED", "FAILED", "TIMED_OUT"}
      <4>1. Phase[n] = "active" /\ Phase'[n] \in {"succeeded", "failed"}
        BY <1>1, <1>2, <3>6, Phases
      <4> QED BY <4>1 DEF Contract!Moves
    <3>7. status'[n] = status[n] \/ (status[n] = "READY" /\ status'[n] = "RUNNING")
            => PhaseOf(status'[n]) = PhaseOf(status[n])
      BY <1>1, Phases
    <3> QED BY <3>1, <3>2, <3>3, <3>4, <3>5, <3>6, <3>7 DEF Moved, Outcomes, Failures
  <2>11. main' # "returned" <=> \E n \in Nodes : Phase'[n] \notin Contract!Settled
    <3>1. CASE main' = "returned"
      BY <1>1, <1>2, <2>8, <3>1, Phases DEF ReturnedIsComplete
    <3>2. CASE main' # "returned"
      <4>1. PICK n \in Nodes : status'[n] \in {"READY", "RUNNING"}
        BY <1>1, <2>4, <3>2 DEF Inv, TypeOK, Loop, LoopHead, Books
      <4>2. Phase'[n] \notin Contract!Settled
        BY <1>1, <1>2, <4>1, Phases DEF Terminal, Failures
      <4> QED BY <3>2, <4>2
    <3> QED BY <3>1, <3>2
  <2> QED BY <1>3, <2>1, <2>2, <2>10, <2>11 DEF Contract!Next, Contract!Execute
<1> QED BY <1>4, <1>5, <1>6, <1>7

\* The executor implements the contract: with the schedule, the semaphore, the
\* retries and the tasks hidden, each of its steps is one the contract allows.
THEOREM ExecutorImplementsContract == Spec => ImplementsContract
<1>1. Init => Contract!Init
  BY DEF Init, Contract!Init, Phase, PhaseOf
<1>2. Inv /\ Inv' /\ [Next]_vars => [Contract!Next]_Contract!vars
  <2>1. CASE Next
    BY <2>1, ContractStep
  <2>2. CASE UNCHANGED vars
    BY <2>2 DEF vars, Contract!vars, Phase
  <2> QED BY <2>1, <2>2
<1> QED BY <1>1, <1>2, Invariant, PTL DEF Spec, ImplementsContract, Contract!Spec
=============================================================================
