--------------------------- MODULE TaskQueueProofs ---------------------------
(***************************************************************************)
(* What TaskQueue keeps for any number of tasks, workers, joins, restarts. *)
(***************************************************************************)
EXTENDS TaskQueue, FiniteSetTheorems, SequenceTheorems, TLAPS

-----------------------------------------------------------------------------
(***************************************************************************)
(* The inductive invariant.  Workers of a start() to come are absent; what *)
(* a join() waits for has been enqueued; a pending cancellation belongs to *)
(* a stop() that still waits for its worker.                               *)
(***************************************************************************)
FutureAbsent == \A w \in WorkerIds : w[1] > starts => worker[w] = "absent"

JoinsOld == \A j \in Joiners : \A t \in joined[j] : outcome[t] # "new"

CancelledAwaited == \A w \in cancelled : w \in Live /\ \E S \in stopping : w \in S

Inv ==
    /\ TypeOK
    /\ CountsUnfinished
    /\ InOnePlace
    /\ FutureAbsent
    /\ JoinsOld
    /\ JoinWaited
    /\ CancelledAwaited

-----------------------------------------------------------------------------
LEMMA BusyIsFinite == IsFiniteSet(Busy) /\ Cardinality(Busy) \in Nat
<1>1. IsFiniteSet(1..MaxStarts) /\ IsFiniteSet(1..WorkerCount)
  BY ConstantsAssumption, FS_Interval
<1>2. IsFiniteSet(WorkerIds)
  BY <1>1, FS_Product DEF WorkerIds
<1>3. Busy \subseteq WorkerIds
  BY DEF Busy
<1> QED BY <1>2, <1>3, FS_Subset, FS_CardinalityType

\* A worker that becomes busy, or stops being busy, counts for one.
LEMMA BusyCounts ==
    ASSUME NEW w \in WorkerIds
    PROVE  /\ w \notin Busy => Cardinality(Busy \cup {w}) = Cardinality(Busy) + 1
           /\ w \in Busy => /\ Cardinality(Busy \ {w}) = Cardinality(Busy) - 1
                            /\ Cardinality(Busy) > 0
<1>1. IsFiniteSet(Busy) /\ Cardinality(Busy) \in Nat
  BY BusyIsFinite
<1>2. w \in Busy => Cardinality(Busy) # 0
  BY <1>1, FS_EmptySet
<1>3. w \notin Busy => Cardinality(Busy \cup {w}) = Cardinality(Busy) + 1
  BY <1>1, FS_AddElement
<1>4. w \in Busy => Cardinality(Busy \ {w}) = Cardinality(Busy) - 1
  BY <1>1, FS_RemoveElement
<1> QED BY <1>1, <1>2, <1>3, <1>4

\* Putting a task at the end of the queue.
LEMMA AppendFacts ==
    ASSUME NEW s \in Seq(Tasks), NEW t \in Tasks
    PROVE  /\ Append(s, t) \in Seq(Tasks)
           /\ Len(Append(s, t)) = Len(s) + 1 /\ Len(s) \in Nat
           /\ \A i \in 1..Len(s) : Append(s, t)[i] = s[i]
           /\ Append(s, t)[Len(s) + 1] = t
BY AppendProperties, LenProperties

\* Taking one from its front.
LEMMA TailFacts ==
    ASSUME NEW s \in Seq(Tasks), s # <<>>
    PROVE  /\ Head(s) \in Tasks /\ Head(s) = s[1] /\ Len(s) \in Nat \ {0}
           /\ Tail(s) \in Seq(Tasks) /\ Len(Tail(s)) = Len(s) - 1
           /\ \A i \in 1..Len(s) - 1 : Tail(s)[i] = s[i + 1]
<1>1. Head(s) = s[1]
  OBVIOUS
<1> QED BY <1>1, HeadTailProperties, EmptySeq

LEMMA InitInv == Init => Inv
<1> SUFFICES ASSUME Init PROVE Inv
  OBVIOUS
<1>1. TypeOK
  <2>1. queue \in Seq(Tasks)
    BY EmptySeq DEF Init
  <2>2. starts \in 0..MaxStarts
    BY ConstantsAssumption DEF Init
  <2> QED BY <2>1, <2>2 DEF Init, TypeOK, Outcomes
<1>2. Busy = {} /\ Live = {}
  BY DEF Init, Busy, Live
<1>3. CountsUnfinished
  <2>1. Len(queue) = 0 /\ Cardinality(Busy) = 0
    BY <1>2, FS_EmptySet, EmptySeq DEF Init
  <2> QED BY <2>1 DEF CountsUnfinished, Init
<1>4. InOnePlace
  <2>1. Len(queue) = 0
    BY EmptySeq DEF Init
  <2> QED BY <1>2, <2>1 DEF InOnePlace, Queued, Held, Init
<1>5. FutureAbsent /\ JoinsOld /\ JoinWaited /\ CancelledAwaited
  BY DEF Init, FutureAbsent, JoinsOld, JoinWaited, CancelledAwaited
<1> QED BY <1>1, <1>3, <1>4, <1>5 DEF Inv

-----------------------------------------------------------------------------
\* The shared effect of the two steps of a join().
LEMMA JoinStep ==
    ASSUME Inv, NEW j \in Joiners, Join(j) \/ JoinReturn(j)
    PROVE  Inv'
<1> USE DEF Inv
<1>1. /\ UNCHANGED <<queue, unfinished, running, starts, workers, worker, holding,
                     cancelled, stopping, outcome>>
      /\ joins \in [Joiners -> {"idle", "waiting", "released", "returned"}]
      /\ joined \in [Joiners -> SUBSET Tasks]
  BY DEF Join, JoinReturn, TypeOK
<1>2. TypeOK'
  BY <1>1 DEF Join, JoinReturn, TypeOK
<1>3. CountsUnfinished' /\ InOnePlace' /\ FutureAbsent' /\ CancelledAwaited'
  BY <1>1 DEF CountsUnfinished, InOnePlace, Queued, Held, Busy, Live, FutureAbsent,
              CancelledAwaited
<1>4. JoinsOld'
  BY <1>1 DEF Join, JoinReturn, JoinsOld
<1>5. unfinished = 0 => \A t \in Tasks : outcome[t] \notin {"queued", "handled"}
  <2> SUFFICES ASSUME unfinished = 0
               PROVE  \A t \in Tasks : outcome[t] \notin {"queued", "handled"}
    OBVIOUS
  <2>1. Len(queue) \in Nat /\ Cardinality(Busy) \in Nat
    BY BusyIsFinite, LenProperties DEF TypeOK
  <2>2. Len(queue) = 0 /\ Cardinality(Busy) = 0
    BY <2>1 DEF CountsUnfinished
  <2>3. Busy = {}
    BY <2>2, BusyIsFinite, FS_EmptySet
  <2> QED BY <2>2, <2>3 DEF InOnePlace, Queued, Held
<1>6. JoinWaited'
  <2>1. CASE Join(j)
    <3>1. unfinished > 0 \/ unfinished = 0
      BY DEF TypeOK
    <3>2. joins'[j] = "returned" => joined'[j] = {}
      BY <1>1, <1>5, <2>1, <3>1 DEF Join
    <3>3. \A k \in Joiners \ {j} : joins'[k] = joins[k] /\ joined'[k] = joined[k]
      BY <1>1, <2>1 DEF Join
    <3>4. joins'[j] # "released"
      BY <1>1, <2>1 DEF Join
    <3> QED BY <1>1, <3>2, <3>3, <3>4 DEF JoinWaited
  <2>2. CASE JoinReturn(j)
    BY <1>1, <2>2 DEF JoinReturn, JoinWaited
  <2> QED BY <2>1, <2>2
<1> QED BY <1>2, <1>3, <1>4, <1>6

LEMMA StartStep == Inv /\ Start => Inv'
<1> SUFFICES ASSUME Inv, Start PROVE Inv'
  OBVIOUS
<1> USE DEF Inv
<1>1. /\ worker' = [w \in WorkerIds |-> IF w \in Created THEN "idle" ELSE worker[w]]
      /\ workers' = Created /\ starts' = starts + 1 /\ starts < MaxStarts
      /\ running' = TRUE
      /\ UNCHANGED <<queue, unfinished, holding, cancelled, stopping, outcome,
                     joins, joined>>
  BY DEF Start
<1>2. starts \in Nat /\ MaxStarts \in Nat
  BY ConstantsAssumption DEF TypeOK
<1>3. /\ Created \subseteq WorkerIds
      /\ \A w \in Created : w[1] = starts + 1
      /\ \A w \in WorkerIds : w[1] = starts + 1 => w \in Created
  BY <1>1, <1>2 DEF Created, WorkerIds
<1>4. \A w \in Created : worker[w] = "absent"
  BY <1>2, <1>3 DEF FutureAbsent
<1>5. TypeOK'
  BY <1>1, <1>2, <1>3 DEF TypeOK
<1>6. Busy' = Busy /\ \A w \in Live : w \in Live'
  BY <1>1, <1>4 DEF Busy, Live
<1>7. CountsUnfinished' /\ InOnePlace' /\ JoinsOld' /\ JoinWaited' /\ CancelledAwaited'
  BY <1>1, <1>6 DEF CountsUnfinished, InOnePlace, Queued, Held, JoinsOld, JoinWaited,
                    CancelledAwaited
<1>8. FutureAbsent'
  <2> SUFFICES ASSUME NEW w \in WorkerIds, w[1] > starts + 1
               PROVE  worker'[w] = "absent"
    BY <1>1 DEF FutureAbsent
  <2>1. w[1] \in Nat
    BY <1>2 DEF WorkerIds
  <2>2. w \notin Created /\ w[1] > starts
    BY <1>2, <1>3, <2>1
  <2> QED BY <1>1, <2>2 DEF FutureAbsent
<1> QED BY <1>5, <1>7, <1>8

LEMMA StopStep ==
    ASSUME Inv, StopCall \/ \E S \in stopping : StopReturn(S)
    PROVE  Inv'
<1> USE DEF Inv
<1>1. UNCHANGED <<queue, unfinished, starts, worker, holding, outcome, joins, joined>>
  BY DEF StopCall, StopReturn
<1>2. CountsUnfinished' /\ InOnePlace' /\ FutureAbsent' /\ JoinsOld' /\ JoinWaited'
  BY <1>1 DEF CountsUnfinished, InOnePlace, Queued, Held, Busy, FutureAbsent,
              JoinsOld, JoinWaited
<1>3. Live' = Live
  BY <1>1 DEF Live
<1>4. CASE StopCall
  <2>1. TypeOK'
    BY <1>1, <1>4 DEF TypeOK, StopCall
  <2>2. CancelledAwaited'
    BY <1>3, <1>4 DEF CancelledAwaited, StopCall
  <2> QED BY <1>2, <2>1, <2>2
<1>5. ASSUME NEW S \in stopping, StopReturn(S) PROVE Inv'
  <2>1. TypeOK'
    BY <1>1, <1>5 DEF TypeOK, StopReturn
  <2>2. CancelledAwaited'
    BY <1>3, <1>5 DEF CancelledAwaited, StopReturn
  <2> QED BY <1>2, <2>1, <2>2
<1> QED BY <1>4, <1>5

LEMMA EnqueueStep ==
    ASSUME Inv, NEW t \in Tasks, Enqueue(t)
    PROVE  Inv'
<1> USE DEF Inv
<1>1. /\ UNCHANGED <<running, starts, workers, worker, holding, cancelled, stopping,
                     joins, joined>>
      /\ outcome[t] = "new" /\ outcome' = [outcome EXCEPT ![t] = "queued"]
      /\ queue' = Append(queue, t) /\ unfinished' = unfinished + 1
  BY DEF Enqueue
<1>2. /\ queue' \in Seq(Tasks) /\ Len(queue') = Len(queue) + 1 /\ Len(queue) \in Nat
      /\ \A i \in 1..Len(queue) : queue'[i] = queue[i]
      /\ queue'[Len(queue) + 1] = t
  BY <1>1, AppendFacts DEF TypeOK
<1>3. Busy' = Busy /\ Live' = Live /\ Held' = Held
  BY <1>1 DEF Busy, Live, Held
<1>4. TypeOK'
  BY <1>1, <1>2 DEF TypeOK, Outcomes
<1>5. CountsUnfinished'
  <2>1. Cardinality(Busy') = Cardinality(Busy) /\ Cardinality(Busy) \in Nat
    BY <1>3, BusyIsFinite
  <2> QED BY <1>1, <1>2, <2>1 DEF CountsUnfinished
<1>6. \A u \in Tasks : outcome'[u] = IF u = t THEN "queued" ELSE outcome[u]
  BY <1>1 DEF TypeOK
<1>7. InOnePlace'
  <2>1. t \notin Queued
    BY <1>1 DEF InOnePlace
  <2>2. Queued' = Queued \cup {t}
    BY <1>2 DEF Queued
  <2>3. \A i, k \in 1..Len(queue') : queue'[i] = queue'[k] => i = k
    <3>1. \A i \in 1..Len(queue) : queue[i] # t
      BY <2>1 DEF Queued
    <3>2. \A i \in 1..Len(queue') : i \in 1..Len(queue) \/ i = Len(queue) + 1
      BY <1>2
    <3> QED BY <1>2, <3>1, <3>2 DEF InOnePlace
  <2>4. Queued' = {u \in Tasks : outcome'[u] = "queued"}
    BY <1>6, <2>2 DEF InOnePlace
  <2>5. Held' = {u \in Tasks : outcome'[u] = "handled"}
    BY <1>1, <1>3, <1>6 DEF InOnePlace
  <2> QED BY <1>1, <1>3, <2>3, <2>4, <2>5 DEF InOnePlace
<1>8. FutureAbsent' /\ JoinsOld' /\ CancelledAwaited'
  BY <1>1, <1>3, <1>6 DEF FutureAbsent, JoinsOld, CancelledAwaited, TypeOK
<1>9. JoinWaited'
  BY <1>1, <1>6 DEF JoinWaited, JoinsOld, TypeOK, Finished
<1> QED BY <1>4, <1>5, <1>7, <1>8, <1>9

LEMMA GetStep ==
    ASSUME Inv, NEW w \in WorkerIds, Get(w)
    PROVE  Inv'
<1> USE DEF Inv
<1> DEFINE h == Head(queue)
<1>1. /\ UNCHANGED <<unfinished, running, starts, workers, cancelled, stopping, joins,
                     joined>>
      /\ worker[w] = "idle" /\ w \notin cancelled /\ queue # <<>>
      /\ queue' = Tail(queue)
      /\ worker' = [worker EXCEPT ![w] = "busy"]
      /\ holding' = [holding EXCEPT ![w] = h]
      /\ outcome' = [outcome EXCEPT ![h] = "handled"]
  BY DEF Get
<1>2. /\ h \in Tasks /\ h = queue[1] /\ Len(queue) \in Nat \ {0}
      /\ queue' \in Seq(Tasks) /\ Len(queue') = Len(queue) - 1
      /\ \A i \in 1..Len(queue) - 1 : queue'[i] = queue[i + 1]
  BY <1>1, TailFacts DEF TypeOK
<1>3. w \notin Busy /\ Busy' = Busy \cup {w} /\ Live' = Live
  BY <1>1 DEF Busy, Live, TypeOK
<1>4. TypeOK'
  BY <1>1, <1>2 DEF TypeOK, Outcomes
<1>5. CountsUnfinished'
  <2>1. Cardinality(Busy') = Cardinality(Busy) + 1 /\ Cardinality(Busy) \in Nat
    <3>1. Cardinality(Busy \cup {w}) = Cardinality(Busy) + 1
      BY <1>3, BusyCounts
    <3> QED BY <1>3, <3>1, BusyIsFinite
  <2> QED BY <1>1, <1>2, <2>1 DEF CountsUnfinished
<1>6. \A u \in Tasks : outcome'[u] = IF u = h THEN "handled" ELSE outcome[u]
  BY <1>1 DEF TypeOK
<1>7. outcome[h] = "queued"
  BY <1>2 DEF InOnePlace, Queued
<1>8. InOnePlace'
  <2>1. \A i \in 1..Len(queue') : i + 1 \in 1..Len(queue) /\ queue'[i] = queue[i + 1]
    BY <1>2
  <2>2. Queued' = Queued \ {h}
    <3>1. \A i \in 1..Len(queue') : queue[i + 1] # h
      BY <1>2, <2>1 DEF InOnePlace
    <3>2. \A i \in 1..Len(queue) : i = 1 \/ (i - 1 \in 1..Len(queue') /\ queue[i] = queue'[i - 1])
      BY <1>2
    <3>3. ASSUME NEW u \in Queued' PROVE u \in Queued \ {h}
      BY <2>1, <3>1 DEF Queued
    <3>4. ASSUME NEW u \in Queued \ {h} PROVE u \in Queued'
      <4>1. PICK i \in 1..Len(queue) : u = queue[i]
        BY DEF Queued
      <4>2. i - 1 \in 1..Len(queue') /\ u = queue'[i - 1]
        BY <1>2, <3>2, <4>1
      <4> QED BY <4>2 DEF Queued
    <3> QED BY <3>3, <3>4
  <2>3. \A v \in WorkerIds : holding'[v] = IF v = w THEN h ELSE holding[v]
    BY <1>1 DEF TypeOK
  <2>4. Held' = Held \cup {h}
    BY <1>3, <2>3 DEF Held, Busy
  <2>5. h \notin Held
    BY <1>7 DEF InOnePlace
  <2>6. \A i, k \in 1..Len(queue') : queue'[i] = queue'[k] => i = k
    <3> SUFFICES ASSUME NEW i \in 1..Len(queue'), NEW k \in 1..Len(queue'),
                        queue'[i] = queue'[k]
                 PROVE  i = k
      OBVIOUS
    <3>1. queue[i + 1] = queue[k + 1]
      BY <2>1
    <3>2. i + 1 = k + 1
      BY <2>1, <3>1 DEF InOnePlace
    <3> QED BY <3>2
  <2>7. \A u, v \in Busy' : holding'[u] = holding'[v] => u = v
    <3> SUFFICES ASSUME NEW u \in Busy', NEW v \in Busy', holding'[u] = holding'[v]
                 PROVE  u = v
      OBVIOUS
    <3>1. \A x \in Busy : x \in WorkerIds /\ holding[x] # h
      BY <2>5 DEF Held, Busy
    <3>2. \A x \in Busy' : x = w \/ (x \in Busy /\ holding'[x] = holding[x])
      BY <1>3, <2>3, <3>1
    <3>3. holding'[w] = h
      BY <2>3
    <3> QED BY <3>1, <3>2, <3>3 DEF InOnePlace
  <2>8. Queued' = {u \in Tasks : outcome'[u] = "queued"}
    BY <1>6, <2>2 DEF InOnePlace
  <2>9. Held' = {u \in Tasks : outcome'[u] = "handled"}
    BY <1>2, <1>6, <2>4 DEF InOnePlace
  <2> QED BY <2>6, <2>7, <2>8, <2>9 DEF InOnePlace
<1>9. FutureAbsent' /\ JoinsOld' /\ CancelledAwaited'
  BY <1>1, <1>3, <1>6 DEF FutureAbsent, JoinsOld, CancelledAwaited, TypeOK
<1>10. JoinWaited'
  BY <1>1, <1>6, <1>7 DEF JoinWaited, TypeOK, Finished
<1> QED BY <1>4, <1>5, <1>8, <1>9, <1>10

-----------------------------------------------------------------------------
\* The end of a handler, whatever its outcome.
LEMMA SettleStep ==
    ASSUME Inv, NEW w \in WorkerIds, NEW result \in Finished, NEW next \in {"idle", "dead"},
           Settle(w, result, next),
           \/ cancelled' = cancelled /\ next = "idle"
           \/ cancelled' = cancelled \ {w}
    PROVE  Inv'
<1> USE DEF Inv
<1> DEFINE t == holding[w]
<1>1. /\ UNCHANGED <<queue, running, starts, workers, stopping, joined>>
      /\ worker[w] = "busy" /\ worker' = [worker EXCEPT ![w] = next]
      /\ holding' = [holding EXCEPT ![w] = NoTask]
      /\ outcome' = [outcome EXCEPT ![t] = result]
      /\ unfinished' = unfinished - 1
      /\ joins' = [j \in Joiners |-> IF joins[j] = "waiting" /\ unfinished' = 0
                                     THEN "released" ELSE joins[j]]
  BY DEF Settle, TaskDone
<1>2. w \in Busy /\ Busy' = Busy \ {w}
  BY <1>1 DEF Busy, TypeOK
<1>3. \A v \in Live : v = w \/ v \in Live'
  BY <1>1 DEF Live, TypeOK
<1>4. t \in Tasks /\ outcome[t] = "handled"
  BY <1>2 DEF InOnePlace, Held
<1>5. \A u \in Tasks : outcome'[u] = IF u = t THEN result ELSE outcome[u]
  BY <1>1 DEF TypeOK
<1>6. /\ Cardinality(Busy') = Cardinality(Busy) - 1 /\ Cardinality(Busy) > 0
      /\ Cardinality(Busy) \in Nat /\ IsFiniteSet(Busy')
  <2>1. Cardinality(Busy \ {w}) = Cardinality(Busy) - 1 /\ Cardinality(Busy) > 0
    BY <1>2, BusyCounts
  <2>2. IsFiniteSet(Busy \ {w})
    BY BusyIsFinite, FS_RemoveElement
  <2> QED BY <1>2, <2>1, <2>2, BusyIsFinite
<1>7. Len(queue) \in Nat
  BY LenProperties DEF TypeOK
<1>8. CountsUnfinished' /\ unfinished' \in Nat
  BY <1>1, <1>6, <1>7 DEF CountsUnfinished
<1>9. TypeOK'
  BY <1>1, <1>4, <1>8 DEF TypeOK, Finished, Outcomes
<1>10. InOnePlace'
  <2>1. Queued' = Queued /\ Queued = {u \in Tasks : outcome[u] = "queued"}
    BY <1>1 DEF Queued, InOnePlace
  <2>2. \A v \in Busy' : v \in Busy /\ v # w /\ holding'[v] = holding[v]
    BY <1>1, <1>2 DEF Busy, TypeOK
  <2>3. Held' = Held \ {t}
    <3>1. \A v \in Busy : v # w => holding[v] # t
      BY <1>2 DEF InOnePlace
    <3> QED BY <1>2, <2>2, <3>1 DEF Held
  <2>4. Queued' = {u \in Tasks : outcome'[u] = "queued"}
    BY <1>4, <1>5, <2>1 DEF Finished
  <2>5. Held' = {u \in Tasks : outcome'[u] = "handled"}
    BY <1>4, <1>5, <2>3 DEF Finished, InOnePlace
  <2>6. \A u, v \in Busy' : holding'[u] = holding'[v] => u = v
    BY <2>2 DEF InOnePlace
  <2>7. \A i, k \in 1..Len(queue') : queue'[i] = queue'[k] => i = k
    BY <1>1 DEF InOnePlace
  <2> QED BY <2>4, <2>5, <2>6, <2>7 DEF InOnePlace
<1>11. FutureAbsent' /\ JoinsOld'
  BY <1>1, <1>5 DEF FutureAbsent, JoinsOld, TypeOK, Finished
<1>12. CancelledAwaited'
  <2>1. CASE cancelled' = cancelled /\ next = "idle"
    BY <1>1, <2>1 DEF CancelledAwaited, Live, TypeOK
  <2>2. CASE cancelled' = cancelled \ {w}
    BY <1>1, <1>3, <2>2 DEF CancelledAwaited
  <2> QED BY <2>1, <2>2
<1>13. JoinWaited'
  <2> SUFFICES ASSUME NEW j \in Joiners, joins'[j] \in {"released", "returned"},
                      NEW u \in joined[j]
               PROVE  outcome'[u] \in Finished
    BY <1>1 DEF JoinWaited
  <2>1. u \in Tasks /\ outcome[u] # "new"
    BY DEF JoinsOld, TypeOK
  <2>2. CASE joins[j] \in {"released", "returned"}
    BY <1>5, <2>1, <2>2 DEF JoinWaited
  <2>3. CASE joins[j] \notin {"released", "returned"}
    <3>1. unfinished' = 0
      BY <1>1, <2>3
    <3>2. Len(queue') = 0 /\ Cardinality(Busy') = 0
      BY <1>1, <1>6, <1>7, <1>8, <3>1 DEF CountsUnfinished
    <3>3. Busy' = {}
      BY <1>6, <3>2, FS_EmptySet
    <3>4. Queued' = {} /\ Held' = {}
      BY <3>2, <3>3 DEF Queued, Held
    <3>5. outcome'[u] \notin {"queued", "handled", "new"}
      BY <1>4, <1>5, <1>10, <2>1, <3>4 DEF InOnePlace, Finished
    <3> QED BY <1>9, <2>1, <3>5 DEF TypeOK, Outcomes, Finished
  <2> QED BY <2>2, <2>3
<1> QED BY <1>8, <1>9, <1>10, <1>11, <1>12, <1>13

LEMMA WorkerStep ==
    ASSUME Inv, NEW w \in WorkerIds, Worker(w)
    PROVE  Inv'
<1>1. CASE Get(w)
  BY <1>1, GetStep
<1>2. CASE HandlerReturns(w)
  <2>1. Settle(w, "done", "idle") /\ cancelled' = cancelled
    BY <1>2 DEF HandlerReturns
  <2> QED BY <2>1, SettleStep DEF Finished
<1>3. CASE HandlerRaises(w)
  <2>1. Settle(w, "failed", "idle") /\ cancelled' = cancelled
    BY <1>3 DEF HandlerRaises
  <2> QED BY <2>1, SettleStep DEF Finished
<1>4. CASE CancelBusy(w)
  <2>1. Settle(w, "interrupted", "dead") /\ cancelled' = cancelled \ {w}
    BY <1>4 DEF CancelBusy
  <2> QED BY <2>1, SettleStep DEF Finished
<1>5. CASE CancelIdle(w)
  <2> USE DEF Inv
  <2>1. /\ UNCHANGED <<queue, unfinished, running, starts, workers, holding, stopping,
                       outcome, joins, joined>>
        /\ worker[w] = "idle" /\ worker' = [worker EXCEPT ![w] = "dead"]
        /\ cancelled' = cancelled \ {w}
    BY <1>5 DEF CancelIdle
  <2>2. Busy' = Busy /\ \A v \in Live : v = w \/ v \in Live'
    BY <2>1 DEF Busy, Live, TypeOK
  <2>3. TypeOK'
    BY <2>1 DEF TypeOK
  <2>4. CountsUnfinished' /\ InOnePlace' /\ JoinsOld' /\ JoinWaited'
    BY <2>1, <2>2 DEF CountsUnfinished, InOnePlace, Queued, Held, JoinsOld, JoinWaited
  <2>5. FutureAbsent' /\ CancelledAwaited'
    BY <2>1, <2>2 DEF FutureAbsent, CancelledAwaited, TypeOK
  <2> QED BY <2>3, <2>4, <2>5
<1> QED BY <1>1, <1>2, <1>3, <1>4, <1>5 DEF Worker

LEMMA NextInv == Inv /\ [Next]_vars => Inv'
<1> SUFFICES ASSUME Inv, [Next]_vars PROVE Inv'
  OBVIOUS
<1>1. CASE Start
  BY <1>1, StartStep
<1>2. CASE StopCall \/ \E S \in stopping : StopReturn(S)
  BY <1>2, StopStep
<1>3. ASSUME NEW t \in Tasks, Enqueue(t) PROVE Inv'
  BY <1>3, EnqueueStep
<1>4. ASSUME NEW j \in Joiners, Join(j) \/ JoinReturn(j) PROVE Inv'
  BY <1>4, JoinStep
<1>5. ASSUME NEW w \in WorkerIds, Worker(w) PROVE Inv'
  BY <1>5, WorkerStep
<1>6. CASE UNCHANGED vars
  BY <1>6 DEF vars, Inv, TypeOK, CountsUnfinished, InOnePlace, Queued, Held, Busy, Live,
              FutureAbsent, JoinsOld, JoinWaited, CancelledAwaited
<1> QED BY <1>1, <1>2, <1>3, <1>4, <1>5, <1>6 DEF Next

LEMMA InvHolds == Spec => []Inv
BY InitInv, NextInv, PTL DEF Spec

-----------------------------------------------------------------------------
\* Every variable of the queue keeps its type: the counter of unfinished tasks,
\* for one, never becomes negative, which would make task_done() raise.
THEOREM TypeCorrect == Spec => []TypeOK
<1>1. Inv => TypeOK
  BY DEF Inv
<1> QED BY <1>1, InvHolds, PTL

\* join()'s counter is right, and a task is in one place at a time.
THEOREM CountRight == Spec => [](CountsUnfinished /\ InOnePlace)
<1>1. Inv => CountsUnfinished /\ InOnePlace
  BY DEF Inv
<1> QED BY <1>1, InvHolds, PTL

\* When join() returns, what it waited for is neither queued nor in a handler.
THEOREM JoinSafe == Spec => []JoinWaited
<1>1. Inv => JoinWaited
  BY DEF Inv
<1> QED BY <1>1, InvHolds, PTL

\* A task loses its handler only while a stop() is in progress.
THEOREM OnlyStopInterrupts == Spec => LostOnlyToStop
<1> DEFINE OnlyThen == \A t \in Tasks : outcome[t] # "interrupted" /\ outcome'[t] = "interrupted"
                                           => stopping # {}
<1>1. Inv /\ [Next]_vars => OnlyThen
  <2> SUFFICES ASSUME Inv, [Next]_vars, NEW t \in Tasks, outcome[t] # "interrupted",
                      outcome'[t] = "interrupted"
               PROVE  stopping # {}
    OBVIOUS
  <2>1. outcome \in [Tasks -> Outcomes]
    BY DEF Inv, TypeOK
  <2>2. PICK w \in WorkerIds : Worker(w)
    <3>1. outcome' # outcome
      OBVIOUS
    <3>2. ~(\E u \in Tasks : Enqueue(u))
      BY <2>1 DEF Enqueue
    <3> QED BY <3>1, <3>2 DEF Next, Start, StopCall, StopReturn, Join, JoinReturn, vars
  <2>3. CASE CancelBusy(w)
    BY <2>3 DEF CancelBusy, Inv, CancelledAwaited
  <2>4. CASE Get(w) \/ CancelIdle(w)
    BY <2>1, <2>4 DEF Get, CancelIdle
  <2>5. CASE HandlerReturns(w) \/ HandlerRaises(w)
    BY <2>1, <2>5 DEF HandlerReturns, HandlerRaises, Settle
  <2> QED BY <2>2, <2>3, <2>4, <2>5 DEF Worker
<1>2. [Next]_vars /\ Inv => [OnlyThen]_vars
  BY <1>1
<1> QED BY <1>2, InvHolds, PTL DEF Spec, LostOnlyToStop

\* The workers of the last start() serve while the queue runs, whatever earlier
\* calls of stop() are still waiting for.
THEOREM StartedServe == Spec => []StartedWorkersServe
<1>1. Init => StartedWorkersServe
  BY DEF Init, StartedWorkersServe
<1>2. Inv /\ StartedWorkersServe /\ [Next]_vars => StartedWorkersServe'
  <2> SUFFICES ASSUME Inv, StartedWorkersServe, [Next]_vars, running',
                      NEW n \in 1..WorkerCount
               PROVE  <<starts', n>> \in Live' \ cancelled'
    BY DEF StartedWorkersServe
  <2> USE DEF Inv
  <2>1. CASE Start
    <3>1. /\ starts' = starts + 1 /\ starts \in Nat /\ starts < MaxStarts
          /\ MaxStarts \in Nat /\ cancelled' = cancelled
          /\ worker' = [w \in WorkerIds |-> IF w \in Created THEN "idle" ELSE worker[w]]
      BY <2>1, ConstantsAssumption DEF Start, TypeOK
    <3> DEFINE w == <<starts + 1, n>>
    <3>2. w \in Created /\ w \in WorkerIds /\ w[1] = starts + 1 /\ w[1] > starts
      BY <3>1 DEF Created, WorkerIds
    <3>3. worker[w] = "absent"
      BY <3>2 DEF FutureAbsent
    <3>4. w \notin cancelled
      BY <3>3 DEF CancelledAwaited, Live
    <3>5. w \in Live'
      BY <3>1, <3>2 DEF Live
    <3> QED BY <3>1, <3>4, <3>5
  <2>2. CASE StopCall
    BY <2>2 DEF StopCall
  <2>3. ASSUME NEW v \in WorkerIds, Worker(v)
        PROVE  <<starts', n>> \in Live' \ cancelled'
    <3>1. /\ UNCHANGED <<running, starts>> /\ cancelled' \subseteq cancelled
          /\ \A w \in Live \ cancelled : w \in Live'
      BY <2>3 DEF Worker, Get, HandlerReturns, HandlerRaises, CancelIdle, CancelBusy,
                  Settle, Live, TypeOK
    <3> QED BY <3>1 DEF StartedWorkersServe
  <2>4. CASE \/ \E S \in stopping : StopReturn(S)
             \/ \E t \in Tasks : Enqueue(t)
             \/ \E j \in Joiners : Join(j) \/ JoinReturn(j)
             \/ UNCHANGED vars
    <3>1. UNCHANGED <<running, starts, worker, cancelled>>
      BY <2>4 DEF StopReturn, Enqueue, Join, JoinReturn, vars
    <3> QED BY <3>1 DEF StartedWorkersServe, Live
  <2> QED BY <2>1, <2>2, <2>3, <2>4 DEF Next
<1> QED BY <1>1, <1>2, InvHolds, PTL DEF Spec
=============================================================================
