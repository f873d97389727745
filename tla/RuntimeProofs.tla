---------------------------- MODULE RuntimeProofs ---------------------------
(***************************************************************************)
(* Theorems about the runtime: a turn of the conversation with a plan in   *)
(* it (ConversationTurn), for every set of utterances, texts, capabilities *)
(* and backends, and the knowledge engine over the internet service and    *)
(* the guarded model (KnowledgeEngine), for every number of askers, every  *)
(* bound and every delay.                                                  *)
(***************************************************************************)
EXTENDS ConversationTurn, KnowledgeEngine, FiniteSetTheorems, SequenceTheorems, TLAPS

-----------------------------------------------------------------------------
(***************************************************************************)
(* What one plan comes to.  A step is settled or still waits for others;   *)
(* steps are skipped only behind one that has failed; and what is accepted *)
(* of a plan shows what the verifier let through or a salvage of it.       *)
(***************************************************************************)
Words == {"marker", "artifact", "claim", "echo", "recalled", "answer", "empty",
          "fallback", "partial"}

PlanTypes ==
    /\ pc \in {"idle", "plan", "execute", "synthesize", "verify", "done"}
    /\ plan.steps \subseteq Nodes
    /\ status \in [Nodes -> Status \cup {"ABSENT"}]
    /\ output \in [Nodes -> SUBSET Words]
    /\ draft \in SUBSET Words
    /\ outcome \in [accepted : BOOLEAN, ok : BOOLEAN, shown : SUBSET Words]

Settled ==
    /\ pc \in {"idle", "plan"} => plan = NoPlan /\ outcome = Declined
    /\ pc # "done" => outcome = Declined
    /\ \A i \in Nodes :
         /\ i \notin plan.steps => status[i] = "ABSENT"
         /\ i \in plan.steps => status[i] \in Terminal \cup {"PENDING"}
         /\ status[i] = "SKIPPED" => Failed # {}
    /\ pc \in {"synthesize", "verify", "done"} =>
         \A i \in plan.steps : status[i] # "PENDING"

Honest ==
    pc = "done" =>
        /\ outcome.accepted => "marker" \notin outcome.shown
        /\ outcome.ok /\ Failed # {} => "claim" \notin outcome.shown
        /\ ~outcome.accepted => Succeeded = {}

PlanInv == PlanTypes /\ Settled /\ Honest

LEMMA PlanInitInv == PlanInit => PlanInv
<1> SUFFICES ASSUME PlanInit PROVE PlanInv
  OBVIOUS
<1>1. PlanTypes
  BY DEF PlanInit, PlanTypes, NoPlan, Declined, Words, Empty
<1>2. Settled /\ Honest
  BY DEF PlanInit, Settled, Honest, NoPlan
<1> QED BY <1>1, <1>2 DEF PlanInv

LEMMA PlanForgetInv == PlanForget => PlanInv'
<1> SUFFICES ASSUME PlanForget PROVE PlanInv'
  OBVIOUS
<1>1. PlanTypes'
  BY DEF PlanForget, PlanTypes, NoPlan, Declined, Words, Empty
<1>2. Settled' /\ Honest'
  BY DEF PlanForget, Settled, Honest, NoPlan, Declined
<1> QED BY <1>1, <1>2 DEF PlanInv

\* A plan's steps are nodes.
LEMMA DecomposedSteps == ASSUME NEW p \in Decomposed PROVE p.steps \subseteq Nodes
BY DEF Decomposed, HeuristicPlans, LLMPlans, Plans, StepsOf

\* What a model or a tool answers is made of words.
LEMMA OutputsAreWords == Outputs \subseteq SUBSET Words
<1>1. \A t \in Told : t \in SUBSET Words
  <2> TAKE t \in Told
  <2>1. CASE t = Empty
    BY <2>1 DEF Empty, Words
  <2>2. CASE t \in SUBSET {"marker", "artifact", "claim", "echo", "recalled", "answer"}
    BY <2>2 DEF Words
  <2> QED BY <2>1, <2>2 DEF Told
<1> QED BY <1>1, PlanningAssumption

LEMMA DecomposeInv == PlanInv /\ Decompose => PlanInv'
<1> SUFFICES ASSUME PlanInv, Decompose PROVE PlanInv'
  OBVIOUS
<1>1. /\ PlanTypes /\ pc = "plan" /\ plan = NoPlan /\ outcome = Declined
      /\ \A i \in Nodes : status[i] = "ABSENT"
      /\ UNCHANGED <<output, draft, outcome>>
  BY DEF PlanInv, Settled, Decompose, NoPlan
<1>2. CASE pc' = "done" /\ UNCHANGED <<plan, status>>
  <2>1. plan.steps = {} /\ Succeeded' = {} /\ Failed' = {}
    BY <1>1, <1>2 DEF NoPlan, Succeeded, Failed
  <2> QED BY <1>1, <1>2, <2>1 DEF PlanInv, PlanTypes, Settled, Honest, Declined
<1>3. CASE \E p \in Decomposed :
             /\ pc' = "execute" /\ plan' = p
             /\ status' = [i \in Nodes |-> IF i \in p.steps THEN "PENDING" ELSE "ABSENT"]
  <2>1. PICK p \in Decomposed :
             /\ pc' = "execute" /\ plan' = p
             /\ status' = [i \in Nodes |-> IF i \in p.steps THEN "PENDING" ELSE "ABSENT"]
    BY <1>3
  <2>2. p.steps \subseteq Nodes
    BY DecomposedSteps
  <2>3. PlanTypes'
    BY <1>1, <2>1, <2>2 DEF PlanTypes, Status
  <2>4. Settled' /\ Honest'
    BY <1>1, <2>1, <2>2 DEF Settled, Honest
  <2> QED BY <2>3, <2>4 DEF PlanInv
<1> QED BY <1>2, <1>3 DEF Decompose

\* What a step may answer is made of words, and how it may end is known.
LEMMA ResultsTyped ==
    ASSUME NEW i \in Nodes, NEW r \in Results(i)
    PROVE  r.text \in SUBSET Words /\ r.end \in {"SUCCEEDED", "TIMED_OUT", "FAILED"}
BY OutputsAreWords DEF Results, Always, Empty, Words

LEMMA RunNodeInv == ASSUME PlanInv, NEW i \in Nodes, RunNode(i) PROVE PlanInv'
<1>1. /\ PlanTypes /\ pc = "execute" /\ status[i] = "PENDING" /\ outcome = Declined
      /\ UNCHANGED <<pc, plan, draft, outcome>>
  BY DEF PlanInv, Settled, RunNode, ReadyNodes, PendingNodes
<1>2. PICK r \in Results(i) :
         LET ended == [status EXCEPT ![i] = r.end]
             skipped == IF r.end = "SUCCEEDED" THEN {}
                        ELSE SkipUnreachable(plan.deps, ended, {i})
         IN  /\ output' = [output EXCEPT ![i] = IF r.end = "SUCCEEDED" THEN r.text ELSE Empty]
             /\ status' = [j \in Nodes |-> IF j \in skipped THEN "SKIPPED" ELSE ended[j]]
  BY DEF RunNode
<1> DEFINE ended == [status EXCEPT ![i] = r.end]
           skipped == IF r.end = "SUCCEEDED" THEN {} ELSE SkipUnreachable(plan.deps, ended, {i})
<1>3. r.text \in SUBSET Words /\ r.end \in {"SUCCEEDED", "TIMED_OUT", "FAILED"}
  BY ResultsTyped
<1>4. \A j \in skipped : j \in Nodes /\ j # i /\ status[j] = "PENDING"
  BY <1>1, <1>3 DEF SkipUnreachable, PendingNodes, PlanTypes
<1>5. /\ status'[i] = r.end
      /\ \A j \in Nodes \ {i} : status'[j] = IF j \in skipped THEN "SKIPPED" ELSE status[j]
  BY <1>1, <1>2, <1>4 DEF PlanTypes
<1>6. i \in plan.steps
  BY <1>1 DEF PlanInv, Settled
<1>7. PlanTypes'
  <2>1. output' \in [Nodes -> SUBSET Words]
    BY <1>1, <1>2, <1>3 DEF PlanTypes, Empty, Words
  <2>2. status' \in [Nodes -> Status \cup {"ABSENT"}]
    BY <1>1, <1>2, <1>3 DEF PlanTypes, Status, Terminal, Failures
  <2> QED BY <1>1, <2>1, <2>2 DEF PlanTypes
<1>8. \A j \in Nodes : status'[j] = "SKIPPED" => Failed' # {}
  <2>1. CASE r.end = "SUCCEEDED"
    <3>1. \A j \in Failed : j \in Failed'
      BY <1>1, <1>5, <2>1 DEF Failed, PlanTypes, PlanInv, Settled, Failures
    <3> QED BY <1>3, <1>5, <2>1, <3>1 DEF PlanInv, Settled
  <2>2. CASE r.end # "SUCCEEDED"
    <3>1. i \in Failed'
      BY <1>1, <1>3, <1>5, <1>6, <2>2 DEF Failed, Failures
    <3> QED BY <3>1
  <2> QED BY <2>1, <2>2
<1>9. \A j \in Nodes : /\ j \notin plan.steps => status'[j] = "ABSENT"
                       /\ j \in plan.steps => status'[j] \in Terminal \cup {"PENDING"}
  BY <1>3, <1>4, <1>5, <1>6 DEF PlanInv, Settled, Terminal, Failures
<1>10. Settled' /\ Honest'
  BY <1>1, <1>8, <1>9 DEF PlanInv, Settled, Honest
<1> QED BY <1>7, <1>10 DEF PlanInv

LEMMA ExecutedInv == PlanInv /\ Executed => PlanInv'
<1> SUFFICES ASSUME PlanInv, Executed PROVE PlanInv'
  OBVIOUS
<1>1. /\ pc = "execute" /\ pc' = "synthesize" /\ PendingNodes(status) = {}
      /\ UNCHANGED <<plan, status, output, draft, outcome>>
  BY DEF Executed
<1>2. Failed' = Failed
  BY <1>1 DEF Failed
<1>3. PlanTypes' /\ Honest'
  BY <1>1 DEF PlanInv, PlanTypes, Honest
<1>4. Settled'
  BY <1>1, <1>2 DEF PlanInv, PlanTypes, Settled, PendingNodes
<1> QED BY <1>3, <1>4 DEF PlanInv

LEMMA JoinTyped == ASSUME NEW T \in SUBSET SUBSET Words PROVE Join(T) \in SUBSET Words
BY DEF Join, Empty, Words

LEMMA SynthesizeInv == PlanInv /\ Synthesize => PlanInv'
<1> SUFFICES ASSUME PlanInv, Synthesize PROVE PlanInv'
  OBVIOUS
<1>1. /\ PlanTypes /\ pc = "synthesize" /\ pc' = "verify"
      /\ UNCHANGED <<plan, status, output, outcome>>
  BY DEF PlanInv, Synthesize
<1>2. AllOutputs \in SUBSET Words
  <2>1. {output[i] : i \in Succeeded} \in SUBSET SUBSET Words
    BY <1>1 DEF PlanTypes, Succeeded
  <2> QED BY <2>1, JoinTyped DEF AllOutputs
<1>3. draft' \in SUBSET Words
  BY <1>2, OutputsAreWords DEF Synthesize
<1>4. PlanTypes' /\ Honest'
  BY <1>1, <1>3 DEF PlanTypes, Honest
<1>5. Settled'
  <2>1. Failed' = Failed
    BY <1>1 DEF Failed
  <2> QED BY <1>1, <2>1 DEF PlanInv, Settled
<1> QED BY <1>4, <1>5 DEF PlanInv

\* A salvage shows only outputs that are safe to show.
LEMMA SalvageSafe == ASSUME PlanTypes PROVE Salvage \in SUBSET Words /\ "marker" \notin Salvage
<1> DEFINE good == {output[i] : i \in {j \in Succeeded : IsUserSafe(output[j])}}
<1>1. \A text \in good : text \in SUBSET Words /\ "marker" \notin text
  BY DEF PlanTypes, Succeeded, IsUserSafe
<1>2. UNION good \in SUBSET Words /\ "marker" \notin UNION good
  BY <1>1
<1> QED BY <1>2 DEF Salvage, Fallback, Words

LEMMA ConcludeInv == PlanInv /\ Conclude => PlanInv'
<1> SUFFICES ASSUME PlanInv, Conclude PROVE PlanInv'
  OBVIOUS
<1>1. /\ PlanTypes /\ pc = "verify" /\ pc' = "done"
      /\ UNCHANGED <<plan, status, output, draft>>
  BY DEF PlanInv, Conclude
<1>2. PICK soft \in BOOLEAN : outcome' = Decide(Verify(draft, soft))
  BY DEF Conclude
<1>3. /\ Verify(draft, soft) \in [ok : BOOLEAN, shown : SUBSET Words]
      /\ "marker" \notin Verify(draft, soft).shown
      /\ Verify(draft, soft).ok /\ Failed # {} => "claim" \notin Verify(draft, soft).shown
  BY <1>1, SalvageSafe DEF PlanTypes, Verify, Rejected, IsUserSafe, Fallback, Words
<1>4. /\ outcome' \in [accepted : BOOLEAN, ok : BOOLEAN, shown : SUBSET Words]
      /\ outcome'.shown = Verify(draft, soft).shown
      /\ outcome'.ok = Verify(draft, soft).ok
      /\ Succeeded # {} => outcome'.accepted
  BY <1>2, <1>3 DEF Decide
<1>5. Failed' = Failed /\ Succeeded' = Succeeded
  BY <1>1 DEF Failed, Succeeded
<1>6. PlanTypes' /\ Honest'
  BY <1>1, <1>3, <1>4, <1>5 DEF PlanTypes, Honest
<1>7. Settled'
  BY <1>1, <1>5 DEF PlanInv, Settled
<1> QED BY <1>6, <1>7 DEF PlanInv

LEMMA PlanNextInv == PlanInv /\ PlanNext => PlanInv'
BY DecomposeInv, RunNodeInv, ExecutedInv, SynthesizeInv, ConcludeInv DEF PlanNext
-----------------------------------------------------------------------------
(***************************************************************************)
(* The stages of a turn.  A plan that has been given up is over before     *)
(* the goal is routed, and nothing of it was accepted.                     *)
(***************************************************************************)
Stages ==
    /\ stage \in {"idle", "knowledge", "planning", "routing", "persist"}
    /\ stage # "planning" => pc \in {"idle", "done"}
    /\ stage # "planning" /\ pc = "done" => ~outcome.accepted
    /\ stage = "planning" => routed = ""

TurnInv == PlanInv /\ Stages

LEMMA ListenStages == ASSUME NEW u, Listen(u) PROVE Stages'
<1>1. pc' = "idle" /\ routed' = ""
  BY DEF Listen, PlanForget
<1>2. stage' \in {"idle", "knowledge", "planning", "routing"}
  BY DEF Listen, Return
<1> QED BY <1>1, <1>2 DEF Stages

LEMMA PlanUnchanged == PlanInv /\ UNCHANGED planVars => PlanInv'
BY DEF planVars, PlanInv, PlanTypes, Settled, Honest, Succeeded, Failed

LEMMA TurnInit == Init => TurnInv
BY PlanInitInv DEF Init, PlanInit, TurnInv, Stages

LEMMA TurnNext == TurnInv /\ [Next]_vars => TurnInv'
<1> SUFFICES ASSUME TurnInv, [Next]_vars PROVE TurnInv'
  OBVIOUS
<1> USE DEF TurnInv
<1>1. CASE \E u \in Utterances : Listen(u)
  BY <1>1, ListenStages, PlanForgetInv DEF Listen
<1>2. CASE AnswerDirectly
  <2>1. Stages'
    BY <1>2 DEF AnswerDirectly, Record, Fails, Return, planVars, Stages
  <2> QED BY <1>2, <2>1, PlanUnchanged DEF AnswerDirectly
<1>3. CASE StartPlanning
  <2>1. Stages'
    BY <1>3 DEF StartPlanning, turnVars, Stages
  <2>2. PlanInv'
    BY <1>3 DEF StartPlanning, PlanInv, PlanTypes, Settled, Honest, Failed
  <2> QED BY <2>1, <2>2
<1>4. CASE PlanStep
  BY <1>4, PlanNextInv DEF PlanStep, turnVars, Stages
<1>5. CASE PlanningDone
  <2>1. Stages'
    BY <1>5 DEF PlanningDone, PlanForget, Record, planVars, Stages
  <2> QED BY <1>5, <2>1, PlanForgetInv, PlanUnchanged DEF PlanningDone
<1>6. CASE Route
  <2>1. Stages'
    BY <1>6 DEF Route, Record, Fails, Return, planVars, Stages
  <2> QED BY <1>6, <2>1, PlanUnchanged DEF Route
<1>7. CASE PersistTurn
  <2>1. Stages'
    BY <1>7 DEF PersistTurn, Return, planVars, Stages
  <2> QED BY <1>7, <2>1, PlanUnchanged DEF PersistTurn
<1>8. CASE UNCHANGED vars
  BY <1>8, PlanUnchanged DEF vars, planVars, turnVars, Stages
<1> QED BY <1>1, <1>2, <1>3, <1>4, <1>5, <1>6, <1>7, <1>8 DEF Next

\* A goal that a plan was made for is routed again only if no step of it succeeded.
THEOREM RoutedOnlyIfNothingDone == Spec => []NotDoneTwice
<1>1. TurnInv => NotDoneTwice
  BY DEF TurnInv, Stages, PlanInv, Honest, NotDoneTwice
<1> QED BY <1>1, TurnInit, TurnNext, PTL DEF Spec

\* What is accepted of a plan shows no internal machinery, and claims no success
\* that the plan has not had.
THEOREM AnswersAreHonest == Spec => []PlannedAnswerHonest
<1>1. TurnInv => PlannedAnswerHonest
  <2> SUFFICES ASSUME TurnInv, pc = "done", outcome.accepted
               PROVE  /\ "marker" \notin outcome.shown
                      /\ outcome.ok /\ Succeeded # plan.steps => "claim" \notin outcome.shown
    BY DEF PlannedAnswerHonest
  <2>1. ASSUME Succeeded # plan.steps PROVE Failed # {}
    <3>1. PICK i \in plan.steps : status[i] # "SUCCEEDED"
      BY <2>1 DEF Succeeded
    <3>2. i \in Nodes /\ status[i] \in Terminal /\ status[i] # "SUCCEEDED"
      BY <3>1 DEF TurnInv, PlanInv, PlanTypes, Settled
    <3> QED BY <3>1, <3>2 DEF TurnInv, PlanInv, Settled, Failed, Terminal, Failures
  <2> QED BY <2>1 DEF TurnInv, PlanInv, Honest
<1> QED BY <1>1, TurnInit, TurnNext, PTL DEF Spec

-----------------------------------------------------------------------------
(***************************************************************************)
(* Induction over the natural numbers, for a set: the subsets of an        *)
(* interval are well-founded under strict inclusion.                       *)
(***************************************************************************)
LEMMA LeastNat ==
    ASSUME NEW T \in SUBSET Nat, T # {}
    PROVE  \E n \in T : \A m \in T : n <= m
<1> DEFINE R == StrictSubsetOrdering(Nat)
           I == {0..n : n \in T}
<1>1. IsWellFoundedOn(R, FiniteSubsetsOf(Nat))
  BY FS_StrictSubsetOrderingWellFounded
<1>2. I \subseteq FiniteSubsetsOf(Nat) /\ I # {}
  <2>1. \A n \in T : 0..n \in SUBSET Nat /\ IsFiniteSet(0..n)
    BY FS_Interval
  <2> QED BY <2>1 DEF FiniteSubsetsOf
<1>3. PICK x \in I : \A y \in I : ~(<<y, x>> \in R)
  <2> HIDE DEF R, I
  <2> QED BY <1>1, <1>2, WFMin
<1>4. PICK n \in T : x = 0..n
  OBVIOUS
<1>5. ASSUME NEW m \in T, m < n PROVE FALSE
  <2>1. 0..m \in SUBSET Nat /\ 0..n \in SUBSET Nat /\ 0..m \subseteq 0..n /\ n \in 0..n /\ n \notin 0..m
    BY <1>5
  <2>2. <<0..m, 0..n>> \in StrictSubsetOrdering(Nat)
    BY <2>1 DEF StrictSubsetOrdering
  <2> QED BY <1>3, <1>4, <2>2
<1> QED BY <1>5

LEMMA SetInduction ==
    ASSUME NEW S \in SUBSET Nat, 0 \in S, \A n \in S : n + 1 \in S
    PROVE  S = Nat
<1> SUFFICES ASSUME Nat \ S # {} PROVE FALSE
  OBVIOUS
<1>1. PICK n \in Nat \ S : \A m \in Nat \ S : n <= m
  BY LeastNat
<1>2. n - 1 \in Nat /\ n - 1 \in S
  BY <1>1
<1>3. (n - 1) + 1 = n
  BY <1>1
<1> QED BY <1>1, <1>2, <1>3

-----------------------------------------------------------------------------
(***************************************************************************)
(* What Without and Latest make of a sequence with one more element.       *)
(***************************************************************************)
Kept(f, s, D) ==
    f = [i \in 0..Len(s) |-> IF i = 0 THEN <<>>
                             ELSE IF s[i] \in D THEN f[i - 1]
                             ELSE Append(f[i - 1], s[i])]

Keeping(f, n, s, D) ==
    /\ f[0] = <<>>
    /\ \A i \in 1..n : f[i] = IF s[i] \in D THEN f[i - 1] ELSE Append(f[i - 1], s[i])

LEMMA WithoutChooses == ASSUME NEW s, NEW D
                        PROVE  Without(s, D) = (CHOOSE f : Kept(f, s, D))[Len(s)]
BY DEF Without, Kept

LEMMA KeepingExists ==
    ASSUME NEW S, NEW s \in Seq(S), NEW D
    PROVE  \A n \in 0..Len(s) : \E f \in [0..n -> Seq(S)] : Keeping(f, n, s, D)
<1> DEFINE P == {n \in Nat : n <= Len(s) => \E f \in [0..n -> Seq(S)] : Keeping(f, n, s, D)}
<1>0. Len(s) \in Nat /\ \A i \in 1..Len(s) : s[i] \in S
  OBVIOUS
<1>1. 0 \in P
  <2> DEFINE f == [i \in 0..0 |-> <<>>]
  <2>1. f \in [0..0 -> Seq(S)] /\ Keeping(f, 0, s, D)
    BY DEF Keeping
  <2> QED BY <2>1
<1>2. ASSUME NEW n \in P PROVE n + 1 \in P
  <2> SUFFICES ASSUME n + 1 <= Len(s)
               PROVE  \E f \in [0..(n + 1) -> Seq(S)] : Keeping(f, n + 1, s, D)
    OBVIOUS
  <2>1. PICK f \in [0..n -> Seq(S)] : Keeping(f, n, s, D)
    BY <1>0
  <2> DEFINE next == IF s[n + 1] \in D THEN f[n] ELSE Append(f[n], s[n + 1])
             g == [i \in 0..(n + 1) |-> IF i = n + 1 THEN next ELSE f[i]]
  <2>2. s[n + 1] \in S /\ f[n] \in Seq(S)
    BY <1>0
  <2>3. next \in Seq(S)
    BY <2>2
  <2>4. g \in [0..(n + 1) -> Seq(S)]
    BY <2>3
  <2>5. Keeping(g, n + 1, s, D)
    <3>1. g[0] = <<>>
      BY <2>1 DEF Keeping
    <3>2. ASSUME NEW i \in 1..(n + 1)
          PROVE  g[i] = IF s[i] \in D THEN g[i - 1] ELSE Append(g[i - 1], s[i])
      <4>1. i - 1 \in 0..(n + 1) /\ i - 1 # n + 1 /\ g[i - 1] = f[i - 1]
        OBVIOUS
      <4>2. CASE i = n + 1
        BY <4>1, <4>2
      <4>3. CASE i # n + 1
        <5>1. i \in 1..n /\ g[i] = f[i]
          BY <4>3
        <5> QED BY <2>1, <4>1, <5>1 DEF Keeping
      <4> QED BY <4>2, <4>3
    <3> HIDE DEF g
    <3> QED BY <3>1, <3>2 DEF Keeping
  <2> QED BY <2>4, <2>5
<1>3. P = Nat
  <2> HIDE DEF P
  <2>1. P \in SUBSET Nat
    BY DEF P
  <2> QED BY <1>1, <1>2, <2>1, SetInduction
<1> QED BY <1>0, <1>3

LEMMA KeepingUnique ==
    ASSUME NEW s, NEW D, NEW n \in Nat, NEW f, NEW g,
           Keeping(f, n, s, D), Keeping(g, n, s, D)
    PROVE  \A i \in 0..n : f[i] = g[i]
<1> DEFINE P == {i \in Nat : i <= n => f[i] = g[i]}
<1>1. 0 \in P
  BY DEF Keeping
<1>2. ASSUME NEW i \in P PROVE i + 1 \in P
  <2>1. ASSUME i + 1 <= n PROVE f[i + 1] = g[i + 1]
    <3>1. i + 1 \in 1..n /\ (i + 1) - 1 = i /\ f[i] = g[i]
      BY <2>1
    <3> QED BY <3>1 DEF Keeping
  <2> QED BY <2>1
<1>3. P = Nat
  <2> HIDE DEF P
  <2>1. P \in SUBSET Nat
    BY DEF P
  <2> QED BY <1>1, <1>2, <2>1, SetInduction
<1> QED BY <1>3

\* The definition of Without is met, by a function of sequences.
LEMMA WithoutKeeps ==
    ASSUME NEW S, NEW s \in Seq(S), NEW D
    PROVE  \E f \in [0..Len(s) -> Seq(S)] :
             Keeping(f, Len(s), s, D) /\ Without(s, D) = f[Len(s)]
<1>0. Len(s) \in Nat
  OBVIOUS
<1>1. PICK f \in [0..Len(s) -> Seq(S)] : Keeping(f, Len(s), s, D)
  <2>1. Len(s) \in 0..Len(s)
    BY <1>0
  <2> QED BY <2>1, KeepingExists
<1>2. Kept(f, s, D)
  <2>1. f = [i \in 0..Len(s) |-> f[i]]
    BY <1>1
  <2>2. ASSUME NEW i \in 0..Len(s)
        PROVE  f[i] = IF i = 0 THEN <<>>
                      ELSE IF s[i] \in D THEN f[i - 1]
                      ELSE Append(f[i - 1], s[i])
    <3>1. CASE i = 0
      BY <1>1, <3>1 DEF Keeping
    <3>2. CASE i # 0
      <4>1. i \in 1..Len(s)
        BY <1>0, <3>2
      <4> QED BY <1>1, <3>2, <4>1 DEF Keeping
    <3> QED BY <3>1, <3>2
  <2> QED BY <2>1, <2>2 DEF Kept
<1> DEFINE g == CHOOSE h : Kept(h, s, D)
<1>3. Kept(g, s, D)
  BY <1>2
<1>4. Keeping(g, Len(s), s, D)
  <2> HIDE DEF g
  <2>1. \A i \in 0..Len(s) : g[i] = IF i = 0 THEN <<>>
                                     ELSE IF s[i] \in D THEN g[i - 1]
                                     ELSE Append(g[i - 1], s[i])
    BY <1>3 DEF Kept
  <2>2. 0 \in 0..Len(s) /\ \A i \in 1..Len(s) : i \in 0..Len(s) /\ i # 0
    BY <1>0
  <2>3. g[0] = <<>>
    BY <2>1, <2>2
  <2>4. \A i \in 1..Len(s) : g[i] = IF s[i] \in D THEN g[i - 1] ELSE Append(g[i - 1], s[i])
    BY <2>1, <2>2
  <2> QED BY <2>3, <2>4 DEF Keeping
<1>5. g[Len(s)] = f[Len(s)]
  <2> HIDE DEF g
  <2> QED BY <1>0, <1>1, <1>4, KeepingUnique
<1> QED BY <1>1, <1>5, WithoutChooses

LEMMA WithoutNothing == ASSUME NEW D PROVE Without(<<>>, D) = <<>>
<1> DEFINE none == <<>>
<1>1. none \in Seq({}) /\ Len(none) = 0
  OBVIOUS
<1> HIDE DEF none
<1>2. PICK f \in [0..Len(none) -> Seq({})] :
        Keeping(f, Len(none), none, D) /\ Without(none, D) = f[Len(none)]
  BY <1>1, WithoutKeeps
<1>3. Without(none, D) = <<>>
  BY <1>1, <1>2 DEF Keeping
<1> QED BY <1>3 DEF none

LEMMA WithoutOneMore ==
    ASSUME NEW S, NEW s \in Seq(S), NEW e \in S, NEW D
    PROVE  /\ Without(s, D) \in Seq(S)
           /\ Without(Append(s, e), D) =
                IF e \in D THEN Without(s, D) ELSE Append(Without(s, D), e)
<1> DEFINE t == Append(s, e)
<1>1. /\ Len(s) \in Nat /\ t \in Seq(S) /\ Len(t) = Len(s) + 1 /\ t[Len(t)] = e
      /\ \A i \in 1..Len(s) : t[i] = s[i]
  OBVIOUS
<1> HIDE DEF t
<1>2. PICK f \in [0..Len(s) -> Seq(S)] :
        Keeping(f, Len(s), s, D) /\ Without(s, D) = f[Len(s)]
  BY WithoutKeeps
<1>3. PICK g \in [0..Len(t) -> Seq(S)] :
        Keeping(g, Len(t), t, D) /\ Without(t, D) = g[Len(t)]
  BY <1>1, WithoutKeeps
<1>4. Keeping(g, Len(s), s, D)
  BY <1>1, <1>3 DEF Keeping
<1>5. g[Len(s)] = f[Len(s)]
  BY <1>1, <1>2, <1>4, KeepingUnique
<1>6. g[Len(t)] = IF e \in D THEN g[Len(s)] ELSE Append(g[Len(s)], e)
  <2>1. Len(t) \in 1..Len(t) /\ Len(t) - 1 = Len(s)
    BY <1>1
  <2> QED BY <1>1, <1>3, <2>1 DEF Keeping
<1> QED BY <1>1, <1>2, <1>3, <1>5, <1>6 DEF t

LEMMA LatestProperties ==
    ASSUME NEW S, NEW s \in Seq(S), NEW n \in Nat \ {0}
    PROVE  /\ Latest(s, n) \in Seq(S)
           /\ Len(Latest(s, n)) = IF Len(s) > n THEN n ELSE Len(s)
           /\ \A i \in 1..Len(Latest(s, n)) :
                Latest(s, n)[i] = s[IF Len(s) > n THEN i + Len(s) - n ELSE i]
<1> DEFINE from == IF Len(s) > n THEN Len(s) - n + 1 ELSE 1
<1>1. Len(s) \in Nat /\ from \in Int /\ \A i \in from..Len(s) : s[i] \in S
  OBVIOUS
<1>2. /\ SubSeq(s, from, Len(s)) \in Seq(S)
      /\ Len(SubSeq(s, from, Len(s))) = IF from <= Len(s) THEN Len(s) - from + 1 ELSE 0
      /\ \A i \in 1..(Len(s) - from + 1) : SubSeq(s, from, Len(s))[i] = s[from + i - 1]
  <2> HIDE DEF from
  <2> QED BY <1>1, SubSeqProperties
<1>3. Latest(s, n) = SubSeq(s, from, Len(s))
  BY DEF Latest
<1>4. Len(Latest(s, n)) = IF Len(s) > n THEN n ELSE Len(s)
  <2>1. /\ Len(s) \in Nat
        /\ Len(Latest(s, n)) = IF from <= Len(s) THEN Len(s) - from + 1 ELSE 0
    BY <1>1, <1>2, <1>3
  <2>2. CASE Len(s) > n
    <3>1. from = Len(s) - n + 1 /\ from <= Len(s)
      BY <2>1, <2>2
    <3> HIDE DEF from
    <3> QED BY <2>1, <2>2, <3>1
  <2>3. CASE ~(Len(s) > n)
    <3>1. from = 1
      BY <2>3
    <3> HIDE DEF from
    <3> QED BY <2>1, <2>3, <3>1
  <2> QED BY <2>2, <2>3
<1>5. ASSUME NEW i \in 1..Len(Latest(s, n))
      PROVE  Latest(s, n)[i] = s[IF Len(s) > n THEN i + Len(s) - n ELSE i]
  <2>1. i \in 1..(Len(s) - from + 1) /\ i \in Int
    BY <1>1, <1>4
  <2>2. from + i - 1 = IF Len(s) > n THEN i + Len(s) - n ELSE i
    BY <1>1, <2>1
  <2> HIDE DEF from
  <2> QED BY <1>2, <1>3, <2>1, <2>2
<1> QED BY <1>2, <1>3, <1>4, <1>5

\* Remember() keeps the latest turns.
LEMMA LatestOneMore ==
    ASSUME NEW S, NEW s \in Seq(S), NEW e \in S, NEW n \in Nat \ {0}
    PROVE  LET longer == Append(Latest(s, n), e)
           IN  Latest(Append(s, e), n) = IF Len(longer) > n THEN Tail(longer) ELSE longer
<1> DEFINE t == Append(s, e)
           k == Latest(s, n)
           longer == Append(k, e)
           kept == IF Len(longer) > n THEN Tail(longer) ELSE longer
<1>1. /\ Len(s) \in Nat /\ t \in Seq(S) /\ Len(t) = Len(s) + 1 /\ t[Len(t)] = e
      /\ \A i \in 1..Len(s) : t[i] = s[i]
  OBVIOUS
<1>2. /\ k \in Seq(S) /\ Len(k) = IF Len(s) > n THEN n ELSE Len(s)
      /\ \A i \in 1..Len(k) : k[i] = s[IF Len(s) > n THEN i + Len(s) - n ELSE i]
  BY LatestProperties
<1>3. /\ Latest(t, n) \in Seq(S) /\ Len(Latest(t, n)) = IF Len(t) > n THEN n ELSE Len(t)
      /\ \A i \in 1..Len(Latest(t, n)) :
           Latest(t, n)[i] = t[IF Len(t) > n THEN i + Len(t) - n ELSE i]
  <2> HIDE DEF t
  <2> QED BY <1>1, LatestProperties
<1>4. /\ longer \in Seq(S) /\ Len(longer) = Len(k) + 1 /\ longer[Len(longer)] = e
      /\ \A i \in 1..Len(k) : longer[i] = k[i]
  <2> HIDE DEF k
  <2> QED BY <1>2
<1> HIDE DEF t, k, longer
<1>5. CASE Len(longer) > n
  <2>1. Len(s) >= n /\ Len(k) = n /\ Len(t) > n
    BY <1>1, <1>2, <1>4, <1>5
  <2>2. /\ Tail(longer) \in Seq(S) /\ Len(Tail(longer)) = n
        /\ \A i \in 1..n : Tail(longer)[i] = longer[i + 1]
    <3>1. longer # <<>>
      BY <1>1, <1>4, <1>5
    <3> QED BY <1>4, <2>1, <3>1, HeadTailProperties
  <2>3. Len(Latest(t, n)) = n
    BY <1>3, <2>1
  <2>4. ASSUME NEW i \in 1..n PROVE Latest(t, n)[i] = Tail(longer)[i]
    <3>1. Latest(t, n)[i] = t[i + Len(t) - n]
      BY <1>3, <2>1, <2>3
    <3>2. CASE i = n
      BY <1>1, <1>4, <2>1, <2>2, <3>1, <3>2
    <3>3. CASE i # n
      <4>1. i + 1 \in 1..Len(k) /\ Tail(longer)[i] = k[i + 1]
        BY <1>4, <2>1, <2>2, <3>3
      <4>2. k[i + 1] = s[i + 1 + Len(s) - n]
        BY <1>1, <1>2, <2>1, <4>1
      <4>3. i + Len(t) - n = i + 1 + Len(s) - n /\ i + 1 + Len(s) - n \in 1..Len(s)
        <5>1. Len(s) \in Nat /\ Len(t) = Len(s) + 1
          BY <1>1
        <5> QED BY <2>1, <3>3, <5>1
      <4> QED BY <1>1, <3>1, <4>1, <4>2, <4>3
    <3> QED BY <3>2, <3>3
  <2>5. Latest(t, n) = Tail(longer)
    BY <1>3, <2>2, <2>3, <2>4, SeqEqual
  <2> QED BY <1>5, <2>5 DEF t, k, longer
<1>6. CASE ~(Len(longer) > n)
  <2>1. Len(s) < n /\ Len(k) = Len(s) /\ Len(t) <= n /\ Len(longer) = Len(t)
    BY <1>1, <1>2, <1>4, <1>6
  <2>2. Len(Latest(t, n)) = Len(t) /\ \A i \in 1..Len(t) : Latest(t, n)[i] = t[i]
    BY <1>1, <1>3, <2>1
  <2>3. \A i \in 1..Len(t) : longer[i] = t[i]
    BY <1>1, <1>2, <1>4, <2>1
  <2>4. Latest(t, n) = longer
    BY <1>3, <1>4, <2>1, <2>2, <2>3, SeqEqual
  <2> QED BY <1>6, <2>4 DEF t, k, longer
<1> QED BY <1>5, <1>6

-----------------------------------------------------------------------------
(***************************************************************************)
(* The records.  A reply is small talk, the apology for an exception, or   *)
(* an ordinary text, which is neither; only an ordinary text reaches       *)
(* PersistTurn, and while it is there it is remembered but not replied.    *)
(***************************************************************************)
Ordinary == SUBSET (Words \cup {"apology", "message", "name", "completed", "graceful",
                                "synthesized"})
Replies  == {Unexpected} \cup Pleasantries \cup Ordinary
Faults   == {Unexpected}
Lasting  == Without(replies, Faults)
Durable  == {Unexpected} \cup Pleasantries

Recorded ==
    /\ replies \in Seq(Replies)
    /\ persisted = Without(replies, Durable)
    /\ stage # "persist" => session = Latest(Lasting, MaxTurns)
    /\ stage = "persist" => /\ reply \in Ordinary
                            /\ session = Latest(Append(Lasting, reply), MaxTurns)

RecordInv == TurnInv /\ Recorded

Talk == {"wake", "sarcasm", "insult", "joke", "compliment", "greeting", "thanks",
         "goodbye", "how are you"}

LEMMA SmallTalkTyped == DOMAIN SmallTalk = 1..9 /\ \A i \in 1..9 : SmallTalk[i] \in Talk
<1>1. DOMAIN SmallTalk = 1..9
  BY DEF SmallTalk
<1>2. /\ SmallTalk[1] = "wake" /\ SmallTalk[2] = "sarcasm" /\ SmallTalk[3] = "insult"
      /\ SmallTalk[4] = "joke" /\ SmallTalk[5] = "compliment" /\ SmallTalk[6] = "greeting"
      /\ SmallTalk[7] = "thanks" /\ SmallTalk[8] = "goodbye" /\ SmallTalk[9] = "how are you"
  BY DEF SmallTalk
<1>3. \A i \in 1..9 : \/ i = 1 \/ i = 2 \/ i = 3 \/ i = 4 \/ i = 5 \/ i = 6 \/ i = 7
                     \/ i = 8 \/ i = 9
  OBVIOUS
<1> QED BY <1>1, <1>2, <1>3 DEF Talk

LEMMA KindsOfReply ==
    /\ Unexpected \notin Ordinary /\ Unexpected \notin Pleasantries
    /\ \A p \in Pleasantries : p \notin Ordinary
<1>1. \A p \in Pleasantries : \E kind \in Talk : p = {kind}
  BY SmallTalkTyped DEF Pleasantries
<1> QED BY <1>1 DEF Ordinary, Words, Unexpected, Talk

\* The small talk that is answered is the first kind that is heard.
LEMMA PleasantryIsOne == ASSUME NEW u, Heard(u) # {} PROVE Pleasantry(u) \in Pleasantries
<1>1. Heard(u) \in SUBSET Nat
  BY SmallTalkTyped DEF Heard
<1>2. \E i \in Heard(u) : \A j \in Heard(u) : i <= j
  BY <1>1, LeastNat
<1>3. (CHOOSE i \in Heard(u) : \A j \in Heard(u) : i <= j) \in Heard(u)
  BY <1>2
<1> QED BY <1>3 DEF Pleasantry, Pleasantries, Heard

\* Remember() keeps the latest of one text more.
LEMMA Remembered ==
    ASSUME NEW text \in Replies, NEW said \in Seq(Replies), Remember(text),
           session = Latest(said, MaxTurns)
    PROVE  session' = Latest(Append(said, text), MaxTurns)
BY LatestOneMore, TurnAssumption DEF Remember

LEMMA RecordInvOfRecord ==
    ASSUME RecordInv, stage # "persist", NEW text \in Ordinary, Record(text),
           UNCHANGED <<replies, persisted>>
    PROVE  Recorded'
<1>1. text \in Replies /\ Lasting \in Seq(Replies)
  <2>1. \A e \in Replies : Lasting \in Seq(Replies)
    BY WithoutOneMore DEF RecordInv, Recorded, Lasting
  <2> QED BY <2>1 DEF Replies
<1>2. session' = Latest(Append(Lasting, text), MaxTurns)
  BY <1>1, Remembered DEF Record, RecordInv, Recorded
<1> QED BY <1>2 DEF Record, RecordInv, Recorded, Lasting

LEMMA RecordInvOfFails ==
    ASSUME RecordInv, stage # "persist", Fails, UNCHANGED persisted
    PROVE  Recorded'
<1>1. /\ replies \in Seq(Replies) /\ Unexpected \in Replies
      /\ replies' = Append(replies, Unexpected) /\ stage' = "idle" /\ session' = session
  BY DEF RecordInv, Recorded, Fails, Return, Replies
<1>2. replies' \in Seq(Replies)
  BY <1>1
<1>3. \A D : Unexpected \in D => Without(replies', D) = Without(replies, D)
  BY <1>1, WithoutOneMore
<1>4. Lasting' = Lasting /\ Without(replies', Durable) = Without(replies, Durable)
  BY <1>3 DEF Lasting, Durable, Faults
<1> QED BY <1>1, <1>2, <1>4 DEF RecordInv, Recorded

LEMMA RecordInvOfSmallTalk ==
    ASSUME RecordInv, stage = "idle", NEW text \in Pleasantries, Remember(text), Return(text),
           UNCHANGED persisted
    PROVE  Recorded'
<1>1. /\ replies \in Seq(Replies) /\ text \in Replies
      /\ replies' = Append(replies, text) /\ stage' = "idle"
  BY DEF RecordInv, Recorded, Return, Replies
<1>2. replies' \in Seq(Replies)
  BY <1>1
<1>3. text \notin Faults /\ text \in Durable
  BY KindsOfReply DEF Durable, Faults
<1>4. Lasting \in Seq(Replies) /\ Lasting' = Append(Lasting, text)
  BY <1>1, <1>3, WithoutOneMore DEF Lasting
<1>5. Without(replies', Durable) = Without(replies, Durable)
  BY <1>1, <1>3, WithoutOneMore
<1>6. session' = Latest(Lasting', MaxTurns)
  BY <1>1, <1>4, Remembered DEF RecordInv, Recorded
<1> QED BY <1>1, <1>2, <1>5, <1>6 DEF RecordInv, Recorded

LEMMA RecordInvOfPersist == ASSUME RecordInv, PersistTurn PROVE Recorded'
<1>1. /\ replies \in Seq(Replies) /\ reply \in Ordinary /\ reply \in Replies
      /\ replies' = Append(replies, reply) /\ persisted' = Append(persisted, reply)
      /\ stage' = "idle" /\ session' = session
      /\ session = Latest(Append(Lasting, reply), MaxTurns)
  BY DEF RecordInv, Recorded, PersistTurn, Return, Replies
<1>2. replies' \in Seq(Replies)
  BY <1>1
<1>3. reply \notin Durable /\ reply \notin Faults
  BY <1>1, KindsOfReply DEF Durable, Faults
<1>4. Lasting \in Seq(Replies) /\ Lasting' = Append(Lasting, reply)
  BY <1>1, <1>3, WithoutOneMore DEF Lasting
<1>5. Without(replies', Durable) = Append(Without(replies, Durable), reply)
  BY <1>1, <1>3, WithoutOneMore
<1> QED BY <1>1, <1>2, <1>4, <1>5 DEF RecordInv, Recorded

LEMMA RecordInvUnchanged ==
    ASSUME RecordInv, UNCHANGED <<session, replies, persisted>>,
           stage # "persist", stage' # "persist"
    PROVE  Recorded'
BY DEF RecordInv, Recorded, Lasting

LEMMA FormattedOrdinary == ASSUME NEW text \in Ordinary PROVE Formatted(text) \in Ordinary
BY DEF Ordinary, Formatted

\* Whatever an agent answers, what is said of it is ordinary.
LEMMA PhraseOrdinary ==
    ASSUME NEW dest, NEW result \in AgentResults(dest)
    PROVE  Phrase(result) \in Ordinary
<1>1. \A text \in Outputs : text \in Ordinary
  BY OutputsAreWords DEF Ordinary
<1>2. /\ Empty \in Ordinary /\ {"message"} \in Ordinary /\ {"name"} \in Ordinary
      /\ {"completed"} \in Ordinary /\ {"graceful"} \in Ordinary
      /\ {"synthesized"} \in Ordinary
  BY DEF Ordinary, Empty, Words
<1>3. result.message \in Ordinary /\ result.success \in BOOLEAN
  BY <1>2 DEF AgentResults
<1>4. \A name \in {"response", "output"} : Field(result.data, name) \in Ordinary
  <2>1. CASE dest = "tool"
    <3>1. result.data \in [tool_name : {{"name"}}, output : Outputs]
      BY <2>1 DEF AgentResults
    <3> QED BY <1>1, <1>2, <3>1 DEF Field
  <2>2. CASE dest = "tool.execute"
    <3>1. result.data \in [response : Outputs, tool_name : {Empty, {"name"}},
                           tool_output : Outputs]
      BY <2>2 DEF AgentResults
    <3> QED BY <1>1, <1>2, <3>1 DEF Field
  <2>3. CASE dest \notin {"tool", "tool.execute"}
    <3>1. result.data \in [response : Outputs]
      BY <2>3 DEF AgentResults
    <3> QED BY <1>1, <1>2, <3>1 DEF Field
  <2> QED BY <2>1, <2>2, <2>3
<1>5. Compose(result) \in Ordinary
  BY <1>2, <1>3, <1>4 DEF Compose
<1> QED BY <1>2, <1>5 DEF Phrase

LEMMA RecordInit == Init => RecordInv
<1> SUFFICES ASSUME Init PROVE RecordInv
  OBVIOUS
<1>1. replies = <<>> /\ persisted = <<>> /\ session = <<>> /\ stage = "idle"
  BY DEF Init
<1>2. replies \in Seq(Replies)
  BY <1>1
<1>3. Lasting = <<>> /\ Without(replies, Durable) = <<>>
  BY <1>1, WithoutNothing DEF Lasting
<1>4. Latest(<<>>, MaxTurns) = <<>>
  BY TurnAssumption, SubSeqEmpty DEF Latest
<1> QED BY <1>1, <1>2, <1>3, <1>4, TurnInit DEF RecordInv, Recorded

LEMMA RecordNext == RecordInv /\ [Next]_vars => RecordInv'
<1> SUFFICES ASSUME RecordInv, [Next]_vars PROVE RecordInv'
  OBVIOUS
<1> SUFFICES Recorded'
  BY TurnNext DEF RecordInv
<1>1. ASSUME NEW u \in Utterances, Listen(u) PROVE Recorded'
  <2>1. stage = "idle" /\ UNCHANGED persisted
    BY <1>1 DEF Listen
  <2>2. CASE Heard(u) # {}
    BY <1>1, <2>1, <2>2, PleasantryIsOne, RecordInvOfSmallTalk DEF Listen
  <2>3. CASE Heard(u) = {}
    <3>1. stage' # "persist" /\ UNCHANGED <<session, replies>>
      BY <1>1, <2>3 DEF Listen
    <3> QED BY <2>1, <3>1, RecordInvUnchanged
  <2> QED BY <2>2, <2>3
<1>2. CASE AnswerDirectly
  <2>1. stage # "persist" /\ UNCHANGED persisted
    BY <1>2 DEF AnswerDirectly
  <2>2. CASE Fails
    BY <2>1, <2>2, RecordInvOfFails
  <2>3. ASSUME NEW text \in (Outputs \ {Empty}) \cup {{"apology"}}, Record(Formatted(text)),
               UNCHANGED replies
        PROVE  Recorded'
    <3>1. text \in Ordinary
      BY OutputsAreWords DEF Ordinary
    <3> QED BY <2>1, <2>3, <3>1, FormattedOrdinary, RecordInvOfRecord
  <2> QED BY <1>2, <2>2, <2>3 DEF AnswerDirectly
<1>3. CASE StartPlanning \/ PlanStep
  BY <1>3, RecordInvUnchanged DEF StartPlanning, PlanStep, turnVars
<1>4. CASE PlanningDone
  <2>1. stage # "persist" /\ UNCHANGED <<replies, persisted>>
    BY <1>4 DEF PlanningDone
  <2>2. CASE outcome.accepted
    <3>1. outcome.shown \in Ordinary
      BY DEF RecordInv, TurnInv, PlanInv, PlanTypes, Ordinary
    <3> QED BY <1>4, <2>1, <2>2, <3>1, FormattedOrdinary, RecordInvOfRecord DEF PlanningDone
  <2>3. CASE ~outcome.accepted
    BY <1>4, <2>1, <2>3, RecordInvUnchanged DEF PlanningDone
  <2> QED BY <2>2, <2>3
<1>5. CASE Route
  <2>1. stage # "persist" /\ UNCHANGED persisted
    BY <1>5 DEF Route
  <2>2. CASE Fails
    BY <2>1, <2>2, RecordInvOfFails
  <2>3. ASSUME NEW dest, NEW result \in AgentResults(dest), Record(Formatted(Phrase(result))),
               UNCHANGED replies
        PROVE  Recorded'
    BY <2>1, <2>3, PhraseOrdinary, FormattedOrdinary, RecordInvOfRecord
  <2> QED BY <1>5, <2>2, <2>3 DEF Route
<1>6. CASE PersistTurn
  BY <1>6, RecordInvOfPersist
<1>7. CASE UNCHANGED vars
  BY <1>7 DEF vars, turnVars, RecordInv, Recorded, Lasting
<1> QED BY <1>1, <1>2, <1>3, <1>4, <1>5, <1>6, <1>7 DEF Next

\* Between turns the session holds the latest replies and the durable memory was given
\* every reply once and in order, small talk and the apology for an exception apart.
THEOREM RecordsMatchReplies == Spec => []TurnsRecordedOnce
<1>1. RecordInv => TurnsRecordedOnce
  BY DEF RecordInv, Recorded, TurnsRecordedOnce, Lasting, Durable, Faults
<1> QED BY <1>1, RecordInit, RecordNext, PTL DEF Spec
-----------------------------------------------------------------------------
(***************************************************************************)
(* The knowledge engine.  The spacing of the live fetches: whoever sleeps  *)
(* holds the lock, and sleeps at least until the interval since the last   *)
(* fetch is over; nobody else begins a fetch meanwhile.                    *)
(***************************************************************************)
Places == {"idle", "apology", "lookup", "limit", "sleep", "fetch", "prompt"}

Clocks ==
    /\ at \in [Askers -> Places]
    /\ timer \in [Askers -> Nat]
    /\ sinceFetch \in Nat

Spaced == \A a \in Askers : at[a] = "sleep" => holder = a /\ sinceFetch + timer[a] >= MinInterval

SpaceInv == Clocks /\ Spaced

LEMMA IntervalNat == MinInterval \in Nat /\ OverallTimeout \in Nat /\ \A a \in Askers : a # Nobody
BY RetrievalAssumption

LEMMA SpaceInit == EngineInit => SpaceInv
BY IntervalNat DEF EngineInit, NetInit, SpaceInv, Clocks, Spaced, Places

\* A step of one asker to a place where nobody sleeps.
LEMMA GotoSpaced ==
    ASSUME SpaceInv, NEW a \in Askers, NEW where \in Places \ {"sleep"}, Goto(a, where),
           UNCHANGED <<timer, sinceFetch, holder>>
    PROVE  SpaceInv'
BY DEF SpaceInv, Clocks, Spaced, Goto, Places

LEMMA StartFetchSpaced ==
    ASSUME SpaceInv, NEW a \in Askers, StartFetch(a), \A b \in Askers \ {a} : at[b] # "sleep"
    PROVE  SpaceInv'
<1>1. /\ sinceFetch' = 0 /\ timer' = [timer EXCEPT ![a] = OverallTimeout]
      /\ at' = [at EXCEPT ![a] = "fetch"]
  BY DEF StartFetch, Goto
<1>2. Clocks'
  BY <1>1, IntervalNat DEF SpaceInv, Clocks, Places
<1>3. \A b \in Askers : at'[b] # "sleep"
  BY <1>1 DEF SpaceInv, Clocks
<1> QED BY <1>2, <1>3 DEF SpaceInv, Spaced

LEMMA KeepSpaced ==
    ASSUME SpaceInv, NEW a \in Askers, NEW snippets, at[a] = "fetch", Keep(a, snippets)
    PROVE  SpaceInv'
<1>1. /\ timer' = [timer EXCEPT ![a] = 0] /\ at' = [at EXCEPT ![a] = "prompt"]
      /\ UNCHANGED <<sinceFetch, holder>>
  BY DEF Keep, Retrieved, Goto
<1> QED BY <1>1 DEF SpaceInv, Clocks, Spaced, Places

LEMMA RetrieveSpaced ==
    ASSUME SpaceInv, NEW a \in Askers, Retrieve(a)
    PROVE  /\ SpaceInv'
           /\ \A b \in Askers : at[b] # "fetch" /\ at'[b] = "fetch" => sinceFetch >= MinInterval
<1>1. CASE Lookup(a)
  <2>1. \E where \in {"prompt", "limit"} : Goto(a, where)
    BY <1>1 DEF Lookup, CacheGet, Retrieved
  <2>2. UNCHANGED <<timer, sinceFetch, holder>>
    BY <1>1 DEF Lookup
  <2>3. \A b \in Askers : at'[b] = "fetch" => at[b] = "fetch"
    BY <2>1 DEF Goto, SpaceInv, Clocks
  <2> QED BY <2>1, <2>2, <2>3, GotoSpaced DEF Places
<1>2. CASE RateLimit(a)
  <2>0. holder = Nobody /\ \A b \in Askers : at[b] # "sleep"
    BY <1>2, IntervalNat DEF RateLimit, SpaceInv, Spaced
  <2>1. CASE sinceFetch >= MinInterval
    BY <1>2, <2>0, <2>1, StartFetchSpaced DEF RateLimit
  <2>2. CASE ~(sinceFetch >= MinInterval)
    <3>1. /\ holder' = a /\ timer' = [timer EXCEPT ![a] = MinInterval - sinceFetch]
          /\ at' = [at EXCEPT ![a] = "sleep"] /\ sinceFetch' = sinceFetch
      BY <1>2, <2>2 DEF RateLimit, Goto
    <3>2. MinInterval - sinceFetch \in Nat /\ sinceFetch + (MinInterval - sinceFetch) = MinInterval
      BY <2>2, IntervalNat DEF SpaceInv, Clocks
    <3>3. Clocks'
      BY <3>1, <3>2 DEF SpaceInv, Clocks, Places
    <3>4. Spaced'
      BY <2>0, <3>1, <3>2, IntervalNat DEF SpaceInv, Clocks, Spaced
    <3>5. \A b \in Askers : at'[b] = "fetch" => at[b] = "fetch"
      BY <3>1 DEF SpaceInv, Clocks
    <3> QED BY <3>3, <3>4, <3>5 DEF SpaceInv
  <2> QED BY <2>1, <2>2
<1>3. CASE Wake(a)
  <2>1. at[a] = "sleep" /\ timer[a] = 0 /\ StartFetch(a)
    BY <1>3 DEF Wake
  <2>2. \A b \in Askers \ {a} : at[b] # "sleep"
    BY <2>1 DEF SpaceInv, Spaced
  <2>3. sinceFetch >= MinInterval
    BY <2>1, IntervalNat DEF SpaceInv, Clocks, Spaced
  <2> QED BY <2>1, <2>2, <2>3, StartFetchSpaced
<1>4. CASE \E p \in Providers : HttpGet(a, p)
  BY <1>4 DEF HttpGet, SpaceInv, Clocks, Spaced
<1>5. CASE Gathered(a) \/ FetchTimesOut(a)
  <2>1. at[a] = "fetch" /\ \E snippets : Keep(a, snippets)
    BY <1>5 DEF Gathered, FetchTimesOut
  <2>2. at' = [at EXCEPT ![a] = "prompt"]
    BY <2>1 DEF Keep, Retrieved, Goto
  <2>3. \A b \in Askers : at'[b] = "fetch" => at[b] = "fetch"
    BY <2>2 DEF SpaceInv, Clocks
  <2> QED BY <2>1, <2>3, KeepSpaced
<1> QED BY <1>1, <1>2, <1>3, <1>4, <1>5 DEF Retrieve

LEMMA TickSpaced ==
    ASSUME SpaceInv, Tick
    PROVE  SpaceInv' /\ at' = at
<1>1. /\ timer' = [a \in Askers |-> IF timer[a] > 0 THEN timer[a] - 1 ELSE 0]
      /\ sinceFetch' = IF sinceFetch < MinInterval THEN sinceFetch + 1 ELSE sinceFetch
      /\ UNCHANGED <<at, holder>>
  BY DEF Tick, Older
<1>2. Clocks'
  BY <1>1 DEF SpaceInv, Clocks
<1>3. ASSUME NEW a \in Askers, at[a] = "sleep"
      PROVE  holder' = a /\ sinceFetch' + timer'[a] >= MinInterval
  <2>1. holder = a /\ sinceFetch + timer[a] >= MinInterval /\ timer[a] \in Nat /\ sinceFetch \in Nat
    BY <1>3 DEF SpaceInv, Clocks, Spaced
  <2>2. timer'[a] = IF timer[a] > 0 THEN timer[a] - 1 ELSE 0
    BY <1>1
  <2> QED BY <1>1, <2>1, <2>2, IntervalNat
<1> QED BY <1>1, <1>2, <1>3 DEF SpaceInv, Spaced

LEMMA CallModelSpaced ==
    ASSUME SpaceInv, NEW a \in Askers, CallModel(a)
    PROVE  SpaceInv' /\ \A b \in Askers : at'[b] = "fetch" => at[b] = "fetch"
<1>1. UNCHANGED <<timer, sinceFetch, holder>>
  BY DEF CallModel, netVars
<1>2. CASE UNCHANGED at
  BY <1>1, <1>2 DEF SpaceInv, Clocks, Spaced
<1>3. CASE \E where \in {"apology", "idle"} : Goto(a, where)
  <2>1. \A b \in Askers : at'[b] = "fetch" => at[b] = "fetch"
    BY <1>3 DEF Goto, SpaceInv, Clocks
  <2> QED BY <1>1, <1>3, <2>1, GotoSpaced DEF Places
<1> QED BY <1>2, <1>3 DEF CallModel, LLM!Outcome

LEMMA SpaceNext ==
    SpaceInv /\ [EngineNext]_engineVars =>
      /\ SpaceInv'
      /\ \A a \in Askers : at[a] # "fetch" /\ at'[a] = "fetch" => sinceFetch >= MinInterval
<1> SUFFICES ASSUME SpaceInv, [EngineNext]_engineVars
             PROVE  /\ SpaceInv'
                    /\ \A a \in Askers :
                         at[a] # "fetch" /\ at'[a] = "fetch" => sinceFetch >= MinInterval
  OBVIOUS
<1>1. ASSUME NEW a \in Askers, NEW q \in Questions, Ask(a, q)
      PROVE  SpaceInv' /\ \A b \in Askers : at'[b] = "fetch" => at[b] = "fetch"
  <2>1. (\E where \in {"lookup", "prompt"} : Goto(a, where)) /\ UNCHANGED <<timer, sinceFetch, holder>>
    BY <1>1 DEF Ask, netVars
  <2>2. \A b \in Askers : at'[b] = "fetch" => at[b] = "fetch"
    BY <2>1 DEF Goto, SpaceInv, Clocks
  <2> QED BY <2>1, <2>2, GotoSpaced DEF Places
<1>2. CASE UNCHANGED engineVars
  BY <1>2 DEF engineVars, netVars, SpaceInv, Clocks, Spaced
<1> QED BY <1>1, <1>2, RetrieveSpaced, CallModelSpaced, TickSpaced DEF EngineNext, Answer

\* However many tasks ask at once, two live fetches never begin less than the minimal
\* interval apart.
THEOREM FetchesAreSpaced == EngineSpec => FetchesSpaced
<1>1. SpaceInv /\ [EngineNext]_engineVars =>
        [\A a \in Askers : at[a] # "fetch" /\ at'[a] = "fetch" => sinceFetch >= MinInterval]_engineVars
  BY SpaceNext
<1> QED BY <1>1, SpaceInit, SpaceNext, PTL DEF EngineSpec, FetchesSpaced

-----------------------------------------------------------------------------
(***************************************************************************)
(* The cache.  The order of use lists the keys of the store, each once,    *)
(* and no more of them than the cap.                                       *)
(***************************************************************************)
Keys == Questions \cup {Nobody}

Distinct(s) == \A i, j \in 1..Len(s) : s[i] = s[j] => i = j

CacheInv ==
    /\ question \in [Askers -> Keys]
    /\ order \in Seq(Keys) /\ Distinct(order) /\ Len(order) <= MaxEntries
    /\ DOMAIN store = ToSet(order)

LEMMA CapNat == MaxEntries \in Nat \ {0} /\ PerProvider \in Nat \ {0}
BY RetrievalAssumption

\* A sequence without one of its elements.
LEMMA RemoveOne ==
    ASSUME NEW S, NEW s \in Seq(S), NEW i \in 1..Len(s)
    PROVE  /\ RemoveAt(s, i) \in Seq(S)
           /\ Len(RemoveAt(s, i)) = Len(s) - 1
           /\ \A j \in 1..(Len(s) - 1) : RemoveAt(s, i)[j] = IF j < i THEN s[j] ELSE s[j + 1]
<1> DEFINE before == SubSeq(s, 1, i - 1)
           after  == SubSeq(s, i + 1, Len(s))
<1>0. Len(s) \in Nat /\ \A j \in 1..Len(s) : s[j] \in S
  OBVIOUS
<1>1. /\ before \in Seq(S) /\ Len(before) = i - 1
      /\ \A j \in 1..(i - 1) : before[j] = s[j]
  BY <1>0
<1>2. /\ after \in Seq(S) /\ Len(after) = Len(s) - i
      /\ \A j \in 1..(Len(s) - i) : after[j] = s[i + j]
  BY <1>0
<1>3. RemoveAt(s, i) = before \o after
  BY DEF RemoveAt
<1> HIDE DEF before, after
<1>4. /\ before \o after \in Seq(S)
      /\ Len(before \o after) = Len(before) + Len(after)
      /\ \A j \in 1..(Len(before) + Len(after)) :
           (before \o after)[j] = IF j <= Len(before) THEN before[j] ELSE after[j - Len(before)]
  BY <1>1, <1>2, ConcatProperties
<1>5. Len(before) + Len(after) = Len(s) - 1
  BY <1>0, <1>1, <1>2
<1>6. ASSUME NEW j \in 1..(Len(s) - 1)
      PROVE  (before \o after)[j] = IF j < i THEN s[j] ELSE s[j + 1]
  <2>1. CASE j < i
    BY <1>0, <1>1, <1>4, <1>5, <2>1
  <2>2. CASE ~(j < i)
    <3>1. j - (i - 1) \in 1..(Len(s) - i) /\ i + (j - (i - 1)) = j + 1
      BY <1>0, <2>2
    <3>2. (before \o after)[j] = after[j - (i - 1)]
      BY <1>0, <1>1, <1>4, <1>5, <2>2
    <3> QED BY <1>2, <2>2, <3>1, <3>2
  <2> QED BY <2>1, <2>2
<1> QED BY <1>3, <1>4, <1>5, <1>6

\* What is removed from the order of use is gone, and the rest is as before.
LEMMA RemovedKey ==
    ASSUME CacheInv, NEW key
    PROVE  /\ Removed(key) \in Seq(Keys) /\ Distinct(Removed(key))
           /\ Len(Removed(key)) <= Len(order)
           /\ ToSet(Removed(key)) = ToSet(order) \ {key}
<1>1. order \in Seq(Keys) /\ Distinct(order) /\ Len(order) \in Nat /\ DOMAIN order = 1..Len(order)
  BY DEF CacheInv
<1>2. CASE key \notin ToSet(order)
  BY <1>1, <1>2 DEF Removed, ToSet
<1>3. CASE key \in ToSet(order)
  <2> DEFINE i == CHOOSE j \in DOMAIN order : order[j] = key
             rest == RemoveAt(order, i)
  <2>1. i \in 1..Len(order) /\ order[i] = key
    BY <1>1, <1>3 DEF ToSet
  <2>2. Removed(key) = rest
    BY <1>3 DEF Removed
  <2> HIDE DEF i
  <2>3. /\ rest \in Seq(Keys) /\ Len(rest) = Len(order) - 1
        /\ \A j \in 1..(Len(order) - 1) : rest[j] = IF j < i THEN order[j] ELSE order[j + 1]
    BY <1>1, <2>1, RemoveOne
  <2>4. DOMAIN rest = 1..(Len(order) - 1)
    BY <2>3
  <2> HIDE DEF rest
  <2>5. ASSUME NEW j \in 1..(Len(order) - 1), NEW k \in 1..(Len(order) - 1), rest[j] = rest[k]
        PROVE  j = k
    <3> DEFINE J == IF j < i THEN j ELSE j + 1
               K == IF k < i THEN k ELSE k + 1
    <3>1. J \in 1..Len(order) /\ K \in 1..Len(order) /\ order[J] = order[K]
      BY <1>1, <2>1, <2>3, <2>5
    <3>2. J = K
      BY <1>1, <3>1 DEF Distinct
    <3> QED BY <2>1, <3>2
  <2>6. ASSUME NEW j \in 1..(Len(order) - 1) PROVE rest[j] \in ToSet(order) \ {key}
    <3> DEFINE J == IF j < i THEN j ELSE j + 1
    <3>1. J \in 1..Len(order) /\ J # i /\ rest[j] = order[J]
      BY <1>1, <2>1, <2>3
    <3>2. order[J] # key
      BY <1>1, <2>1, <3>1 DEF Distinct
    <3> HIDE DEF J
    <3> QED BY <1>1, <3>1, <3>2 DEF ToSet
  <2>7. ASSUME NEW k \in ToSet(order) \ {key} PROVE k \in ToSet(rest)
    <3>1. PICK J \in 1..Len(order) : order[J] = k
      BY <1>1 DEF ToSet
    <3>2. J # i
      BY <2>1, <3>1
    <3> DEFINE j == IF J < i THEN J ELSE J - 1
    <3>3. j \in 1..(Len(order) - 1) /\ rest[j] = order[J]
      BY <1>1, <2>1, <2>3, <3>2
    <3> HIDE DEF j
    <3> QED BY <2>4, <3>1, <3>3 DEF ToSet
  <2>8. ToSet(rest) = ToSet(order) \ {key}
    BY <2>4, <2>6, <2>7 DEF ToSet
  <2>9. Distinct(rest)
    BY <2>3, <2>5 DEF Distinct
  <2> QED BY <1>1, <2>2, <2>3, <2>8, <2>9
<1> QED BY <1>2, <1>3

\* A key that is used becomes the last.
LEMMA UsedKey ==
    ASSUME CacheInv, NEW key \in Keys
    PROVE  /\ Used(key) \in Seq(Keys) /\ Distinct(Used(key))
           /\ Len(Used(key)) \in Nat /\ Len(Used(key)) > 0
           /\ Used(key)[Len(Used(key))] = key
           /\ ToSet(Used(key)) = ToSet(order) \cup {key}
           /\ key \in ToSet(order) => Len(Used(key)) <= Len(order)
<1> DEFINE rest == Removed(key)
           used == Used(key)
<1>1. rest \in Seq(Keys) /\ Distinct(rest) /\ ToSet(rest) = ToSet(order) \ {key}
  BY RemovedKey
<1>2. used = Append(rest, key)
  BY DEF Used
<1>3. key \in ToSet(order) => Len(rest) + 1 <= Len(order)
  <2> SUFFICES ASSUME key \in ToSet(order) PROVE Len(rest) + 1 <= Len(order)
    OBVIOUS
  <2> DEFINE i == CHOOSE j \in DOMAIN order : order[j] = key
  <2>1. order \in Seq(Keys) /\ i \in 1..Len(order) /\ rest = RemoveAt(order, i)
    BY DEF CacheInv, ToSet, Removed
  <2> HIDE DEF i, rest
  <2> QED BY <2>1, RemoveOne
<1> HIDE DEF rest, used
<1>4. /\ used \in Seq(Keys) /\ Len(used) = Len(rest) + 1 /\ used[Len(used)] = key
      /\ \A i \in 1..Len(rest) : used[i] = rest[i]
      /\ Len(rest) \in Nat /\ DOMAIN used = 1..(Len(rest) + 1) /\ DOMAIN rest = 1..Len(rest)
  BY <1>1, <1>2
<1>5. \A i \in 1..Len(rest) : rest[i] # key
  BY <1>1, <1>4 DEF ToSet
<1>6. Distinct(used)
  BY <1>1, <1>4, <1>5 DEF Distinct
<1>7. ToSet(used) = ToSet(rest) \cup {key}
  <2>1. ASSUME NEW i \in DOMAIN used PROVE used[i] \in ToSet(rest) \cup {key}
    BY <1>4 DEF ToSet
  <2>2. ASSUME NEW k \in ToSet(rest) \cup {key} PROVE \E i \in DOMAIN used : used[i] = k
    <3>1. CASE k = key
      BY <1>4, <3>1
    <3>2. CASE k \in ToSet(rest)
      <4>1. PICK i \in 1..Len(rest) : rest[i] = k
        BY <1>4, <3>2 DEF ToSet
      <4> QED BY <1>4, <4>1
    <3> QED BY <3>1, <3>2
  <2> QED BY <2>1, <2>2 DEF ToSet
<1> QED BY <1>1, <1>3, <1>4, <1>6, <1>7 DEF used

\* What set() keeps: the new entry, and no more than the cap.
LEMMA SetKeeps ==
    ASSUME CacheInv, NEW key \in Keys, NEW value, CacheSet(key, value)
    PROVE  /\ order' \in Seq(Keys) /\ Distinct(order') /\ Len(order') <= MaxEntries
           /\ DOMAIN store' = ToSet(order')
           /\ key \in DOMAIN store' /\ store'[key].value = value
<1> DEFINE used == Used(key)
           first == IF Len(used) > MaxEntries THEN Len(used) - MaxEntries + 1 ELSE 1
           kept == SubSeq(used, first, Len(used))
<1>1. /\ used \in Seq(Keys) /\ Distinct(used)
      /\ Len(used) \in Nat /\ Len(used) > 0 /\ used[Len(used)] = key
  BY UsedKey
<1>2. /\ order' = kept
      /\ store' = [k \in ToSet(kept) |-> IF k = key THEN [age |-> 0, value |-> value] ELSE store[k]]
  BY DEF CacheSet
<1> HIDE DEF used
<1>3. first \in 1..Len(used) /\ Len(used) - first + 1 <= MaxEntries
  BY <1>1, CapNat
<1> HIDE DEF first
<1>4. /\ kept \in Seq(Keys) /\ Len(kept) = Len(used) - first + 1
      /\ \A i \in 1..(Len(used) - first + 1) : kept[i] = used[first + i - 1]
  <2>1. \A i \in first..Len(used) : used[i] \in Keys
    BY <1>1, <1>3
  <2>2. first \in Int /\ Len(used) \in Int /\ first <= Len(used)
    BY <1>1, <1>3
  <2> QED BY <2>1, <2>2, SubSeqProperties
<1> HIDE DEF kept
<1>5. Distinct(kept)
  <2> SUFFICES ASSUME NEW i \in 1..Len(kept), NEW j \in 1..Len(kept), kept[i] = kept[j]
               PROVE  i = j
    BY DEF Distinct
  <2>1. /\ first + i - 1 \in 1..Len(used) /\ first + j - 1 \in 1..Len(used)
        /\ used[first + i - 1] = used[first + j - 1]
    BY <1>1, <1>3, <1>4
  <2>2. first + i - 1 = first + j - 1
    BY <1>1, <2>1 DEF Distinct
  <2> QED BY <1>3, <2>2
<1>6. key \in ToSet(kept)
  <2>1. Len(kept) \in 1..Len(kept) /\ kept[Len(kept)] = key /\ DOMAIN kept = 1..Len(kept)
    BY <1>1, <1>3, <1>4
  <2> QED BY <2>1 DEF ToSet
<1>7. key \in DOMAIN store' /\ store'[key].value = value /\ DOMAIN store' = ToSet(kept)
  BY <1>2, <1>6
<1> QED BY <1>2, <1>3, <1>4, <1>5, <1>7

LEMMA CacheInit == EngineInit => CacheInv
<1> SUFFICES ASSUME EngineInit PROVE CacheInv
  OBVIOUS
<1>1. order = <<>> /\ store = <<>> /\ question = [a \in Askers |-> Nobody]
  BY DEF EngineInit, NetInit
<1>2. order \in Seq(Keys) /\ Len(order) = 0 /\ DOMAIN store = {} /\ DOMAIN order = {}
  BY <1>1
<1>3. ToSet(order) = {}
  BY <1>2 DEF ToSet
<1> QED BY <1>1, <1>2, <1>3, CapNat DEF CacheInv, Keys, Distinct

LEMMA CacheNext == CacheInv /\ [EngineNext]_engineVars => CacheInv'
<1> SUFFICES ASSUME CacheInv, [EngineNext]_engineVars PROVE CacheInv'
  OBVIOUS
<1>1. ASSUME UNCHANGED cacheVars, question' \in [Askers -> Keys] PROVE CacheInv'
  BY <1>1 DEF CacheInv, cacheVars, Distinct, ToSet
<1>2. ASSUME NEW a \in Askers, NEW q \in Questions, Ask(a, q) PROVE CacheInv'
  <2>1. question' \in [Askers -> Keys]
    BY <1>2 DEF Ask, CacheInv, Keys
  <2> QED BY <1>1, <1>2, <2>1 DEF Ask, netVars
<1>3. ASSUME NEW a \in Askers, CallModel(a) PROVE CacheInv'
  BY <1>1, <1>3 DEF CallModel, netVars, CacheInv
<1>4. CASE Tick
  <2>1. UNCHANGED <<order, question>> /\ DOMAIN store' = DOMAIN store
    BY <1>4 DEF Tick
  <2> QED BY <2>1 DEF CacheInv, Distinct, ToSet
<1>5. ASSUME NEW a \in Askers, Lookup(a) PROVE CacheInv'
  <2> DEFINE key == question[a]
  <2>1. key \in Keys
    BY DEF CacheInv
  <2>2. CASE Fresh(key)
    <3>1. order' = Used(key) /\ store' = store /\ question' = [question EXCEPT ![a] = Nobody]
      BY <1>5, <2>2 DEF Lookup, CacheGet, Retrieved
    <3>2. key \in ToSet(order)
      BY <2>2 DEF Fresh, CacheInv
    <3>3. ToSet(order') = ToSet(order)
      <4>1. ToSet(Used(key)) = ToSet(order) \cup {key}
        BY <2>1, UsedKey
      <4>2. ToSet(Used(key)) = ToSet(order)
        <5> HIDE DEF key
        <5> QED BY <3>2, <4>1
      <4> QED BY <3>1, <4>2 DEF ToSet
    <3>4. order' \in Seq(Keys) /\ Distinct(order') /\ Len(order') <= Len(order) /\ Len(order') \in Nat
      <4> DEFINE used == Used(key)
      <4>1. /\ used \in Seq(Keys) /\ Distinct(used) /\ Len(used) \in Nat
            /\ key \in ToSet(order) => Len(used) <= Len(order)
        BY <2>1, UsedKey
      <4>2. order' = used
        BY <3>1
      <4> HIDE DEF used, key
      <4> QED BY <3>2, <4>1, <4>2
    <3>5. Len(order') <= MaxEntries /\ question' \in [Askers -> Keys]
      BY <3>1, <3>4, CapNat DEF CacheInv, Keys
    <3> QED BY <3>1, <3>3, <3>4, <3>5 DEF CacheInv
  <2>3. CASE ~Fresh(key)
    <3>1. /\ order' = Removed(key) /\ question' = question
          /\ store' = [k \in DOMAIN store \ {key} |-> store[k]]
      BY <1>5, <2>3 DEF Lookup, CacheGet
    <3>2. /\ order' \in Seq(Keys) /\ Distinct(order') /\ Len(order') <= Len(order)
          /\ ToSet(order') = ToSet(order) \ {key}
      BY <3>1, RemovedKey
    <3>3. Len(order') <= MaxEntries
      BY <3>2, CapNat DEF CacheInv
    <3> QED BY <3>1, <3>2, <3>3 DEF CacheInv
  <2> QED BY <2>2, <2>3
<1>6. ASSUME NEW a \in Askers, NEW snippets, Keep(a, snippets) PROVE CacheInv'
  <2>1. question[a] \in Keys /\ CacheSet(question[a], snippets)
    BY <1>6 DEF CacheInv, Keep
  <2>2. question' \in [Askers -> Keys]
    BY <1>6 DEF CacheInv, Keep, Retrieved, Keys
  <2> QED BY <2>1, <2>2, SetKeeps DEF CacheInv
<1>7. ASSUME NEW a \in Askers, Retrieve(a) PROVE CacheInv'
  <2>1. CASE RateLimit(a) \/ Wake(a) \/ \E p \in Providers : HttpGet(a, p)
    <3>1. UNCHANGED <<question, cacheVars>>
      BY <2>1 DEF RateLimit, Wake, HttpGet
    <3> QED BY <1>1, <3>1 DEF CacheInv
  <2>2. CASE Gathered(a) \/ FetchTimesOut(a)
    BY <1>6, <2>2 DEF Gathered, FetchTimesOut
  <2> QED BY <1>5, <1>7, <2>1, <2>2 DEF Retrieve
<1>8. CASE UNCHANGED engineVars
  BY <1>1, <1>8 DEF engineVars, netVars, CacheInv
<1> QED BY <1>2, <1>3, <1>4, <1>7, <1>8 DEF EngineNext, Answer

\* The cache never holds more than its cap, and its order of use is that of its keys,
\* whoever reads and writes it between: for every cap and any number of askers.
THEOREM CacheStaysBounded == EngineSpec => []CacheBounded
<1>1. CacheInv => CacheBounded
  <2> SUFFICES ASSUME CacheInv PROVE Len(order) = Cardinality(DOMAIN store)
    BY DEF CacheInv, CacheBounded
  <2>1. order \in Bijection(1..Len(order), DOMAIN store)
    BY DEF CacheInv, Distinct, ToSet, Bijection, Injection, Surjection, IsInjective
  <2>2. ExistsBijection(1..Len(order), DOMAIN store) /\ Len(order) \in Nat
    BY <2>1 DEF ExistsBijection, CacheInv
  <2> QED BY <2>2, FS_CountingElements
<1> QED BY <1>1, CacheInit, CacheNext, PTL DEF EngineSpec

-----------------------------------------------------------------------------
(***************************************************************************)
(* What is made of the providers' results.  Ranks tell the first results   *)
(* of equal text apart, so each of them is in the ranking; and of equal    *)
(* texts the first is the one with the best score.                         *)
(***************************************************************************)
Snippets == [text : {"fact", "topic"}, score : Nat]

FirstOnes(s) == {i \in DOMAIN s : \A j \in 1..(i - 1) : s[j].text # s[i].text}
IsAhead(s, i, j) ==
    \/ s[i].score > s[j].score
    \/ s[i].score = s[j].score /\ i <= j
Before(s, j) == {i \in FirstOnes(s) : IsAhead(s, i, j)}

LEMMA RankedByCount ==
    ASSUME NEW s
    PROVE  DedupeAndRank(s) = [n \in 1..Cardinality(FirstOnes(s)) |->
                                 s[CHOOSE j \in FirstOnes(s) : Cardinality(Before(s, j)) = n]]
BY DEF DedupeAndRank, FirstOnes, IsAhead, Before

LEMMA FirstOnesFinite ==
    ASSUME NEW s \in Seq(Snippets)
    PROVE  /\ Len(s) \in Nat /\ DOMAIN s = 1..Len(s) /\ FirstOnes(s) \subseteq 1..Len(s)
           /\ \A k \in 1..Len(s) : s[k] \in Snippets /\ s[k].score \in Nat
           /\ IsFiniteSet(FirstOnes(s))
<1>1. Len(s) \in Nat /\ DOMAIN s = 1..Len(s) /\ \A k \in 1..Len(s) : s[k] \in Snippets
  OBVIOUS
<1>2. FirstOnes(s) \in SUBSET (1..Len(s))
  BY <1>1 DEF FirstOnes
<1>3. \A t \in Snippets : t.score \in Nat
  BY DEF Snippets
<1>4. IsFiniteSet(1..Len(s))
  BY <1>1, FS_Interval
<1>5. IsFiniteSet(FirstOnes(s))
  BY <1>2, <1>4, FS_Subset
<1> QED BY <1>1, <1>2, <1>3, <1>5

LEMMA RanksDiffer ==
    ASSUME NEW s \in Seq(Snippets), NEW i \in FirstOnes(s), NEW j \in FirstOnes(s), i # j
    PROVE  Cardinality(Before(s, i)) # Cardinality(Before(s, j))
<1>0. /\ Len(s) \in Nat /\ FirstOnes(s) \subseteq 1..Len(s)
      /\ \A k \in 1..Len(s) : s[k].score \in Nat
  BY FirstOnesFinite
<1>1. IsFiniteSet(FirstOnes(s))
  BY FirstOnesFinite
<1>2. \A k \in FirstOnes(s) : Before(s, k) \subseteq FirstOnes(s) /\ IsFiniteSet(Before(s, k))
  BY <1>1, FS_Subset DEF Before
<1>3. ASSUME NEW k \in FirstOnes(s), NEW m \in FirstOnes(s), k # m, IsAhead(s, k, m)
      PROVE  Cardinality(Before(s, k)) # Cardinality(Before(s, m))
  <2>1. Before(s, k) \subseteq Before(s, m)
    BY <1>0, <1>3 DEF Before, IsAhead
  <2>2. m \in Before(s, m) /\ m \notin Before(s, k)
    BY <1>0, <1>3 DEF Before, IsAhead
  <2> QED BY <1>2, <2>1, <2>2, FS_Subset
<1>4. IsAhead(s, i, j) \/ IsAhead(s, j, i)
  BY <1>0 DEF IsAhead
<1> QED BY <1>3, <1>4

LEMMA FirstIsRanked ==
    ASSUME NEW s \in Seq(Snippets), NEW i \in FirstOnes(s)
    PROVE  s[i] \in ToSet(DedupeAndRank(s))
<1> DEFINE n == Cardinality(Before(s, i))
           ranked == DedupeAndRank(s)
<1>0. Len(s) \in Nat /\ FirstOnes(s) \subseteq 1..Len(s)
  BY FirstOnesFinite
<1>1. IsFiniteSet(FirstOnes(s)) /\ Before(s, i) \in SUBSET FirstOnes(s) /\ i \in Before(s, i)
  <2>1. IsFiniteSet(FirstOnes(s))
    BY FirstOnesFinite
  <2>2. IsAhead(s, i, i)
    BY <1>0 DEF IsAhead
  <2> QED BY <2>1, <2>2 DEF Before
<1>2. n \in Nat /\ n # 0 /\ n <= Cardinality(FirstOnes(s)) /\ Cardinality(FirstOnes(s)) \in Nat
  <2>1. IsFiniteSet(Before(s, i)) /\ n <= Cardinality(FirstOnes(s))
    BY <1>1, FS_Subset
  <2>2. n \in Nat /\ Cardinality(FirstOnes(s)) \in Nat /\ n # 0
    BY <1>1, <2>1, FS_CardinalityType, FS_EmptySet
  <2> QED BY <2>1, <2>2
<1>3. (CHOOSE j \in FirstOnes(s) : Cardinality(Before(s, j)) = n) = i
  BY RanksDiffer
<1>4. ranked = [m \in 1..Cardinality(FirstOnes(s)) |->
                  s[CHOOSE j \in FirstOnes(s) : Cardinality(Before(s, j)) = m]]
  BY RankedByCount
<1> HIDE DEF n, ranked
<1>5. n \in 1..Cardinality(FirstOnes(s))
  BY <1>2
<1>6. n \in DOMAIN ranked /\ ranked[n] = s[i]
  BY <1>3, <1>4, <1>5
<1> QED BY <1>6 DEF ToSet, ranked

\* The first result of a text is one that the ranking keeps.
LEMMA EveryTextIsRanked ==
    ASSUME NEW s \in Seq(Snippets), NEW i \in 1..Len(s)
    PROVE  \E j \in 1..i : s[j].text = s[i].text /\ j \in FirstOnes(s)
<1> DEFINE T == {j \in 1..Len(s) : s[j].text = s[i].text}
<1>0. Len(s) \in Nat /\ DOMAIN s = 1..Len(s)
  OBVIOUS
<1>1. T \in SUBSET Nat /\ i \in T
  BY <1>0
<1> HIDE DEF T
<1>2. PICK j \in T : \A k \in T : j <= k
  BY <1>1, LeastNat
<1>3. j \in 1..i /\ s[j].text = s[i].text /\ j \in 1..Len(s)
  BY <1>0, <1>1, <1>2 DEF T
<1>4. ASSUME NEW k \in 1..(j - 1) PROVE s[k].text # s[j].text
  BY <1>0, <1>2, <1>3 DEF T
<1> QED BY <1>0, <1>3, <1>4 DEF FirstOnes

Fact(score) == [text |-> "fact", score |-> score]
Topic == [text |-> "topic", score |-> 50]

LEMMA OneAtMost ==
    ASSUME NEW e \in Snippets, NEW s \in {<<>>, <<e>>}
    PROVE  s \in Seq(Snippets) /\ Len(s) \in 0..1 /\ \A i \in 1..Len(s) : s[i] = e
<1>1. CASE s = <<>>
  BY <1>1
<1>2. CASE s = <<e>>
  <2>1. s \in Seq(Snippets) /\ Len(s) = 1 /\ s[1] = e
    BY <1>2
  <2> QED BY <2>1
<1> QED BY <1>1, <1>2

\* An instant answer has a fact and a topic at most, an article a fact.
LEMMA WhatProvidersFind ==
    /\ \A s \in Answers("duckduckgo") \cup {<<>>} :
         /\ s \in Seq(Snippets)
         /\ \A i \in 1..Len(s) : s[i] \in {Fact(80), Topic}
         /\ \A i, j \in 1..Len(s) : s[i] = s[j] => i = j
    /\ \A s \in Answers("wikipedia") \cup {<<>>} :
         /\ s \in Seq(Snippets) /\ Len(s) <= 1
         /\ \A i \in 1..Len(s) : s[i] = Fact(70)
<1>1. ASSUME NEW s \in Seq(Snippets)
      PROVE  /\ Clip(s) \in Seq(Snippets) /\ Len(Clip(s)) <= Len(s)
             /\ \A i \in 1..Len(Clip(s)) : Clip(s)[i] = s[i]
  BY <1>1, CapNat DEF Clip
<1>2. Fact(80) \in Snippets /\ Fact(70) \in Snippets /\ Topic \in Snippets /\ Fact(80) # Topic
  BY DEF Fact, Topic, Snippets
<1>3. ASSUME NEW s \in InstantAnswers
      PROVE  /\ s \in Seq(Snippets)
             /\ \A i \in 1..Len(s) : s[i] \in {Fact(80), Topic}
             /\ \A i, j \in 1..Len(s) : s[i] = s[j] => i = j
  <2>1. PICK primary \in {<<>>, <<Fact(80)>>}, topics \in {<<>>, <<Topic>>} : s = Clip(primary \o topics)
    BY <1>3 DEF InstantAnswers, Snippet, Fact, Topic
  <2> DEFINE all == primary \o topics
  <2>2. /\ all \in Seq(Snippets)
        /\ \A i \in 1..Len(all) : all[i] \in {Fact(80), Topic}
        /\ \A i, j \in 1..Len(all) : all[i] = all[j] => i = j
    <3> HIDE DEF Fact, Topic
    <3>1. /\ primary \in Seq(Snippets) /\ Len(primary) \in 0..1
          /\ \A i \in 1..Len(primary) : primary[i] = Fact(80)
      BY <1>2, <2>1, OneAtMost
    <3>2. /\ topics \in Seq(Snippets) /\ Len(topics) \in 0..1
          /\ \A i \in 1..Len(topics) : topics[i] = Topic
      BY <1>2, <2>1, OneAtMost
    <3>3. /\ all \in Seq(Snippets) /\ Len(all) = Len(primary) + Len(topics)
          /\ \A i \in 1..(Len(primary) + Len(topics)) :
               all[i] = IF i <= Len(primary) THEN primary[i] ELSE topics[i - Len(primary)]
      BY <3>1, <3>2, ConcatProperties
    <3> HIDE DEF all
    <3>4. ASSUME NEW i \in 1..Len(all)
          PROVE  /\ i <= Len(primary) => i = 1 /\ all[i] = Fact(80)
                 /\ i > Len(primary) => i = Len(primary) + 1 /\ all[i] = Topic
      <4>1. CASE i <= Len(primary)
        BY <3>1, <3>2, <3>3, <4>1
      <4>2. CASE i > Len(primary)
        <5>1. i - Len(primary) \in 1..Len(topics)
          BY <3>1, <3>2, <3>3, <4>2
        <5> QED BY <3>1, <3>2, <3>3, <4>2, <5>1
      <4> QED BY <3>1, <4>1, <4>2
    <3>5. \A i \in 1..Len(all) : i <= Len(primary) \/ i > Len(primary)
      BY <3>1, <3>3
    <3> QED BY <1>2, <3>3, <3>4, <3>5
  <2>3. s = Clip(all)
    BY <2>1
  <2> HIDE DEF all
  <2>4. /\ s \in Seq(Snippets) /\ Len(s) <= Len(all)
        /\ \A i \in 1..Len(s) : s[i] = all[i]
    BY <1>1, <2>2, <2>3
  <2>5. \A i \in 1..Len(s) : i \in 1..Len(all)
    BY <2>2, <2>4
  <2> QED BY <2>2, <2>4, <2>5
<1>4. ASSUME NEW s \in Articles
      PROVE  s \in Seq(Snippets) /\ Len(s) <= 1 /\ \A i \in 1..Len(s) : s[i] = Fact(70)
  <2>1. PICK all \in {<<>>, <<Fact(70)>>} : s = Clip(all)
    BY <1>4 DEF Articles, Snippet, Fact
  <2>2. all \in Seq(Snippets) /\ Len(all) <= 1 /\ \A i \in 1..Len(all) : all[i] = Fact(70)
    <3> HIDE DEF Fact
    <3>1. all \in Seq(Snippets) /\ Len(all) \in 0..1 /\ \A i \in 1..Len(all) : all[i] = Fact(70)
      BY <1>2, <2>1, OneAtMost
    <3> QED BY <3>1
  <2>3. /\ s \in Seq(Snippets) /\ Len(s) <= Len(all)
        /\ \A i \in 1..Len(s) : s[i] = all[i]
    BY <1>1, <2>1, <2>2
  <2> QED BY <2>2, <2>3
<1>5. Answers("duckduckgo") = InstantAnswers /\ Answers("wikipedia") = Articles
  BY DEF Answers
<1>6. ASSUME NEW s, s = <<>>
      PROVE  s \in Seq(Snippets) /\ Len(s) = 0 /\ 1..Len(s) = {}
  BY <1>6
<1>7. ASSUME NEW s \in Answers("duckduckgo") \cup {<<>>}
      PROVE  /\ s \in Seq(Snippets)
             /\ \A i \in 1..Len(s) : s[i] \in {Fact(80), Topic}
             /\ \A i, j \in 1..Len(s) : s[i] = s[j] => i = j
  <2>1. CASE s = <<>>
    BY <1>6, <2>1
  <2>2. CASE s \in InstantAnswers
    BY <1>3, <2>2
  <2> QED BY <1>5, <2>1, <2>2
<1>8. ASSUME NEW s \in Answers("wikipedia") \cup {<<>>}
      PROVE  s \in Seq(Snippets) /\ Len(s) <= 1 /\ \A i \in 1..Len(s) : s[i] = Fact(70)
  <2>1. CASE s = <<>>
    BY <1>6, <2>1
  <2>2. CASE s \in Articles
    BY <1>4, <2>2
  <2> QED BY <1>5, <2>1, <2>2
<1> QED BY <1>7, <1>8

Findings(f) == \A p \in Providers : f[p] \in Answers(p) \cup {<<>>}

\* Nothing a provider has found is lost in the ranking, or gives way to less.
LEMMA MergedKeepsAll ==
    ASSUME NEW f, Findings(f), NEW p \in Providers, NEW s \in ToSet(f[p])
    PROVE  \E t \in ToSet(Merged(f)) : t.text = s.text /\ t.score >= s.score
<1> DEFINE quick == f["duckduckgo"]
           articles == f["wikipedia"]
           all == quick \o articles
<1>1. /\ quick \in Seq(Snippets) /\ \A i \in 1..Len(quick) : quick[i] \in {Fact(80), Topic}
      /\ \A i, j \in 1..Len(quick) : quick[i] = quick[j] => i = j
      /\ articles \in Seq(Snippets) /\ Len(articles) <= 1
      /\ \A i \in 1..Len(articles) : articles[i] = Fact(70)
  BY WhatProvidersFind DEF Findings, Providers
<1>2. Merged(f) = DedupeAndRank(all)
  BY DEF Merged
<1> HIDE DEF quick, articles
<1>3. /\ Len(quick) \in Nat /\ Len(articles) \in 0..1 /\ DOMAIN quick = 1..Len(quick)
      /\ DOMAIN articles = 1..Len(articles)
  <2>1. Len(quick) \in Nat /\ Len(articles) \in Nat /\ DOMAIN quick = 1..Len(quick)
    BY <1>1
  <2>2. DOMAIN articles = 1..Len(articles)
    BY <1>1
  <2> QED BY <1>1, <2>1, <2>2
<1>4. /\ all \in Seq(Snippets) /\ Len(all) = Len(quick) + Len(articles)
      /\ \A i \in 1..Len(quick) : all[i] = quick[i]
      /\ \A i \in 1..Len(articles) : all[Len(quick) + i] = articles[i]
  BY <1>1, <1>3
<1> HIDE DEF all
<1>5. PICK i \in 1..Len(all) : all[i] = s
  <2>1. CASE p = "duckduckgo"
    <3>1. PICK i \in 1..Len(quick) : quick[i] = s
      BY <1>3, <2>1 DEF ToSet, quick
    <3> QED BY <1>3, <1>4, <3>1
  <2>2. CASE p = "wikipedia"
    <3>1. PICK i \in 1..Len(articles) : articles[i] = s
      BY <1>3, <2>2 DEF ToSet, articles
    <3> QED BY <1>3, <1>4, <3>1
  <2> QED BY <2>1, <2>2 DEF Providers
<1>6. PICK j \in 1..i : all[j].text = all[i].text /\ j \in FirstOnes(all)
  BY <1>4, EveryTextIsRanked
<1>7. all[j] \in ToSet(Merged(f))
  BY <1>2, <1>4, <1>6, FirstIsRanked
<1>8. all[j].score >= all[i].score
  <2>1. CASE j = i
    <3>1. all[i].score \in Nat
      BY <1>4, FirstOnesFinite
    <3> QED BY <2>1, <3>1
  <2>2. CASE j # i
    <3>1. j \in 1..Len(quick)
      <4> HIDE DEF quick, articles, all
      <4>1. i \in Nat /\ j \in Nat /\ 1 <= j /\ j < i /\ i <= Len(quick) + Len(articles)
        BY <1>3, <1>4, <2>2
      <4>2. Len(quick) \in Nat
        BY <1>1
      <4>3. Len(articles) \in Nat
        BY <1>1
      <4>4. Len(articles) <= 1
        BY <1>1
      <4> QED BY <4>1, <4>2, <4>3, <4>4
    <3>2. all[j] \in {Fact(80), Topic}
      BY <1>1, <1>4, <3>1
    <3>3. CASE i \in 1..Len(quick)
      <4>1. all[i] \in {Fact(80), Topic} /\ all[i] # all[j]
        BY <1>1, <1>4, <2>2, <3>1, <3>3
      <4> QED BY <1>6, <3>2, <4>1 DEF Fact, Topic
    <3>4. CASE i \notin 1..Len(quick)
      <4>1. i - Len(quick) \in 1..Len(articles) /\ i = Len(quick) + (i - Len(quick))
        BY <1>3, <1>4, <3>4
      <4>2. all[i] = Fact(70)
        BY <1>1, <1>4, <4>1
      <4> QED BY <1>6, <3>2, <4>2 DEF Fact, Topic
    <3> QED BY <3>3, <3>4
  <2> QED BY <2>1, <2>2
<1> QED BY <1>5, <1>6, <1>7, <1>8

FoundInv ==
    /\ found \in [Askers -> [Providers -> Seq(Snippets)]]
    /\ \A a \in Askers : Findings(found[a])

LEMMA NothingIsFindings ==
    ASSUME NEW f, f = [p \in Providers |-> <<>>]
    PROVE  f \in [Providers -> Seq(Snippets)] /\ Findings(f)
<1>1. \A p \in Providers : f[p] = <<>>
  OBVIOUS
<1>2. f \in [Providers -> Seq(Snippets)]
  OBVIOUS
<1> HIDE DEF Snippets
<1> QED BY <1>1, <1>2 DEF Findings

LEMMA FoundInit == EngineInit => FoundInv
<1> SUFFICES ASSUME EngineInit PROVE FoundInv
  OBVIOUS
<1> DEFINE none == [p \in Providers |-> <<>>]
<1>1. none \in [Providers -> Seq(Snippets)] /\ Findings(none)
  BY NothingIsFindings
<1>2. found = [a \in Askers |-> none]
  BY DEF EngineInit, NetInit
<1> HIDE DEF none
<1> QED BY <1>1, <1>2 DEF FoundInv

LEMMA FoundNext == FoundInv /\ [EngineNext]_engineVars => FoundInv'
<1> SUFFICES ASSUME FoundInv, [EngineNext]_engineVars PROVE FoundInv'
  OBVIOUS
<1>1. CASE UNCHANGED found
  BY <1>1 DEF FoundInv
<1>2. ASSUME NEW a \in Askers, NEW p \in Providers, HttpGet(a, p) PROVE FoundInv'
  <2>1. CASE UNCHANGED found
    BY <1>1, <2>1
  <2>2. CASE \E snippets \in Answers(p) \cup {<<>>} : Back(a, p, snippets)
    <3>1. PICK snippets \in Answers(p) \cup {<<>>} : found' = [found EXCEPT ![a][p] = snippets]
      BY <2>2 DEF Back
    <3>2. snippets \in Seq(Snippets)
      BY WhatProvidersFind DEF Providers
    <3>3. /\ found' \in [Askers -> [Providers -> Seq(Snippets)]]
          /\ \A b \in Askers, q \in Providers :
               found'[b][q] = IF b = a /\ q = p THEN snippets ELSE found[b][q]
      BY <3>1, <3>2 DEF FoundInv
    <3> QED BY <3>3 DEF FoundInv, Findings
  <2> QED BY <1>2, <2>1, <2>2 DEF HttpGet
<1>3. ASSUME NEW a \in Askers, NEW snippets, Keep(a, snippets) PROVE FoundInv'
  <2> DEFINE none == [p \in Providers |-> <<>>]
  <2>1. none \in [Providers -> Seq(Snippets)] /\ Findings(none)
    BY NothingIsFindings
  <2>2. found' = [found EXCEPT ![a] = none]
    BY <1>3 DEF Keep
  <2> HIDE DEF none
  <2> QED BY <2>1, <2>2 DEF FoundInv
<1>4. ASSUME NEW a \in Askers, Retrieve(a) PROVE FoundInv'
  <2>1. CASE Lookup(a) \/ RateLimit(a) \/ Wake(a)
    <3>1. UNCHANGED found
      BY <2>1 DEF Lookup, RateLimit, Wake, StartFetch, fetchVars
    <3> QED BY <1>1, <3>1
  <2>2. CASE Gathered(a) \/ FetchTimesOut(a)
    BY <1>3, <2>2 DEF Gathered, FetchTimesOut
  <2> QED BY <1>2, <1>4, <2>1, <2>2 DEF Retrieve
<1>5. CASE Tick \/ UNCHANGED engineVars \/ \E a \in Askers : CallModel(a) \/ \E q \in Questions : Ask(a, q)
  <2>1. UNCHANGED found
    BY <1>5 DEF Tick, engineVars, netVars, fetchVars, CallModel, Ask
  <2> QED BY <1>1, <2>1
<1> QED BY <1>4, <1>5 DEF EngineNext, Answer

\* A fetch ends with what it keeps of its findings.
LEMMA FetchEnds ==
    ASSUME SpaceInv, EngineNext, NEW a \in Askers, at[a] = "fetch", at'[a] = "prompt"
    PROVE  Keep(a, Merged(found[a]))
<1>1. ASSUME NEW b \in Askers, NEW q \in Questions, Ask(b, q) PROVE FALSE
  BY <1>1 DEF Ask, Goto, Returned, SpaceInv, Clocks
<1>2. ASSUME NEW b \in Askers, CallModel(b) PROVE FALSE
  <2>1. at[b] = "prompt" /\ (at' = at \/ \E where : Goto(b, where))
    BY <1>2 DEF CallModel
  <2> QED BY <2>1 DEF Goto, SpaceInv, Clocks
<1>3. ~ Tick
  BY DEF Tick, SpaceInv, Clocks
<1>4. PICK b \in Askers : Retrieve(b)
  BY <1>1, <1>2, <1>3 DEF EngineNext, Answer
<1>5. ~ (Lookup(b) \/ RateLimit(b) \/ Wake(b) \/ \E p \in Providers : HttpGet(b, p))
  <2>1. ~ Lookup(b)
    BY DEF Lookup, CacheGet, Retrieved, Goto, SpaceInv, Clocks
  <2>2. ~ RateLimit(b) /\ ~ Wake(b)
    BY DEF RateLimit, Wake, StartFetch, Goto, SpaceInv, Clocks
  <2>3. \A p \in Providers : ~ HttpGet(b, p)
    BY DEF HttpGet, SpaceInv, Clocks
  <2> QED BY <2>1, <2>2, <2>3
<1>6. Keep(b, Merged(found[b]))
  BY <1>4, <1>5 DEF Retrieve, Gathered, FetchTimesOut
<1>7. at' = [at EXCEPT ![b] = "prompt"]
  BY <1>6 DEF Keep, Retrieved, Goto
<1>8. b = a
  BY <1>7 DEF SpaceInv, Clocks
<1> QED BY <1>6, <1>8

\* Whatever one provider has found is in the cache when the fetch ends, though another was
\* too slow, or the ranking has dropped a duplicate that scored less: for every bound of
\* the results, of the cache and of the retries.
THEOREM FindingsAreSalvaged == EngineSpec => SalvageKept
<1>1. SpaceInv /\ CacheInv /\ FoundInv /\ [EngineNext]_engineVars =>
        [\A a \in Askers :
           at[a] = "fetch" /\ at'[a] = "prompt" =>
              \A p \in Providers : \A s \in ToSet(found[a][p]) :
                 \E t \in ToSet(store'[question[a]].value) : t.text = s.text /\ t.score >= s.score]_engineVars
  <2> SUFFICES ASSUME SpaceInv, CacheInv, FoundInv, EngineNext,
                      NEW a \in Askers, at[a] = "fetch", at'[a] = "prompt",
                      NEW p \in Providers, NEW s \in ToSet(found[a][p])
               PROVE  \E t \in ToSet(store'[question[a]].value) : t.text = s.text /\ t.score >= s.score
    OBVIOUS
  <2>1. Keep(a, Merged(found[a]))
    BY FetchEnds
  <2>2. question[a] \in Keys /\ CacheSet(question[a], Merged(found[a]))
    BY <2>1 DEF CacheInv, Keep
  <2>3. store'[question[a]].value = Merged(found[a])
    BY <2>2, SetKeeps
  <2>4. Findings(found[a])
    BY DEF FoundInv
  <2>5. \E t \in ToSet(Merged(found[a])) : t.text = s.text /\ t.score >= s.score
    BY <2>4, MergedKeepsAll
  <2> QED BY <2>3, <2>5
<1> QED
  BY <1>1, SpaceInit, SpaceNext, CacheInit, CacheNext, FoundInit, FoundNext, PTL
  DEF EngineSpec, SalvageKept

-----------------------------------------------------------------------------
(***************************************************************************)
(* The calls of the model.  The requests made of the provider in hand are  *)
(* at least the retries of this attempt and at most those of all attempts  *)
(* so far; each provider before it has had more than its own retries.      *)
(***************************************************************************)
Most == (GuardRetries + 1) * (ProviderRetries + 1)

CallTypes ==
    /\ call \in [Askers -> [model : 1..Models, attempt : 0..GuardRetries, retry : 0..ProviderRetries]]
    /\ tries \in [Askers -> [1..Models -> Nat]]

Counted(a) ==
    /\ \A m \in 1..Models :
         /\ m < call[a].model => ProviderRetries < tries[a][m] /\ tries[a][m] <= Most
         /\ m > call[a].model => tries[a][m] = 0
    /\ call[a].retry <= tries[a][call[a].model]
    /\ tries[a][call[a].model] <= call[a].attempt * (ProviderRetries + 1) + call[a].retry

CallInv == CallTypes /\ \A a \in Askers : Counted(a)

LEMMA RetriesNat == Models \in Nat \ {0} /\ GuardRetries \in Nat /\ ProviderRetries \in Nat
BY KnowledgeAssumption

\* One attempt more makes room for one round of retries.
LEMMA OneAttemptMore ==
    ASSUME NEW i \in Nat, NEW k \in Nat
    PROVE  (i + 1) * k = i * k + k /\ i * k \in Nat
OBVIOUS

LEMMA MoreAttempts ==
    ASSUME NEW i \in Nat, NEW n \in Nat, i <= n, NEW k \in Nat
    PROVE  i * k <= n * k
OBVIOUS

\* A call with one retry more, and with one attempt more.
LEMMA RetryMore ==
    ASSUME NEW i \in Nat, NEW j \in Nat, NEW k \in Nat, NEW c,
           c = [model |-> i, attempt |-> j, retry |-> k]
    PROVE  [c EXCEPT !.retry = @ + 1] = [model |-> i, attempt |-> j, retry |-> k + 1]
OBVIOUS

LEMMA AttemptMore ==
    ASSUME NEW i \in Nat, NEW j \in Nat, NEW k \in Nat, NEW c,
           c = [model |-> i, attempt |-> j, retry |-> k]
    PROVE  [c EXCEPT !.attempt = @ + 1, !.retry = 0]
             = [model |-> i, attempt |-> j + 1, retry |-> 0]
<1> DEFINE d == [c EXCEPT !.attempt = @ + 1]
<1>1. d = [model |-> i, attempt |-> j + 1, retry |-> k]
  OBVIOUS
<1>2. [d EXCEPT !.retry = 0] = [model |-> i, attempt |-> j + 1, retry |-> 0]
  <2> HIDE DEF d
  <2> QED BY <1>1
<1> QED BY <1>2

LEMMA CallInvInit == EngineInit => CallInv
<1> SUFFICES ASSUME EngineInit PROVE CallInv
  OBVIOUS
<1>1. /\ call = [a \in Askers |-> [model |-> 1, attempt |-> 0, retry |-> 0]]
      /\ tries = [a \in Askers |-> [m \in 1..Models |-> 0]]
  BY DEF EngineInit, LLM!CallInit, LLM!First
<1>2. CallTypes
  BY <1>1, RetriesNat DEF CallTypes
<1>3. \A a \in Askers : Counted(a)
  BY <1>1, RetriesNat DEF Counted
<1> QED BY <1>2, <1>3 DEF CallInv

\* A request is within what the retries allow, and the last of an attempt that failed
\* comes after as many as the provider's retries.
LEMMA RequestCounted ==
    ASSUME CallInv, NEW a \in Askers
    PROVE  /\ LLM!Tried(a) \in [1..Models -> Nat]
           /\ LLM!Tried(a)[call[a].model] = tries[a][call[a].model] + 1
           /\ \A m \in 1..Models \ {call[a].model} : LLM!Tried(a)[m] = tries[a][m]
           /\ LLM!Tried(a)[call[a].model] <= Most
           /\ \A m \in 1..Models : tries[a][m] <= Most
<1> DEFINE model == call[a].model
           attempt == call[a].attempt
           retry == call[a].retry
           made == tries[a]
           round == ProviderRetries + 1
           before == attempt * round
           all == GuardRetries * round
<1>1. /\ model \in 1..Models /\ attempt \in 0..GuardRetries /\ retry \in 0..ProviderRetries
      /\ made \in [1..Models -> Nat]
  BY DEF CallInv, CallTypes
<1>2. made[model] <= before + retry
  BY DEF CallInv, Counted
<1>3. \A m \in 1..Models : /\ m < model => made[m] <= Most
                           /\ m > model => made[m] = 0
  BY DEF CallInv, Counted
<1>4. LLM!Tried(a) = [made EXCEPT ![model] = @ + 1]
  BY DEF LLM!Tried
<1>5. round \in Nat /\ Most = (GuardRetries + 1) * round
  BY RetriesNat DEF Most
<1> HIDE DEF model, attempt, retry, made
<1>6. /\ LLM!Tried(a) \in [1..Models -> Nat]
      /\ LLM!Tried(a)[model] = made[model] + 1
      /\ \A m \in 1..Models \ {model} : LLM!Tried(a)[m] = made[m]
  BY <1>1, <1>4
<1>7. attempt \in Nat /\ GuardRetries \in Nat /\ attempt <= GuardRetries
  BY <1>1, RetriesNat
<1>8. Most = all + round /\ all \in Nat /\ before \in Nat /\ before <= all
  <2> HIDE DEF round
  <2> QED BY <1>5, <1>7, OneAttemptMore, MoreAttempts
<1>9. made[model] + 1 <= Most
  <2>1. made[model] \in Nat /\ retry \in Nat /\ retry + 1 <= round /\ round \in Nat
    BY <1>1, RetriesNat
  <2> HIDE DEF before, all, round
  <2> QED BY <1>2, <1>8, <2>1
<1>10. \A m \in 1..Models : made[m] <= Most
  <2> SUFFICES ASSUME NEW m \in 1..Models PROVE made[m] <= Most
    OBVIOUS
  <2>1. m < model \/ m = model \/ m > model
    BY <1>1, RetriesNat
  <2>2. Most \in Nat /\ made[m] \in Nat
    <3> HIDE DEF all, round
    <3> QED BY <1>1, <1>5, <1>8
  <2>3. (m < model => made[m] <= Most) /\ (m > model => made[m] = 0)
    BY <1>3
  <2> HIDE DEF all, round, before
  <2>4. CASE m = model
    BY <1>9, <2>2, <2>4
  <2> QED BY <2>1, <2>2, <2>3, <2>4
<1> QED BY <1>6, <1>9, <1>10 DEF model, made

\* The call goes on: with a retry, another attempt, or the next provider.
LEMMA GoesOnCounted ==
    ASSUME CallInv, NEW a \in Askers, NEW response, LLM!GoesOn(a, response)
    PROVE  CallInv'
<1> DEFINE model == call[a].model
           attempt == call[a].attempt
           retry == call[a].retry
           tried == LLM!Tried(a)
           round == ProviderRetries + 1
<1>1. /\ model \in 1..Models /\ attempt \in 0..GuardRetries /\ retry \in 0..ProviderRetries
      /\ call[a] = [model |-> model, attempt |-> attempt, retry |-> retry]
      /\ tries[a] \in [1..Models -> Nat] /\ Counted(a)
  BY DEF CallInv, CallTypes
<1>2. /\ tried \in [1..Models -> Nat] /\ tried[model] = tries[a][model] + 1
      /\ \A m \in 1..Models \ {model} : tried[m] = tries[a][m]
      /\ \A m \in 1..Models : tried[m] <= Most
  BY RequestCounted
<1>3. tries' = [tries EXCEPT ![a] = tried]
  BY DEF LLM!GoesOn
<1>4. PICK next : call' = [call EXCEPT ![a] = next] /\
        \/ /\ retry < ProviderRetries
           /\ next = [model |-> model, attempt |-> attempt, retry |-> retry + 1]
        \/ /\ retry = ProviderRetries /\ attempt < GuardRetries
           /\ next = [model |-> model, attempt |-> attempt + 1, retry |-> 0]
        \/ /\ retry = ProviderRetries /\ model < Models
           /\ next = [model |-> model + 1, attempt |-> 0, retry |-> 0]
  <2>0. a \in DOMAIN call /\ (~(retry < ProviderRetries) => retry = ProviderRetries)
    BY <1>1, RetriesNat DEF CallInv, CallTypes
  <2>1. CASE LLM!Retried(a, response) /\ call' = [call EXCEPT ![a].retry = @ + 1]
    <3>1. [call[a] EXCEPT !.retry = @ + 1]
            = [model |-> model, attempt |-> attempt, retry |-> retry + 1]
      <4> HIDE DEF model, attempt, retry
      <4>1. model \in Nat /\ attempt \in Nat /\ retry \in Nat
        BY <1>1, RetriesNat
      <4>2. call[a] = [model |-> model, attempt |-> attempt, retry |-> retry]
        BY <1>1
      <4> DEFINE c == call[a]
      <4>3. [c EXCEPT !.retry = @ + 1]
              = [model |-> model, attempt |-> attempt, retry |-> retry + 1]
        <5>1. c = [model |-> model, attempt |-> attempt, retry |-> retry]
          BY <4>2
        <5> HIDE DEF c, model, attempt, retry
        <5> QED BY <4>1, <5>1, RetryMore
      <4> QED BY <4>3
    <3>2. call' = [call EXCEPT ![a] = [model |-> model, attempt |-> attempt, retry |-> retry + 1]]
      BY <2>1, <3>1
    <3>3. retry < ProviderRetries
      BY <2>1 DEF LLM!Retried
    <3> QED BY <3>2, <3>3
  <2>2. CASE LLM!TriedAgain(a, response) /\ call' = [call EXCEPT ![a].attempt = @ + 1, ![a].retry = 0]
    <3>1. [call[a] EXCEPT !.attempt = @ + 1, !.retry = 0]
            = [model |-> model, attempt |-> attempt + 1, retry |-> 0]
      <4> HIDE DEF model, attempt, retry
      <4>1. model \in Nat /\ attempt \in Nat /\ retry \in Nat
        BY <1>1, RetriesNat
      <4>2. call[a] = [model |-> model, attempt |-> attempt, retry |-> retry]
        BY <1>1
      <4> DEFINE c == call[a]
      <4>3. [c EXCEPT !.attempt = @ + 1, !.retry = 0]
              = [model |-> model, attempt |-> attempt + 1, retry |-> 0]
        <5>1. c = [model |-> model, attempt |-> attempt, retry |-> retry]
          BY <4>2
        <5> HIDE DEF c, model, attempt, retry
        <5> QED BY <4>1, <5>1, AttemptMore
      <4> QED BY <4>3
    <3>2. call' = [call EXCEPT ![a] = [call[a] EXCEPT !.attempt = @ + 1, !.retry = 0]]
      BY <2>0, <2>2
    <3>3. retry = ProviderRetries /\ attempt < GuardRetries
      BY <2>0, <2>2 DEF LLM!TriedAgain, LLM!Retried
    <3> QED BY <3>1, <3>2, <3>3
  <2>3. CASE LLM!FallsBack(a, response) /\ call' = [call EXCEPT ![a] = LLM!First(call[a].model + 1)]
    BY <1>1, <2>0, <2>3 DEF LLM!FallsBack, LLM!Retried, LLM!First
  <2> QED BY <2>1, <2>2, <2>3 DEF LLM!GoesOn
<1>5. /\ call'[a] = next /\ tries'[a] = tried
      /\ \A b \in Askers \ {a} : call'[b] = call[b] /\ tries'[b] = tries[b]
  BY <1>3, <1>4 DEF CallInv, CallTypes
<1>6. /\ retry <= tries[a][model]
      /\ \A m \in 1..Models : /\ m < model => ProviderRetries < tries[a][m]
                              /\ m > model => tries[a][m] = 0
  BY <1>1 DEF Counted
<1>7. tries[a][model] <= attempt * round + retry
  BY <1>1 DEF Counted
<1>8. attempt * round \in Nat /\ (attempt + 1) * round = attempt * round + round
  <2>1. attempt \in Nat /\ round \in Nat
    BY <1>1, RetriesNat
  <2> HIDE DEF attempt, round
  <2> QED BY <2>1, OneAttemptMore
<1> HIDE DEF model, attempt, retry, tried, round
<1>9. next \in [model : 1..Models, attempt : 0..GuardRetries, retry : 0..ProviderRetries]
  BY <1>1, <1>4, RetriesNat
<1>10. CallTypes'
  BY <1>2, <1>3, <1>4, <1>9 DEF CallInv, CallTypes
<1>11. Counted(a)'
  <2> DEFINE n == next.model
  <2>1. tries[a][model] \in Nat /\ tried[model] \in Nat /\ round = ProviderRetries + 1
    BY <1>1, <1>2 DEF round
  <2>2. ASSUME NEW m \in 1..Models
        PROVE  /\ m < n => ProviderRetries < tried[m] /\ tried[m] <= Most
               /\ m > n => tried[m] = 0
    <3>1. CASE n = model
      <4>1. model \in Nat /\ m \in Nat /\ next.model = model
        BY <1>1, <3>1, RetriesNat
      <4>2. CASE m = model
        BY <4>1, <4>2
      <4>3. CASE m # model
        <5>1. tried[m] = tries[a][m] /\ tried[m] <= Most
          BY <1>2, <4>3
        <5> QED BY <1>6, <4>1, <5>1
      <4> QED BY <4>2, <4>3
    <3>2. CASE n = model + 1 /\ retry = ProviderRetries
      <4>1. CASE m = model
        <5>1. retry <= tries[a][model] /\ tried[m] = tries[a][model] + 1 /\ tried[m] <= Most
          BY <1>2, <1>6, <4>1
        <5>2. model \in Nat /\ n = model + 1 /\ retry = ProviderRetries /\ retry \in Nat
          BY <1>1, <3>2, RetriesNat
        <5> HIDE DEF n
        <5> QED BY <2>1, <4>1, <5>1, <5>2
      <4>2. CASE m # model
        <5>1. tried[m] = tries[a][m] /\ tried[m] <= Most
          BY <1>2, <4>2
        <5>2. model \in Nat /\ m \in Nat /\ next.model = model + 1
          BY <1>1, <3>2, RetriesNat
        <5> QED BY <1>6, <4>2, <5>1, <5>2
      <4> QED BY <4>1, <4>2
    <3> QED BY <1>4, <3>1, <3>2
  <2>3. next.retry <= tried[n]
    <3>1. CASE next = [model |-> model, attempt |-> attempt, retry |-> retry + 1]
      <4>1. n = model /\ next.retry = retry + 1
        BY <3>1
      <4>2. retry \in Nat /\ retry <= tries[a][model] /\ tried[model] = tries[a][model] + 1
        BY <1>1, <1>2, <1>6, RetriesNat
      <4> QED BY <2>1, <4>1, <4>2
    <3>2. CASE next = [model |-> model, attempt |-> attempt + 1, retry |-> 0]
      <4>1. n = model /\ next.retry = 0
        BY <3>2
      <4> QED BY <2>1, <4>1
    <3>3. CASE model < Models /\ next = [model |-> model + 1, attempt |-> 0, retry |-> 0]
      <4>1. n = model + 1 /\ next.retry = 0
        BY <3>3
      <4>2. n \in 1..Models
        BY <1>1, <3>3, <4>1, RetriesNat
      <4> QED BY <1>2, <4>1, <4>2
    <3> QED BY <1>4, <3>1, <3>2, <3>3
  <2>4. tried[n] <= next.attempt * round + next.retry
    <3> DEFINE before == attempt * round
               more == (attempt + 1) * round
    <3>0. /\ before \in Nat /\ more = before + round /\ round = ProviderRetries + 1
          /\ retry \in Nat /\ ProviderRetries \in Nat
          /\ tried[model] = tries[a][model] + 1 /\ tries[a][model] <= before + retry
      BY <1>1, <1>2, <1>7, <1>8, <2>1, RetriesNat
    <3>1. CASE next = [model |-> model, attempt |-> attempt, retry |-> retry + 1]
      <4>1. n = model /\ next.attempt * round = before /\ next.retry = retry + 1
        BY <3>1
      <4> HIDE DEF before, more, n
      <4> QED BY <2>1, <3>0, <4>1
    <3>2. CASE retry = ProviderRetries /\ next = [model |-> model, attempt |-> attempt + 1, retry |-> 0]
      <4>1. n = model /\ next.attempt * round = more /\ next.retry = 0
        BY <3>2
      <4> HIDE DEF before, more, n
      <4> QED BY <2>1, <3>0, <3>2, <4>1
    <3>3. CASE model < Models /\ next = [model |-> model + 1, attempt |-> 0, retry |-> 0]
      <4>1. n = model + 1 /\ next.attempt = 0 /\ next.retry = 0
        BY <3>3
      <4>2. n \in 1..Models /\ n # model /\ n > model
        BY <1>1, <3>3, <4>1, RetriesNat
      <4>3. tried[n] = 0
        BY <1>2, <1>6, <4>2
      <4> QED BY <2>1, <4>1, <4>3, RetriesNat
    <3> QED BY <1>4, <3>1, <3>2, <3>3
  <2> QED BY <1>5, <2>1, <2>2, <2>3, <2>4 DEF Counted
<1>12. \A b \in Askers \ {a} : Counted(b)'
  BY <1>5 DEF CallInv, Counted
<1> QED BY <1>10, <1>11, <1>12 DEF CallInv

LEMMA EndsCounted ==
    ASSUME CallInv, NEW a \in Askers, NEW response, LLM!Ends(a, response)
    PROVE  CallInv'
<1>1. /\ call' = [call EXCEPT ![a] = [model |-> 1, attempt |-> 0, retry |-> 0]]
      /\ tries' = [tries EXCEPT ![a] = [m \in 1..Models |-> 0]]
  BY DEF LLM!Ends, LLM!First
<1>2. CallTypes'
  BY <1>1, RetriesNat DEF CallInv, CallTypes
<1>3. \A b \in Askers \ {a} : Counted(b)'
  BY <1>1 DEF CallInv, CallTypes, Counted
<1>4. Counted(a)'
  BY <1>1, RetriesNat DEF CallInv, CallTypes, Counted
<1> QED BY <1>2, <1>3, <1>4 DEF CallInv

\* The apology ends a call whose last provider has failed as the others before it.
LEMMA ApologyExhausts ==
    ASSUME CallInv, NEW a \in Askers, NEW response \in {"timeout", "error"},
           LLM!Ends(a, response)
    PROVE  \A m \in 1..Models : LLM!Tried(a)[m] > ProviderRetries
<1> DEFINE model == call[a].model
           retry == call[a].retry
<1>1. /\ model \in 1..Models /\ retry \in 0..ProviderRetries
      /\ tries[a] \in [1..Models -> Nat] /\ Counted(a)
  BY DEF CallInv, CallTypes
<1>2. ~(retry < ProviderRetries) /\ ~(model < Models)
  BY DEF LLM!Ends, LLM!Retried, LLM!FallsBack
<1>3. retry = ProviderRetries /\ model = Models
  BY <1>1, <1>2, RetriesNat
<1>4. /\ LLM!Tried(a)[model] = tries[a][model] + 1
      /\ \A m \in 1..Models \ {model} : LLM!Tried(a)[m] = tries[a][m]
  BY RequestCounted
<1>5. /\ retry <= tries[a][model]
      /\ \A m \in 1..Models : m < model => ProviderRetries < tries[a][m]
  BY <1>1 DEF Counted
<1> HIDE DEF model, retry
<1> SUFFICES ASSUME NEW m \in 1..Models PROVE LLM!Tried(a)[m] > ProviderRetries
  OBVIOUS
<1>6. CASE m = model
  BY <1>1, <1>3, <1>4, <1>5, <1>6, RetriesNat
<1>7. CASE m # model
  BY <1>1, <1>3, <1>4, <1>5, <1>7, RetriesNat
<1> QED BY <1>6, <1>7

CallBound == \A a \in Askers, m \in 1..Models :
               tries[a][m] <= (GuardRetries + 1) * (ProviderRetries + 1)

LEMMA CallBounded == CallInv => CallBound
BY RequestCounted DEF CallBound, Most

LEMMA CallInvNext == CallInv /\ [EngineNext]_engineVars => CallInv'
<1> SUFFICES ASSUME CallInv, [EngineNext]_engineVars PROVE CallInv'
  OBVIOUS
<1>1. CASE UNCHANGED <<call, tries>>
  BY <1>1 DEF CallInv, CallTypes, Counted
<1>2. ASSUME NEW a \in Askers, CallModel(a) PROVE CallInv'
  BY <1>2, GoesOnCounted, EndsCounted DEF CallModel
<1> QED BY <1>1, <1>2 DEF EngineNext, Ask, Answer, Idle, engineVars

LEMMA ApologyStep ==
    ASSUME SpaceInv, CallInv, EngineNext, NEW a \in Askers,
           at[a] = "prompt", at'[a] = "apology"
    PROVE  \A m \in 1..Models : LLM!Tried(a)[m] > ProviderRetries
<1>1. PICK b \in Askers : CallModel(b) /\ at' # at
  <2>1. ASSUME NEW b \in Askers, NEW q \in Questions, Ask(b, q) PROVE FALSE
    BY <2>1 DEF Ask, Goto, SpaceInv, Clocks
  <2>2. ASSUME NEW b \in Askers, Retrieve(b) PROVE FALSE
    BY <2>2 DEF Retrieve, Lookup, CacheGet, RateLimit, Wake, HttpGet, Gathered, FetchTimesOut,
                Keep, StartFetch, Retrieved, Goto, SpaceInv, Clocks
  <2> QED BY <2>1, <2>2 DEF EngineNext, Answer, Tick
<1>2. PICK response \in LLM!Responses : LLM!Ends(b, response) /\ Goto(b, LLM!Outcome(response))
  BY <1>1 DEF CallModel
<1>3. a = b /\ response \in {"timeout", "error"}
  BY <1>2 DEF Goto, LLM!Outcome, SpaceInv, Clocks
<1> QED BY <1>2, <1>3, ApologyExhausts

\* The user is told that the model cannot be reached only after every provider was tried
\* as often as its own retries allow, and none is tried more often than all retries
\* together allow: for every number of providers and retries.
THEOREM ApologyIsLastResort == EngineSpec => ApologyMeansExhausted
<1>1. SpaceInv /\ CallInv /\ CallBound' /\ [EngineNext]_engineVars =>
        [\A a \in Askers :
           /\ at[a] = "prompt" /\ at'[a] = "apology" =>
                \A m \in 1..Models : LLM!Tried(a)[m] > ProviderRetries
           /\ \A m \in 1..Models :
                tries'[a][m] <= (GuardRetries + 1) * (ProviderRetries + 1)]_engineVars
  BY ApologyStep DEF CallBound
<1> QED
  BY <1>1, SpaceInit, SpaceNext, CallInvInit, CallInvNext, CallBounded, PTL
  DEF EngineSpec, ApologyMeansExhausted
=============================================================================
