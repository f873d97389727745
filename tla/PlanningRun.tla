----------------------------- MODULE PlanningRun ----------------------------
(***************************************************************************)
(* One goal through the planning subsystem: planning/coordinator.py with   *)
(* the planner, the capability catalogue, the invoker, the scratchpad and  *)
(* the verifier it composes.  The scheduling of the nodes, their retries   *)
(* and their timeouts are TaskExecutor's subject: here a node that is      *)
(* ready is run to its end in one step, in any order the graph allows.     *)
(*                                                                         *)
(* A text is the set of what the checks can tell of it:                    *)
(*   "marker"    a mark of internal machinery (core/response_guards.py)    *)
(*   "artifact"  tool JSON or leaked prompt scaffolding                    *)
(*   "claim"     it claims success ("done", "successfully", ...)           *)
(*   "echo"      it only repeats the goal                                  *)
(*   "recalled"  it quotes what was recalled from the user's memory        *)
(*   "answer"    it says anything else                                     *)
(* and Empty is the text with nothing in it.                               *)
(***************************************************************************)
EXTENDS TaskGraph

CONSTANTS
    Deployments,        \* the sets of backends that may be up
    Capabilities,       \* the capabilities of the catalogue that have a backend
    Outputs,            \* the texts a model or a tool may answer
    PlanConfidences,    \* percent: overall confidences of the model's plans
    NodeConfidences,    \* percent: confidences of the steps of the model's plans
    MinGoalConfidence,  \* percent: min_goal_confidence
    Threshold           \* percent: confidence_threshold of the verifier

Empty == {"empty"}
Told  == {Empty} \cup SUBSET {"marker", "artifact", "claim", "echo", "recalled", "answer"}

ASSUME PlanningAssumption ==
    /\ Nodes = 1..Cardinality(Nodes)
    /\ Outputs \subseteq Told
    /\ PlanConfidences \subseteq 1..100
    /\ NodeConfidences \subseteq 1..100
    /\ MinGoalConfidence \in 0..100
    /\ Threshold \in 0..100
    /\ Capabilities \subseteq {"reasoning", "memory", "internet", "tool"}

VARIABLES
    services,   \* the backends that are up (never changes)
    pc,         \* where run() is
    plan,       \* the plan
    status,     \* of each node; "ABSENT" if the plan has fewer steps
    output,     \* scratchpad: the output of each node
    draft,      \* what _synthesize() composed
    outcome,    \* PlanningOutcome
    outward     \* history: what of the user's memory was sent to the internet

planVars == <<pc, plan, status, output, draft, outcome, outward>>
Private  == {"recalled"}
Fallback == {"fallback"}        \* _GRACEFUL_FALLBACK

Reasoning == "reasoning" \in services

(***************************************************************************)
(* The planner.  "none" is a capability without a backend (python), and a  *)
(* tool that needs a permission nobody can give is one too.  A step may    *)
(* only name earlier steps as dependencies, a name that is not in the      *)
(* catalogue becomes "reasoning".                                          *)
(***************************************************************************)
StepsOf(n) == {i \in Nodes : i <= n}

Plans(n, tools, depends, overall, conf) ==
    {[steps |-> StepsOf(n), tool |-> t, deps |-> d, overall |-> overall, conf |-> conf] :
        t \in {f \in [Nodes -> tools] : \A i \in Nodes : i > n => f[i] = "none"},
        d \in depends}

Earlier(n) == {d \in [Nodes -> SUBSET Nodes] :
                 \A i \in Nodes : d[i] \subseteq {j \in Nodes : j < i /\ i <= n}}

Chain(n) == [i \in Nodes |-> IF i > 1 /\ i <= n THEN {i - 1} ELSE {}]

LLMPlans ==
    UNION {Plans(n, Capabilities \cup {"none"}, Earlier(n), o, c) :
             n \in Nodes, o \in PlanConfidences, c \in NodeConfidences}

\* _plan_heuristic(): a chain of the goal's segments, each with an available
\* capability its words suggest, else "reasoning".
HeuristicPlans ==
    UNION {Plans(n, (Capabilities \cap services) \cup {"reasoning", "none"}, {Chain(n)},
                 IF n = 1 THEN 60 ELSE 55, IF n = 1 THEN 60 ELSE 55) : n \in Nodes}

WellTooled(p) == \A i \in p.steps : p.tool[i] # "none"

\* A plan of the model is only to be had when the model is up; whatever it answers
\* that is not a plan leads to the heuristic one, whose steps all have a capability.
Decomposed ==
    {p \in HeuristicPlans : WellTooled(p)} \cup (IF Reasoning THEN LLMPlans ELSE {})

NoPlan == [steps |-> {}, tool |-> [i \in Nodes |-> "none"], deps |-> [i \in Nodes |-> {}],
           overall |-> 0, conf |-> 0]

Declined == [accepted |-> FALSE, ok |-> FALSE, shown |-> Empty]

PlanInit ==
    /\ services \in Deployments
    /\ pc = "idle"
    /\ plan = NoPlan
    /\ status = [i \in Nodes |-> "ABSENT"]
    /\ output = [i \in Nodes |-> Empty]
    /\ draft = Empty
    /\ outcome = Declined
    /\ outward = {}

\* All that run() works with is its own, and gone when it has returned.
PlanForget ==
    /\ pc' = "idle"
    /\ plan' = NoPlan
    /\ status' = [i \in Nodes |-> "ABSENT"]
    /\ output' = [i \in Nodes |-> Empty]
    /\ draft' = Empty
    /\ outcome' = Declined
    /\ UNCHANGED outward

\* _run() up to the execution: a plan with too little confidence is declined.
Decompose ==
    /\ pc = "plan"
    /\ \E p \in Decomposed :
         IF p.overall < MinGoalConfidence
           THEN /\ pc' = "done"
                /\ UNCHANGED <<plan, status>>
           ELSE /\ pc' = "execute"
                /\ plan' = p
                /\ status' = [i \in Nodes |-> IF i \in p.steps THEN "PENDING" ELSE "ABSENT"]
    /\ UNCHANGED <<services, output, draft, outcome, outward>>

(***************************************************************************)
(* The invoker.  Whether a text needs the internet is up to its words.     *)
(***************************************************************************)
Join(texts) == LET said == texts \ {Empty} IN IF said = {} THEN Empty ELSE UNION said

Succeeded == {i \in plan.steps : status[i] = "SUCCEEDED"}
Failed    == {i \in plan.steps : status[i] \in Failures}

\* _dependency_context()
ContextOf(i) == Join({output[j] : j \in plan.deps[i] \cap Succeeded})

\* KnowledgeEngine.answer(prompt): the whole prompt is the query of its retrieval.
Sent(prompt) == IF "internet" \in services THEN {{}, prompt} ELSE {{}}

Always == {"SUCCEEDED", "TIMED_OUT"}

Results(i) ==
    CASE plan.tool[i] \notin services -> [text : {Empty}, sent : {{}}, end : {"FAILED"}]
      [] plan.tool[i] = "memory" ->
            [text : {{}, {"recalled"}}, sent : {{}}, end : Always \cup {"FAILED"}]
      [] plan.tool[i] = "reasoning" ->
            [text : Outputs \ {Empty}, sent : Sent(ContextOf(i)), end : Always]
      [] OTHER -> [text : Outputs, sent : {{}}, end : Always \cup {"FAILED"}]

\* Fault: the steps behind a failed one are left pending.
RunNode_SkipsNothing(i) ==
    /\ pc = "execute"
    /\ i \in ReadyNodes(plan.deps, status, Succeeded)
    /\ \E r \in Results(i) :
         /\ outward' = outward \cup (r.sent \cap Private)
         /\ output' = [output EXCEPT ![i] = IF r.end = "SUCCEEDED" THEN r.text ELSE Empty]
         /\ status' = [status EXCEPT ![i] = r.end]
    /\ UNCHANGED <<services, pc, plan, draft, outcome>>

\* The node runs to its end; a backend that raises, a tool that fails and the
\* executor's timeout make it fail, and its dependents are skipped.
RunNode(i) ==
    /\ pc = "execute"
    /\ i \in ReadyNodes(plan.deps, status, {j \in Nodes : status[j] \in Terminal})
    /\ \E r \in Results(i) :
         LET ended == [status EXCEPT ![i] = r.end]
             skipped == IF r.end = "SUCCEEDED" THEN {}
                        ELSE SkipUnreachable(plan.deps, ended, {i})
         IN  /\ outward' = outward \cup (r.sent \cap Private)
             /\ output' = [output EXCEPT ![i] = IF r.end = "SUCCEEDED" THEN r.text ELSE Empty]
             /\ status' = [j \in Nodes |-> IF j \in skipped THEN "SKIPPED" ELSE ended[j]]
    /\ UNCHANGED <<services, pc, plan, draft, outcome>>

Executed ==
    /\ pc = "execute"
    /\ PendingNodes(status) = {}
    /\ pc' = "synthesize"
    /\ UNCHANGED <<services, plan, status, output, draft, outcome, outward>>

(***************************************************************************)
(* _synthesize() and _llm_fuse(): one step is its own answer, several are  *)
(* fused by the model, or put one after the other without one.             *)
(***************************************************************************)
AllOutputs == Join({output[i] : i \in Succeeded})

Synthesize ==
    /\ pc = "synthesize"
    /\ pc' = "verify"
    /\ IF Cardinality(plan.steps) = 1 \/ AllOutputs = Empty \/ ~Reasoning
         THEN draft' = AllOutputs /\ UNCHANGED outward
         ELSE /\ \E fused \in Outputs :
                   draft' = IF fused = Empty THEN AllOutputs ELSE fused
              /\ \E sent \in Sent(AllOutputs) : outward' = outward \cup (sent \cap Private)
    /\ UNCHANGED <<services, plan, status, output, outcome>>

(***************************************************************************)
(* The verifier.                                                           *)
(***************************************************************************)
IsUserSafe(text) == "marker" \notin text /\ text # Empty

Salvage ==
    LET good == {output[i] : i \in {j \in Succeeded : IsUserSafe(output[j])}} IN
    IF good = {} THEN Fallback ELSE {"partial"} \cup UNION good

ToolOutput == \E i \in Succeeded : plan.tool[i] = "tool" /\ output[i] # Empty

\* round(base * success_ratio * node_conf) against the threshold, in percent.
LowConfidence ==
    LET total == Cardinality(plan.steps)
        done  == Cardinality(Succeeded)
        node  == IF done = 0 THEN 40 ELSE plan.conf
    IN  plan.overall * node * done < Threshold * 100 * total

Rejected(text) == [ok |-> FALSE, shown |-> text]

\* Fault: a step that was timed out does not count as failed.
Verify_IgnoresTimeouts(text, soft) ==
    CASE text = Empty -> Rejected(Fallback)
      [] ~IsUserSafe(text) \/ "artifact" \in text -> Rejected(Salvage)
      [] (\E i \in Failed : status[i] = "FAILED") /\ "claim" \in text -> Rejected(Salvage)
      [] "echo" \in text -> Rejected(Salvage)
      [] soft /\ LowConfidence -> Rejected(Salvage)
      [] OTHER -> [ok |-> TRUE, shown |-> text]

\* soft: the answer lacks the tools' output, or has numbers or URLs of its own.
Verify(text, soft) ==
    CASE text = Empty -> Rejected(Fallback)
      [] ~IsUserSafe(text) \/ "artifact" \in text -> Rejected(Salvage)
      [] Failed # {} /\ "claim" \in text -> Rejected(Salvage)
      [] "echo" \in text -> Rejected(Salvage)
      [] soft /\ LowConfidence -> Rejected(Salvage)
      [] OTHER -> [ok |-> TRUE, shown |-> text]

\* Fault: any answer the verifier rejects sends the goal to the fallback path.
Decide_RejectedIsDeclined(v) ==
    [accepted |-> v.ok, ok |-> v.ok, shown |-> v.shown]

Decide(v) ==
    [accepted |-> v.ok \/ Succeeded # {}, ok |-> v.ok, shown |-> v.shown]

Conclude ==
    /\ pc = "verify"
    /\ \E soft \in IF ToolOutput THEN BOOLEAN ELSE {FALSE} :
         outcome' = Decide(Verify(draft, soft))
    /\ pc' = "done"
    /\ UNCHANGED <<services, plan, status, output, draft, outward>>

PlanNext ==
    \/ Decompose
    \/ \E i \in Nodes : RunNode(i)
    \/ Executed \/ Synthesize \/ Conclude
=============================================================================
