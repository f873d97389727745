----------------------------- MODULE Assistant ------------------------------
(***************************************************************************)
(* Tasks on their way through Orchestrator.route() to the specialists, and *)
(* a goal that JarvisPrimeAgent decomposes into tasks that a wave of the   *)
(* workflow engine runs at once (orchestrator/core.py, agents/planner.py,  *)
(* agents/jarvis_agent.py, agents/response_composer.py,                    *)
(* llm/chat_session.py).  What the handlers do is in Specialists, what a   *)
(* tool call may come to in ToolEngine.  Every await of a service is a     *)
(* step of its own; a ChatSession is shared by all the tasks of its agent. *)
(***************************************************************************)
EXTENDS Handlers, ToolEngine

CONSTANTS
    Table,          \* the handler of each task type: Agents, of Specialists
    MaxSteps,       \* bound: the steps a goal is decomposed into
    NumWorkers,     \* workers of the TaskQueue that route tasks of their own
    MaxToolCalls,   \* bound: the tool calls of one answer of the model
    Offices,        \* the ways main.build_orchestrator() may have set the agents up
    Loads,          \* the tasks and the goal that are handed in
    Wanted,         \* the task types a goal may be decomposed into
    ToolCalls       \* the tool calls a model or a caller may ask for

Steps   == 1..MaxSteps
Workers == (MaxSteps + 1)..(MaxSteps + NumWorkers)
Slots   == Steps \cup Workers

Sessions == {"planner", "veronica", "vision"}
Commands == {"shell", "pytest", "scaffold", "operation", "asked"}
Ended    == {"ok", "failed", "raised"}

\* A handler that makes these calls never goes on after a failed command as if nothing
\* had been.
HeedsCommands(calls) ==
    \A i \in DOMAIN calls : calls[i].to \in Commands => "ignored" \notin calls[i].else

ASSUME AssistantAssumption ==
    /\ MaxSteps \in Nat \ {0}
    /\ NumWorkers \in Nat
    /\ MaxToolCalls \in Nat
    /\ IsFiniteSet(Wanted) /\ Wanted \subseteq DOMAIN Table
    /\ \A t \in DOMAIN Table :
         /\ Table[t].calls \in Seq(Services)
         /\ HeedsCommands(Table[t].calls)
         /\ \A i \in DOMAIN Table[t].calls : Table[t].calls[i].to # "followup"

VARIABLES
    office,     \* backends, libraries and consent (never changes)
    jobs,       \* the tasks that are being routed
    goal,       \* JarvisPrimeAgent's goal
    history     \* the messages of each ChatSession

vars == <<office, jobs, goal, history>>

\* `failed`: the services that a call of this task failed at; but for Unanswered, history.
Job(task, fields) ==
    [task |-> task, fields |-> fields, state |-> "queued", todo |-> <<>>,
     trouble |-> FALSE, failed |-> {}, asked |-> FALSE]

NoJob == [Job("none", {}) EXCEPT !.state = "idle"]

Silence == [tone |-> "none", shown |-> {}]

Init ==
    /\ office \in Offices
    /\ \E load \in Loads :
         /\ jobs = [s \in Slots |->
                      IF s \in Workers /\ load.tasks[s - MaxSteps].task # "none"
                        THEN Job(load.tasks[s - MaxSteps].task, load.tasks[s - MaxSteps].fields)
                        ELSE NoJob]
         /\ goal = [kind |-> load.goal, pc |-> IF load.goal = "none" THEN "idle" ELSE "begin",
                    steps |-> {}, answer |-> Silence]
    /\ history = [c \in Sessions |-> <<>>]

(***************************************************************************)
(* Orchestrator.route() and the agent's handle().                          *)
(***************************************************************************)
Serves(request, fields) == request \cap (fields \cup office.backends) # {}

Made(call, fields) ==
    /\ call.given \subseteq fields
    /\ call.to \in DOMAIN Backend => Backend[call.to] \in office.backends

Enter(job) ==
    IF job.task \notin DOMAIN Table THEN [job EXCEPT !.state = "raised"]
    ELSE LET h == Table[job.task]
         IN  IF \E request \in h.requests : ~Serves(request, job.fields)
               THEN [job EXCEPT !.state = "failed"]
               ELSE [job EXCEPT !.state = "running", !.todo = h.calls]

Route(s) ==
    /\ jobs[s].state = "queued"
    /\ jobs' = [jobs EXCEPT ![s] = Enter(jobs[s])]
    /\ UNCHANGED <<office, goal, history>>

FollowUp == Service("followup", {"ignored", "raises"})

\* The handler waits for the first service of its list.
At(s, services) ==
    /\ jobs[s].state = "running"
    /\ jobs[s].todo # <<>>
    /\ Head(jobs[s].todo).to \in services
    /\ Made(Head(jobs[s].todo), jobs[s].fields)

\* Fault: a success flag that every call overwrites.
Forth_Forgets(job) == [job EXCEPT !.state = "running", !.todo = Tail(job.todo), !.trouble = FALSE]

Forth(job) == [job EXCEPT !.state = "running", !.todo = Tail(job.todo)]

\* A service the agent was built without, or an option the payload lacks.
Skip(s) ==
    /\ jobs[s].state = "running"
    /\ jobs[s].todo # <<>>
    /\ ~Made(Head(jobs[s].todo), jobs[s].fields)
    /\ jobs' = [jobs EXCEPT ![s] = Forth(jobs[s])]
    /\ UNCHANGED <<office, goal, history>>

\* The failure of the call the handler waits for.
AfterFailure(job, how) ==
    LET known == [job EXCEPT !.failed = @ \cup {Head(job.todo).to}] IN
    CASE how = "ignored" -> Forth(known)
      [] how = "decides" -> [Forth(known) EXCEPT !.trouble = TRUE]
      [] how = "fails"   -> [known EXCEPT !.state = "failed"]
      [] how = "raises"  -> [known EXCEPT !.state = "raised"]

Fails(s) ==
    /\ \E how \in Head(jobs[s].todo).else :
         jobs' = [jobs EXCEPT ![s] = AfterFailure(jobs[s], how)]
    /\ UNCHANGED <<office, goal, history>>

\* What the calls of a service are to the tool engine.
Requests ==
    [shell     |-> {Call("shell", {"command"}), Call("shell", {"command", "listed"})},
     pytest    |-> {Call("shell", {"command"})},
     scaffold  |-> {Call("file_system", {"path"})},
     file      |-> {Call("file_system", {"operation", "path", "content"})},
     metric    |-> {Call("system_info", {"metric"})},
     operation |-> ToolCalls,
     toolcall  |-> ToolCalls,
     asked     |-> ToolCalls]

Verdicts(service) ==
    CASE service \in DOMAIN Requests -> UNION {Execute(call, office) : call \in Requests[service]}
      [] service = "upsert" -> {FALSE}
      [] OTHER -> {TRUE, FALSE}

Plain(s) == At(s, Names \ (Sessions \cup {"followup", "append"}))

CallReturns(s) ==
    /\ Plain(s)
    /\ TRUE \in Verdicts(Head(jobs[s].todo).to)
    /\ jobs' = [jobs EXCEPT ![s] = Forth(jobs[s])]
    /\ UNCHANGED <<office, goal, history>>

CallFails(s) ==
    /\ Plain(s)
    /\ FALSE \in Verdicts(Head(jobs[s].todo).to)
    /\ Fails(s)

Report(s) ==
    /\ jobs[s].state = "running"
    /\ jobs[s].todo = <<>>
    /\ jobs' = [jobs EXCEPT ![s].state = IF jobs[s].trouble THEN "failed" ELSE "ok"]
    /\ UNCHANGED <<office, goal, history>>

(***************************************************************************)
(* ChatSession.send(): the question is on record before the model is asked *)
(* and stays there when it fails.                                          *)
(***************************************************************************)
Message(role, s) == [role |-> role, by |-> s]

Ask(s) ==
    /\ At(s, Sessions)
    /\ history' = [history EXCEPT ![Head(jobs[s].todo).to] = Append(@, Message("user", s))]
    /\ jobs' = [jobs EXCEPT ![s].state = "asking", ![s].asked = TRUE]
    /\ UNCHANGED <<office, goal>>

\* The planner's answer may ask for tools; _handle_tool_calls() runs them in turn and
\* asks the model once more.
Answered(s) ==
    /\ jobs[s].state = "asking"
    /\ LET session == Head(jobs[s].todo).to IN
         /\ history' = [history EXCEPT ![session] = Append(@, Message("assistant", s))]
         /\ \E n \in IF session = "planner" /\ "engine" \in office.backends
                       THEN 0..MaxToolCalls ELSE {0} :
              jobs' = [jobs EXCEPT ![s].state = "running",
                          ![s].todo = IF n = 0 THEN Tail(@)
                                      ELSE Times(n, Tries("toolcall")) \o <<FollowUp>> \o Tail(@)]
    /\ UNCHANGED <<office, goal>>

ModelFails(s) == jobs[s].state = "asking" /\ Fails(s)

Assistants(messages) == {i \in DOMAIN messages : messages[i].role = "assistant"}

\* Fault: the last message, whoever wrote it.
ReplaceLastAssistant_AnyRole(messages, s) ==
    IF messages = <<>> THEN messages ELSE [messages EXCEPT ![Len(messages)] = Message("assistant", s)]

ReplaceLastAssistant(messages, s) ==
    LET said == Assistants(messages)
        last == CHOOSE i \in said : \A j \in said : j <= i
    IN  IF said = {} THEN messages ELSE [messages EXCEPT ![last] = Message("assistant", s)]

FollowUpReturns(s) ==
    /\ At(s, {"followup"})
    /\ history' = [history EXCEPT !["planner"] = ReplaceLastAssistant(@, s)]
    /\ jobs' = [jobs EXCEPT ![s] = Forth(jobs[s])]
    /\ UNCHANGED <<office, goal>>

FollowUpFails(s) == At(s, {"followup"}) /\ Fails(s)

\* The answer to a goal of one chunk is empty when the model fails; the parts of several
\* chunks are never empty together, for they have headings.
Unanswered(job) == "piece" \in job.fields /\ "model" \in job.failed

\* append_message() twice, if there is an answer.
AppendBoth(s) ==
    /\ At(s, {"append"})
    /\ IF Unanswered(jobs[s])
         THEN /\ jobs' = [jobs EXCEPT ![s] = Forth(jobs[s])]
              /\ UNCHANGED history
         ELSE /\ jobs' = [jobs EXCEPT ![s] = [Forth(jobs[s]) EXCEPT !.asked = TRUE]]
              /\ history' = [history EXCEPT !["planner"] =
                               @ \o <<Message("user", s), Message("assistant", s)>>]
    /\ UNCHANGED <<office, goal>>

(***************************************************************************)
(* JarvisPrimeAgent.handle(): a greeting is answered at once, a question   *)
(* goes to the planner, a request for a tool to the tool agent, and any    *)
(* other goal is decomposed.  What is recalled of the memory before, and   *)
(* stored after, changes nothing here.                                     *)
(***************************************************************************)
\* The types of _rule_based_decompose().
RuleTypes ==
    {"information.retrieve", "code.generate", "code.review", "security.scan", "test.run",
     "build.compile", "storage.organize", "devops.configure", "web.fetch", "compute.process"}

\* The model may name any; what it names in vain leads to the rules.
Decompositions ==
    {types \in SUBSET (IF "llm" \in office.backends THEN Wanted ELSE Wanted \cap RuleTypes) :
        Cardinality(types) <= MaxSteps}

\* add_step() for each type, with the goal alone as the payload.
Launch(types, fields) ==
    LET n == Cardinality(types)
        order == CHOOSE f \in [1..n -> types] : \A i, j \in 1..n : f[i] = f[j] => i = j
    IN  /\ jobs' = [s \in Slots |-> IF s \in 1..n THEN Job(order[s], fields) ELSE jobs[s]]
        /\ goal' = [goal EXCEPT !.pc = "working", !.steps = 1..n]

\* A goal within the context budget, one beyond it that is one chunk, and one of several.
Lengths == {"short", "piece", "long"}

ToPlanner ==
    /\ \E length \in Lengths :
         jobs' = [jobs EXCEPT ![1] = Job("plan", {"goal", length})]
    /\ goal' = [goal EXCEPT !.pc = "planning", !.steps = {1}]

Answer(tone, shown) == [tone |-> tone, shown |-> shown]

Greet ==
    /\ goal.pc = "begin" /\ goal.kind = "smalltalk"
    /\ goal' = [goal EXCEPT !.pc = "done", !.answer = Answer("canned", {})]
    /\ UNCHANGED <<office, jobs, history>>

Question ==
    /\ goal.pc = "begin" /\ goal.kind = "knowledge"
    /\ ToPlanner
    /\ UNCHANGED <<office, history>>

Decompose ==
    /\ goal.pc = "begin" /\ goal.kind = "process"
    /\ \E types \in Decompositions :
         IF types = {} \/ "workflow" \notin office.backends
           THEN ToPlanner
           ELSE Launch(types, {"goal"})
    /\ UNCHANGED <<office, history>>

\* The routing engine has found no tool in the goal, so the step names none.
ToolExecution ==
    /\ goal.pc = "begin" /\ goal.kind = "tool"
    /\ IF "workflow" \in office.backends
         THEN \E fields \in {{"goal"}, {"goal", "tool_name"}} : Launch({"tool.execute"}, fields)
         ELSE ToPlanner
    /\ UNCHANGED <<office, history>>

\* _process_goal() catches what the planner raises; the other paths do not.
Planned ==
    /\ goal.pc = "planning"
    /\ jobs[1].state \in Ended
    /\ goal' = CASE jobs[1].state # "raised" ->
                      [goal EXCEPT !.pc = "done", !.answer = Answer("reply", {1})]
                 [] goal.kind = "process" -> [goal EXCEPT !.pc = "failed"]
                 [] OTHER -> [goal EXCEPT !.pc = "raised"]
    /\ UNCHANGED <<office, jobs, history>>

\* Fault: the wave is over when one of its steps is.
StepsEnded_One == \E s \in goal.steps : jobs[s].state \in Ended

\* Fault: a step that raised is waited for.
StepsEnded_NotRaised == \A s \in goal.steps : jobs[s].state \in {"ok", "failed"}

\* The engine makes a failed result of a step that raised.
StepsEnded == \A s \in goal.steps : jobs[s].state \in Ended

\* ResponseComposer.merge()
Merged ==
    LET good == {s \in goal.steps : jobs[s].state = "ok"} IN
    CASE good = {} -> {Answer("reasons", {})}
      [] Cardinality(good) = 1 -> {Answer("single", good)}
      [] OTHER -> {Answer("listed", good)} \cup
                  (IF "llm" \in office.backends THEN {Answer("fused", good)} ELSE {})

Merge ==
    /\ goal.pc = "working"
    /\ StepsEnded
    /\ \E answer \in Merged : goal' = [goal EXCEPT !.pc = "done", !.answer = answer]
    /\ UNCHANGED <<office, jobs, history>>

Jarvis == Greet \/ Question \/ Decompose \/ ToolExecution \/ Planned \/ Merge

Advance(s) ==
    \/ Route(s) \/ Skip(s) \/ CallReturns(s) \/ CallFails(s) \/ Report(s)
    \/ Ask(s) \/ Answered(s) \/ ModelFails(s)
    \/ FollowUpReturns(s) \/ FollowUpFails(s) \/ AppendBoth(s)

Next == Jarvis \/ \E s \in Slots : Advance(s)

\* Every call of a service is bounded by a timeout of the service or of the engine, and
\* whoever is asked for consent answers.
Spec == Init /\ [][Next]_vars /\ WF_vars(Jarvis) /\ \A s \in Slots : WF_vars(Advance(s))

(***************************************************************************)
(* Properties.                                                             *)
(***************************************************************************)
\* The jobs, the goal and the sessions keep their types.
TypeOK ==
    /\ \A s \in Slots :
         /\ jobs[s].state \in {"idle", "queued", "running", "asking"} \cup Ended
         /\ jobs[s].trouble \in BOOLEAN /\ jobs[s].asked \in BOOLEAN
    /\ goal.pc \in {"idle", "begin", "planning", "working", "done", "failed", "raised"}
    /\ goal.steps \subseteq Steps
    /\ \A c \in Sessions : \A i \in DOMAIN history[c] :
         history[c][i] \in [role : {"user", "assistant"}, by : Slots]

\* An agent that runs commands reports success only if each command it gave did
\* succeed: of a batch, of a scaffold of many calls, of the test run, and whether it was
\* the user, the whitelist, the arguments or a timeout that stopped it.
HonestCommands ==
    \A s \in Slots : jobs[s].state = "ok" => jobs[s].failed \cap Commands = {}

\* In a session several tasks share, the question of each stays on record, and a message
\* a task wrote as the answer never comes before its question.
QuestionsKept ==
    \A s \in Slots : jobs[s].asked =>
        \E c \in Sessions : \E i \in DOMAIN history[c] :
            /\ history[c][i] = Message("user", s)
            /\ \A j \in DOMAIN history[c] : history[c][j] = Message("assistant", s) => i < j

\* Whatever the order the steps of a goal end in, the answer is made of all that
\* succeeded, and speaks of failure only if none did.
NoSuccessDropped ==
    goal.pc = "done" /\ goal.steps # {} /\ goal.answer.tone # "reply" =>
        LET good == {s \in goal.steps : jobs[s].state = "ok"} IN
        /\ goal.answer.shown = good
        /\ goal.answer.tone = "reasons" <=> good = {}

\* _handle_tool_calls() "overwrites the assistant's initial (empty-content) message in
\* ChatSession history with the final response" (agents/planner.py): a message of the
\* assistant is never replaced by the answer to another task's question.
OverwritesOwn ==
    [][\A c \in Sessions : \A i \in DOMAIN history[c] : history'[c][i].by = history[c][i].by]_vars

\* Every task that is handed in is reported on, and every goal is answered, whichever
\* services fail and whichever specialist raises.
AllReported ==
    /\ \A s \in Slots : jobs[s].state = "queued" ~> jobs[s].state \in Ended
    /\ goal.pc = "begin" ~> goal.pc \in {"done", "failed", "raised"}
=============================================================================
