---------------------------- MODULE AgentProofs -----------------------------
(***************************************************************************)
(* Theorems about the agents: the tasks that the specialists carry out     *)
(* (Assistant), and the agents that keep the user's notes, events,         *)
(* reminders and emails (PersonalStores).                                  *)
(***************************************************************************)
EXTENDS Assistant, PersonalStores, SequenceTheorems, FiniteSetTheorems, TLAPS

(***************************************************************************)
(* HonestCommands for every table of handlers that heeds its commands, and *)
(* every number of tasks, steps and tool calls.  The argument: a task that *)
(* is still under way, or has succeeded, without having noted trouble has  *)
(* failed at no command so far; a failed command is either the end of the  *)
(* task or noted, since none is among the calls to come whose failure may  *)
(* be ignored; and nothing takes the note back.                            *)
(***************************************************************************)
Shaped(job) ==
    job = [task |-> job.task, fields |-> job.fields, state |-> job.state, todo |-> job.todo,
           trouble |-> job.trouble, failed |-> job.failed, asked |-> job.asked]

\* The calls to come are of known services, and heed their commands.
Heeds(job) == job.todo \in Seq(Services) /\ HeedsCommands(job.todo)

Noted(job) == job.failed \cap Commands # {} => job.trouble \/ job.state \in {"failed", "raised"}

Sound(job) ==
    /\ Shaped(job)
    /\ job.trouble \in BOOLEAN
    /\ Heeds(job)
    /\ Noted(job)
    /\ job.state = "ok" => ~job.trouble
    /\ job.state = "asking" => job.todo # <<>>

IInv == jobs = [s \in Slots |-> jobs[s]] /\ \A s \in Slots : Sound(jobs[s])

LEMMA FirstSlot == 1 \in Slots /\ Workers \subseteq Slots
BY AssistantAssumption DEF Slots, Steps, Workers

LEMMA NothingToDo == <<>> \in Seq(Services) /\ HeedsCommands(<<>>)
BY DEF HeedsCommands

\* What one update does to the fields of a task.
LEMMA ShapedJob == ASSUME NEW task, NEW fields PROVE Shaped(Job(task, fields))
BY DEF Job, Shaped

LEMMA StateSet ==
    ASSUME NEW job, Shaped(job), NEW new, NEW state, new = [job EXCEPT !.state = state]
    PROVE  /\ Shaped(new) /\ new.state = state /\ new.todo = job.todo
           /\ new.trouble = job.trouble /\ new.failed = job.failed /\ new.asked = job.asked
BY DEF Shaped

LEMMA FailedSet ==
    ASSUME NEW job, Shaped(job), NEW new, NEW names, new = [job EXCEPT !.failed = names]
    PROVE  /\ Shaped(new) /\ new.state = job.state /\ new.todo = job.todo
           /\ new.trouble = job.trouble /\ new.failed = names /\ new.asked = job.asked
BY DEF Shaped

LEMMA AskedSet ==
    ASSUME NEW job, Shaped(job), NEW new, NEW state,
           new = [job EXCEPT !.state = state, !.asked = TRUE] \/
           (new = [job EXCEPT !.asked = TRUE] /\ state = job.state)
    PROVE  /\ Shaped(new) /\ new.state = state /\ new.todo = job.todo
           /\ new.trouble = job.trouble /\ new.failed = job.failed /\ new.asked = TRUE
BY DEF Shaped

LEMMA TodoSet ==
    ASSUME NEW job, Shaped(job), NEW new, NEW state, NEW todo,
           new = [job EXCEPT !.state = state, !.todo = todo]
    PROVE  /\ Shaped(new) /\ new.state = state /\ new.todo = todo
           /\ new.trouble = job.trouble /\ new.failed = job.failed /\ new.asked = job.asked
BY DEF Shaped

LEMMA ForthSet ==
    ASSUME NEW job, Shaped(job)
    PROVE  /\ Shaped(Forth(job)) /\ Forth(job).state = "running"
           /\ Forth(job).todo = Tail(job.todo)
           /\ Forth(job).trouble = job.trouble /\ Forth(job).failed = job.failed
           /\ Forth(job).asked = job.asked
<1> DEFINE new == Forth(job)
<1>1. new = [job EXCEPT !.state = "running", !.todo = Tail(job.todo)]
    BY DEF Forth
<1> QED
    BY <1>1 DEF Shaped

\* A new task is sound.
LEMMA NewJob == ASSUME NEW task, NEW fields PROVE Sound(Job(task, fields)) /\ Sound(NoJob)
<1>1. /\ Job(task, fields).todo = <<>> /\ Job(task, fields).failed = {}
      /\ Job(task, fields).trouble = FALSE /\ Job(task, fields).state = "queued"
      /\ Shaped(Job(task, fields))
    BY DEF Job, Shaped
<1>2. /\ NoJob.todo = Job("none", {}).todo /\ NoJob.failed = Job("none", {}).failed
      /\ NoJob.trouble = Job("none", {}).trouble /\ NoJob.state = "idle" /\ Shaped(NoJob)
    BY StateSet, ShapedJob DEF NoJob
<1>3. /\ Job("none", {}).todo = <<>> /\ Job("none", {}).failed = {}
      /\ Job("none", {}).trouble = FALSE
    BY DEF Job
<1> QED
    BY <1>1, <1>2, <1>3, NothingToDo DEF Sound, Heeds, Noted

LEMMA TailHeeds ==
    ASSUME NEW calls \in Seq(Services), calls # <<>>, HeedsCommands(calls)
    PROVE  /\ Tail(calls) \in Seq(Services) /\ HeedsCommands(Tail(calls))
           /\ Head(calls) \in Services
           /\ Head(calls).to \in Commands => "ignored" \notin Head(calls).else
<1>1. /\ Head(calls) \in Services /\ Tail(calls) \in Seq(Services)
      /\ Len(Tail(calls)) = Len(calls) - 1
      /\ \A i \in 1..Len(Tail(calls)) : Tail(calls)[i] = calls[i + 1]
    BY HeadTailProperties
<1> QED
    BY <1>1 DEF HeedsCommands

LEMMA ConcatHeeds ==
    ASSUME NEW a \in Seq(Services), NEW b \in Seq(Services), HeedsCommands(a), HeedsCommands(b)
    PROVE  a \o b \in Seq(Services) /\ HeedsCommands(a \o b)
<1>1. /\ a \o b \in Seq(Services) /\ Len(a \o b) = Len(a) + Len(b)
      /\ \A i \in 1..Len(a) + Len(b) :
           (a \o b)[i] = IF i <= Len(a) THEN a[i] ELSE b[i - Len(a)]
    BY ConcatProperties
<1> QED
    BY <1>1 DEF HeedsCommands

\* What the planner adds to its calls when the model asks for tools is no command.
LEMMA FollowUpHeeds ==
    ASSUME NEW n \in Nat
    PROVE  LET calls == Times(n, Tries("toolcall")) \o <<FollowUp>>
           IN  calls \in Seq(Services) /\ HeedsCommands(calls)
<1> DEFINE tools == Times(n, Tries("toolcall"))
<1> DEFINE ways == {"ignored", "decides", "fails", "raises"}
<1>0. {"ignored"} \in SUBSET ways /\ {"ignored", "raises"} \in SUBSET ways /\ {} \in SUBSET STRING
      /\ "toolcall" \in Names /\ "followup" \in Names
    BY DEF Names, Backend
<1>1. Tries("toolcall") \in Services /\ Tries("toolcall").to \notin Commands
  <2>1. Tries("toolcall") = [to |-> "toolcall", else |-> {"ignored"}, given |-> {}]
    BY DEF Tries, Service
  <2> QED
    BY <2>1, <1>0 DEF Services, Commands
<1>2. FollowUp \in Services /\ FollowUp.to \notin Commands
  <2>1. FollowUp = [to |-> "followup", else |-> {"ignored", "raises"}, given |-> {}]
    BY DEF FollowUp, Service
  <2> QED
    BY <2>1, <1>0 DEF Services, Commands
<1>3. tools \in Seq(Services) /\ HeedsCommands(tools)
    BY <1>1 DEF Times, HeedsCommands
<1>4. <<FollowUp>> \in Seq(Services) /\ HeedsCommands(<<FollowUp>>)
    BY <1>2 DEF HeedsCommands
<1> QED
    BY <1>3, <1>4, ConcatHeeds
\* Enough of a step: the slots but one are as before, and that one is sound.
LEMMA OneSlot ==
    ASSUME IInv, NEW s \in Slots, NEW job, Sound(job), jobs' = [jobs EXCEPT ![s] = job]
    PROVE  IInv'
BY DEF IInv

\* The handler moves on to its next call.
LEMMA ForthKeeps ==
    ASSUME NEW job, Sound(job), job.state \in {"running", "asking"}, job.todo # <<>>
    PROVE  Sound(Forth(job))
<1>1. Tail(job.todo) \in Seq(Services) /\ HeedsCommands(Tail(job.todo))
    BY TailHeeds DEF Sound, Heeds
<1> QED
    BY <1>1, ForthSet DEF Sound, Heeds, Noted

\* A call fails: only a call that is no command may be ignored.
LEMMA FailureKeeps ==
    ASSUME NEW job, Sound(job), job.state \in {"running", "asking"}, job.todo # <<>>,
           NEW how \in Head(job.todo).else
    PROVE  Sound(AfterFailure(job, how))
<1> DEFINE names == job.failed \cup {Head(job.todo).to}
           known == [job EXCEPT !.failed = names]
           new == AfterFailure(job, how)
<1> HIDE DEF names
<1>1. /\ Shaped(known) /\ known.state = job.state /\ known.todo = job.todo
      /\ known.trouble = job.trouble /\ known.failed = names
  <2>1. Shaped(job)
    BY DEF Sound
  <2> QED
    BY <2>1, FailedSet
<1>2. /\ Head(job.todo) \in Services
      /\ Head(job.todo).to \in Commands => "ignored" \notin Head(job.todo).else
      /\ Tail(job.todo) \in Seq(Services) /\ HeedsCommands(Tail(job.todo))
    BY TailHeeds DEF Sound, Heeds
<1>3. how \in {"ignored", "decides", "fails", "raises"}
    BY <1>2 DEF Services
<1> HIDE DEF known, new
<1>4. CASE how = "ignored"
  <2>1. new = Forth(known)
    BY <1>4 DEF AfterFailure, new, known, names
  <2>2. Head(job.todo).to \notin Commands
    BY <1>2, <1>4
  <2>3. /\ Shaped(new) /\ new.state = "running" /\ new.todo = Tail(job.todo)
        /\ new.trouble = job.trouble /\ new.failed = names
    BY <2>1, <1>1, ForthSet
  <2> QED
    BY <2>2, <2>3, <1>2 DEF new, names, Sound, Heeds, Noted
<1>5. CASE how = "decides"
  <2>1. new = [Forth(known) EXCEPT !.trouble = TRUE]
    BY <1>5 DEF AfterFailure, new, known, names
  <2>2. /\ Shaped(Forth(known)) /\ Forth(known).state = "running"
        /\ Forth(known).todo = Tail(job.todo)
    BY <1>1, ForthSet
  <2>3. Shaped(new) /\ new.trouble = TRUE /\ new.state = "running" /\ new.todo = Tail(job.todo)
    BY <2>1, <2>2 DEF Shaped
  <2> QED
    BY <2>3, <1>2 DEF new, Sound, Heeds, Noted
<1>6. CASE how = "fails"
  <2>1. new = [known EXCEPT !.state = "failed"]
    BY <1>6 DEF AfterFailure, new, known, names
  <2> QED
    BY <2>1, <1>1, StateSet DEF new, Sound, Heeds, Noted
<1>7. CASE how = "raises"
  <2>1. new = [known EXCEPT !.state = "raised"]
    BY <1>7 DEF AfterFailure, new, known, names
  <2> QED
    BY <2>1, <1>1, StateSet DEF new, Sound, Heeds, Noted
<1> QED
    BY <1>3, <1>4, <1>5, <1>6, <1>7 DEF new

LEMMA InitHolds == Init => IInv
<1> SUFFICES ASSUME Init PROVE IInv
    OBVIOUS
<1>1. PICK load \in Loads :
        jobs = [s \in Slots |->
                  IF s \in Workers /\ load.tasks[s - MaxSteps].task # "none"
                    THEN Job(load.tasks[s - MaxSteps].task, load.tasks[s - MaxSteps].fields)
                    ELSE NoJob]
    BY DEF Init
<1>2. \A s \in Slots : jobs[s] = NoJob \/ \E task, fields : jobs[s] = Job(task, fields)
    BY <1>1
<1>3. \A s \in Slots : Sound(jobs[s])
    BY <1>2, NewJob
<1> QED
    BY <1>1, <1>3 DEF IInv

(***************************************************************************)
(* A step of one task.                                                     *)
(***************************************************************************)
\* route(): the calls a handler makes are those of its table.
LEMMA EnterSets ==
    ASSUME NEW job, Shaped(job)
    PROVE  /\ Shaped(Enter(job)) /\ Enter(job).trouble = job.trouble
           /\ Enter(job).failed = job.failed /\ Enter(job).asked = job.asked
           /\ \/ Enter(job).state \in {"raised", "failed"} /\ Enter(job).todo = job.todo
              \/ /\ Enter(job).state = "running" /\ job.task \in DOMAIN Table
                 /\ Enter(job).todo = Table[job.task].calls
<1> DEFINE new == Enter(job)
           h == Table[job.task]
<1>1. CASE job.task \notin DOMAIN Table
    BY <1>1, StateSet DEF Enter
<1>2. CASE job.task \in DOMAIN Table /\ \E request \in h.requests : ~Serves(request, job.fields)
  <2>1. new = [job EXCEPT !.state = "failed"]
    BY <1>2 DEF Enter
  <2> QED
    BY <2>1, StateSet
<1>3. CASE job.task \in DOMAIN Table /\ ~\E request \in h.requests : ~Serves(request, job.fields)
  <2> DEFINE calls == h.calls
  <2>1. new = [job EXCEPT !.state = "running", !.todo = calls]
    BY <1>3 DEF Enter
  <2> HIDE DEF new, calls
  <2>2. Shaped(new) /\ new.trouble = job.trouble /\ new.failed = job.failed
        /\ new.asked = job.asked /\ new.state = "running" /\ new.todo = calls
    BY <2>1 DEF Shaped
  <2> QED
    BY <2>2, <1>3 DEF calls, new
<1> QED
    BY <1>1, <1>2, <1>3

LEMMA RouteKeeps == ASSUME IInv, NEW s \in Slots, Route(s) PROVE IInv'
<1> DEFINE job == jobs[s]
           new == Enter(job)
<1>1. Sound(job) /\ job.state = "queued" /\ jobs' = [jobs EXCEPT ![s] = new]
    BY DEF Route, IInv
<1>2. Sound(new)
    BY <1>1, EnterSets, AssistantAssumption DEF Sound, Heeds, Noted
<1> QED
    BY <1>1, <1>2, OneSlot

\* A call returns, or is passed over.
LEMMA ReturnKeeps ==
    ASSUME IInv, NEW s \in Slots, jobs[s].state \in {"running", "asking"}, jobs[s].todo # <<>>,
           jobs' = [jobs EXCEPT ![s] = Forth(jobs[s])]
    PROVE  IInv'
<1>1. Sound(jobs[s])
    BY DEF IInv
<1> QED
    BY <1>1, ForthKeeps, OneSlot

LEMMA FailsKeeps ==
    ASSUME IInv, NEW s \in Slots, jobs[s].state \in {"running", "asking"}, jobs[s].todo # <<>>,
           Fails(s)
    PROVE  IInv'
<1>1. PICK how \in Head(jobs[s].todo).else : jobs' = [jobs EXCEPT ![s] = AfterFailure(jobs[s], how)]
    BY DEF Fails
<1>2. Sound(jobs[s])
    BY DEF IInv
<1>3. Sound(AfterFailure(jobs[s], how))
    BY <1>2, FailureKeeps
<1> QED
    BY <1>1, <1>3, OneSlot

LEMMA ReportKeeps == ASSUME IInv, NEW s \in Slots, Report(s) PROVE IInv'
<1> DEFINE job == jobs[s]
           state == IF job.trouble THEN "failed" ELSE "ok"
           new == [job EXCEPT !.state = state]
<1>1. Sound(job) /\ job.state = "running" /\ jobs' = [jobs EXCEPT ![s] = new]
    BY DEF Report, IInv
<1> HIDE DEF state
<1>2. /\ Shaped(new) /\ new.state = state /\ new.todo = job.todo
      /\ new.trouble = job.trouble /\ new.failed = job.failed
    BY <1>1, StateSet DEF Sound
<1>3. Sound(new)
    BY <1>1, <1>2 DEF state, Sound, Heeds, Noted
<1> QED
    BY <1>1, <1>3, OneSlot

LEMMA AskKeeps == ASSUME IInv, NEW s \in Slots, Ask(s) PROVE IInv'
<1> DEFINE job == jobs[s]
           new == [job EXCEPT !.state = "asking", !.asked = TRUE]
<1>1. Sound(job) /\ job.state = "running" /\ job.todo # <<>> /\ jobs' = [jobs EXCEPT ![s] = new]
    BY DEF Ask, At, IInv
<1>2. /\ Shaped(new) /\ new.state = "asking" /\ new.todo = job.todo
      /\ new.trouble = job.trouble /\ new.failed = job.failed
  <2>1. Shaped(job)
    BY <1>1 DEF Sound
  <2>2. new = [job EXCEPT !.state = "asking", !.asked = TRUE]
    OBVIOUS
  <2> HIDE DEF new, job
  <2> QED
    BY <2>1, <2>2 DEF Shaped
<1>3. Sound(new)
    BY <1>1, <1>2 DEF Sound, Heeds, Noted
<1> QED
    BY <1>1, <1>3, OneSlot

LEMMA AppendKeeps == ASSUME IInv, NEW s \in Slots, AppendBoth(s) PROVE IInv'
<1> DEFINE job == jobs[s]
           new == [Forth(job) EXCEPT !.asked = TRUE]
<1>a. CASE Unanswered(job)
    BY <1>a, ReturnKeeps DEF AppendBoth, At
<1>b. SUFFICES ASSUME ~Unanswered(job) PROVE IInv'
    BY <1>a
<1>1. Sound(job) /\ job.state = "running" /\ job.todo # <<>> /\ jobs' = [jobs EXCEPT ![s] = new]
    BY <1>b DEF AppendBoth, At, IInv
<1>2. Sound(Forth(job))
    BY <1>1, ForthKeeps
<1>3. /\ Shaped(new) /\ new.state = Forth(job).state /\ new.todo = Forth(job).todo
      /\ new.trouble = Forth(job).trouble /\ new.failed = Forth(job).failed
  <2>1. Shaped(Forth(job))
    BY <1>2 DEF Sound
  <2> DEFINE next == new
  <2>2. next = [Forth(job) EXCEPT !.asked = TRUE]
    OBVIOUS
  <2> DEFINE prior == Forth(job)
  <2> HIDE DEF next, prior
  <2>3. /\ Shaped(next) /\ next.state = prior.state /\ next.todo = prior.todo
        /\ next.trouble = prior.trouble /\ next.failed = prior.failed
    BY <2>1, <2>2 DEF Shaped, prior
  <2> QED
    BY <2>3 DEF next, prior
<1>4. Sound(new)
    BY <1>2, <1>3 DEF Sound, Heeds, Noted
<1> QED
    BY <1>1, <1>4, OneSlot

\* The model's answer: the tools it asks for come before the rest of the calls.
LEMMA AnsweredKeeps == ASSUME IInv, NEW s \in Slots, Answered(s) PROVE IInv'
<1> DEFINE job == jobs[s]
           tools(n) == Times(n, Tries("toolcall")) \o <<FollowUp>>
           todo(n) == IF n = 0 THEN Tail(job.todo) ELSE tools(n) \o Tail(job.todo)
           new(n) == [job EXCEPT !.state = "running", !.todo = todo(n)]
<1>1. Sound(job) /\ job.state = "asking" /\ job.todo # <<>>
    BY DEF Answered, IInv, Sound
<1>2. PICK n \in 0..MaxToolCalls : jobs' = [jobs EXCEPT ![s].state = "running",
        ![s].todo = IF n = 0 THEN Tail(@)
                    ELSE Times(n, Tries("toolcall")) \o <<FollowUp>> \o Tail(@)]
  <2>1. {0} \subseteq 0..MaxToolCalls
    BY AssistantAssumption
  <2> QED
    BY <2>1, Zenon DEF Answered
<1>3. Tail(job.todo) \in Seq(Services) /\ HeedsCommands(Tail(job.todo))
    BY <1>1, TailHeeds DEF Sound, Heeds
<1>4. todo(n) \in Seq(Services) /\ HeedsCommands(todo(n))
  <2>1. n \in Nat
    BY AssistantAssumption
  <2>2. tools(n) \in Seq(Services) /\ HeedsCommands(tools(n))
    BY <2>1, FollowUpHeeds
  <2> HIDE DEF tools
  <2>3. tools(n) \o Tail(job.todo) \in Seq(Services) /\ HeedsCommands(tools(n) \o Tail(job.todo))
    BY <2>2, <1>3, ConcatHeeds
  <2> QED
    BY <2>3, <1>3
<1>5. jobs' = [jobs EXCEPT ![s] = new(n)]
    BY <1>2 DEF IInv
<1> HIDE DEF todo
<1>6. /\ Shaped(new(n)) /\ new(n).state = "running" /\ new(n).todo = todo(n)
      /\ new(n).trouble = job.trouble /\ new(n).failed = job.failed
  <2>1. Shaped(job)
    BY <1>1 DEF Sound
  <2> DEFINE next == new(n)
  <2>2. next = [job EXCEPT !.state = "running", !.todo = todo(n)]
    OBVIOUS
  <2> HIDE DEF next, job
  <2>3. /\ Shaped(next) /\ next.state = "running" /\ next.todo = todo(n)
        /\ next.trouble = job.trouble /\ next.failed = job.failed
    BY <2>1, <2>2 DEF Shaped
  <2> QED
    BY <2>3 DEF next
<1>7. Sound(new(n))
    BY <1>1, <1>4, <1>6 DEF Sound, Heeds, Noted
<1> QED
    BY <1>5, <1>7, OneSlot

LEMMA AdvanceKeeps == ASSUME IInv, NEW s \in Slots, Advance(s) PROVE IInv'
<1>1. CASE Route(s)
    BY <1>1, RouteKeeps
<1>2. CASE Skip(s) \/ CallReturns(s) \/ FollowUpReturns(s)
    BY <1>2, ReturnKeeps DEF Skip, CallReturns, Plain, FollowUpReturns, At
<1>3. CASE CallFails(s) \/ FollowUpFails(s)
    BY <1>3, FailsKeeps DEF CallFails, Plain, FollowUpFails, At
<1>4. CASE ModelFails(s)
    BY <1>4, FailsKeeps DEF ModelFails, IInv, Sound
<1>5. CASE Report(s)
    BY <1>5, ReportKeeps
<1>6. CASE Ask(s)
    BY <1>6, AskKeeps
<1>7. CASE Answered(s)
    BY <1>7, AnsweredKeeps
<1>8. CASE AppendBoth(s)
    BY <1>8, AppendKeeps
<1> QED
    BY <1>1, <1>2, <1>3, <1>4, <1>5, <1>6, <1>7, <1>8 DEF Advance

(***************************************************************************)
(* A step of the goal only adds new tasks.                                 *)
(***************************************************************************)
LEMMA ToPlannerKeeps == ASSUME IInv, ToPlanner PROVE IInv'
<1>1. PICK length : jobs' = [jobs EXCEPT ![1] = Job("plan", {"goal", length})]
    BY DEF ToPlanner
<1> QED
    BY <1>1, NewJob, OneSlot, FirstSlot

LEMMA LaunchKeeps == ASSUME IInv, NEW types, NEW fields, Launch(types, fields) PROVE IInv'
<1> DEFINE n == Cardinality(types)
           order == CHOOSE f \in [1..n -> types] : \A i, j \in 1..n : f[i] = f[j] => i = j
<1>1. jobs' = [s \in Slots |-> IF s \in 1..n THEN Job(order[s], fields) ELSE jobs[s]]
    BY DEF Launch
<1> HIDE DEF n, order
<1>2. \A s \in Slots : Sound(jobs'[s])
    BY <1>1, NewJob DEF IInv
<1> QED
    BY <1>1, <1>2 DEF IInv

LEMMA JarvisKeeps == ASSUME IInv, Jarvis PROVE IInv'
<1>1. CASE Greet \/ Planned \/ Merge
    BY <1>1 DEF Greet, Planned, Merge, IInv
<1>2. CASE Question
    BY <1>2, ToPlannerKeeps DEF Question
<1>3. CASE Decompose
    BY <1>3, ToPlannerKeeps, LaunchKeeps DEF Decompose
<1>4. CASE ToolExecution
    BY <1>4, ToPlannerKeeps, LaunchKeeps DEF ToolExecution
<1> QED
    BY <1>1, <1>2, <1>3, <1>4 DEF Jarvis

LEMMA NextKeeps == IInv /\ [Next]_vars => IInv'
<1>1. ASSUME IInv, UNCHANGED vars PROVE IInv'
    BY <1>1 DEF IInv, vars
<1> QED
    BY <1>1, AdvanceKeeps, JarvisKeeps DEF Next

LEMMA Invariant == Spec => []IInv
BY InitHolds, NextKeeps, PTL DEF Spec

\* A task that reports success failed at no command it gave: for every table of handlers
\* none of which passes over a failed command, whatever else its handlers call, however
\* many tasks share the services, and whatever the model and the callers ask for.
THEOREM HonestReports == Spec => []HonestCommands
<1>1. IInv => HonestCommands
    BY DEF IInv, Sound, Noted, HonestCommands
<1> QED
    BY <1>1, Invariant, PTL

(***************************************************************************)
(* The answer to a goal: it is made when the steps have ended, and nothing *)
(* touches a task that has ended.                                          *)
(***************************************************************************)
Good == {s \in goal.steps : jobs[s].state = "ok"}

Told ==
    goal.pc = "done" /\ goal.steps # {} /\ goal.answer.tone # "reply" =>
        /\ StepsEnded
        /\ goal.answer.shown = Good
        /\ goal.answer.tone = "reasons" <=> Good = {}

GoalInv ==
    /\ goal = [kind |-> goal.kind, pc |-> goal.pc, steps |-> goal.steps, answer |-> goal.answer]
    /\ goal.steps \subseteq Slots
    /\ goal.pc = "begin" => goal.steps = {}
    /\ Told

LEMMA GoalInit == Init => GoalInv
BY DEF Init, GoalInv, Told

\* A task that has ended stays as it is.
LEMMA EndedStays ==
    ASSUME IInv, NEW s \in Slots, Advance(s), NEW t \in Slots, jobs[t].state \in Ended
    PROVE  jobs'[t] = jobs[t]
<1>1. jobs[s].state \in {"queued", "running", "asking"}
    BY DEF Advance, Route, Skip, CallReturns, CallFails, Plain, Report, Ask, Answered, ModelFails,
           FollowUpReturns, FollowUpFails, AppendBoth, At
<1>2. s # t
    BY <1>1 DEF Ended
<1>3. \A u \in Slots \ {s} : jobs'[u] = jobs[u]
    BY DEF IInv, Advance, Route, Skip, CallReturns, CallFails, Fails, Report, Ask, Answered,
           ModelFails, FollowUpReturns, FollowUpFails, AppendBoth
<1> QED
    BY <1>2, <1>3

LEMMA AdvanceTells == ASSUME IInv, GoalInv, NEW s \in Slots, Advance(s) PROVE GoalInv'
<1>1. goal' = goal
    BY DEF Advance, Route, Skip, CallReturns, CallFails, Fails, Report, Ask, Answered, ModelFails,
           FollowUpReturns, FollowUpFails, AppendBoth
<1>2. ASSUME StepsEnded PROVE StepsEnded' /\ Good' = Good
    BY <1>1, <1>2, EndedStays DEF GoalInv, StepsEnded, Good
<1> QED
    BY <1>1, <1>2 DEF GoalInv, Told

\* A wave has no more steps than there are slots.
LEMMA LaunchTells ==
    ASSUME GoalInv, NEW types, IsFiniteSet(types), Cardinality(types) <= MaxSteps,
           NEW fields, Launch(types, fields)
    PROVE  GoalInv'
<1> DEFINE n == Cardinality(types)
<1>1. n \in Nat
    BY FS_CardinalityType
<1>2. goal' = [goal EXCEPT !.pc = "working", !.steps = 1..n]
    BY DEF Launch
<1> HIDE DEF n
<1>3. 1..n \subseteq Slots
    BY <1>1, AssistantAssumption DEF n, Slots, Steps
<1>4. /\ goal' = [kind |-> goal'.kind, pc |-> goal'.pc, steps |-> goal'.steps, answer |-> goal'.answer]
      /\ goal'.pc = "working" /\ goal'.steps = 1..n
    BY <1>2 DEF GoalInv
<1> QED
    BY <1>3, <1>4 DEF GoalInv, Told

LEMMA MergeTells == ASSUME GoalInv, Merge PROVE GoalInv'
<1>1. PICK answer \in Merged : goal' = [goal EXCEPT !.pc = "done", !.answer = answer]
    BY DEF Merge
<1>2. answer.shown = Good /\ (answer.tone = "reasons" <=> Good = {})
  <2>1. CASE Good = {}
    <3>1. answer = Answer("reasons", {})
      BY <1>1, <2>1, FS_EmptySet DEF Merged, Good
    <3> QED
      BY <3>1, <2>1 DEF Answer
  <2>2. CASE Good # {}
    <3>1. answer \in {Answer("single", Good), Answer("listed", Good), Answer("fused", Good)}
      BY <1>1, <2>2 DEF Merged, Good
    <3> QED
      BY <3>1, <2>2 DEF Answer
  <2> QED
    BY <2>1, <2>2
<1>3. /\ goal' = [kind |-> goal'.kind, pc |-> goal'.pc, steps |-> goal'.steps, answer |-> goal'.answer]
      /\ goal'.pc = "done" /\ goal'.steps = goal.steps /\ goal'.answer = answer
    BY <1>1 DEF GoalInv
<1>4. StepsEnded' /\ Good' = Good
    BY <1>3 DEF Merge, StepsEnded, Good
<1> QED
    BY <1>2, <1>3, <1>4 DEF GoalInv, Told

\* What the end of a goal does to its fields.
LEMMA GoalSet ==
    ASSUME GoalInv, NEW pc, NEW answer,
           goal' = [goal EXCEPT !.pc = pc, !.answer = answer] \/
           (goal' = [goal EXCEPT !.pc = pc] /\ answer = goal.answer)
    PROVE  /\ goal' = [kind |-> goal'.kind, pc |-> goal'.pc, steps |-> goal'.steps, answer |-> goal'.answer]
           /\ goal'.pc = pc /\ goal'.steps = goal.steps /\ goal'.answer = answer
BY DEF GoalInv

LEMMA OtherTells == ASSUME GoalInv, Greet \/ Planned \/ ToPlanner PROVE GoalInv'
<1>1. CASE Greet
    BY <1>1 DEF Greet, GoalInv, Told
<1>2. CASE Planned
  <2> DEFINE said == Answer("reply", {1})
  <2>1. said.tone = "reply"
    BY DEF Answer
  <2> HIDE DEF said
  <2>2. \/ goal' = [goal EXCEPT !.pc = "done", !.answer = said]
        \/ goal' = [goal EXCEPT !.pc = "failed"] \/ goal' = [goal EXCEPT !.pc = "raised"]
    BY <1>2 DEF Planned, said
  <2>3. CASE goal' = [goal EXCEPT !.pc = "done", !.answer = said]
    BY <2>1, <2>3, GoalSet DEF GoalInv, Told
  <2>4. CASE goal' = [goal EXCEPT !.pc = "failed"]
    BY <2>4, GoalSet DEF GoalInv, Told
  <2>5. CASE goal' = [goal EXCEPT !.pc = "raised"]
    BY <2>5, GoalSet DEF GoalInv, Told
  <2> QED
    BY <2>2, <2>3, <2>4, <2>5
<1>3. CASE ToPlanner
    BY <1>3, FirstSlot DEF ToPlanner, GoalInv, Told
<1> QED
    BY <1>1, <1>2, <1>3

LEMMA JarvisTells == ASSUME GoalInv, Jarvis PROVE GoalInv'
<1>1. CASE Greet \/ Planned \/ Question
    BY <1>1, OtherTells DEF Question
<1>2. CASE Decompose
  <2>1. \A types \in Decompositions : IsFiniteSet(types) /\ Cardinality(types) <= MaxSteps
    BY AssistantAssumption, FS_Subset DEF Decompositions
  <2> QED
    BY <1>2, <2>1, OtherTells, LaunchTells DEF Decompose
<1>3. CASE ToolExecution
  <2>1. IsFiniteSet({"tool.execute"}) /\ Cardinality({"tool.execute"}) = 1
    BY FS_Singleton
  <2> QED
    BY <1>3, <2>1, OtherTells, LaunchTells, AssistantAssumption DEF ToolExecution
<1>4. CASE Merge
    BY <1>4, MergeTells
<1> QED
    BY <1>1, <1>2, <1>3, <1>4 DEF Jarvis

LEMMA GoalNext == IInv /\ GoalInv /\ [Next]_vars => GoalInv'
<1>1. ASSUME GoalInv, UNCHANGED vars PROVE GoalInv'
    BY <1>1 DEF GoalInv, Told, StepsEnded, Good, vars
<1> QED
    BY <1>1, AdvanceTells, JarvisTells DEF Next

\* The answer to a goal is made of all its steps that succeeded, in whatever order they
\* ended: for every number of steps, and every behaviour of the specialists.
THEOREM AnswersAreComplete == Spec => []NoSuccessDropped
<1>1. GoalInv => NoSuccessDropped
    BY DEF GoalInv, Told, Good, NoSuccessDropped
<1> QED
    BY <1>1, Invariant, GoalInit, GoalNext, PTL DEF Spec
-----------------------------------------------------------------------------

-----------------------------------------------------------------------------
(***************************************************************************)
(* The sessions that tasks share.  In each of them a task has either left  *)
(* no message, or a question that comes before all it wrote as an answer.  *)
(* A task that waits for the model has its question in that session; one   *)
(* that will replace the last answer of the planner's session has put its  *)
(* question before some answer, and so before the last.                    *)
(***************************************************************************)
Messages == [role : {"user", "assistant"}, by : Slots]

Asks(m, s, i) ==
    /\ m[i] = Message("user", s)
    /\ \A j \in DOMAIN m : m[j] = Message("assistant", s) => i < j

OnRecord(m, s) == \E i \in DOMAIN m : Asks(m, s, i)
Unheard(m, s)  == \A i \in DOMAIN m : m[i].by # s
Followed(m, s) ==
    \E i \in DOMAIN m : Asks(m, s, i) /\ \E k \in DOMAIN m : i < k /\ m[k].role = "assistant"

\* Nothing of what a session holds of a task is lost.
Keeps(m, n, s) ==
    /\ OnRecord(m, s) => OnRecord(n, s)
    /\ Unheard(m, s) => Unheard(n, s) \/ OnRecord(n, s)
    /\ Followed(m, s) => Followed(n, s)

Preserves(m, n) == n \in Seq(Messages) /\ \A s \in Slots : Keeps(m, n, s)

\* A call that is to come is made only by a task that has asked the planner.
ToFollow(job) == \E i \in DOMAIN job.todo : job.todo[i].to = "followup"

Recorded(s) ==
    /\ jobs[s].asked => \E c \in Sessions : OnRecord(history[c], s)
    /\ jobs[s].state = "asking" =>
         Head(jobs[s].todo).to \in Sessions /\ OnRecord(history[Head(jobs[s].todo).to], s)
    /\ ToFollow(jobs[s]) => Followed(history["planner"], s)

QuestionInv ==
    /\ history \in [Sessions -> Seq(Messages)]
    /\ \A c \in Sessions, s \in Slots : Unheard(history[c], s) \/ OnRecord(history[c], s)
    /\ \A s \in Slots : Recorded(s)

LEMMA MessagesDiffer ==
    ASSUME NEW s, NEW t
    PROVE  /\ Message("user", s) # Message("assistant", t)
           /\ s # t => /\ Message("user", s) # Message("user", t)
                      /\ Message("assistant", s) # Message("assistant", t)
           /\ Message("user", s).by = s /\ Message("assistant", s).by = s
           /\ Message("user", s).role = "user" /\ Message("assistant", s).role = "assistant"
           /\ s \in Slots => Message("user", s) \in Messages /\ Message("assistant", s) \in Messages
BY DEF Message, Messages

\* A question is put on record; nothing is lost of the others.
LEMMA QuestionAdded ==
    ASSUME NEW m \in Seq(Messages), NEW s \in Slots, Unheard(m, s) \/ OnRecord(m, s),
           NEW n, n = Append(m, Message("user", s))
    PROVE  Preserves(m, n) /\ OnRecord(n, s)
<1>1. /\ n \in Seq(Messages) /\ Len(m) \in Nat /\ Len(n) = Len(m) + 1
      /\ DOMAIN m = 1..Len(m) /\ DOMAIN n = 1..Len(n)
      /\ \A i \in 1..Len(m) : n[i] = m[i]
      /\ n[Len(n)] = Message("user", s)
  BY MessagesDiffer
<1>2. \A t \in Slots, i \in DOMAIN m : Asks(m, t, i) => Asks(n, t, i)
  BY <1>1, MessagesDiffer DEF Asks
<1>3. \A t \in Slots : OnRecord(m, t) => OnRecord(n, t)
  BY <1>1, <1>2 DEF OnRecord
<1>4. \A t \in Slots : Followed(m, t) => Followed(n, t)
  BY <1>1, <1>2 DEF Followed
<1>5. Unheard(m, s) => OnRecord(n, s)
  <2> SUFFICES ASSUME Unheard(m, s) PROVE Asks(n, s, Len(n))
    BY <1>1 DEF OnRecord
  <2> QED BY <1>1, MessagesDiffer DEF Unheard, Asks
<1>6. \A t \in Slots : t # s /\ Unheard(m, t) => Unheard(n, t)
  BY <1>1, MessagesDiffer DEF Unheard
<1> QED BY <1>1, <1>3, <1>4, <1>5, <1>6 DEF Preserves, Keeps

\* An answer comes after the question.
LEMMA AnswerAdded ==
    ASSUME NEW m \in Seq(Messages), NEW s \in Slots, OnRecord(m, s),
           NEW n, n = Append(m, Message("assistant", s))
    PROVE  Preserves(m, n) /\ Followed(n, s)
<1>1. /\ n \in Seq(Messages) /\ Len(m) \in Nat /\ Len(n) = Len(m) + 1
      /\ DOMAIN m = 1..Len(m) /\ DOMAIN n = 1..Len(n)
      /\ \A i \in 1..Len(m) : n[i] = m[i]
      /\ n[Len(n)] = Message("assistant", s)
  BY MessagesDiffer
<1>2. \A t \in Slots, i \in DOMAIN m : Asks(m, t, i) => Asks(n, t, i)
  BY <1>1 DEF Asks
<1>3. \A t \in Slots : OnRecord(m, t) => OnRecord(n, t)
  BY <1>1, <1>2 DEF OnRecord
<1>4. \A t \in Slots : Followed(m, t) => Followed(n, t)
  BY <1>1, <1>2 DEF Followed
<1>5. Followed(n, s)
  <2>1. PICK i \in DOMAIN m : Asks(m, s, i)
    BY DEF OnRecord
  <2>2. i \in DOMAIN n /\ Asks(n, s, i) /\ Len(n) \in DOMAIN n /\ i < Len(n)
    BY <1>1, <1>2, <2>1
  <2> QED BY <1>1, <2>2, MessagesDiffer DEF Followed
<1>6. \A t \in Slots : t # s /\ Unheard(m, t) => Unheard(n, t)
  BY <1>1, MessagesDiffer DEF Unheard
<1> QED BY <1>1, <1>3, <1>4, <1>5, <1>6 DEF Preserves, Keeps

\* A set of indices has a greatest one.
LEMMA GreatestIndex ==
    ASSUME NEW n \in Nat, NEW T \in SUBSET (1..n), T # {}
    PROVE  \E i \in T : \A j \in T : j <= i
<1> DEFINE R == StrictSubsetOrdering(Nat)
           I == {i..n : i \in T}
<1>1. IsWellFoundedOn(R, FiniteSubsetsOf(Nat))
  BY FS_StrictSubsetOrderingWellFounded
<1>2. I \subseteq FiniteSubsetsOf(Nat) /\ I # {}
  <2>1. \A i \in T : i..n \in SUBSET Nat /\ IsFiniteSet(i..n)
    BY FS_Interval
  <2> QED BY <2>1 DEF FiniteSubsetsOf
<1>3. PICK x \in I : \A y \in I : ~(<<y, x>> \in R)
  <2> HIDE DEF R, I
  <2> QED BY <1>1, <1>2, WFMin
<1>4. PICK i \in T : x = i..n
  OBVIOUS
<1>5. ASSUME NEW j \in T, i < j PROVE FALSE
  <2>1. /\ j..n \in SUBSET Nat /\ i..n \in SUBSET Nat /\ j..n \subseteq i..n
        /\ i \in i..n /\ i \notin j..n
    BY <1>5
  <2>2. <<j..n, i..n>> \in StrictSubsetOrdering(Nat)
    BY <2>1 DEF StrictSubsetOrdering
  <2> QED BY <1>3, <1>4, <2>2
<1> QED BY <1>5

\* The last answer in a session is replaced: what it replaces is no question, and it
\* comes after the question of the task that replaces it.
LEMMA AnswerReplaced ==
    ASSUME NEW m \in Seq(Messages), NEW s \in Slots, Followed(m, s)
    PROVE  Preserves(m, ReplaceLastAssistant(m, s))
<1> DEFINE last == CHOOSE i \in Assistants(m) : \A j \in Assistants(m) : j <= i
           n == [m EXCEPT ![last] = Message("assistant", s)]
<1>1. PICK q \in DOMAIN m :
        Asks(m, s, q) /\ \E k \in DOMAIN m : q < k /\ m[k].role = "assistant"
  BY DEF Followed
<1>2. PICK k \in Assistants(m) : q < k
  BY <1>1 DEF Assistants
<1>3. Len(m) \in Nat /\ DOMAIN m = 1..Len(m)
  OBVIOUS
<1>4. Assistants(m) \in SUBSET (1..Len(m))
  BY <1>3 DEF Assistants
<1>5. \E i \in Assistants(m) : \A j \in Assistants(m) : j <= i
  BY <1>2, <1>3, <1>4, GreatestIndex
<1>6. last \in Assistants(m) /\ k <= last
  BY <1>2, <1>5
<1>7. ReplaceLastAssistant(m, s) = n
  BY <1>2 DEF ReplaceLastAssistant
<1> HIDE DEF last
<1>8. last \in DOMAIN m /\ m[last].role = "assistant" /\ q < last
  BY <1>1, <1>2, <1>3, <1>4, <1>6 DEF Assistants
<1>9. /\ n \in Seq(Messages) /\ DOMAIN n = DOMAIN m
      /\ n[last] = Message("assistant", s)
      /\ \A i \in DOMAIN m \ {last} : n[i] = m[i]
  BY <1>3, <1>8, MessagesDiffer, ExceptSeq
<1> HIDE DEF n
<1>10. \A i \in DOMAIN m : m[i].role = "assistant" => n[i].role = "assistant"
  BY <1>9, MessagesDiffer
<1>11. \A t \in Slots \ {s}, i \in DOMAIN m : Asks(m, t, i) => Asks(n, t, i)
  <2> SUFFICES ASSUME NEW t \in Slots \ {s}, NEW i \in DOMAIN m, Asks(m, t, i)
               PROVE  Asks(n, t, i)
    OBVIOUS
  <2>1. i # last
    BY <1>8, MessagesDiffer DEF Asks
  <2>2. \A j \in DOMAIN n : n[j] = Message("assistant", t) => m[j] = Message("assistant", t)
    BY <1>9, MessagesDiffer
  <2> QED BY <1>9, <2>1, <2>2 DEF Asks
<1>12. \A i \in DOMAIN m : i < last /\ Asks(m, s, i) => Asks(n, s, i)
  BY <1>3, <1>8, <1>9 DEF Asks
<1>13. Asks(n, s, q) /\ Followed(n, s) /\ OnRecord(n, s)
  BY <1>1, <1>8, <1>9, <1>12, MessagesDiffer DEF Followed, OnRecord
<1>14. ASSUME NEW t \in Slots \ {s} PROVE Keeps(m, n, t)
  <2>1. OnRecord(m, t) => OnRecord(n, t)
    BY <1>9, <1>11 DEF OnRecord
  <2>2. Followed(m, t) => Followed(n, t)
    BY <1>9, <1>10, <1>11 DEF Followed
  <2>3. Unheard(m, t) => Unheard(n, t)
    BY <1>9, MessagesDiffer DEF Unheard
  <2> QED BY <2>1, <2>2, <2>3 DEF Keeps
<1> QED BY <1>7, <1>9, <1>13, <1>14 DEF Preserves, Keeps

LEMMA PreservesItself == ASSUME NEW m \in Seq(Messages) PROVE Preserves(m, m)
BY DEF Preserves, Keeps

LEMMA PreservesOn ==
    ASSUME NEW m, NEW n, NEW l, Preserves(m, n), Preserves(n, l), NEW t \in Slots,
           Unheard(m, t) \/ OnRecord(m, t)
    PROVE  Keeps(m, l, t)
BY DEF Preserves, Keeps

\* Enough of a step of one task: it keeps what the sessions hold, and the task itself
\* is on record.
LEMMA OneTask ==
    ASSUME QuestionInv, IInv, NEW s \in Slots, NEW new, jobs' = [jobs EXCEPT ![s] = new],
           history' \in [Sessions -> Seq(Messages)],
           \A c \in Sessions, t \in Slots : Keeps(history[c], history'[c], t),
           Recorded(s)'
    PROVE  QuestionInv'
<1>1. \A c \in Sessions, t \in Slots : (Unheard(history[c], t) \/ OnRecord(history[c], t))'
  BY DEF QuestionInv, Keeps
<1>2. ASSUME NEW t \in Slots \ {s} PROVE Recorded(t)'
  <2>1. jobs'[t] = jobs[t] /\ Recorded(t)
    BY DEF IInv, QuestionInv
  <2>2. "planner" \in Sessions
    BY DEF Sessions
  <2> QED BY <2>1, <2>2 DEF Recorded, Keeps, ToFollow
<1> QED BY <1>1, <1>2 DEF QuestionInv

\* A step that leaves the sessions alone, and adds no call that is to follow an answer.
LEMMA MovesOn ==
    ASSUME QuestionInv, IInv, NEW s \in Slots, NEW new, jobs' = [jobs EXCEPT ![s] = new],
           history' = history, new.asked = jobs[s].asked, new.state # "asking",
           ToFollow(new) => ToFollow(jobs[s])
    PROVE  QuestionInv'
<1>1. jobs'[s] = new
  BY DEF IInv
<1>2. Recorded(s)'
  BY <1>1 DEF QuestionInv, Recorded, ToFollow
<1>3. \A c \in Sessions, t \in Slots : Keeps(history[c], history'[c], t)
  BY DEF Keeps
<1>4. history' \in [Sessions -> Seq(Messages)]
  BY DEF QuestionInv
<1> QED BY <1>2, <1>3, <1>4, OneTask

\* What is left of the calls has none that was not there.
LEMMA LessToFollow ==
    ASSUME NEW job, NEW new, job.todo \in Seq(Services), job.todo # <<>>,
           new.todo = Tail(job.todo) \/ new.todo = job.todo, ToFollow(new)
    PROVE  ToFollow(job)
<1>1. /\ Tail(job.todo) \in Seq(Services) /\ Len(Tail(job.todo)) = Len(job.todo) - 1
      /\ \A i \in 1..Len(Tail(job.todo)) : Tail(job.todo)[i] = job.todo[i + 1]
  BY HeadTailProperties
<1>2. CASE new.todo = Tail(job.todo)
  <2>1. PICK i \in DOMAIN new.todo : new.todo[i].to = "followup"
    BY DEF ToFollow
  <2>2. i + 1 \in DOMAIN job.todo /\ job.todo[i + 1].to = "followup"
    BY <1>1, <1>2, <2>1
  <2> QED BY <2>2 DEF ToFollow
<1> QED BY <1>2 DEF ToFollow

LEMMA FailureSets ==
    ASSUME NEW job, Sound(job), job.state \in {"running", "asking"}, job.todo # <<>>,
           NEW how \in Head(job.todo).else
    PROVE  LET new == AfterFailure(job, how)
           IN  /\ new.asked = job.asked /\ new.state # "asking"
               /\ new.todo = Tail(job.todo) \/ new.todo = job.todo
<1> DEFINE names == job.failed \cup {Head(job.todo).to}
           known == [job EXCEPT !.failed = names]
           new == AfterFailure(job, how)
<1> HIDE DEF names
<1>1. /\ Shaped(known) /\ known.state = job.state /\ known.todo = job.todo
      /\ known.asked = job.asked
  BY FailedSet DEF Sound
<1>2. how \in {"ignored", "decides", "fails", "raises"}
  BY TailHeeds DEF Services, Sound, Heeds
<1> HIDE DEF known, new
<1>3. CASE how = "ignored"
  BY <1>1, <1>3, ForthSet DEF AfterFailure, new, known, names
<1>4. CASE how = "decides"
  <2>1. new = [Forth(known) EXCEPT !.trouble = TRUE]
    BY <1>4 DEF AfterFailure, new, known, names
  <2>2. /\ Shaped(Forth(known)) /\ Forth(known).state = "running"
        /\ Forth(known).todo = Tail(job.todo) /\ Forth(known).asked = job.asked
    BY <1>1, ForthSet
  <2>3. new.asked = job.asked /\ new.state = "running" /\ new.todo = Tail(job.todo)
    BY <2>1, <2>2 DEF Shaped
  <2> QED BY <2>3 DEF new
<1>5. CASE how \in {"fails", "raises"}
  <2>1. \E state \in {"failed", "raised"} : new = [known EXCEPT !.state = state]
    BY <1>5 DEF AfterFailure, new, known, names
  <2>2. new.asked = job.asked /\ new.state # "asking" /\ new.todo = job.todo
    BY <1>1, <2>1, StateSet
  <2> QED BY <2>2 DEF new
<1> QED BY <1>2, <1>3, <1>4, <1>5 DEF new

LEMMA FailsRecorded ==
    ASSUME QuestionInv, IInv, NEW s \in Slots, jobs[s].state \in {"running", "asking"},
           jobs[s].todo # <<>>, Fails(s)
    PROVE  QuestionInv'
<1>1. PICK how \in Head(jobs[s].todo).else : jobs' = [jobs EXCEPT ![s] = AfterFailure(jobs[s], how)]
  BY DEF Fails
<1>2. Sound(jobs[s]) /\ history' = history
  BY DEF IInv, Fails
<1> DEFINE new == AfterFailure(jobs[s], how)
<1>3. /\ new.asked = jobs[s].asked /\ new.state # "asking"
      /\ new.todo = Tail(jobs[s].todo) \/ new.todo = jobs[s].todo
  BY <1>2, FailureSets
<1> HIDE DEF new
<1>4. ToFollow(new) => ToFollow(jobs[s])
  BY <1>2, <1>3, LessToFollow DEF Sound, Heeds
<1> QED BY <1>1, <1>2, <1>3, <1>4, MovesOn DEF new

LEMMA RouteRecorded == ASSUME QuestionInv, IInv, NEW s \in Slots, Route(s) PROVE QuestionInv'
<1> DEFINE new == Enter(jobs[s])
<1>1. jobs' = [jobs EXCEPT ![s] = new] /\ history' = history /\ Shaped(jobs[s])
  BY DEF Route, IInv, Sound
<1>2. new.asked = jobs[s].asked /\ new.state # "asking"
  BY <1>1, EnterSets
<1>3. ToFollow(new) => ToFollow(jobs[s])
  BY <1>1, EnterSets, AssistantAssumption DEF ToFollow
<1> HIDE DEF new
<1> QED BY <1>1, <1>2, <1>3, MovesOn

LEMMA ForthRecorded ==
    ASSUME QuestionInv, IInv, NEW s \in Slots, jobs[s].todo # <<>>,
           jobs' = [jobs EXCEPT ![s] = Forth(jobs[s])], history' = history
    PROVE  QuestionInv'
<1>1. /\ Forth(jobs[s]).asked = jobs[s].asked /\ Forth(jobs[s]).state # "asking"
      /\ Forth(jobs[s]).todo = Tail(jobs[s].todo) /\ jobs[s].todo \in Seq(Services)
  BY ForthSet DEF IInv, Sound, Heeds
<1>2. ToFollow(Forth(jobs[s])) => ToFollow(jobs[s])
  BY <1>1, LessToFollow
<1> QED BY <1>1, <1>2, MovesOn

LEMMA ReportRecorded == ASSUME QuestionInv, IInv, NEW s \in Slots, Report(s) PROVE QuestionInv'
<1> DEFINE state == IF jobs[s].trouble THEN "failed" ELSE "ok"
           new == [jobs[s] EXCEPT !.state = state]
<1>1. jobs' = [jobs EXCEPT ![s] = new] /\ history' = history /\ Shaped(jobs[s])
  BY DEF Report, IInv, Sound
<1> HIDE DEF state
<1>2. new.asked = jobs[s].asked /\ new.state = state /\ new.todo = jobs[s].todo
  <2> DEFINE job == jobs[s]
  <2>1. Shaped(job) /\ new = [job EXCEPT !.state = state]
    BY <1>1
  <2> HIDE DEF job, new
  <2>2. new.asked = job.asked /\ new.state = state /\ new.todo = job.todo
    BY <2>1 DEF Shaped
  <2> QED BY <2>2 DEF job
<1> HIDE DEF new
<1>3. new.state # "asking" /\ (ToFollow(new) => ToFollow(jobs[s]))
  BY <1>2 DEF state, ToFollow
<1> QED BY <1>1, <1>2, <1>3, MovesOn

LEMMA AskRecorded == ASSUME QuestionInv, IInv, NEW s \in Slots, Ask(s) PROVE QuestionInv'
<1> DEFINE c == Head(jobs[s].todo).to
           new == [jobs[s] EXCEPT !.state = "asking", !.asked = TRUE]
<1>1. /\ c \in Sessions /\ jobs' = [jobs EXCEPT ![s] = new] /\ Shaped(jobs[s])
      /\ history' = [history EXCEPT ![c] = Append(@, Message("user", s))]
  BY DEF Ask, At, IInv, Sound
<1>2. new.state = "asking" /\ new.todo = jobs[s].todo
  <2> DEFINE job == jobs[s]
  <2>1. Shaped(job) /\ new = [job EXCEPT !.state = "asking", !.asked = TRUE]
    BY <1>1
  <2> HIDE DEF job, new
  <2>2. new.state = "asking" /\ new.todo = job.todo
    BY <2>1 DEF Shaped
  <2> QED BY <2>2 DEF job
<1> HIDE DEF new, c
<1>3. Preserves(history[c], history'[c]) /\ OnRecord(history'[c], s)
  BY <1>1, QuestionAdded DEF QuestionInv
<1>4. \A d \in Sessions \ {c} : history'[d] = history[d]
  BY <1>1 DEF QuestionInv
<1>5. \A d \in Sessions, t \in Slots : Keeps(history[d], history'[d], t)
  BY <1>3, <1>4 DEF Preserves, Keeps
<1>6. history' \in [Sessions -> Seq(Messages)]
  BY <1>1, <1>3 DEF QuestionInv, Preserves
<1>7. Recorded(s)'
  <2>1. jobs'[s] = new /\ Head(jobs'[s].todo).to = c /\ "planner" \in Sessions
    BY <1>1, <1>2 DEF IInv, c, Sessions
  <2>2. ToFollow(jobs'[s]) => ToFollow(jobs[s])
    BY <1>2, <2>1 DEF ToFollow
  <2> QED BY <1>1, <1>3, <1>5, <2>1, <2>2 DEF QuestionInv, Recorded, Keeps, ToFollow
<1> QED BY <1>1, <1>5, <1>6, <1>7, OneTask

LEMMA AnsweredRecorded ==
    ASSUME QuestionInv, IInv, NEW s \in Slots, Answered(s) PROVE QuestionInv'
<1> DEFINE c == Head(jobs[s].todo).to
<1>1. /\ jobs[s].state = "asking" /\ Sound(jobs[s]) /\ Recorded(s)
      /\ history' = [history EXCEPT ![c] = Append(@, Message("assistant", s))]
  BY DEF Answered, IInv, QuestionInv
<1>2. PICK n \in Nat :
        /\ n # 0 => c = "planner"
        /\ jobs' = [jobs EXCEPT ![s].state = "running",
                      ![s].todo = IF n = 0 THEN Tail(@)
                                  ELSE Times(n, Tries("toolcall")) \o <<FollowUp>> \o Tail(@)]
  <2>1. 0..MaxToolCalls \subseteq Nat
    BY AssistantAssumption
  <2>2. PICK n \in IF c = "planner" /\ "engine" \in office.backends THEN 0..MaxToolCalls ELSE {0} :
          jobs' = [jobs EXCEPT ![s].state = "running",
                      ![s].todo = IF n = 0 THEN Tail(@)
                                  ELSE Times(n, Tries("toolcall")) \o <<FollowUp>> \o Tail(@)]
    BY Zenon DEF Answered
  <2>3. n \in Nat /\ (n # 0 => c = "planner")
    BY <2>1, <2>2
  <2> QED BY <2>2, <2>3
<1> DEFINE todo == IF n = 0 THEN Tail(jobs[s].todo)
                   ELSE Times(n, Tries("toolcall")) \o <<FollowUp>> \o Tail(jobs[s].todo)
           new == [jobs[s] EXCEPT !.state = "running", !.todo = todo]
<1>3. jobs' = [jobs EXCEPT ![s] = new]
  BY <1>2 DEF IInv
<1>4. n = 0 => todo = Tail(jobs[s].todo)
  OBVIOUS
<1> HIDE DEF todo
<1>5. new.state = "running" /\ new.todo = todo /\ new.asked = jobs[s].asked
  <2> DEFINE job == jobs[s]
  <2>1. Shaped(job) /\ new = [job EXCEPT !.state = "running", !.todo = todo]
    BY <1>1 DEF Sound
  <2> HIDE DEF job, new
  <2>2. new.state = "running" /\ new.todo = todo /\ new.asked = job.asked
    BY <2>1 DEF Shaped
  <2> QED BY <2>2 DEF job
<1>6. jobs'[s] = new
  BY <1>3 DEF IInv
<1> HIDE DEF new, c
<1>7. c \in Sessions /\ OnRecord(history[c], s)
  BY <1>1 DEF Recorded, c
<1>8. Preserves(history[c], history'[c]) /\ Followed(history'[c], s)
  BY <1>1, <1>7, AnswerAdded DEF QuestionInv
<1>9. \A d \in Sessions \ {c} : history'[d] = history[d]
  BY <1>1 DEF QuestionInv
<1>10. \A d \in Sessions, t \in Slots : Keeps(history[d], history'[d], t)
  BY <1>8, <1>9 DEF Preserves, Keeps
<1>11. history' \in [Sessions -> Seq(Messages)]
  BY <1>1, <1>8 DEF QuestionInv, Preserves
<1>12. ToFollow(new) => Followed(history'["planner"], s)
  <2>1. CASE n = 0
    <3>1. ToFollow(new) => ToFollow(jobs[s])
      BY <1>1, <1>4, <1>5, <2>1, LessToFollow DEF Sound, Heeds
    <3>2. "planner" \in Sessions
      BY DEF Sessions
    <3> QED BY <1>1, <1>10, <3>1, <3>2 DEF Recorded, Keeps
  <2>2. CASE n # 0
    BY <1>2, <1>8, <2>2
  <2> QED BY <2>1, <2>2
<1>13. Recorded(s)'
  BY <1>1, <1>5, <1>6, <1>10, <1>12 DEF Recorded, Keeps, ToFollow
<1> QED BY <1>3, <1>10, <1>11, <1>13, OneTask

LEMMA FollowUpRecorded ==
    ASSUME QuestionInv, IInv, NEW s \in Slots, FollowUpReturns(s) PROVE QuestionInv'
<1> DEFINE m == history["planner"]
<1>1. /\ jobs[s].todo # <<>> /\ Head(jobs[s].todo).to = "followup"
      /\ jobs' = [jobs EXCEPT ![s] = Forth(jobs[s])] /\ Sound(jobs[s]) /\ Recorded(s)
      /\ history' = [history EXCEPT !["planner"] = ReplaceLastAssistant(@, s)]
      /\ "planner" \in Sessions
  BY DEF FollowUpReturns, At, IInv, QuestionInv, Sessions
<1>2. jobs[s].todo \in Seq(Services)
  BY <1>1 DEF Sound, Heeds
<1>3. ToFollow(jobs[s])
  <2>1. 1 \in DOMAIN jobs[s].todo /\ Head(jobs[s].todo) = jobs[s].todo[1]
    BY <1>1, <1>2
  <2> QED BY <1>1, <2>1 DEF ToFollow
<1>4. m \in Seq(Messages) /\ Followed(m, s)
  BY <1>1, <1>3 DEF Recorded, QuestionInv
<1>5. Preserves(m, ReplaceLastAssistant(m, s))
  BY <1>4, AnswerReplaced
<1>6. /\ history'["planner"] = ReplaceLastAssistant(m, s)
      /\ \A d \in Sessions \ {"planner"} : history'[d] = history[d]
  BY <1>1 DEF QuestionInv
<1>7. \A d \in Sessions, t \in Slots : Keeps(history[d], history'[d], t)
  BY <1>5, <1>6 DEF Preserves, Keeps
<1>8. history' \in [Sessions -> Seq(Messages)]
  BY <1>1, <1>5, <1>6 DEF QuestionInv, Preserves
<1>9. Recorded(s)'
  <2>1. /\ jobs'[s] = Forth(jobs[s]) /\ Forth(jobs[s]).asked = jobs[s].asked
        /\ Forth(jobs[s]).state = "running"
    BY <1>1, ForthSet DEF IInv, Sound
  <2> QED BY <1>1, <1>3, <1>7, <2>1 DEF Recorded, Keeps
<1> QED BY <1>1, <1>7, <1>8, <1>9, OneTask

LEMMA AppendRecorded ==
    ASSUME QuestionInv, IInv, NEW s \in Slots, AppendBoth(s) PROVE QuestionInv'
<1> DEFINE m == history["planner"]
           asking == Append(m, Message("user", s))
           both == Append(asking, Message("assistant", s))
           new == [Forth(jobs[s]) EXCEPT !.asked = TRUE]
<1>a. CASE Unanswered(jobs[s])
  BY <1>a, ForthRecorded DEF AppendBoth, At
<1>b. SUFFICES ASSUME ~Unanswered(jobs[s]) PROVE QuestionInv'
  BY <1>a
<1>1. /\ jobs[s].todo # <<>> /\ jobs' = [jobs EXCEPT ![s] = new]
      /\ Sound(jobs[s]) /\ Recorded(s) /\ "planner" \in Sessions
      /\ history' = [history EXCEPT !["planner"] = @ \o <<Message("user", s), Message("assistant", s)>>]
  BY <1>b DEF AppendBoth, At, IInv, QuestionInv, Sessions
<1>2. /\ new.state = "running" /\ new.todo = Tail(jobs[s].todo)
  <2>1. Shaped(Forth(jobs[s])) /\ Forth(jobs[s]).state = "running"
        /\ Forth(jobs[s]).todo = Tail(jobs[s].todo)
    BY <1>1, ForthSet DEF Sound
  <2> DEFINE job == Forth(jobs[s])
  <2>2. Shaped(job) /\ new = [job EXCEPT !.asked = TRUE]
    BY <2>1
  <2> HIDE DEF job, new
  <2>3. new.state = job.state /\ new.todo = job.todo
    BY <2>2 DEF Shaped
  <2> QED BY <2>1, <2>3 DEF job
<1>3. m \in Seq(Messages) /\ \A t \in Slots : Unheard(m, t) \/ OnRecord(m, t)
  BY <1>1 DEF QuestionInv
<1>4. both = m \o <<Message("user", s), Message("assistant", s)>>
  BY <1>3, MessagesDiffer
<1> HIDE DEF new, m
<1>5. Preserves(m, asking) /\ OnRecord(asking, s)
  BY <1>3, QuestionAdded
<1>6. Preserves(asking, both) /\ Followed(both, s)
  <2> HIDE DEF asking
  <2>1. asking \in Seq(Messages)
    BY <1>5 DEF Preserves
  <2> QED BY <1>5, <2>1, AnswerAdded
<1> HIDE DEF asking, both
<1>7. \A t \in Slots : Keeps(m, both, t)
  BY <1>3, <1>5, <1>6, PreservesOn
<1>8. /\ history'["planner"] = both
      /\ \A d \in Sessions \ {"planner"} : history'[d] = history[d]
  BY <1>1, <1>4 DEF QuestionInv, m
<1>9. \A d \in Sessions, t \in Slots : Keeps(history[d], history'[d], t)
  BY <1>7, <1>8 DEF Keeps, m
<1>10. history' \in [Sessions -> Seq(Messages)]
  BY <1>1, <1>6, <1>8 DEF QuestionInv, Preserves
<1>11. Recorded(s)'
  <2>1. OnRecord(both, s)
    BY <1>6 DEF Followed, OnRecord
  <2>2. jobs'[s] = new
    BY <1>1 DEF IInv
  <2> QED BY <1>1, <1>2, <1>6, <1>8, <2>1, <2>2 DEF Recorded
<1> QED BY <1>1, <1>9, <1>10, <1>11, OneTask

LEMMA AdvanceRecorded == ASSUME QuestionInv, IInv, NEW s \in Slots, Advance(s) PROVE QuestionInv'
<1>1. CASE Route(s)
  BY <1>1, RouteRecorded
<1>2. CASE Skip(s) \/ CallReturns(s)
  BY <1>2, ForthRecorded DEF Skip, CallReturns, Plain, At
<1>3. CASE CallFails(s) \/ FollowUpFails(s)
  BY <1>3, FailsRecorded DEF CallFails, Plain, FollowUpFails, At
<1>4. CASE ModelFails(s)
  BY <1>4, FailsRecorded DEF ModelFails, IInv, Sound
<1>5. CASE Report(s)
  BY <1>5, ReportRecorded
<1>6. CASE Ask(s)
  BY <1>6, AskRecorded
<1>7. CASE Answered(s)
  BY <1>7, AnsweredRecorded
<1>8. CASE FollowUpReturns(s)
  BY <1>8, FollowUpRecorded
<1>9. CASE AppendBoth(s)
  BY <1>9, AppendRecorded
<1> QED BY <1>1, <1>2, <1>3, <1>4, <1>5, <1>6, <1>7, <1>8, <1>9 DEF Advance

\* A new task has asked nothing.
LEMMA NewRecorded ==
    ASSUME NEW task, NEW fields
    PROVE  /\ Job(task, fields).asked = FALSE /\ Job(task, fields).state = "queued"
           /\ ~ToFollow(Job(task, fields))
           /\ NoJob.asked = FALSE /\ NoJob.state = "idle" /\ ~ToFollow(NoJob)
<1>1. /\ Job(task, fields).asked = FALSE /\ Job(task, fields).state = "queued"
      /\ Job(task, fields).todo = <<>>
  BY DEF Job
<1>2. /\ NoJob.asked = Job("none", {}).asked /\ NoJob.state = "idle"
      /\ NoJob.todo = Job("none", {}).todo
  BY StateSet, ShapedJob DEF NoJob
<1>3. Job("none", {}).asked = FALSE /\ Job("none", {}).todo = <<>>
  BY DEF Job
<1> QED BY <1>1, <1>2, <1>3 DEF ToFollow

\* A step that leaves the sessions alone and only adds new tasks.
LEMMA NewTasks ==
    ASSUME QuestionInv, history' = history,
           \A s \in Slots : jobs'[s] = jobs[s] \/ \E task, fields : jobs'[s] = Job(task, fields)
    PROVE  QuestionInv'
<1>1. ASSUME NEW s \in Slots PROVE Recorded(s)'
  <2>1. CASE jobs'[s] = jobs[s]
    BY <2>1 DEF QuestionInv, Recorded, ToFollow
  <2>2. ASSUME NEW task, NEW fields, jobs'[s] = Job(task, fields) PROVE Recorded(s)'
    <3>1. jobs'[s].asked = FALSE /\ jobs'[s].state = "queued" /\ jobs'[s].todo = <<>>
      <4>1. Job(task, fields).asked = FALSE /\ Job(task, fields).state = "queued"
            /\ Job(task, fields).todo = <<>>
        BY DEF Job
      <4> QED BY <2>2, <4>1
    <3>2. ~ToFollow(jobs'[s])
      BY <3>1 DEF ToFollow
    <3> QED BY <3>1, <3>2 DEF Recorded, ToFollow
  <2> QED BY <2>1, <2>2
<1> QED BY <1>1 DEF QuestionInv

LEMMA JarvisRecorded == ASSUME QuestionInv, IInv, Jarvis PROVE QuestionInv'
<1>1. history' = history
  BY DEF Jarvis, Greet, Question, Decompose, ToolExecution, Planned, Merge
<1>2. CASE Greet \/ Planned \/ Merge
  BY <1>1, <1>2, NewTasks DEF Greet, Planned, Merge
<1>3. CASE ToPlanner
  <2>1. PICK length : jobs' = [jobs EXCEPT ![1] = Job("plan", {"goal", length})]
    BY <1>3 DEF ToPlanner
  <2> QED BY <1>1, <2>1, NewTasks DEF IInv
<1>4. ASSUME NEW types, NEW fields, Launch(types, fields) PROVE QuestionInv'
  <2> DEFINE n == Cardinality(types)
             order == CHOOSE f \in [1..n -> types] : \A i, j \in 1..n : f[i] = f[j] => i = j
  <2>1. jobs' = [s \in Slots |-> IF s \in 1..n THEN Job(order[s], fields) ELSE jobs[s]]
    BY <1>4 DEF Launch
  <2> HIDE DEF n, order
  <2> QED BY <1>1, <2>1, NewTasks
<1> QED BY <1>2, <1>3, <1>4 DEF Jarvis, Question, Decompose, ToolExecution

LEMMA QuestionInit == Init => QuestionInv
<1> SUFFICES ASSUME Init PROVE QuestionInv
  OBVIOUS
<1>1. history = [c \in Sessions |-> <<>>]
  BY DEF Init
<1>2. history \in [Sessions -> Seq(Messages)] /\ \A c \in Sessions, s \in Slots : Unheard(history[c], s)
  BY <1>1 DEF Unheard
<1>3. \A s \in Slots : jobs[s] = NoJob \/ \E task, fields : jobs[s] = Job(task, fields)
  BY DEF Init
<1>4. \A s \in Slots : Recorded(s)
  BY <1>3, NewRecorded DEF Recorded
<1> QED BY <1>2, <1>4 DEF QuestionInv

LEMMA QuestionNext == IInv /\ QuestionInv /\ [Next]_vars => QuestionInv'
<1>1. ASSUME QuestionInv, UNCHANGED vars PROVE QuestionInv'
  BY <1>1, NewTasks DEF vars
<1> QED BY <1>1, AdvanceRecorded, JarvisRecorded DEF Next

\* In a session that several tasks share, each task's question stays on record and comes
\* before all that the task wrote as an answer: for every table of handlers that leave
\* the follow-up to the planner, and every number of tasks and tool calls.
THEOREM QuestionsStay == Spec => []QuestionsKept
<1>1. QuestionInv => QuestionsKept
  BY DEF QuestionInv, Recorded, OnRecord, Asks, QuestionsKept
<1> QED BY <1>1, Invariant, QuestionInit, QuestionNext, PTL DEF Spec


-----------------------------------------------------------------------------
(***************************************************************************)
(* What the personal stores promise, for every number of rows and every    *)
(* contents: an acknowledged change is durable, and an email marked as     *)
(* sent was delivered.  The argument: a row whose last change was not      *)
(* reported as failed is the same in the open transaction, on the disk and *)
(* in what was acknowledged, so that neither a later commit nor a rollback *)
(* can touch it; and the mark of an email that is sent is only written     *)
(* while the delivery of that very email is in hand.                       *)
(***************************************************************************)
Settled == \A id \in Ids \ unsure : disk[id] = promised[id] /\ table[id] = promised[id]

Mailed ==
    kind = "email" =>
        /\ \A id \in Ids : "done" \in {disk[id].mark, table[id].mark} => id \in delivered
        /\ sending # "" => sending \in delivered

Idle == (~open => sending = "") /\ \A id \in Ids : disk[id] # NoRow => id \in used

StoresInv == StoresTypeOK /\ Idle /\ Settled /\ Mailed

LEMMA Distinct == NoRow \notin Rows /\ "" \notin Ids /\ NoRow.mark # "done"
BY StoreAssumption DEF NoRow, Rows, Marks

LEMMA StoresInitHolds == StoresInit => StoresInv
<1> SUFFICES ASSUME StoresInit PROVE StoresInv
    OBVIOUS
<1> USE DEF StoresInit
<1>1. StoresTypeOK
    BY DEF StoresTypeOK, Result, Stored
<1>2. Idle /\ Settled /\ Mailed
    BY DEF Idle, Settled, Mailed, NoRow
<1> QED
    BY <1>1, <1>2 DEF StoresInv

\* A change of one row, committed or not, keeps the invariant, provided that it does
\* not mark as sent an email that was not delivered.
LEMMA ChangeKeeps ==
    ASSUME StoresInv, NEW id \in Ids, NEW row \in Rows \cup {NoRow}, sending \in {"", id},
           Commit(id, row) \/ CommitFails(id, row),
           used' = used \cup {id}, UNCHANGED <<kind, open, delivered>>, sending' = "",
           kind = "email" /\ row.mark = "done" => id \in delivered
    PROVE  StoresInv'
<1> USE DEF StoresInv, StoresTypeOK, Written
<1>1. disk' \in {disk, Written(id, row)} /\ table' \in {disk, Written(id, row)}
    BY DEF Commit, CommitFails
<1>2. Written(id, row) \in [Ids -> Rows \cup {NoRow}]
    OBVIOUS
<1>3. unsure' \subseteq Ids /\ promised' \in [Ids -> Rows \cup {NoRow}]
  <2>1. CASE Commit(id, row)
    BY <2>1 DEF Commit, Acknowledge
  <2>2. CASE CommitFails(id, row)
    BY <2>2 DEF CommitFails
  <2> QED
    BY <2>1, <2>2
<1>4. \A i \in Ids : disk'[i] # NoRow \/ table'[i] # NoRow => i \in used'
    BY <1>1 DEF Idle, Stored
<1>5. reply' \in [success : BOOLEAN, shown : SUBSET Ids]
  <2>1. \A success \in BOOLEAN : Result(success, {}) \in [success : BOOLEAN, shown : SUBSET Ids]
    BY DEF Result
  <2>2. reply' \in {Result(TRUE, {}), Result(FALSE, {})}
    BY DEF Commit, CommitFails, Acknowledge
  <2> QED
    BY <2>1, <2>2
<1>6. StoresTypeOK' /\ Idle'
    BY <1>1, <1>2, <1>3, <1>4, <1>5 DEF Idle, Stored
<1>7. Settled'
  <2>1. CASE Commit(id, row)
    BY <2>1 DEF Commit, Acknowledge, Settled
  <2>2. CASE CommitFails(id, row)
    BY <2>2 DEF CommitFails, Settled
  <2> QED
    BY <2>1, <2>2
<1>8. Mailed'
    BY <1>1 DEF Mailed
<1> QED
    BY <1>6, <1>7, <1>8

\* An answer without a change keeps it, and so does the commit of what is pending.
LEMMA AnswerKeeps ==
    ASSUME StoresInv, NEW success \in BOOLEAN, NEW shown \in SUBSET Ids,
           Answers(success, shown), UNCHANGED <<kind, open, delivered, table, used>>,
           sending' \in {"", sending}, disk' \in {disk, table}
    PROVE  StoresInv'
<1> USE DEF StoresInv, StoresTypeOK, Answers, Stored
<1>1. reply' \in [success : BOOLEAN, shown : SUBSET Ids]
    BY DEF Result
<1>2. disk' \in [Ids -> Rows \cup {NoRow}]
    OBVIOUS
<1>3. StoresTypeOK' /\ Idle'
    BY <1>1, <1>2 DEF Idle
<1>4. Settled' /\ Mailed'
    BY DEF Settled, Mailed
<1> QED
    BY <1>3, <1>4

\* What a request may come to: a change of one row, or an answer.
Request ==
    \/ \E id \in Ids, text \in Contents : Insert(id, text) \/ UpdateRow(id, text)
    \/ \E id \in Ids : DeleteRow(id) \/ ReadRow(id)
    \/ \E ids \in SUBSET Ids : Show(ids)

LEMMA RequestKeeps == ASSUME StoresInv, Request, sending = "" PROVE StoresInv'
<1> USE Distinct DEF Quiet
<1>1. ASSUME MatchesNothing PROVE StoresInv'
    BY <1>1, AnswerKeeps DEF MatchesNothing
<1>2. ASSUME NEW ids \in SUBSET Ids, Show(ids) PROVE StoresInv'
    BY <1>2, AnswerKeeps DEF Show
<1>3. ASSUME Refused PROVE StoresInv'
    BY <1>3, AnswerKeeps DEF Refused
<1>4. ASSUME NEW id \in Ids, NEW row \in Rows \cup {NoRow}, Change(id, row),
             kind = "email" /\ row.mark = "done" => id \in delivered
      PROVE  StoresInv'
    BY <1>4, ChangeKeeps DEF Change
<1>5. ASSUME NEW id \in Ids, NEW text \in Contents, Insert(id, text) PROVE StoresInv'
  <2>1. [text |-> text, mark |-> "open"] \in Rows
    BY DEF Rows, Marks
  <2> QED
    BY <1>4, <1>5, <2>1 DEF Insert
<1>6. ASSUME NEW id \in Ids, NEW text \in Contents, UpdateRow(id, text) PROVE StoresInv'
  <2>1. CASE id \in Stored
    <3>1. table[id] \in Rows
        BY <2>1 DEF Stored, StoresInv, StoresTypeOK
    <3>2. /\ [table[id] EXCEPT !.text = text] \in Rows
          /\ [table[id] EXCEPT !.text = text].mark = table[id].mark
        BY <3>1 DEF Rows
    <3> QED
        BY <1>4, <1>6, <2>1, <3>2 DEF UpdateRow, StoresInv, Mailed
  <2>2. CASE id \notin Stored
    BY <1>1, <1>6, <2>2 DEF UpdateRow
  <2> QED
    BY <2>1, <2>2
<1>7. ASSUME NEW id \in Ids, DeleteRow(id) PROVE StoresInv'
    BY <1>1, <1>4, <1>7 DEF DeleteRow
<1>8. ASSUME NEW id \in Ids, ReadRow(id) PROVE StoresInv'
    BY <1>2, <1>3, <1>8 DEF ReadRow, Stored
<1> QED
    BY <1>2, <1>5, <1>6, <1>7, <1>8 DEF Request

LEMMA ListingShows == ASSUME NEW ids \in SUBSET Ids, Listing(ids) PROVE \E s \in SUBSET Ids : Show(s)
BY DEF Listing

LEMMA StoresNextKeeps == StoresInv /\ [StoresNext]_storeVars => StoresInv'
<1> SUFFICES ASSUME StoresInv, [StoresNext]_storeVars PROVE StoresInv'
    OBVIOUS
<1> USE Distinct
<1>1. CASE Initialize \/ Crash
    BY <1>1 DEF Initialize, Crash, StoresInv, StoresTypeOK, Idle, Settled, Mailed, Stored
<1>2. CASE Refused
    BY <1>2, AnswerKeeps DEF Refused, Quiet
<1>3. CASE NotesNext
  <2>1. sending = "" /\ Request
    <3>1. \A text : Like(text) \in SUBSET Ids
        BY DEF Like, Stored
    <3> QED
        BY <1>3, <3>1, ListingShows
        DEF NotesNext, Asked, Request, CreateNote, ReadNote, UpdateNote, DeleteNote, SearchNotes,
            ListNotes, NotesStats, Stored
  <2> QED
    BY <2>1, RequestKeeps
<1>4. CASE CalendarNext
  <2>1. sending = "" /\ Request
    <3>1. (\A text : Like(text) \in SUBSET Ids) /\ SUBSET Stored \subseteq SUBSET Ids
        BY DEF Like, Stored
    <3> QED
        BY <1>4, <3>1, ListingShows
        DEF CalendarNext, Asked, Request, CreateEvent, ReadEvent, UpdateEvent, DeleteEvent,
            SearchEvents, ListEvents
  <2> QED
    BY <2>1, RequestKeeps
<1>5. CASE ReminderNext
  <2>1. CASE \E id \in Ids : DismissReminder(id)
    <3>1. PICK id \in Ids : DismissReminder(id)
        BY <2>1
    <3>2. CASE id \in Pending
      <4>1. [table[id] EXCEPT !.mark = "done"] \in Rows
        BY <3>2 DEF Pending, Stored, StoresInv, StoresTypeOK, Rows, Marks
      <4> QED
        BY <3>1, <3>2, <4>1, ChangeKeeps DEF DismissReminder, Asked, Change, Quiet
    <3>3. CASE id \notin Pending
        BY <3>1, <3>3, AnswerKeeps DEF DismissReminder, MatchesNothing, Quiet
    <3> QED
        BY <3>2, <3>3
  <2>2. CASE ~ \E id \in Ids : DismissReminder(id)
    <3>1. sending = "" /\ Request
      <4>1. Pending \in SUBSET Ids /\ Stored \in SUBSET Ids
        BY DEF Pending, Stored
      <4> QED
        BY <1>5, <2>2, <4>1, ListingShows
        DEF ReminderNext, Asked, Request, CreateReminder, ReadReminder, UpdateReminder,
            DeleteReminder, ListReminders
    <3> QED
        BY <3>1, RequestKeeps
  <2> QED
    BY <2>1, <2>2
<1>6. CASE \E id \in Ids : Deliver(id)
  <2>1. PICK id \in Ids : Deliver(id)
    BY <1>6
  <2>2. Result(FALSE, {}) \in [success : BOOLEAN, shown : SUBSET Ids]
    BY DEF Result
  <2>3. sending' \in {id, sending} /\ reply' \in {reply, Result(FALSE, {})}
    BY <2>1 DEF Deliver, Answers
  <2>4. StoresTypeOK' /\ Idle'
    BY <2>1, <2>2, <2>3 DEF Deliver, Asked, Answers, StoresInv, StoresTypeOK, Idle, Stored
  <2>5. Settled' /\ Mailed'
    BY <2>1, <2>3 DEF Deliver, Asked, Answers, StoresInv, StoresTypeOK, Settled, Mailed, Stored
  <2> QED
    BY <2>4, <2>5 DEF StoresInv
<1>7. CASE RecordSent
  <2> DEFINE row == [table[sending] EXCEPT !.mark = "done"]
  <2>1. sending \in Stored /\ sending \in Ids
    BY <1>7 DEF RecordSent, StoresInv, StoresTypeOK, Stored
  <2>2. row \in Rows
    BY <2>1 DEF Stored, StoresInv, StoresTypeOK, Rows, Marks
  <2>3. used = used \cup {sending} /\ (kind = "email" => sending \in delivered)
    BY <1>7, <2>1 DEF RecordSent, StoresInv, StoresTypeOK, Mailed
  <2>4. CASE Commit(sending, row) \/ CommitFails(sending, row)
    BY <1>7, <2>1, <2>2, <2>3, <2>4, ChangeKeeps DEF RecordSent
  <2>5. CASE Answers(FALSE, {}) /\ UNCHANGED <<disk, table>>
    BY <1>7, <2>5, AnswerKeeps DEF RecordSent
  <2> QED
    BY <1>7, <2>4, <2>5 DEF RecordSent
<1>8. CASE EmailNext /\ ~RecordSent /\ ~ \E id \in Ids : Deliver(id)
  <2>1. sending = "" /\ Request
    <3>1. Stored \in SUBSET Ids /\ \A status : {id \in Stored : table[id].mark = status} \in SUBSET Ids
        BY DEF Stored
    <3> QED
        BY <1>8, <3>1, ListingShows
        DEF EmailNext, Asked, Request, DraftEmail, ReadEmail, UpdateEmail, DeleteEmail, ListEmails
  <2> QED
    BY <2>1, RequestKeeps
<1>9. CASE UNCHANGED storeVars
    BY <1>9 DEF storeVars, StoresInv, StoresTypeOK, Idle, Settled, Mailed, Stored
<1> QED
    BY <1>1, <1>2, <1>3, <1>4, <1>5, <1>6, <1>7, <1>8, <1>9 DEF StoresNext

LEMMA StoresInvariant == StoresSpec => []StoresInv
BY StoresInitHolds, StoresNextKeeps, PTL DEF StoresSpec

\* The rows, the history and the answers have their types, in every state.
THEOREM StoresTyped == StoresSpec => []StoresTypeOK
<1>1. StoresInv => StoresTypeOK
    BY DEF StoresInv
<1> QED
    BY StoresInvariant, <1>1, PTL

\* What notes, calendar, reminder and email agents acknowledge is on the disk, until a
\* later change of the same row is reported as failed.
THEOREM AcknowledgedStays == StoresSpec => []AcknowledgedIsDurable
<1>1. StoresInv => AcknowledgedIsDurable
    BY DEF StoresInv, Settled, AcknowledgedIsDurable
<1> QED
    BY StoresInvariant, <1>1, PTL

\* EmailAgent._send() marks no email as sent that the SMTP server has not taken.
THEOREM SentMeansDelivered == StoresSpec => []SentWasDelivered
<1>1. StoresInv => SentWasDelivered
    BY DEF StoresInv, Mailed, SentWasDelivered
<1> QED
    BY StoresInvariant, <1>1, PTL
=============================================================================
