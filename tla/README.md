# A TLA+ verification of the Jarvis agent runtime

This directory keeps the formal model of the repository beside its code: TLA+
modules translated from the Python source, TLC configurations that check them on
small instances, and theorems checked by TLAPS for every instance.

`PROJECT.json` lists the components, the runs, the source lines behind every
definition, the hazards of the code and the theorems. This file explains them.

## 1. Inventory

The program is one asyncio process. Coroutines interleave only where they await;
a few stores are called from worker threads. What a user says passes through the
conversation runtime, which answers it itself, has it planned and executed, or
routes it to an agent; the agents call tools, the memory and the language model.

| component | state | operations | interacts with | what is hard | what makes it correct |
|---|---|---|---|---|---|
| planning/task_graph.py | nodes, statuses | validate, ready_nodes, skip_unreachable | executor | transitive effects over any graph | validation accepts exactly the acyclic graphs; skipping is exactly reachability over pending nodes |
| planning/executor.py | statuses, results, completed ids, in-flight tasks, semaphore, cancel event | execute, cancel, _run_node, _finish_node, _drain_cancelled | task graph, scratchpad, tool invoker | any interleaving of node ends, retries, timeouts and cancellation | dependencies respected, nothing lost or run twice, no slot leaked, always returns |
| planning/coordinator.py, planner.py, verifier.py, tool_invoker.py | none kept between runs | run: plan, execute, synthesise, verify | executor, backends, knowledge engine | an answer that is rejected after effects; what counts as evidence of success | an accepted answer is safe and does not claim more than was done |
| orchestrator/task_queue.py | queue, results, workers | start, stop, enqueue, join, get_result | handlers | stop during a handler, failed handlers | every task handled once and accounted for |
| orchestrator/workflow.py | completed ids, results, remaining steps, cancel flag | execute, cancel | orchestrator | waves, conditions, failing steps, duplicate names | steps run after their dependencies, none is forgotten |
| orchestrator/core.py, message_bus.py, middleware.py | agents, subscriptions, middleware | register, route, publish | agents | agents that raise | every task is reported on |
| memory/memory_manager.py, persistent_memory.py, vector_store.py, document_store.py | documents, vectors, working memory | store, forget, recall, search, upsert | embedding provider, Chroma, SQLite | three stores updated one after the other without a transaction | the stores agree; an update is never lost |
| runtime/conversation_runtime.py, context_manager.py, intent_engine.py, routing_engine.py, response_*.py | session turns | process | memory, planning, agents, model | nested fallbacks, each with a return of its own | a goal is not carried out twice; each turn is answered and recorded once |
| runtime/knowledge_engine.py | history | answer | memory, internet service, guard | concurrent questions | always an answer |
| runtime/llm_guard.py, llm/ | chat sessions | generate, _with_retries, send | providers | retries nested in retries in fallbacks; sessions that several tasks share | bounded attempts, an apology only after all of them; questions stay on record |
| knowledge/internet/ | cache, time of the last request | retrieve | providers | concurrent misses, overall timeout, expiry | requests are spaced, partial results are kept, every asker returns |
| tools/engine.py, registry.py, permissions.py, builtins/ | registered tools | execute | agents, consent of the user | consent, arguments, libraries and timeouts on one path | a call that was refused or failed is never a success |
| tools/manager.py | enabled tools | enable, disable, execute | nothing in the program | | only enabled tools run |
| agents/notes, calendar, reminder, email | SQLite rows per agent | create, read, update, delete, list, search, send, dismiss | SQLite, SMTP | failing commits, crashes, a delivery that cannot be undone | acknowledged changes are durable; what is marked as sent was sent |
| agents/jarvis_agent.py, planner.py, response_composer.py | the goal in hand | handle, decompose, merge | workflow engine, specialists, model | steps that end in any order, fail or raise | the answer waits for all and drops no success |
| agents/*_agent.py (the specialists) | none between tasks | handle | tools, memory, model, files, browser | which failure of which service matters | a success is one |
| voice/continuous_loop.py, vad.py, wake.py | loop state, frame counters | run, stop, collect_utterance | microphone, brain, playback | boundaries of counters, stop during a reply | answers only while awake, waits and utterances bounded, stop honoured |
| voice/ (microphone, playback, speech providers) | queue of frames | start, stop, play | sound system | | |
| prompt/, config/, core/, main.py, plugins/ | settings, chunks | load, chunk, budget, start | all | little: sequential code and wiring | sizes and budgets respected |

## 2. Plan

In the order of importance, with what became of each:

1. task graph and executor, the concurrent core: `TaskGraph`,
   `TaskGraphAlgorithms`, `TaskExecutor`, the abstract life cycle of a plan
   `PlanContract`, and the proofs (done);
2. the orchestrator's task queue and workflow engine: `TaskQueue`,
   `WorkflowEngine` and their proofs (done);
3. the memory manager, its stores and the persistent upsert, with failures and
   crashes between the steps: `MemoryManager` and its proofs (done);
4. the voice loop and the utterance endpointer: `VoiceLoop` and its proofs (done);
5. a turn of the conversation with the planning subsystem inside it:
   `PlanningRun`, `ConversationTurn` and their proofs (done);
6. the knowledge engine over the internet service and the guarded model:
   `InternetRetrieval`, `ModelCalls`, `KnowledgeEngine` and their proofs (done);
7. the stores of the personal agents with crashes: `PersonalStores` and its proofs
   (done);
8. the tool engine, the specialists and JarvisPrimeAgent over them: `Handlers`,
   `Specialists`, `ToolEngine`, `Assistant` and its proofs (done);
9. left: operations of the memory manager that overlap on one id, the profile's
   composite texts, the message bus, ToolManager's enabling and disabling, the
   browser kept between tasks, the chunker and the budget of prompts, telemetry.

Each group has modules without RECURSIVE operators, an MC module that only gives
values to its constants, one passing run with the properties its hazards call
for, and theorems in a `...Proofs` module: `TaskGraphProofs`,
`TaskExecutorProofs`, `TaskQueueProofs`, `WorkflowEngineProofs`,
`MemoryManagerProofs`, `VoiceLoopProofs`, `RuntimeProofs` (a turn and the
knowledge engine) and `AgentProofs` (the assistant and the personal stores). Two
modules whose theorems share a `...Proofs` module name their specifications
apart: `Spec` of `ConversationTurn` and `EngineSpec` of `KnowledgeEngine`, `Spec`
of `Assistant` and `StoresSpec` of `PersonalStores`. The modules compose so:

* `TaskExecutor` and `PlanningRun` extend `TaskGraph`; the executor is shown to
  implement `PlanContract`, and `PlanningRun` uses of it only what the contract
  promises: a ready node runs to its end, in any order;
* `ConversationTurn` extends `PlanningRun`: a turn with a plan in it;
* `KnowledgeEngine` extends `InternetRetrieval` and instantiates `ModelCalls`;
* `Assistant` extends `Handlers` and `ToolEngine`, and takes the table of
  `Specialists` as a constant.

## 3. The task graph and the executor

An action of `TaskExecutor` is everything a coroutine does between two awaits:

| code | model |
|---|---|
| `execute` up to its first await | `ExecuteValid`, `ExecuteInvalid` |
| head of `while True` | `TurnOfLoop` (four outcomes: schedule, nothing left, drain, cancelled with nothing in flight) |
| `asyncio.wait` returning, `_finish_node` for each done task, next turn | `Collect` |
| `_drain_cancelled` after its gather | `DrainDone` |
| `_run_node` between two awaits | `AcquireSlot`, `InvokeSucceeds`, `InvokeFails`, `BackoffOver` |
| CancelledError delivered to a node | `AbortInvoke`, `AbortElsewhere` |
| `cancel()` | `Cancel` |

`asyncio.wait` wakes some time after the first task ended and finishes all tasks
that have ended by then, so `Collect` takes the whole set. The set's order does
not matter: `TaskGraphAlgorithms` calls `skip_unreachable` in every order and
compares with the declarative `SkipUnreachable`. The semaphore wakes its waiters
in the order they came, which is the order in which the tasks were created:
scheduling turn, then rank (descending priority, then id). Data is abstracted:
outputs, error texts, durations and telemetry are left out; a backend that
reports failure and one that raises are one case, since `_run_node` treats them
alike. A `NodeResult` is its status and attempts.

Not in the model: an empty plan (returns at once), a plan with duplicate ids (the
constructor raises before the loop; the planner never produces one), a second
`execute` on the same executor (the coordinator creates one per run).

The properties, and what would break them:

* `StartedOnlyWhenReady`, `SkippedForCause`: several nodes may end before the
  scheduler wakes, some critical, while others are started; dependents must be
  caught before they are scheduled. `SkippedForCause` also says that the deadlock
  guard at the end of the loop, which skips whatever is left, never has anything
  to skip.
* `SlotsAccounted`: a slot is returned on every way out of `_run_node`,
  cancellation in the backoff sleep included.
* `ReturnedIsComplete`, `CollectNeverRaises`, `ExecuteReturns`: nothing is lost on
  any path. A task that is cancelled in the semaphore or in a sleep ends with
  CancelledError; `task.result()` would raise it, and no such task may reach the
  loop.
* `CancelledOnlyOnRequest`, `NoStartAfterCancel`, `RetriesExhausted`: what is
  reported of a node is what happened to it.
* `ImplementsContract`: the executor refines `PlanContract`, a specification with
  one variable per node and no scheduler.

## 4. The task queue

| code | model |
|---|---|
| `start()` | `Start` |
| `stop()` up to its gather, and after it | `StopCall`, `StopReturn` |
| `enqueue()`, `join()` | `Enqueue`, `Join`, `JoinReturn` |
| `queue.get()` returning in `_worker` | `Get` |
| the handler ending, with its except and finally clauses | `HandlerReturns`, `HandlerRaises` |
| CancelledError in `get()`, in the handler | `CancelIdle`, `CancelBusy` |

`outcome[t] = "done"` is the key of `_results` that `get_result()` reads. The
queue, its counter of unfinished tasks and the event behind `join()` are asyncio's
and are marked external. `join()` is woken once: it does not look at the counter
again when it is resumed, so it may return although other tasks have been put in
the queue meanwhile (`JoinWaited` allows for that).

`start()` has one guard, `is_running`, which the first lines of `stop()` clear; so a
`start()` may come while a `stop()` is in its gather, and `Start` allows it. What
then stands and what does not:

* `StartedWorkersServe`: while the queue runs, the workers of the last `start()` are
  alive and nobody has cancelled them, however many calls of `stop()` are still
  waiting for older ones. It relates the list `stop()` took to the one it clears.
* `IsRunningIsTrue`, what the interface says of `is_running`, fails: the first
  `stop()` clears the list of the new workers, and a second one then cancels nobody
  (section 14).

## 5. The workflow engine

| code | model |
|---|---|
| `execute()` up to its first gather | `Execute` |
| one turn of `while pending`: the scan, the skips, the wave | `TurnOfLoop`, `StartWave` |
| the gather returning, results recorded, next turn | `WaveEnds` |
| `_execute_step` between two awaits | `RouteReturns`, `RouteTimesOut`, `RouteRaises`, `BackoffOver`, `StepCancelled` |
| `cancel()` | `Cancel` |
| the caller of `execute()` being cancelled | `Abort`, `AbortEnds` |

The scan visits the plan in its order, and a step it skips satisfies the steps
after it and not those before it; `Skips` says so without the loop: the skipped
steps are the ones whose condition fails and whose dependencies are completed or
skipped earlier in the plan. `Init` chooses each execution's plan, which is not
looked at before `Execute`, from the assignments in `Submitted`. A step that `route()` answered counts as completed
whatever the answer's success flag says, as in the code.

The engine has one flag, `cancelled`, for all executions. `asked` is history: was
`cancel()` called while this execution ran, and has an `execute()` cleared the flag
since (`"revived"`).

* `CancelHolds`: a `cancel()` stops every execution under way, through waves,
  retries and the returns of the others, until some `execute()` is called. With two
  executions, for that is what the flag is shared by; the theorem has any number.
* `NothingBegunAfterCancel` is the same without "until" and fails: the `execute()` of
  one revives the other (section 14).
* `OrderedUndoneForCause`: of a plan listed in dependency order nothing stays undone
  without a reason. `UndoneForCause` is the same of any plan and fails (section 14).

Not in the model: two steps with one step_id, and a condition that raises (it
ends `execute()` with its exception).

## 6. The memory manager

| code | model |
|---|---|
| `store()` of a new memory up to its first call | `Store` |
| `remember()`, the same under an id of the caller's choice | `Remember` |
| the duplicate check, `vector_store.add`, `document_store.store`, `working.add` | `CheckDuplicate`, `AddVector`, `StoreDocument`, `AddToWorking` |
| `forget()`, `_upsert()` up to the first call of the document store | `Forget`, `Upsert` |
| `document_store.delete`, `vector_store.delete` | `DeleteDocument`, `DeleteVector` |
| `recall()`, `retrieve()` | `Recall` |
| a call raises or the caller is cancelled; an exception that is caught | `OperationFails`, `ForgetFailsQuietly` |
| the process ends; `restore()` | `CrashAndRestore` |

Between two of these actions any other caller may run. Contents are told apart
only by which pairs are near-duplicates (`Similar`), which need not be transitive.
Eviction from working memory, by capacity or by age, may take any entry at any
access. Assumptions: operations on one id do not overlap (ids are UUIDs, or keys
that one user chooses), and a store's call takes effect before its caller
is cancelled or not at all.

`remember()` is the one operation that stores under an id in use without forgetting
it first. Chroma's `add()` ignores an id it has, SQLite replaces the row, and the
working copy is replaced last. `stale` is history: the ids whose document was
replaced under a copy in working memory that still tells the old content.

* `WorkingIsCurrent`: working memory tells what the document store tells, but for the
  `stale` ids. Those are served until the new item is added or the old one is
  evicted or forgotten, and so also after a `remember()` that was cut short.
* `StoresHoldTheSame`: when nothing has failed and nothing is under way, the two
  stores hold the same ids, and no working copy is stale. That they also hold the
  same contents (`ConsistentWithoutFaults`) fails for `remember()`: the vector goes on
  embedding the old content (section 14).
* `StoreKeepsContent`: a store or upsert that runs by itself is dropped only for a
  near-duplicate that is still there when it returns, as a document or as the vector
  of one; what an upsert has forgotten itself is not.

Reading only changes what is evicted; ranking, filters and scores of search are
left out.

## 7. The voice loop

| code | model |
|---|---|
| `run()` up to the first frame | `Run` |
| the test of `while not self._stop.is_set()`, and the ways out of `run()` | `LoopHead`, `Leave` |
| `collect_utterance()`, one frame | `Frame` (`Waited` before the onset, `Collected` after it) |
| the stream of frames ending | `StreamEnds` |
| `_safe_transcribe()` returning, `_handle_transcript()` up to its next await | `Transcribed` with `HandleAsleep`, `HandleActive` |
| the brain answering, or raising | `Answered` |
| `_say()` ending, however it does | `Spoken` |
| `stop()`, cancellation of `run()` | `Stop`, `Interrupt` |

Durations are numbers of frames. Whether a frame is voiced and what was said are
inputs, so any room and any speaker is covered, and so is the echo of the loop's
own replies. A transcript is told apart by what it asks for and by where the wake
word stands in it, since an exit phrase counts at the end of an utterance and a
command is what follows the wake word. `gated` is `wake_mode`: without a wake word
the loop is born active, and a sleep phrase still puts it to sleep until anything
is said.

`heard`, `woken`, `quiet` and `late` are history: the frames of the current wait,
whether a wake word came since it last fell asleep, the last frame, and the
answers begun after `stop()`. `WindowBounded` is the property worth arguing about:
the endpointer counts silent frames only and forgets a voiced one that is not
followed by enough others, so noise can prolong a wait, but by no more than the
factor `onset_frames`. `stop()` is noticed only by the test of the loop; that a
request in hand is still answered, and a second one is not, is
`OneAnswerAfterStop`.

## 8. A turn of the conversation

`ConversationTurn` is `ConversationRuntime.process()` with the engines it calls;
`PlanningRun` is the coordinator it may call.

| code | model |
|---|---|
| `process()` up to the choice of a path: small talk, `enrich()`, `classify()` | `Listen` (`Heard`, `Enriched`, `Classify`, `IsKnowledgeIntent`, `ShouldPlan`) |
| the direct answer of the knowledge engine | `AnswerDirectly` |
| `_run_planning()` | `StartPlanning`, `PlanStep`, `PlanningDone` |
| routing to an agent, the response synthesizer and composer | `Route` (`Destinations`, `AgentResults`, `Phrase`) |
| `_persist_turn()` | `PersistTurn` |
| the coordinator: decomposition and minimal confidence | `Decompose` |
| one node, its backend or the lack of one, its failure and what it skips | `RunNode` |
| `_synthesize()`, `_llm_fuse()` | `Synthesize` |
| the verifier, its salvage, the outcome | `Conclude` (`Verify`, `Salvage`, `LowConfidence`, `Decide`) |

A text is the set of marks that the code's own checks can tell of it: the marks of
internal machinery and of tool output that the response guards look for, a claim
of success, a mere echo of the goal. A plan is any of those the model can answer,
or the heuristic one. Confidences are in percent.

* `NotDoneTwice`: the fallback after planning is the routing engine, which carries
  the goal out again; that must not happen after a step had its effects.
* `PlannedAnswerHonest`: with one step failed and the others done, the answer the
  user gets does not claim that all is well.
* `TurnsRecordedOnce` relates three records of a turn (the session, the durable
  memory, what the user was told) over all the ways out of `process()`.
* `EveryTurnAnswered`: whatever raises on the way.

## 9. The knowledge engine

| code | model |
|---|---|
| `answer()` up to its retrieval | `Ask` |
| `retrieve()`: the cache | `Lookup` |
| `_respect_rate_limit()` with its lock, before and after the sleep | `RateLimit`, `Wake` |
| one attempt of `get_json()` | `HttpGet` |
| `_fan_out()` after its gather, or after its timeout; ranking; the cache | `Gathered`, `FetchTimesOut` |
| one request to a model, in the provider's retries in the guard's | `CallModel` over `ModelCalls` |
| the clock | `Tick` |

There is no await between the rate limit and the start of the requests, so both
are one action. Time is kept as ages and timers that stop where they cease to
matter. The request to a model has the outcomes that `_with_retries` and the guard
tell apart; a malformed answer raises something that is no `LLMError`, and neither
retries nor falls back.

* `FetchesSpaced`: the interval holds between the requests of different askers,
  who sleep and wake in any order.
* `SalvageKept`: what one provider found survives the timeout of another, the
  merge and the ranking (a duplicate may give way to a better score).
* `ApologyMeansExhausted`: three nested loops together neither give up early nor
  try more often than their product.
* `AskerAnswered`: nobody waits for ever for the lock.

## 10. The personal stores

A handler of these agents never awaits, so a request is one action. What is hard
is below it: sqlite3 opens a transaction before a change, and a `commit()` that
raises may leave it open, so that the next request's commit makes it durable, or
roll it back. `table` is what the connection sees, `disk` what a restart finds,
`promised` what users were told, `unsure` the rows whose last change was reported
as failed. `kind` says which of the four agents it is.

| code | model |
|---|---|
| `initialize()`, the end of the process | `Initialize`, `Crash` |
| `_create`, `_read`, `_update`, `_delete`, `_list`, `_search`, `_stats`, `_dismiss` of each agent | the action of that name (`CreateNote`, `DismissReminder`, ...) |
| `_send` up to the answer of the server, and its record | `Deliver`, `RecordSent` |
| exceptions and refusals in `handle()` | `Refused` |

`AcknowledgedIsDurable` is about a sequence: a failed commit, another request's
commit, a crash. `SentWasDelivered` is about the order of delivery and record; the
converse is false, since a delivery cannot be undone when its record fails.

## 11. The assistant

`Handlers` says how a handler is written down: what its task must bring, and the
services it calls in their order, each with what its failure means: ignored,
noted in the verdict, fatal, or raised. `Specialists` writes down every handler of
every agent in that form, and `Agents` is the table by which
`Orchestrator.route()` finds them. `ToolEngine` gives the verdicts that one call
of a tool may come to, from the registry, the consent, the arguments and the
libraries. `Assistant` runs tasks over them.

| code | model |
|---|---|
| `route()` up to the handler's first service | `Route` |
| a service the agent lacks, one that answers, one that fails | `Skip`, `CallReturns`, `CallFails` |
| the handler's return | `Report` |
| `ChatSession.send()` before, and after, the model | `Ask`, `Answered`, `ModelFails` |
| `_handle_tool_calls()` of the planner | the calls that `Answered` adds, `FollowUpReturns`, `FollowUpFails` |
| a goal worked through in one chunk or several, and its record if there is an answer | `Plan` of `Specialists`, `AppendBoth` (`Unanswered`) |
| `JarvisPrimeAgent.handle()`: small talk, question, tool, goal | `Greet`, `Question`, `ToolExecution`, `Decompose` |
| the answer of the planner; of a wave of steps | `Planned`, `Merge` |

* `HonestCommands`: several commands in one task, each of which may be refused by
  the user, by the whitelist, by its arguments or by a timeout.
* `QuestionsKept`: a chat session is shared by the tasks of an agent, which append
  to it and replace messages in it between each other's awaits.
* `NoSuccessDropped`, `AllReported`: a wave in which steps end in any order, some
  failed and some raised.

In the running program only the steps of Jarvis's waves are concurrent; tasks
beside them come through `TaskQueue.enqueue()`, which the program offers and its
tests use. The slots of `Assistant` beyond the steps are such tasks.

## 12. Runs

| run | expected | states | what it shows |
|---|---|---|---|
| `executor` | pass | 71 thousand | every acyclic plan over three nodes with every choice of critical nodes, a retry, two slots, and three rejected plans; cancellation anywhere |
| `graph_algorithms` | pass | 31 thousand | Kahn's algorithm and the skip search compute what `TaskGraph` defines |
| `queue` | pass | 110 thousand | three tasks, two workers, one join, one restart at any moment, within a `stop()` too |
| `workflow` | pass | 787 thousand | two executions on one engine: every ordered three-step plan and some others beside one that comes and goes, and two of two steps; cancelled at any moment |
| `memory` | pass | 248 thousand | two callers, two keys, a UUID, one fault anywhere |
| `voice` | pass | 20 thousand | any frames and transcripts, with and without a wake word, stop and cancellation anywhere |
| `turn` | pass | 368 thousand | two turns through every path, with every plan of two steps |
| `knowledge` | pass | 146 thousand | two askers over cache, rate limit, providers and two models |
| `stores` | pass | 73 thousand | every request of the four agents, failing commits, crashes |
| `assistant` | pass | 173 thousand | every handler with every failure, shared sessions, goals of every kind |
| `memory_upsert_dedup` | violation | | an upsert that deletes the old value and drops the new one |
| `voice_goodbye` | violation | | an exit phrase in the breath that wakes the loop goes to the brain |

Each property of a passing run is paired in `PROJECT.json` with a mutant: a
plausible mistake in one definition (the operators with a suffix, commented
"Fault:") under which TLC finds the property violated. A mutant is used by no
specification.

### Bounds

* Executor: three nodes are enough for a chain, a fork, a join and a bystander; a
  chain of three shows transitive skipping, and a fork with two slots, one
  of them held by a retry, contention for the semaphore. `graph_algorithms` adds
  fourth nodes, where paths of different lengths meet. The plans are the acyclic
  graphs up to a renaming, with ranks in another order than the graph's.
* Queue: three tasks and two workers let one task wait while both workers are
  busy; two `start()`s and any number of `stop()`s in between give every overlap
  of a stopping generation of workers with the next.
* Workflow: three steps give waves of one, two and three, and a step that is
  skipped between two others; two attempts give a retry after a timeout and one
  after a backoff. What a shared flag does needs two executions: one to be cancelled
  between its steps and one to begin or return meanwhile. The second one of every
  three-step plan does just that; of two two-step plans both may also be in a wave.
* Memory: two callers give every interleaving of two operations; one UUID and two
  keys give a store beside an upsert, two upserts, and a third id to be a
  duplicate of; a key is also remembered twice. One fault is enough for each state
  that a partial failure leaves behind to be met by every operation; the theorems
  cover any number.
* Voice: an onset of two frames is the least that a single voiced frame does not
  reach; the two waits, the pre-roll, the cap and the trailing silence differ, so
  that none can stand in for another, and the cap can be met before the silence.
* Turn: two turns and a session of one make a turn fall out of the session; plans
  of two steps give a dependency, a step skipped behind a failed one, and a partial
  success; three deployments (everything, memory only, nothing) give each backend
  present and missing; the utterances take each path, one of them two segments with
  a word of a third kind, and one refers back to another.
* Knowledge: two askers and two live questions with one place in the cache give
  eviction of what another asker is about to read; one retry at each level and two
  models give every product of the loops. Intervals of one tick are enough, since
  several steps fit between two ticks and none need to.
* Stores: two rows, so that a pending change of one meets a commit of the other;
  listings of at most one row.
* Assistant: every task type with its full payload and with a goal only, pairs of
  tasks that share a session, goals of each kind with up to two steps; one tool call
  per answer; batches of two, and goals of no, one and two chunks; three offices (all backends and
  consent asked for, no model and consent given, a model and nobody to ask). A goal
  may become any two of five task types of different fates: one that fails without
  a field, one that raises, one that works on the directory, one on the net, one on
  the session.

The bounds that are part of a specification are `MaxStarts` (calls of `start()`
that create workers), `MaxFaults`, `MaxSaid`, `MaxSteps`, `NumWorkers`,
`MaxToolCalls`, `Batch` and `Chunks`, and `Limit`, the "limit" of a listing; everything
else is bounded by the code.

### Fairness

Liveness is checked for the executor, the queue, the workflow engine, the voice
loop, a turn, the knowledge engine and the assistant, under fairness of
each coroutine by itself: the event loop runs every coroutine that can run, and
what a coroutine waits for outside (a backend, an agent, a sleep) ends:
`asyncio.wait_for` bounds every attempt in the executor and every tool, timeouts of
the HTTP client bound the requests, and the workflow engine's steps either have a
timeout or an agent that answers. Whoever is asked for consent is taken to answer:
the code waits for the keyboard without a timeout. No fairness is assumed of clients: nobody has to
call `cancel`, `start`, `stop`, `enqueue`, `join`, `execute` or `process`, or to ask
anything. `Drains` and `JoinReturns` are about a queue that is eventually left
running. The voice loop needs a microphone that delivers frames or ends, and
transcription, a brain and playback that come to an end; what the frames are and
what is said is left open. The knowledge engine has strong fairness per asker,
because an asker who waits for the lock of the rate limit finds it taken and free
in turn, and an `asyncio.Lock` is given to its waiters in the order they came. The
memory manager and the personal stores have no liveness property: their calls
are straight-line code.

`CHECK_DEADLOCK FALSE` is set where the system really comes to rest: the client
coroutines of a queue or an engine may stop calling, a graph has been validated, a
conversation or the tasks that were handed in are over. The other runs check for
deadlock.

## 13. Proofs

All theorems hold for every value of the constants: any finite set of nodes, any
plans, any numbers of slots, tasks, workers, steps, attempts, callers, contents
and faults, any waits and limits of the voice loop, any rows, any table of
handlers, under the named assumptions of each module (sets that are finite,
counts that are positive, and the one about handlers below).

**Task graph** (`TaskGraphProofs`). The two loops are proved right for every graph
of any finite number of nodes, by invariants over their variables (`IInv`). Of
Kahn's algorithm (`Sorting`): the counts are those of the dependencies that are not
done, as many nodes were visited as are done, and there is no cycle among them;
when the queue is empty, every node left has a dependency left, so there is a cycle
unless none is left. Of the skip search (`Searching`): what is skipped belongs to
the closure, and when nothing is left to visit it is closed, so it is the least
closed set whatever the order of visits was.

**Executor** (`TaskExecutorProofs`). The properties say
what an observer sees and are not inductive: at `Collect` several results arrive
at once and the next nodes are scheduled in the same step. `Inv` adds what the
scheduler knows at the head of its loop (`LoopHead`): the books agree (`Books`:
completed ids are the settled nodes, in-flight ids the ready and running ones),
and no pending node has a dependency that blocks it (`PendingUnblocked`), because
`skip_unreachable` has caught them all. From this a scheduled node is unblocked.
That the deadlock guard is vacuous needs `Acyclic`, read as well-foundedness: of
the pending nodes left over, one has no pending dependency, so it would be ready.
`SlotsAccounted`, `NoStartAfterCancel` and the refinement of `PlanContract`
follow from `Inv` without further strengthening, action by action.
`RetriesExhausted` needs besides that a node that ended badly in its task has made
its last attempt (`Attempted`), before the scheduler looks at it.

**Queue** (`TaskQueueProofs`). `CountsUnfinished` and `InOnePlace` support each
other (a worker that ends its turn removes one member of `Busy`); the rest adds
that workers of a later `start()` are absent (`FutureAbsent`), that a join waits for
tasks that exist (`JoinsOld`) and that a pending cancellation belongs to a `stop()`
still in its gather (`CancelledAwaited`). `StartedServe` rests on the last two: the
workers a `start()` creates were absent, so no `stop()` has cancelled them, and the
ones that call it later are the only ones that will.

**Workflow engine** (`WorkflowEngineProofs`). `WaveAccounts` ties steps to waves,
`BackoffHasAttempt` keeps the count below the limit; the dependency theorem needs
the fixed point of `Skips`. `CancelStops` and `ReturnsForCause` hold for any number
of executions on the engine; their invariant (`FlagStands`) says that a `cancel()`
which has not been revived keeps the flag set, and that the flag is set for a
`cancel()` of this execution or a cancelled step of some execution, and for nothing
else.

**Memory manager** (`MemoryManagerProofs`). `Progress` says how far each operation
has come in each store, `OwnTargets` that operations have ids of their own,
`NotInWorking` that what is being forgotten is not served from working memory,
`Agreement` that without faults the stores differ only where an operation is under
way, `Undisturbed` that what was found to be new still is, for an operation that
runs alone.

**Voice loop** (`VoiceLoopProofs`). `Window` bounds the frames heard by the silent
ones counted, times the frames of an onset, plus the current run of voiced ones;
the product needs two lemmas of arithmetic (`Distribute`, `Monotone`). `Growing`
says that another frame fits while it listens, `Limit` which wait is in force,
`Late` that the answer after `stop()` is the last, since its reply leads back to
the test of the loop.

**A turn** (`RuntimeProofs`). `PlanInv` says what one plan comes to: a step is
settled or pending, one is skipped only behind one that has failed, and an outcome
is set at the end only; from it `NotDoneTwice` and `PlannedAnswerHonest`, whatever
texts the steps and the model produce (`PlanningAssumption` says only that a text is
empty or made of the marks the checks know). `TurnsRecordedOnce` compares a
sequence that is filtered and cut with two that are appended to. The filter is a
recursive function, so `WithoutOneMore` (one more element is kept or dropped) needs
that the function exists and is unique, by induction; then `RecordInv` relates the
three records, with the reply that is being persisted in the session and not yet
in the others; `Stages` says when a plan may be under way or accepted.

**Knowledge engine** (`RuntimeProofs`). Fetches are spaced because who sleeps holds
the lock and sleeps long enough (`Spaced`): the time since the last fetch and the
time left to sleep add up to the interval, and no other fetch can begin
meanwhile. `CacheInv` says that the order of use lists the keys of the store, each
once; it gives `CacheBounded` and that the entry just set is never the one evicted.
`SalvageKept` needs besides what a provider can find (`WhatProvidersFind`), that
the ranking, which is a count of those ahead, puts each first of its text somewhere
(`FirstIsRanked`), and that of equal texts the first scores best. For
`ApologyMeansExhausted`, `Counted` bounds the requests made of each provider below
by its own retries of this attempt and above by those of all attempts so far, a
product.

**Personal stores** (`AgentProofs`). Durability is not inductive by
itself: the commit of one row makes the open transaction durable as a whole.
`Settled` adds that a row whose last change was not reported as failed is the same
on the disk, in the transaction and in what was acknowledged, so neither a commit
nor a rollback can touch it. `Mailed` adds that the email in hand was delivered.

**Assistant** (`AgentProofs`). `HonestReports` holds for every table in which no
handler ignores the failure of a command (`HeedsCommands`, an assumption that TLC
evaluates on the table of `Specialists`): a task that has not noted trouble has
failed at no command so far, none of the calls to come may be ignored, and nothing
takes the note back. `AnswersAreComplete` needs that a task that has ended never
changes again (`EndedStays`), so that what `Merge` saw stays true. `QuestionsStay`
has for its invariant (`Recorded`) that the question of a task that waits for the
model is on record in that session, and that of a task with a follow-up to come
has an answer of somebody after it (`Followed`), so that the answer which is
replaced is never one before the question; it holds for every table whose handlers
leave the follow-up to the planner, an assumption that TLC evaluates too.

The induction theorems of the library cannot be applied, for they take an operator.
Where an induction is needed it is made with sets: every set of naturals has a least
element (`LeastNat`, from the well-foundedness of finite sets under inclusion), so
a set with 0 that is closed under successor is all of them (`SetInduction`).
SelectSeq, SortSeq and folds mean nothing to the prover, so the models whose
theorems depend on such a loop say what it yields by an index, a recursive
function or a count.

Only model-checked: liveness (`ExecuteReturns`, `Drains`, `JoinReturns`,
`ExecuteEnds`, `SleepsWhenQuiet`, `EveryTurnAnswered`, `AskerAnswered`,
`AllReported`), which the prover does not reach. Every other property of a passing
run is a theorem.

Theorems that no run repeats: the types of the executor, the queue, the workflow
engine, the memory manager, the voice loop and the stores,
`CollectNeverRaises`, `CancelledOnlyOnRequest`, `JoinWaited`, `LostOnlyToStop`,
`NothingLeftRunning`, `FailsWhenExhausted`, `NoDuplicateAlone`, `UtteranceBounded`,
`FarewellEnds`, `SleepsOnlyAfterInactivity` and `CacheBounded`. `TypeOK` of the
assistant and `StopReturns` of the queue and the voice loop are stated for the
reader; TLC agrees with them when they are added to the configurations.

## 14. Findings

Two runs show what a line of the repository says is not so:

1. `_upsert()` forgets the old value and then calls `store()`, whose duplicate check
   may drop the new one (`memory_upsert_dedup`).
2. "Jarvis, goodbye", said to the sleeping loop, is answered by the brain and the
   session goes on; exit and sleep phrases are looked for only when the loop was
   awake already (`voice_goodbye`).

These are stated as properties that TLC refutes when they are added to a
configuration; no run repeats them:

| property | with | what happens |
|---|---|---|
| `IsRunningIsTrue` of `TaskQueue` | as in `queue`; one worker is enough | start, stop, start again before `stop()` has returned: the first `stop()` clears the list of the new workers, so the next one cancels nobody; they run on with `is_running` False |
| `NothingBegunAfterCancel` of `WorkflowEngine` | as in `workflow` | `execute()` resets the engine's only cancel flag and revives an execution that was cancelled |
| `UndoneForCause` of `WorkflowEngine` | as in `workflow` | a step listed before a dependency that is skipped in the same scan is taken for deadlocked and never run, although its dependencies are satisfied by then |
| `ConsistentWithoutFaults` of `MemoryManager` | as in `memory`; one caller and no fault are enough | `remember()` of a key in use replaces the document and not the vector, so the memory is found under its old content only; a later `store()` of the old content is dropped as its duplicate, although no document has it |
| `ForgetRemoves` of `MemoryManager` | as in `memory` | `forget()` does not delete a vector without a document, so one left behind by a failed `store()` stays for ever |
| `OverwritesOwn` of `Assistant` | as in `assistant` | two planner tasks in the queue share a session: the answer after a tool call replaces the other task's answer |
| `NoDuplicateFetch` of `KnowledgeEngine` | as in `knowledge` | two misses of one query both fetch, for the cache is not looked at again after the wait |
| `OnlyTheQuestionLeaves` of `ConversationTurn` | as in `turn` | a reasoning step's prompt, with what was recalled for an earlier step, is the query of its retrieval |
| `ToolOutputIsPhrased` of `ConversationTurn` | as in `turn` | the tool agent's result has no `tool_output`, so its raw output is shown |

What reading the code for the models showed besides, at the lines that `map` names:

* Planning: a reasoning node counts as succeeded when its answer is the guard's
  apology; a rejected answer is accepted when any node succeeded; `_llm_fuse`
  takes the apology for the fused answer; the capability "python" has no backend;
  no `run_completed` event follows a CancelledError.
* Knowledge: the empty result of a fan-out that timed out is cached for its whole
  time to live; `needs_internet` does not use what was found locally; a malformed
  answer of a provider ends the call although the guard has fallbacks left.
* Stores: a create that was reported as failed may appear later, so that a retry
  duplicates it; an email may be delivered and reported as failed, and is then sent
  again; `_send` does not look at the status; bcc is never used.
* Specialists: project.setup always fails (the tool requires `operation`, the agent
  gives `action`), as do knowledge.store and knowledge.index with a memory (no such
  method), and test.run where pytest is not on the whitelist; code.refactor writes
  the original code; desktop.window.list is announced without a branch;
  browser.navigate always goes to gecko, which refuses it; the steps of a decomposed
  goal get only the goal, so that most of them refuse, while storage tasks work on the
  current directory.
* Jarvis: a goal the planner handled is stored twice; a `tool.execute` that the
  routing engine could not name goes to ToolAgent with an empty name, which refuses
  it; a long goal whose chunks all fail is answered with their headings.
* A failed `send()` leaves its question in the chat session without an answer.

## 15. Not modelled

A component is `partly` modelled in `PROJECT.json` where its note says what is
left out. What has no module, and why:

* the memory service, reflection, extraction and validation of preferences: rules
  over words around one call of the manager, which is modelled; an embedding is any
  vector;
* the patterns that classify text (intent detection, small talk, expression
  checks, personality): which way they send a turn is modelled, what they match is
  the input;
* wording: prompts, templates, formatting, the cutting of long texts;
* the microphone, playback and speech engines, and the single-turn pipeline:
  calls of the operating system and of services, without decisions over time;
* settings, logging, telemetry, the command line and the discovery of plugins;
* publish and subscribe of the message bus: no agent subscribes to another's events;
* enabling and disabling in ToolManager: nothing in the program executes a tool
  through it;
* the browser that BrowserAgent keeps between tasks, and the effects of tools on
  files and processes, which a timeout does not undo.

In the modelled components: an empty plan and one with duplicate ids, a second
`execute` of one executor; steps that share a step_id and conditions that raise in
the workflow engine; overlapping operations on one id and the ranking of searches
in the memory manager; set_session() of another user. The hazards of these parts
are in `PROJECT.json` with the line where they bite and a note instead of a
property.
