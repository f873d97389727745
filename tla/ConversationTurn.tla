-------------------------- MODULE ConversationTurn --------------------------
(***************************************************************************)
(* The turns of a conversation (runtime/conversation_runtime.py): the      *)
(* small talk of the personality engine, the context manager, the intent   *)
(* engine, then the direct answer of the model, the planning subsystem     *)
(* (PlanningRun) or the routing engine, and the records of the turn.       *)
(*                                                                         *)
(* An utterance is what the classifiers tell of it: the small talk heard   *)
(* in it, the labels and confidences of its segments (of a compound        *)
(* request), the keywords found in it, and whether it refers back to       *)
(* earlier turns.                                                          *)
(***************************************************************************)
EXTENDS PlanningRun, Sequences

CONSTANTS
    Utterances,     \* what the user may say
    Planning,       \* is the planning subsystem built in?  (both values)
    MaxTurns,       \* max_turns_per_session
    MaxSaid         \* bound: how many turns are taken

ASSUME TurnAssumption ==
    /\ Planning \subseteq BOOLEAN
    /\ MaxTurns \in Nat \ {0}
    /\ MaxSaid \in Nat

VARIABLES
    planning,   \* _planning is not None (never changes)
    stage,      \* where process() is
    intent,     \* IntentResult
    reply,      \* what process() returns
    session,    \* SessionContext.turns
    persisted,  \* the turns handed to record_turn(), in order
    replies,    \* history: what process() has returned
    routed      \* history: where the routing engine has sent this turn, or ""

turnVars == <<stage, intent, reply, session, persisted, replies, routed>>
vars     == <<services, planning, planVars, turnVars>>

Specialists == {"tool", "coding", "security", "devops", "shell", "browser", "desktop",
                "calendar", "reminder", "email", "notes"}
Heavy       == {"plan", "coding", "security", "devops", "shell"}
Chat        == {"greeting", "conversation"}

NoIntent == [label |-> "", confidence |-> 0, secondary |-> FALSE, browser |-> FALSE,
             planning |-> FALSE, tool |-> FALSE, knowledge |-> FALSE,
             conversation |-> FALSE, vision |-> FALSE]

(***************************************************************************)
(* PersonalityEngine.process(): the first kind of small talk that is heard *)
(* decides the answer.                                                     *)
(***************************************************************************)
SmallTalk == <<"wake", "sarcasm", "insult", "joke", "compliment", "greeting",
               "thanks", "goodbye", "how are you">>

Heard(u) == {i \in DOMAIN SmallTalk : SmallTalk[i] \in u.heard}
Pleasantry(u) == {SmallTalk[CHOOSE i \in Heard(u) : \A j \in Heard(u) : i <= j]}

\* enrich(): a reference is resolved from the turns of the session, to a goal
\* that may be any other.
Enriched(u) == IF u.refers /\ session # <<>> THEN Utterances ELSE {u}

(***************************************************************************)
(* IntentEngine.classify(): the segment with most confidence, the first    *)
(* of several, is the primary intent.                                      *)
(***************************************************************************)
Primary(segs) ==
    IF segs = <<>> THEN [label |-> "unknown", confidence |-> 0] ELSE
    segs[CHOOSE i \in DOMAIN segs :
           /\ \A j \in DOMAIN segs : segs[j].confidence <= segs[i].confidence
           /\ \A j \in 1..(i - 1) : segs[j].confidence < segs[i].confidence]

Classify(u) ==
    LET p == Primary(u.segments)
        compound == u.compound
    IN  [label        |-> p.label,
         confidence   |-> p.confidence,
         secondary    |-> Len(u.segments) > 1,
         browser      |-> p.label = "current_info" \/ "browser" \in u.words,
         planning     |-> \/ p.label \in Heavy
                          \/ ~compound /\ p.label \in Specialists \ {"tool"}
                          \/ compound /\ p.label = "browser" /\ "coding" \in u.words,
         tool         |-> p.label = "tool",
         knowledge    |-> \/ p.label \in {"knowledge_question", "follow_up"}
                          \/ ~compound /\ p.label = "unknown"
                          \/ p.confidence < 70,
         conversation |-> p.label \in Chat,
         vision       |-> "vision" \in u.words]

\* _is_knowledge_intent() and _should_plan()
IsKnowledgeIntent(t) ==
    \/ t.label = "current_info"
    \/ t.label \notin Specialists /\ ~t.tool /\ ~t.vision /\ ~t.browser

ShouldPlan(t) ==
    /\ planning
    /\ t.label \notin Chat \cup {"unknown", "follow_up", "current_info"}
    /\ ~t.conversation /\ ~t.vision
    /\ t.secondary \/ t.planning

Init ==
    /\ planning \in Planning
    /\ PlanInit
    /\ stage = "idle"
    /\ intent = NoIntent
    /\ reply = Empty
    /\ session = <<>>
    /\ persisted = <<>>
    /\ replies = <<>>
    /\ routed = ""

\* update_session(): the oldest turn goes when there are too many.
Remember(text) ==
    LET longer == Append(session, text) IN
    session' = IF Len(longer) > MaxTurns THEN Tail(longer) ELSE longer

Return(text) ==
    /\ stage' = "idle"
    /\ reply' = text
    /\ replies' = Append(replies, text)

(***************************************************************************)
(* Steps 1 to 3: small talk is answered at once and only remembered in     *)
(* the session; anything else is classified after the references in it     *)
(* have been resolved from the session.                                    *)
(***************************************************************************)
Listen(u) ==
    /\ stage = "idle"
    /\ Len(replies) < MaxSaid
    /\ routed' = ""
    /\ PlanForget
    /\ IF Heard(u) # {}
         THEN /\ Remember(Pleasantry(u))
              /\ Return(Pleasantry(u))
              /\ UNCHANGED intent
         ELSE /\ \E e \in Enriched(u) :
                /\ intent' = Classify(e)
                /\ stage' = CASE IsKnowledgeIntent(intent') /\ Reasoning -> "knowledge"
                              [] ~(IsKnowledgeIntent(intent') /\ Reasoning) /\ ShouldPlan(intent') -> "planning"
                              [] OTHER -> "routing"
              /\ UNCHANGED <<reply, session, replies>>
    /\ UNCHANGED <<services, planning, persisted>>

\* The turn is remembered, then handed to the durable memory.
Record(text) ==
    /\ Remember(text)
    /\ reply' = text
    /\ stage' = "persist"

\* ResponseFormatter.format(): tool JSON and prompt scaffolding are taken out.
Formatted(text) == text \ {"artifact"}

Unexpected == {"unexpected"}

\* An exception ends the turn in process(): nothing is remembered of it.
Fails == Return(Unexpected) /\ UNCHANGED session

\* Step 3b: KnowledgeEngine.answer(); its apologies are answers too.
AnswerDirectly ==
    /\ stage = "knowledge"
    /\ \/ /\ \E text \in (Outputs \ {Empty}) \cup {{"apology"}} : Record(Formatted(text))
          /\ UNCHANGED replies
       \/ Fails
    /\ UNCHANGED <<services, planning, planVars, intent, persisted, routed>>

\* Step 3c: _run_planning()
StartPlanning ==
    /\ stage = "planning" /\ pc = "idle"
    /\ pc' = "plan"
    /\ UNCHANGED <<services, planning, plan, status, output, draft, outcome, outward, turnVars>>

PlanStep == stage = "planning" /\ PlanNext /\ UNCHANGED <<planning, turnVars>>

\* Fault: an answer the coordinator declined is recorded before the goal is routed.
PlanningDone_RecordsDeclined ==
    /\ stage = "planning" /\ pc = "done"
    /\ IF outcome.accepted THEN Record(Formatted(outcome.shown)) ELSE
         /\ stage' = "routing"
         /\ Remember(outcome.shown)
         /\ UNCHANGED reply
    /\ UNCHANGED <<services, planning, planVars, intent, persisted, replies, routed>>

PlanningDone ==
    /\ stage = "planning" /\ pc = "done"
    /\ IF outcome.accepted
         THEN Record(Formatted(outcome.shown)) /\ PlanForget
         ELSE stage' = "routing" /\ UNCHANGED <<reply, session, planVars>>
    /\ UNCHANGED <<services, planning, intent, persisted, replies, routed>>

(***************************************************************************)
(* Step 4: the routing engine.  "tool" is the tool agent itself, for a     *)
(* goal a tool's pattern matches; all else goes to jarvis, with the kind   *)
(* of task it is to make of it.                                            *)
(***************************************************************************)
Destinations(t) ==
    CASE t.conversation                           -> {"conversation"}
      [] ~t.conversation /\ (t.vision \/ t.browser) -> {"plan"}
      [] ~(t.conversation \/ t.vision \/ t.browser) /\ t.tool -> {"tool", "tool.execute"}
      [] OTHER -> IF ~t.planning /\ t.knowledge THEN {"knowledge"} ELSE {"plan"}

\* External: an agent's result.  The tool agent reports the tool's name and output;
\* jarvis names the tool it has run and its output beside the response; any other
\* agent gives a response.
AgentResults(dest) ==
    [success : BOOLEAN,
     message : {Empty, {"message"}},
     data : CASE dest = "tool" -> [tool_name : {{"name"}}, output : Outputs]
              [] dest = "tool.execute" -> [response : Outputs, tool_name : {Empty, {"name"}},
                                           tool_output : Outputs]
              [] OTHER -> [response : Outputs]]

(***************************************************************************)
(* Step 5: what is said of a result.  The synthesizer turns a tool's raw   *)
(* output into a sentence; the composer shows a failed result only as far  *)
(* as it is safe, and a successful one as it is.                           *)
(***************************************************************************)
Field(data, name) == IF name \in DOMAIN data THEN data[name] ELSE Empty

Compose(result) ==
    LET response == Field(result.data, "response")
        raw == IF response # Empty THEN response ELSE Field(result.data, "output")
    IN  CASE result.success /\ raw # Empty -> raw
          [] result.success /\ raw = Empty ->
                IF IsUserSafe(result.message) THEN result.message ELSE {"completed"}
          [] ~result.success -> IF IsUserSafe(response) THEN response ELSE {"graceful"}

Phrase(result) ==
    IF Field(result.data, "tool_name") # Empty /\ Field(result.data, "tool_output") # Empty
      THEN {"synthesized"}
      ELSE Compose(result)

Route ==
    /\ stage = "routing"
    /\ \E dest \in Destinations(intent) :
         /\ routed' = dest
         /\ \/ /\ \E result \in AgentResults(dest) : Record(Formatted(Phrase(result)))
               /\ UNCHANGED replies
            \/ Fails
    /\ UNCHANGED <<services, planning, planVars, intent, persisted>>

\* _persist_turn(): a failure to record is logged, and the reply is returned anyway.
PersistTurn ==
    /\ stage = "persist"
    /\ persisted' = Append(persisted, reply)
    /\ Return(reply)
    /\ UNCHANGED <<services, planning, planVars, intent, session, routed>>

Next ==
    \/ \E u \in Utterances : Listen(u)
    \/ AnswerDirectly
    \/ StartPlanning \/ PlanStep \/ PlanningDone
    \/ Route
    \/ PersistTurn

\* A turn in hand is worked on: every call it waits for returns or times out.
Spec == Init /\ [][Next]_vars /\ WF_vars(stage # "idle" /\ Next)

-----------------------------------------------------------------------------
\* A goal the planning subsystem has worked on is only given to the routing engine,
\* which carries it out again, if no step of the plan succeeded.
NotDoneTwice == routed # "" /\ pc = "done" => Succeeded = {}

\* An answer accepted from a plan shows no internal machinery, and one the verifier
\* let pass claims no success unless every step of the plan succeeded.
PlannedAnswerHonest ==
    pc = "done" /\ outcome.accepted =>
        /\ "marker" \notin outcome.shown
        /\ outcome.ok /\ Succeeded # plan.steps => "claim" \notin outcome.shown

\* Between turns the session holds the latest replies and the durable memory was
\* given every reply once, in order: neither has small talk twice, a reply that was
\* never given, or the apology for an exception.
Pleasantries == {{SmallTalk[i]} : i \in DOMAIN SmallTalk}
Latest(s, n) == SubSeq(s, IF Len(s) > n THEN Len(s) - n + 1 ELSE 1, Len(s))
Without(s, texts) ==
    LET kept[i \in 0..Len(s)] == IF i = 0 THEN <<>>
                                 ELSE IF s[i] \in texts THEN kept[i - 1]
                                 ELSE Append(kept[i - 1], s[i])
    IN  kept[Len(s)]
TurnsRecordedOnce ==
    stage = "idle" =>
        /\ session = Latest(Without(replies, {Unexpected}), MaxTurns)
        /\ persisted = Without(replies, {Unexpected} \cup Pleasantries)

\* What the user says is answered, whatever fails on the way.
EveryTurnAnswered == stage # "idle" ~> stage = "idle"

\* runtime/knowledge_engine.py: "only the *current question* is sent outward -
\* never history, memory, secrets, or internal prompts".
OnlyTheQuestionLeaves == "recalled" \notin outward

\* runtime/routing_engine.py: "The result includes tool metadata (tool_name,
\* tool_output) when applicable, so the ResponseSynthesizer can format the output":
\* the output of a tool is never the reply as it is.
ToolOutputIsPhrased ==
    stage = "persist" /\ routed = "tool" => reply \notin Outputs \ {{"synthesized"}}
=============================================================================
