--------------------------- MODULE KnowledgeEngine --------------------------
(***************************************************************************)
(* KnowledgeEngine.answer() (runtime/knowledge_engine.py), asked by the    *)
(* runtime and by the reasoning steps of a plan at once: recall, live      *)
(* facts for what is time-sensitive (InternetRetrieval), then the model    *)
(* (ModelCalls).  What is remembered, and the turns before, are only words *)
(* of the prompt and left out.                                             *)
(***************************************************************************)
EXTENDS InternetRetrieval

CONSTANTS
    TimeSensitive,  \* the questions with a word like "latest" or an office
    Personal,       \* the questions about the user's own memory
    Models, GuardRetries, ProviderRetries

ASSUME KnowledgeAssumption ==
    /\ TimeSensitive \cup Personal \subseteq Questions
    /\ Models \in Nat \ {0} /\ GuardRetries \in Nat /\ ProviderRetries \in Nat

VARIABLES
    call, tries

LLM == INSTANCE ModelCalls WITH Callers <- Askers

engineVars == <<at, question, netVars, call, tries>>

EngineInit ==
    /\ NetInit
    /\ LLM!CallInit
    /\ at = [a \in Askers |-> "idle"]
    /\ question = [a \in Askers |-> Nobody]

\* needs_internet(): what is remembered makes no difference.
NeedsInternet(q) == q \notin Personal /\ q \in TimeSensitive

\* Where an asker is when answer() has returned, with the guard's apology or not.
Returned == {"idle", "apology"}

\* The recall never fails, and what it finds only ends up in the prompt.
Ask(a, q) ==
    /\ at[a] \in Returned
    /\ IF NeedsInternet(q)
         THEN Goto(a, "lookup") /\ question' = [question EXCEPT ![a] = q]
         ELSE Goto(a, "prompt") /\ UNCHANGED question
    /\ UNCHANGED <<netVars, call, tries>>

\* The guard's apology is an answer like any other; for an empty one and for an
\* exception answer() has a text of its own.
CallModel(a) ==
    /\ at[a] = "prompt"
    /\ \E response \in LLM!Responses :
         \/ /\ LLM!GoesOn(a, response)
            /\ UNCHANGED at
         \/ /\ LLM!Ends(a, response)
            /\ Goto(a, LLM!Outcome(response))
    /\ UNCHANGED <<question, netVars>>

Idle == UNCHANGED <<call, tries>>

Answer(a) == (Retrieve(a) /\ Idle) \/ CallModel(a)

EngineNext ==
    \/ \E a \in Askers : (\E q \in Questions : Ask(a, q)) \/ Answer(a)
    \/ Tick /\ Idle

\* Time passes, the event loop runs every task that can go on, a request is answered
\* or times out, and an asyncio.Lock is given to those who wait for it in turn.
Fairness ==
    /\ WF_engineVars(Tick /\ Idle)
    /\ \A a \in Askers : SF_engineVars(Answer(a))

EngineSpec == EngineInit /\ [][EngineNext]_engineVars /\ Fairness

-----------------------------------------------------------------------------
\* However many ask at once, two live fetches never begin less than the minimal
\* interval apart (_respect_rate_limit).
FetchesSpaced ==
    [][\A a \in Askers :
         at[a] # "fetch" /\ at'[a] = "fetch" => sinceFetch >= MinInterval]_engineVars

\* What a provider found before the overall timeout is used and cached, though
\* another one was too slow (_fan_out).
SalvageKept ==
    [][\A a \in Askers :
         at[a] = "fetch" /\ at'[a] = "prompt" =>
            \A p \in Providers : \A s \in ToSet(found[a][p]) :
               \E t \in ToSet(store'[question[a]].value) : t.text = s.text /\ t.score >= s.score]_engineVars

\* The cache never holds more than its cap, and its keys are in the order of use
\* without a duplicate, whoever reads and writes it between.
CacheBounded ==
    /\ Len(order) <= MaxEntries
    /\ ToSet(order) = DOMAIN store
    /\ Len(order) = Cardinality(DOMAIN store)

\* The user is told that the model cannot be reached only after every provider was
\* tried as often as its own retries allow, and none is tried more often than the
\* retries of the guard and its own together allow.
ApologyMeansExhausted ==
    [][\A a \in Askers :
         /\ at[a] = "prompt" /\ at'[a] = "apology" =>
              \A m \in 1..Models : LLM!Tried(a)[m] > ProviderRetries
         /\ \A m \in 1..Models : tries'[a][m] <= (GuardRetries + 1) * (ProviderRetries + 1)]_engineVars

\* Whoever asks gets an answer.
AskerAnswered == \A a \in Askers : at[a] \notin Returned ~> at[a] \in Returned

\* knowledge/internet/cache.py: the cache exists to "avoid hammering public APIs on
\* repeated/duplicate queries": no live fetch of what the cache has.
NoDuplicateFetch ==
    [][\A a \in Askers : at[a] # "fetch" /\ at'[a] = "fetch" => ~Fresh(question[a])]_engineVars
=============================================================================
