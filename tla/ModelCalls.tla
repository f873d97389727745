------------------------------ MODULE ModelCalls ----------------------------
(***************************************************************************)
(* Calls of the language model: the guard (runtime/llm_guard.py) that      *)
(* tries the primary provider and its fallbacks, and within each of its    *)
(* attempts the retries of the provider itself (llm/base.py).  The backoff *)
(* between two attempts has no effect but time.                            *)
(***************************************************************************)
EXTENDS Integers

CONSTANTS
    Callers,            \* the tasks that call concurrently
    Models,             \* how many providers: the primary is 1
    GuardRetries,       \* GuardConfig.max_retries
    ProviderRetries     \* LLMConfig.max_retries

VARIABLES
    call,   \* [model, attempt, retry] of the call in progress
    tries   \* history: the requests it has made of each model

callVars == <<call, tries>>

First(m) == [model |-> m, attempt |-> 0, retry |-> 0]

CallInit ==
    /\ call = [c \in Callers |-> First(1)]
    /\ tries = [c \in Callers |-> [m \in 1..Models |-> 0]]

\* One request: the HTTP client translates what goes wrong; of the JSON it gets the
\* provider makes a text (maybe an empty one), an error if the message is missing,
\* or an exception of another kind if it is of an unexpected shape.
Transport == {"json", "timeout", "error"}
Parsed    == {"text", "nothing", "error", "malformed"}
Responses == (Transport \ {"json"}) \cup Parsed

Retried(c, response) ==
    response \in {"timeout", "error"} /\ call[c].retry < ProviderRetries

TriedAgain(c, response) ==
    ~Retried(c, response) /\ response = "timeout" /\ call[c].attempt < GuardRetries

\* Fault: an error of one provider ends the loop over all of them.
FallsBack_NotOnError(c, response) ==
    /\ response = "timeout"
    /\ ~Retried(c, response) /\ ~TriedAgain(c, response)
    /\ call[c].model < Models

FallsBack(c, response) ==
    /\ response \in {"timeout", "error"}
    /\ ~Retried(c, response) /\ ~TriedAgain(c, response)
    /\ call[c].model < Models

\* The request is made; the call goes on with another one ...
Tried(c) == [tries[c] EXCEPT ![call[c].model] = @ + 1]

GoesOn(c, response) ==
    /\ tries' = [tries EXCEPT ![c] = Tried(c)]
    /\ \/ /\ Retried(c, response)
          /\ call' = [call EXCEPT ![c].retry = @ + 1]
       \/ /\ TriedAgain(c, response)
          /\ call' = [call EXCEPT ![c].attempt = @ + 1, ![c].retry = 0]
       \/ /\ FallsBack(c, response)
          /\ call' = [call EXCEPT ![c] = First(call[c].model + 1)]

\* ... or ends: with the answer, with the graceful message when every provider has
\* failed, or with the exception of what is not an LLMError.
Ends(c, response) ==
    /\ ~Retried(c, response) /\ ~TriedAgain(c, response) /\ ~FallsBack(c, response)
    /\ call' = [call EXCEPT ![c] = First(1)]
    /\ tries' = [tries EXCEPT ![c] = [m \in 1..Models |-> 0]]

Outcome(response) == IF response \in {"timeout", "error"} THEN "apology" ELSE "idle"
=============================================================================
