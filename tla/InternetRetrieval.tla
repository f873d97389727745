-------------------------- MODULE InternetRetrieval -------------------------
(***************************************************************************)
(* Live facts for several askers at once: knowledge/internet/service.py    *)
(* with its cache, its rate limit, its providers and the HTTP client they  *)
(* share.  Time is kept as ages and timers that Tick moves and that stop   *)
(* at the value after which they make no difference.                       *)
(***************************************************************************)
EXTENDS Integers, SequencesExt

CONSTANTS
    Askers,         \* the tasks that ask concurrently
    Questions,      \* the queries
    Ttl,            \* ttl_seconds of the cache
    MaxEntries,     \* max_entries of the cache
    MinInterval,    \* min_interval_seconds of the service
    OverallTimeout, \* overall_timeout of the service
    HttpRetries,    \* max_retries of the HTTP client
    PerProvider,    \* max_results_per_provider
    Nobody          \* no asker, no query

ASSUME RetrievalAssumption ==
    /\ {Ttl, MaxEntries, MinInterval, OverallTimeout, PerProvider} \subseteq Nat \ {0}
    /\ HttpRetries \in Nat
    /\ Nobody \notin Askers

VARIABLES
    at,         \* where each asker is
    question,   \* the query it retrieves, or Nobody
    timer,      \* the time until its sleep or its timeout ends
    attempts,   \* of each provider's request: the attempts made
    running,    \* the providers that have not come back
    found,      \* of each provider: what it has found
    store,      \* the cache: key -> [age, value]
    order,      \* its keys, the least recently used first
    sinceFetch, \* clock() - _last_fetch_at
    holder      \* the holder of _rate_lock

fetchVars == <<attempts, running, found>>
cacheVars == <<store, order>>
netVars   == <<timer, fetchVars, cacheVars, sinceFetch, holder>>

Providers == {"duckduckgo", "wikipedia"}

(***************************************************************************)
(* What a provider makes of the data it gets: an instant answer and its    *)
(* related topics, or the leads of the best articles, so many at most.     *)
(***************************************************************************)
Snippet(text, score) == [text |-> text, score |-> score]
Clip(snippets) == SubSeq(snippets, 1, IF Len(snippets) > PerProvider THEN PerProvider ELSE Len(snippets))

InstantAnswers ==
    {Clip(primary \o topics) : primary \in {<<>>, <<Snippet("fact", 80)>>},
                               topics \in {<<>>, <<Snippet("topic", 50)>>}}
Articles == {Clip(<<>>), Clip(<<Snippet("fact", 70)>>)}

Answers(p) == IF p = "duckduckgo" THEN InstantAnswers ELSE Articles

\* _dedupe_and_rank(): the first of equal texts, best score first, else as they came.
DedupeAndRank(snippets) ==
    LET first == {i \in DOMAIN snippets :
                    \A j \in 1..(i - 1) : snippets[j].text # snippets[i].text}
        Ahead(i, j) == \/ snippets[i].score > snippets[j].score
                       \/ snippets[i].score = snippets[j].score /\ i <= j
        Rank(j) == Cardinality({i \in first : Ahead(i, j)})
    IN  [n \in 1..Cardinality(first) |-> snippets[CHOOSE j \in first : Rank(j) = n]]

Merged(f) == DedupeAndRank(f["duckduckgo"] \o f["wikipedia"])

NetInit ==
    /\ timer = [a \in Askers |-> 0]
    /\ attempts = [a \in Askers |-> [p \in Providers |-> 0]]
    /\ running = [a \in Askers |-> {}]
    /\ found = [a \in Askers |-> [p \in Providers |-> <<>>]]
    /\ store = <<>>
    /\ order = <<>>
    /\ sinceFetch = MinInterval       \* _last_fetch_at = -inf
    /\ holder = Nobody

Goto(a, where) == at' = [at EXCEPT ![a] = where]

\* retrieve() has returned.
Retrieved(a) == Goto(a, "prompt") /\ question' = [question EXCEPT ![a] = Nobody]

(***************************************************************************)
(* TTLCache: get() drops what has expired, set() the oldest beyond the cap.*)
(***************************************************************************)
Fresh(key) == key \in DOMAIN store /\ store[key].age < Ttl

Removed(key) ==
    IF key \in ToSet(order) THEN RemoveAt(order, CHOOSE i \in DOMAIN order : order[i] = key)
                            ELSE order
Used(key) == Append(Removed(key), key)

CacheGet(a) ==
    LET key == question[a] IN
    IF Fresh(key)
      THEN /\ order' = Used(key)
           /\ UNCHANGED store
           /\ Retrieved(a)
      ELSE /\ store' = [k \in DOMAIN store \ {key} |-> store[k]]
           /\ order' = Removed(key)
           /\ Goto(a, "limit")
           /\ UNCHANGED question

CacheSet(key, value) ==
    LET used == Used(key)
        kept == SubSeq(used, IF Len(used) > MaxEntries THEN Len(used) - MaxEntries + 1 ELSE 1, Len(used))
    IN  /\ order' = kept
        /\ store' = [k \in ToSet(kept) |-> IF k = key THEN [age |-> 0, value |-> value]
                                                      ELSE store[k]]

Lookup(a) ==
    /\ at[a] = "lookup"
    /\ CacheGet(a)
    /\ UNCHANGED <<timer, fetchVars, sinceFetch, holder>>

(***************************************************************************)
(* _respect_rate_limit() and the start of _fan_out(): there is no await    *)
(* between them.                                                           *)
(***************************************************************************)
StartFetch(a) ==
    /\ sinceFetch' = 0
    /\ timer' = [timer EXCEPT ![a] = OverallTimeout]
    /\ running' = [running EXCEPT ![a] = Providers]
    /\ UNCHANGED <<attempts, found>>
    /\ Goto(a, "fetch")

\* Fault: the lock is not held while the asker sleeps.
RateLimit_Unlocked(a) ==
    /\ at[a] = "limit"
    /\ IF sinceFetch >= MinInterval
         THEN StartFetch(a)
         ELSE /\ timer' = [timer EXCEPT ![a] = MinInterval - sinceFetch]
              /\ Goto(a, "sleep")
              /\ UNCHANGED <<fetchVars, sinceFetch>>
    /\ UNCHANGED <<question, cacheVars, holder>>

\* Fault: the lock is released only by who has slept.
RateLimit_KeepsLock(a) ==
    /\ at[a] = "limit"
    /\ holder = Nobody
    /\ holder' = a
    /\ IF sinceFetch >= MinInterval
         THEN StartFetch(a)
         ELSE /\ timer' = [timer EXCEPT ![a] = MinInterval - sinceFetch]
              /\ Goto(a, "sleep")
              /\ UNCHANGED <<fetchVars, sinceFetch>>
    /\ UNCHANGED <<question, cacheVars>>

RateLimit(a) ==
    /\ at[a] = "limit"
    /\ holder = Nobody
    /\ IF sinceFetch >= MinInterval
         THEN StartFetch(a) /\ UNCHANGED holder
         ELSE /\ holder' = a
              /\ timer' = [timer EXCEPT ![a] = MinInterval - sinceFetch]
              /\ Goto(a, "sleep")
              /\ UNCHANGED <<fetchVars, sinceFetch>>
    /\ UNCHANGED <<question, cacheVars>>

Wake(a) ==
    /\ at[a] = "sleep"
    /\ timer[a] = 0
    /\ StartFetch(a)
    /\ holder' = Nobody
    /\ UNCHANGED <<question, cacheVars>>

(***************************************************************************)
(* SafeHttpClient.get_json(): a timeout or a transport error is tried      *)
(* again, a redirect, an error status, a body that is too large or that is *)
(* not JSON never is.  A provider makes an empty list of any failure.      *)
(***************************************************************************)
Back(a, p, snippets) ==
    /\ found' = [found EXCEPT ![a][p] = snippets]
    /\ running' = [running EXCEPT ![a] = @ \ {p}]
    /\ attempts' = [attempts EXCEPT ![a][p] = 0]

HttpGet(a, p) ==
    /\ p \in running[a]
    /\ \/ \E snippets \in Answers(p) : Back(a, p, snippets)         \* or it is refused
       \/ /\ attempts[a][p] < HttpRetries                             \* transient
          /\ attempts' = [attempts EXCEPT ![a][p] = @ + 1]
          /\ UNCHANGED <<running, found>>
       \/ /\ attempts[a][p] = HttpRetries
          /\ Back(a, p, <<>>)
    /\ UNCHANGED <<at, question, timer, cacheVars, sinceFetch, holder>>

Keep(a, snippets) ==
    /\ CacheSet(question[a], snippets)
    /\ running' = [running EXCEPT ![a] = {}]
    /\ attempts' = [attempts EXCEPT ![a] = [p \in Providers |-> 0]]
    /\ found' = [found EXCEPT ![a] = [p \in Providers |-> <<>>]]
    /\ timer' = [timer EXCEPT ![a] = 0]
    /\ Retrieved(a)
    /\ UNCHANGED <<sinceFetch, holder>>

Gathered(a) ==
    /\ at[a] = "fetch" /\ running[a] = {}
    /\ Keep(a, Merged(found[a]))

\* Fault: nothing is salvaged of a batch that timed out.
FetchTimesOut_DropsAll(a) ==
    /\ at[a] = "fetch" /\ running[a] # {} /\ timer[a] = 0
    /\ Keep(a, <<>>)

\* wait_for() cancels what is still running; what has come back is kept.
FetchTimesOut(a) ==
    /\ at[a] = "fetch" /\ running[a] # {} /\ timer[a] = 0
    /\ Keep(a, Merged(found[a]))

Older(age, most) == IF age < most THEN age + 1 ELSE age

Tick ==
    /\ timer' = [a \in Askers |-> IF timer[a] > 0 THEN timer[a] - 1 ELSE 0]
    /\ store' = [k \in DOMAIN store |-> [store[k] EXCEPT !.age = Older(@, Ttl)]]
    /\ sinceFetch' = Older(sinceFetch, MinInterval)
    /\ UNCHANGED <<at, question, fetchVars, order, holder>>

Retrieve(a) ==
    \/ Lookup(a) \/ RateLimit(a) \/ Wake(a)
    \/ \E p \in Providers : HttpGet(a, p)
    \/ Gathered(a) \/ FetchTimesOut(a)
=============================================================================
