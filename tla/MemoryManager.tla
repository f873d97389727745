---------------------------- MODULE MemoryManager ----------------------------
(***************************************************************************)
(* memory/memory_manager.py and the upsert of memory/persistent_memory.py: *)
(* a memory lives in a vector store, in a document store and in working    *)
(* memory, and every operation goes through them one call at a time.       *)
(*                                                                         *)
(* The calls of the two stores run in executor threads, so operations of   *)
(* several callers interleave between them; a call may raise, its caller   *)
(* may be cancelled, and the process may crash, which empties working      *)
(* memory and nothing else.  A call takes effect before its caller is      *)
(* cancelled or not at all.  Operations on one id do not overlap: ids are  *)
(* UUIDs or the keys of the one user's profile.                            *)
(*                                                                         *)
(* Contents are told apart by which of them embed as near-duplicates.      *)
(***************************************************************************)
EXTENDS Integers

CONSTANTS Callers,
          Keys,         \* ids chosen by the caller: preferences, projects, remember()
          Uuids,        \* ids of memories stored once
          Contents,
          Similar,      \* pairs of contents above the dedup threshold
          None,         \* no memory
          MaxFaults     \* bound: failed calls, cancellations and crashes

Ids == Keys \cup Uuids

ASSUME MemoryAssumption ==
    /\ Keys \cap Uuids = {}
    /\ None \notin Contents \cup Ids
    /\ Similar \subseteq Contents \X Contents
    /\ \A x \in Contents : <<x, x>> \in Similar
    /\ MaxFaults \in Nat

VARIABLES
    vectors,     \* the vector store: whose content each id's vector embeds
    documents,   \* the document store
    working,     \* working memory
    stale,       \* history: ids whose document was replaced under a copy there
    pc,          \* the call each caller makes next
    kind,        \* its operation
    target,      \* the id it is about
    content,     \* the content it stores
    minted,      \* UUIDs given out
    alone,       \* history: has no other operation run beside this one?
    faults       \* history: how many faults so far

stores == <<vectors, documents, working, stale>>
calls  == <<kind, target, content>>
vars   == <<stores, pc, calls, minted, alone, faults>>

Memory == [Ids -> Contents \cup {None}]

TypeOK ==
    /\ vectors \in Memory
    /\ documents \in Memory
    /\ working \in Memory
    /\ stale \subseteq Ids
    /\ pc \in [Callers -> {"idle", "check", "vector", "document", "working",
                           "delete_document", "delete_vector"}]
    /\ kind \in [Callers -> {"none", "store", "forget", "upsert"}]
    /\ target \in [Callers -> Ids \cup {None}]
    /\ content \in [Callers -> Contents \cup {None}]
    /\ minted \subseteq Uuids
    /\ alone \in [Callers -> BOOLEAN]
    /\ faults \in 0..MaxFaults

Init ==
    /\ vectors = [i \in Ids |-> None]
    /\ documents = [i \in Ids |-> None]
    /\ working = [i \in Ids |-> None]
    /\ stale = {}
    /\ pc = [c \in Callers |-> "idle"]
    /\ kind = [c \in Callers |-> "none"]
    /\ target = [c \in Callers |-> None]
    /\ content = [c \in Callers |-> None]
    /\ minted = {}
    /\ alone = [c \in Callers |-> TRUE]
    /\ faults = 0

(***************************************************************************)
(* Beginning and ending an operation.                                      *)
(***************************************************************************)
Active == {c \in Callers : pc[c] # "idle"}

Begin(c, k, i, x, first) ==
    /\ pc[c] = "idle"
    /\ \A d \in Active : target[d] # i
    /\ pc' = [pc EXCEPT ![c] = first]
    /\ kind' = [kind EXCEPT ![c] = k]
    /\ target' = [target EXCEPT ![c] = i]
    /\ content' = [content EXCEPT ![c] = x]
    /\ alone' = [d \in Callers |-> IF d = c THEN Active = {}
                                   ELSE alone[d] /\ d \notin Active]

Goto(c, next) ==
    /\ pc' = [pc EXCEPT ![c] = next]
    /\ UNCHANGED <<calls, minted, alone, faults>>

\* The state of a caller whose operation is over.
Release(c) ==
    /\ pc' = [pc EXCEPT ![c] = "idle"]
    /\ kind' = [kind EXCEPT ![c] = "none"]
    /\ target' = [target EXCEPT ![c] = None]
    /\ content' = [content EXCEPT ![c] = None]
    /\ alone' = [alone EXCEPT ![c] = TRUE]

Return(c) ==
    /\ Release(c)
    /\ UNCHANGED <<minted, faults>>

\* Up to its first call store() only computes the embedding.
Store(c) ==
    \E i \in Uuids \ minted, x \in Contents :
        /\ Begin(c, "store", i, x, "check")
        /\ minted' = minted \cup {i}
        /\ UNCHANGED <<stores, faults>>

\* remember() stores under its caller's key, whether or not that is in use.
Remember(c) ==
    \E i \in Keys, x \in Contents :
        /\ Begin(c, "store", i, x, "check")
        /\ UNCHANGED <<stores, minted, faults>>

\* Fault: forget() leaves the copy in working memory.
Dropped_Not(i) == working

\* forget() and _upsert() take the memory out of working memory at once.
Dropped(i) == [working EXCEPT ![i] = None]

Forget(c) ==
    \E i \in Ids :
        /\ Begin(c, "forget", i, None, "delete_document")
        /\ working' = Dropped(i)
        /\ stale' = stale \ {i}
        /\ UNCHANGED <<vectors, documents, minted, faults>>

Upsert(c) ==
    \E i \in Keys, x \in Contents :
        /\ Begin(c, "upsert", i, x, "delete_document")
        /\ working' = Dropped(i)
        /\ stale' = stale \ {i}
        /\ UNCHANGED <<vectors, documents, minted, faults>>

(***************************************************************************)
(* store().                                                                *)
(***************************************************************************)
Duplicates(x) == {i \in Ids : vectors[i] # None /\ <<vectors[i], x>> \in Similar}

\* A duplicate ends the operation: its id is the answer.
CheckDuplicate(c) ==
    /\ pc[c] = "check"
    /\ IF Duplicates(content[c]) = {} THEN Goto(c, "vector") ELSE Return(c)
    /\ UNCHANGED stores

\* Fault: the document is stored before the vector.
AddVector_Later(c) ==
    /\ pc[c] = "vector"
    /\ documents' = [documents EXCEPT ![target[c]] = content[c]]
    /\ Goto(c, "document")
    /\ UNCHANGED <<vectors, working, stale>>

\* The vector store ignores an id that it holds already.
AddVector(c) ==
    /\ pc[c] = "vector"
    /\ vectors' = [vectors EXCEPT ![target[c]] = IF @ = None THEN content[c] ELSE @]
    /\ Goto(c, "document")
    /\ UNCHANGED <<documents, working, stale>>

\* The document store replaces the document of an id that it holds already.
StoreDocument(c) ==
    /\ pc[c] = "document"
    /\ documents' = [documents EXCEPT ![target[c]] = content[c]]
    /\ stale' = IF working[target[c]] \in {None, content[c]} THEN stale \ {target[c]}
                                                            ELSE stale \cup {target[c]}
    /\ Goto(c, "working")
    /\ UNCHANGED <<vectors, working>>

\* Entries past the capacity or the time to live go with any access.
Evicted(w) == {v \in Memory : \A i \in Ids : v[i] \in {w[i], None}}

\* recall() and retrieve() change nothing but that.
Recall ==
    /\ working' \in Evicted(working)
    /\ UNCHANGED <<vectors, documents, stale, pc, calls, minted, alone, faults>>

AddToWorking(c) ==
    /\ pc[c] = "working"
    /\ \E w \in Evicted(working) : working' = [w EXCEPT ![target[c]] = content[c]]
    /\ stale' = stale \ {target[c]}
    /\ Return(c)
    /\ UNCHANGED <<vectors, documents>>

(***************************************************************************)
(* forget(), and the first half of _upsert().                              *)
(***************************************************************************)
\* Fault: an upsert ends when the old memory is gone.
AfterForget_Upsert(c) == Return(c)

AfterForget(c) == IF kind[c] = "upsert" THEN Goto(c, "check") ELSE Return(c)

\* The vector is deleted only if there was a document.
DeleteDocument(c) ==
    /\ pc[c] = "delete_document"
    /\ documents' = [documents EXCEPT ![target[c]] = None]
    /\ IF documents[target[c]] # None THEN Goto(c, "delete_vector") ELSE AfterForget(c)
    /\ UNCHANGED <<vectors, working, stale>>

\* Fault: the vector stays.
DeleteVector_Not(c) ==
    /\ pc[c] = "delete_vector"
    /\ AfterForget(c)
    /\ UNCHANGED stores

DeleteVector(c) ==
    /\ pc[c] = "delete_vector"
    /\ vectors' = [vectors EXCEPT ![target[c]] = None]
    /\ AfterForget(c)
    /\ UNCHANGED <<documents, working, stale>>

(***************************************************************************)
(* Faults.                                                                 *)
(***************************************************************************)
Fault ==
    /\ faults < MaxFaults
    /\ faults' = faults + 1

\* The call raises, or the caller is cancelled: the operation is over.
OperationFails(c) ==
    /\ c \in Active
    /\ Fault
    /\ Release(c)
    /\ UNCHANGED <<stores, minted>>

\* An exception of the vector store in forget() is logged, and one of forget()
\* itself in _upsert(): the operation goes on.
ForgetFailsQuietly(c) ==
    /\ \/ pc[c] = "delete_vector"
       \/ pc[c] = "delete_document" /\ kind[c] = "upsert"
    /\ Fault
    /\ IF kind[c] = "upsert"
       THEN pc' = [pc EXCEPT ![c] = "check"] /\ UNCHANGED <<calls, alone>>
       ELSE Release(c)
    /\ UNCHANGED <<stores, minted>>

\* The process dies; the next one restores some of the stored turns to working
\* memory before anything else happens.
CrashAndRestore ==
    /\ Fault
    /\ \E w \in Evicted(documents) : working' = w
    /\ stale' = {}
    /\ pc' = [c \in Callers |-> "idle"]
    /\ kind' = [c \in Callers |-> "none"]
    /\ target' = [c \in Callers |-> None]
    /\ content' = [c \in Callers |-> None]
    /\ alone' = [c \in Callers |-> TRUE]
    /\ UNCHANGED <<vectors, documents, minted>>

Call(c) ==
    \/ Store(c) \/ Remember(c) \/ Forget(c) \/ Upsert(c)
    \/ CheckDuplicate(c) \/ AddVector(c) \/ StoreDocument(c) \/ AddToWorking(c)
    \/ DeleteDocument(c) \/ DeleteVector(c)
    \/ OperationFails(c) \/ ForgetFailsQuietly(c)

Next == Recall \/ CrashAndRestore \/ \E c \in Callers : Call(c)

Spec == Init /\ [][Next]_vars

-----------------------------------------------------------------------------
(***************************************************************************)
(* Whatever fails and wherever the process dies, a stored document can be  *)
(* found by search: it has a vector.                                       *)
(***************************************************************************)
DocumentsSearchable == \A i \in Ids : documents[i] # None => vectors[i] # None

(***************************************************************************)
(* recall() and retrieve() look in working memory first, and tell what the *)
(* document store would: except of an id that remember() has overwritten   *)
(* there, as long as the new content has not reached working memory.       *)
(***************************************************************************)
WorkingIsCurrent == \A i \in Ids \ stale : working[i] \in {documents[i], None}

(***************************************************************************)
(* Between operations, and as long as nothing has failed, the two stores   *)
(* hold memories of the same ids, and working memory tells nothing else    *)
(* than the document store.                                                *)
(***************************************************************************)
StoresHoldTheSame ==
    faults = 0 /\ Active = {} =>
        \A i \in Ids : /\ vectors[i] = None <=> documents[i] = None
                       /\ working[i] \in {documents[i], None}

(***************************************************************************)
(* "The data dict is wrapped in a MemoryItem and stored across all         *)
(* backends": under the same conditions a memory's vector embeds its       *)
(* document.  A remember() of a key in use breaks this: its document is    *)
(* replaced, its vector is not.                                            *)
(***************************************************************************)
ConsistentWithoutFaults == faults = 0 /\ Active = {} => vectors = documents

(***************************************************************************)
(* An operation that runs by itself adds no near-duplicate of another      *)
(* memory.                                                                 *)
(***************************************************************************)
NoDuplicateAlone ==
    [][\A c \in Callers :
          alone[c] /\ pc[c] = "vector" /\ pc'[c] = "document" =>
             \A i \in Ids \ {target[c]} :
                vectors[i] = None \/ <<vectors[i], content[c]>> \notin Similar]_vars

Returns(c) == pc[c] # "idle" /\ pc'[c] = "idle" /\ faults' = faults

(***************************************************************************)
(* store() that runs by itself, and nothing having failed before, leaves   *)
(* its content in the document store, or a memory that is a near-duplicate *)
(* of it by its document or by its vector.  Where remember() has           *)
(* overwritten a memory the two differ: its old vector then makes store()  *)
(* drop a content that no document is similar to.                          *)
(***************************************************************************)
StoreKeepsContent ==
    [][\A c \in Callers :
          Returns(c) /\ kind[c] \in {"store", "upsert"} /\ alone[c] /\ faults = 0 =>
             \E i \in Ids :
                /\ documents'[i] # None
                /\ \/ <<documents'[i], content[c]>> \in Similar
                   \/ <<vectors'[i], content[c]>> \in Similar]_vars

(***************************************************************************)
(* "Forget-then-store guarantees clean replacement": once _upsert() has    *)
(* returned, its key has the new content.                                  *)
(***************************************************************************)
UpsertReplaces ==
    [][\A c \in Callers :
          Returns(c) /\ kind[c] = "upsert" => documents'[target[c]] = content[c]]_vars

(***************************************************************************)
(* "Removes from working memory, document store, and vector store": once   *)
(* forget() has returned, the memory is in none of them.                   *)
(***************************************************************************)
ForgetRemoves ==
    [][\A c \in Callers :
          Returns(c) /\ kind[c] = "forget" =>
             /\ working'[target[c]] = None
             /\ documents'[target[c]] = None
             /\ vectors'[target[c]] = None]_vars
=============================================================================
