------------------------- MODULE MemoryManagerProofs -------------------------
(***************************************************************************)
(* Proofs about MemoryManager, for any callers, ids, contents and number   *)
(* of faults.                                                              *)
(***************************************************************************)
EXTENDS MemoryManager, TLAPS

Storing  == {"check", "vector", "document", "working"}
Deleting == {"delete_document", "delete_vector"}

\* Operations under way have ids of their own.
OwnTargets ==
    /\ \A c \in Active : target[c] \in Ids
    /\ \A c, d \in Active : target[c] = target[d] => c = d

\* A UUID that is not given out is nowhere.
Fresh == \A i \in Uuids \ minted : vectors[i] = None /\ documents[i] = None

\* What is being forgotten is not in working memory.
NotInWorking == \A c \in Callers : pc[c] \in Deleting => working[target[c]] = None

\* What an operation has done so far.
Progress ==
    /\ \A c \in Callers :
          /\ pc[c] \in Storing => content[c] \in Contents /\ kind[c] \in {"store", "upsert"}
          /\ pc[c] \in Deleting /\ kind[c] = "upsert" => content[c] \in Contents
          /\ pc[c] \in Deleting => kind[c] \in {"forget", "upsert"}
          /\ pc[c] \in Storing => target[c] \in Keys \cup minted
          /\ pc[c] \in Deleting /\ kind[c] = "upsert" => target[c] \in Keys
          /\ pc[c] = "document" => vectors[target[c]] # None
          /\ pc[c] = "working" =>
                vectors[target[c]] # None /\ documents[target[c]] = content[c]
          /\ pc[c] = "delete_vector" => documents[target[c]] = None

\* Without faults the stores differ in the ids of operations only, each of these
\* has come as far as its operation, and a stale copy is about to be replaced.
Agreement ==
    faults = 0 =>
        /\ \A i \in Ids : \/ vectors[i] = None <=> documents[i] = None
                          \/ \E c \in Active : target[c] = i
        /\ \A c \in Callers :
              pc[c] \in {"check", "vector", "delete_document"} =>
                 (vectors[target[c]] = None <=> documents[target[c]] = None)
        /\ \A i \in stale : \E c \in Callers : pc[c] = "working" /\ target[c] = i

Safe == DocumentsSearchable /\ WorkingIsCurrent

\* An operation that runs by itself is the only one, and what it has found to be
\* new is new.
Undisturbed ==
    \A c \in Active :
        alone[c] =>
            /\ Active = {c}
            /\ pc[c] = "vector" =>
                  \A i \in Ids : vectors[i] = None \/ <<vectors[i], content[c]>> \notin Similar

IInv ==
    /\ TypeOK /\ OwnTargets /\ Fresh /\ NotInWorking
    /\ Progress /\ Safe /\ Agreement /\ Undisturbed

-----------------------------------------------------------------------------
LEMMA InitIInv == Init => IInv
  BY MemoryAssumption
     DEF Init, IInv, Undisturbed, TypeOK, OwnTargets, Fresh, NotInWorking, Progress, Safe, Agreement,
         DocumentsSearchable, WorkingIsCurrent, Active, Memory, Ids, Storing, Deleting

\* The state of the caller whose operation begins, whichever it is.
LEMMA BeginTypes ==
    ASSUME TypeOK, NEW c \in Callers, NEW k \in {"store", "forget", "upsert"}, NEW i \in Ids,
           NEW x \in Contents \cup {None}, NEW first \in {"check", "delete_document"},
           Begin(c, k, i, x, first)
    PROVE  /\ pc' \in [Callers -> {"idle", "check", "vector", "document", "working",
                                   "delete_document", "delete_vector"}]
           /\ kind' \in [Callers -> {"none", "store", "forget", "upsert"}]
           /\ target' \in [Callers -> Ids \cup {None}]
           /\ content' \in [Callers -> Contents \cup {None}]
           /\ alone' \in [Callers -> BOOLEAN]
<1>1. alone' \in [Callers -> BOOLEAN]
  <2>1. \A d \in Callers : (IF d = c THEN Active = {} ELSE alone[d] /\ d \notin Active) \in BOOLEAN
    OBVIOUS
  <2> QED BY <2>1, Zenon DEF Begin
<1> QED BY <1>1 DEF TypeOK, Begin

LEMMA BeginUndisturbed ==
    ASSUME TypeOK, Undisturbed, NEW c \in Callers, NEW k, NEW i, NEW x, NEW first,
           first # "idle", first # "vector", Begin(c, k, i, x, first)
    PROVE  Undisturbed'
<1> SUFFICES ASSUME NEW d \in Callers, (d \in Active)', alone'[d] PROVE (Active = {d})' /\ pc'[d] # "vector"
  BY DEF Undisturbed, Active
<1>1. d = c /\ Active = {}
  <2>1. alone'[d] = IF d = c THEN Active = {} ELSE alone[d] /\ d \notin Active
    BY DEF Begin
  <2>2. d = c
    BY <2>1 DEF Begin, Active, TypeOK
  <2> QED BY <2>1, <2>2
<1> QED BY <1>1 DEF Begin, Active, TypeOK

LEMMA StoreKeeps ==
    ASSUME NEW c \in Callers, IInv, Store(c)
    PROVE  IInv'
<1>1. PICK i \in Uuids \ minted, x \in Contents :
          Begin(c, "store", i, x, "check")
  BY DEF Store
<1>2. Undisturbed'
  BY <1>1, BeginUndisturbed DEF IInv
<1>3. TypeOK'
  BY <1>1, BeginTypes DEF IInv, TypeOK, Ids, Store, stores, Memory
<1> USE MemoryAssumption DEF IInv, Active, Ids, Storing, Deleting, stores, calls,
                             Store, Begin
<1>4. OwnTargets'
  BY DEF TypeOK, OwnTargets
<1>5. Fresh'
  BY DEF TypeOK, OwnTargets, Fresh, Progress, Memory
<1>6. NotInWorking'
  BY DEF TypeOK, OwnTargets, Fresh, NotInWorking, Safe, WorkingIsCurrent, Memory
<1>7. Progress'
  BY DEF TypeOK, OwnTargets, Progress, Memory
<1>8. Safe'
  BY DEF TypeOK, OwnTargets, NotInWorking, Progress, Safe,
           DocumentsSearchable, WorkingIsCurrent, Memory
<1>9. Agreement'
  BY DEF TypeOK, OwnTargets, Fresh, Progress, Agreement, Memory
<1> QED BY <1>2, <1>3, <1>4, <1>5, <1>6, <1>7, <1>8, <1>9

LEMMA RememberKeeps ==
    ASSUME NEW c \in Callers, IInv, Remember(c)
    PROVE  IInv'
<1>1. PICK i \in Keys, x \in Contents :
          Begin(c, "store", i, x, "check")
  BY DEF Remember
<1>2. Undisturbed'
  BY <1>1, BeginUndisturbed DEF IInv
<1>3. TypeOK'
  BY <1>1, BeginTypes DEF IInv, TypeOK, Ids, Remember, stores, Memory
<1> USE MemoryAssumption DEF IInv, Active, Ids, Storing, Deleting, stores, calls,
                             Remember, Begin
<1>4. OwnTargets'
  BY DEF TypeOK, OwnTargets
<1>5. Fresh'
  BY DEF TypeOK, OwnTargets, Fresh, Progress, Memory
<1>6. NotInWorking'
  BY DEF TypeOK, OwnTargets, Fresh, NotInWorking, Safe, WorkingIsCurrent, Memory
<1>7. Progress'
  BY DEF TypeOK, OwnTargets, Progress, Memory
<1>8. Safe'
  BY DEF TypeOK, OwnTargets, NotInWorking, Progress, Safe,
           DocumentsSearchable, WorkingIsCurrent, Memory
<1>9. Agreement'
  BY DEF TypeOK, OwnTargets, Fresh, Progress, Agreement, Memory
<1> QED BY <1>2, <1>3, <1>4, <1>5, <1>6, <1>7, <1>8, <1>9

LEMMA ForgetKeeps ==
    ASSUME NEW c \in Callers, IInv, Forget(c)
    PROVE  IInv'
<1>1. PICK i \in Ids :
          Begin(c, "forget", i, None, "delete_document") /\ working' = Dropped(i)
  BY DEF Forget
<1>2. Undisturbed'
  BY <1>1, BeginUndisturbed DEF IInv
<1>3. TypeOK'
  BY <1>1, BeginTypes DEF IInv, TypeOK, Ids, Forget, Dropped, Memory
<1> USE MemoryAssumption DEF IInv, Active, Ids, Storing, Deleting, stores, calls,
                             Forget, Begin, Dropped
<1>4. OwnTargets'
  BY DEF TypeOK, OwnTargets
<1>5. Fresh'
  BY DEF TypeOK, OwnTargets, Fresh, Progress, Memory
<1>6. NotInWorking'
  BY DEF TypeOK, OwnTargets, Fresh, NotInWorking, Safe, WorkingIsCurrent, Memory
<1>7. Progress'
  BY DEF TypeOK, OwnTargets, Progress, Memory
<1>8. Safe'
  BY DEF TypeOK, OwnTargets, NotInWorking, Progress, Safe,
           DocumentsSearchable, WorkingIsCurrent, Memory
<1>9. Agreement'
  BY DEF TypeOK, OwnTargets, Fresh, Progress, Agreement, Memory
<1> QED BY <1>2, <1>3, <1>4, <1>5, <1>6, <1>7, <1>8, <1>9

LEMMA UpsertKeeps ==
    ASSUME NEW c \in Callers, IInv, Upsert(c)
    PROVE  IInv'
<1>1. PICK i \in Keys, x \in Contents :
          Begin(c, "upsert", i, x, "delete_document") /\ working' = Dropped(i)
  BY DEF Upsert
<1>2. Undisturbed'
  BY <1>1, BeginUndisturbed DEF IInv
<1>3. TypeOK'
  BY <1>1, BeginTypes DEF IInv, TypeOK, Ids, Upsert, Dropped, Memory
<1> USE MemoryAssumption DEF IInv, Active, Ids, Storing, Deleting, stores, calls,
                             Upsert, Begin, Dropped
<1>4. OwnTargets'
  BY DEF TypeOK, OwnTargets
<1>5. Fresh'
  BY DEF TypeOK, OwnTargets, Fresh, Progress, Memory
<1>6. NotInWorking'
  BY DEF TypeOK, OwnTargets, Fresh, NotInWorking, Safe, WorkingIsCurrent, Memory
<1>7. Progress'
  BY DEF TypeOK, OwnTargets, Progress, Memory
<1>8. Safe'
  BY DEF TypeOK, OwnTargets, NotInWorking, Progress, Safe,
           DocumentsSearchable, WorkingIsCurrent, Memory
<1>9. Agreement'
  BY DEF TypeOK, OwnTargets, Fresh, Progress, Agreement, Memory
<1> QED BY <1>2, <1>3, <1>4, <1>5, <1>6, <1>7, <1>8, <1>9

LEMMA CheckDuplicateKeeps ==
    ASSUME NEW c \in Callers, IInv, CheckDuplicate(c)
    PROVE  IInv'
<1> USE MemoryAssumption DEF IInv, Active, Ids, Storing, Deleting, stores, calls,
                             CheckDuplicate, Duplicates, Goto, Return, Release
<1>1. TypeOK'
  BY DEF TypeOK, Memory
<1>2. OwnTargets'
  BY DEF TypeOK, OwnTargets
<1>3. Fresh'
  BY DEF TypeOK, OwnTargets, Fresh, Progress, Memory
<1>4. NotInWorking'
  BY DEF TypeOK, OwnTargets, Fresh, NotInWorking, Safe, WorkingIsCurrent, Memory
<1>5. Progress'
  BY DEF TypeOK, OwnTargets, Progress, Memory
<1>6. Safe'
  BY DEF TypeOK, OwnTargets, NotInWorking, Progress, Safe,
           DocumentsSearchable, WorkingIsCurrent, Memory
<1>7. Agreement'
  BY DEF TypeOK, OwnTargets, Fresh, Progress, Agreement, Memory
<1>8. Undisturbed'
  BY DEF TypeOK, OwnTargets, Progress, Undisturbed
<1> QED BY <1>1, <1>2, <1>3, <1>4, <1>5, <1>6, <1>7, <1>8

LEMMA AddVectorKeeps ==
    ASSUME NEW c \in Callers, IInv, AddVector(c)
    PROVE  IInv'
<1> USE MemoryAssumption DEF IInv, Active, Ids, Storing, Deleting, stores, calls,
                             AddVector, Goto
<1>1. TypeOK'
  BY DEF TypeOK, Memory
<1>2. OwnTargets'
  BY DEF TypeOK, OwnTargets
<1>3. Fresh'
  BY DEF TypeOK, OwnTargets, Fresh, Progress, Memory
<1>4. NotInWorking'
  BY DEF TypeOK, OwnTargets, Fresh, NotInWorking, Safe, WorkingIsCurrent, Memory
<1>5. Progress'
  BY DEF TypeOK, OwnTargets, Progress, Memory
<1>6. Safe'
  BY DEF TypeOK, OwnTargets, NotInWorking, Progress, Safe,
           DocumentsSearchable, WorkingIsCurrent, Memory
<1>7. Agreement'
  BY DEF TypeOK, OwnTargets, Fresh, Progress, Agreement, Memory
<1>8. Undisturbed'
  BY DEF TypeOK, OwnTargets, Progress, Undisturbed
<1> QED BY <1>1, <1>2, <1>3, <1>4, <1>5, <1>6, <1>7, <1>8

LEMMA StoreDocumentKeeps ==
    ASSUME NEW c \in Callers, IInv, StoreDocument(c)
    PROVE  IInv'
<1> USE MemoryAssumption DEF IInv, Active, Ids, Storing, Deleting, stores, calls,
                             StoreDocument, Goto
<1>1. TypeOK'
  <2>1. target[c] \in Ids
    BY DEF OwnTargets
  <2>2. stale' \subseteq Ids
    BY <2>1 DEF TypeOK
  <2>3. documents' \in Memory
    BY <2>1 DEF TypeOK, OwnTargets, Progress, Memory
  <2>4. pc' \in [Callers -> {"idle", "check", "vector", "document", "working",
                            "delete_document", "delete_vector"}]
    BY DEF TypeOK
  <2> QED BY <2>2, <2>3, <2>4 DEF TypeOK
<1>2. OwnTargets'
  BY DEF TypeOK, OwnTargets
<1>3. Fresh'
  BY DEF TypeOK, OwnTargets, Fresh, Progress, Memory
<1>4. NotInWorking'
  BY DEF TypeOK, OwnTargets, Fresh, NotInWorking, Safe, WorkingIsCurrent, Memory
<1>5. Progress'
  BY DEF TypeOK, OwnTargets, Progress, Memory
<1>6. Safe'
  BY DEF TypeOK, OwnTargets, NotInWorking, Progress, Safe,
           DocumentsSearchable, WorkingIsCurrent, Memory
<1>7. Agreement'
  BY DEF TypeOK, OwnTargets, Fresh, Progress, Agreement, Memory
<1>8. Undisturbed'
  BY DEF TypeOK, OwnTargets, Progress, Undisturbed
<1> QED BY <1>1, <1>2, <1>3, <1>4, <1>5, <1>6, <1>7, <1>8

LEMMA AddToWorkingKeeps ==
    ASSUME NEW c \in Callers, IInv, AddToWorking(c)
    PROVE  IInv'
<1> USE MemoryAssumption DEF IInv, Active, Ids, Storing, Deleting, stores, calls,
                             AddToWorking, Evicted, Return, Release
<1>1. TypeOK'
  BY DEF TypeOK, Memory
<1>2. OwnTargets'
  BY DEF TypeOK, OwnTargets
<1>3. Fresh'
  BY DEF TypeOK, OwnTargets, Fresh, Progress, Memory
<1>4. NotInWorking'
  BY DEF TypeOK, OwnTargets, Fresh, NotInWorking, Safe, WorkingIsCurrent, Memory
<1>5. Progress'
  BY DEF TypeOK, OwnTargets, Progress, Memory
<1>6. Safe'
  BY DEF TypeOK, OwnTargets, NotInWorking, Progress, Safe,
           DocumentsSearchable, WorkingIsCurrent, Memory
<1>7. Agreement'
  BY DEF TypeOK, OwnTargets, Fresh, Progress, Agreement, Memory
<1>8. Undisturbed'
  BY DEF TypeOK, OwnTargets, Progress, Undisturbed
<1> QED BY <1>1, <1>2, <1>3, <1>4, <1>5, <1>6, <1>7, <1>8

LEMMA DeleteDocumentKeeps ==
    ASSUME NEW c \in Callers, IInv, DeleteDocument(c)
    PROVE  IInv'
<1> USE MemoryAssumption DEF IInv, Active, Ids, Storing, Deleting, stores, calls,
                             DeleteDocument, AfterForget, Goto, Return, Release
<1>1. TypeOK'
  <2>1. documents' \in Memory
    BY DEF TypeOK, Memory
  <2>2. CASE documents[target[c]] # None
    BY <2>1, <2>2 DEF TypeOK
  <2>3. CASE documents[target[c]] = None /\ kind[c] = "upsert"
    BY <2>1, <2>3 DEF TypeOK
  <2>4. CASE documents[target[c]] = None /\ kind[c] # "upsert"
    BY <2>1, <2>4 DEF TypeOK
  <2> QED BY <2>2, <2>3, <2>4
<1>2. OwnTargets'
  BY DEF TypeOK, OwnTargets
<1>3. Fresh'
  BY DEF TypeOK, OwnTargets, Fresh, Progress, Memory
<1>4. NotInWorking'
  BY DEF TypeOK, OwnTargets, Fresh, NotInWorking, Safe, WorkingIsCurrent, Memory
<1>5. Progress'
  BY DEF TypeOK, OwnTargets, Progress, Memory
<1>6. Safe'
  BY DEF TypeOK, OwnTargets, NotInWorking, Progress, Safe,
           DocumentsSearchable, WorkingIsCurrent, Memory
<1>7. Agreement'
  BY DEF TypeOK, OwnTargets, Fresh, Progress, Agreement, Memory
<1>8. Undisturbed'
  BY DEF TypeOK, OwnTargets, Progress, Undisturbed
<1> QED BY <1>1, <1>2, <1>3, <1>4, <1>5, <1>6, <1>7, <1>8

LEMMA DeleteVectorKeeps ==
    ASSUME NEW c \in Callers, IInv, DeleteVector(c)
    PROVE  IInv'
<1> USE MemoryAssumption DEF IInv, Active, Ids, Storing, Deleting, stores, calls,
                             DeleteVector, AfterForget, Goto, Return, Release
<1>1. TypeOK'
  BY DEF TypeOK, Memory
<1>2. OwnTargets'
  BY DEF TypeOK, OwnTargets
<1>3. Fresh'
  BY DEF TypeOK, OwnTargets, Fresh, Progress, Memory
<1>4. NotInWorking'
  BY DEF TypeOK, OwnTargets, Fresh, NotInWorking, Safe, WorkingIsCurrent, Memory
<1>5. Progress'
  BY DEF TypeOK, OwnTargets, Progress, Memory
<1>6. Safe'
  BY DEF TypeOK, OwnTargets, NotInWorking, Progress, Safe,
           DocumentsSearchable, WorkingIsCurrent, Memory
<1>7. Agreement'
  BY DEF TypeOK, OwnTargets, Fresh, Progress, Agreement, Memory
<1>8. Undisturbed'
  BY DEF TypeOK, OwnTargets, Progress, Undisturbed
<1> QED BY <1>1, <1>2, <1>3, <1>4, <1>5, <1>6, <1>7, <1>8

LEMMA OperationFailsKeeps ==
    ASSUME NEW c \in Callers, IInv, OperationFails(c)
    PROVE  IInv'
<1> USE MemoryAssumption DEF IInv, Active, Ids, Storing, Deleting, stores, calls,
                             OperationFails, Fault, Release
<1>1. TypeOK'
  BY DEF TypeOK, Memory
<1>2. OwnTargets'
  BY DEF TypeOK, OwnTargets
<1>3. Fresh'
  BY DEF TypeOK, OwnTargets, Fresh, Progress, Memory
<1>4. NotInWorking'
  BY DEF TypeOK, OwnTargets, Fresh, NotInWorking, Safe, WorkingIsCurrent, Memory
<1>5. Progress'
  BY DEF TypeOK, OwnTargets, Progress, Memory
<1>6. Safe'
  BY DEF TypeOK, OwnTargets, NotInWorking, Progress, Safe,
           DocumentsSearchable, WorkingIsCurrent, Memory
<1>7. Agreement'
  BY DEF TypeOK, OwnTargets, Fresh, Progress, Agreement, Memory
<1>8. Undisturbed'
  BY DEF TypeOK, OwnTargets, Progress, Undisturbed
<1> QED BY <1>1, <1>2, <1>3, <1>4, <1>5, <1>6, <1>7, <1>8

LEMMA ForgetFailsQuietlyKeeps ==
    ASSUME NEW c \in Callers, IInv, ForgetFailsQuietly(c)
    PROVE  IInv'
<1> USE MemoryAssumption DEF IInv, Active, Ids, Storing, Deleting, stores, calls,
                             ForgetFailsQuietly, Fault, Release
<1>1. TypeOK'
  <2>1. faults' \in 0..MaxFaults
    BY DEF TypeOK
  <2>2. CASE kind[c] = "upsert"
    BY <2>1, <2>2 DEF TypeOK
  <2>3. CASE kind[c] # "upsert"
    BY <2>1, <2>3 DEF TypeOK
  <2> QED BY <2>2, <2>3
<1>2. OwnTargets'
  BY DEF TypeOK, OwnTargets
<1>3. Fresh'
  BY DEF TypeOK, OwnTargets, Fresh, Progress, Memory
<1>4. NotInWorking'
  BY DEF TypeOK, OwnTargets, Fresh, NotInWorking, Safe, WorkingIsCurrent, Memory
<1>5. Progress'
  BY DEF TypeOK, OwnTargets, Progress, Memory
<1>6. Safe'
  BY DEF TypeOK, OwnTargets, NotInWorking, Progress, Safe,
           DocumentsSearchable, WorkingIsCurrent, Memory
<1>7. Agreement'
  BY DEF TypeOK, OwnTargets, Fresh, Progress, Agreement, Memory
<1>8. Undisturbed'
  BY DEF TypeOK, OwnTargets, Progress, Undisturbed
<1> QED BY <1>1, <1>2, <1>3, <1>4, <1>5, <1>6, <1>7, <1>8

LEMMA RecallKeeps ==
    ASSUME IInv, Recall
    PROVE  IInv'
<1> USE MemoryAssumption DEF IInv, Active, Ids, Storing, Deleting, stores, calls,
                             Recall, Evicted
<1>1. TypeOK'
  BY DEF TypeOK, Memory
<1>2. OwnTargets'
  BY DEF TypeOK, OwnTargets
<1>3. Fresh'
  BY DEF TypeOK, OwnTargets, Fresh, Progress, Memory
<1>4. NotInWorking'
  BY DEF TypeOK, OwnTargets, Fresh, NotInWorking, Safe, WorkingIsCurrent, Memory
<1>5. Progress'
  BY DEF TypeOK, OwnTargets, Progress, Memory
<1>6. Safe'
  BY DEF TypeOK, OwnTargets, NotInWorking, Progress, Safe,
           DocumentsSearchable, WorkingIsCurrent, Memory
<1>7. Agreement'
  BY DEF TypeOK, OwnTargets, Fresh, Progress, Agreement, Memory
<1>8. Undisturbed'
  BY DEF TypeOK, OwnTargets, Progress, Undisturbed
<1> QED BY <1>1, <1>2, <1>3, <1>4, <1>5, <1>6, <1>7, <1>8

LEMMA CrashAndRestoreKeeps ==
    ASSUME IInv, CrashAndRestore
    PROVE  IInv'
<1> USE MemoryAssumption DEF IInv, Active, Ids, Storing, Deleting, stores, calls,
                             CrashAndRestore, Evicted, Fault
<1>1. TypeOK'
  BY DEF TypeOK, Memory
<1>2. OwnTargets'
  BY DEF TypeOK, OwnTargets
<1>3. Fresh'
  BY DEF TypeOK, OwnTargets, Fresh, Progress, Memory
<1>4. NotInWorking'
  BY DEF TypeOK, OwnTargets, Fresh, NotInWorking, Safe, WorkingIsCurrent, Memory
<1>5. Progress'
  BY DEF TypeOK, OwnTargets, Progress, Memory
<1>6. Safe'
  BY DEF TypeOK, OwnTargets, NotInWorking, Progress, Safe,
           DocumentsSearchable, WorkingIsCurrent, Memory
<1>7. Agreement'
  BY DEF TypeOK, OwnTargets, Fresh, Progress, Agreement, Memory
<1>8. Undisturbed'
  BY DEF TypeOK, OwnTargets, Progress, Undisturbed
<1> QED BY <1>1, <1>2, <1>3, <1>4, <1>5, <1>6, <1>7, <1>8

LEMMA StutterKeeps == IInv /\ UNCHANGED vars => IInv'
  BY DEF IInv, TypeOK, OwnTargets, Fresh, NotInWorking, Progress, Safe, Agreement,
         Undisturbed, DocumentsSearchable, WorkingIsCurrent, Active, vars, stores, calls

LEMMA NextIInv == IInv /\ [Next]_vars => IInv'
<1> SUFFICES ASSUME IInv, [Next]_vars PROVE IInv'
  OBVIOUS
<1>1. CASE UNCHANGED vars
  BY <1>1, StutterKeeps
<1>2. CASE Recall
  BY <1>2, RecallKeeps
<1>3. CASE CrashAndRestore
  BY <1>3, CrashAndRestoreKeeps
<1>4. ASSUME NEW c \in Callers, Call(c) PROVE IInv'
  BY <1>4, StoreKeeps, RememberKeeps, ForgetKeeps, UpsertKeeps, CheckDuplicateKeeps, AddVectorKeeps,
     StoreDocumentKeeps, AddToWorkingKeeps, DeleteDocumentKeeps, DeleteVectorKeeps,
     OperationFailsKeeps, ForgetFailsQuietlyKeeps DEF Call
<1> QED BY <1>1, <1>2, <1>3, <1>4 DEF Next

LEMMA Invariance == Spec => []IInv
  BY InitIInv, NextIInv, PTL DEF Spec

-----------------------------------------------------------------------------
(***************************************************************************)
(* Every variable has its type.                                            *)
(***************************************************************************)
THEOREM TypeCorrect == Spec => []TypeOK
<1>1. IInv => TypeOK
  BY DEF IInv
<1> QED BY <1>1, Invariance, PTL

(***************************************************************************)
(* Wherever an operation of store() or forget() fails or the process dies, *)
(* a stored document has a vector.                                         *)
(***************************************************************************)
THEOREM Searchable == Spec => []DocumentsSearchable
<1>1. IInv => DocumentsSearchable
  BY DEF IInv, Safe
<1> QED BY <1>1, Invariance, PTL

(***************************************************************************)
(* Working memory never has another content than the document store, but   *)
(* for the copies that remember() is replacing, or was when it failed.     *)
(***************************************************************************)
THEOREM WorkingCurrent == Spec => []WorkingIsCurrent
<1>1. IInv => WorkingIsCurrent
  BY DEF IInv, Safe
<1> QED BY <1>1, Invariance, PTL

(***************************************************************************)
(* Without faults, and with no operation under way, the stores hold the    *)
(* same ids, and no copy in working memory is stale.                       *)
(***************************************************************************)
THEOREM StoresAgree == Spec => []StoresHoldTheSame
<1>1. IInv => StoresHoldTheSame
  <2> SUFFICES ASSUME IInv, faults = 0, Active = {}, NEW i \in Ids
               PROVE  /\ vectors[i] = None <=> documents[i] = None
                      /\ working[i] \in {documents[i], None}
    BY DEF StoresHoldTheSame
  <2>1. vectors[i] = None <=> documents[i] = None
    BY DEF IInv, Agreement
  <2>2. i \notin stale
    BY DEF IInv, Agreement, Active
  <2> QED BY <2>1, <2>2 DEF IInv, Safe, WorkingIsCurrent
<1> QED BY <1>1, Invariance, PTL

(***************************************************************************)
(* An operation of _check_duplicate() and add_vectors() that runs by       *)
(* itself adds no near-duplicate.                                          *)
(***************************************************************************)
THEOREM NoDuplicates == Spec => NoDuplicateAlone
<1> DEFINE Step ==
        \A c \in Callers :
          alone[c] /\ pc[c] = "vector" /\ pc'[c] = "document" =>
             \A i \in Ids \ {target[c]} :
                vectors[i] = None \/ <<vectors[i], content[c]>> \notin Similar
<1>1. IInv => Step
  BY DEF IInv, Undisturbed, Active
<1>2. IInv => [Step]_vars
  BY <1>1
<1> QED BY <1>2, Invariance, PTL DEF NoDuplicateAlone

(***************************************************************************)
(* A store() that runs by itself without faults leaves its content, or a   *)
(* memory that its document or its vector makes a near-duplicate.          *)
(***************************************************************************)
THEOREM ContentKept == Spec => StoreKeepsContent
<1> DEFINE Kept(c) ==
             \E i \in Ids :
                /\ documents'[i] # None
                /\ \/ <<documents'[i], content[c]>> \in Similar
                   \/ <<vectors'[i], content[c]>> \in Similar
           Step == \A c \in Callers :
                     Returns(c) /\ kind[c] \in {"store", "upsert"} /\ alone[c] /\ faults = 0
                       => Kept(c)
<1>1. ASSUME IInv, Next, NEW c \in Callers, Returns(c), kind[c] \in {"store", "upsert"},
             alone[c], faults = 0
      PROVE  Kept(c)
  <2>1. ~ Recall
    BY <1>1 DEF Recall, Returns
  <2>2. ~ CrashAndRestore /\ ~ Fault
    BY <1>1 DEF CrashAndRestore, Fault, Returns, IInv, TypeOK
  <2>3. PICK d \in Callers : Call(d)
    BY <1>1, <2>1, <2>2 DEF Next
  <2>4. d = c
    BY <1>1, <2>3 DEF Call, Returns, IInv, TypeOK, Store, Remember, Forget, Upsert, Begin,
       CheckDuplicate, AddVector, StoreDocument, AddToWorking, DeleteDocument, DeleteVector,
       OperationFails, ForgetFailsQuietly, AfterForget, Goto, Return, Release
  <2>5. CheckDuplicate(c) \/ AddToWorking(c)
    BY <1>1, <2>2, <2>3, <2>4 DEF Call, Returns, IInv, TypeOK, Store, Remember, Forget, Upsert, Begin,
       AddVector, StoreDocument, DeleteDocument, DeleteVector, Progress, Deleting,
       OperationFails, ForgetFailsQuietly, AfterForget, Goto, Return, Release
  <2>6. CASE CheckDuplicate(c)
    <3>1. PICK i \in Duplicates(content[c]) : TRUE
      BY <1>1, <2>6 DEF CheckDuplicate, Goto, Returns, IInv, TypeOK
    <3>2. i \in Ids /\ vectors[i] # None /\ <<vectors[i], content[c]>> \in Similar
      BY DEF Duplicates
    <3>3. Active = {c} /\ pc[c] = "check"
      BY <1>1, <2>6 DEF IInv, Undisturbed, Active, Returns, CheckDuplicate
    <3>4. documents[i] # None
      BY <1>1, <3>2, <3>3 DEF IInv, Agreement
    <3> QED BY <2>6, <3>2, <3>4 DEF CheckDuplicate, stores
  <2>7. CASE AddToWorking(c)
    <3>1. target[c] \in Ids
      BY <1>1 DEF IInv, OwnTargets, Active, Returns
    <3>2. content[c] \in Contents /\ documents[target[c]] = content[c]
      BY <1>1, <2>7 DEF AddToWorking, IInv, Progress, Storing
    <3> QED BY <2>7, <3>1, <3>2, MemoryAssumption DEF AddToWorking
  <2> QED BY <2>5, <2>6, <2>7
<1>2. IInv /\ [Next]_vars => [Step]_vars
  BY <1>1
<1>3. Spec => [][Step]_vars
  BY <1>2, Invariance, PTL DEF Spec
<1> QED BY <1>3 DEF StoreKeepsContent

==============================================================================
