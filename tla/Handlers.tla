------------------------------ MODULE Handlers ------------------------------
(***************************************************************************)
(* How a handler of an agent is written down.  Each request must be met by *)
(* a field of the payload or by a backend the agent was built with, or the *)
(* handler refuses; a payload is the set of its fields that are not empty. *)
(* Then the handler calls its services in their order.  Each call names    *)
(* what becomes of the handler when the call fails:                        *)
(*   "ignored"  it goes on and may still report success                    *)
(*   "decides"  it goes on, and reports failure at its end                 *)
(*   "fails"    it reports failure at once                                 *)
(*   "raises"   the exception leaves handle()                              *)
(* A call is made only with its backend, and with the fields in `given`.   *)
(***************************************************************************)
EXTENDS Naturals, Sequences

Handler(requests, calls) == [requests |-> requests, calls |-> calls]

Service(to, else) == [to |-> to, else |-> else, given |-> {}]
Tries(to)   == Service(to, {"ignored"})
Needs(to)   == Service(to, {"fails"})
Decides(to) == Service(to, {"decides"})
Raises(to)  == Service(to, {"raises"})
If(field, service) == [service EXCEPT !.given = {field}]

Times(n, service) == [i \in 1..n |-> service]

\* The backend without which a call is not made; the others need none of the agent's.
Backend ==
    [planner |-> "llm", veronica |-> "llm", vision |-> "llm", model |-> "llm",
     followup |-> "llm", append |-> "llm", memory |-> "memory", upsert |-> "memory",
     shell |-> "engine", pytest |-> "engine", scaffold |-> "engine", file |-> "engine",
     metric |-> "engine", operation |-> "engine", toolcall |-> "engine", speaker |-> "speaker"]

\* The services there are, and the calls of them.
Names == DOMAIN Backend \cup
    {"asked", "block", "place", "disk", "web", "desktop", "speech", "browser", "page"}

Services ==
    [to : Names, else : SUBSET {"ignored", "decides", "fails", "raises"}, given : SUBSET STRING]

Refuses == Handler({{}}, <<>>)          \* always: not implemented, not installed
Pure    == Handler({}, <<>>)            \* computes its answer from the payload alone
=============================================================================
