----------------------------- MODULE RequestGate -----------------------------
(***************************************************************************)
(* What security_audit_middleware (main.py) does around every protected    *)
(* request: rate limit, role, idempotency check, handler, audit event.     *)
(* The middleware runs on the event loop and its own database calls block  *)
(* it, so everything before the handler is one step and so is everything   *)
(* after it; handlers run on a threadpool, side by side.                   *)
(***************************************************************************)
EXTENDS Integers, FiniteSets

CONSTANTS
    Requests,   \* the HTTP requests of a behaviour, a client's retries among them
    Paths,      \* endpoints with their path parameters
    Keys,       \* idempotency keys
    NoKey,      \* the request carries none
    Ranks,      \* ROLE_RANK of the callers
    Required,   \* ROLE_RANK of the endpoints' rule
    MaxFaults   \* bound: failing database calls

ASSUME KeysAssumption == NoKey \notin Keys
ASSUME RanksAssumption == Ranks \subseteq 0..4 /\ Required \in 0..4
ASSUME MaxFaultsAssumption == MaxFaults \in Nat

VARIABLES
    call,         \* each request: what it asks and how far it is
    events,       \* the AuditEvent nodes the middleware wrote
    unavailable,  \* Neo4jManager.unavailable_reason, as its last verify() left it
    faults

gateVars == <<call, events, unavailable, faults>>

-----------------------------------------------------------------------------
Answers == {"none", "limited", "forbidden", "duplicate", "succeeded", "failed"}

Call == [phase : {"unsent", "handling", "read", "written", "handled", "done"},
         path : Paths, key : Keys \cup {NoKey}, rank : Ranks,
         beside : SUBSET Requests,  \* history: who was in a handler when it passed the gate
         effect : BOOLEAN,          \* history: its handler changed the database
         answer : Answers]

Event == [path : Paths, key : Keys \cup {NoKey}, result : {"succeeded", "failed", "rejected"}]

InHandler == {q \in Requests : call[q].phase \in {"handling", "read", "written", "handled"}}

Fault == faults < MaxFaults /\ faults' = faults + 1
NoFault == UNCHANGED faults

GateInit ==
    /\ call \in [Requests -> [phase : {"unsent"}, path : Paths, key : Keys \cup {NoKey},
                              rank : Ranks, beside : {{}}, effect : {FALSE},
                              answer : {"none"}]]
    /\ events = {}
    /\ unavailable = FALSE
    /\ faults = 0

-----------------------------------------------------------------------------
AnyEvent(e) == TRUE
Completed(e) == e.result = "succeeded"

\* idempotency_seen: completed before, under this path and this key.
Seen(q) ==
    \E e \in events : e.path = call[q].path /\ e.key = call[q].key /\ Completed(e)

\* Answered without a handler, and without a change of the database.
Refuse(q, answer) ==
    call' = [call EXCEPT ![q].phase = "done", ![q].answer = answer]

\* _write_audit_safely: nothing is written when it raises, or while the manager
\* counts as unavailable.
WriteEvent(e) ==
    \/ ~unavailable /\ NoFault /\ events' = events \cup {e}
    \/ unavailable /\ NoFault /\ UNCHANGED events
    \/ ~unavailable /\ Fault /\ UNCHANGED events

Limit(q) ==
    /\ call[q].phase = "unsent"
    /\ Refuse(q, "limited")
    /\ UNCHANGED <<events, unavailable, faults>>

Forbid(q) ==
    /\ call[q].phase = "unsent"
    /\ call[q].rank < Required
    /\ Refuse(q, "forbidden")
    /\ WriteEvent([path |-> call[q].path, key |-> NoKey, result |-> "rejected"])
    /\ UNCHANGED unavailable

Pass(q) ==
    call' = [call EXCEPT ![q].phase = "handling", ![q].beside = InHandler]

\* _idempotency_seen_safely answers False when the query fails and while the
\* manager counts as unavailable.
Admit(q) ==
    /\ call[q].phase = "unsent"
    /\ call[q].rank >= Required
    /\ \/ /\ call[q].key = NoKey \/ unavailable
          /\ Pass(q) /\ NoFault
       \/ /\ call[q].key # NoKey /\ ~unavailable
          /\ \/ Seen(q) /\ Refuse(q, "duplicate") /\ NoFault
             \/ ~Seen(q) /\ Pass(q) /\ NoFault
             \/ Pass(q) /\ Fault
    /\ UNCHANGED <<events, unavailable>>

\* The handler's outcome; an exception becomes the answer 500.
Handled(q, answer) ==
    call' = [call EXCEPT ![q].phase = "handled", ![q].answer = answer]

EventWithoutKey(q) == [path |-> call[q].path, key |-> NoKey, result |-> call[q].answer]

EventOf(q) == [path |-> call[q].path, key |-> call[q].key, result |-> call[q].answer]

\* The response goes out after its audit event, written or not.
Respond(q) ==
    /\ call[q].phase = "handled"
    /\ call' = [call EXCEPT ![q].phase = "done"]
    /\ WriteEvent(EventOf(q))
    /\ UNCHANGED unavailable

Gate(q) == Limit(q) \/ Forbid(q) \/ Admit(q) \/ Respond(q)

GateTypeOK ==
    /\ call \in [Requests -> Call]
    /\ events \subseteq Event
    /\ unavailable \in BOOLEAN
    /\ faults \in 0..MaxFaults
=============================================================================
