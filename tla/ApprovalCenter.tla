---------------------------- MODULE ApprovalCenter ----------------------------
(***************************************************************************)
(* Approval items: autonomy runs and the graph integrity check propose     *)
(* them, founders decide them through the gate.  Every access is a query   *)
(* of its own: a proposer looks before it writes, a decision reads the     *)
(* item, writes it back whole and then writes its audit.                   *)
(***************************************************************************)
EXTENDS RequestGate

CONSTANTS
    Items,       \* deterministic approval ids
    Merges,      \* those the graph integrity check proposes; autonomy proposes the others
    Restricted,  \* evolution_rollback and policy_escalation
    Manual,      \* risk_level level_3
    Proposers    \* runs that propose

ASSUME ItemsAssumption == Merges \subseteq Items /\ Restricted \subseteq Items /\ Manual \subseteq Items

VARIABLES
    item,      \* the ApprovalItem nodes
    trail,     \* the audit events of decisions
    proposal   \* each proposer

approvalVars == <<item, trail, proposal>>

vars == <<gateVars, approvalVars>>

-----------------------------------------------------------------------------
Verbs == {"approve", "reject", "defer", "mark-reviewed"}
ASSUME PathsAssumption == Paths \subseteq Items \X Verbs

Status == {"absent", "pending", "approved", "rejected", "deferred", "reviewed"}

Target(q) == call[q].path[1]
Verb(q) == call[q].path[2]

OutcomeIsVerb(verb) == IF verb = "defer" THEN "defer" ELSE "approved"

Outcome(verb) ==
    CASE verb = "approve" -> "approved"
      [] verb = "reject" -> "rejected"
      [] verb = "defer" -> "deferred"
      [] verb = "mark-reviewed" -> "reviewed"

\* Level 3 items may be in the graph; the code proposes none.
ApprovalInit ==
    /\ item = [a \in Items |-> IF a \in Manual THEN "pending" ELSE "absent"]
    /\ trail = {}
    /\ proposal = [p \in Proposers |-> [at |-> "start", about |-> {}, saw |-> "absent", beside |-> {}]]

Init == GateInit /\ ApprovalInit

-----------------------------------------------------------------------------
\* has_role(super_admin), and what can never be approved.
PermittedToAdmins(q) == Verb(q) = "approve" => Target(q) \notin Manual

Permitted(q) ==
    Verb(q) = "approve" => Target(q) \notin Manual /\ (Target(q) \in Restricted => call[q].rank = 4)

\* The dependency, approval_by_id and the guards: 503, 500, 404, 403 or on.
Read(q) ==
    /\ call[q].phase = "handling"
    /\ \/ /\ unavailable' = FALSE /\ NoFault
          /\ IF item[Target(q)] # "absent" /\ Permitted(q)
             THEN call' = [call EXCEPT ![q].phase = "read"]
             ELSE Handled(q, "failed")
       \/ unavailable' \in BOOLEAN /\ Fault /\ Handled(q, "failed")
    /\ UNCHANGED <<events, approvalVars>>

\* update_approval: the item as it was read, with the decision.
Write(q) ==
    /\ call[q].phase = "read"
    /\ \/ /\ NoFault
          /\ item' = [item EXCEPT ![Target(q)] = Outcome(Verb(q))]
          /\ call' = [call EXCEPT ![q].phase = "written", ![q].effect = TRUE]
       \/ Fault /\ Handled(q, "failed") /\ UNCHANGED item
    /\ UNCHANGED <<events, unavailable, trail, proposal>>

AuditForgiven(q) ==
    /\ call[q].phase = "written"
    /\ \/ NoFault /\ trail' = trail \cup {q}
       \/ Fault /\ UNCHANGED trail
    /\ Handled(q, "succeeded")
    /\ UNCHANGED <<events, unavailable, item, proposal>>

\* create_audit_event of the decision.
Audit(q) ==
    /\ call[q].phase = "written"
    /\ \/ NoFault /\ trail' = trail \cup {q} /\ Handled(q, "succeeded")
       \/ Fault /\ UNCHANGED trail /\ Handled(q, "failed")
    /\ UNCHANGED <<events, unavailable, item, proposal>>

-----------------------------------------------------------------------------
UnresolvedPending(status) == status = "pending"

Unresolved(status) == status \in {"pending", "deferred"}

Proposing == {p \in Proposers : proposal[p].at = "looked"}

Goes(p, a, at) ==
    proposal' = [proposal EXCEPT ![p] = [at |-> at, about |-> {a}, saw |-> item[a],
                                         beside |-> Proposing]]

\* unresolved_approval_exists and approval_by_id.  When one fails, an autonomy
\* run goes on as if there were no item; the integrity check fails.
Look(p, a) ==
    /\ proposal[p].at = "start"
    /\ a \notin Manual
    /\ \/ NoFault /\ Goes(p, a, IF Unresolved(item[a]) THEN "done" ELSE "looked")
       \/ Fault /\ Goes(p, a, IF a \in Merges THEN "done" ELSE "looked")
    /\ UNCHANGED <<call, events, unavailable, item, trail>>

\* upsert_approval: a pending item, whatever stands there.
Propose(p) ==
    /\ proposal[p].at = "looked"
    /\ proposal' = [proposal EXCEPT ![p].at = "done"]
    /\ \/ NoFault /\ item' = [a \in Items |-> IF a \in proposal[p].about THEN "pending" ELSE item[a]]
       \/ Fault /\ UNCHANGED item
    /\ UNCHANGED <<call, events, unavailable, trail>>

-----------------------------------------------------------------------------
Deciding(q) ==
    \/ Gate(q) /\ UNCHANGED approvalVars
    \/ Read(q) \/ Write(q) \/ Audit(q)

Next ==
    \/ \E q \in Requests : Deciding(q)
    \/ \E p \in Proposers : Propose(p) \/ \E a \in Items : Look(p, a)

Spec == Init /\ [][Next]_vars

TypeOK ==
    /\ GateTypeOK
    /\ item \in [Items -> Status]
    /\ trail \subseteq Requests
    /\ proposal \in [Proposers -> [at : {"start", "looked", "done"}, about : SUBSET Items,
                                   saw : Status, beside : SUBSET Proposers]]

-----------------------------------------------------------------------------
SameMutation(p, q) ==
    p # q /\ call[p].path = call[q].path /\ call[p].key = call[q].key /\ call[p].key # NoKey

(* docs/OPERATIONS.md, "Idempotency": what the check of the key does give.   *)
(* A mutation is repeated under its key only by a request that was in a      *)
(* handler together with the first one, or after a failing database call.    *)
SerialOnce ==
    \A p, q \in Requests :
        SameMutation(p, q) /\ call[p].effect /\ call[q].effect =>
            p \in call[q].beside \/ q \in call[p].beside \/ faults > 0

(* A request refused as a duplicate is one: another with its path and key    *)
(* changed the database and has its decision in the audit trail.  A failed   *)
(* attempt never costs the client its retry.                                 *)
RefusedWasDone ==
    \A q \in Requests :
        call[q].answer = "duplicate" =>
            \E p \in trail : SameMutation(p, q) /\ call[p].effect

(* A decision reported as successful is in the audit trail, whichever of its *)
(* database calls fails.                                                     *)
SucceededIsAudited ==
    \A q \in Requests : call[q].answer = "succeeded" => call[q].effect /\ q \in trail

\* q approved a, got past the gate, and was a super_admin if that takes one.
ApprovedBy(q, a) ==
    /\ call[q].path = <<a, "approve">> /\ call[q].effect
    /\ call[q].rank >= Required
    /\ a \in Restricted => call[q].rank = 4

(* README, "Level 3 actions ... cannot be approved": an approved item is not *)
(* one of them, and a restricted one was approved by a super_admin who got   *)
(* past the gate.                                                            *)
ApprovedByRank ==
    \A a \in Items : item[a] = "approved" => a \notin Manual /\ \E q \in Requests : ApprovedBy(q, a)

(* A proposal reopens an item only when a final decision was there as it     *)
(* looked; it never takes back a deferral or a decision it did not know of,  *)
(* unless two proposals overlap or a database call failed.                   *)
ReopensOnlyResolved ==
    [][\A p \in Proposers :
         proposal[p].at = "looked" /\ proposal'[p].at = "done" /\ item' # item =>
            \/ \A a \in proposal[p].about : item[a] = "absent"
            \/ proposal[p].saw \in {"approved", "rejected", "reviewed"}
            \/ \E o \in Proposers \ {p} : o \in proposal[p].beside \/ p \in proposal[o].beside
            \/ faults > 0]_vars

(* A key stands for one change of the database, and for one that was made by *)
(* somebody entitled to it.                                                  *)
KeyMeansOnce == TypeOK /\ SerialOnce /\ RefusedWasDone /\ ApprovedByRank
=============================================================================
