------------------------------- MODULE Policies -------------------------------
(***************************************************************************)
(* The cognitive policies and the worker that reports on every product by   *)
(* them (evolution_service.py, alignment_service.py, autonomy_service.py,   *)
(* autonomy_worker.py over their repositories).  A report reads the active  *)
(* policy and writes it back with itself, so that it may undo what a super  *)
(* admin wrote in between; asking for the policy of a scope that has none   *)
(* writes the default one.                                                  *)
(***************************************************************************)
EXTENDS Integers, FiniteSets, FiniteSetsExt

CONSTANTS
    Items,          \* products
    Default,        \* "cognitive-policy-default"
    Written,        \* the policies that a super admin writes
    Scopes,         \* "global" and another
    NoPolicy, Nothing,
    MaxProducts,    \* products of one cycle
    MaxEdits,       \* bound: requests of the admins and readers
    MaxBreaks       \* bound: reports that raise

ASSUME PoliciesAssumption ==
    /\ MaxProducts \in Nat \ {0} /\ "global" \in Scopes
    /\ IsFiniteSet(Items) /\ Items # {}
    /\ NoPolicy \notin [id : Written \cup {Default}, scope : Scopes, status : {"active", "candidate"}, at : Nat]

VARIABLES
    policy,      \* the stored policies
    moment,      \* created_at of the latest one
    edits, breaks,
    asked,       \* the reader between its read and its write
    cycle,       \* the worker: products to do, and where its report is
    named,       \* the policies of a product's evolution and alignment reports
    updated,     \* products by age: how many were brought up to date after it
    waits        \* cycles since a product's last report
policyVars == <<policy, moment, edits, breaks, asked, cycle, named, updated, waits>>

Known == Written \cup {Default}
Active(scope) == {i \in Known : policy[i] # NoPolicy /\ policy[i].scope = scope /\ policy[i].status = "active"}
\* active_policy: the newest active one.
ActivePolicy(scope) ==
    IF Active(scope) = {} THEN NoPolicy
    ELSE policy[CHOOSE i \in Active(scope) : \A j \in Active(scope) : policy[j].at <= policy[i].at]
DefaultPolicy(now) == [id |-> Default, scope |-> "global", status |-> "active", at |-> now]
Upsert(p) == policy' = [policy EXCEPT ![p.id] = p]

Resting == [at |-> "rest", todo |-> {}]
PoliciesInit ==
    /\ policy = [i \in Known |-> IF i = Default THEN DefaultPolicy(0) ELSE NoPolicy]
    /\ moment = 0 /\ edits = 0 /\ breaks = 0 /\ asked = Nothing
    /\ cycle = Resting
    /\ named = [x \in Items |-> [evolution |-> NoPolicy, alignment |-> NoPolicy]]
    /\ \E f \in [Items -> 1..Cardinality(Items)] : Cardinality({f[x] : x \in Items}) = Cardinality(Items) /\ updated = f
    /\ waits = [x \in Items |-> 0]

\* create_policy: activated or as a candidate; no other policy changes.
CreatePolicy(i, scope, activate) ==
    /\ edits < MaxEdits
    /\ edits' = edits + 1 /\ moment' = moment + 1
    /\ Upsert([id |-> i, scope |-> scope, status |-> IF activate THEN "active" ELSE "candidate", at |-> moment + 1])
    /\ UNCHANGED <<breaks, asked, cycle, named, updated, waits>>

\* GET /evolution/policies/active?scope=...: nothing there, so the default is made.
AskPolicy(scope) ==
    /\ asked = Nothing /\ edits < MaxEdits
    /\ ActivePolicy(scope) = NoPolicy
    /\ asked' = scope /\ edits' = edits + 1
    /\ UNCHANGED <<policy, moment, breaks, cycle, named, updated, waits>>
MakeDefault ==
    /\ asked # Nothing
    /\ asked' = Nothing /\ moment' = moment + 1
    /\ Upsert(DefaultPolicy(moment + 1))
    /\ UNCHANGED <<edits, breaks, cycle, named, updated, waits>>

\* The worker takes the products whose reports are the oldest.
Behind(x) == Cardinality({y \in Items : updated[y] > updated[x]})
Ahead(x) == Cardinality({y \in Items : updated[y] < updated[x]})
NewestFirst == {x \in Items : Behind(x) < MaxProducts}
Candidates == {x \in Items : Ahead(x) < MaxProducts}
Oldest(S) == CHOOSE x \in S : \A y \in S : updated[x] <= updated[y]
BeginCycle ==
    /\ cycle = Resting
    /\ cycle' = [at |-> "evolution", todo |-> Candidates]
    /\ waits' = [x \in Items |-> waits[x] + 1]
    /\ UNCHANGED <<policy, moment, edits, breaks, asked, named, updated>>

\* One report: evolution, then alignment, which makes its own evolution report
\* again; each reads the active policy and writes it back before itself.
ReadPolicy ==
    /\ cycle.at \in {"evolution", "alignment"}
    /\ LET p == ActivePolicy("global")
           read == IF p = NoPolicy THEN DefaultPolicy(moment + 1) ELSE p
       IN  /\ IF p = NoPolicy THEN Upsert(read) /\ moment' = moment + 1 ELSE UNCHANGED <<policy, moment>>
           /\ cycle' = [at |-> IF cycle.at = "evolution" THEN "evolved" ELSE "aligned",
                        todo |-> cycle.todo, read |-> read]
    /\ UNCHANGED <<edits, breaks, asked, named, updated, waits>>

NotShifted(x) == [updated EXCEPT ![x] = Cardinality(Items)]
Reported(x) ==
    [y \in Items |-> IF y = x THEN Cardinality(Items)
                     ELSE IF updated[y] > updated[x] THEN updated[y] - 1 ELSE updated[y]]
StoreEvolution ==
    /\ cycle.at = "evolved"
    /\ LET x == Oldest(cycle.todo) IN
       named' = [named EXCEPT ![x].evolution = cycle.read]
    /\ Upsert(cycle.read)
    /\ cycle' = [at |-> "alignment", todo |-> cycle.todo]
    /\ UNCHANGED <<moment, edits, breaks, asked, updated, waits>>

\* The alignment report (with the evolution report it made again) brings the
\* product's alignment_updated_at up to date, and the autonomy report follows.
StoreAlignment ==
    /\ cycle.at = "aligned"
    /\ LET x == Oldest(cycle.todo) IN
       /\ named' = [named EXCEPT ![x].evolution = cycle.read, ![x].alignment = cycle.read]
       /\ updated' = Reported(x)
       /\ waits' = [waits EXCEPT ![x] = 0]
       /\ cycle' = IF cycle.todo = {x} THEN Resting ELSE [at |-> "evolution", todo |-> cycle.todo \ {x}]
    /\ Upsert(cycle.read)
    /\ UNCHANGED <<moment, edits, breaks, asked>>

\* A report that raises ends its cycle; the products after it wait for the next.
Break ==
    /\ cycle # Resting /\ breaks < MaxBreaks
    /\ breaks' = breaks + 1 /\ cycle' = Resting
    /\ UNCHANGED <<policy, moment, edits, asked, named, updated, waits>>

PoliciesNext ==
    \/ \E i \in Written, s \in Scopes, b \in BOOLEAN : CreatePolicy(i, s, b)
    \/ \E s \in Scopes : AskPolicy(s)
    \/ MakeDefault \/ BeginCycle \/ ReadPolicy \/ StoreEvolution \/ StoreAlignment \/ Break
PoliciesSpec == PoliciesInit /\ [][PoliciesNext]_policyVars
-----------------------------------------------------------------------------
PoliciesTypeOK ==
    /\ \A i \in Known : policy[i] # NoPolicy => policy[i].id = i /\ policy[i].at \in 0..moment
    /\ {updated[x] : x \in Items} = 1..Cardinality(Items)
    /\ cycle.todo \subseteq Items

\* No product waits longer than it takes to go round all of them, and the cycles
\* that broke: the order by age serves everybody (autonomy_worker.py:41-54).
NobodyWaitsLong ==
    \A x \in Items : waits[x] <= 1 + breaks + (Cardinality(Items) - 1) \div MaxProducts

\* Every product has its turn, under one policy in each scope.
EverybodyIsServed == PoliciesTypeOK /\ NobodyWaitsLong
=============================================================================
