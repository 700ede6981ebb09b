--------------------------- MODULE MCApprovalCenter ---------------------------
(***************************************************************************)
(* The operator's work: decisions in the approval center, or the cleaning   *)
(* of the graph, which shares no state with it.                             *)
(***************************************************************************)
EXTENDS ApprovalCenter, Pruning, TLC

CONSTANTS a1, a2, a3, q1, q2, p1, p2, k1
VARIABLE part

OperatorInit ==
    /\ Init /\ CleaningInit /\ part \in {"approvals", "cleaning"}
    \* No request waits while the graph is cleaned.
    /\ part = "cleaning" => \A q \in Requests : call[q].path = <<a3, "approve">> /\ call[q].key = NoKey /\ call[q].rank = 2
OperatorNext ==
    \/ part = "approvals" /\ Next /\ UNCHANGED <<part, cleaningVars>>
    \/ part = "cleaning" /\ CleaningNext /\ UNCHANGED <<part, vars>>
OperatorSpec == OperatorInit /\ [][OperatorNext]_<<part, vars, cleaningVars>>


AllItems == {a1, a2, a3}
MergeItems == {a2}
RestrictedItems == {a1}
ManualItems == {a3}
TwoRequests == {q1, q2}
TwoProposers == {p1, p2}
OneKey == {k1}
\* Three decisions on one item (a rejection writes like a review), and what matters on the two others.
Decisions == ({a1} \X {"approve", "defer", "mark-reviewed"})
             \cup {<<a2, "defer">>, <<a3, "approve">>}
AnalystToSuper == {2, 3, 4}
MCLabelsOf == [n \in Nodes |-> CASE n = "staged" -> {"StagedCanonicalRecord"} [] n = "signal" -> {"OperationalSignal"}
                                  [] n = "evidence" -> {"CanonicalEvidence"} [] n = "cpu" -> {"Product", "CPU"}]
MCAsked == {{}, {"Product"}, {"CPU", "Product", "StagedCanonicalRecord"}, {"CanonicalEvidence", "StagedCanonicalRecord"}}
Interchangeable == Permutations(TwoRequests) \cup Permutations(TwoProposers) \cup Permutations(Cleaners)
=============================================================================
