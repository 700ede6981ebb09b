------------------------------ MODULE MCLearning ------------------------------
EXTENDS Cognition, Policies, Oversight, Briefs

VARIABLE part

Init ==
    /\ CognitionInit /\ PoliciesInit /\ OversightInit
    /\ \/ part \in {"cognition", "policies", "oversight"} /\ desk = Closed
       \/ part = "brief" /\ BriefsInit
Next ==
    \/ part = "cognition" /\ CognitionNext /\ UNCHANGED <<part, policyVars, matter, desk>>
    \/ part = "policies" /\ PoliciesNext /\ UNCHANGED <<part, cognitionVars, matter, desk>>
    \/ part = "oversight" /\ OversightNext /\ UNCHANGED <<part, cognitionVars, policyVars, desk>>
    \/ part = "brief" /\ BriefsNext /\ UNCHANGED <<part, cognitionVars, policyVars, matter>>
Spec == Init /\ [][Next]_<<part, cognitionVars, policyVars, matter, desk>>
Observed == {[product |-> x, error |-> r[1], same |-> r[2]] : x \in Products, r \in {<<10, FALSE>>, <<500, Unseen>>}}

\* exp(-x) where the cases need it, and the value of the step below elsewhere.
Curve == <<100, 90, 82, 74, 67, 61, 55, 50, 45, 41, 37, 33, 30, 27, 25, 22, 20, 18, 17, 15, 14, 12, 11, 10, 9, 8, 7, 7, 6>>
MCFading == [x \in 0..289 |-> Curve[(x \div 10) + 1]]
MCCases == [confidence : {90}, reliability : {58}, evidence : {60}, samples : {0, 2, 5}, doubtful : {0, 1},
            trust : {85}, age : {1, 60, 120}, fresh : {30, 80}, support : {0, 2}, drift : {5}, oscillation : {10},
            contradiction : {0, 20, 50}, feedback : {20, 75}, calibration : {20}, anomaly : {5, 60}]
           \cup [confidence : {90}, reliability : {10}, evidence : {20}, samples : {2}, doubtful : {1}, trust : {50}, age : {1, 120},
                 fresh : {10}, support : {0}, drift : {40}, oscillation : {60}, contradiction : {80}, feedback : {90},
                 calibration : {90}, anomaly : {60}]
MCTerms == {DefaultTerms, [DefaultTerms EXCEPT !.approval = FALSE, !.rate = 60],
            [DefaultTerms EXCEPT !.aggressive = 90, !.ceiling = 95, !.freshness = 10, !.trustCap = 10, !.anomaly = 90, !.rate = 90]}
MCPrevious == {[some |-> FALSE], [some |-> TRUE, stability |-> 90, policy |-> DefaultTerms]}
MCExternal == {{}, {<<"graph_pollution", "critical">>, <<"driver_regression", "warning">>}}

\* Briefs: a quiet morning, one with something of everything, and one with a full list of approvals.
Job(i, status) == [id |-> i, status |-> status]
Quiet == [up |-> TRUE, jobs |-> <<Job(1, "completed"), Job(2, "running")>>, pending |-> <<>>, next |-> 1, stale |-> 4,
          products |-> 20, workers |-> [x \in {"pricing_worker"} |-> "running"], market |-> {}]
MCMornings ==
    {Quiet, [Quiet EXCEPT !.up = FALSE], [Quiet EXCEPT !.stale = 5, !.workers = [x \in {"cognition_worker"} |-> "idle"]],
     [Quiet EXCEPT !.jobs = <<Job(1, "retrying"), Job(2, "failed")>>, !.pending = <<[id |-> 1, level |-> "level_3"]>>, !.next = 2],
     [Quiet EXCEPT !.pending = <<[id |-> 2, level |-> "level_2"], [id |-> 1, level |-> "level_3"]>>, !.next = 3,
                   !.workers = [x \in {"pricing_worker"} |-> "stopped"]]}
Offer(i, vendor, risk, unusual) ==
    [product |-> i, category |-> "GPU", vendor |-> vendor, risk |-> risk, priced |-> TRUE, unusual |-> unusual,
     imported |-> FALSE, available |-> TRUE]
MCOffers == {Offer(1, "local", 20, FALSE), Offer(1, "gcc_vendor", 80, FALSE), Offer(2, "local", 20, TRUE)}
MCActivities ==
    {[stored |-> [s \in {"eBay"} |-> 5], errors |-> <<[names |-> {"eBay"}, when |-> 9], [names |-> {}, when |-> 2]>>],
     [stored |-> <<>>, errors |-> <<[names |-> {"SerpAPI", "eBay"}, when |-> 7], [names |-> {"eBay"}, when |-> 3]>>]}

\* What the engines find wrong and what is wrong at the desk arrives at the founder.
FounderIsTold == WarningsArrive /\ BriefTells

Names == Permutations(Calls) \cup Permutations(Items) \cup Permutations(Written)
=============================================================================
