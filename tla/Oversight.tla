------------------------------- MODULE Oversight -------------------------------
(***************************************************************************)
(* What follows from a governed product (evolution.py, alignment.py,        *)
(* autonomy.py): the policy's rules are enforced, strategies promoted or    *)
(* held, the alignment with the system's identity inspected, and the agents *)
(* intervene or ask a human.  Each stage reads what the one before it made. *)
(***************************************************************************)
EXTENDS Governance

\* default_policy, in hundredths.
DefaultTerms ==
    [ceiling |-> 86, freshness |-> 42, contradiction |-> 18, anomaly |-> 32, rate |-> 12,
     aggressive |-> 48, trustCap |-> 55, growth |-> 8, driftLimit |-> 22, approval |-> TRUE]
Compared8 == {"ceiling", "freshness", "contradiction", "anomaly", "rate", "aggressive", "trustCap", "growth"}
Distance(x, y) == IF x < y THEN y - x ELSE x - y
\* policy_drift: the mean difference to the default, where it is always below a half.
PolicyDrift(policy) == MapThenSumSet(LAMBDA t : Distance(policy[t], DefaultTerms[t]), Compared8) \div 8

\* metrics, with the report before this one (its stability and policy).
EvolutionMetrics(g, policy, previous) ==
    LET velocity == Score(((g.signals + g.actions) * 100 + g.records * 35) \div 16)
        volatility == Score((g.drift * 55 + g.oscillation * 45) \div 100)
        delta == IF previous.some THEN Distance(g.governed, previous.stability) ELSE 0
        evolving == Score((delta * 35 + velocity * 25 + g.anomaly * 13 + g.contradiction * 17) \div 100
                          + (IF previous.some /\ previous.policy # policy THEN 10 ELSE 0))
    IN  [velocity |-> velocity, volatility |-> volatility, drift |-> PolicyDrift(policy),
         pressure |-> Score((evolving * 28 + volatility * 22 + g.contradiction * 18 + g.feedback * 16 + g.decay * 16) \div 100),
         intervention |-> Score(g.actions * 10)]

HealthIndex(g, m) ==
    Score((Not(m.volatility) * 18 + g.integrity * 17 + g.freshness * 13 + Not(g.contradiction) * 16
           + Not(g.anomaly) * 12 + Not(m.pressure) * 14 + Not(m.drift) * 10) \div 100)

\* _decision: how far a value is on the wrong side of its threshold.
Decision(rule, margin) ==
    CASE margin <= 0 -> "allow"
      [] rule \in {"anomaly_escalation", "policy_drift"} -> "escalate"
      [] margin >= 18 -> "block"
      [] OTHER -> "throttle"
Enforcement(g, policy, m) ==
    [confidence_ceiling |-> Decision("confidence_ceiling", g.governed - policy.ceiling),
     evidence_freshness |-> Decision("evidence_freshness", policy.freshness - g.freshness),
     contradiction_tolerance |-> Decision("contradiction_tolerance", g.contradiction - policy.contradiction),
     anomaly_escalation |-> Decision("anomaly_escalation", g.anomaly - policy.anomaly),
     adaptation_rate |-> Decision("adaptation_rate", m.pressure - policy.rate),
     self_generated_trust |-> Decision("self_generated_trust", g.feedback - policy.trustCap),
     policy_drift |-> Decision("policy_drift", m.drift - policy.driftLimit)]
Decided(enforcement) == {enforcement[r] : r \in DOMAIN enforcement}

\* sandbox_evaluations: may a strategy leave the sandbox?
Impact(g) == Score(g.contradiction + (g.disagreement * 35) \div 100)
AnyReady(g, policy, confidence) == TRUE
Ready(g, policy, confidence) ==
    /\ Score((confidence * 28 + g.integrity * 22 + Not(g.drift) * 20 + Not(g.feedback) * 15 + Not(g.disagreement) * 15) \div 100) >= 74
    /\ Score((g.governed * 45 + g.quality * 35 + Not(g.calibration) * 20) \div 100) >= 62
    /\ Impact(g) <= policy.contradiction
    /\ Score((g.freshness * 30 + Not(g.decay) * 30 + g.integrity * 40) \div 100) >= policy.freshness
Promotion(g, policy, confidence) ==
    CASE Impact(g) * 10 > policy.contradiction * 17 -> "quarantine"
      [] ~Ready(g, policy, confidence) \/ policy.approval -> "hold"
      [] OTHER -> "promote"

BlockedRollback(g, policy, m, enforcement) ==
    IF "block" \in Decided(enforcement) THEN "requires_approval" ELSE "not_required"
Rollback(g, policy, m, enforcement) ==
    IF {"block", "escalate"} \cap Decided(enforcement) # {} \/ g.status \in {"unstable", "quarantined"} \/ m.pressure >= 2 * policy.rate
    THEN IF policy.approval THEN "requires_approval" ELSE "recommended"
    ELSE "not_required"
EvolutionStatus(g, index, rollback) ==
    CASE rollback # "not_required" -> "unstable"
      [] g.status \in {"degraded", "watch"} \/ index < 68 -> "watch"
      [] OTHER -> "healthy"

Orchestrate(case, g, policy, previous) ==
    LET m == EvolutionMetrics(g, policy, previous)
        enforcement == Enforcement(g, policy, m)
        rollback == Rollback(g, policy, m, enforcement)
    IN  [g |-> g, m |-> m, policy |-> policy, enforcement |-> enforcement, rollback |-> rollback,
         promotions |-> [s \in DOMAIN g.consensus |-> Promotion(g, policy, g.consensus[s])],
         index |-> HealthIndex(g, m), status |-> EvolutionStatus(g, HealthIndex(g, m), rollback)]
-----------------------------------------------------------------------------
\* CognitiveAlignmentEngine.violations: kind and severity.
Violations(e) ==
    LET p == e.policy
        violation(kind, severity, found) == IF found THEN {<<kind, severity>>} ELSE {}
    IN  UNION {violation("safety_ignored", "critical", p.aggressive > 74 /\ e.g.freshness < p.freshness),
               violation("confidence_without_evidence", "critical", p.ceiling > 92 /\ e.g.freshness < 58),
               violation("policy_incoherence", "warning", e.m.drift > p.driftLimit),
               violation("objective_drift", "warning", e.m.volatility > 34 \/ e.m.pressure * 10 > p.rate * 18),
               violation("benchmark_overfit", "warning", e.g.anomaly > p.anomaly /\ p.aggressive > 62),
               violation("governance_fragmentation", "critical", e.rollback # "not_required" /\ ~p.approval)}
Severe(violations) == {v \in violations : v[2] = "critical"}
Over(x, limit) == Max({0, x - limit})
\* ethics: the largest of four risks, or anything critical, fails it.
Ethics(e, violations) ==
    LET misleading == Score((e.m.volatility * 35 + e.m.drift * 25 + Not(e.g.freshness) * 24) \div 100)
        unsafe == Score((e.g.contradiction * 34 + e.g.anomaly * 22 + Over(e.policy.aggressive, 55) * 44) \div 100)
        unstable == Score((e.m.pressure * 46 + e.m.velocity * 28 + e.m.intervention * 26) \div 100)
        biased == Score((Over(e.policy.aggressive, e.policy.contradiction) * 52 + e.m.drift * 28 + e.g.anomaly * 20) \div 100)
    IN  [misleading |-> misleading, unsafe |-> unsafe, biased |-> biased,
         passed |-> Max({misleading, unsafe, unstable, biased}) < 62 /\ Severe(violations) = {}]
AlignmentHealth(e, violations, ethics) ==
    LET critical == 12 * Cardinality(Severe(violations))
        warning == 5 * Cardinality(violations \ Severe(violations))
        governance == Score(((Not(e.m.drift)) * 55 + e.g.integrity * 45) \div 100)
        integrity == Score(100 - (e.m.volatility * 38 + Not(e.g.freshness) * 28 + e.g.contradiction * 24 + critical * 10) \div 100)
        safety == Score(100 - (ethics.unsafe * 50 + Over(e.policy.aggressive, 60) * 28 + critical * 22) \div 100)
        others == Score(100 - e.m.drift - (critical * 35) \div 100) * 16
                  + Score(100 - (e.m.pressure * 35) \div 100 - warning - critical) * 15
                  + Score(100 - (Over(e.policy.aggressive, 55) * 55 + e.g.anomaly * 22 + e.g.contradiction * 23) \div 100) * 13
                  + Score(100 - (ethics.misleading * 42 + e.m.drift * 18 + warning * 20) \div 100) * 12
    IN  [governance |-> governance, integrity |-> integrity, safety |-> safety,
         overall |-> Score((others + governance * 15 + integrity * 16 + safety * 13) \div 100)]
AlignmentStatus(health, violations, ethics) ==
    CASE Severe(violations) # {} /\ health.overall < 52 -> "violated"
      [] Severe(violations) # {} \/ ~ethics.passed -> "misaligned"
      [] violations # {} \/ health.overall < 76 -> "watch"
      [] OTHER -> "aligned"
Inspect(e) ==
    LET violations == Violations(e)
        ethics == Ethics(e, violations)
        health == AlignmentHealth(e, violations, ethics)
    IN  [violations |-> violations, ethics |-> ethics, health |-> health,
         status |-> AlignmentStatus(health, violations, ethics)]
-----------------------------------------------------------------------------
\* AutonomousCognitionEngine.events: kind and severity; and those given from outside.
Events(a, e, external) ==
    LET event(kind, severity, found) == IF found THEN {<<kind, severity>>} ELSE {}
        by(margin) == IF margin >= 18 THEN "critical" ELSE "warning"
        doubt == Max({e.m.volatility, Not(a.health.integrity)})
    IN  external \cup {<<"scheduled_tick", "info">>} \cup
        UNION {event("stale_evidence", by(e.policy.freshness - e.g.freshness), e.g.freshness < e.policy.freshness),
               event("benchmark_contradiction", by(e.g.contradiction - e.policy.contradiction), e.g.contradiction > e.policy.contradiction),
               event("anomaly_spike", by(e.g.anomaly - e.policy.anomaly), e.g.anomaly > e.policy.anomaly),
               event("policy_drift", by(e.m.drift - e.policy.driftLimit), e.m.drift > e.policy.driftLimit),
               event("confidence_inflation", by(doubt - 18), e.m.volatility > 18 \/ a.health.integrity < 72),
               event("alignment_drift", IF a.status \in {"misaligned", "violated"} THEN "critical" ELSE "warning",
                     a.status # "aligned" \/ a.violations # {}),
               event("recommendation_risk", IF a.ethics.unsafe >= 52 THEN "critical" ELSE "warning",
                     ~a.ethics.passed \/ a.ethics.unsafe >= 34),
               event("graph_pollution", "warning", e.m.velocity >= 42 \/ a.health.governance < 68)}

\* tasks: one for each event.
TaskStatus(event, a, e) ==
    CASE event[1] \in {"policy_drift", "graph_pollution"} /\ event[2] = "critical" -> "requires_approval"
      [] event[1] = "scheduled_tick" /\ a.status = "aligned" /\ e.status = "healthy" -> "completed"
      [] OTHER -> "queued"

\* interventions: kind, status and what they do to the confidence.
LoosenedInterventions(events, a, e) == {[kind |-> "recommendation_downgrade", status |-> "applied", delta |-> 1]}
Interventions(events, a, e) ==
    LET act(on, kind, status, delta) ==
            {[kind |-> kind, status |-> status, delta |-> delta] : v \in {w \in events : w[1] \in on}}
        risk == Max({a.ethics.misleading, a.ethics.unsafe, a.ethics.biased})
        acts == UNION {
            act({"confidence_inflation"}, "confidence_reduction", "applied", -Within(Not(a.health.integrity), 0, 35)),
            act({"stale_evidence"}, "telemetry_refresh", "queued", 0),
            act({"benchmark_contradiction", "driver_regression", "anomaly_spike"}, "revalidation_request", "queued", 0),
            act({"recommendation_risk"}, "recommendation_downgrade", "applied", -((risk * 32) \div 100)),
            {[kind |-> "constitution_guardrail", delta |-> 0, status |-> IF v[2] = "critical" THEN "blocked" ELSE "applied"]
                : v \in {w \in events : w[1] = "alignment_drift"}},
            act({"graph_pollution"}, "evidence_quarantine", "requires_approval", 0),
            act({"policy_drift"}, "policy_escalation", "requires_approval", 0),
            IF e.rollback = "not_required" THEN {} ELSE act({"policy_drift"}, "evolution_rollback", "requires_approval", 0)}
    IN  IF acts = {} /\ \A v \in events : TaskStatus(v, a, e) = "completed"
        THEN {[kind |-> "recommendation_downgrade", status |-> "recommended", delta |-> 0]} ELSE acts
\* oversight: what a human is required to do.
Required(events, interventions) ==
    (IF \E i \in interventions : i.status = "requires_approval" THEN {"approve_policy_escalation"} ELSE {}) \cup
    (IF \E i \in interventions : i.kind = "evolution_rollback" THEN {"approve_rollback"} ELSE {}) \cup
    (IF \E v \in events : /\ v[2] = "critical"
                          /\ v[1] \in {"anomaly_spike", "benchmark_contradiction", "graph_pollution", "alignment_drift"}
     THEN {"review_investigation"} ELSE {})
\* health and status, with the agents that no report before this one left busy.
AutonomyHealth(agents, events, interventions, a, e) ==
    LET waiting == (100 * Cardinality({v \in events : TaskStatus(v, a, e) # "completed"})) \div Cardinality(events)
        critical == Cardinality({v \in events : v[2] = "critical"})
        conflicts == Cardinality({v \in events : v[1] \in {"benchmark_contradiction", "driver_regression"}})
        with(S) == Cardinality({i \in interventions : i.status \in S})
        effect == Score((7200 + with({"applied"}) * 500 - with({"blocked", "requires_approval"}) * 800 - waiting * 14) \div 100)
    IN  [waiting |-> waiting,
         overall |-> Score((Score(a.health.safety - critical * 6) * 25 + Score(Not(e.g.contradiction) - conflicts * 8) * 18
                            + e.g.freshness * 14 + Score((a.health.governance * (10000 - e.m.drift * 35)) \div 10000) * 18
                            + effect * 14 + agents * 7 + Not(waiting) * 4) \div 100)]
AutonomyStatus(health, events, interventions, a) ==
    CASE a.status = "violated" \/ \E i \in interventions : i.status = "blocked" -> "blocked"
      [] (\E v \in events : v[2] = "critical") \/ health.overall < 52 -> "degraded"
      [] health.waiting > 45 \/ health.overall < 74 -> "watch"
      [] OTHER -> "active"

-----------------------------------------------------------------------------
CONSTANTS Cases, Terms, Previous, External, Availability
VARIABLE matter   \* one product's case, and the reports made of it so far

\* Each service makes its report of the one before it.
OversightInit == matter = [stage |-> "none"]
Governs(c) ==
    /\ matter.stage = "none"
    /\ matter' = [stage |-> "governed", case |-> c, g |-> Govern(c)]
Orchestrates(policy, previous) ==
    /\ matter.stage = "governed"
    /\ matter' = [stage |-> "evolved", case |-> matter.case, e |-> Orchestrate(matter.case, matter.g, policy, previous)]
Inspects ==
    /\ matter.stage = "evolved"
    /\ matter' = [stage |-> "aligned", case |-> matter.case, e |-> matter.e, a |-> Inspect(matter.e)]
Happens(external) ==
    /\ matter.stage = "aligned"
    /\ matter' = [stage |-> "happened", case |-> matter.case, e |-> matter.e, a |-> matter.a,
                  events |-> Events(matter.a, matter.e, external)]
Intervenes(agents) ==
    /\ matter.stage = "happened"
    /\ LET e == matter.e
           a == matter.a
           interventions == Interventions(matter.events, a, e)
           health == AutonomyHealth(agents, matter.events, interventions, a, e)
       IN  matter' = [stage |-> "judged", case |-> matter.case, e |-> e, a |-> a, interventions |-> interventions,
                      required |-> Required(matter.events, interventions),
                      status |-> AutonomyStatus(health, matter.events, interventions, a)]
NextMatter == matter.stage = "judged" /\ matter' = [stage |-> "none"]
OversightNext ==
    \/ \E c \in Cases : Governs(c)
    \/ \E p \in Terms, r \in Previous : Orchestrates(p, r)
    \/ Inspects
    \/ \E x \in External : Happens(x)
    \/ \E n \in Availability : Intervenes(n)
    \/ NextMatter
Judged == matter.stage = "judged"

\* A record of telemetry that was quarantined reaches everything after it: the
\* governance is critical, no evolution is stable, and rolling back is offered
\* (governance.py:328, evolution.py:352, alignment.py).
PollutionStopsEvolution ==
    (Judged /\ In(Records(matter.case), {"quarantined"}) > 0) =>
    /\ matter.e.g.status \in {"unstable", "quarantined"}
    /\ matter.e.status = "unstable" /\ matter.e.rollback # "not_required"

\* No strategy leaves the sandbox while the rule on contradictions blocks or
\* throttles: the rule and the promotion look at two different sums
\* (evolution.py:187 and :283).
ContradictedIsHeld ==
    (Judged /\ matter.e.enforcement.contradiction_tolerance # "allow") =>
    \A s \in DOMAIN matter.e.promotions : matter.e.promotions[s] # "promote"

\* A policy that has drifted too far is escalated by the enforcement, and that
\* always ends as something a human is required to approve, three reports later.
EscalationReachesHuman ==
    (Judged /\ matter.e.enforcement.policy_drift = "escalate") =>
    {"approve_policy_escalation", "approve_rollback"} \subseteq matter.required

\* Whatever agents apply by themselves only lowers confidence, and a product with
\* a critical violation of its alignment never stays "active" or "watch".
AppliedOnlyLowers ==
    Judged =>
    /\ \A i \in matter.interventions : i.status = "applied" => i.delta <= 0
    /\ Severe(matter.a.violations) # {} => matter.status \notin {"active", "watch"}

\* The same product with older evidence is never judged better.
Severity(status) == CASE status = "healthy" -> 0 [] status = "watch" -> 1 [] status = "degraded" -> 2
                      [] status = "unstable" -> 3 [] OTHER -> 4
AgeNeverHelps ==
    matter.stage = "governed" =>
    \A older \in {c \in Cases : c = [matter.case EXCEPT !.age = c.age] /\ c.age > matter.case.age} :
        Severity(matter.g.status) <= Severity(Govern(older).status)

\* What the one engine finds wrong reaches the others, and the human at their end.
WarningsArrive ==
    PollutionStopsEvolution /\ ContradictedIsHeld /\ EscalationReachesHuman /\ AppliedOnlyLowers /\ AgeNeverHelps
=============================================================================
