------------------------------ MODULE Governance ------------------------------
(***************************************************************************)
(* What ReasoningGovernanceEngine.govern makes of a product's evidence      *)
(* (governance.py): how much old telemetry still weighs, which signals the  *)
(* graph gives, the confidence that is governed by them and the status.     *)
(* Scores are in hundredths and rounded down where the code rounds to four  *)
(* places.  A case is the telemetry (alike samples, and some of one source  *)
(* nobody trusts), and what cognition reported of it.                       *)
(***************************************************************************)
EXTENDS Integers, FiniteSets, FiniteSetsExt

CONSTANT Fading   \* exp(-x), by x in hundredths

Within(x, lo, hi) == Max({lo, Min({hi, x})})
Score(x) == Within(x, 0, 100)
Not(x) == 100 - x
Root(v) == Max({r \in 0..50 : r * r <= v})
Mean(f) == (LET D == DOMAIN f IN MapThenSumSet(LAMBDA i : f[i], D) \div Cardinality(D))
\* _spread: the mean of scores is below one, so that the deviation is not divided.
Spread(f) == LET m == Mean(f)
                 squares == [i \in DOMAIN f |-> (f[i] - m) * (f[i] - m)]
             IN  Root(Mean(squares))

\* evidence_decay_records, for one sample: its weight when new and now.
HalfLife(case, repeated) == 45 + Min({90, case.support * 18}) + (IF repeated >= 3 THEN 45 ELSE 0)
Original(trust, fresh) == Score((trust * 58 + fresh * 28 + 100 * 14) \div 100)
Distrusted == 30
Repeated(case, trust) == IF trust = Distrusted THEN case.doubtful ELSE case.samples
Decayed(case, trust) ==
    Score((Original(trust, case.fresh) * Fading[(case.age * 100) \div HalfLife(case, Repeated(case, trust))]) \div 100
          + Min({18, case.support * 3}))
StaleFirst(case, trust) ==
    IF case.age > 90 /\ case.support = 0 THEN "stale"
    ELSE IF trust < 40 /\ Decayed(case, trust) < 32 THEN "quarantined" ELSE "active"
Standing(case, trust) ==
    CASE trust < 40 /\ Decayed(case, trust) < 32 -> "quarantined"
      [] case.age > 90 /\ case.support = 0 -> "stale"
      [] Decayed(case, trust) * 100 < Original(trust, case.fresh) * 68 -> "decayed"
      [] OTHER -> "active"
Records(case) == {<<i, Standing(case, case.trust)>> : i \in 1..case.samples} \cup
                 {<<i, Standing(case, Distrusted)>> : i \in {-j : j \in 1..case.doubtful}}
In(records, S) == Cardinality({r \in records : r[2] \in S})
\* decay_pressure: what was lost, and the share that is quarantined.
DecayPressure(case) ==
    LET total == case.samples + case.doubtful
        lost(trust) == ((Original(trust, case.fresh) - Decayed(case, trust)) * 100) \div Original(trust, case.fresh)
    IN  IF total = 0 THEN 62
        ELSE Score((((case.samples * lost(case.trust) + case.doubtful * lost(Distrusted)) \div total) * 75
                    + ((In(Records(case), {"quarantined"}) * 100) \div total) * 25) \div 100)

\* consensus_scores: four ways to weigh the same confidence.
Consensus(case, fresh, decay) ==
    [telemetry_weighted |-> (case.confidence * (7200 + fresh * 28)) \div 10000,
     validation_calibrated |-> (case.reliability * (10000 - case.calibration * 85)) \div 10000,
     decay_adjusted |-> (case.evidence * (10000 - decay * 72)) \div 10000,
     contradiction_adverse |-> (((case.confidence * (10000 - case.contradiction * 78)) \div 10000)
                                * (10000 - case.feedback * 34)) \div 10000]

\* graph_hygiene_signals: kind and severity.
Signals(case, decay, disagreement) ==
    LET signal(kind, given, critical) ==
            IF given THEN {<<kind, IF critical THEN "critical" ELSE "warning">>} ELSE {}
        records == Records(case)
    IN  UNION {signal("polluted_node", In(records, {"quarantined"}) > 0, TRUE),
               signal("stale_telemetry_dominance", decay >= 48 \/ In(records, {"stale", "decayed"}) >= 3, decay >= 70),
               signal("circular_evidence", case.feedback >= 52, case.feedback >= 72),
               signal("unstable_telemetry_cluster", case.drift >= 18 \/ case.oscillation >= 30, FALSE),
               signal("corrupted_inference_chain", case.contradiction >= 24, case.contradiction >= 44),
               signal("low_trust_reasoning_path", disagreement >= 20, FALSE)}
Critical(signals) == {s \in signals : s[2] = "critical"}
Integrity(signals) == Score(100 - 22 * Cardinality(Critical(signals)) - 11 * Cardinality(signals \ Critical(signals)))

\* stability_control: the confidence that ranking may use.
Ceiling(case, fresh, decay) ==
    Within((6200 + Min({100, (case.samples + case.doubtful) * 10}) * 22 + fresh * 12 - case.drift * 16
            - case.contradiction * 20 - decay * 14 - case.feedback * 22) \div 100, 22, 94)
Dampening(case) ==
    Within((1800 + case.drift * 28 + case.oscillation * 22 + case.contradiction * 20 + case.feedback * 16) \div 100, 12, 78)
Governed(case, consensus, ceiling) ==
    LET damp == Dampening(case)
        mixed == Score((case.confidence * Not(damp) + Mean(consensus) * damp) \div 100)
    IN  Min({mixed, ceiling} \cup (IF case.samples + case.doubtful = 0 THEN {55} ELSE {}))
Revalidate(case, health, decay) ==
    health < 62 \/ case.feedback >= 52 \/ case.contradiction >= 24 \/ decay >= 55

ForgivingStatus(signals, health, feedback, again) == IF health < 42 THEN "quarantined" ELSE "healthy"
GovernanceStatus(signals, health, feedback, again) ==
    CASE Critical(signals) # {} /\ health < 42 -> "quarantined"
      [] Critical(signals) # {} \/ feedback >= 72 \/ health < 50 -> "unstable"
      [] health < 64 \/ again -> "degraded"
      [] signals # {} \/ health < 78 -> "watch"
      [] OTHER -> "healthy"

\* stabilization_actions, as their kinds; one for each stale or quarantined record.
Actions(case, signals, governed, again, integrity) ==
    (IF governed < case.confidence - 3 THEN 2 ELSE 0) + In(Records(case), {"stale", "decayed", "quarantined"})
    + (IF again THEN 1 ELSE 0) + (IF signals # {} \/ integrity < 82 THEN 1 ELSE 0)

\* govern: signals before the consensus give the quality, with it the integrity.
Govern(case) ==
    LET fresh == IF case.samples + case.doubtful = 0 THEN 35 ELSE case.fresh
        decay == DecayPressure(case)
        consensus == Consensus(case, fresh, decay)
        disagreement == Spread(consensus)
        quality == Score((case.evidence * 28 + case.reliability * 22 + Not(case.calibration) * 16
                          + Not(case.contradiction) * 14 + fresh * 10 + Integrity(Signals(case, decay, 0)) * 10) \div 100)
        signals == Signals(case, decay, disagreement)
        integrity == Integrity(signals)
        health == Score((quality * 24 + Not(case.drift) * 11 + Not(case.oscillation) * 8 + Not(case.calibration) * 12
                         + Not(case.contradiction) * 13 + fresh * 10 + Not(decay) * 8 + integrity * 9
                         + Not(case.feedback) * 5) \div 100)
        governed == Governed(case, consensus, Ceiling(case, fresh, decay))
        again == Revalidate(case, health, decay)
    IN  [status |-> GovernanceStatus(signals, health, case.feedback, again), signals |-> Cardinality(signals),
         governed |-> governed, health |-> health, quality |-> quality, integrity |-> integrity,
         freshness |-> fresh, decay |-> decay, contradiction |-> case.contradiction, anomaly |-> case.anomaly,
         drift |-> case.drift, oscillation |-> case.oscillation, feedback |-> case.feedback,
         calibration |-> case.calibration, disagreement |-> disagreement, consensus |-> consensus,
         records |-> Min({12, case.samples + case.doubtful}),
         actions |-> Min({12, Actions(case, signals, governed, again, integrity)})]
=============================================================================
