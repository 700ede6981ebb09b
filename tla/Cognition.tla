------------------------------ MODULE Cognition ------------------------------
(***************************************************************************)
(* What the system learns from outcomes (cognition_service.py and           *)
(* cognition.py over cognition_repository.py).  A prediction is compared    *)
(* with an outcome, and the comparison moves three confidence states: the   *)
(* product's, its workload's and the inference path's, the last two shared  *)
(* by all products.  Every repository method is a query of its own, so      *)
(* requests and the worker's jobs interleave between them.  Scores are in   *)
(* hundredths; the states "confidence:prediction:..." are left out, which   *)
(* confidence_states() never reads back (their count stays 0).              *)
(***************************************************************************)
EXTENDS Integers, FiniteSets, FiniteSetsExt, TLC

CONSTANTS
    Products, Kinds,
    Limited,      \* the kinds that predict a limiter, the others a value
    Workload,     \* the workload of the telemetry
    Calls,        \* requests and jobs
    Outcomes,     \* [product, error, same]: what was observed
    Unseen,       \* an outcome's field that was not observed
    Confidence,   \* of the evidence, and so of every prediction
    NoState, NoReport,
    MaxFaults     \* bound: queries that raise

ASSUME CognitionAssumption == Limited \subseteq Kinds /\ Confidence \in 0..100

VARIABLES
    predictions,  \* [id, product, kind]
    validations,  \* [id, product, kind, status]
    states,       \* confidence states by key
    reports,      \* a product's report: the reliability and validations it shows
    clock,        \* last_updated
    call,         \* where each call is, and what it has read
    faults,
    blurred       \* keys and products written over what the writer had not read
cognitionVars == <<predictions, validations, states, reports, clock, call, faults, blurred>>

Keys == ({"product"} \X Products) \cup ({"inference_path"} \X Kinds) \cup {<<"workload", Workload>>}
Unclipped(x) == x
Clip(x) == IF x < 0 THEN 0 ELSE IF x > 100 THEN 100 ELSE x
Average(score) == MapThenSumSet(LAMBDA v : score[v], DOMAIN score) \div Cardinality(DOMAIN score)

\* validate_prediction: the status and the correctness of one comparison.
Compared(kind, outcome) ==
    IF kind \in Limited
    THEN CASE outcome.same = Unseen -> [status |-> "insufficient_evidence", correct |-> 35]
           [] outcome.same = TRUE   -> [status |-> "validated", correct |-> 100]
           [] OTHER                 -> [status |-> "contradicted", correct |-> 0]
    ELSE IF outcome.error = Unseen THEN [status |-> "insufficient_evidence", correct |-> 35]
    ELSE [status |-> CASE outcome.error <= 8 -> "validated"
                       [] outcome.error <= 18 -> "partially_validated"
                       [] OTHER -> "contradicted",
          correct |-> Clip(100 - outcome.error)]

KeysOf(v) == {<<"product", v.product>>, <<"inference_path", v.kind>>, <<"workload", Workload>>}
Abs(x) == IF x < 0 THEN -x ELSE x
CountDouble(prior, items) == prior + 2 * items
CountOnce(prior, items) == prior + 1
CountAll(prior, items) == prior + items
LeniencyAdded(prior, correct, contradicted, miss) == Clip((prior * 82 + correct * 18) \div 100 + Min({16, contradicted * 4}))
Adjusted(prior, correct, contradicted, miss) ==
    Clip(Clip(Clip((prior * 82 + correct * 18) \div 100) - Min({16, contradicted * 4})) - (IF miss > 28 THEN 5 ELSE 0))

\* update_confidence_states, for one key: the items are those of this outcome.
UpdatedState(old, items, now) ==
    LET correct == Average([v \in items |-> v.correct])
        miss == Average([v \in items |-> Abs(Confidence - v.correct)])
        contradicted == Cardinality({v \in items : v.status = "contradicted"})
        prior == IF old = NoState THEN [reliability |-> 58, count |-> 0] ELSE old
    IN  [reliability |-> Adjusted(prior.reliability, correct, contradicted, miss),
         count |-> CountAll(prior.count, Cardinality(items)), at |-> now]

\* confidence_states: the product's own, and every counted one of a workload or path.
Readable(p) == {k \in Keys : /\ states[k] # NoState
                             /\ k = <<"product", p>> \/ (k[1] # "product" /\ states[k].count > 0)}
NewestOf(S) == {k \in S : \A l \in S : states[l].at <= states[k].at}
PredictionsOf(p) == {x \in predictions : x.product = p}
ValidationsOf(p) == {v \in validations : v.product = p}
AgreeingOf(p) == {v \in ValidationsOf(p) : v.status # "contradicted"}
Shown(p) == ValidationsOf(p)
\* generate_predictions: one for each kind that the telemetry allows, under new names.
Generated(p, c) == {[id |-> <<c, k>>, product |-> p, kind |-> k] : k \in Kinds}

Idle == [at |-> "idle"]
CognitionInit ==
    /\ predictions = {} /\ validations = {} /\ clock = 0 /\ faults = 0 /\ blurred = {}
    /\ states = [k \in Keys |-> NoState]
    /\ reports = [p \in Products |-> NoReport]
    /\ call = [c \in Calls |-> Idle]

Goto(c, r) == call' = [call EXCEPT ![c] = r]
Reports(p) == [at |-> "report", product |-> p]

\* report(refresh=True), asked for or by the worker; without refresh an existing
\* report is only read.
AskReport(c, p) ==
    /\ call[c] = Idle
    /\ Goto(c, Reports(p))
    /\ UNCHANGED <<predictions, validations, states, reports, clock, faults, blurred>>

GeneratePredictions(c, p) ==
    /\ call[c] = Idle
    /\ predictions' = predictions \cup Generated(p, c)
    /\ Goto(c, [at |-> "done"])
    /\ UNCHANGED <<validations, states, reports, clock, faults, blurred>>

\* validate_outcome: the outcome is stored, then the predictions and the states read.
ReadTargets(c, o) ==
    /\ call[c] = Idle
    /\ Goto(c, [at |-> "targets", outcome |-> o, targets |-> PredictionsOf(o.product)])
    /\ UNCHANGED <<predictions, validations, states, reports, clock, faults, blurred>>

ReadStates(c) ==
    /\ call[c].at = "targets"
    /\ LET o == call[c].outcome
           made == {[id |-> <<c, x.id>>, product |-> o.product, kind |-> x.kind,
                     status |-> Compared(x.kind, o).status, correct |-> Compared(x.kind, o).correct]
                    : x \in call[c].targets}
           moved == UNION {KeysOf(v) : v \in made}
           known(k) == IF k \in Readable(o.product) THEN states[k] ELSE NoState
       IN  Goto(c, [at |-> "validations", product |-> o.product, made |-> made,
                    read |-> [k \in moved |-> known(k)],
                    write |-> [k \in moved |->
                        UpdatedState(known(k), {v \in made : k \in KeysOf(v)}, clock + 1)]])
    /\ clock' = clock + 1
    /\ UNCHANGED <<predictions, validations, states, reports, faults, blurred>>

StoreValidations(c) ==
    /\ call[c].at = "validations"
    /\ validations' = validations \cup call[c].made
    /\ Goto(c, [call[c] EXCEPT !.at = "states"])
    /\ UNCHANGED <<predictions, states, reports, clock, faults, blurred>>

\* upsert_confidence_states replaces each state whole; the contradictions follow it.
Overwrites(read) == {k \in DOMAIN read : states[k] # read[k]}
StoreStates(c) ==
    /\ call[c].at = "states"
    /\ states' = [k \in Keys |-> IF k \in DOMAIN call[c].write THEN call[c].write[k] ELSE states[k]]
    /\ blurred' = blurred \cup Overwrites(call[c].read)
    /\ Goto(c, Reports(call[c].product))
    /\ UNCHANGED <<predictions, validations, reports, clock, faults>>

\* The report shows the newest readable state, whose ever it is, or one from the
\* evidence.  States of one outcome are a moment apart: any of them is the newest.
ReadReport(c) ==
    /\ call[c].at = "report"
    /\ LET p == call[c].product
           stored == PredictionsOf(p)
           show(k, s) == Goto(c, [at |-> "show", product |-> p, over |-> reports[p],
               active |-> IF stored = {} THEN Generated(p, c) ELSE stored,
               read |-> (k :> states[k]), write |-> (k :> s), seen |-> Shown(p)])
       IN  \/ \E k \in NewestOf(Readable(p)) : show(k, states[k])
           \/ /\ Readable(p) = {}
              /\ show(<<"product", p>>, [reliability |-> Confidence, count |-> 0, at |-> clock])
    /\ UNCHANGED <<predictions, validations, states, reports, clock, faults, blurred>>

StoreReport(c) ==
    /\ call[c].at = "show"
    /\ LET p == call[c].product IN
       /\ reports' = [reports EXCEPT ![p] = [write |-> call[c].write, seen |-> call[c].seen]]
       /\ blurred' = IF reports[p] # call[c].over THEN blurred \cup {p} ELSE blurred
    /\ predictions' = predictions \cup call[c].active
    /\ Goto(c, [call[c] EXCEPT !.at = "reliability"])
    /\ UNCHANGED <<validations, states, clock, faults>>

\* ... and the state it shows is written back as it was read.
StoreReliability(c) ==
    /\ call[c].at = "reliability"
    /\ states' = [k \in Keys |-> IF k \in DOMAIN call[c].write THEN call[c].write[k] ELSE states[k]]
    /\ blurred' = blurred \cup Overwrites(call[c].read)
    /\ Goto(c, [at |-> "done"])
    /\ UNCHANGED <<predictions, validations, reports, clock, faults>>

\* A query raises: the request answers 500, and what was written stays.
Raise(c) ==
    /\ call[c].at \notin {"idle", "done"} /\ faults < MaxFaults
    /\ faults' = faults + 1
    /\ blurred' = blurred \cup (IF call[c].at = "targets" THEN {} ELSE {call[c].product}) \cup
                  (IF call[c].at = "states" THEN DOMAIN call[c].write ELSE {})
    /\ Goto(c, [at |-> "done"])
    /\ UNCHANGED <<predictions, validations, states, reports, clock>>

Ended == (\A c \in Calls : call[c].at = "done") /\ UNCHANGED cognitionVars
CognitionNext ==
    \/ \E c \in Calls :
        \/ \E p \in Products : AskReport(c, p) \/ GeneratePredictions(c, p)
        \/ \E o \in Outcomes : ReadTargets(c, o)
        \/ ReadStates(c) \/ StoreValidations(c) \/ StoreStates(c)
        \/ ReadReport(c) \/ StoreReport(c) \/ StoreReliability(c) \/ Raise(c)
    \/ Ended
-----------------------------------------------------------------------------
CognitionTypeOK ==
    /\ \A k \in Keys : states[k] = NoState \/
          (states[k].reliability \in 0..100 /\ states[k].count \in Nat /\ states[k].at \in 0..clock)
    /\ \A v \in validations : v.product \in Products /\ v.kind \in Kinds
    /\ blurred \subseteq Keys \cup Products /\ faults \in 0..MaxFaults

Of(k) == {v \in validations : k \in KeysOf(v)}

\* A confidence state never claims more comparisons than are stored for its key,
\* whatever was lost, overlapped or repeated (cognition_service.py:69-71: the
\* validations are written first).
CountsAreBacked == \A k \in Keys : states[k] # NoState => states[k].count <= Cardinality(Of(k))

\* Unless a writer wrote over a value it had not read, or died between the two
\* writes, every stored comparison is counted once nothing is in between.
QuietStateCountsAll ==
    \A k \in Keys :
        (k \notin blurred /\ \A c \in Calls : ~(call[c].at = "states" /\ k \in DOMAIN call[c].write))
        => (IF states[k] = NoState THEN 0 ELSE states[k].count) = Cardinality(Of(k))

\* A path or workload that every outcome has contradicted has lost at least the
\* fifth of its first trust that one comparison weighs, however often it was wrong
\* and in whatever order that was written down (cognition.py:277-286).
BlamedIsDoubted ==
    \A k \in Keys : (k[1] # "product" /\ states[k] # NoState /\ \A v \in Of(k) : v.status = "contradicted")
                    => states[k].reliability * 100 <= 58 * 82

\* The report of a product whose writers never crossed, and none of which is
\* under way, shows every comparison made for it.
QuietReportIsWhole ==
    \A p \in Products :
        (/\ p \notin blurred /\ reports[p] # NoReport
         /\ \A c \in Calls : call[c].at \in {"idle", "targets", "done"} \/ call[c].product # p)
        => reports[p].seen = ValidationsOf(p)

\* What the engine believes is what it has seen.
BeliefsAreSeen == CognitionTypeOK /\ CountsAreBacked /\ QuietStateCountsAll /\ BlamedIsDoubted /\ QuietReportIsWhole
=============================================================================
