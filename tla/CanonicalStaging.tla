--------------------------- MODULE CanonicalStaging ---------------------------
(***************************************************************************)
(* What the import of canonical products decides about one record: its      *)
(* state when a dataset row is staged, what the founder's review says of    *)
(* it, and whether a commit skips it, sends it to approval or imports it.   *)
(* A row has been adapted and normalised; a value 0 is a missing one.       *)
(***************************************************************************)
EXTENDS Naturals, FiniteSets

CONSTANTS
    Keys,               \* canonical keys
    Fields, Values,     \* specs; Values holds 0
    Required,           \* specs a record must have that is no graphics card
    FamilyFields,       \* specs that make a card ready as one of its family
    ExactFields,        \* specs that make it ready as this very card
    TargetFields,       \* specs the expansion manifest asks of a card
    Spoiling,           \* specs of a card that must not be inferred
    Guarded             \* specs that no import may replace by itself

ASSUME SpecsAssumption ==
    /\ 0 \in Values
    /\ \A F \in {Required, FamilyFields, ExactFields, TargetFields, Spoiling, Guarded} : F \subseteq Fields

Specs == [Fields -> Values]
Readiness == {"yes", "no", "unstated"}
Nothing == [f \in Fields |-> 0]

\* A record with some of its fields replaced.
With(r, fields) == [x \in DOMAIN r |-> IF x \in DOMAIN fields THEN fields[x] ELSE r[x]]
Missing(specs, fields) == {f \in fields : specs[f] = 0}
Has(specs, fields) == Missing(specs, fields) = {}

\* As `_catalog_row_has_required_specs`.
Complete(gpu, specs) == Has(specs, IF gpu THEN ExactFields ELSE Required)

\* Brand and model, or all specs, make an identity sure (0.84 and more; else 0.55).
Sure(row) == (row.gpu /\ row.branded) \/ Complete(row.gpu, row.specs)

Spoilt(r) == r.gpu /\ r.inferred \cap Spoiling # {}
ExactReady(r) == r.gpu /\ Has(r.specs, ExactFields) /\ ~Spoilt(r)
FamilyReady(r) == r.gpu /\ Has(r.specs, FamilyFields) /\ ~Spoilt(r)

\* The specs of its target a row lacks.  Inferred ones are meant to count as missing too,
\* but a normalised row carries their list as JSON text, in which none is found.
TargetGaps(row) == Missing(row.specs, IF row.gpu THEN TargetFields ELSE Required)

Annotated(row) ==
    LET lacks == row.target = "match" /\ TargetGaps(row) # {}
        fills == row.target = "match" /\ row.ready = "unstated"
    IN  [ready |-> IF lacks THEN "no" ELSE IF fills THEN "yes" ELSE row.ready,
         required |-> ~lacks /\ (fills \/ Complete(row.gpu, row.specs))]

\* Everything in the manifest's categories must match a target of the asked tier.
Reasons(row) ==
    LET a == Annotated(row)
        family == row.gpu /\ Has(row.specs, FamilyFields) /\ ~Spoilt(row)
    IN  {w \in {"low confidence", "missing specs", "bundle", "outside"} :
           \/ w = "low confidence" /\ ~Sure(row) /\ row.target # "match"
           \/ w = "missing specs" /\ ~a.required /\ ~row.adapted /\ ~family
           \/ w = "bundle" /\ row.bundle
           \/ w = "outside" /\ (row.target # "match" \/ row.offTier)}

\* A card whose family is complete is not deferred, inferred specs or not.
Status(row) ==
    IF Reasons(row) # {} THEN "rejected"
    ELSE IF Annotated(row).required \/ (row.gpu /\ Has(row.specs, FamilyFields)) THEN "valid"
    ELSE "deferred"

\* Values that disagree; a missing one agrees with everything.
Conflicts(existing, incoming) ==
    {f \in Guarded : existing[f] # 0 /\ incoming[f] # 0 /\ existing[f] # incoming[f]}

\* The record that is staged, next to what the product holds when it is looked up.
\* History: flawed, rejected when staged; moved, its specs or the product changed since;
\* raced, marked by a request that had read an earlier one; torn, so enriched.
StagedRecord(row, source, product) ==
    LET a == Annotated(row)
    IN  [source |-> source, gpu |-> row.gpu, adapted |-> row.adapted, specs |-> row.specs, inferred |-> row.inferred,
         sure |-> Sure(row), exact |-> ExactReady(row), family |-> FamilyReady(row),
         ready |-> a.ready, status |-> Status(row), rejected |-> Reasons(row) # {},
         conflicts |-> IF product.here THEN Conflicts(product.specs, row.specs) ELSE {},
         mark |-> "pending", confirmed |-> FALSE, flawed |-> Reasons(row) # {},
         moved |-> FALSE, raced |-> FALSE, torn |-> FALSE]

-----------------------------------------------------------------------------
\* Stored flags count beside the specs; an inferred spec of a card voids both.
IsExact(r) ==
    IF r.gpu THEN (r.exact \/ Has(r.specs, ExactFields)) /\ ~Spoilt(r) ELSE r.ready = "yes"
IsFamily(r) == r.gpu /\ (r.family \/ Has(r.specs, FamilyFields)) /\ ~Spoilt(r)

\* hybrid_import_review of one record: its class, the first that fits.
Review(r) ==
    IF r.mark = "imported" THEN "imported"
    ELSE IF r.status = "deferred" /\ ~r.rejected THEN "enrich"
    ELSE IF r.status # "valid" \/ r.rejected THEN "reject"
    ELSE IF r.conflicts # {} THEN "conflict"
    ELSE IF IsExact(r) \/ IsFamily(r) THEN "eligible" ELSE "enrich"

SkippedUnlessExact(r) ==
    \/ ~r.sure
    \/ ~Has(r.specs, IF r.gpu THEN ExactFields ELSE Required)
    \/ ~r.gpu /\ r.ready = "no"

\* Only a card that is exactly ready must have all exact specs; so for its family.
Skipped(r) ==
    \/ ~r.sure
    \/ /\ r.gpu
       /\ IF IsExact(r) THEN ~Has(r.specs, ExactFields) ELSE IsFamily(r) => ~Has(r.specs, FamilyFields)
    \/ ~r.gpu /\ (r.ready = "no" \/ ~Has(r.specs, Required))

StagedDecision(r, product, approval) ==
    IF Skipped(r) THEN "skip" ELSE IF approval /\ r.conflicts # {} THEN "conflict" ELSE "import"

\* What a commit would do with the record, next to the product of its key.
Decision(r, product, approval) ==
    IF Skipped(r) THEN "skip"
    ELSE IF approval /\ product.here /\ Conflicts(product.specs, r.specs) # {} THEN "conflict" ELSE "import"

-----------------------------------------------------------------------------
OnlyConfirmed(specs, confirmed) == confirmed

\* Specs that a founder confirmed, over those that were staged.
Merged(specs, confirmed) == [f \in Fields |-> IF confirmed[f] # 0 THEN confirmed[f] ELSE specs[f]]

\* enrich_staged_specs refuses a record with conflicts and specs that stay incomplete.
Enrichable(r, confirmed) ==
    LET specs == Merged(r.specs, confirmed)
    IN  /\ r.conflicts = {}
        /\ IF r.gpu THEN Has(specs, ExactFields) \/ Has(specs, FamilyFields) ELSE Has(specs, Required)

\* The rest of the record is as it is now: inferred fields and conflicts stay.
Enriched(r, specs) ==
    With(r, [specs |-> specs, exact |-> ~r.gpu \/ Has(specs, ExactFields),
             family |-> r.gpu /\ Has(specs, FamilyFields),
             ready |-> IF ~r.gpu \/ Has(specs, ExactFields) THEN "yes" ELSE "no",
             status |-> "valid", sure |-> TRUE, rejected |-> FALSE,
             mark |-> "pending", confirmed |-> TRUE, moved |-> TRUE, torn |-> FALSE])

\* enrich_staged_cpu_specs leaves state, reasons and identity as they were staged.
CpuEnriched(r, specs) ==
    With(r, [specs |-> specs, ready |-> "yes", mark |-> "pending", confirmed |-> TRUE, moved |-> TRUE])

-----------------------------------------------------------------------------
\* Per spec the values that evidence gives it.
EvidenceOf(evidence, f) == {e.specs[f] : e \in evidence} \ {0}

AuditFields(gpu) == IF gpu THEN FamilyFields \cup ExactFields ELSE Required

\* _spec_audit_status: evidence that disagrees with itself or with the product.
AuditConflicts(product, gpu, evidence) ==
    {f \in AuditFields(gpu) :
       LET told == EvidenceOf(evidence, f)
       IN  \/ Cardinality(told) > 1
           \/ told # {} /\ product[f] # 0 /\ product[f] \notin told}

\* A missing spec with evidence of one mind: it can be filled in.
SafeFixes(product, gpu, evidence) ==
    {f \in AuditFields(gpu) \ AuditConflicts(product, gpu, evidence) :
       product[f] = 0 /\ EvidenceOf(evidence, f) # {}}

AuditStatus(product, gpu, evidence) ==
    IF AuditConflicts(product, gpu, evidence) # {} THEN "conflict"
    ELSE IF SafeFixes(product, gpu, evidence) # {} THEN "fix"
    ELSE IF \E f \in AuditFields(gpu) : EvidenceOf(evidence, f) = {} THEN "missing" ELSE "verified"
=============================================================================
