--------------------------- MODULE CanonicalImport ---------------------------
(***************************************************************************)
(* Canonical products come into the graph from datasets: rows are staged,   *)
(* enriched with confirmed specs, reviewed and committed; feeds write them  *)
(* at once, and the spec audit fills gaps.  Every request goes through its  *)
(* records query by query beside the others, and any query may raise.       *)
(***************************************************************************)
EXTENDS CanonicalStaging, SequencesExt

CONSTANTS
    Ops,
    Sources,            \* approved sources, with their type
    Datasets,           \* what a staging request reads: sequences of rows
    Confirmed,          \* specs that founders confirm
    Fixture,            \* per key, the evidence that comes with the code
    IsCard,             \* per key, whether it is a graphics card
    Approvals,          \* approval_required_for_conflicts, TRUE by default
    BatchLimit,
    NoRecord, NoOp,
    Endless,            \* kinds of request that are not counted
    MaxRequests, MaxFaults, MaxPending   \* bounds

\* A row after the adapter and the normalisation, and the record it is staged as.
Rows ==
    [key : Keys, gpu : BOOLEAN, branded : BOOLEAN, bundle : BOOLEAN, target : {"match", "other"},
     offTier : BOOLEAN, adapted : BOOLEAN, ready : Readiness, specs : Specs, inferred : SUBSET Fields]

StagedRecords ==
    [source : Sources, gpu : BOOLEAN, adapted : BOOLEAN, specs : Specs, inferred : SUBSET Fields,
     sure : BOOLEAN, exact : BOOLEAN, family : BOOLEAN, ready : Readiness,
     status : {"valid", "deferred", "rejected"}, rejected : BOOLEAN, conflicts : SUBSET Fields,
     mark : {"pending", "skipped", "conflict", "imported"}, confirmed : BOOLEAN, flawed : BOOLEAN,
     moved : BOOLEAN, raced : BOOLEAN, torn : BOOLEAN]

ASSUME ImportAssumption ==
    /\ Confirmed \subseteq Specs /\ Fixture \in [Keys -> Specs] /\ IsCard \in [Keys -> BOOLEAN]
    /\ Approvals \subseteq BOOLEAN
    /\ {BatchLimit, MaxRequests, MaxFaults, MaxPending} \subseteq Nat /\ MaxPending > 0
    /\ IsFiniteSet(Keys) /\ NoRecord \notin StagedRecords
    /\ Datasets \subseteq Seq(Rows)

VARIABLES
    staged,     \* StagedCanonicalRecord per key
    order,      \* the staged keys, the oldest first
    product,    \* Product per key
    evidence,   \* CanonicalEvidence of a product that the audit trusts
    pending,    \* approvals that wait for the founder, per key
    op,         \* the requests under way
    requests, faults

vars == <<staged, order, product, evidence, pending, op, requests, faults>>
bookkeeping == <<requests, faults>>

-----------------------------------------------------------------------------
NoProduct == [here |-> FALSE, specs |-> Nothing,
              flawed |-> FALSE]     \* history: from a record that was rejected and never confirmed

Init ==
    /\ staged = [k \in Keys |-> NoRecord] /\ order = <<>>
    /\ product = [k \in Keys |-> NoProduct]
    /\ evidence = [k \in Keys |-> {}] /\ pending = [k \in Keys |-> 0]
    /\ op = [o \in Ops |-> NoOp]
    /\ requests = 0 /\ faults = 0

Staged == {k \in Keys : staged[k] # NoRecord}
Busy(o) == op[o] # NoOp
Does(o, kind, at) == Busy(o) /\ op[o].kind = kind /\ op[o].at = at
Item(o) == Head(op[o].todo)
Key(o) == Item(o).key

\* seen: the keys whose product, or staged record, another request wrote since o read them.
\* Requests are bounded, but for those that may come for ever.
Counted(kind) ==
    IF kind \in Endless THEN UNCHANGED requests ELSE requests < MaxRequests /\ requests' = requests + 1

Blank == [kind |-> "none", at |-> "next", todo |-> <<>>, done |-> <<>>, source |-> NoRecord, approval |-> TRUE,
          rewritten |-> {}, restaged |-> {}]
Begin(o, fields) ==
    /\ ~Busy(o) /\ Counted(fields.kind)
    /\ op' = [op EXCEPT ![o] = With(Blank, fields)]

End(o) == op' = [op EXCEPT ![o] = NoOp]
Step(o, fields) == op' = [op EXCEPT ![o] = With(op[o], fields)]
NextItem(o) == Step(o, [at |-> "next", todo |-> Tail(op[o].todo)])

Noted(o, field, k) ==
    [p \in Ops |-> IF p # o /\ Busy(p) THEN [op[p] EXCEPT ![field] = op[p][field] \cup {k}] ELSE op[p]]
Rewrite(k, value) ==
    /\ product' = [product EXCEPT ![k] = value]
    /\ staged' = [staged EXCEPT ![k] = IF staged[k] = NoRecord THEN NoRecord
                                       ELSE With(staged[k], [moved |-> TRUE])]
WriteProduct(o, k, value, fields) ==
    /\ Rewrite(k, value)
    /\ op' = [Noted(o, "rewritten", k) EXCEPT ![o] = With(op[o], fields)]
WriteStaged(o, k, value, fields) ==
    /\ staged' = [staged EXCEPT ![k] = value]
    /\ op' = [Noted(o, "restaged", k) EXCEPT ![o] = With(op[o], fields)]

-----------------------------------------------------------------------------
\* POST /catalog/import/stage: rows that are annotated, judged and then written.
\* A dry run only reads, and is left out.
StageBegin(o, source, rows) ==
    /\ Begin(o, [kind |-> "stage", at |-> "judge", source |-> source, todo |-> rows])
    /\ UNCHANGED <<staged, order, product, evidence, pending, faults>>

StageJudge(o) ==
    /\ Does(o, "stage", "judge")
    /\ IF op[o].todo # <<>>
       THEN LET record == StagedRecord(Item(o), op[o].source, product[Key(o)])
            IN  Step(o, [todo |-> Tail(op[o].todo),
                         rewritten |-> op[o].rewritten \ ({Key(o)} \ {x.key : x \in ToSet(op[o].done)}),
                         done |-> Append(op[o].done, [key |-> Key(o), record |-> record])])
       ELSE Step(o, [at |-> "write", todo |-> op[o].done])
    /\ UNCHANGED <<staged, order, product, evidence, pending, bookkeeping>>

\* MERGE by the key alone, whatever source staged it before.  What a row does not
\* say keeps its value: confirmed specs stay noted as such, and inferred ones as inferred.
RestagedKeepsMark(k, record) ==
    IF staged[k] = NoRecord THEN record ELSE With(record, [mark |-> staged[k].mark])
Restaged(k, record) ==
    IF staged[k] = NoRecord THEN record
    ELSE With(record, [confirmed |-> staged[k].confirmed,
                       inferred |-> IF record.adapted THEN record.inferred ELSE staged[k].inferred,
                       ready |-> IF record.ready = "unstated" THEN staged[k].ready ELSE record.ready])

\* The age of a record is that of its first row.
ArrivesAgain(k) == Append(order, k)
Arrived(k) == IF staged[k] = NoRecord THEN Append(order, k) ELSE order

StageWrite(o) ==
    /\ Does(o, "stage", "write")
    /\ IF op[o].todo = <<>>
       THEN End(o) /\ UNCHANGED <<staged, order>>
       ELSE /\ WriteStaged(o, Key(o), With(Restaged(Key(o), Item(o).record),
                                           [moved |-> Key(o) \in op[o].rewritten]),
                           [todo |-> Tail(op[o].todo)])
            /\ order' = Arrived(Key(o))
    /\ UNCHANGED <<product, evidence, pending, bookkeeping>>

\* The records of one source and category.
Of(k, source, card) == staged[k].source = source /\ staged[k].gpu = card

\* The staged keys that are in a set, the oldest first.
Among(G) ==
    LET kept[i \in 0..Len(order)] ==
          IF i = 0 THEN <<>> ELSE IF order[i] \in G THEN Append(kept[i - 1], order[i]) ELSE kept[i - 1]
    IN  kept[Len(order)]

\* DELETE /catalog/import/staged, one query.
Clear(source, card) ==
    LET gone == {k \in Staged : Of(k, source, card)}
    IN  /\ gone # {} /\ Counted("clear")
        /\ staged' = [k \in Keys |-> IF k \in gone THEN NoRecord ELSE staged[k]]
        /\ order' = Among(Staged \ gone)
        /\ op' = [o \in Ops |-> IF Busy(o) THEN [op[o] EXCEPT !.restaged = op[o].restaged \cup gone] ELSE op[o]]
        /\ UNCHANGED <<product, evidence, pending, faults>>

-----------------------------------------------------------------------------
\* _staged_canonical_records: valid, not imported, the oldest first.
AnyStatus(k, source, card) == Of(k, source, card) /\ staged[k].mark # "imported"
Committable(k, source, card) == Of(k, source, card) /\ staged[k].status = "valid" /\ staged[k].mark # "imported"
WindowOf(source, card) ==
    LET all == Among({k \in Staged : Committable(k, source, card)})
        window == SubSeq(all, 1, IF Len(all) < BatchLimit THEN Len(all) ELSE BatchLimit)
    IN  [i \in 1..Len(window) |-> [key |-> window[i], record |-> staged[window[i]]]]

\* POST /catalog/import/commit; a preview writes nothing and is Decision itself.
CommitBegin(o, source, card, approval) ==
    /\ WindowOf(source, card) # <<>>
    /\ Begin(o, [kind |-> "commit", source |-> source, todo |-> WindowOf(source, card), approval |-> approval])
    /\ UNCHANGED <<staged, order, product, evidence, pending, faults>>

\* A conflict is asked of the founder before the record is marked.
MarksAtOnce(decision) ==
    CASE decision = "skip" -> "skipped"
      [] decision = "conflict" -> "conflict"
      [] OTHER -> "upsert"
Follows(decision) ==
    CASE decision = "skip" -> "skipped"
      [] decision = "conflict" -> "ask"
      [] OTHER -> "upsert"

\* The record as it was read is compared with the product as it is now.
CommitNext(o) ==
    /\ Does(o, "commit", "next")
    /\ IF op[o].todo = <<>>
       THEN End(o)
       ELSE LET k == Key(o)
                decision == Decision(Item(o).record, product[k], op[o].approval)
            IN  Step(o, [rewritten |-> op[o].rewritten \ {k}, at |-> Follows(decision)])
    /\ UNCHANGED <<staged, order, product, evidence, pending, bookkeeping>>

\* _create_canonical_conflict_approval: a new one each time.
CommitAsk(o) ==
    /\ Does(o, "commit", "ask")
    /\ pending' = [pending EXCEPT ![Key(o)] = IF @ < MaxPending THEN @ + 1 ELSE @]
    /\ Step(o, [at |-> "conflict"])
    /\ UNCHANGED <<staged, order, product, evidence, bookkeeping>>

CommitUpsert(o) ==
    /\ Does(o, "commit", "upsert")
    /\ LET r == Item(o).record
       IN  WriteProduct(o, Key(o), [here |-> TRUE, specs |-> Merged(product[Key(o)].specs, r.specs),
                                    flawed |-> r.flawed /\ ~r.confirmed], [at |-> "evidence"])
    /\ UNCHANGED <<order, evidence, pending, bookkeeping>>

\* Evidence of the import, and of confirmed specs unless there is one already.
CommitEvidence(o) ==
    /\ Does(o, "commit", "evidence")
    /\ LET r == Item(o).record
           imported == [kind |-> "import", specs |-> r.specs]
           confirmed == [kind |-> "confirmed", specs |-> r.specs]
       IN  evidence' = [evidence EXCEPT ![Key(o)] =
             IF r.confirmed /\ \A e \in @ : e.kind # "confirmed" THEN @ \cup {imported, confirmed}
             ELSE @ \cup {imported}]
    /\ Step(o, [at |-> "imported"])
    /\ UNCHANGED <<staged, order, product, pending, bookkeeping>>

\* _mark_staged_canonical_record finds the record by key, source, type and category.
CommitMark(o, mark) ==
    /\ Does(o, "commit", mark)
    /\ LET k == Key(o)
           found == k \in Staged /\ staged[k].source = Item(o).record.source
       IN  staged' = IF found THEN [staged EXCEPT ![k] =
                                       With(staged[k], [mark |-> mark, raced |-> k \in op[o].restaged])]
                     ELSE staged
    /\ NextItem(o)
    /\ UNCHANGED <<order, product, evidence, pending, bookkeeping>>

-----------------------------------------------------------------------------
\* POST /catalog/canonical/enrich-specs: one record, or every card of the family,
\* read by one query and written one by one.
EnrichBegin(o, keys, confirmed, cpu) ==
    LET found == Among(keys)
    IN  /\ found # <<>>
        /\ Begin(o, [kind |-> IF cpu THEN "enrichCpu" ELSE "enrich", at |-> "write",
                     todo |-> [i \in 1..Len(found) |->
                                 [key |-> found[i], record |-> staged[found[i]], confirmed |-> confirmed]]])
        /\ UNCHANGED <<staged, order, product, evidence, pending, faults>>

\* The specs that were read, with the confirmed ones, into the record as it is now.
EnrichWrite(o) ==
    /\ Does(o, "enrich", "write") \/ Does(o, "enrichCpu", "write")
    /\ IF op[o].todo = <<>>
       THEN End(o) /\ UNCHANGED staged
       ELSE LET k == Key(o)
                r == Item(o).record
                specs == Merged(r.specs, Item(o).confirmed)
                cpu == op[o].kind = "enrichCpu"
            IN  IF ~cpu /\ ~Enrichable(r, Item(o).confirmed)
                THEN Step(o, [todo |-> Tail(op[o].todo)]) /\ UNCHANGED staged
                ELSE /\ k \in Staged      \* else it raises: see Raise
                     /\ LET written == IF cpu THEN CpuEnriched(staged[k], specs) ELSE Enriched(staged[k], specs)
                        IN  WriteStaged(o, k, With(written, [torn |-> k \in op[o].restaged \/ written.torn]),
                                        [at |-> "attach"])
    /\ UNCHANGED <<order, product, evidence, pending, bookkeeping>>

\* _attach_confirmed_spec_evidence: nothing without a product, and once per product;
\* that of the CPU request is attached each time.
EnrichAttach(o) ==
    /\ Does(o, "enrich", "attach") \/ Does(o, "enrichCpu", "attach")
    /\ LET k == Key(o)
           once == op[o].kind = "enrichCpu" \/ \A e \in evidence[k] : e.kind # "confirmed"
       IN  evidence' = [evidence EXCEPT ![k] =
             IF product[k].here /\ once THEN @ \cup {[kind |-> "confirmed", specs |-> Item(o).confirmed]} ELSE @]
    /\ Step(o, [at |-> "write", todo |-> Tail(op[o].todo)])
    /\ UNCHANGED <<staged, order, product, pending, bookkeeping>>

-----------------------------------------------------------------------------
\* POST /catalog/feeds/import and the CPU specs: straight into the product.
Feed(o, k, specs) ==
    /\ ~Busy(o) /\ Counted("feed")
    /\ Rewrite(k, [here |-> TRUE, specs |-> Merged(product[k].specs, specs), flawed |-> FALSE])
    /\ op' = Noted(o, "rewritten", k)
    /\ UNCHANGED <<order, evidence, pending, faults>>

-----------------------------------------------------------------------------
Told(k) == evidence[k] \cup {[kind |-> "fixture", specs |-> Fixture[k]]}

\* run_spec_audit in mode apply_safe: products with their evidence, by one query.
AuditBegin(o) ==
    LET rows == {[key |-> k, specs |-> product[k].specs, told |-> Told(k)] : k \in {j \in Keys : product[j].here}}
    IN  /\ rows # {}
        /\ Begin(o, [kind |-> "audit", todo |-> SetToSeq(rows)])
        /\ UNCHANGED <<staged, order, product, evidence, pending, faults>>

AuditNext(o) ==
    /\ Does(o, "audit", "next")
    /\ IF op[o].todo = <<>>
       THEN End(o)
       ELSE LET status == AuditStatus(Item(o).specs, IsCard[Key(o)], Item(o).told)
            IN  IF status \in {"fix", "conflict"} THEN Step(o, [at |-> status]) ELSE NextItem(o)
    /\ UNCHANGED <<staged, order, product, evidence, pending, bookkeeping>>

Fix(o) == [f \in Fields |->
             IF f \in SafeFixes(Item(o).specs, IsCard[Key(o)], Item(o).told)
             THEN CHOOSE v \in EvidenceOf(Item(o).told, f) : TRUE ELSE 0]

\* _apply_spec_audit_safe_fixes: what was missing when the products were read.
AuditFix(o) ==
    /\ Does(o, "audit", "fix")
    /\ WriteProduct(o, Key(o), [product[Key(o)] EXCEPT !.specs = Merged(@, Fix(o))], [at |-> "fixed"])
    /\ UNCHANGED <<order, evidence, pending, bookkeeping>>

AuditEvidence(o) ==
    /\ Does(o, "audit", "fixed")
    /\ evidence' = [evidence EXCEPT ![Key(o)] = @ \cup {[kind |-> "audit", specs |-> Fix(o)]}]
    /\ NextItem(o)
    /\ UNCHANGED <<staged, order, product, pending, bookkeeping>>

\* _create_spec_audit_conflict_review: a new one each time, and nothing else.
AuditReview(o) ==
    /\ Does(o, "audit", "conflict")
    /\ pending' = [pending EXCEPT ![Key(o)] = IF @ < MaxPending THEN @ + 1 ELSE @]
    /\ NextItem(o)
    /\ UNCHANGED <<staged, order, product, evidence, bookkeeping>>

-----------------------------------------------------------------------------
\* A query raises: the request ends there, and the next one finds what it left.
Raise(o) ==
    /\ Busy(o) /\ faults < MaxFaults
    /\ End(o)
    /\ faults' = faults + 1
    /\ UNCHANGED <<staged, order, product, evidence, pending, requests>>

RaiseGone(o) ==
    /\ Does(o, "enrich", "write") \/ Does(o, "enrichCpu", "write")
    /\ op[o].todo # <<>> /\ Key(o) \notin Staged
    /\ op[o].kind = "enrichCpu" \/ Enrichable(Item(o).record, Item(o).confirmed)
    /\ End(o)
    /\ UNCHANGED <<staged, order, product, evidence, pending, bookkeeping>>

-----------------------------------------------------------------------------
StageStep(o) ==
    \/ \E source \in Sources, rows \in Datasets : StageBegin(o, source, rows)
    \/ StageJudge(o) \/ StageWrite(o)
CommitStep(o) ==
    \/ \E source \in Sources, card \in BOOLEAN, approval \in Approvals : CommitBegin(o, source, card, approval)
    \/ CommitNext(o) \/ CommitAsk(o) \/ CommitUpsert(o) \/ CommitEvidence(o)
    \/ \E mark \in {"skipped", "conflict", "imported"} : CommitMark(o, mark)
EnrichStep(o) ==
    \/ \E confirmed \in Confirmed :
         \/ \E k \in Keys : EnrichBegin(o, {k}, confirmed, FALSE)
         \/ EnrichBegin(o, {k \in Staged : staged[k].gpu}, confirmed, FALSE)
         \/ \E k \in Staged : ~staged[k].gpu /\ EnrichBegin(o, {k}, confirmed, TRUE)
    \/ EnrichWrite(o) \/ EnrichAttach(o) \/ RaiseGone(o)
AuditStep(o) == AuditBegin(o) \/ AuditNext(o) \/ AuditFix(o) \/ AuditEvidence(o) \/ AuditReview(o)
FeedStep(o) == \E k \in Keys, specs \in Confirmed : Feed(o, k, specs)

Done == requests = MaxRequests /\ (\A o \in Ops : ~Busy(o)) /\ UNCHANGED vars

Next ==
    \/ \E o \in Ops : StageStep(o) \/ CommitStep(o) \/ EnrichStep(o) \/ AuditStep(o) \/ FeedStep(o) \/ Raise(o)
    \/ \E source \in Sources, card \in BOOLEAN : Clear(source, card)
    \/ Done

Spec == Init /\ [][Next]_vars

-----------------------------------------------------------------------------
TypeOK ==
    /\ staged \in [Keys -> StagedRecords \cup {NoRecord}]
    /\ order \in Seq(Keys) /\ ToSet(order) = Staged /\ Len(order) = Cardinality(Staged)
    /\ product \in [Keys -> [here : BOOLEAN, specs : Specs, flawed : BOOLEAN]]
    /\ evidence \in [Keys -> SUBSET [kind : {"import", "confirmed", "audit"}, specs : Specs]]
    /\ pending \in [Keys -> 0..MaxPending]
    /\ \A o \in Ops : Busy(o) => op[o].rewritten \cup op[o].restaged \subseteq Keys

\* A record that the review calls eligible is not skipped by the commit; and as long as
\* neither its specs nor the product changed since it was staged, the review calls
\* eligible exactly what the commit imports.  The two decide apart from each other.
\* (A card without a brand can be too unsure for the commit, and the review does not ask;
\* of two enrichments at once the later write may take specs away again, and the record
\* stays torn until it is staged or enriched anew.)
ReviewPredicts ==
    \A k \in Staged :
      LET r == staged[k]
          eligible == Review(r) = "eligible"
      IN  r.sure /\ r.status = "valid" /\ r.mark # "imported" =>
            /\ eligible /\ ~r.torn => ~Skipped(r)
            /\ ~r.moved => (eligible <=> Decision(r, product[k], TRUE) = "import")

\* A record that is marked imported is the one whose specs were imported, with evidence
\* of them: what is staged again is to be imported again.  The mark goes to whatever is
\* staged under the key by then, so only a record restaged under the commit escapes.
ImportedWasApplied ==
    \A k \in Staged : staged[k].mark = "imported" /\ ~staged[k].raced =>
        \E e \in evidence[k] : e.kind = "import" /\ e.specs = staged[k].specs

\* What was rejected when it was staged (a bundle, outside the targets) comes into the
\* catalog only after a founder confirmed its specs, which takes the reasons away.
RejectedStaysOut == \A k \in Keys : ~product[k].flawed

\* A record that is marked as a conflict has an approval that waits for the founder,
\* even if the commit was cut short between its queries.
ConflictIsAsked == \A k \in Staged : staged[k].mark = "conflict" => pending[k] > 0

Replaced(k, fields) ==
    \E f \in fields : product[k].specs[f] # 0 /\ product'[k].specs[f] # product[k].specs[f]
Acts(o) == op[o] # NoOp /\ op'[o] # NoOp /\ op'[o].at # op[o].at

\* A commit replaces a guarded spec without approval, and an audit any spec, only if the
\* product was written after it was read; feeds replace what they bring.
PresentKept ==
    [][\A k \in Keys : \A o \in Ops : Acts(o) /\ op[o].todo # <<>> /\ Key(o) = k /\ k \notin op[o].rewritten =>
         /\ op[o].at = "upsert" /\ op[o].approval => ~Replaced(k, Guarded)
         /\ op[o].at = "fix" => ~Replaced(k, Fields)]_vars

\* An enrichment changes the confirmed specs of a record and leaves the others, unless
\* the record was staged again after it was read.
EnrichmentKeeps ==
    [][\A o \in Ops : Acts(o) /\ op[o].kind \in {"enrich", "enrichCpu"} /\ op[o].at = "write"
                       /\ Key(o) \notin op[o].restaged =>
         \A f \in Fields : Item(o).confirmed[f] = 0 =>
             staged'[Key(o)].specs[f] = staged[Key(o)].specs[f]]_vars

\* A mark tells what was done, and what was rejected is not done.
MarksTellTheTruth == TypeOK /\ ImportedWasApplied /\ RejectedStaysOut
=============================================================================
