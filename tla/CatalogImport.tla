----------------------------- MODULE CatalogImport -----------------------------
(***************************************************************************)
(* Import batches: a file is staged row by row against the catalog as it   *)
(* is then, reviewers decide on rows (ops_server.py), and commit_batch     *)
(* applies the batch in one SQLite transaction, later and perhaps twice.   *)
(* A commit checks first and takes the write lock with its first flush, so *)
(* other requests move between the two.                                    *)
(***************************************************************************)
EXTENDS ImportMatching

CONSTANTS
    Batches,
    Files,          \* what may be imported: [entity, records]
    Requests,       \* calls of commit_batch
    FirstCatalog,   \* the catalog before the first batch
    MaxDecisions    \* bound: decisions on rows

ASSUME FilesAssumption ==
    \A f \in Files :
        /\ f.entity \in Entities
        /\ f.records \in Seq(Range(f.records)) /\ f.records # <<>>
        /\ f.entity = "STORE_OFFER" => \A r \in Range(f.records) : r.wellFormed => r.at \in Int
        /\ f.entity = "PRODUCT" => \A r \in Range(f.records) : r.wellFormed => r.part # NoPart
ASSUME MaxDecisionsAssumption == MaxDecisions \in Nat

VARIABLES
    catalog,    \* products, stores, specs, images, offers, history
    batch,      \* the ImportBatch rows with their ImportRecords
    commit,     \* each call of commit_batch
    decisions,
    applied     \* history: the batches whose transaction was committed, in order

vars == <<catalog, batch, commit, decisions, applied>>

-----------------------------------------------------------------------------
BatchStatus == {"absent", "staging", "review_required", "ready", "completed", "failed"}

Absent(f) == [status |-> "absent", file |-> f, rows |-> <<>>,
              knew |-> <<>>,      \* history: what was applied before its matching began
              reopened |-> FALSE, \* history: made ready after it had completed
              shared |-> FALSE]   \* history: in the hands of two commits at once

Init ==
    /\ catalog = FirstCatalog
    /\ batch \in [Batches -> {Absent(f) : f \in Files}]
    /\ commit = [q \in Requests |-> [at |-> "idle", of |-> {}]]
    /\ decisions = 0
    /\ applied = <<>>

Records(b) == batch[b].file.records
Entity(b) == batch[b].file.entity
Rows(b) == batch[b].rows

-----------------------------------------------------------------------------
\* dry_run matches one record after the other; others commit in between.
StageRow(b) ==
    /\ batch[b].status \in {"absent", "staging"}
    /\ Len(Rows(b)) < Len(Records(b))
    /\ batch' = [batch EXCEPT
         ![b].status = "staging",
         ![b].rows = StageNext(catalog, Entity(b), Records(b), Rows(b)),
         ![b].knew = IF batch[b].status = "absent" THEN applied ELSE batch[b].knew]
    /\ UNCHANGED <<catalog, commit, decisions, applied>>

\* stage_result.  A blocked row is pending as well.
StageResult(b) ==
    /\ batch[b].status = "staging"
    /\ Len(Rows(b)) = Len(Records(b))
    /\ batch' = [batch EXCEPT ![b].status =
         IF \E i \in DOMAIN Rows(b) : Rows(b)[i].review = "PENDING"
         THEN "review_required" ELSE "ready"]
    /\ UNCHANGED <<catalog, commit, decisions, applied>>

Staged(b) == batch[b].status \notin {"absent", "staging"}

Approvable(b, row) ==
    /\ row.validation \notin {"INVALID", "BLOCKED", "AMBIGUOUS"}
    /\ ~(row.action = "REVIEW" /\ Entity(b) = "PRODUCT_IMAGE_METADATA")

Decided(b, i, review) == [batch EXCEPT ![b].rows[i].review = review]

\* _record_action: the approval of a valid row makes its batch ready, whatever
\* the batch's status is.
Approve(b, i) ==
    /\ Staged(b) /\ i \in DOMAIN Rows(b) /\ decisions < MaxDecisions
    /\ Approvable(b, Rows(b)[i])
    /\ batch' = IF Rows(b)[i].validation # "VALID" THEN Decided(b, i, "APPROVED")
                ELSE [Decided(b, i, "APPROVED") EXCEPT
                        ![b].status = "ready",
                        ![b].reopened = @ \/ batch[b].status = "completed"]
    /\ decisions' = decisions + 1
    /\ UNCHANGED <<catalog, commit, applied>>

Reject(b, i) ==
    /\ Staged(b) /\ i \in DOMAIN Rows(b) /\ decisions < MaxDecisions
    /\ batch' = Decided(b, i, "REJECTED")
    /\ decisions' = decisions + 1
    /\ UNCHANGED <<catalog, commit, applied>>

-----------------------------------------------------------------------------
ValidRow(row) == row.validation \in {"VALID", "DUPLICATE"}

CommittableRow(row) ==
    /\ row.validation \in {"VALID", "DUPLICATE"}
    /\ row.review \in {"APPROVED", "NOT_REQUIRED"}

RowsAllow(b) == Rows(b) # <<>> /\ \A i \in DOMAIN Rows(b) : CommittableRow(Rows(b)[i])

\* assert_commit_allowed.
CommitAllowed(b) ==
    /\ batch[b].status = "ready"
    /\ \A i \in DOMAIN Rows(b) : CommittableRow(Rows(b)[i])

\* Calls between their check and their end.
Committing(b) == {q \in Requests : commit[q].at \in {"checked", "rolledBack"} /\ b \in commit[q].of}

\* commit_batch up to its first write.  A completed batch is answered with 0, one
\* that is not allowed with an error; neither changes anything.
Check(q, b) ==
    /\ commit[q].at = "idle"
    /\ CommitAllowed(b)
    /\ commit' = [commit EXCEPT ![q] = [at |-> "checked", of |-> {b}]]
    /\ batch' = [batch EXCEPT ![b].shared = @ \/ Committing(b) # {}]
    /\ UNCHANGED <<catalog, decisions, applied>>

\* cmd_commit_local approves what it just staged and goes on with the objects
\* it holds; it gives up when a row remains that it cannot approve.
Bootstrap(q, b) ==
    /\ commit[q].at = "idle"
    /\ Staged(b) /\ batch[b].status \in {"review_required", "ready"}
    /\ Entity(b) \in {"PRODUCT", "PRODUCT_SPECIFICATION"}
    /\ \E approved \in SUBSET {i \in DOMAIN Rows(b) : Rows(b)[i].validation = "VALID"} :
         LET rows == [i \in DOMAIN Rows(b) |->
                        IF i \in approved THEN [Rows(b)[i] EXCEPT !.review = "APPROVED"] ELSE Rows(b)[i]]
         IN  /\ batch' = [batch EXCEPT ![b].status = "ready", ![b].rows = rows,
                                       ![b].shared = @ \/ Committing(b) # {}]
             /\ commit' = [commit EXCEPT ![q] =
                  [at |-> IF \A i \in DOMAIN rows : CommittableRow(rows[i]) THEN "checked" ELSE "done",
                   of |-> {b}]]
    /\ UNCHANGED <<catalog, decisions, applied>>

\* The rows of a batch in order, those to skip left out.
AfterRows(b) ==
    LET after[n \in 0..Len(Rows(b))] ==
          IF n = 0 THEN catalog
          ELSE IF Rows(b)[n].action = "SKIP" THEN after[n - 1]
          ELSE CommitRow(after[n - 1], Entity(b), Records(b)[n], Rows(b)[n], b)
    IN  after
Result(b) == AfterRows(b)[Len(Rows(b))]

\* The unique constraints and indexes of models.py.
Consistent(cat) ==
    /\ \A i, j \in DOMAIN cat.products :
          LET p == cat.products[i]
              o == cat.products[j]
          IN  p.part = o.part \/ (p.gtin # NoGtin /\ p.gtin = o.gtin) => i = j
    /\ \A i, j \in DOMAIN cat.stores : cat.stores[i] = cat.stores[j] => i = j
    /\ \A i, j \in DOMAIN cat.specs :
          cat.specs[i].product = cat.specs[j].product /\ cat.specs[i].key = cat.specs[j].key => i = j
    /\ \A i, j \in DOMAIN cat.offers :
          cat.offers[i].store = cat.offers[j].store /\ cat.offers[i].sku = cat.offers[j].sku => i = j
    /\ \A i, j \in {l \in DOMAIN cat.images : cat.images[l].primary /\ cat.images[l].approved} :
          cat.images[i].product = cat.images[j].product => i = j

\* The catalog was written under the same constraints, and not by these batches.
ASSUME FirstCatalogAssumption ==
    /\ IsCatalog(FirstCatalog) /\ Consistent(FirstCatalog)
    /\ \A o \in Range(FirstCatalog.offers) : o.store \in DOMAIN FirstCatalog.stores /\ o.at \in Int
    /\ \A h \in Range(FirstCatalog.history) : h.by \notin Batches

Apply(q, b) ==
    /\ commit[q].at = "checked" /\ b \in commit[q].of
    /\ Consistent(Result(b))
    /\ catalog' = Result(b)
    /\ batch' = [batch EXCEPT ![b].status = "completed"]
    /\ commit' = [commit EXCEPT ![q].at = "done"]
    /\ applied' = Append(applied, b)
    /\ UNCHANGED decisions

\* A broken constraint, or a lock that SQLite did not get.
RollBack(q) ==
    /\ commit[q].at = "checked"
    /\ commit' = [commit EXCEPT ![q].at = "rolledBack"]
    /\ UNCHANGED <<catalog, batch, decisions, applied>>

MarkFailed(q, b) ==
    /\ commit[q].at = "rolledBack" /\ b \in commit[q].of
    /\ commit' = [commit EXCEPT ![q].at = "done"]
    /\ batch' = [batch EXCEPT ![b].status = "failed"]
    /\ UNCHANGED <<catalog, decisions, applied>>

Next ==
    \/ \E b \in Batches :
         \/ StageRow(b) \/ StageResult(b)
         \/ \E i \in DOMAIN Rows(b) : Approve(b, i) \/ Reject(b, i)
         \/ \E q \in Requests : Check(q, b) \/ Bootstrap(q, b) \/ Apply(q, b) \/ MarkFailed(q, b)
    \/ \E q \in Requests : RollBack(q)

Spec == Init /\ [][Next]_vars

-----------------------------------------------------------------------------
TypeOK ==
    /\ \A b \in Batches :
         /\ batch[b].status \in BatchStatus /\ batch[b].file \in Files
         /\ batch[b].knew \in Seq(Batches) /\ batch[b].reopened \in BOOLEAN /\ batch[b].shared \in BOOLEAN
         /\ Len(Rows(b)) <= Len(Records(b))
         /\ \A i \in DOMAIN Rows(b) :
              /\ Rows(b)[i].validation \in {"VALID", "INVALID", "DUPLICATE", "AMBIGUOUS", "BLOCKED"}
              /\ Rows(b)[i].review \in {"PENDING", "APPROVED", "REJECTED", "NOT_REQUIRED"}
              /\ Rows(b)[i].action \in {"CREATE", "UPDATE", "SKIP", "REVIEW", "REJECT"}
              /\ Rows(b)[i].product \in {NoId} \cup DOMAIN catalog.products
              /\ Rows(b)[i].offer \in {NoId} \cup DOMAIN catalog.offers
    /\ commit \in [Requests -> [at : {"idle", "checked", "rolledBack", "done"}, of : SUBSET Batches]]
    /\ decisions \in 0..MaxDecisions
    /\ applied \in Seq(Batches)

\* What the applied batches observed of an offer.
AppliedOffers(store, sku) ==
    UNION {{r \in {Records(b)[i] : i \in {j \in DOMAIN Rows(b) : Rows(b)[j].action # "SKIP"}} :
               r.store = store /\ r.sku = sku} :
           b \in {c \in Range(applied) : Entity(c) = "STORE_OFFER"}}

(* docs/operations/PRODUCT_CATALOG_IMPORT_PIPELINE.md: older prices may      *)
(* append history but do not replace current offer state.  Whatever the      *)
(* order in which batches are staged and committed, an offer shows the       *)
(* newest of all observations applied to it.                                 *)
OfferIsNewest ==
    \A o \in Range(catalog.offers) :
        LET seen == AppliedOffers(catalog.stores[o.store], o.sku)
        IN  /\ \A r \in seen : r.at <= o.at
            /\ \/ o \in Range(FirstCatalog.offers)
               \/ \E r \in seen : r.at = o.at /\ r.price = o.price

(* Whatever is applied was valid, and what staging wanted reviewed was       *)
(* approved by a reviewer at some time: one approved row makes its batch     *)
(* ready but takes no other row along.                                       *)
OnlyReviewed ==
    \A b \in Range(applied) : \A i \in DOMAIN Rows(b) :
        Rows(b)[i].action # "SKIP" => Rows(b)[i].validation = "VALID" /\ Rows(b)[i].review # "PENDING"

Retaken(b) == batch[b].reopened \/ batch[b].shared

(* "treats completed batches as idempotent", "marks a failure clearly after  *)
(* rollback": a batch is applied once, and exactly if it is recorded as      *)
(* completed, unless it was made ready again or two commits took it up at    *)
(* the same time.                                                            *)
StatusTellsApplied ==
    \A b \in Batches : ~Retaken(b) =>
        /\ batch[b].status = "completed" <=> b \in Range(applied)
        /\ \A i, j \in DOMAIN applied : applied[i] = b /\ applied[j] = b => i = j

(* A batch is applied once, as it was reviewed.                              *)
AppliedAsReviewed == TypeOK /\ OnlyReviewed /\ StatusTellsApplied

(* Price observations are duplicate-safe across batches: if an entry of an   *)
(* offer's history that comes of a price observation equals another one, the *)
(* batch of the other was not yet applied when this one was matched; and     *)
(* both come of one batch only if that was taken up again.                   *)
ObservedOnce ==
    \A i, j \in DOMAIN catalog.history :
        LET h == catalog.history[i]
            k == catalog.history[j]
        IN  /\ i # j /\ h.offer = k.offer /\ h.price = k.price /\ h.at = k.at
            /\ k.by \in Batches /\ Entity(k.by) = "PRICE_OBSERVATION"
            => h.by \notin Range(batch[k.by].knew) /\ (h.by = k.by => Retaken(k.by))

\* What the marks of a file miss: two primary images of one product, and two
\* values of one specification whose product is named in two ways.
Blind(b) ==
    \E m, n \in DOMAIN Rows(b) :
        /\ m # n /\ Rows(b)[m].product = Rows(b)[n].product
        /\ \/ /\ Entity(b) = "PRODUCT_IMAGE_METADATA"
              /\ \A i \in {m, n} : Records(b)[i].primary /\ Records(b)[i].approved
           \/ /\ Entity(b) = "PRODUCT_SPECIFICATION"
              /\ Records(b)[m].key = Records(b)[n].key /\ Records(b)[m].gtin # Records(b)[n].gtin

(* Staging finds every conflict that the constraints would find: a batch     *)
(* that passes the check breaks none, unless one was applied since its       *)
(* matching began or the file has a conflict of the two kinds above.         *)
CheckedCommits ==
    \A q \in Requests : \A b \in commit[q].of :
        commit[q].at = "checked" /\ applied = batch[b].knew /\ ~Blind(b) =>
            Consistent(Result(b))

(* LOCAL_CATALOG_OPERATIONS_INTERFACE.md: a repeated commit does not         *)
(* duplicate catalog rows.  Here one that begins after the other has ended   *)
(* and the rows of the price history.                                        *)
RepeatedCommitAddsNothing ==
    \A i, j \in DOMAIN catalog.history :
        i # j /\ catalog.history[i] = catalog.history[j] => batch[catalog.history[i].by].shared
=============================================================================
