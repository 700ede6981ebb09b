----------------------------- MODULE ImageReview -----------------------------
(***************************************************************************)
(* Review of product images (ImageReviewService.record_decision), called   *)
(* by the local operations server, whose threadpool serves several requests*)
(* at once, and by a command line.  A request loads the image, evaluates   *)
(* it, and writes what it decided from the row it loaded; the write, with  *)
(* its audit, is one transaction.                                          *)
(***************************************************************************)
EXTENDS ImageRows, SequencesExt

CONSTANTS
    Requests,      \* the requests that can be in flight at the same time
    MaxDecisions   \* bound: audit records

ASSUME MaxDecisionsAssumption == MaxDecisions \in Nat

VARIABLES
    request,  \* each request in flight
    audits    \* catalog_product_image_reviews, append-only

reviewVars == <<request, audits>>

-----------------------------------------------------------------------------
\* MARK_DUPLICATE does what REJECT does.
Decisions == {"APPROVE", "REJECT", "REQUEST_CHANGES", "EXPIRE_RIGHTS",
              "REMOVE_PRIMARY", "APPROVE_PRIMARY"}

NoRequest == [phase |-> "idle"]

Statuses(row) == <<row.rights, row.quality, row.review>>

AuditWrittenLate(image, before, after) == [image |-> image, before |-> after, after |-> after]

Audit(image, before, after) == [image |-> image, before |-> before, after |-> after]

-----------------------------------------------------------------------------
(* The evaluator, over a row as loaded and the other rows as they are now. *)
Others(i) == DOMAIN rows \ {i}

Duplicated(i, row) == \E k \in Others(i) : rows[k].sum = row.sum

Classification(i, row) ==
    IF row.metadata = "reject" \/ row.rights \in {"rejected", "expired"}
    THEN "REJECTED"
    ELSE IF row.metadata = "review" \/ row.rights # "approved" \/ Duplicated(i, row)
    THEN "REVIEW_REQUIRED"
    ELSE "ACCEPTABLE"

PrimaryConflict(i, row) == row.primary /\ Published(rows, row.product) \ {i} # {}

Acceptable(i, row) ==
    Classification(i, row) = "ACCEPTABLE" /\ ~PrimaryConflict(i, row)

PermitsPendingRights(i, row, decision) ==
    decision \in {"APPROVE", "APPROVE_PRIMARY"} =>
        row.metadata = "fine" /\ row.rights # "rejected" /\ ~PrimaryConflict(i, row)

Permitted(i, row, decision) ==
    decision \in {"APPROVE", "APPROVE_PRIMARY"} => Acceptable(i, row)

\* The row as a decision leaves it.
Decided(row, decision) ==
    CASE decision = "APPROVE" ->
           [row EXCEPT !.rights = "approved", !.quality = "acceptable", !.review = "approved"]
      [] decision = "REJECT" ->
           [row EXCEPT !.rights = "rejected", !.quality = "rejected", !.review = "rejected",
                       !.primary = FALSE]
      [] decision = "REQUEST_CHANGES" -> [row EXCEPT !.review = "pending"]
      [] decision = "EXPIRE_RIGHTS" ->
           [row EXCEPT !.rights = "expired", !.review = "rejected", !.primary = FALSE]
      [] decision = "REMOVE_PRIMARY" -> [row EXCEPT !.primary = FALSE]
      [] decision = "APPROVE_PRIMARY" ->
           [row EXCEPT !.rights = "approved", !.quality = "acceptable", !.review = "approved",
                       !.primary = TRUE]

-----------------------------------------------------------------------------
ReviewInit ==
    /\ request = [q \in Requests |-> NoRequest]
    /\ audits = <<>>

\* session.get: the row the whole request works from.
LoadImage(q) ==
    /\ request[q] = NoRequest
    /\ Len(audits) < MaxDecisions
    /\ \E i \in DOMAIN rows, d \in Decisions :
         request' = [request EXCEPT ![q] = [phase |-> "loaded", image |-> i,
                                            decision |-> d, row |-> rows[i]]]
    /\ UNCHANGED <<audits, rowVars>>

\* The approved primary that APPROVE_PRIMARY is to replace, with its row.
Replaced(i, row, decision) ==
    IF decision = "APPROVE_PRIMARY"
    THEN {[image |-> k, row |-> rows[k]] : k \in Published(rows, row.product) \ {i}}
    ELSE {}

\* The guards of APPROVE and APPROVE_PRIMARY; what they refuse raises ValueError.
Evaluate(q) ==
    LET c == request[q] IN
    /\ c.phase = "loaded"
    /\ request' = [request EXCEPT ![q] =
         IF Permitted(c.image, c.row, c.decision)
         THEN [phase |-> "evaluated", image |-> c.image, decision |-> c.decision,
               row |-> c.row, old |-> Replaced(c.image, c.row, c.decision)]
         ELSE NoRequest]
    /\ UNCHANGED <<audits, rowVars>>

\* The transaction: the replaced primary and its audit, the image and its audit.
\* It waits for locked rows, and fails as a whole on the unique index.
Record(q) ==
    LET c == request[q]
        new == Decided(c.row, c.decision)
        old == {o.image : o \in c.old}
        table == [i \in DOMAIN rows |->
                    IF i = c.image THEN WriteBack(rows[i], c.row, new)
                    ELSE Demoted(rows, old)[i]]
        replaced == SetToSeq({Audit(o.image, Statuses(o.row), Statuses(o.row)) : o \in c.old})
    IN
    /\ c.phase = "evaluated"
    /\ ({c.image} \cup old) \cap locked = {}
    /\ IF UniqueIndex(table)
       THEN /\ rows' = table
            /\ audits' = audits \o replaced
                          \o <<Audit(c.image, Statuses(c.row), Statuses(new))>>
       ELSE UNCHANGED <<rows, audits>>
    /\ request' = [request EXCEPT ![q] = NoRequest]
    /\ UNCHANGED locked

ReviewStep(q) == LoadImage(q) \/ Evaluate(q) \/ Record(q)

ReviewTypeOK ==
    /\ audits \in Seq([image : DOMAIN rows, before : Rights \X Quality \X Review,
                       after : Rights \X Quality \X Review])
    /\ \A q \in Requests :
         request[q] # NoRequest =>
            /\ request[q].phase \in {"loaded", "evaluated"}
            /\ request[q].image \in DOMAIN rows
            /\ request[q].decision \in Decisions
            /\ request[q].row \in Row
=============================================================================
