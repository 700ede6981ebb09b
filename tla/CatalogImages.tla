---------------------------- MODULE CatalogImages ----------------------------
(***************************************************************************)
(* Image review and the automated pipeline over one table: requests of the *)
(* reviewers, runs of the pipeline with their lease, and what the two keep *)
(* of the images of a product.                                             *)
(***************************************************************************)
EXTENDS ImageReview, ImagePipeline

vars == <<rowVars, reviewVars, leaseVars, workVars>>

Init == RowsInit /\ ReviewInit /\ LeaseInit /\ WorkInit

Reviewing(q) == ReviewStep(q) /\ UNCHANGED <<leaseVars, workVars>>

Running(r) == PipelineStep(r) /\ UNCHANGED reviewVars

Next ==
    \/ \E q \in Requests : Reviewing(q)
    \/ \E r \in Runs : Running(r) \/ (Kill(r) /\ UNCHANGED reviewVars)
    \/ LeaseTick /\ UNCHANGED reviewVars

\* A run that was started goes on; nobody owes a start, a review or an hour.
Spec == Init /\ [][Next]_vars /\ \A r \in Runs : WF_vars(phase[r] # "idle" /\ Running(r))

-----------------------------------------------------------------------------
TypeOK == RowsTypeOK /\ ReviewTypeOK /\ LeaseTypeOK /\ WorkTypeOK

\* Published images survive a step: the product still has one after it.
Loses(p) == Published(rows, p) # {} /\ Published(rows', p) = {}

\* The step records a decision of request q on image i other than APPROVE_PRIMARY.
Withdraws(q) ==
    /\ request[q].phase = "evaluated" /\ request'[q] = NoRequest
    /\ request[q].decision \in {"REJECT", "REQUEST_CHANGES", "EXPIRE_RIGHTS", "REMOVE_PRIMARY"}

(* Replacing a primary is atomic, for APPROVE_PRIMARY and for the pipeline: *)
(* a product that has a published image loses its last one only by a        *)
(* reviewer's decision against that image, never because of a replacement   *)
(* that failed, was killed half-way or met a concurrent one.                *)
SwapKeepsPrimary ==
    [][\A p \in Products :
         Loses(p) => \E q \in Requests : /\ request[q] # NoRequest
                                         /\ Withdraws(q)
                                         /\ request[q].image \in Published(rows, p)]_vars

(* docs, "Review audit history": the audits of an image chain, each starting *)
(* from the statuses the one before left, up to the row as it stands: with   *)
(* one reviewer at a time the history explains the table although the        *)
(* pipeline writes to it too.                                                *)
AuditReplays ==
    \A n \in DOMAIN audits :
        LET later == {m \in DOMAIN audits : m > n /\ audits[m].image = audits[n].image} IN
        IF later = {} THEN Statuses(rows[audits[n].image]) = audits[n].after
        ELSE audits[CHOOSE m \in later : \A k \in later : m <= k].before = audits[n].after

(* No decision invents rights: once a row's rights are not approved no      *)
(* request makes them so, even one that loaded the row while they were.     *)
RightsNeverInvented ==
    [][\A i \in DOMAIN rows : rows'[i].rights = "approved" => rows[i].rights = "approved"]_vars

(* Every record the pipeline leaves in the table, published or not, has its *)
(* three objects in the bucket, whatever failed or died on the way.         *)
SavedIsStored ==
    \A i \in DOMAIN rows :
        rows[i].quality = "accepted" => <<rows[i].product, rows[i].sum>> \in stored

(* A run that holds the lease comes to an end.                              *)
RunEnds ==
    \A r \in Runs : phase[r] = "working" ~> phase[r] \in {"ended", "aborted", "dead"}

(* The table and the bucket agree, whoever wrote to them last.               *)
TableAndBucketAgree == TypeOK /\ SavedIsStored
=============================================================================
