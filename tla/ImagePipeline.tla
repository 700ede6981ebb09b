---------------------------- MODULE ImagePipeline ----------------------------
(***************************************************************************)
(* A run of the automated image pipeline (AutomatedImagePipeline.run): for *)
(* every approved product without a published image it tries the images    *)
(* the external source offers; the first acceptable one is uploaded in     *)
(* three sizes and becomes the product's approved primary in a transaction *)
(* that first demotes whatever was primary.                                *)
(***************************************************************************)
EXTENDS ImageRows, PipelineLease

CONSTANTS
    ProductOrder,  \* the approved products in the order _load_products reads them
    Source,        \* per product, checksums of the images the source may offer
    ForceRefresh   \* --force-refresh: products with a published image too

ASSUME ProductOrderAssumption == ProductOrder \in Seq(Products)
ASSUME SourceAssumption == Source \in [Products -> SUBSET Sums]
ASSUME ForceRefreshAssumption == ForceRefresh \in BOOLEAN

VARIABLES
    work,   \* where each run stands in run()
    stored  \* <<product, checksum>> whose three objects are in the bucket

workVars == <<work, stored>>

-----------------------------------------------------------------------------
\* todo: the positions in ProductOrder still to come, in ascending order.
NoWork == [at |-> "load", todo |-> {}, offers |-> {}, sum |-> {}, old |-> {}]

\* A record the pipeline saves: its source_type "official" is none the review
\* knows, so the evaluator always asks for a review of it.
SourcedRow(p, s) ==
    [product |-> p, sum |-> s, metadata |-> "review", rights |-> "approved",
     quality |-> "accepted", review |-> "approved", primary |-> TRUE]

ImagesOf(p, s) == {i \in DOMAIN rows : rows[i].product = p /\ rows[i].sum = s}

\* _existing_image returns any one of them.
AlreadyApproved(p, s) == \E i \in ImagesOf(p, s) : rows[i].review = "approved"
NotYetApproved(p, s) ==
    ImagesOf(p, s) = {} \/ \E i \in ImagesOf(p, s) : rows[i].review # "approved"

UsedElsewhere(p, s) == \E i \in DOMAIN rows : rows[i].product # p /\ rows[i].sum = s

-----------------------------------------------------------------------------
WorkInit ==
    /\ work = [r \in Runs |-> NoWork]
    \* Earlier runs left what they saved; an imported row that calls itself accepted is
    \* taken for one of theirs.
    /\ stored = {<<rows[i].product, rows[i].sum>> : i \in {j \in DOMAIN rows : rows[j].quality = "accepted"}}

At(r, stage) == phase[r] = "working" /\ work[r].at = stage

First(positions) == CHOOSE n \in positions : \A m \in positions : n <= m

Product(r) == ProductOrder[First(work[r].todo)]

\* The product has its result; on to the next one.
NextProduct(r) ==
    work' = [work EXCEPT ![r] = [NoWork EXCEPT !.at = "product",
                                               !.todo = work[r].todo \ {First(work[r].todo)}]]

OfferAgain(r) == work' = [work EXCEPT ![r].at = "offer", ![r].sum = {}]

\* The candidate is rejected; on to the product's next one.
NextOffer(r) ==
    work' = [work EXCEPT ![r].at = "offer", ![r].offers = @ \ work[r].sum, ![r].sum = {}]

LoadProducts(r) ==
    /\ At(r, "load")
    /\ LET wanted(p) == ForceRefresh \/ Published(rows, p) = {}
       IN work' = [work EXCEPT ![r].at = "product",
                               ![r].todo = {n \in DOMAIN ProductOrder : wanted(ProductOrder[n])}]
    /\ UNCHANGED <<stored, rowVars, leaseVars>>

\* What _fetch and extract_images return: an error of any kind is no record, and a
\* picture that is private or has no address is left out.
Fetched(p) == SUBSET Source[p]

\* Icecat by GTIN, then by brand and part number; any failure counts as no match.
FindImages(r) ==
    /\ At(r, "product")
    /\ work[r].todo # {}
    /\ \E offers \in Fetched(Product(r)) :
         work' = [work EXCEPT ![r].at = "offer", ![r].offers = offers]
    /\ UNCHANGED <<stored, rowVars, leaseVars>>

\* No match, or every candidate rejected.
GiveUp(r) ==
    /\ At(r, "offer")
    /\ work[r].offers = {}
    /\ NextProduct(r)
    /\ UNCHANGED <<stored, rowVars, leaseVars>>

\* _download_source or _process_image refuse what the offer links to: its type, size,
\* animation, dimensions.
Refuse(r, s) == work' = [work EXCEPT ![r].offers = @ \ {s}]

\* Download, image processing and the two checksum queries.  A file that breaks off
\* raises something else than a ValueError, which ends the product.
Attempt(r) ==
    /\ At(r, "offer")
    /\ \E s \in work[r].offers :
         \/ Refuse(r, s)
         \/ NextProduct(r)
         \/ AlreadyApproved(Product(r), s) /\ NextProduct(r)
         \/ /\ NotYetApproved(Product(r), s)
            /\ IF UsedElsewhere(Product(r), s)
               THEN Refuse(r, s)
               ELSE work' = [work EXCEPT ![r].at = "upload", ![r].sum = {s}]
    /\ UNCHANGED <<stored, rowVars, leaseVars>>

UploadForgiven(r) ==
    /\ At(r, "upload")
    /\ stored' \in {stored, stored \cup ({Product(r)} \X work[r].sum)}
    /\ work' = [work EXCEPT ![r].at = "demote"]
    /\ UNCHANGED <<rowVars, leaseVars>>

\* Three uploads; a failing one makes the candidate count as rejected.
Upload(r) ==
    /\ At(r, "upload")
    /\ \/ /\ stored' = stored \cup ({Product(r)} \X work[r].sum)
          /\ work' = [work EXCEPT ![r].at = "demote"]
       \/ NextOffer(r) /\ UNCHANGED stored
    /\ UNCHANGED <<rowVars, leaseVars>>

DemoteCommits(r) ==
    /\ At(r, "demote")
    /\ rows' = Demoted(rows, {i \in DOMAIN rows : rows[i].product = Product(r)})
    /\ work' = [work EXCEPT ![r].at = "save"]
    /\ UNCHANGED <<stored, locked, leaseVars>>

\* _demote_existing_primary: its UPDATEs hold the rows until the commit.
Demote(r) ==
    /\ At(r, "demote")
    /\ LET old == {i \in DOMAIN rows : rows[i].product = Product(r) /\ rows[i].primary} IN
         /\ old \cap locked = {}
         /\ work' = [work EXCEPT ![r].at = "save", ![r].old = old]
         /\ locked' = locked \cup old
    /\ UNCHANGED <<stored, rows, leaseVars>>

\* The INSERT and the commit.  A second published image breaks the unique index;
\* the flush that fails undoes the demotion and ends run() (session.rollback()
\* is never called, so the next use of the session raises too).
Save(r) ==
    LET table == [n \in 1..Len(rows) + 1 |->
                    IF n > Len(rows) THEN SourcedRow(Product(r), CHOOSE s \in work[r].sum : TRUE)
                    ELSE Demoted(rows, work[r].old)[n]]
    IN
    /\ At(r, "save")
    /\ locked' = locked \ work[r].old
    /\ IF UniqueIndex(table)
       THEN rows' = table /\ NextProduct(r) /\ UNCHANGED leaseVars
       ELSE /\ Abort(r)
            /\ work' = [work EXCEPT ![r].old = {}]
            /\ UNCHANGED rows
    /\ UNCHANGED stored

\* run() returns; main() releases the lease.
Finish(r) ==
    /\ At(r, "product")
    /\ work[r].todo = {}
    /\ Release(r)
    /\ UNCHANGED <<workVars, rowVars>>

KillKeepsTransaction(r) ==
    /\ Die(r)
    /\ locked' = locked \ work[r].old
    /\ UNCHANGED <<rows, workVars>>

\* A killed run loses its open transaction.
Kill(r) ==
    /\ Die(r)
    /\ locked' = locked \ work[r].old
    /\ work' = [work EXCEPT ![r].old = {}]
    /\ UNCHANGED <<rows, stored>>

Guarded(r) == (ReadLease(r) \/ Acquire(r) \/ Delete(r)) /\ UNCHANGED <<workVars, rowVars>>

PipelineStep(r) ==
    \/ Guarded(r) \/ LoadProducts(r) \/ FindImages(r) \/ GiveUp(r) \/ Attempt(r)
    \/ Upload(r) \/ Demote(r) \/ Save(r) \/ Finish(r)

LeaseTick == Tick /\ UNCHANGED <<workVars, rowVars>>

WorkTypeOK ==
    /\ stored \subseteq Products \X Sums
    /\ \A r \in Runs :
         /\ work[r].at \in {"load", "product", "offer", "upload", "demote", "save"}
         /\ work[r].todo \subseteq DOMAIN ProductOrder
         /\ work[r].offers \subseteq Sums
         /\ work[r].old \subseteq locked
=============================================================================
