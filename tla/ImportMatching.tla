---------------------------- MODULE ImportMatching ----------------------------
(***************************************************************************)
(* What import_pipeline.py makes of one record of a file: how it is        *)
(* matched against the catalog when the file is staged, and what its       *)
(* staged row does to the catalog when the batch is committed.  Ids are    *)
(* positions.  Slugs follow brand and part number, a store is its name.    *)
(***************************************************************************)
EXTENDS Integers, FiniteSets, Sequences, SequencesExt

CONSTANTS
    NoGtin,   \* the record (or product) has no GTIN
    NoPart    \* the record names its product by GTIN only

NoId == 0

\* EntityType.
Entities == {"PRODUCT", "STORE", "PRODUCT_SPECIFICATION", "PRODUCT_IMAGE_METADATA",
             "STORE_OFFER", "PRICE_OBSERVATION"}

\* The tables of the catalog that imports write.
Tables == {"products", "stores", "specs", "images", "offers", "history"}
OfferColumns == {"product", "store", "sku", "price", "at"}
IsCatalog(cat) ==
    /\ DOMAIN cat = Tables
    /\ \A t \in Tables : cat[t] \in Seq(Range(cat[t]))
    /\ \A o \in DOMAIN cat.offers : DOMAIN cat.offers[o] = OfferColumns

\* A StagedRow: validation and review status, proposed action, matched ids.
Outcome(validation, review, action) ==
    [validation |-> validation, review |-> review, action |-> action,
     product |-> NoId, offer |-> NoId]

Create    == Outcome("VALID", "NOT_REQUIRED", "CREATE")
Invalid   == Outcome("INVALID", "PENDING", "REJECT")
Blocked   == Outcome("BLOCKED", "PENDING", "REVIEW")
Ambiguous == Outcome("AMBIGUOUS", "PENDING", "REVIEW")
Duplicate == Outcome("DUPLICATE", "NOT_REQUIRED", "SKIP")

\* The _mark functions keep the ids that were matched before.
Mark(staged, mark) ==
    [staged EXCEPT !.validation = mark.validation, !.review = mark.review,
                   !.action = mark.action]

-----------------------------------------------------------------------------
\* _product_matches: by GTIN and by brand and part number; a part number under
\* another brand is a conflict, and so are two products.
SamePart(cat, r) ==
    {i \in DOMAIN cat.products : r.part # NoPart /\ cat.products[i].part.mpn = r.part.mpn}
Products(cat, r) ==
    {i \in DOMAIN cat.products :
        \/ r.gtin # NoGtin /\ cat.products[i].gtin = r.gtin
        \/ i \in SamePart(cat, r)}
ProductConflict(cat, r) ==
    \/ \E i \in SamePart(cat, r) : cat.products[i].part # r.part
    \/ Cardinality(Products(cat, r)) > 1

StoreIds(cat, r) == {i \in DOMAIN cat.stores : cat.stores[i] = r.store}
OfferIds(cat, r) ==
    {o \in DOMAIN cat.offers : cat.offers[o].store \in StoreIds(cat, r) /\ cat.offers[o].sku = r.sku}

\* The one element of a set, NoId of an empty one.
TheId(ids) == IF ids = {} THEN NoId ELSE CHOOSE i \in ids : TRUE

Resolved(cat, r) == ~ProductConflict(cat, r) /\ Products(cat, r) # {}
Unresolved(cat, r) == IF ProductConflict(cat, r) THEN Ambiguous ELSE Blocked
For(cat, r, staged) == [staged EXCEPT !.product = TheId(Products(cat, r))]

MatchProduct(cat, r) ==
    CASE ProductConflict(cat, r) -> Ambiguous
      [] Resolved(cat, r) -> For(cat, r, Outcome("VALID", "PENDING", "UPDATE"))
      [] OTHER -> Outcome("VALID", "PENDING", "CREATE")

MatchStore(cat, r) ==
    IF StoreIds(cat, r) # {} THEN Outcome("VALID", "NOT_REQUIRED", "UPDATE")
                             ELSE Outcome("VALID", "PENDING", "CREATE")

MatchSpecification(cat, r) ==
    LET known == {s \in Range(cat.specs) : s.product = TheId(Products(cat, r)) /\ s.key = r.key}
    IN  IF ~Resolved(cat, r) THEN Unresolved(cat, r)
        ELSE For(cat, r, IF known = {} THEN Create
                         ELSE IF \E s \in known : s.value = r.value THEN Duplicate ELSE Ambiguous)

\* r.verdict: what evaluate_metadata_payload says of the metadata.
MatchImage(cat, r) ==
    LET p == TheId(Products(cat, r))
        images == Range(cat.images)
        taken == r.primary /\ \E i \in images : i.product = p /\ i.primary /\ i.approved
    IN  IF ~Resolved(cat, r) THEN Unresolved(cat, r)
        ELSE For(cat, r,
                 IF r.verdict = "REJECTED" THEN Invalid
                 ELSE IF \E i \in images : i.sum = r.sum THEN Duplicate
                 ELSE IF taken THEN Ambiguous
                 ELSE IF r.verdict = "REVIEW_REQUIRED" \/ ~r.rights
                      THEN Outcome("VALID", "PENDING", "REVIEW")
                      ELSE Create)

MatchOffer(cat, r) ==
    LET o == TheId(OfferIds(cat, r))
        unchanged == cat.offers[o].price = r.price /\ cat.offers[o].at = r.at
    IN  IF StoreIds(cat, r) = {} THEN Blocked
        ELSE IF ~Resolved(cat, r) THEN Unresolved(cat, r)
        ELSE IF o = NoId THEN For(cat, r, Create)
        ELSE IF cat.offers[o].product # TheId(Products(cat, r)) THEN For(cat, r, Ambiguous)
        ELSE [For(cat, r, IF unchanged THEN Duplicate ELSE Outcome("VALID", "NOT_REQUIRED", "UPDATE"))
                EXCEPT !.offer = o]

TrustedId(cat, r) == [Create EXCEPT !.offer = r.offer]

AgainstCurrentPrice(cat, r) ==
    IF r.offer \notin DOMAIN cat.offers THEN Blocked
    ELSE [(IF cat.offers[r.offer].price = r.price /\ cat.offers[r.offer].at = r.at
           THEN Duplicate ELSE Create) EXCEPT !.offer = r.offer]

\* An observation names its offer by id.
MatchObservation(cat, r) ==
    IF r.offer \notin DOMAIN cat.offers THEN Blocked
    ELSE [(IF \E h \in Range(cat.history) : h.offer = r.offer /\ h.price = r.price /\ h.at = r.at
           THEN Duplicate ELSE Create) EXCEPT !.offer = r.offer]

\* _validate_and_match.
Match(cat, entity, r) ==
    IF ~r.wellFormed THEN Invalid
    ELSE CASE entity = "PRODUCT" -> MatchProduct(cat, r)
           [] entity = "STORE" -> MatchStore(cat, r)
           [] entity = "PRODUCT_SPECIFICATION" -> MatchSpecification(cat, r)
           [] entity = "PRODUCT_IMAGE_METADATA" -> MatchImage(cat, r)
           [] entity = "STORE_OFFER" -> MatchOffer(cat, r)
           [] entity = "PRICE_OBSERVATION" -> MatchObservation(cat, r)

-----------------------------------------------------------------------------
\* _batch_identities: what two rows of a file must not share.
Identities(entity, r) ==
    CASE entity = "PRODUCT" -> {<<"part", r.part>>, <<"gtin", r.gtin>>} \ {<<"gtin", NoGtin>>}
      [] entity = "STORE" -> {r.store}
      [] entity = "PRODUCT_SPECIFICATION" -> {<<r.gtin, r.key>>}
      [] entity = "PRODUCT_IMAGE_METADATA" -> {r.sum}
      [] entity = "STORE_OFFER" -> {<<r.store, r.sku>>}
      [] entity = "PRICE_OBSERVATION" -> {<<r.offer, r.at>>}

NoPriors(entity, records, n) == {}

\* The first row of the file before row n that shares an identity with it.
Priors(entity, records, n) ==
    LET holders(k) == {m \in 1..(n - 1) : k \in Identities(entity, records[m])}
    IN  {m \in 1..(n - 1) :
            \E k \in Identities(entity, records[n]) :
                m \in holders(k) /\ \A l \in holders(k) : m <= l}

\* One turn of dry_run's loop: the rows staged so far and the next one.
StageNext(cat, entity, records, rows) ==
    LET n == Len(rows) + 1
        staged == Match(cat, entity, records[n])
        priors == Priors(entity, records, n)
    IN  IF \E m \in 1..(n - 1) : records[m] = records[n]
        THEN Append(rows, Mark(staged, Duplicate))
        ELSE [m \in 1..n |->
                 IF m = n THEN (IF priors = {} THEN staged ELSE Mark(staged, Ambiguous))
                 ELSE IF m \in priors THEN Mark(rows[m], Ambiguous) ELSE rows[m]]

-----------------------------------------------------------------------------
\* _commit_row.  A row whose ids are missing creates.
CommitProduct(cat, r, row) ==
    IF row.product = NoId
    THEN [cat EXCEPT !.products = Append(@, [part |-> r.part, gtin |-> r.gtin])]
    ELSE [cat EXCEPT !.products[row.product] =
             [part |-> r.part, gtin |-> IF r.gtin = NoGtin THEN @.gtin ELSE r.gtin]]

CommitStore(cat, r, row) ==
    IF row.action = "UPDATE" THEN cat ELSE [cat EXCEPT !.stores = Append(@, r.store)]

LastWins(r, offer) == TRUE

\* An older observation is recorded but leaves the offer as it is.
Supersedes(r, offer) == r.at >= offer.at

CommitOffer(cat, r, row, by) ==
    IF row.offer = NoId
    THEN [cat EXCEPT !.offers = Append(@, [product |-> row.product, store |-> TheId(StoreIds(cat, r)),
                                           sku |-> r.sku, price |-> r.price, at |-> r.at])]
    ELSE [cat EXCEPT
            !.history = Append(@, [offer |-> row.offer, price |-> r.price, at |-> r.at, by |-> by]),
            !.offers[row.offer] = IF Supersedes(r, @) THEN [@ EXCEPT !.price = r.price, !.at = r.at] ELSE @]

CommitRow(cat, entity, r, row, by) ==
    CASE entity = "PRODUCT" -> CommitProduct(cat, r, row)
      [] entity = "STORE" -> CommitStore(cat, r, row)
      [] entity = "PRODUCT_SPECIFICATION" ->
             [cat EXCEPT !.specs = Append(@, [product |-> row.product, key |-> r.key, value |-> r.value])]
      [] entity = "PRODUCT_IMAGE_METADATA" ->
             [cat EXCEPT !.images = Append(@, [product |-> row.product, sum |-> r.sum,
                                               primary |-> r.primary, approved |-> r.approved])]
      [] entity = "STORE_OFFER" -> CommitOffer(cat, r, row, by)
      [] entity = "PRICE_OBSERVATION" ->
             [cat EXCEPT !.history = Append(@, [offer |-> row.offer, price |-> r.price,
                                                at |-> r.at, by |-> by])]
=============================================================================
