--------------------------- MODULE MCCatalogWriters ---------------------------
(***************************************************************************)
(* The two writers of the catalog's database that may meet themselves:      *)
(* batches that are committed by several requests, and runs of the image    *)
(* pipeline that exclude each other by a lease.  They share no row: one of  *)
(* them runs.                                                               *)
(***************************************************************************)
EXTENDS CatalogImport, PipelineLease, TLC

CONSTANTS b1, b2, q1, q2, gX, gY, noPart, noGtin, r1, r2, r3, r4

TwoBatches == {b1, b2}
TwoRequests == {q1, q2}

Part(brand, mpn) == [brand |-> brand, mpn |-> mpn]

\* One product, one store, one specification, one offer with one price behind it.
OneOffer ==
    [products |-> <<[part |-> Part("x", 1), gtin |-> gX]>>,
     stores |-> <<"s">>,
     specs |-> <<[product |-> 1, key |-> "socket", value |-> 1]>>,
     images |-> <<>>,
     offers |-> <<[product |-> 1, store |-> 1, sku |-> 1, price |-> 1, at |-> 1]>>,
     history |-> <<>>]

File(entity, records) == [entity |-> entity, records |-> records]
Product(part, gtin) == [wellFormed |-> TRUE, part |-> part, gtin |-> gtin]
ShopRow(name) == [wellFormed |-> TRUE, store |-> name]
Spec1(part, gtin, key, value) ==
    [wellFormed |-> TRUE, part |-> part, gtin |-> gtin, key |-> key, value |-> value]
Image(gtin, sum, primary) ==
    [wellFormed |-> TRUE, part |-> noPart, gtin |-> gtin, sum |-> sum, verdict |-> "PASS",
     rights |-> TRUE, primary |-> primary, approved |-> TRUE]
Offer(gtin, sku, price, at) ==
    [wellFormed |-> TRUE, part |-> noPart, gtin |-> gtin, store |-> "s", sku |-> sku,
     price |-> price, at |-> at]
Observation(offer, price, at) == [wellFormed |-> TRUE, offer |-> offer, price |-> price, at |-> at]

ProductFiles ==
    {File("PRODUCT", <<Product(Part("x", 2), noGtin), Product(Part("x", 3), gY)>>),
     File("PRODUCT", <<Product(Part("x", 2), gX)>>),
     File("PRODUCT", <<Product(Part("x", 2), gX), Product(Part("x", 1), gY)>>),
     File("PRODUCT", <<Product(Part("y", 1), noGtin)>>)}
OfferFiles ==
    {File("STORE_OFFER", <<Offer(gX, 1, 2, 2), Offer(gX, 2, 1, 1)>>),
     File("STORE_OFFER", <<Offer(gX, 1, 1, 0)>>),
     File("STORE_OFFER", <<Offer(gX, 2, 2, 2)>>),
     File("STORE_OFFER", <<Offer(gX, 3, 1, 1), Offer(gX, 3, 2, 2)>>),
     File("STORE_OFFER", <<Offer(gY, 1, 2, 2)>>)}
ObservationFiles ==
    {File("PRICE_OBSERVATION", <<Observation(1, 2, 2), Observation(1, 2, 2)>>),
     File("PRICE_OBSERVATION", <<Observation(2, 2, 2), Observation(1, 1, 2)>>)}
OtherFiles ==
    {File("STORE", <<ShopRow("t"), ShopRow("s")>>),
     File("STORE", <<[ShopRow("t") EXCEPT !.wellFormed = FALSE]>>),
     File("PRODUCT_SPECIFICATION", <<Spec1(Part("x", 1), noGtin, "tdp", 1), Spec1(Part("x", 1), gX, "tdp", 2)>>),
     File("PRODUCT_SPECIFICATION", <<Spec1(Part("x", 2), noGtin, "tdp", 1), Spec1(Part("x", 1), gX, "socket", 1)>>),
     File("PRODUCT_IMAGE_METADATA", <<Image(gX, 1, TRUE), Image(gX, 2, TRUE)>>),
     File("PRODUCT_IMAGE_METADATA", <<Image(gX, 1, TRUE), [Image(gX, 2, FALSE) EXCEPT !.rights = FALSE]>>),
     File("PRODUCT_IMAGE_METADATA", <<[Image(gX, 1, FALSE) EXCEPT !.verdict = "REVIEW_REQUIRED"]>>)}

AllFiles == ProductFiles \cup OfferFiles \cup ObservationFiles \cup OtherFiles

Interchangeable == Permutations(TwoRequests) \cup Permutations(TwoBatches)

-----------------------------------------------------------------------------
VARIABLE part

FourRuns == {r1, r2, r3, r4}

AnyFile == CHOOSE f \in AllFiles : TRUE
WritersInit ==
    /\ Init /\ LeaseInit
    /\ part \in {"batches", "lease"}
    /\ part = "lease" => \A b \in Batches : batch[b].file = AnyFile
WritersNext ==
    /\ UNCHANGED part
    /\ \/ part = "batches" /\ Next /\ UNCHANGED leaseVars
       \/ part = "lease" /\ LeaseNext /\ UNCHANGED vars
WritersSpec == WritersInit /\ [][WritersNext]_<<part, vars, leaseVars>>
=============================================================================
