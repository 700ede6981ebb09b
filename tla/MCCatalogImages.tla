--------------------------- MODULE MCCatalogImages ---------------------------
(* Instances of the catalog's images for TLC: two products, an image the    *)
(* external source offers for both, and tables an import may have left.     *)
EXTENDS CatalogImages, TLC

CONSTANTS pA, pB, s1, s2, s3, v1, v2, r1

Imported(product, sum, rights, quality, review, primary) ==
    [product |-> product, sum |-> sum, metadata |-> "fine", rights |-> rights,
     quality |-> quality, review |-> review, primary |-> primary]

\* A published image with an approved alternative ...
WithPrimary == <<Imported(pA, s1, "approved", "acceptable", "approved", TRUE),
                 Imported(pA, s2, "approved", "pending", "pending", FALSE)>>
\* ... or two images waiting for review, one of which the source offers too.
WithoutPrimary == <<Imported(pA, s3, "pending", "pending", "pending", FALSE),
                    Imported(pA, s2, "approved", "pending", "pending", FALSE)>>

BothTables == {WithPrimary, WithoutPrimary}

TwoProducts == {pA, pB}
Checksums == {s1, s2, s3}
InOrder == <<pA, pB>>
SourceOffers == [x \in TwoProducts |-> {s3}]

OneRequest == {v1}
OneRun == {r1}
=============================================================================
