---------------------------- MODULE MCPriceRefresh ----------------------------
(* Instances of the price refresh for TLC. *)
EXTENDS PriceRefresh

CONSTANTS p1, p2, r1, r2, kA, kB

TwoIds == {p1, p2}
TwoRuns == {r1, r2}
OneSeed == {p1}

Listing(key, name, rank, review, stock, price) ==
    [key |-> key, name |-> name, rank |-> rank, review |-> review, stock |-> stock, price |-> price]

\* The seed's name under two keys, and one key under two names.
Cheap == Listing(kA, "seed", 1, FALSE, "in_stock", 1)
Other == Listing(kA, "other", 2, TRUE, "in_stock", 2)
Twin == Listing(kB, "seed", 2, TRUE, "in_stock", 2)

SourceListings == {Cheap, Twin}
PageListings == {Cheap, Other}
TwoRegions == {"US", "SA"}
Interchangeable == Permutations(TwoRuns)
==============================================================================
