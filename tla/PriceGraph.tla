------------------------------ MODULE PriceGraph ------------------------------
(***************************************************************************)
(* What the pricing repository keeps of a product and of its prices: nodes *)
(* with a canonical key and a name, snapshots that are only ever added, and *)
(* the best price, a view of the snapshots of one region that every stored *)
(* offer computes anew.  One operator per query; a query is one step.      *)
(***************************************************************************)
EXTENDS Naturals, FiniteSets, Sequences, Functions, SequencesExt

CONSTANTS
    Ids,        \* product ids, those not yet used included
    NoNode,     \* find_product_id found nothing
    NoKey       \* a Component of the seed data: it has a name and no key

ASSUME IdsAssumption == IsFiniteSet(Ids) /\ NoNode \notin Ids

\* Offers are records [key, name, region, review, rank, stock, price]: review
\* stands for flags, condition and risk that ask for a review, rank for the nine
\* criteria of the ORDER BY, one number for each order that they can produce.
Fresh == [here |-> FALSE, key |-> NoKey, name |-> "", stale |-> FALSE, best |-> 0,
          taken |-> FALSE]    \* history: found by its name, it was given another key

Here(g) == {i \in Ids : g.node[i].here}

HoldersOf(g, key) == {i \in Here(g) : key # NoKey /\ g.node[i].key = key}

\* A node with the key comes before a node with the name, whatever key that has.
FindProduct(g, offer) ==
    LET byName == {i \in Here(g) : g.node[i].name = offer.name}
    IN  IF HoldersOf(g, offer.key) # {} THEN HoldersOf(g, offer.key)
        ELSE IF byName # {} THEN byName
        ELSE {NoNode}

\* SET p += properties gives the node the key of the offer.  The constraint on
\* canonical_key lets no second node have it: the query raises.
Overwrites(g, i, offer) == HoldersOf(g, offer.key) \subseteq {i}

Named(g, i, offer, byName) ==
    [g EXCEPT !.node[i].here = TRUE, !.node[i].key = offer.key, !.node[i].name = offer.name,
              !.node[i].taken = @ \/ (byName /\ g.node[i].key \notin {NoKey, offer.key})]

CreateTargets(g, offer) == IF Ids = Here(g) THEN HoldersOf(g, offer.key) ELSE Ids \ Here(g)

\* MERGE on the key takes the node that has it by now, or one with a new id.
MergeTargets(g, offer) ==
    IF HoldersOf(g, offer.key) # {} THEN HoldersOf(g, offer.key) ELSE Ids \ Here(g)

-----------------------------------------------------------------------------
ActiveStock == {"in_stock", "preorder", "backorder"}

\* reviewRank = 0 and the availability of a price that may be recommended.
Rankable(s) == s.offer.stock \in ActiveStock /\ ~s.offer.review

JustStored(g, i, region) == {n \in {Len(g.snaps)} : Rankable(g.snaps[n])}

OfAnyNode(g, i, region) == {n \in DOMAIN g.snaps : g.snaps[n].offer.region = region /\ Rankable(g.snaps[n])}

Candidates(g, i, region) ==
    {n \in DOMAIN g.snaps : g.snaps[n].node = i /\ g.snaps[n].offer.region = region /\ Rankable(g.snaps[n])}

\* Ties of every criterion are decided by the database.
BestOf(g, candidates) ==
    IF candidates = {} THEN {0}
    ELSE {n \in candidates : \A m \in candidates : g.snaps[n].offer.rank <= g.snaps[m].offer.rank}

\* The query that adds the snapshot, with its vendor and evidence, and resolves
\* the best price in the region of the offer; it always takes the stale mark off.
Stored(g, i, offer, by) ==
    LET added == [g EXCEPT !.snaps = Append(@, [node |-> i, offer |-> offer, by |-> by])]
    IN  {[added EXCEPT !.node[i].best = best, !.node[i].stale = FALSE] :
            best \in BestOf(added, Candidates(added, i, offer.region))}

Staled(g, i) == [g EXCEPT !.node[i].stale = TRUE]

-----------------------------------------------------------------------------
\* products_due_for_refresh, with old the newest snapshot whose timestamp is
\* past the threshold.
Due(g, i, old) == i \in Here(g) /\ (g.node[i].stale \/ g.node[i].best <= old)

\* Those with a best price first, by its age; those without have no timestamp
\* and come by name, which the model leaves open.
Before(g, i, j) ==
    /\ g.node[i].best # 0
    /\ g.node[j].best # 0 => g.node[i].best < g.node[j].best

Window(g, old, limit) ==
    {w \in SetToAllKPermutations({i \in Here(g) : Due(g, i, old)}) :
        /\ Len(w) = IF Cardinality({i \in Here(g) : Due(g, i, old)}) < limit
                    THEN Cardinality({i \in Here(g) : Due(g, i, old)}) ELSE limit
        /\ \A m, n \in DOMAIN w : Before(g, w[m], w[n]) => m < n
        /\ \A i \in Here(g) \ Range(w) : Due(g, i, old) => \A n \in DOMAIN w : ~Before(g, i, w[n])}
===============================================================================
