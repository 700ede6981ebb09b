--------------------------- MODULE PriceRefreshProofs ---------------------------
(***************************************************************************)
(* For any products, listings, pages and number of runs that overlap: what  *)
(* the graph holds of identities, of best prices and of a product page, and *)
(* when a refreshed product is marked stale.                                *)
(***************************************************************************)
EXTENDS PriceRefresh, FiniteSetTheorems, TLAPS

-----------------------------------------------------------------------------
Storing == {"link", "entry"}

(* What a run has in hand at each phase, and that a refresh which stored a  *)
(* snapshot has counted it, is about to, or lost it to a query that raised. *)
Sound(s) ==
    /\ s.at = "idle" => s = Idle
    /\ s.at = "next" => s.about = NoNode /\ ~s.broke
    /\ s.at \in {"records", "next"} => s.kind \notin {"ingest", "recheck"}
    /\ s.at \in {"page", "entry"} => s.kind \in {"ingest", "recheck"}
    /\ s.at = "page" => s.kind = "recheck"
    /\ s.at \in {"store", "link", "entry"} => s.target # NoNode
    /\ s.about = NoNode => ~s.accepted /\ ~s.stored
    /\ s.about # NoNode => s.kind \notin {"ingest", "recheck"}
    /\ s.accepted \/ (s.at = "link" /\ s.about # NoNode) => s.stored
    /\ s.stored /\ ~s.broke => s.accepted \/ s.at = "link"

RunInv == \A r \in Runs : Sound(run[r])

Untaken(i, key) == graph.node[i].taken \/ graph.node[i].key = key

(* A node that no run took by its name has the key of all that is, or is     *)
(* about to be, stored for it.                                               *)
KeyInv ==
    /\ \A i, j \in Here(graph) : graph.node[i].key = graph.node[j].key /\ graph.node[i].key # NoKey => i = j
    /\ \A n \in DOMAIN graph.snaps : Untaken(graph.snaps[n].node, graph.snaps[n].offer.key)
    /\ \A r \in Runs :
         /\ run[r].at = "write" /\ run[r].target # NoNode /\ ~run[r].byName => Untaken(run[r].target, run[r].offer.key)
         /\ run[r].at = "store" => Untaken(run[r].target, run[r].offer.key)

(* The best price of a node is a snapshot of its own that may be recommended. *)
BestInv ==
    \A i \in Ids : graph.node[i].best # 0 =>
        /\ graph.node[i].best \in DOMAIN graph.snaps
        /\ graph.snaps[graph.node[i].best].node = i
        /\ Rankable(graph.snaps[graph.node[i].best])

Newest(n) == \A m \in PageSnaps : m <= n
Changes == \A m, n \in PageSnaps :
    graph.snaps[n].by = "recheck" /\ m < n /\ (\A k \in PageSnaps : k <= m \/ n <= k) => PriceOf(m) # PriceOf(n)

Fetched == {"find", "write", "store"}

(* Two runs that have the page at once are neither alone.  A run that is      *)
(* alone on the page knows its price as it is; one that is not leaves the    *)
(* page torn when it has stored.                                             *)
Meets == \A r, q \in Runs : OnPage(r) /\ run[r].alone /\ OnPage(q) => q = r
Knows(r) ==
    /\ run[r].at \in Storing => \A n \in PageSnaps : Newest(n) => PriceOf(n) = run[r].offer.price
    /\ run[r].at = "page" => run[r].seen = url.price
    /\ run[r].kind = "recheck" /\ run[r].at \in Fetched => run[r].offer.price # url.price
Hashed == ~url.torn /\ (\A r \in Runs : OnPage(r) => run[r].at \notin Storing) =>
              \A n \in PageSnaps : Newest(n) => PriceOf(n) = url.price
Changed == ~url.torn /\ (\A r \in Runs : OnPage(r) /\ ~run[r].alone => run[r].at \notin Storing) => Changes

PageInv == Meets /\ (\A r \in Runs : OnPage(r) /\ run[r].alone => Knows(r)) /\ Hashed /\ Changed

PricesInv == TypeOK /\ RunInv /\ KeyInv /\ BestInv /\ PageInv
-----------------------------------------------------------------------------
USE SeedsAssumption, BoundsAssumption, ListingsAssumption, IdsAssumption

LEMMA OffersAreTyped ==
    \A o \in Offers : o.key \in Keys /\ o.key # NoKey /\ o.name \in Names /\ o.price \in Prices
<1> SUFFICES ASSUME NEW o \in Offers
             PROVE  o.key \in Keys /\ o.key # NoKey /\ o.name \in Names /\ o.price \in Prices
  OBVIOUS
<1>1. PICK region \in Regions, listing \in Listings \cup Pages : o = Offer(region, listing)
  BY DEF Offers
<1>2. o.key = listing.key /\ o.name = listing.name /\ o.price = listing.price
  BY <1>1 DEF Offer
<1>3. o.key # NoKey
  BY <1>2
<1> QED
  BY <1>2, <1>3 DEF Keys, Names, Prices

LEMMA OfferIsOffered ==
    ASSUME NEW region \in Regions, NEW listing \in Listings \cup Pages
    PROVE  Offer(region, listing) \in Offers
BY DEF Offers

(* A window lists nodes of the graph, at most as many as its limit.          *)
LEMMA WindowLists ==
    ASSUME NEW g, NEW old, NEW w \in Window(g, old, WindowLimit)
    PROVE  w \in Seq(Ids) /\ Range(w) \subseteq Here(g) /\ Len(w) <= WindowLimit
<1> DEFINE due == {i \in Here(g) : Due(g, i, old)}
<1>1. PICK s \in SUBSET due : w \in SetToSeqs(s)
  BY DEF Window, SetToAllKPermutations
<1>2. IsFiniteSet(s)
  BY <1>1, FS_Subset DEF Here
<1>3. Cardinality(s) \in Nat
  BY <1>2, FS_CardinalityType
<1>4. w \in [1..Cardinality(s) -> s]
  BY <1>1 DEF SetToSeqs
<1>5. w \in Seq(Ids)
  BY <1>3, <1>4 DEF Here
<1>6. Range(w) \subseteq Here(g)
  BY <1>4 DEF Range
<1>7. Len(w) = IF Cardinality(due) < WindowLimit THEN Cardinality(due) ELSE WindowLimit
  BY DEF Window
<1>8. Len(w) \in Nat
  BY <1>5
<1> HIDE DEF due
<1> QED
  BY <1>5, <1>6, <1>7, <1>8

LEMMA RestOfTodo ==
    ASSUME NEW todo \in Seq(Ids), todo # <<>>
    PROVE  /\ Tail(todo) \in Seq(Ids) /\ Len(Tail(todo)) <= Len(todo)
           /\ Head(todo) \in Ids /\ Head(todo) \in Range(todo) /\ Range(Tail(todo)) \subseteq Range(todo)
BY DEF Range

(* What a write does to a node: the others and the snapshots stay.           *)
LEMMA NamedKeeps ==
    ASSUME TypeOK, NEW i \in Ids, NEW o \in Offers, NEW byName \in BOOLEAN, graph' = Named(graph, i, o, byName)
    PROVE  /\ graph' \in [node : [Ids -> ProductNode], snaps : Seq(Snapshot)]
           /\ graph'.snaps = graph.snaps
           /\ \A j \in Ids : j # i => graph'.node[j] = graph.node[j]
           /\ graph'.node[i].here /\ graph'.node[i].key = o.key
           /\ graph'.node[i].best = graph.node[i].best /\ graph'.node[i].stale = graph.node[i].stale
           /\ graph'.node[i].taken <=> graph.node[i].taken \/ (byName /\ graph.node[i].key \notin {NoKey, o.key})
           /\ Here(graph') = Here(graph) \cup {i}
<1>1. o.key \in Keys /\ o.name \in Names
  BY OffersAreTyped
<1>2. graph.node \in [Ids -> ProductNode] /\ graph.snaps \in Seq(Snapshot) /\ graph = [node |-> graph.node, snaps |-> graph.snaps]
  BY DEF TypeOK
<1>3. graph'.snaps = graph.snaps /\ graph' = [node |-> graph'.node, snaps |-> graph.snaps]
  BY <1>2 DEF Named
<1>4. graph'.node = [graph.node EXCEPT ![i].here = TRUE, ![i].key = o.key, ![i].name = o.name,
                         ![i].taken = @ \/ (byName /\ graph.node[i].key \notin {NoKey, o.key})]
  BY <1>2 DEF Named
<1>5. graph'.node \in [Ids -> ProductNode]
  <2>1. PICK taken \in BOOLEAN : taken <=> graph.node[i].taken \/ (byName /\ graph.node[i].key \notin {NoKey, o.key})
    OBVIOUS
  <2>2. (graph.node[i].taken \/ (byName /\ graph.node[i].key \notin {NoKey, o.key})) = taken
    BY <1>2, <2>1 DEF ProductNode
  <2>3. graph'.node = [graph.node EXCEPT ![i].here = TRUE, ![i].key = o.key, ![i].name = o.name, ![i].taken = taken]
    BY <1>2, <1>4, <2>2 DEF ProductNode
  <2>4. [graph.node[i] EXCEPT !.here = TRUE, !.key = o.key, !.name = o.name, !.taken = taken] \in ProductNode
    BY <1>1, <1>2 DEF ProductNode
  <2>5. graph'.node = [graph.node EXCEPT ![i] = [@ EXCEPT !.here = TRUE, !.key = o.key, !.name = o.name, !.taken = taken]]
    BY <1>2, <2>3
  <2> QED
    BY <1>2, <2>4, <2>5
<1>6. \A j \in Ids : j # i => graph'.node[j] = graph.node[j]
  BY <1>2, <1>4
<1>7. /\ graph'.node[i].here /\ graph'.node[i].key = o.key
      /\ graph'.node[i].best = graph.node[i].best /\ graph'.node[i].stale = graph.node[i].stale
      /\ graph'.node[i].taken <=> graph.node[i].taken \/ (byName /\ graph.node[i].key \notin {NoKey, o.key})
  BY <1>2, <1>4 DEF ProductNode
<1>8. Here(graph') = Here(graph) \cup {i}
  BY <1>6, <1>7 DEF Here
<1> QED
  BY <1>2, <1>3, <1>5, <1>6, <1>7, <1>8

(* What a stored snapshot does: it comes last, and its node's view of the    *)
(* best price is computed anew.                                              *)
LEMMA StoredKeeps ==
    ASSUME TypeOK, NEW i \in Ids, NEW o \in Offers, NEW by \in RunKinds, graph' \in Stored(graph, i, o, by)
    PROVE  /\ graph' \in [node : [Ids -> ProductNode], snaps : Seq(Snapshot)]
           /\ graph'.snaps = Append(graph.snaps, [node |-> i, offer |-> o, by |-> by])
           /\ \A j \in Ids : j # i => graph'.node[j] = graph.node[j]
           /\ graph'.node[i].here = graph.node[i].here /\ graph'.node[i].key = graph.node[i].key
           /\ graph'.node[i].taken = graph.node[i].taken
           /\ graph'.node[i].best \in BestOf(graph', Candidates(graph', i, o.region))
           /\ Here(graph') = Here(graph)
<1> DEFINE added == [graph EXCEPT !.snaps = Append(@, [node |-> i, offer |-> o, by |-> by])]
<1>0. graph.snaps \in Seq(Snapshot) /\ graph = [node |-> graph.node, snaps |-> graph.snaps]
  BY DEF TypeOK
<1>1. /\ added.snaps = Append(graph.snaps, [node |-> i, offer |-> o, by |-> by]) /\ added.node = graph.node
      /\ added = [node |-> added.node, snaps |-> added.snaps]
      /\ added.snaps \in Seq(Snapshot)
  <2>1. [node |-> i, offer |-> o, by |-> by] \in Snapshot
    BY DEF Snapshot
  <2>2. added.snaps = Append(graph.snaps, [node |-> i, offer |-> o, by |-> by])
    BY <1>0
  <2>3. added.snaps \in Seq(Snapshot)
    BY <1>0, <2>1, <2>2
  <2>4. added.node = graph.node
    BY <1>0
  <2>5. added = [node |-> added.node, snaps |-> added.snaps]
    BY <1>0
  <2> QED
    BY <2>2, <2>3, <2>4, <2>5
<1>2. PICK best \in BestOf(added, Candidates(added, i, o.region)) :
        graph' = [added EXCEPT !.node[i].best = best, !.node[i].stale = FALSE]
  BY DEF Stored
<1>3. best \in Nat
  BY <1>1, <1>2 DEF BestOf, Candidates
<1>4. graph'.snaps = added.snaps
  BY <1>1, <1>2
<1>5. graph'.node = [graph.node EXCEPT ![i].best = best, ![i].stale = FALSE] /\ graph' = [node |-> graph'.node, snaps |-> graph'.snaps]
  BY <1>1, <1>2
<1>6. Candidates(graph', i, o.region) = Candidates(added, i, o.region)
  BY <1>4 DEF Candidates
<1>7. BestOf(graph', Candidates(graph', i, o.region)) = BestOf(added, Candidates(added, i, o.region))
  BY <1>4, <1>6 DEF BestOf
<1>8. graph.node \in [Ids -> ProductNode]
  BY DEF TypeOK
<1>9. graph'.node \in [Ids -> ProductNode]
  <2> DEFINE r == [graph.node[i] EXCEPT !.best = best, !.stale = FALSE]
  <2>1. graph.node[i] \in ProductNode
    BY <1>8
  <2>2. r \in ProductNode
    BY <1>3, <2>1 DEF ProductNode
  <2>3. graph'.node = [graph.node EXCEPT ![i] = r]
    BY <1>5, <1>8
  <2> HIDE DEF r
  <2> QED
    BY <1>8, <2>2, <2>3
<1>10. graph'.node[i].best = best
  BY <1>5, <1>8 DEF ProductNode
<1>11. \A j \in Ids : j # i => graph'.node[j] = graph.node[j]
  BY <1>5, <1>8
<1>12. /\ graph'.node[i].here = graph.node[i].here /\ graph'.node[i].key = graph.node[i].key
       /\ graph'.node[i].taken = graph.node[i].taken
  BY <1>5, <1>8 DEF ProductNode
<1>13. Here(graph') = Here(graph)
  BY <1>11, <1>12 DEF Here
<1>14. graph'.node[i].best \in BestOf(graph', Candidates(graph', i, o.region))
  BY <1>2, <1>7, <1>10
<1> HIDE DEF added
<1> QED
  BY <1>1, <1>4, <1>5, <1>9, <1>11, <1>12, <1>13, <1>14

-----------------------------------------------------------------------------
(* Only three steps touch the graph.                                         *)
LEMMA GraphSteps ==
    ASSUME [Next]_vars
    PROVE  graph' = graph \/ \E r \in Runs : Finish(r) \/ Write(r) \/ Store(r)
BY DEF Next, vars, Schedule, Request, NextProduct, Recheck, Find, Link, Entry, Raise, KeyTaken, Take, Ingest,
       PageRefused, PageUnchanged, PageChanged

(* A node to write to is one that was found, or the one that the merge takes. *)
LEMMA WriteTargets ==
    ASSUME TypeOK, NEW r \in Runs, Write(r)
    PROVE  \E i \in Ids, byName \in BOOLEAN :
             /\ graph' = Named(graph, i, run[r].offer, byName)
             /\ run' = [run EXCEPT ![r].at = "store", ![r].target = i]
             /\ run[r].target # NoNode =>
                  i = run[r].target /\ byName = run[r].byName /\ Overwrites(graph, i, run[r].offer)
             /\ run[r].target = NoNode => i \in MergeTargets(graph, run[r].offer) /\ byName = FALSE
<1>1. run[r] \in RunState
  BY DEF TypeOK
<1>2. CASE run[r].target # NoNode
  <2>1. /\ Overwrites(graph, run[r].target, run[r].offer)
        /\ graph' = Named(graph, run[r].target, run[r].offer, run[r].byName)
        /\ run' = [run EXCEPT ![r].at = "store"]
    BY <1>2 DEF Write
  <2>2. run' = [run EXCEPT ![r].at = "store", ![r].target = run[r].target]
    BY <1>1, <2>1 DEF TypeOK, RunState
  <2>3. run[r].target \in Ids /\ run[r].byName \in BOOLEAN
    BY <1>1, <1>2 DEF RunState
  <2> QED
    BY <1>2, <2>1, <2>2, <2>3
<1>3. CASE run[r].target = NoNode
  <2>1. PICK i \in MergeTargets(graph, run[r].offer) :
          graph' = Named(graph, i, run[r].offer, FALSE) /\ run' = [run EXCEPT ![r].at = "store", ![r].target = i]
    BY <1>3 DEF Write
  <2>2. i \in Ids
    BY DEF MergeTargets, HoldersOf, Here
  <2> QED
    BY <1>3, <2>1, <2>2
<1> QED
  BY <1>2, <1>3

LEMMA GraphKeeps ==
    ASSUME TypeOK, RunInv, [Next]_vars
    PROVE  /\ graph' \in [node : [Ids -> ProductNode], snaps : Seq(Snapshot)]
           /\ Here(graph) \subseteq Here(graph')
           /\ \A n \in DOMAIN graph'.snaps : graph'.node[graph'.snaps[n].node].here
<1>0. /\ graph \in [node : [Ids -> ProductNode], snaps : Seq(Snapshot)]
      /\ \A n \in DOMAIN graph.snaps : graph.snaps[n].node \in Here(graph)
  <2>1. graph \in [node : [Ids -> ProductNode], snaps : Seq(Snapshot)]
    BY DEF TypeOK
  <2>2. ASSUME NEW n \in DOMAIN graph.snaps PROVE graph.snaps[n].node \in Here(graph)
    <3>1. graph.snaps[n] \in Snapshot
      BY <2>1
    <3> QED
      BY <3>1 DEF TypeOK, Here, Snapshot
  <2> QED
    BY <2>1, <2>2
<1> SUFFICES /\ graph' \in [node : [Ids -> ProductNode], snaps : Seq(Snapshot)]
             /\ Here(graph) \subseteq Here(graph')
             /\ \A n \in DOMAIN graph'.snaps : graph'.snaps[n].node \in Here(graph')
  BY DEF Here
<1>1. CASE graph' = graph
  BY <1>0, <1>1
<1>2. CASE \E r \in Runs : Finish(r)
  <2>0. PICK r \in Runs : Finish(r)
    BY <1>2
  <2>1. CASE GivesUp(r)
    <3>1. run[r].about \in Ids
      BY <2>1 DEF TypeOK, RunState, GivesUp
    <3>2. graph' = [graph EXCEPT !.node[run[r].about].stale = TRUE]
      BY <2>0, <2>1 DEF Finish, Staled
    <3>3. graph'.snaps = graph.snaps /\ graph'.node = [graph.node EXCEPT ![run[r].about].stale = TRUE]
          /\ graph' = [node |-> graph'.node, snaps |-> graph'.snaps]
      BY <1>0, <3>2
    <3>4. graph'.node \in [Ids -> ProductNode] /\ \A i \in Ids : graph'.node[i].here = graph.node[i].here
      <4>1. graph.node[run[r].about] \in ProductNode
        BY <1>0, <3>1
      <4>2. [graph.node[run[r].about] EXCEPT !.stale = TRUE] \in ProductNode
        BY <4>1 DEF ProductNode
      <4>3. graph'.node = [graph.node EXCEPT ![run[r].about] = [graph.node[run[r].about] EXCEPT !.stale = TRUE]]
        BY <1>0, <3>1, <3>3
      <4>4. graph'.node \in [Ids -> ProductNode]
        BY <1>0, <3>1, <4>2, <4>3
      <4>5. [graph.node[run[r].about] EXCEPT !.stale = TRUE].here = graph.node[run[r].about].here
        BY <4>1 DEF ProductNode
      <4> QED
        BY <1>0, <4>3, <4>4, <4>5
    <3>5. Here(graph') = Here(graph)
      BY <3>4 DEF Here
    <3> QED
      BY <1>0, <3>3, <3>4, <3>5
  <2>2. CASE ~GivesUp(r)
    BY <1>0, <2>0, <2>2 DEF Finish
  <2> QED
    BY <2>1, <2>2
<1>3. CASE \E r \in Runs : Write(r)
  <2>0. PICK r \in Runs : Write(r)
    BY <1>3
  <2>1. PICK i \in Ids, byName \in BOOLEAN : graph' = Named(graph, i, run[r].offer, byName)
    BY <2>0, WriteTargets
  <2>2. run[r].offer \in Offers
    BY <2>0 DEF Write, At, TypeOK
  <2> QED
    BY <1>0, <2>1, <2>2, NamedKeeps
<1>4. CASE \E r \in Runs : Store(r)
  <2>0. PICK r \in Runs : Store(r)
    BY <1>4
  <2>1. /\ run[r].target \in Here(graph) /\ run[r].target \in Ids
        /\ run[r].offer \in Offers /\ run[r].kind \in RunKinds
    BY <2>0 DEF Store, At, TypeOK, RunInv, Sound, RunState, Here
  <2>2. graph' \in Stored(graph, run[r].target, run[r].offer, run[r].kind)
    BY <2>0 DEF Store
  <2>3. /\ graph' \in [node : [Ids -> ProductNode], snaps : Seq(Snapshot)]
        /\ graph'.snaps = Append(graph.snaps, [node |-> run[r].target, offer |-> run[r].offer, by |-> run[r].kind])
        /\ Here(graph') = Here(graph)
    BY <2>1, <2>2, StoredKeeps
  <2>4. \A n \in DOMAIN graph'.snaps : graph'.snaps[n].node \in Here(graph')
    BY <1>0, <2>1, <2>3
  <2> QED
    BY <2>3, <2>4
<1> QED
  BY <1>1, <1>2, <1>3, <1>4, GraphSteps

LEMMA FoundProducts ==
    ASSUME NEW g, NEW o, NEW i \in FindProduct(g, o)
    PROVE  /\ i \in Here(g) \cup {NoNode}
           /\ HoldersOf(g, o.key) # {} => i \in HoldersOf(g, o.key)
BY DEF FindProduct, HoldersOf

-----------------------------------------------------------------------------
(* One run's state, with all that is said of it.                             *)
Fine(s, g) ==
    /\ s \in RunState /\ Sound(s)
    /\ Range(s.todo) \cup {s.about, s.target} \subseteq Here(g) \cup {NoNode}
    /\ Len(s.todo) <= WindowLimit
    /\ s.at \in {"find", "write", "store", "link", "entry"} => s.offer \in Offers

LEMMA IdleIsFine == \A g : Fine(Idle, g)
<1> SUFFICES ASSUME NEW g PROVE Fine(Idle, g)
  OBVIOUS
<1>1. Idle \in RunState
  <2>1. <<>> \in Seq(Ids)
    OBVIOUS
  <2> QED
    BY <2>1 DEF Idle, RunState, RunKinds, Phases, Prices
<1>2. Sound(Idle)
  BY DEF Idle, Sound
<1>3. Range(Idle.todo) = {} /\ Len(Idle.todo) = 0
  BY DEF Idle, Range
<1>4. Idle.about = NoNode /\ Idle.target = NoNode /\ Idle.at = "idle"
  BY DEF Idle
<1> QED
  BY <1>1, <1>2, <1>3, <1>4 DEF Fine

LEMMA RunsAreFine ==
    ASSUME TypeOK, RunInv
    PROVE  run \in [Runs -> RunState] /\ \A q \in Runs : Fine(run[q], graph)
BY DEF TypeOK, RunInv, Fine

(* What a query that raises leaves of a run.                                 *)
LEMMA RaisedIsFine ==
    ASSUME NEW s, NEW g, Fine(s, g), s.at \in {"find", "write", "store", "link", "entry"},
           s.kind \notin {"ingest", "recheck"}, NEW b \in BOOLEAN, b <=> s.broke \/ s.at \in {"link", "entry"}
    PROVE  Fine([s EXCEPT !.at = "records", !.offer = NoOffer, !.target = NoNode, !.byName = FALSE, !.broke = b], g)
<1> DEFINE t == [s EXCEPT !.at = "records", !.offer = NoOffer, !.target = NoNode, !.byName = FALSE, !.broke = b]
<1>1. s \in RunState /\ Sound(s)
  BY DEF Fine
<1>3. t \in RunState
  BY <1>1 DEF RunState, Phases
<1>4. /\ t.at = "records" /\ t.about = s.about /\ t.target = NoNode /\ t.todo = s.todo /\ t.kind = s.kind
      /\ t.accepted = s.accepted /\ t.stored = s.stored /\ t.broke = b
  BY <1>1 DEF RunState
<1>5. Sound(t)
  BY <1>1, <1>4 DEF Sound
<1>6. Range(t.todo) \cup {t.about, t.target} \subseteq Here(g) \cup {NoNode} /\ Len(t.todo) <= WindowLimit
  BY <1>4 DEF Fine
<1> QED
  BY <1>3, <1>4, <1>5, <1>6 DEF Fine

LEMMA RunsKeep ==
    ASSUME TypeOK, RunInv, [Next]_vars
    PROVE  run' \in [Runs -> RunState] /\ \A q \in Runs : Fine(run'[q], graph')
<1>0. run \in [Runs -> RunState] /\ \A q \in Runs : Fine(run[q], graph)
  BY RunsAreFine
<1>1. Here(graph) \subseteq Here(graph')
  BY GraphKeeps
<1>2. \A s : Fine(s, graph) => Fine(s, graph')
  BY <1>1 DEF Fine
<1>3. \A s : Fine(s, graph) => s \in RunState
  BY DEF Fine
<1>4. ASSUME NEW r \in Runs, NEW s, Fine(s, graph'), run' = [run EXCEPT ![r] = s]
      PROVE  run' \in [Runs -> RunState] /\ \A q \in Runs : Fine(run'[q], graph')
  <2>1. s \in RunState
    BY <1>4 DEF Fine
  <2> QED
    BY <1>0, <1>2, <1>4, <2>1
<1>5. CASE \E r \in Runs : Schedule(r)
  <2>9. PICK r \in Runs, old \in 0..Len(graph.snaps) : \E w \in Window(graph, old, WindowLimit) :
          /\ At(r, "idle") /\ run' = [run EXCEPT ![r].kind = "products", ![r].at = "next", ![r].todo = w]
    BY <1>5 DEF Schedule
  <2>0. PICK w \in Window(graph, old, WindowLimit) :
          /\ At(r, "idle") /\ run' = [run EXCEPT ![r].kind = "products", ![r].at = "next", ![r].todo = w]
    BY <2>9
  <2>1. Fine(run[r], graph) /\ run[r] \in RunState /\ run[r] = Idle
    BY <1>0, <2>0 DEF Fine, Sound, At
  <2> DEFINE s == [run[r] EXCEPT !.kind = "products", !.at = "next", !.todo = w]
  <2>2. run' = [run EXCEPT ![r] = s]
    BY <1>0, <2>0
  <2>3. w \in Seq(Ids) /\ Range(w) \subseteq Here(graph) /\ Len(w) <= WindowLimit
    BY WindowLists
  <2>4. s \in RunState
    BY <2>1, <2>3 DEF RunState, RunKinds, Phases
  <2>5. s.todo = w /\ s.about = NoNode /\ s.target = NoNode /\ s.at = "next" /\ s.kind = "products"
        /\ ~s.broke /\ ~s.accepted /\ ~s.stored
    BY <2>1 DEF RunState, Idle
  <2>6. Fine(s, graph)
    BY <2>3, <2>4, <2>5 DEF Fine, Sound
  <2> QED
    BY <1>2, <1>4, <2>2, <2>6
<1>6. CASE \E r \in Runs : Request(r)
  <2>0. PICK r \in Runs, region \in Regions :
          /\ At(r, "idle")
          /\ \/ \E i \in Here(graph) :
                  run' = [run EXCEPT ![r].kind = "products", ![r].at = "next", ![r].region = region, ![r].todo = <<i>>]
             \/ run' = [run EXCEPT ![r].kind = "query", ![r].at = "records", ![r].region = region]
    BY <1>6 DEF Request
  <2>1. Fine(run[r], graph) /\ run[r] \in RunState /\ run[r] = Idle
    BY <1>0, <2>0 DEF Fine, Sound, At
  <2>2. ASSUME NEW i \in Here(graph),
               run' = [run EXCEPT ![r].kind = "products", ![r].at = "next", ![r].region = region, ![r].todo = <<i>>]
        PROVE  run' \in [Runs -> RunState] /\ \A q \in Runs : Fine(run'[q], graph')
    <3> DEFINE s == [run[r] EXCEPT !.kind = "products", !.at = "next", !.region = region, !.todo = <<i>>]
    <3>1. run' = [run EXCEPT ![r] = s]
      BY <1>0, <2>2
    <3>2. <<i>> \in Seq(Ids) /\ Range(<<i>>) \subseteq Here(graph) /\ Len(<<i>>) <= WindowLimit
      BY DEF Here, Range
    <3>3. s \in RunState
      BY <2>1, <3>2 DEF RunState, RunKinds, Phases
    <3>4. s.todo = <<i>> /\ s.about = NoNode /\ s.target = NoNode /\ s.at = "next" /\ s.kind = "products"
          /\ ~s.broke /\ ~s.accepted /\ ~s.stored
      BY <2>1 DEF RunState, Idle
    <3>5. Fine(s, graph)
      BY <3>2, <3>3, <3>4 DEF Fine, Sound
    <3> QED
      BY <1>2, <1>4, <3>1, <3>5
  <2>3. ASSUME run' = [run EXCEPT ![r].kind = "query", ![r].at = "records", ![r].region = region]
        PROVE  run' \in [Runs -> RunState] /\ \A q \in Runs : Fine(run'[q], graph')
    <3> DEFINE s == [run[r] EXCEPT !.kind = "query", !.at = "records", !.region = region]
    <3>1. run' = [run EXCEPT ![r] = s]
      BY <1>0, <2>3
    <3>2. s \in RunState
      BY <2>1 DEF RunState, RunKinds, Phases
    <3>3. s.todo = <<>> /\ s.about = NoNode /\ s.target = NoNode /\ s.at = "records" /\ s.kind = "query"
          /\ ~s.accepted /\ ~s.stored
      BY <2>1 DEF RunState, Idle
    <3>4. Range(<<>>) = {} /\ Len(<<>>) = 0
      BY DEF Range
    <3>5. Fine(s, graph)
      BY <3>2, <3>3, <3>4 DEF Fine, Sound
    <3> QED
      BY <1>2, <1>4, <3>1, <3>5
  <2> QED
    BY <2>0, <2>2, <2>3
<1>7. CASE \E r \in Runs : NextProduct(r)
  <2>0. PICK r \in Runs : NextProduct(r)
    BY <1>7
  <2>1. Fine(run[r], graph) /\ run[r] \in RunState /\ run[r].at = "next"
    BY <1>0, <2>0 DEF Fine, NextProduct, At
  <2>2. CASE run[r].todo = <<>>
    <3>1. run' = [run EXCEPT ![r] = Idle]
      BY <2>0, <2>2 DEF NextProduct
    <3> QED
      BY <1>4, <3>1, IdleIsFine
  <2>3. CASE run[r].todo # <<>>
    <3> DEFINE s == [run[r] EXCEPT !.at = "records", !.todo = Tail(run[r].todo), !.about = Head(run[r].todo)]
    <3>1. run' = [run EXCEPT ![r] = s]
      BY <1>0, <2>0, <2>3 DEF NextProduct
    <3>2. /\ Tail(run[r].todo) \in Seq(Ids) /\ Len(Tail(run[r].todo)) <= Len(run[r].todo) /\ Head(run[r].todo) \in Ids
          /\ Head(run[r].todo) \in Range(run[r].todo) /\ Range(Tail(run[r].todo)) \subseteq Range(run[r].todo)
          /\ Len(Tail(run[r].todo)) \in Nat /\ Len(run[r].todo) \in Nat
      BY <2>1, <2>3, RestOfTodo DEF RunState
    <3>3. s \in RunState
      BY <2>1, <3>2 DEF RunState, Phases
    <3>4. /\ s.todo = Tail(run[r].todo) /\ s.about = Head(run[r].todo) /\ s.target = run[r].target /\ s.at = "records"
          /\ s.kind = run[r].kind /\ s.accepted = run[r].accepted /\ s.stored = run[r].stored
      BY <2>1 DEF RunState
    <3>5. ~s.accepted /\ ~s.stored /\ s.kind \notin {"ingest", "recheck"} /\ s.about # NoNode
      BY <2>1, <3>2, <3>4 DEF Fine, Sound
    <3>6. Sound(s)
      BY <3>4, <3>5 DEF Sound
    <3>7. Range(s.todo) \cup {s.about, s.target} \subseteq Here(graph) \cup {NoNode} /\ Len(s.todo) <= WindowLimit
      BY <2>1, <3>2, <3>4, <3>5 DEF Fine
    <3>8. Fine(s, graph)
      BY <3>3, <3>4, <3>6, <3>7 DEF Fine
    <3> QED
      BY <1>2, <1>4, <3>1, <3>8
  <2> QED
    BY <2>2, <2>3
<1>8. CASE \E r \in Runs, listing \in Listings : Take(r, listing)
  <2>0. PICK r \in Runs, listing \in Listings : Take(r, listing)
    BY <1>8
  <2>1. /\ Fine(run[r], graph) /\ run[r] \in RunState
    BY <1>0 DEF Fine
  <2> DEFINE s == [run[r] EXCEPT !.at = "find", !.offer = Offer(run[r].region, listing)]
  <2>2. run' = [run EXCEPT ![r] = s]
    BY <1>0, <2>0, OfferIsOffered DEF Take
  <2>3. Fine(s, graph)
    BY <1>0, <2>0, <2>1, OfferIsOffered DEF Take, At, Fine, Sound, RunState, Phases, RunKinds
  <2> QED
    BY <1>2, <1>4, <2>2, <2>3
<1>9. CASE \E r \in Runs : Finish(r)
  <2>0. PICK r \in Runs : Finish(r)
    BY <1>9
  <2>1. /\ Fine(run[r], graph) /\ run[r] \in RunState
    BY <1>0 DEF Fine
  <2> DEFINE s == [run[r] EXCEPT !.at = "next", !.about = NoNode, !.accepted = FALSE, !.stored = FALSE, !.broke = FALSE]
  <2>2. run' = [run EXCEPT ![r] = s]
    BY <1>0, <2>0 DEF Finish
  <2>3. Fine(s, graph)
    BY <1>0, <2>0, <2>1 DEF Finish, At, Fine, Sound, RunState, Phases, RunKinds
  <2> QED
    BY <1>2, <1>4, <2>2, <2>3
<1>10. CASE \E r \in Runs, listing \in Previews : PageChanged(r, listing)
  <2>0. PICK r \in Runs, listing \in Previews : PageChanged(r, listing)
    BY <1>10
  <2>1. /\ Fine(run[r], graph) /\ run[r] \in RunState
    BY <1>0 DEF Fine
  <2> DEFINE s == [run[r] EXCEPT !.at = "find", !.seen = 0, !.offer = Offer(run[r].region, listing)]
  <2>2. run' = [run EXCEPT ![r] = s]
    BY <1>0, <2>0, OfferIsOffered DEF PageChanged
  <2>3. Fine(s, graph)
    BY <1>0, <2>0, <2>1, OfferIsOffered DEF PageChanged, At, Fine, Sound, RunState, Phases, RunKinds, Previews, Prices
  <2> QED
    BY <1>2, <1>4, <2>2, <2>3
(* Those that are on the page when it is taken up lose only their being alone. *)
<1>11. ASSUME NEW r \in Runs, NEW taken, Fine(taken, graph), taken.at # "idle", TakesPage(r, taken)
       PROVE  run' \in [Runs -> RunState] /\ \A q \in Runs : Fine(run'[q], graph')
  <2>1. \A b \in BOOLEAN : \A s : Fine(s, graph) /\ s.at # "idle" => Fine([s EXCEPT !.alone = b], graph')
    <3>1. SUFFICES ASSUME NEW s, NEW b \in BOOLEAN, Fine(s, graph), s.at # "idle"
                   PROVE  Fine([s EXCEPT !.alone = b], graph')
      OBVIOUS
    <3>2. s \in RunState
      BY <3>1 DEF Fine
    <3>3. [s EXCEPT !.alone = b] \in RunState
      BY <3>2 DEF RunState
    <3>4. Fine(s, graph')
      BY <1>2, <3>1
    <3> QED
      BY <3>1, <3>2, <3>3, <3>4 DEF Fine, Sound, RunState
  <2>2. \A q \in Runs : OnPage(q) => run[q].at # "idle"
    BY <1>0 DEF Fine, Sound, OnPage, Idle
  <2>3. ASSUME NEW q \in Runs PROVE Fine(run'[q], graph')
    <3>1. CASE q = r
      <4>1. PICK b \in BOOLEAN : b = ({p \in Runs \ {r} : OnPage(p)} = {})
        OBVIOUS
      <4>2. run'[q] = [taken EXCEPT !.alone = b]
        BY <1>11, <3>1, <4>1 DEF TakesPage
      <4> QED
        BY <1>11, <2>1, <4>2
    <3>2. CASE q # r /\ OnPage(q)
      BY <1>0, <1>11, <2>1, <2>2, <3>2 DEF TakesPage
    <3>3. CASE q # r /\ ~OnPage(q)
      BY <1>0, <1>2, <1>11, <3>3 DEF TakesPage
    <3> QED
      BY <3>1, <3>2, <3>3
  <2>4. run' = [q \in Runs |-> run'[q]]
    BY <1>11 DEF TakesPage
  <2> QED
    BY <2>3, <2>4 DEF Fine
<1>12. CASE \E r \in Runs, listing \in Previews : Ingest(r, listing)
  <2>0. PICK r \in Runs, listing \in Previews, region \in Regions :
          /\ listing # NoOffer
          /\ TakesPage(r, [Idle EXCEPT !.kind = "ingest", !.at = "find", !.region = region, !.offer = Offer(region, listing)])
    BY <1>12 DEF Ingest
  <2> DEFINE s == [Idle EXCEPT !.kind = "ingest", !.at = "find", !.region = region, !.offer = Offer(region, listing)]
  <2>1. Fine(Idle, graph) /\ Idle \in RunState
    BY IdleIsFine DEF Fine
  <2>2. Offer(region, listing) \in Offers
    BY <2>0, OfferIsOffered DEF Previews
  <2>3. s \in RunState
    BY <2>1, <2>2 DEF RunState, RunKinds, Phases
  <2>4. Fine(s, graph) /\ s.at # "idle"
    BY <2>1, <2>2, <2>3 DEF Fine, Sound, Idle
  <2> QED
    BY <1>11, <2>0, <2>4
<1>13. CASE \E r \in Runs : Recheck(r)
  <2>0. PICK r \in Runs :
          TakesPage(r, [Idle EXCEPT !.kind = "recheck", !.at = "page", !.region = url.region, !.seen = url.price])
    BY <1>13 DEF Recheck
  <2> DEFINE s == [Idle EXCEPT !.kind = "recheck", !.at = "page", !.region = url.region, !.seen = url.price]
  <2>1. Fine(Idle, graph) /\ Idle \in RunState
    BY IdleIsFine DEF Fine
  <2>2. url.region \in Regions /\ url.price \in Prices
    BY DEF TypeOK
  <2>3. s \in RunState
    BY <2>1, <2>2 DEF RunState, RunKinds, Phases
  <2>4. Fine(s, graph) /\ s.at # "idle"
    BY <2>1, <2>3 DEF Fine, Sound, Idle
  <2> QED
    BY <1>11, <2>0, <2>4
<1>14. CASE \E r \in Runs : \/ Entry(r)
                            \/ \E listing \in Previews : PageRefused(r, listing) \/ PageUnchanged(r, listing)
  <2>1. PICK r \in Runs : run' = [run EXCEPT ![r] = Idle]
    BY <1>14 DEF Entry, PageRefused, PageUnchanged
  <2> QED
    BY <1>4, <2>1, IdleIsFine
<1>15. CASE \E r \in Runs : Find(r)
  <2>9. PICK r \in Runs : Find(r)
    BY <1>15
  <2>0. PICK i \in FindProduct(graph, run[r].offer) :
          /\ At(r, "find")
          /\ run' = [run EXCEPT ![r].at = "write", ![r].target = i,
                                ![r].byName = i # NoNode /\ HoldersOf(graph, run[r].offer.key) = {}]
    BY <2>9 DEF Find
  <2>1. Fine(run[r], graph) /\ run[r] \in RunState
    BY <1>0 DEF Fine
  <2>2. PICK b \in BOOLEAN : b = (i # NoNode /\ HoldersOf(graph, run[r].offer.key) = {})
    OBVIOUS
  <2> DEFINE s == [run[r] EXCEPT !.at = "write", !.target = i, !.byName = b]
  <2>3. run' = [run EXCEPT ![r] = s]
    BY <1>0, <2>0, <2>2
  <2>4. i \in Here(graph) \cup {NoNode} /\ i \in Ids \cup {NoNode}
    BY FoundProducts DEF Here
  <2>5. s \in RunState
    BY <2>1, <2>4 DEF RunState, Phases
  <2>6. Fine(s, graph)
    BY <2>0, <2>1, <2>4, <2>5 DEF Fine, Sound, RunState, At, Idle
  <2> QED
    BY <1>2, <1>4, <2>3, <2>6
<1>16. CASE \E r \in Runs : Write(r)
  <2>0. PICK r \in Runs : Write(r)
    BY <1>16
  <2>1. PICK i \in Ids, byName \in BOOLEAN :
          graph' = Named(graph, i, run[r].offer, byName) /\ run' = [run EXCEPT ![r].at = "store", ![r].target = i]
    BY <2>0, WriteTargets
  <2>2. Fine(run[r], graph') /\ run[r] \in RunState /\ run[r].at = "write" /\ run[r].offer \in Offers
    BY <1>0, <1>2, <2>0 DEF Fine, Write, At
  <2> DEFINE s == [run[r] EXCEPT !.at = "store", !.target = i]
  <2>3. run' = [run EXCEPT ![r] = s]
    BY <1>0, <2>1
  <2>4. i \in Here(graph')
    BY <2>1, <2>2, NamedKeeps
  <2>5. s \in RunState
    BY <2>2 DEF RunState, Phases
  <2>6. Fine(s, graph')
    BY <2>2, <2>4, <2>5 DEF Fine, Sound, RunState, Idle
  <2> QED
    BY <1>4, <2>3, <2>6
<1>17. CASE \E r \in Runs : Store(r)
  <2>0. PICK r \in Runs : Store(r)
    BY <1>17
  <2>1. Fine(run[r], graph) /\ run[r] \in RunState /\ run[r].at = "store"
    BY <1>0, <2>0 DEF Fine, Store, At
  <2>2. PICK b \in BOOLEAN : b = (run[r].about # NoNode)
    OBVIOUS
  <2> DEFINE s == [run[r] EXCEPT !.at = "link", !.stored = b]
  <2>3. run' = [run EXCEPT ![r] = s]
    BY <1>0, <2>0, <2>2 DEF Store
  <2>4. s \in RunState
    BY <2>1 DEF RunState, Phases
  <2>5. Fine(s, graph)
    BY <2>1, <2>2, <2>4 DEF Fine, Sound, RunState, Idle
  <2> QED
    BY <1>2, <1>4, <2>3, <2>5
<1>18. CASE \E r \in Runs : Link(r)
  <2>0. PICK r \in Runs : Link(r)
    BY <1>18
  <2>1. Fine(run[r], graph) /\ run[r] \in RunState /\ run[r].at = "link"
    BY <1>0, <2>0 DEF Fine, Link, At
  <2>2. CASE OnPage(r)
    <3> DEFINE s == [run[r] EXCEPT !.at = "entry"]
    <3>1. run' = [run EXCEPT ![r] = s]
      BY <1>0, <2>0, <2>2 DEF Link
    <3>2. s \in RunState
      BY <2>1 DEF RunState, Phases
    <3>3. Fine(s, graph)
      BY <2>1, <2>2, <3>2 DEF Fine, Sound, RunState, Idle, OnPage
    <3> QED
      BY <1>2, <1>4, <3>1, <3>3
  <2>3. CASE ~OnPage(r)
    <3>1. PICK b \in BOOLEAN : b = (run[r].about # NoNode)
      OBVIOUS
    <3> DEFINE s == [run[r] EXCEPT !.at = "records", !.offer = NoOffer, !.target = NoNode, !.byName = FALSE, !.accepted = b]
    <3>2. run' = [run EXCEPT ![r] = s]
      BY <1>0, <2>0, <2>3, <3>1 DEF Link
    <3>3. s \in RunState
      BY <2>1 DEF RunState, Phases
    <3>4. Fine(s, graph)
      BY <2>1, <2>3, <3>1, <3>3 DEF Fine, Sound, RunState, Idle, OnPage
    <3> QED
      BY <1>2, <1>4, <3>2, <3>4
  <2> QED
    BY <2>2, <2>3
<1>19. CASE \E r \in Runs : Raise(r) \/ KeyTaken(r)
  <2>0. PICK r \in Runs : Raise(r) \/ KeyTaken(r)
    BY <1>19
  <2>1. GoOn(r) /\ run[r].at \in {"find", "write", "store", "link", "entry"}
    BY <2>0 DEF Raise, KeyTaken, At
  <2>2. Fine(run[r], graph)
    BY <1>0
  <2>3. CASE OnPage(r)
    <3>1. run' = [run EXCEPT ![r] = Idle]
      BY <2>1, <2>3 DEF GoOn
    <3> QED
      BY <1>4, <3>1, IdleIsFine
  <2>4. CASE ~OnPage(r)
    <3>1. PICK b \in BOOLEAN : b <=> run[r].broke \/ run[r].at \in {"link", "entry"}
      OBVIOUS
    <3>2. (run[r].broke \/ run[r].at \in {"link", "entry"}) = b
      BY <2>2, <3>1 DEF Fine, RunState
    <3> DEFINE s == [run[r] EXCEPT !.at = "records", !.offer = NoOffer, !.target = NoNode, !.byName = FALSE, !.broke = b]
    <3>3. run' = [run EXCEPT ![r] = s]
      <4>1. run' = [run EXCEPT ![r] = [@ EXCEPT !.at = "records", !.offer = NoOffer, !.target = NoNode, !.byName = FALSE,
                                         !.broke = run[r].broke \/ run[r].at \in {"link", "entry"}]]
        BY <2>1, <2>4 DEF GoOn
      <4> QED
        BY <1>0, <3>2, <4>1
    <3>4. Fine(s, graph)
      BY <2>1, <2>2, <2>4, <3>1, RaisedIsFine DEF OnPage
    <3> QED
      BY <1>2, <1>4, <3>3, <3>4
  <2> QED
    BY <2>3, <2>4
<1>20. CASE UNCHANGED vars
  BY <1>0, <1>2, <1>20 DEF vars
<1> QED
  BY <1>5, <1>6, <1>7, <1>8, <1>9, <1>10, <1>12, <1>13, <1>14, <1>15, <1>16, <1>17, <1>18, <1>19, <1>20 DEF Next

-----------------------------------------------------------------------------
LEMMA TypeKeeps ==
    ASSUME TypeOK, RunInv, [Next]_vars
    PROVE  TypeOK' /\ RunInv'
<1>1. /\ graph' \in [node : [Ids -> ProductNode], snaps : Seq(Snapshot)]
      /\ \A n \in DOMAIN graph'.snaps : graph'.node[graph'.snaps[n].node].here
  BY GraphKeeps
<1>2. run' \in [Runs -> RunState] /\ \A q \in Runs : Fine(run'[q], graph')
  BY RunsKeep
<1>3. url' \in [listed : BOOLEAN, price : Prices, region : Regions, failed : BOOLEAN, torn : BOOLEAN]
  <2>0. url \in [listed : BOOLEAN, price : Prices, region : Regions, failed : BOOLEAN, torn : BOOLEAN]
    BY DEF TypeOK
  <2>1. CASE \E r \in Runs : Entry(r)
    <3>1. PICK r \in Runs : Entry(r)
      BY <2>1
    <3>2. run[r] \in RunState /\ run[r].offer.price \in Prices
      BY <3>1, OffersAreTyped DEF Entry, At, TypeOK
    <3>3. PICK torn \in BOOLEAN : torn <=> url.torn \/ ~run[r].alone
      OBVIOUS
    <3>4. (url.torn \/ ~run[r].alone) = torn
      BY <2>0, <3>2, <3>3 DEF RunState
    <3>5. url' = [listed |-> TRUE, price |-> run[r].offer.price, region |-> run[r].region, failed |-> FALSE, torn |-> torn]
      BY <3>1, <3>4 DEF Entry
    <3> QED
      BY <3>2, <3>5 DEF RunState
  <2>2. CASE \E r \in Runs : Raise(r) \/ KeyTaken(r)
    <3>1. PICK r \in Runs : GoOn(r)
      BY <2>2 DEF Raise, KeyTaken
    <3>2. PICK torn \in BOOLEAN : torn <=> url.torn \/ (OnPage(r) /\ run[r].at \in {"link", "entry"})
      OBVIOUS
    <3>3. (url.torn \/ (OnPage(r) /\ run[r].at \in {"link", "entry"})) = torn
      BY <2>0, <3>2
    <3>4. PICK failed \in BOOLEAN : failed <=> run[r].kind = "recheck" \/ url.failed
      OBVIOUS
    <3>5. url' = [url EXCEPT !.failed = failed, !.torn = torn]
      BY <2>0, <3>1, <3>3, <3>4 DEF GoOn, Told
    <3> QED
      BY <2>0, <3>5
  <2>3. CASE \E r \in Runs, listing \in Previews : PageRefused(r, listing) \/ PageUnchanged(r, listing)
    BY <2>0, <2>3 DEF PageRefused, PageUnchanged, Told
  <2>4. CASE url' = url
    BY <2>0, <2>4
  <2> QED
    BY <2>1, <2>2, <2>3, <2>4 DEF Next, vars, Schedule, Request, NextProduct, Finish, Recheck, Find, Write, Store, Link, Take,
       Ingest, PageChanged
<1>4. faults' \in 0..MaxFaults
  <2>0. faults \in 0..MaxFaults
    BY DEF TypeOK
  <2>1. CASE \E r \in Runs : Raise(r)
    BY <2>0, <2>1 DEF Raise
  <2>2. CASE faults' = faults
    BY <2>0, <2>2
  <2> QED
    BY <2>1, <2>2 DEF Next, vars, Schedule, Request, NextProduct, Finish, Recheck, Find, Write, Store, Link, Entry, KeyTaken, Take,
       Ingest, PageRefused, PageUnchanged, PageChanged
<1> QED
  BY <1>1, <1>2, <1>3, <1>4 DEF TypeOK, RunInv, Fine

-----------------------------------------------------------------------------
Unmoved(q) == run'[q] = [run[q] EXCEPT !.alone = run'[q].alone]

(* Which steps touch keys, or the runs that are about to write or store.     *)
LEMMA KeySteps ==
    ASSUME TypeOK, [Next]_vars
    PROVE  \/ \E r \in Runs : Write(r) \/ Store(r) \/ Finish(r) \/ Find(r)
           \/ graph' = graph /\ \A q \in Runs : run'[q].at \in {"write", "store"} => Unmoved(q)
<1>0. run \in [Runs -> RunState]
  BY DEF TypeOK
<1>1. CASE UNCHANGED vars
  BY <1>0, <1>1 DEF vars, Unmoved, RunState
<1>2. ASSUME NEW r \in Runs, \A q \in Runs : q # r => run'[q] = run[q], run'[r].at \notin {"write", "store"}
      PROVE  \A q \in Runs : run'[q].at \in {"write", "store"} => Unmoved(q)
  BY <1>0, <1>2 DEF Unmoved, RunState
<1>10. CASE \E r \in Runs : Schedule(r)
  <2>1. PICK r \in Runs : Schedule(r)
    BY <1>10
  <2>2. graph' = graph
    BY <2>1 DEF Schedule
  <2>3. \A q \in Runs : q # r => run'[q] = run[q]
    BY <1>0, <2>1 DEF Schedule
  <2>4. run'[r].at = "next"
    BY <1>0, <2>1 DEF Schedule, RunState, Idle
  <2> QED
    BY <1>2, <2>2, <2>3, <2>4
<1>11. CASE \E r \in Runs : Request(r)
  <2>1. PICK r \in Runs : Request(r)
    BY <1>11
  <2>2. graph' = graph
    BY <2>1 DEF Request
  <2>3. \A q \in Runs : q # r => run'[q] = run[q]
    BY <1>0, <2>1 DEF Request
  <2>4. run'[r].at \in {"next", "records"}
    BY <1>0, <2>1 DEF Request, RunState, Idle
  <2> QED
    BY <1>2, <2>2, <2>3, <2>4
<1>12. CASE \E r \in Runs : NextProduct(r)
  <2>1. PICK r \in Runs : NextProduct(r)
    BY <1>12
  <2>2. graph' = graph
    BY <2>1 DEF NextProduct
  <2>3. \A q \in Runs : q # r => run'[q] = run[q]
    BY <1>0, <2>1 DEF NextProduct
  <2>4. run'[r].at \in {"idle", "records"}
    BY <1>0, <2>1 DEF NextProduct, RunState, Idle
  <2> QED
    BY <1>2, <2>2, <2>3, <2>4
<1>13. CASE \E r \in Runs : Link(r)
  <2>1. PICK r \in Runs : Link(r)
    BY <1>13
  <2>2. graph' = graph
    BY <2>1 DEF Link
  <2>3. \A q \in Runs : q # r => run'[q] = run[q]
    BY <1>0, <2>1 DEF Link
  <2>4. run'[r].at \in {"entry", "records"}
    BY <1>0, <2>1 DEF Link, RunState, Idle
  <2> QED
    BY <1>2, <2>2, <2>3, <2>4
<1>14. CASE \E r \in Runs : Entry(r)
  <2>1. PICK r \in Runs : Entry(r)
    BY <1>14
  <2>2. graph' = graph
    BY <2>1 DEF Entry
  <2>3. \A q \in Runs : q # r => run'[q] = run[q]
    BY <1>0, <2>1 DEF Entry
  <2>4. run'[r].at = "idle"
    BY <1>0, <2>1 DEF Entry, RunState, Idle
  <2> QED
    BY <1>2, <2>2, <2>3, <2>4
<1>15. CASE \E r \in Runs : Raise(r)
  <2>1. PICK r \in Runs : Raise(r)
    BY <1>15
  <2>2. graph' = graph
    BY <2>1 DEF Raise
  <2>3. \A q \in Runs : q # r => run'[q] = run[q]
    BY <1>0, <2>1 DEF Raise, GoOn
  <2>4. run'[r].at \in {"idle", "records"}
    BY <1>0, <2>1 DEF Raise, GoOn, RunState, Idle
  <2> QED
    BY <1>2, <2>2, <2>3, <2>4
<1>16. CASE \E r \in Runs : KeyTaken(r)
  <2>1. PICK r \in Runs : KeyTaken(r)
    BY <1>16
  <2>2. graph' = graph
    BY <2>1 DEF KeyTaken
  <2>3. \A q \in Runs : q # r => run'[q] = run[q]
    BY <1>0, <2>1 DEF KeyTaken, GoOn
  <2>4. run'[r].at \in {"idle", "records"}
    BY <1>0, <2>1 DEF KeyTaken, GoOn, RunState, Idle
  <2> QED
    BY <1>2, <2>2, <2>3, <2>4
<1>17. CASE \E r \in Runs, listing \in Listings : Take(r, listing)
  <2>1. PICK r \in Runs, listing \in Listings : Take(r, listing)
    BY <1>17
  <2>2. graph' = graph
    BY <2>1 DEF Take
  <2>3. \A q \in Runs : q # r => run'[q] = run[q]
    BY <1>0, <2>1 DEF Take
  <2>4. run'[r].at = "find"
    BY <1>0, <2>1 DEF Take, RunState, Idle
  <2> QED
    BY <1>2, <2>2, <2>3, <2>4
<1>18. CASE \E r \in Runs, listing \in Previews : PageRefused(r, listing)
  <2>1. PICK r \in Runs, listing \in Previews : PageRefused(r, listing)
    BY <1>18
  <2>2. graph' = graph
    BY <2>1 DEF PageRefused
  <2>3. \A q \in Runs : q # r => run'[q] = run[q]
    BY <1>0, <2>1 DEF PageRefused
  <2>4. run'[r].at = "idle"
    BY <1>0, <2>1 DEF PageRefused, RunState, Idle
  <2> QED
    BY <1>2, <2>2, <2>3, <2>4
<1>19. CASE \E r \in Runs, listing \in Previews : PageUnchanged(r, listing)
  <2>1. PICK r \in Runs, listing \in Previews : PageUnchanged(r, listing)
    BY <1>19
  <2>2. graph' = graph
    BY <2>1 DEF PageUnchanged
  <2>3. \A q \in Runs : q # r => run'[q] = run[q]
    BY <1>0, <2>1 DEF PageUnchanged
  <2>4. run'[r].at = "idle"
    BY <1>0, <2>1 DEF PageUnchanged, RunState, Idle
  <2> QED
    BY <1>2, <2>2, <2>3, <2>4
<1>20. CASE \E r \in Runs, listing \in Previews : PageChanged(r, listing)
  <2>1. PICK r \in Runs, listing \in Previews : PageChanged(r, listing)
    BY <1>20
  <2>2. graph' = graph
    BY <2>1 DEF PageChanged
  <2>3. \A q \in Runs : q # r => run'[q] = run[q]
    BY <1>0, <2>1 DEF PageChanged
  <2>4. run'[r].at = "find"
    BY <1>0, <2>1 DEF PageChanged, RunState, Idle
  <2> QED
    BY <1>2, <2>2, <2>3, <2>4
<1>6. CASE \E r \in Runs : Recheck(r) \/ \E listing \in Previews : Ingest(r, listing)
  <2>1. PICK r \in Runs : Recheck(r) \/ \E listing \in Previews : Ingest(r, listing)
    BY <1>6
  <2>2. graph' = graph
    BY <2>1 DEF Recheck, Ingest
  <2>3. PICK s : /\ TakesPage(r, s)
                 /\ [s EXCEPT !.alone = TRUE].at \in {"page", "find"} /\ [s EXCEPT !.alone = FALSE].at \in {"page", "find"}
    <3>1. CASE Recheck(r)
      <4> DEFINE t == [Idle EXCEPT !.kind = "recheck", !.at = "page", !.region = url.region, !.seen = url.price]
      <4>1. TakesPage(r, t)
        BY <3>1 DEF Recheck
      <4>2. [t EXCEPT !.alone = TRUE].at = "page" /\ [t EXCEPT !.alone = FALSE].at = "page"
        BY DEF Idle
      <4> HIDE DEF t
      <4> QED
        BY <4>1, <4>2
    <3>2. CASE \E listing \in Previews : Ingest(r, listing)
      <4>1. PICK listing \in Previews, region \in Regions :
              TakesPage(r, [Idle EXCEPT !.kind = "ingest", !.at = "find", !.region = region, !.offer = Offer(region, listing)])
        BY <3>2 DEF Ingest
      <4> DEFINE t == [Idle EXCEPT !.kind = "ingest", !.at = "find", !.region = region, !.offer = Offer(region, listing)]
      <4>2. [t EXCEPT !.alone = TRUE].at = "find" /\ [t EXCEPT !.alone = FALSE].at = "find"
        BY DEF Idle
      <4>3. TakesPage(r, t)
        BY <4>1
      <4> HIDE DEF t
      <4> QED
        BY <4>2, <4>3
    <3> QED
      BY <2>1, <3>1, <3>2
  <2>4. run'[r].at \in {"page", "find"}
    <3>1. PICK b \in BOOLEAN : b = ({q \in Runs \ {r} : OnPage(q)} = {})
      OBVIOUS
    <3>2. run'[r] = [s EXCEPT !.alone = b]
      BY <2>3, <3>1 DEF TakesPage
    <3> QED
      BY <2>3, <3>1, <3>2
  <2>5. \A q \in Runs : q # r => Unmoved(q)
    BY <1>0, <2>3 DEF TakesPage, Unmoved, RunState
  <2> QED
    BY <2>2, <2>4, <2>5
<1> QED
  BY <1>1, <1>6, <1>10, <1>11, <1>12, <1>13, <1>14, <1>15, <1>16, <1>17, <1>18, <1>19, <1>20 DEF Next

LEMMA OnlyAlone ==
    ASSUME NEW s \in RunState, NEW a
    PROVE  LET t == [s EXCEPT !.alone = a]
           IN  t.at = s.at /\ t.target = s.target /\ t.byName = s.byName /\ t.offer = s.offer /\ t.kind = s.kind
BY DEF RunState

LEMMA KeyKeeps ==
    ASSUME TypeOK, RunInv, KeyInv, [Next]_vars
    PROVE  KeyInv'
<1>0. run \in [Runs -> RunState] /\ \A q \in Runs : Fine(run[q], graph)
  BY RunsAreFine
<1>1. /\ graph.node \in [Ids -> ProductNode] /\ graph.snaps \in Seq(Snapshot)
      /\ \A n \in DOMAIN graph.snaps : graph.snaps[n].node \in Here(graph) /\ graph.snaps[n].offer \in Offers
  <2>1. graph.node \in [Ids -> ProductNode] /\ graph.snaps \in Seq(Snapshot)
    BY DEF TypeOK
  <2>2. \A n \in DOMAIN graph.snaps : graph.snaps[n] \in Snapshot
    BY <2>1
  <2> QED
    BY <2>1, <2>2 DEF TypeOK, Here, Snapshot
(* A step that leaves keys, and what is about to be stored, as they are.      *)
<1>2. ASSUME \A i \in Ids : /\ graph'.node[i].key = graph.node[i].key /\ graph'.node[i].here = graph.node[i].here
                            /\ graph'.node[i].taken = graph.node[i].taken,
             graph'.snaps = graph.snaps,
             \A q \in Runs : run'[q].at \in {"write", "store"} => Unmoved(q)
      PROVE  KeyInv'
  <2>1. Here(graph') = Here(graph)
    BY <1>2 DEF Here
  <2>2. \A q \in Runs : run'[q].at \in {"write", "store"} =>
          /\ run'[q].at = run[q].at /\ run'[q].target = run[q].target /\ run'[q].byName = run[q].byName
          /\ run'[q].offer = run[q].offer
    <3>1. SUFFICES ASSUME NEW q \in Runs, run'[q].at \in {"write", "store"}
                   PROVE  /\ run'[q].at = run[q].at /\ run'[q].target = run[q].target /\ run'[q].byName = run[q].byName
                          /\ run'[q].offer = run[q].offer
      OBVIOUS
    <3>2. PICK a : run'[q] = [run[q] EXCEPT !.alone = a]
      BY <1>2, <3>1 DEF Unmoved
    <3>3. run[q] \in RunState
      BY <1>0
    <3> QED
      BY <3>2, <3>3, OnlyAlone
  <2>3. \A i \in Ids : \A k : Untaken(i, k) <=> graph'.node[i].taken \/ graph'.node[i].key = k
    BY <1>2 DEF Untaken
  <2>4. \A q \in Runs : run[q].target \in Ids \cup {NoNode} /\ (run[q].at = "store" => run[q].target \in Ids)
    BY <1>0 DEF Fine, Sound, RunState
  <2>5. \A n \in DOMAIN graph.snaps : graph.snaps[n].node \in Ids
    BY <1>1 DEF Here
  <2>6. \A i, j \in Here(graph') : graph'.node[i].key = graph'.node[j].key /\ graph'.node[i].key # NoKey => i = j
    BY <1>2, <2>1 DEF KeyInv, Here
  <2>7. ASSUME NEW n \in DOMAIN graph'.snaps
        PROVE  graph'.node[graph'.snaps[n].node].taken \/ graph'.node[graph'.snaps[n].node].key = graph'.snaps[n].offer.key
    <3>1. n \in DOMAIN graph.snaps /\ graph'.snaps[n] = graph.snaps[n]
      BY <1>2
    <3>2. Untaken(graph.snaps[n].node, graph.snaps[n].offer.key)
      BY <3>1 DEF KeyInv
    <3> QED
      BY <2>3, <2>5, <3>1, <3>2
  <2>8. ASSUME NEW q \in Runs,
               (run'[q].at = "write" /\ run'[q].target # NoNode /\ ~run'[q].byName) \/ run'[q].at = "store"
        PROVE  graph'.node[run'[q].target].taken \/ graph'.node[run'[q].target].key = run'[q].offer.key
    <3>1. /\ run'[q].at = run[q].at /\ run'[q].target = run[q].target /\ run'[q].byName = run[q].byName
          /\ run'[q].offer = run[q].offer
      BY <2>2, <2>8
    <3>2. Untaken(run[q].target, run[q].offer.key) /\ run[q].target \in Ids
      BY <2>4, <2>8, <3>1 DEF KeyInv
    <3> QED
      BY <2>3, <3>1, <3>2
  <2> QED
    BY <2>6, <2>7, <2>8 DEF KeyInv, Untaken
<1>3. CASE \E r \in Runs : Finish(r)
  <2>1. PICK r \in Runs : Finish(r)
    BY <1>3
  <2>2. \A q \in Runs : run'[q].at \in {"write", "store"} => Unmoved(q)
    BY <1>0, <2>1 DEF Finish, Unmoved, RunState
  <2>3. graph'.snaps = graph.snaps
    BY <2>1 DEF Finish, Staled
  <2>4. ASSUME NEW i \in Ids
        PROVE  /\ graph'.node[i].key = graph.node[i].key /\ graph'.node[i].here = graph.node[i].here
               /\ graph'.node[i].taken = graph.node[i].taken
    <3>1. graph' = graph \/ \E j \in Ids : graph'.node = [graph.node EXCEPT ![j].stale = TRUE]
      BY <1>0, <2>1 DEF Finish, Staled, GivesUp, RunState
    <3>2. ASSUME NEW j \in Ids, graph'.node = [graph.node EXCEPT ![j].stale = TRUE]
          PROVE  /\ graph'.node[i].key = graph.node[i].key /\ graph'.node[i].here = graph.node[i].here
                 /\ graph'.node[i].taken = graph.node[i].taken
      <4>1. graph.node[i] \in ProductNode
        BY <1>1
      <4>2. graph'.node[i] = graph.node[i] \/ graph'.node[i] = [graph.node[i] EXCEPT !.stale = TRUE]
        BY <1>1, <3>2
      <4> QED
        BY <4>1, <4>2 DEF ProductNode
    <3> QED
      BY <3>1, <3>2
  <2> QED
    BY <1>2, <2>2, <2>3, <2>4
<1>4. CASE graph' = graph /\ \A q \in Runs : run'[q].at \in {"write", "store"} => Unmoved(q)
  BY <1>2, <1>4
<1>5. CASE \E r \in Runs : Find(r)
  <2>1. PICK r \in Runs : Find(r)
    BY <1>5
  <2>2. PICK i \in FindProduct(graph, run[r].offer) :
          /\ At(r, "find")
          /\ run' = [run EXCEPT ![r].at = "write", ![r].target = i,
                                ![r].byName = i # NoNode /\ HoldersOf(graph, run[r].offer.key) = {}]
    BY <2>1 DEF Find
  <2>3. graph' = graph /\ \A q \in Runs : q # r => run'[q] = run[q]
    BY <1>0, <2>1, <2>2 DEF Find
  <2>4. /\ run'[r].at = "write" /\ run'[r].target = i /\ run'[r].offer = run[r].offer
        /\ run'[r].byName = (i # NoNode /\ HoldersOf(graph, run[r].offer.key) = {})
    BY <1>0, <2>2 DEF RunState
  <2>5. run'[r].target # NoNode /\ ~run'[r].byName => Untaken(i, run[r].offer.key)
    <3>1. ASSUME run'[r].target # NoNode, ~run'[r].byName PROVE HoldersOf(graph, run[r].offer.key) # {}
      BY <2>4, <3>1
    <3>2. HoldersOf(graph, run[r].offer.key) # {} => i \in HoldersOf(graph, run[r].offer.key)
      BY FoundProducts
    <3> QED
      BY <3>1, <3>2 DEF HoldersOf, Untaken
  <2> QED
    BY <2>3, <2>4, <2>5 DEF KeyInv, Untaken
<1>6. CASE \E r \in Runs : Store(r)
  <2>1. PICK r \in Runs : Store(r)
    BY <1>6
  <2>2. /\ run[r].target \in Ids /\ run[r].offer \in Offers /\ run[r].kind \in RunKinds
        /\ run[r].at = "store" /\ graph' \in Stored(graph, run[r].target, run[r].offer, run[r].kind)
    BY <1>0, <2>1 DEF Store, At, Fine, Sound, RunState
  <2>3. /\ graph'.snaps = Append(graph.snaps, [node |-> run[r].target, offer |-> run[r].offer, by |-> run[r].kind])
        /\ \A i \in Ids : graph'.node[i].key = graph.node[i].key /\ graph'.node[i].taken = graph.node[i].taken
        /\ Here(graph') = Here(graph)
    <3>1. /\ graph'.snaps = Append(graph.snaps, [node |-> run[r].target, offer |-> run[r].offer, by |-> run[r].kind])
          /\ \A j \in Ids : j # run[r].target => graph'.node[j] = graph.node[j]
          /\ graph'.node[run[r].target].key = graph.node[run[r].target].key
          /\ graph'.node[run[r].target].taken = graph.node[run[r].target].taken
          /\ Here(graph') = Here(graph)
      BY <2>2, StoredKeeps
    <3> QED
      BY <3>1
  <2>4. \A i \in Ids : \A k : Untaken(i, k) <=> graph'.node[i].taken \/ graph'.node[i].key = k
    BY <2>3 DEF Untaken
  <2>5. \A i, j \in Here(graph') : graph'.node[i].key = graph'.node[j].key /\ graph'.node[i].key # NoKey => i = j
    BY <2>3 DEF KeyInv, Here
  <2>6. ASSUME NEW n \in DOMAIN graph'.snaps
        PROVE  graph'.node[graph'.snaps[n].node].taken \/ graph'.node[graph'.snaps[n].node].key = graph'.snaps[n].offer.key
    <3>1. CASE n \in DOMAIN graph.snaps
      <4>1. graph'.snaps[n] = graph.snaps[n]
        BY <1>1, <2>3, <3>1
      <4>2. Untaken(graph.snaps[n].node, graph.snaps[n].offer.key) /\ graph.snaps[n].node \in Ids
        BY <1>1, <3>1 DEF KeyInv, Here
      <4> QED
        BY <2>4, <4>1, <4>2
    <3>2. CASE n \notin DOMAIN graph.snaps
      <4>1. graph'.snaps[n] = [node |-> run[r].target, offer |-> run[r].offer, by |-> run[r].kind]
        BY <1>1, <2>3, <3>2
      <4>2. Untaken(run[r].target, run[r].offer.key)
        BY <2>2 DEF KeyInv
      <4> QED
        BY <2>2, <2>4, <4>1, <4>2
    <3> QED
      BY <3>1, <3>2
  <2>7. \A q \in Runs : q # r => run'[q] = run[q]
    BY <1>0, <2>1 DEF Store
  <2>8. run'[r].at = "link"
    BY <1>0, <2>1 DEF Store, RunState
  <2>9. ASSUME NEW q \in Runs,
               (run'[q].at = "write" /\ run'[q].target # NoNode /\ ~run'[q].byName) \/ run'[q].at = "store"
        PROVE  graph'.node[run'[q].target].taken \/ graph'.node[run'[q].target].key = run'[q].offer.key
    <3>1. run'[q] = run[q]
      BY <2>7, <2>8, <2>9
    <3>2. Untaken(run[q].target, run[q].offer.key) /\ run[q].target \in Ids
      BY <1>0, <2>9, <3>1 DEF KeyInv, Fine, Sound, RunState
    <3> QED
      BY <2>4, <3>1, <3>2
  <2> QED
    BY <2>5, <2>6, <2>9 DEF KeyInv, Untaken
<1>7. CASE \E r \in Runs : Write(r)
  <2>1. PICK r \in Runs : Write(r)
    BY <1>7
  <2>2. PICK i \in Ids, byName \in BOOLEAN :
             /\ graph' = Named(graph, i, run[r].offer, byName)
             /\ run' = [run EXCEPT ![r].at = "store", ![r].target = i]
             /\ run[r].target # NoNode =>
                  i = run[r].target /\ byName = run[r].byName /\ Overwrites(graph, i, run[r].offer)
             /\ run[r].target = NoNode => i \in MergeTargets(graph, run[r].offer) /\ byName = FALSE
    BY <2>1, WriteTargets
  <2>3. PICK o \in Offers : o = run[r].offer
    BY <1>0, <2>1 DEF Write, At, Fine
  <2>4. o.key # NoKey
    BY OffersAreTyped
  <2>5. /\ graph'.snaps = graph.snaps
        /\ \A j \in Ids : j # i => graph'.node[j] = graph.node[j]
        /\ graph'.node[i].here /\ graph'.node[i].key = o.key
        /\ graph'.node[i].taken <=> graph.node[i].taken \/ (byName /\ graph.node[i].key \notin {NoKey, o.key})
        /\ Here(graph') = Here(graph) \cup {i}
    BY <2>2, <2>3, NamedKeeps
(* Nobody else has the key that the node is given.                            *)
  <2>6. \A j \in Here(graph) : graph.node[j].key = o.key => j = i
    <3>1. CASE run[r].target # NoNode
      BY <2>2, <2>3, <2>4, <3>1 DEF Overwrites, HoldersOf
    <3>2. CASE run[r].target = NoNode
      BY <2>2, <2>3, <2>4, <3>2 DEF MergeTargets, HoldersOf, KeyInv
    <3> QED
      BY <3>1, <3>2
  <2>7. \A j, k \in Here(graph') : graph'.node[j].key = graph'.node[k].key /\ graph'.node[j].key # NoKey => j = k
    BY <2>5, <2>6 DEF KeyInv, Here
(* Unless it was found by its name, the node had that key before, or none was *)
(* stored for it.                                                             *)
  <2>8. i \in Here(graph) /\ ~byName => Untaken(i, o.key)
    <3>1. CASE run[r].target # NoNode
      BY <2>1, <2>2, <2>3, <3>1 DEF KeyInv, Write, At
    <3>2. CASE run[r].target = NoNode
      BY <2>2, <2>3, <3>2 DEF MergeTargets, HoldersOf, Untaken
    <3> QED
      BY <3>1, <3>2
  <2>9. ASSUME NEW j \in Here(graph), NEW k, k # NoKey, Untaken(j, k)
        PROVE  graph'.node[j].taken \/ graph'.node[j].key = k
    <3>0. j \in Ids
      BY DEF Here
    <3>1. CASE j # i
      BY <2>5, <2>9, <3>0, <3>1 DEF Untaken
    <3>2. CASE j = i
      BY <2>5, <2>8, <2>9, <3>2 DEF Untaken
    <3> QED
      BY <3>1, <3>2
  <2>10. ASSUME NEW n \in DOMAIN graph'.snaps
        PROVE  graph'.node[graph'.snaps[n].node].taken \/ graph'.node[graph'.snaps[n].node].key = graph'.snaps[n].offer.key
    <3>1. n \in DOMAIN graph.snaps /\ graph'.snaps[n] = graph.snaps[n]
      BY <2>5
    <3>2. /\ Untaken(graph.snaps[n].node, graph.snaps[n].offer.key)
          /\ graph.snaps[n].node \in Here(graph) /\ graph.snaps[n].offer.key # NoKey
      BY <1>1, <3>1, OffersAreTyped DEF KeyInv
    <3> QED
      BY <2>9, <3>1, <3>2
  <2>11. \A q \in Runs : q # r => run'[q] = run[q]
    BY <1>0, <2>2
  <2>12. run'[r].at = "store" /\ run'[r].target = i /\ run'[r].offer = o
    BY <1>0, <2>2, <2>3 DEF RunState
  <2>13. ASSUME NEW q \in Runs,
               (run'[q].at = "write" /\ run'[q].target # NoNode /\ ~run'[q].byName) \/ run'[q].at = "store"
        PROVE  graph'.node[run'[q].target].taken \/ graph'.node[run'[q].target].key = run'[q].offer.key
    <3>1. CASE q = r
      BY <2>5, <2>12, <3>1
    <3>2. CASE q # r
      <4>1. run'[q] = run[q]
        BY <2>11, <3>2
      <4>2. Untaken(run[q].target, run[q].offer.key) /\ run[q].target \in Here(graph) /\ run[q].offer \in Offers
        BY <1>0, <2>13, <4>1 DEF KeyInv, Fine, Sound
      <4>3. run[q].offer.key # NoKey
        BY <4>2, OffersAreTyped
      <4> QED
        BY <2>9, <4>1, <4>2, <4>3
    <3> QED
      BY <3>1, <3>2
  <2> QED
    BY <2>7, <2>10, <2>13 DEF KeyInv, Untaken
<1> QED
  BY <1>3, <1>4, <1>5, <1>6, <1>7, KeySteps

-----------------------------------------------------------------------------
(* A best price moves only when a snapshot is stored for its product, and     *)
(* snapshots are only added.                                                  *)
LEMMA BestSteps ==
    ASSUME TypeOK, RunInv, [Next]_vars
    PROVE  \/ graph'.snaps = graph.snaps /\ \A i \in Ids : graph'.node[i].best = graph.node[i].best
           \/ \E r \in Runs :
                /\ Store(r) /\ run[r].target \in Ids /\ run[r].offer \in Offers /\ run[r].kind \in RunKinds
                /\ graph'.snaps = Append(graph.snaps, [node |-> run[r].target, offer |-> run[r].offer, by |-> run[r].kind])
                /\ \A j \in Ids : j # run[r].target => graph'.node[j] = graph.node[j]
                /\ graph'.node[run[r].target].best \in BestOf(graph', Candidates(graph', run[r].target, run[r].offer.region))
<1>0. run \in [Runs -> RunState] /\ \A q \in Runs : Fine(run[q], graph)
  BY RunsAreFine
<1>1. graph.node \in [Ids -> ProductNode] /\ graph.snaps \in Seq(Snapshot)
  BY DEF TypeOK
<1>2. CASE graph' = graph
  BY <1>2
<1>3. CASE \E r \in Runs : Finish(r)
  <2>1. PICK r \in Runs : Finish(r)
    BY <1>3
  <2>2. graph'.snaps = graph.snaps
    BY <2>1 DEF Finish, Staled
  <2>3. graph' = graph \/ \E j \in Ids : graph'.node = [graph.node EXCEPT ![j].stale = TRUE]
    BY <1>0, <2>1 DEF Finish, Staled, GivesUp, RunState
  <2>4. ASSUME NEW j \in Ids, graph'.node = [graph.node EXCEPT ![j].stale = TRUE], NEW i \in Ids
        PROVE  graph'.node[i].best = graph.node[i].best
    <3>1. graph.node[i] \in ProductNode
      BY <1>1
    <3>2. graph'.node[i] = graph.node[i] \/ graph'.node[i] = [graph.node[i] EXCEPT !.stale = TRUE]
      BY <1>1, <2>4
    <3> QED
      BY <3>1, <3>2 DEF ProductNode
  <2> QED
    BY <2>2, <2>3, <2>4
<1>4. CASE \E r \in Runs : Write(r)
  <2>1. PICK r \in Runs : Write(r)
    BY <1>4
  <2>2. PICK i \in Ids, byName \in BOOLEAN : graph' = Named(graph, i, run[r].offer, byName)
    BY <2>1, WriteTargets
  <2>3. run[r].offer \in Offers
    BY <1>0, <2>1 DEF Write, At, Fine
  <2>4. /\ graph'.snaps = graph.snaps
        /\ \A j \in Ids : j # i => graph'.node[j] = graph.node[j]
        /\ graph'.node[i].best = graph.node[i].best
    BY <2>2, <2>3, NamedKeeps
  <2> QED
    BY <2>4
<1>5. CASE \E r \in Runs : Store(r)
  <2>1. PICK r \in Runs : Store(r)
    BY <1>5
  <2>2. /\ run[r].target \in Ids /\ run[r].offer \in Offers /\ run[r].kind \in RunKinds
        /\ graph' \in Stored(graph, run[r].target, run[r].offer, run[r].kind)
    BY <1>0, <2>1 DEF Store, At, Fine, Sound, RunState
  <2>3. /\ graph'.snaps = Append(graph.snaps, [node |-> run[r].target, offer |-> run[r].offer, by |-> run[r].kind])
        /\ \A j \in Ids : j # run[r].target => graph'.node[j] = graph.node[j]
        /\ graph'.node[run[r].target].best \in BestOf(graph', Candidates(graph', run[r].target, run[r].offer.region))
    BY <2>2, StoredKeeps
  <2> QED
    BY <2>1, <2>2, <2>3
<1> QED
  BY <1>2, <1>3, <1>4, <1>5, GraphSteps

(* A best price that was chosen is one of the candidates.                     *)
LEMMA ChosenIsCandidate ==
    ASSUME NEW g, NEW i, NEW region, NEW best \in BestOf(g, Candidates(g, i, region))
    PROVE  /\ best # 0 => best \in Candidates(g, i, region)
           /\ best = 0 /\ g.snaps \in Seq(Snapshot) => Candidates(g, i, region) = {}
BY DEF BestOf, Candidates

LEMMA BestKeeps ==
    ASSUME TypeOK, RunInv, BestInv, [Next]_vars
    PROVE  BestInv'
<1>1. graph.node \in [Ids -> ProductNode] /\ graph.snaps \in Seq(Snapshot)
  BY DEF TypeOK
<1>2. CASE graph'.snaps = graph.snaps /\ \A i \in Ids : graph'.node[i].best = graph.node[i].best
  BY <1>2 DEF BestInv
<1>3. ASSUME NEW r \in Runs, run[r].target \in Ids, run[r].offer \in Offers, run[r].kind \in RunKinds,
             graph'.snaps = Append(graph.snaps, [node |-> run[r].target, offer |-> run[r].offer, by |-> run[r].kind]),
             \A j \in Ids : j # run[r].target => graph'.node[j] = graph.node[j],
             graph'.node[run[r].target].best \in BestOf(graph', Candidates(graph', run[r].target, run[r].offer.region))
      PROVE  BestInv'
  <2>1. ASSUME NEW i \in Ids, graph'.node[i].best # 0
        PROVE  /\ graph'.node[i].best \in DOMAIN graph'.snaps
               /\ graph'.snaps[graph'.node[i].best].node = i
               /\ Rankable(graph'.snaps[graph'.node[i].best])
    <3>1. CASE i = run[r].target
      <4>1. graph'.node[i].best \in Candidates(graph', i, run[r].offer.region)
        BY <1>3, <2>1, <3>1, ChosenIsCandidate
      <4> QED
        BY <4>1 DEF Candidates
    <3>2. CASE i # run[r].target
      <4>1. graph'.node[i] = graph.node[i]
        BY <1>3, <3>2
      <4>2. PICK b : b = graph.node[i].best
        OBVIOUS
      <4>3. b \in DOMAIN graph.snaps /\ graph.snaps[b].node = i /\ Rankable(graph.snaps[b])
        BY <2>1, <4>1, <4>2 DEF BestInv
      <4>4. b \in DOMAIN graph'.snaps /\ graph'.snaps[b] = graph.snaps[b]
        BY <1>1, <1>3, <4>3
      <4> QED
        BY <4>1, <4>2, <4>3, <4>4
    <3> QED
      BY <3>1, <3>2
  <2> QED
    BY <2>1 DEF BestInv
<1> QED
  BY <1>2, <1>3, BestSteps

LEMMA BestIsLostAbroad ==
    ASSUME TypeOK, RunInv, BestInv, [Next]_vars, NEW i \in Ids, graph.node[i].best # 0, graph'.node[i].best = 0
    PROVE  Last(graph'.snaps).offer.region # graph.snaps[graph.node[i].best].offer.region
<1>1. graph.snaps \in Seq(Snapshot)
  BY DEF TypeOK
<1>2. PICK r \in Runs :
        /\ run[r].target \in Ids /\ run[r].offer \in Offers /\ run[r].kind \in RunKinds
        /\ graph'.snaps = Append(graph.snaps, [node |-> run[r].target, offer |-> run[r].offer, by |-> run[r].kind])
        /\ \A j \in Ids : j # run[r].target => graph'.node[j] = graph.node[j]
        /\ graph'.node[run[r].target].best \in BestOf(graph', Candidates(graph', run[r].target, run[r].offer.region))
  BY BestSteps
<1>3. i = run[r].target
  BY <1>2
<1>4. PICK added : added = [node |-> run[r].target, offer |-> run[r].offer, by |-> run[r].kind]
  OBVIOUS
<1>5. added \in Snapshot /\ added.offer = run[r].offer
  BY <1>2, <1>4 DEF Snapshot
<1>6. graph'.snaps = Append(graph.snaps, added) /\ graph'.snaps \in Seq(Snapshot)
  BY <1>1, <1>2, <1>4, <1>5
<1>7. Candidates(graph', i, run[r].offer.region) = {}
  BY <1>2, <1>3, <1>6, ChosenIsCandidate
<1>8. Last(graph'.snaps) = added
  BY <1>1, <1>5, <1>6 DEF Last
<1>9. PICK b : b = graph.node[i].best
  OBVIOUS
<1>10. b \in DOMAIN graph.snaps /\ graph.snaps[b].node = i /\ Rankable(graph.snaps[b])
  BY <1>9 DEF BestInv
<1>11. b \in DOMAIN graph'.snaps /\ graph'.snaps[b] = graph.snaps[b]
  BY <1>1, <1>6, <1>10
<1> QED
  BY <1>5, <1>7, <1>8, <1>9, <1>10, <1>11 DEF Candidates

-----------------------------------------------------------------------------
(* A run that takes no part in what happens to the page: it goes on with the *)
(* same offer, or with one at another price than it read, or leaves it before *)
(* it has stored anything.                                                    *)
Calm(q) ==
    \/ run'[q] = run[q]
    \/ ~OnPage(q)' /\ (OnPage(q) => run[q].at \notin Storing)
    \/ /\ OnPage(q) /\ run'[q].kind = run[q].kind /\ run'[q].alone = run[q].alone
       /\ \/ run[q].at \in Storing /\ run'[q].at \in Storing /\ run'[q].offer = run[q].offer
          \/ run[q].at \in Fetched /\ run'[q].at \in Fetched /\ run'[q].offer = run[q].offer
          \/ run[q].at = "page" /\ run'[q].at = "find" /\ run'[q].offer.price # run[q].seen

LEMMA PageSteps ==
    ASSUME TypeOK, RunInv, [Next]_vars
    PROVE  \/ \E r \in Runs : Store(r) \/ Entry(r)
           \/ \E r \in Runs, s \in RunState :
                /\ At(r, "idle") /\ TakesPage(r, s) /\ graph' = graph /\ url' = url
                /\ s.kind \in {"ingest", "recheck"}
                /\ (s.at = "find" /\ s.kind = "ingest") \/ (s.at = "page" /\ s.seen = url.price)
           \/ \E r \in Runs :
                /\ OnPage(r) /\ ~OnPage(r)' /\ \A q \in Runs : q # r => run'[q] = run[q]
                /\ url'.torn /\ url'.price = url.price /\ graph' = graph
           \/ /\ \A q \in Runs : Calm(q)
              /\ (url'.torn <=> url.torn) /\ url'.price = url.price /\ graph'.snaps = graph.snaps
<1>0. run \in [Runs -> RunState] /\ \A q \in Runs : Fine(run[q], graph)
  BY RunsAreFine
<1>1. url \in [listed : BOOLEAN, price : Prices, region : Regions, failed : BOOLEAN, torn : BOOLEAN]
  BY DEF TypeOK
<1>2. CASE UNCHANGED vars
  BY <1>2 DEF vars, Calm
<1>3. ASSUME NEW r \in Runs, \A q \in Runs : q # r => run'[q] = run[q], Calm(r)
      PROVE  \A q \in Runs : Calm(q)
  BY <1>3 DEF Calm
<1>10. CASE \E r \in Runs : Schedule(r)
  <2>1. PICK r \in Runs : Schedule(r)
    BY <1>10
  <2>2. graph' = graph /\ url' = url /\ \A q \in Runs : q # r => run'[q] = run[q]
    BY <1>0, <2>1 DEF Schedule
  <2>3. run[r] = Idle
    BY <1>0, <2>1 DEF Schedule, At, Fine, Sound
  <2>4. run'[r].kind = "products"
    BY <1>0, <2>1 DEF Schedule, RunState
  <2> QED
    BY <1>3, <2>2, <2>3, <2>4 DEF Calm, OnPage, Idle
<1>11. CASE \E r \in Runs : Request(r)
  <2>1. PICK r \in Runs : Request(r)
    BY <1>11
  <2>2. graph' = graph /\ url' = url /\ \A q \in Runs : q # r => run'[q] = run[q]
    BY <1>0, <2>1 DEF Request
  <2>3. run[r] = Idle
    BY <1>0, <2>1 DEF Request, At, Fine, Sound
  <2>4. run'[r].kind \in {"products", "query"}
    BY <1>0, <2>1 DEF Request, RunState
  <2> QED
    BY <1>3, <2>2, <2>3, <2>4 DEF Calm, OnPage, Idle
<1>12. CASE \E r \in Runs : NextProduct(r)
  <2>1. PICK r \in Runs : NextProduct(r)
    BY <1>12
  <2>2. graph' = graph /\ url' = url /\ \A q \in Runs : q # r => run'[q] = run[q]
    BY <1>0, <2>1 DEF NextProduct
  <2>3. ~OnPage(r)
    BY <1>0, <2>1 DEF NextProduct, At, Fine, Sound, OnPage
  <2>4. run'[r].kind \in {"none", run[r].kind}
    BY <1>0, <2>1 DEF NextProduct, RunState, Idle
  <2> QED
    BY <1>3, <2>2, <2>3, <2>4 DEF Calm, OnPage
<1>13. CASE \E r \in Runs : Finish(r)
  <2>1. PICK r \in Runs : Finish(r)
    BY <1>13
  <2>2. graph'.snaps = graph.snaps /\ url' = url /\ \A q \in Runs : q # r => run'[q] = run[q]
    BY <1>0, <2>1 DEF Finish, Staled
  <2>3. ~OnPage(r)
    BY <1>0, <2>1 DEF Finish, At, Fine, Sound, OnPage
  <2>4. run'[r].kind = run[r].kind
    BY <1>0, <2>1 DEF Finish, RunState
  <2> QED
    BY <1>3, <2>2, <2>3, <2>4 DEF Calm, OnPage
<1>14. CASE \E r \in Runs, listing \in Listings : Take(r, listing)
  <2>1. PICK r \in Runs, listing \in Listings : Take(r, listing)
    BY <1>14
  <2>2. graph' = graph /\ url' = url /\ \A q \in Runs : q # r => run'[q] = run[q]
    BY <1>0, <2>1 DEF Take
  <2>3. ~OnPage(r)
    BY <1>0, <2>1 DEF Take, At, Fine, Sound, OnPage
  <2>4. run'[r].kind = run[r].kind
    BY <1>0, <2>1 DEF Take, RunState
  <2> QED
    BY <1>3, <2>2, <2>3, <2>4 DEF Calm, OnPage
<1>15. CASE \E r \in Runs : Find(r)
  <2>1. PICK r \in Runs : Find(r)
    BY <1>15
  <2>2. graph' = graph /\ url' = url /\ \A q \in Runs : q # r => run'[q] = run[q]
    BY <1>0, <2>1 DEF Find
  <2>3. /\ run[r].at = "find" /\ run'[r].at = "write" /\ run'[r].offer = run[r].offer
        /\ run'[r].kind = run[r].kind /\ run'[r].alone = run[r].alone
    BY <1>0, <2>1 DEF Find, At, RunState
  <2> QED
    BY <1>3, <2>2, <2>3 DEF Calm, OnPage, Fetched
<1>16. CASE \E r \in Runs : Write(r)
  <2>1. PICK r \in Runs : Write(r)
    BY <1>16
  <2>9. PICK i \in Ids, byName \in BOOLEAN :
          graph' = Named(graph, i, run[r].offer, byName) /\ run' = [run EXCEPT ![r].at = "store", ![r].target = i]
    BY <2>1, WriteTargets
  <2>2. graph'.snaps = graph.snaps /\ url' = url /\ \A q \in Runs : q # r => run'[q] = run[q]
    <3>1. run[r].offer \in Offers /\ url' = url
      BY <1>0, <2>1 DEF Write, At, Fine
    <3> QED
      BY <1>0, <2>9, <3>1, NamedKeeps
  <2>3. /\ run[r].at = "write" /\ run'[r].at = "store" /\ run'[r].offer = run[r].offer
        /\ run'[r].kind = run[r].kind /\ run'[r].alone = run[r].alone
    <3>1. run[r].at = "write" /\ run[r] \in RunState
      BY <1>0, <2>1 DEF Write, At
    <3> QED
      BY <1>0, <2>9, <3>1 DEF RunState
  <2> QED
    BY <1>3, <2>2, <2>3 DEF Calm, OnPage, Fetched
<1>17. CASE \E r \in Runs : Link(r)
  <2>1. PICK r \in Runs : Link(r)
    BY <1>17
  <2>2. graph' = graph /\ url' = url /\ \A q \in Runs : q # r => run'[q] = run[q]
    BY <1>0, <2>1 DEF Link
  <2>3. run[r].at = "link" /\ run'[r].kind = run[r].kind /\ run'[r].alone = run[r].alone
    BY <1>0, <2>1 DEF Link, At, RunState
  <2>4. OnPage(r) => run'[r].at = "entry" /\ run'[r].offer = run[r].offer
    BY <1>0, <2>1 DEF Link, RunState
  <2> QED
    BY <1>3, <2>2, <2>3, <2>4 DEF Calm, OnPage, Storing
<1>18. CASE \E r \in Runs : Raise(r) \/ KeyTaken(r)
  <2>1. PICK r \in Runs : Raise(r) \/ KeyTaken(r)
    BY <1>18
  <2>2. graph' = graph /\ GoOn(r) /\ \A q \in Runs : q # r => run'[q] = run[q]
    BY <1>0, <2>1 DEF Raise, KeyTaken, GoOn
  <2>3. OnPage(r) => ~OnPage(r)'
    BY <1>0, <2>2 DEF GoOn, OnPage, Idle
  <2>4. ~OnPage(r) => run'[r].kind = run[r].kind
    BY <1>0, <2>2 DEF GoOn, RunState
  <2>5. url'.price = url.price /\ (url'.torn <=> url.torn \/ (OnPage(r) /\ run[r].at \in Storing))
    BY <1>1, <2>2 DEF GoOn, Told, Storing
  <2>6. CASE OnPage(r) /\ run[r].at \in Storing
    BY <2>2, <2>3, <2>5, <2>6
  <2>7. CASE ~(OnPage(r) /\ run[r].at \in Storing)
    BY <1>3, <2>2, <2>3, <2>4, <2>5, <2>7 DEF Calm, OnPage
  <2> QED
    BY <2>6, <2>7
<1>19. CASE \E r \in Runs, listing \in Previews : PageRefused(r, listing) \/ PageUnchanged(r, listing)
  <2>1. PICK r \in Runs, listing \in Previews : PageRefused(r, listing) \/ PageUnchanged(r, listing)
    BY <1>19
  <2>2. graph' = graph /\ \A q \in Runs : q # r => run'[q] = run[q]
    BY <1>0, <2>1 DEF PageRefused, PageUnchanged
  <2>3. run[r].at = "page" /\ ~OnPage(r)'
    <3>1. run[r].at = "page" /\ run'[r] = Idle
      BY <1>0, <2>1 DEF PageRefused, PageUnchanged, At
    <3> QED
      BY <3>1 DEF OnPage, Idle
  <2>4. url'.price = url.price /\ url'.torn = url.torn
    BY <1>1, <2>1 DEF PageRefused, PageUnchanged, Told
  <2> QED
    BY <1>3, <2>2, <2>3, <2>4 DEF Calm, Storing
<1>20. CASE \E r \in Runs, listing \in Previews : PageChanged(r, listing)
  <2>1. PICK r \in Runs, listing \in Previews : PageChanged(r, listing)
    BY <1>20
  <2>2. graph' = graph /\ url' = url /\ \A q \in Runs : q # r => run'[q] = run[q]
    BY <1>0, <2>1 DEF PageChanged
  <2>3. /\ run[r].at = "page" /\ run'[r].at = "find" /\ run'[r].offer = Offer(run[r].region, listing)
        /\ run'[r].kind = run[r].kind /\ run'[r].alone = run[r].alone
    BY <1>0, <2>1 DEF PageChanged, At, RunState
  <2>4. OnPage(r) /\ run'[r].offer.price # run[r].seen
    BY <1>0, <2>1, <2>3 DEF PageChanged, SamePrice, Offer, OnPage, Fine, Sound
  <2> QED
    BY <1>3, <2>2, <2>3, <2>4 DEF Calm
<1>21. CASE \E r \in Runs : Recheck(r)
  <2> DEFINE s == [Idle EXCEPT !.kind = "recheck", !.at = "page", !.region = url.region, !.seen = url.price]
  <2>1. PICK r \in Runs : At(r, "idle") /\ TakesPage(r, s) /\ graph' = graph /\ url' = url
    BY <1>21 DEF Recheck
  <2>2. s \in RunState
    BY <1>1, IdleIsFine DEF Fine, RunState, RunKinds, Phases
  <2>3. s.kind = "recheck" /\ s.at = "page" /\ s.seen = url.price
    BY DEF Idle
  <2> HIDE DEF s
  <2> QED
    BY <2>1, <2>2, <2>3
<1>22. CASE \E r \in Runs, listing \in Previews : Ingest(r, listing)
  <2>1. PICK r \in Runs, listing \in Previews, region \in Regions :
          /\ At(r, "idle") /\ listing # NoOffer /\ graph' = graph /\ url' = url
          /\ TakesPage(r, [Idle EXCEPT !.kind = "ingest", !.at = "find", !.region = region, !.offer = Offer(region, listing)])
    BY <1>22 DEF Ingest
  <2> DEFINE s == [Idle EXCEPT !.kind = "ingest", !.at = "find", !.region = region, !.offer = Offer(region, listing)]
  <2>2. Offer(region, listing) \in Offers
    BY <2>1, OfferIsOffered DEF Previews
  <2>3. s \in RunState
    BY <2>2, IdleIsFine DEF Fine, RunState, RunKinds, Phases
  <2>4. s.kind = "ingest" /\ s.at = "find" /\ TakesPage(r, s)
    BY <2>1 DEF Idle
  <2>5. At(r, "idle") /\ graph' = graph /\ url' = url
    BY <2>1
  <2>6. s.kind \in {"ingest", "recheck"} /\ ((s.at = "find" /\ s.kind = "ingest") \/ (s.at = "page" /\ s.seen = url.price))
    <3>1. s.at = "find" /\ s.kind = "ingest"
      BY DEF Idle
    <3> HIDE DEF s
    <3> QED
      BY <3>1
  <2> HIDE DEF s
  <2> QED
    BY <2>3, <2>4, <2>5, <2>6
<1>23. CASE \E r \in Runs : Store(r) \/ Entry(r)
  BY <1>23
<1> QED
  BY <1>2, <1>10, <1>11, <1>12, <1>13, <1>14, <1>15, <1>16, <1>17, <1>18, <1>19, <1>20, <1>21, <1>22, <1>23 DEF Next

-----------------------------------------------------------------------------
(* What is said of a page's snapshots depends only on them.                   *)
LEMMA SamePages ==
    ASSUME PageSnaps' = PageSnaps, \A n \in PageSnaps : graph'.snaps[n] = graph.snaps[n]
    PROVE  /\ \A n \in PageSnaps : PriceOf(n)' = PriceOf(n)
           /\ \A n : Newest(n)' <=> Newest(n)
           /\ Changes' <=> Changes
<1>1. \A n \in PageSnaps : PriceOf(n)' = PriceOf(n)
  BY DEF PriceOf
<1>2. \A n : Newest(n)' <=> Newest(n)
  BY DEF Newest
<1>3. Changes' <=> Changes
  <2>1. Changes' <=>
          \A m, n \in PageSnaps :
            graph'.snaps[n].by = "recheck" /\ m < n /\ (\A k \in PageSnaps : k <= m \/ n <= k) => PriceOf(m)' # PriceOf(n)'
    BY DEF Changes, PriceOf
  <2> QED
    BY <1>1, <2>1 DEF Changes
<1> QED
  BY <1>1, <1>2, <1>3

LEMMA CalmKeeps ==
    ASSUME PageInv, PageSnaps' = PageSnaps, \A n \in PageSnaps : graph'.snaps[n] = graph.snaps[n],
           \A q \in Runs : Calm(q), url'.torn <=> url.torn, url'.price = url.price
    PROVE  PageInv'
<1>1. /\ \A n \in PageSnaps : PriceOf(n)' = PriceOf(n)
      /\ \A n : Newest(n)' <=> Newest(n)
      /\ Changes' <=> Changes
  BY SamePages
<1>2. Meets /\ (\A r \in Runs : OnPage(r) /\ run[r].alone => Knows(r)) /\ Hashed /\ Changed
  BY DEF PageInv
<1>3. \A q \in Runs :
        /\ OnPage(q)' => OnPage(q) /\ run'[q].alone = run[q].alone
        /\ OnPage(q) /\ run[q].at \in Storing => OnPage(q)' /\ run'[q].at \in Storing /\ run'[q].alone = run[q].alone
  BY DEF Calm, OnPage, Storing, Fetched
<1>4. Meets'
  BY <1>2, <1>3 DEF Meets
<1>5. ASSUME NEW q \in Runs, OnPage(q)', run'[q].alone PROVE Knows(q)'
  <2>0. OnPage(q) /\ run[q].alone /\ Knows(q)
    BY <1>2, <1>3, <1>5
  <2>1. run'[q].at \in Storing => \A n \in PageSnaps : Newest(n) => PriceOf(n) = run'[q].offer.price
    BY <1>5, <2>0 DEF Calm, Knows, Storing, Fetched
  <2>2. run'[q].at = "page" => run'[q].seen = url.price
    BY <1>5, <2>0 DEF Calm, Knows, Storing, Fetched
  <2>3. run'[q].kind = "recheck" /\ run'[q].at \in Fetched => run'[q].offer.price # url.price
    BY <1>5, <2>0 DEF Calm, Knows, Storing, Fetched
  <2>4. run'[q].at \in Storing => \A n \in PageSnaps' : Newest(n)' => PriceOf(n)' = run'[q].offer.price
    BY <1>1, <2>1
  <2> QED
    BY <2>2, <2>3, <2>4 DEF Knows
<1>6. Hashed'
  <2>1. SUFFICES ASSUME ~url'.torn, \A r \in Runs : OnPage(r)' => run'[r].at \notin Storing,
                        NEW n \in PageSnaps, Newest(n)
                 PROVE  PriceOf(n) = url.price
    BY <1>1 DEF Hashed
  <2>2. \A r \in Runs : OnPage(r) => run[r].at \notin Storing
    BY <1>3, <2>1
  <2> QED
    BY <1>2, <2>1, <2>2 DEF Hashed
<1>7. Changed'
  <2>1. SUFFICES ASSUME ~url'.torn, \A r \in Runs : OnPage(r)' /\ ~run'[r].alone => run'[r].at \notin Storing
                 PROVE  Changes
    BY <1>1 DEF Changed
  <2>2. \A r \in Runs : OnPage(r) /\ ~run[r].alone => run[r].at \notin Storing
    BY <1>3, <2>1
  <2> QED
    BY <1>2, <2>1, <2>2 DEF Changed
<1> QED
  BY <1>4, <1>5, <1>6, <1>7 DEF PageInv

(* A run that breaks off between snapshot and entry leaves the page torn.     *)
LEMMA TornKeeps ==
    ASSUME PageInv, NEW r \in Runs, OnPage(r), ~OnPage(r)', \A q \in Runs : q # r => run'[q] = run[q],
           url'.torn, url'.price = url.price, graph' = graph
    PROVE  PageInv'
<1>1. /\ PageSnaps' = PageSnaps
      /\ \A n \in PageSnaps : PriceOf(n)' = PriceOf(n)
      /\ \A n : Newest(n)' <=> Newest(n)
  BY DEF PageSnaps, PriceOf, Newest
<1>2. Meets /\ (\A q \in Runs : OnPage(q) /\ run[q].alone => Knows(q))
  BY DEF PageInv
<1>3. \A q \in Runs : OnPage(q)' => q # r /\ OnPage(q) /\ run'[q] = run[q]
  BY DEF OnPage
<1>4. Meets'
  BY <1>2, <1>3 DEF Meets
<1>5. ASSUME NEW q \in Runs, OnPage(q)', run'[q].alone PROVE Knows(q)'
  <2>1. Knows(q) /\ run'[q] = run[q]
    BY <1>2, <1>3, <1>5
  <2> QED
    BY <1>1, <2>1 DEF Knows
<1> QED
  BY <1>4, <1>5 DEF PageInv, Hashed, Changed

LEMMA TakenKeeps ==
    ASSUME TypeOK, RunInv, PageInv, NEW r \in Runs, NEW s \in RunState, At(r, "idle"), TakesPage(r, s),
           graph' = graph, url' = url, s.kind \in {"ingest", "recheck"},
           (s.at = "find" /\ s.kind = "ingest") \/ (s.at = "page" /\ s.seen = url.price)
    PROVE  PageInv'
<1>0. run \in [Runs -> RunState] /\ \A q \in Runs : Fine(run[q], graph)
  BY RunsAreFine
<1>1. /\ PageSnaps' = PageSnaps
      /\ \A n \in PageSnaps : PriceOf(n)' = PriceOf(n)
      /\ \A n : Newest(n)' <=> Newest(n)
      /\ Changes' <=> Changes
  <2>1. PageSnaps' = PageSnaps /\ \A n \in PageSnaps : graph'.snaps[n] = graph.snaps[n]
    BY DEF PageSnaps
  <2> QED
    BY <2>1, SamePages
<1>2. Meets /\ Hashed /\ Changed
  BY DEF PageInv
<1>3. ~OnPage(r)
  BY <1>0 DEF OnPage, At, Fine, Sound, Idle
<1>4. PICK b \in BOOLEAN : b = ({q \in Runs \ {r} : OnPage(q)} = {})
  OBVIOUS
<1>5. /\ run'[r].kind = s.kind /\ run'[r].at = s.at /\ run'[r].seen = s.seen /\ run'[r].alone = b
  <2>1. run'[r] = [s EXCEPT !.alone = b]
    BY <1>4 DEF TakesPage
  <2> QED
    BY <2>1 DEF RunState
<1>6. ASSUME NEW q \in Runs, q # r, OnPage(q)
      PROVE  run'[q].at = run[q].at /\ run'[q].kind = run[q].kind /\ ~run'[q].alone
  <2>1. run'[q] = [run[q] EXCEPT !.alone = FALSE]
    BY <1>6 DEF TakesPage
  <2> QED
    BY <1>0, <2>1 DEF RunState
<1>7. ASSUME NEW q \in Runs, q # r, ~OnPage(q) PROVE run'[q] = run[q]
  BY <1>7 DEF TakesPage
<1>8. \A q \in Runs : q # r => (OnPage(q)' <=> OnPage(q))
  BY <1>6, <1>7 DEF OnPage
<1>9. Meets'
  BY <1>4, <1>5, <1>6, <1>8 DEF Meets
<1>10. ASSUME NEW q \in Runs, OnPage(q)', run'[q].alone PROVE Knows(q)'
  <2>1. q = r
    BY <1>6, <1>8, <1>10
  <2> QED
    BY <1>5, <2>1 DEF Knows, Storing, Fetched
<1>11. Hashed'
  <2>1. SUFFICES ASSUME ~url.torn, \A q \in Runs : OnPage(q)' => run'[q].at \notin Storing,
                        NEW n \in PageSnaps, Newest(n)
                 PROVE  PriceOf(n) = url.price
    BY <1>1 DEF Hashed
  <2>2. \A q \in Runs : OnPage(q) => run[q].at \notin Storing
    BY <1>3, <1>6, <1>8, <2>1
  <2> QED
    BY <1>2, <2>1, <2>2 DEF Hashed
<1>12. Changed'
  <2>1. SUFFICES ASSUME ~url.torn, \A q \in Runs : OnPage(q)' /\ ~run'[q].alone => run'[q].at \notin Storing
                 PROVE  Changes
    BY <1>1 DEF Changed
  <2>2. \A q \in Runs : OnPage(q) /\ ~run[q].alone => run[q].at \notin Storing
    BY <1>3, <1>6, <1>8, <2>1
  <2> QED
    BY <1>2, <2>1, <2>2 DEF Changed
<1> QED
  BY <1>9, <1>10, <1>11, <1>12 DEF PageInv

(* A snapshot that is not of the page leaves what is said of the page's.      *)
LEMMA StoredElsewhere ==
    ASSUME graph.snaps \in Seq(Snapshot), NEW s \in Snapshot, graph'.snaps = Append(graph.snaps, s),
           s.by \notin {"ingest", "recheck"}
    PROVE  PageSnaps' = PageSnaps /\ \A n \in PageSnaps : graph'.snaps[n] = graph.snaps[n]
<1>1. DOMAIN graph'.snaps = DOMAIN graph.snaps \cup {Len(graph.snaps) + 1}
  OBVIOUS
<1>2. \A n \in DOMAIN graph.snaps : graph'.snaps[n] = graph.snaps[n]
  OBVIOUS
<1>3. graph'.snaps[Len(graph.snaps) + 1] = s /\ Len(graph.snaps) + 1 \notin DOMAIN graph.snaps
  OBVIOUS
<1> QED
  BY <1>1, <1>2, <1>3 DEF PageSnaps

(* One that is of the page is its newest.                                     *)
LEMMA StoredOnPage ==
    ASSUME graph.snaps \in Seq(Snapshot), NEW s \in Snapshot, graph'.snaps = Append(graph.snaps, s),
           s.by \in {"ingest", "recheck"}
    PROVE  /\ PageSnaps' = PageSnaps \cup {Len(graph.snaps) + 1}
           /\ \A n \in PageSnaps : graph'.snaps[n] = graph.snaps[n] /\ n \in Nat /\ n <= Len(graph.snaps)
           /\ graph'.snaps[Len(graph.snaps) + 1] = s
<1>1. DOMAIN graph'.snaps = DOMAIN graph.snaps \cup {Len(graph.snaps) + 1}
  OBVIOUS
<1>2. \A n \in DOMAIN graph.snaps : graph'.snaps[n] = graph.snaps[n] /\ n \in Nat /\ n <= Len(graph.snaps)
  OBVIOUS
<1>3. graph'.snaps[Len(graph.snaps) + 1] = s /\ Len(graph.snaps) + 1 \notin DOMAIN graph.snaps
  OBVIOUS
<1> QED
  BY <1>1, <1>2, <1>3 DEF PageSnaps

LEMMA StoreKeepsPage ==
    ASSUME TypeOK, RunInv, PageInv, NEW r \in Runs, Store(r)
    PROVE  PageInv'
<1>0. run \in [Runs -> RunState] /\ \A q \in Runs : Fine(run[q], graph)
  BY RunsAreFine
<1>1. /\ run[r].target \in Ids /\ run[r].offer \in Offers /\ run[r].kind \in RunKinds /\ run[r].at = "store"
      /\ graph' \in Stored(graph, run[r].target, run[r].offer, run[r].kind)
  BY <1>0 DEF Store, At, Fine, Sound, RunState
<1>2. PICK s \in Snapshot : s = [node |-> run[r].target, offer |-> run[r].offer, by |-> run[r].kind]
  BY <1>1 DEF Snapshot
<1>3. s.by = run[r].kind /\ s.offer = run[r].offer
  BY <1>2
<1>4. graph.snaps \in Seq(Snapshot) /\ graph'.snaps = Append(graph.snaps, s)
  BY <1>1, <1>2, StoredKeeps DEF TypeOK
<1>5. url' = url /\ \A q \in Runs : q # r => run'[q] = run[q]
  BY <1>0 DEF Store
<1>6. run'[r].at = "link" /\ run'[r].offer = run[r].offer /\ run'[r].kind = run[r].kind /\ run'[r].alone = run[r].alone
  BY <1>0 DEF Store, RunState
<1>7. CASE ~OnPage(r)
  <2>1. PageSnaps' = PageSnaps /\ \A n \in PageSnaps : graph'.snaps[n] = graph.snaps[n]
    BY <1>3, <1>4, <1>7, StoredElsewhere DEF OnPage
  <2>2. \A q \in Runs : Calm(q)
    BY <1>5, <1>6, <1>7 DEF Calm, OnPage
  <2> QED
    BY <1>5, <2>1, <2>2, CalmKeeps
<1>8. CASE OnPage(r)
  <2> DEFINE new == Len(graph.snaps) + 1
  <2>1. /\ PageSnaps' = PageSnaps \cup {new}
        /\ \A n \in PageSnaps : graph'.snaps[n] = graph.snaps[n] /\ n \in Nat /\ n <= Len(graph.snaps)
        /\ graph'.snaps[new] = s
    BY <1>3, <1>4, <1>8, StoredOnPage DEF OnPage
  <2>2. PICK last \in Nat : last = Len(graph.snaps)
    BY <1>4
  <2>3. /\ PageSnaps' = PageSnaps \cup {last + 1}
        /\ \A n \in PageSnaps : graph'.snaps[n] = graph.snaps[n] /\ n \in Nat /\ n <= last
        /\ graph'.snaps[last + 1] = s
    BY <2>1, <2>2
  <2> HIDE DEF new
  <2>4. \A n \in PageSnaps : PriceOf(n)' = PriceOf(n)
    BY <2>3 DEF PriceOf
  <2>5. PriceOf(last + 1)' = run[r].offer.price
    <3>1. graph'.snaps[last + 1].offer.price = run[r].offer.price
      BY <1>3, <2>3
    <3> QED
      BY <3>1 DEF PriceOf
  <2>6. \A q \in Runs : OnPage(q)' <=> OnPage(q)
    BY <1>5, <1>6 DEF OnPage
  <2>7. Meets'
    BY <1>5, <1>6, <2>6 DEF PageInv, Meets
  <2>8. ASSUME NEW q \in Runs, OnPage(q)', run'[q].alone PROVE Knows(q)'
    <3>1. q = r
      BY <1>5, <1>6, <1>8, <2>6, <2>8 DEF PageInv, Meets
    <3>2. ASSUME NEW n \in PageSnaps', Newest(n)' PROVE PriceOf(n)' = run'[q].offer.price
      <4>1. last + 1 <= n
        BY <2>3, <3>2 DEF Newest
      <4>2. n = last + 1
        BY <2>3, <4>1
      <4> QED
        BY <1>6, <2>5, <3>1, <4>2
    <3> QED
      BY <1>6, <3>1, <3>2 DEF Knows, Fetched
  <2>9. Hashed'
    BY <1>6, <1>8, <2>6 DEF Hashed, Storing
(* Only a run that is alone may store on a page that is not torn: then the   *)
(* newest snapshot has the price of the entry, and the run brings another.   *)
  <2>10. Changed'
    <3>1. SUFFICES ASSUME ~url.torn, \A q \in Runs : OnPage(q)' /\ ~run'[q].alone => run'[q].at \notin Storing
                   PROVE  Changes'
      BY <1>5 DEF Changed
    <3>2. run[r].alone
      BY <1>6, <1>8, <2>6, <3>1 DEF Storing
    <3>3. \A q \in Runs : OnPage(q) => q = r
      BY <1>8, <3>2 DEF PageInv, Meets
    <3>4. \A n \in PageSnaps : Newest(n) => PriceOf(n) = url.price
      BY <1>1, <3>1, <3>3 DEF PageInv, Hashed, Storing
    <3>5. Changes
      BY <3>1, <3>2, <3>3 DEF PageInv, Changed
    <3>6. run[r].kind = "recheck" => run[r].offer.price # url.price
      BY <1>1, <1>8, <3>2 DEF PageInv, Knows, Fetched
    <3>7. ASSUME NEW m \in PageSnaps', NEW n \in PageSnaps', graph'.snaps[n].by = "recheck", m < n,
                 \A k \in PageSnaps' : k <= m \/ n <= k
          PROVE  PriceOf(m)' # PriceOf(n)'
      <4>1. CASE n \in PageSnaps
        <5>1. m \in PageSnaps
          BY <2>3, <3>7, <4>1
        <5>2. graph.snaps[n].by = "recheck" /\ \A k \in PageSnaps : k <= m \/ n <= k
          BY <2>3, <3>7, <4>1
        <5>3. PriceOf(m) # PriceOf(n)
          BY <3>5, <3>7, <4>1, <5>1, <5>2 DEF Changes
        <5> QED
          BY <2>4, <4>1, <5>1, <5>3
      <4>2. CASE n \notin PageSnaps
        <5>1. n = last + 1 /\ m \in PageSnaps
          BY <2>3, <3>7, <4>2
        <5>2. run[r].kind = "recheck"
          BY <1>3, <2>3, <3>7, <5>1
        <5>3. \A k \in PageSnaps : k <= m
          BY <2>3, <3>7, <5>1
        <5>4. PriceOf(m) = url.price
          BY <3>4, <5>1, <5>3 DEF Newest
        <5> QED
          BY <2>4, <2>5, <3>6, <5>1, <5>2, <5>4
      <4> QED
        BY <4>1, <4>2
    <3> QED
      BY <3>7 DEF Changes, PriceOf
  <2> QED
    BY <2>7, <2>8, <2>9, <2>10 DEF PageInv
<1> QED
  BY <1>7, <1>8

LEMMA EntryKeepsPage ==
    ASSUME TypeOK, RunInv, PageInv, NEW r \in Runs, Entry(r)
    PROVE  PageInv'
<1>0. run \in [Runs -> RunState] /\ \A q \in Runs : Fine(run[q], graph)
  BY RunsAreFine
<1>1. run[r].at = "entry" /\ OnPage(r) /\ graph' = graph
  BY <1>0 DEF Entry, At, Fine, Sound, OnPage
<1>2. url'.price = run[r].offer.price /\ (url'.torn <=> url.torn \/ ~run[r].alone)
  BY DEF Entry
<1>3. ~OnPage(r)' /\ \A q \in Runs : q # r => run'[q] = run[q]
  <2>1. run' = [run EXCEPT ![r] = Idle]
    BY DEF Entry
  <2>2. run'[r] = Idle
    BY <1>0, <2>1
  <2> QED
    BY <1>0, <2>1, <2>2 DEF OnPage, Idle
<1>4. /\ PageSnaps' = PageSnaps
      /\ \A n \in PageSnaps : PriceOf(n)' = PriceOf(n)
      /\ \A n : Newest(n)' <=> Newest(n)
      /\ Changes' <=> Changes
  <2>1. PageSnaps' = PageSnaps /\ \A n \in PageSnaps : graph'.snaps[n] = graph.snaps[n]
    BY <1>1 DEF PageSnaps
  <2> QED
    BY <2>1, SamePages
<1>5. \A q \in Runs : OnPage(q)' => q # r /\ OnPage(q) /\ run'[q] = run[q]
  BY <1>3 DEF OnPage
<1>6. \A q \in Runs : OnPage(q)' => ~run'[q].alone
  BY <1>1, <1>5 DEF PageInv, Meets
<1>7. ~url'.torn => ~url.torn /\ run[r].alone
  BY <1>2
<1>8. Hashed'
  <2>1. SUFFICES ASSUME ~url'.torn, NEW n \in PageSnaps, Newest(n) PROVE PriceOf(n) = url'.price
    BY <1>4 DEF Hashed
  <2> QED
    BY <1>1, <1>2, <1>7, <2>1 DEF PageInv, Knows, Storing
<1>9. Changed'
  <2>1. SUFFICES ASSUME ~url'.torn PROVE Changes
    BY <1>4 DEF Changed
  <2>2. \A q \in Runs : OnPage(q) => q = r
    BY <1>1, <1>7, <2>1 DEF PageInv, Meets
  <2> QED
    BY <1>7, <2>1, <2>2 DEF PageInv, Changed
<1> QED
  BY <1>6, <1>8, <1>9 DEF PageInv, Meets

LEMMA PageKeeps ==
    ASSUME TypeOK, RunInv, PageInv, [Next]_vars
    PROVE  PageInv'
<1>1. CASE \E r \in Runs : Store(r) \/ Entry(r)
  BY <1>1, StoreKeepsPage, EntryKeepsPage
<1>2. CASE \E r \in Runs, s \in RunState :
             /\ At(r, "idle") /\ TakesPage(r, s) /\ graph' = graph /\ url' = url
             /\ s.kind \in {"ingest", "recheck"}
             /\ (s.at = "find" /\ s.kind = "ingest") \/ (s.at = "page" /\ s.seen = url.price)
  BY <1>2, TakenKeeps
<1>3. CASE \E r \in Runs :
             /\ OnPage(r) /\ ~OnPage(r)' /\ \A q \in Runs : q # r => run'[q] = run[q]
             /\ url'.torn /\ url'.price = url.price /\ graph' = graph
  BY <1>3, TornKeeps
<1>4. CASE /\ \A q \in Runs : Calm(q)
           /\ (url'.torn <=> url.torn) /\ url'.price = url.price /\ graph'.snaps = graph.snaps
  <2>1. PageSnaps' = PageSnaps /\ \A n \in PageSnaps : graph'.snaps[n] = graph.snaps[n]
    BY <1>4 DEF PageSnaps
  <2> QED
    BY <1>4, <2>1, CalmKeeps
<1> QED
  BY <1>1, <1>2, <1>3, <1>4, PageSteps

-----------------------------------------------------------------------------
(* Only the end of its records takes a run from them to the next product.     *)
LEMMA OnlyFinishes ==
    ASSUME TypeOK, [Next]_vars, NEW r \in Runs, run[r].at = "records", run'[r].at = "next"
    PROVE  Finish(r)
<1>0. run \in [Runs -> RunState] /\ run[r] \in RunState
  BY DEF TypeOK
<1>1. ASSUME NEW q \in Runs, q # r, NEW s, run' = [run EXCEPT ![q] = s] PROVE FALSE
  BY <1>0, <1>1
<1>2. ASSUME NEW q \in Runs, Schedule(q) PROVE FALSE
  BY <1>0, <1>2 DEF Schedule, At
<1>3. ASSUME NEW q \in Runs, Request(q) PROVE FALSE
  BY <1>0, <1>3 DEF Request, At
<1>4. ASSUME NEW q \in Runs, NextProduct(q) PROVE FALSE
  BY <1>0, <1>4 DEF NextProduct, At
<1>5. ASSUME NEW q \in Runs, Finish(q) PROVE q = r
  BY <1>0, <1>5 DEF Finish, At
<1>6. ASSUME NEW q \in Runs, NEW s, At(q, "idle"), TakesPage(q, s) PROVE FALSE
  <2>1. q # r
    BY <1>6 DEF At
  <2>2. run'[r] = run[r] \/ run'[r] = [run[r] EXCEPT !.alone = FALSE]
    BY <1>6, <2>1 DEF TakesPage
  <2> QED
    BY <1>0, <2>2 DEF RunState
<1>7. ASSUME NEW q \in Runs, Find(q) \/ Store(q) \/ Link(q) \/ Entry(q) PROVE FALSE
  <2>1. q # r /\ run'[r] = run[r]
    BY <1>0, <1>7 DEF Find, Store, Link, Entry, At
  <2> QED
    BY <2>1
<1>8. ASSUME NEW q \in Runs, Write(q) PROVE FALSE
  <2>1. q # r
    BY <1>8 DEF Write, At
  <2>2. run'[r] = run[r]
    BY <1>0, <1>8, <2>1 DEF Write
  <2> QED
    BY <2>2
<1>9. ASSUME NEW q \in Runs, Raise(q) \/ KeyTaken(q) PROVE FALSE
  <2>1. q # r /\ GoOn(q)
    BY <1>9 DEF Raise, KeyTaken, At
  <2>2. run'[r] = run[r]
    BY <1>0, <2>1 DEF GoOn
  <2> QED
    BY <2>2
<1>10. ASSUME NEW q \in Runs, NEW listing \in Listings, Take(q, listing) PROVE FALSE
  <2>1. run'[q].at = "find" /\ \A p \in Runs : p # q => run'[p] = run[p]
    BY <1>0, <1>10 DEF Take, RunState
  <2> QED
    BY <2>1
<1>11. ASSUME NEW q \in Runs, NEW listing, PageRefused(q, listing) \/ PageUnchanged(q, listing) \/ PageChanged(q, listing)
       PROVE  FALSE
  <2>1. q # r /\ \A p \in Runs : p # q => run'[p] = run[p]
    BY <1>0, <1>11 DEF PageRefused, PageUnchanged, PageChanged, At
  <2> QED
    BY <2>1
<1>12. ASSUME NEW q \in Runs, NEW listing, Ingest(q, listing) PROVE FALSE
  BY <1>6, <1>12 DEF Ingest
<1>13. ASSUME NEW q \in Runs, Recheck(q) PROVE FALSE
  BY <1>6, <1>13 DEF Recheck
<1>14. CASE UNCHANGED vars
  BY <1>14 DEF vars
<1> QED
  BY <1>2, <1>3, <1>4, <1>5, <1>7, <1>8, <1>9, <1>10, <1>11, <1>12, <1>13, <1>14 DEF Next

LEMMA EndIsEarned ==
    ASSUME TypeOK, RunInv, [Next]_vars
    PROVE  StaleEarned
<1> SUFFICES ASSUME NEW r \in Runs, run[r].about # NoNode, run[r].at = "records", run'[r].at = "next"
             PROVE  /\ ~run[r].stored => graph'.node[run[r].about].stale
                    /\ run[r].stored => \/ run[r].broke
                                        \/ graph'.node[run[r].about].stale = graph.node[run[r].about].stale
  BY DEF StaleEarned
<1>1. Finish(r)
  BY OnlyFinishes
<1>2. run[r] \in RunState /\ Sound(run[r])
  BY DEF TypeOK, RunInv
<1>3. run[r].about \in Ids
  BY <1>2 DEF RunState
<1>4. CASE ~run[r].stored
  <2>1. graph' = Staled(graph, run[r].about)
    BY <1>1, <1>2, <1>4 DEF Sound, GivesUp, Finish
  <2>2. graph'.node = [graph.node EXCEPT ![run[r].about].stale = TRUE] /\ graph.node \in [Ids -> ProductNode]
    BY <2>1 DEF Staled, TypeOK
  <2>3. graph.node[run[r].about] \in ProductNode
    BY <1>3, <2>2
  <2> QED
    BY <1>3, <1>4, <2>2, <2>3 DEF ProductNode
<1>5. CASE run[r].stored /\ ~run[r].broke
  BY <1>1, <1>2, <1>5 DEF Sound, GivesUp, Finish
<1> QED
  BY <1>4, <1>5

-----------------------------------------------------------------------------
LEMMA Initially == ASSUME Init PROVE PricesInv
<1>1. \A i \in Ids : /\ graph.node[i] \in ProductNode /\ graph.node[i].key = NoKey /\ graph.node[i].best = 0
                     /\ (graph.node[i].here <=> i \in Seeds)
  <2>1. Fresh \in ProductNode
    BY DEF Fresh, ProductNode, Keys, Names
  <2>2. [Fresh EXCEPT !.here = TRUE, !.name = SeedName] \in ProductNode
    BY DEF Fresh, ProductNode, Keys, Names
  <2>3. ASSUME NEW i \in Ids, i \in Seeds PROVE graph.node[i] = [Fresh EXCEPT !.here = TRUE, !.name = SeedName]
    BY <2>3 DEF Init
  <2>4. ASSUME NEW i \in Ids, i \notin Seeds PROVE graph.node[i] = Fresh
    BY <2>4 DEF Init
  <2>5. Fresh.key = NoKey /\ Fresh.best = 0 /\ ~Fresh.here
    BY DEF Fresh
  <2>6. PICK seed : seed = [Fresh EXCEPT !.here = TRUE, !.name = SeedName]
    OBVIOUS
  <2>7. seed.key = NoKey /\ seed.best = 0 /\ seed.here
    BY <2>6 DEF Fresh
  <2> QED
    BY <2>1, <2>2, <2>3, <2>4, <2>5, <2>6, <2>7
<1>2. graph = [node |-> graph.node, snaps |-> <<>>] /\ graph.node = [i \in Ids |-> graph.node[i]] /\ graph.snaps = <<>>
  BY DEF Init
<1>3. run = [r \in Runs |-> Idle] /\ \A r \in Runs : run[r] = Idle /\ Fine(Idle, graph)
  BY IdleIsFine DEF Init
<1>4. TypeOK
  <2>1. graph.node \in [Ids -> ProductNode]
    BY <1>1, <1>2
  <2>2. graph \in [node : [Ids -> ProductNode], snaps : Seq(Snapshot)] /\ DOMAIN graph.snaps = {}
    <3>1. <<>> \in Seq(Snapshot) /\ DOMAIN <<>> = {}
      OBVIOUS
    <3> QED
      BY <1>2, <2>1, <3>1
  <2>3. url \in [listed : BOOLEAN, price : Prices, region : Regions, failed : BOOLEAN, torn : BOOLEAN]
    BY DEF Init, Prices
  <2>4. faults \in 0..MaxFaults
    BY DEF Init
  <2> QED
    BY <1>3, <2>2, <2>3, <2>4 DEF TypeOK, Fine
<1>5. RunInv
  BY <1>3 DEF RunInv, Fine
<1>6. KeyInv
  BY <1>1, <1>2, <1>3 DEF KeyInv, Here, Idle
<1>7. BestInv
  BY <1>1 DEF BestInv
<1>8. PageInv
  <2>1. \A r \in Runs : ~OnPage(r)
    BY <1>3 DEF OnPage, Idle
  <2>2. PageSnaps = {}
    BY <1>2 DEF PageSnaps
  <2> QED
    BY <2>1, <2>2 DEF PageInv, Meets, Hashed, Changed, Changes
<1> QED
  BY <1>4, <1>5, <1>6, <1>7, <1>8 DEF PricesInv

(* The inductive invariant, whichever runs overlap and whatever raises.       *)
LEMMA PricesHold == Spec => []PricesInv
<1>1. Init => PricesInv
  BY Initially
<1>2. PricesInv /\ [Next]_vars => PricesInv'
  <2> SUFFICES ASSUME PricesInv, [Next]_vars PROVE PricesInv'
    OBVIOUS
  <2>1. TypeOK /\ RunInv /\ KeyInv /\ BestInv /\ PageInv
    BY DEF PricesInv
  <2>2. TypeOK' /\ RunInv'
    BY <2>1, TypeKeeps
  <2>3. KeyInv'
    BY <2>1, KeyKeeps
  <2>4. BestInv'
    BY <2>1, BestKeeps
  <2>5. PageInv'
    BY <2>1, PageKeeps
  <2> QED
    BY <2>2, <2>3, <2>4, <2>5 DEF PricesInv
<1> QED
  BY <1>1, <1>2, PTL DEF Spec

(* upsert_offer: whichever runs find, write and store at once, no two nodes   *)
(* have one canonical key, the snapshots of a key lie on one node and those of *)
(* a node have one key, unless a run that found a node by its name gave it     *)
(* another key; and a best price is a snapshot of its node.                    *)
THEOREM IdentitiesAreKept == Spec => []IdentitiesHold
<1>1. PricesInv => IdentitiesHold
  <2> SUFFICES ASSUME PricesInv PROVE OneNodePerIdentity
    BY DEF PricesInv, IdentitiesHold
  <2>1. TypeOK /\ KeyInv /\ BestInv
    BY DEF PricesInv
  <2>2. \A n \in DOMAIN graph.snaps :
          /\ graph.snaps[n].node \in Here(graph) /\ graph.snaps[n].offer.key # NoKey
          /\ Untaken(graph.snaps[n].node, graph.snaps[n].offer.key)
    <3>1. SUFFICES ASSUME NEW n \in DOMAIN graph.snaps
                   PROVE  /\ graph.snaps[n].node \in Here(graph) /\ graph.snaps[n].offer.key # NoKey
                          /\ Untaken(graph.snaps[n].node, graph.snaps[n].offer.key)
      OBVIOUS
    <3>2. graph.snaps[n] \in Snapshot
      BY <2>1, <3>1 DEF TypeOK
    <3> QED
      BY <2>1, <3>1, <3>2, OffersAreTyped DEF TypeOK, Here, Snapshot, KeyInv
  <2>3. ASSUME NEW m \in DOMAIN graph.snaps, NEW n \in DOMAIN graph.snaps,
               ~graph.node[graph.snaps[m].node].taken, ~graph.node[graph.snaps[n].node].taken
        PROVE  graph.snaps[m].offer.key = graph.snaps[n].offer.key <=> graph.snaps[m].node = graph.snaps[n].node
    BY <2>1, <2>2, <2>3 DEF KeyInv, Untaken
  <2> QED
    BY <2>1, <2>3 DEF OneNodePerIdentity, KeyInv, BestInv
<1> QED
  BY <1>1, PricesHold, PTL

(* ProductURLCollector.refresh: unless two runs had the page at once or one   *)
(* broke off between snapshot and entry, the entry has the price of the newest *)
(* snapshot, and no recheck stored the price that was already the newest.      *)
THEOREM PageIsStoredOnce == Spec => []PageStoredOnce
<1>1. PricesInv => PageStoredOnce
  BY DEF PricesInv, PageInv, Hashed, Changed, Changes, Newest, Storing, PageStoredOnce
<1> QED
  BY <1>1, PricesHold, PTL

(* refresh_product: a refresh marks its product stale exactly if it stored no *)
(* snapshot, or lost one to a query that raised, whatever the others do.       *)
THEOREM StaleIsDeserved == Spec => StaleIsEarned
<1>1. PricesInv /\ [Next]_vars => [StaleEarned]_vars
  BY EndIsEarned DEF PricesInv
<1> QED
  BY <1>1, PricesHold, PTL DEF Spec, StaleIsEarned

(* upsert_offer: a product loses its best price only when an offer of another *)
(* region is stored for it.                                                    *)
THEOREM BestIsKeptAtHome == Spec => BestLostOnlyAbroad
<1>1. PricesInv /\ [Next]_vars => [LostAbroad]_vars
  BY BestIsLostAbroad DEF PricesInv, LostAbroad
<1> QED
  BY <1>1, PricesHold, PTL DEF Spec, BestLostOnlyAbroad
=============================================================================
