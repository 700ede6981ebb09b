----------------------------- MODULE PriceRefresh -----------------------------
(***************************************************************************)
(* Prices are brought up to date by runs that overlap: the job worker, the  *)
(* handlers that are asked to wait, imports of a product page and the       *)
(* recheck of the pages already known.  Each goes through its records one   *)
(* by one and stores an accepted one with four queries: find the product,   *)
(* write it, add the snapshot, link the families.  Any query may raise.     *)
(***************************************************************************)
EXTENDS PriceGraph

CONSTANTS
    Runs,
    Seeds,          \* ids of the Components that are there from the start
    SeedName,
    Listings,       \* what the sources return, as offers without their region
    Pages,          \* what the one product page shows: listings
    Regions,
    SchedulerRegion,
    WindowLimit,
    NoOffer,
    MaxSnaps, MaxFaults     \* bounds

ASSUME SeedsAssumption == Seeds \subseteq Ids /\ SchedulerRegion \in Regions
ASSUME BoundsAssumption == MaxSnaps \in Nat /\ MaxFaults \in Nat /\ WindowLimit \in Nat \ {0}
ASSUME ListingsAssumption ==
    NoOffer \notin Listings \cup Pages /\ \A listing \in Listings \cup Pages : listing.key # NoKey

VARIABLES
    graph,
    url,        \* the ProductURL of the page
    run,
    faults

vars == <<graph, url, run, faults>>

-----------------------------------------------------------------------------
Idle == [kind |-> "none", at |-> "idle", region |-> SchedulerRegion, todo |-> <<>>, about |-> NoNode,
         offer |-> NoOffer, target |-> NoNode, byName |-> FALSE, accepted |-> FALSE, seen |-> 0,
         stored |-> FALSE,   \* history: a snapshot was added since the product was taken up
         broke |-> FALSE,    \* history: a query raised after its snapshot was stored
         alone |-> TRUE]     \* history: no other run took up the page meanwhile

Init ==
    /\ graph = [node |-> [i \in Ids |-> IF i \in Seeds THEN [Fresh EXCEPT !.here = TRUE, !.name = SeedName] ELSE Fresh],
                snaps |-> <<>>]
    /\ url = [listed |-> FALSE, price |-> 0, region |-> SchedulerRegion, failed |-> FALSE,
              torn |-> FALSE]     \* history: a page's snapshot was stored, its entry not or not at once
    /\ run = [r \in Runs |-> Idle]
    /\ faults = 0

\* Runs that may still add a snapshot are counted, so that none has to wait.
Room == Len(graph.snaps) + Cardinality({r \in Runs : run[r].at \in {"find", "write", "store"}}) < MaxSnaps

OnPage(r) == run[r].kind \in {"ingest", "recheck"}

At(r, phase) == run[r].at = phase

\* What _preview_url makes of the page when it is fetched, or a refusal: its policy, its
\* title, price or currency, the classification or the quality check may turn it down.
Previews == Pages \cup {NoOffer}

\* A listing becomes a record, and the record an offer in the region it is asked for.
Offer(region, listing) ==
    [key |-> listing.key, name |-> listing.name, region |-> region, review |-> listing.review,
     rank |-> listing.rank, stock |-> listing.stock, price |-> listing.price]

-----------------------------------------------------------------------------
\* _queue_due_refresh: the product ids of a window, in the region of the scheduler.
\* Snapshots up to any one may be older than the threshold by now.
Schedule(r) ==
    /\ At(r, "idle")
    /\ \E old \in 0..Len(graph.snaps) : \E w \in Window(graph, old, WindowLimit) :
         w # <<>> /\ run' = [run EXCEPT ![r].kind = "products", ![r].at = "next", ![r].todo = w]
    /\ UNCHANGED <<graph, url, faults>>

\* POST /pricing/refresh with product ids, and with a query (as sync and discover).
Request(r) ==
    /\ At(r, "idle")
    /\ \E region \in Regions :
         \/ \E i \in Here(graph) :
              run' = [run EXCEPT ![r].kind = "products", ![r].at = "next", ![r].region = region, ![r].todo = <<i>>]
         \/ run' = [run EXCEPT ![r].kind = "query", ![r].at = "records", ![r].region = region]
    /\ UNCHANGED <<graph, url, faults>>

\* refresh_product finds its target; nodes are never deleted.
NextProduct(r) ==
    /\ At(r, "next")
    /\ LET todo == run[r].todo
       IN  run' = [run EXCEPT ![r] =
             IF todo = <<>> THEN Idle
             ELSE [@ EXCEPT !.at = "records", !.todo = Tail(todo), !.about = Head(todo)]]
    /\ UNCHANGED <<graph, url, faults>>

\* The next record that classification, region, quality and target accept.  A
\* source that fails and a record that is rejected or raises change only counts.
Take(r, listing) ==
    /\ At(r, "records") /\ Room
    /\ run' = [run EXCEPT ![r].at = "find", ![r].offer = Offer(run[r].region, listing)]
    /\ UNCHANGED <<graph, url, faults>>

GivesUpAlways(r) == run[r].about # NoNode

\* mark_product_stale is asked for only when no record was accepted.
GivesUp(r) == ~run[r].accepted /\ run[r].about # NoNode

\* No more records; without a configured source there was none.
Finish(r) ==
    /\ At(r, "records")
    /\ graph' = IF GivesUp(r) THEN Staled(graph, run[r].about) ELSE graph
    /\ run' = [run EXCEPT ![r].at = "next", ![r].about = NoNode, ![r].accepted = FALSE,
                           ![r].stored = FALSE, ![r].broke = FALSE]
    /\ UNCHANGED <<url, faults>>

-----------------------------------------------------------------------------
\* A run that takes up the page while another has it: neither is alone.
TakesPage(r, taken) ==
    LET others == {q \in Runs \ {r} : OnPage(q)}
    IN  run' = [q \in Runs |->
                  IF q = r THEN [taken EXCEPT !.alone = others = {}]
                  ELSE IF q \in others THEN [run[q] EXCEPT !.alone = FALSE]
                  ELSE run[q]]

\* ingest of a page that a founder approved, whether or not it is known.
Ingest(r, listing) ==
    /\ At(r, "idle") /\ listing # NoOffer /\ Room
    /\ \E region \in Regions :
         TakesPage(r, [Idle EXCEPT !.kind = "ingest", !.at = "find", !.region = region,
                                   !.offer = Offer(region, listing)])
    /\ UNCHANGED <<graph, url, faults>>

\* refresh reads the known pages that are due, the price hash with them.
Recheck(r) ==
    /\ At(r, "idle") /\ url.listed
    /\ TakesPage(r, [Idle EXCEPT !.kind = "recheck", !.at = "page", !.region = url.region, !.seen = url.price])
    /\ UNCHANGED <<graph, url, faults>>

\* update_product_url_refresh_status; a failure delays the next check, which may
\* come at any time here.
Told(entry, success) == [entry EXCEPT !.failed = ~success]

NeverSame(r, listing) == FALSE

\* The page is refused, shows the price that was read with its entry, or another.
SamePrice(r, listing) == listing.price = run[r].seen

PageRefused(r, listing) ==
    /\ At(r, "page") /\ listing = NoOffer
    /\ url' = Told(url, FALSE) /\ run' = [run EXCEPT ![r] = Idle]
    /\ UNCHANGED <<graph, faults>>

PageUnchanged(r, listing) ==
    /\ At(r, "page") /\ listing # NoOffer /\ SamePrice(r, listing)
    /\ url' = Told(url, TRUE) /\ run' = [run EXCEPT ![r] = Idle]
    /\ UNCHANGED <<graph, faults>>

PageChanged(r, listing) ==
    /\ At(r, "page") /\ listing # NoOffer /\ ~SamePrice(r, listing) /\ Room
    /\ run' = [run EXCEPT ![r].at = "find", ![r].seen = 0, ![r].offer = Offer(run[r].region, listing)]
    /\ UNCHANGED <<graph, url, faults>>

-----------------------------------------------------------------------------
\* upsert_offer.
Find(r) ==
    /\ At(r, "find")
    /\ \E i \in FindProduct(graph, run[r].offer) :
         run' = [run EXCEPT ![r].at = "write", ![r].target = i,
                            ![r].byName = i # NoNode /\ HoldersOf(graph, run[r].offer.key) = {}]
    /\ UNCHANGED <<graph, url, faults>>

Write(r) ==
    /\ At(r, "write")
    /\ \/ /\ run[r].target # NoNode /\ Overwrites(graph, run[r].target, run[r].offer)
          /\ graph' = Named(graph, run[r].target, run[r].offer, run[r].byName)
          /\ run' = [run EXCEPT ![r].at = "store"]
       \/ /\ run[r].target = NoNode
          /\ \E i \in MergeTargets(graph, run[r].offer) :
               /\ graph' = Named(graph, i, run[r].offer, FALSE)
               /\ run' = [run EXCEPT ![r].at = "store", ![r].target = i]
    /\ UNCHANGED <<url, faults>>

Store(r) ==
    /\ At(r, "store")
    /\ graph' \in Stored(graph, run[r].target, run[r].offer, run[r].kind)
    /\ run' = [run EXCEPT ![r].at = "link", ![r].stored = run[r].about # NoNode]
    /\ UNCHANGED <<url, faults>>

\* Eight queries that touch neither prices nor keys.  A run over records counts
\* and goes on, one over a page writes the page's entry next.
Link(r) ==
    /\ At(r, "link")
    /\ run' = [run EXCEPT ![r] =
         IF OnPage(r) THEN [@ EXCEPT !.at = "entry"]
         ELSE [@ EXCEPT !.at = "records", !.offer = NoOffer, !.target = NoNode, !.byName = FALSE,
                        !.accepted = run[r].about # NoNode]]
    /\ UNCHANGED <<graph, url, faults>>

Entry(r) ==
    /\ At(r, "entry")
    /\ url' = [listed |-> TRUE, price |-> run[r].offer.price, region |-> run[r].region, failed |-> FALSE,
               torn |-> url.torn \/ ~run[r].alone]
    /\ run' = [run EXCEPT ![r] = Idle]
    /\ UNCHANGED <<graph, faults>>

\* A record's exception is logged and counted, a known page gets a failure, an
\* import of a page answers with the error.
GoOn(r) ==
    LET stored == run[r].at \in {"link", "entry"}
    IN  /\ run' = [run EXCEPT ![r] =
              IF OnPage(r) THEN Idle
              ELSE [@ EXCEPT !.at = "records", !.offer = NoOffer, !.target = NoNode, !.byName = FALSE,
                             !.broke = run[r].broke \/ stored]]
        /\ url' = [(IF run[r].kind = "recheck" THEN Told(url, FALSE) ELSE url)
                     EXCEPT !.torn = @ \/ (OnPage(r) /\ stored)]

Raise(r) ==
    /\ run[r].at \in {"find", "write", "store", "link", "entry"} /\ faults < MaxFaults
    /\ faults' = faults + 1
    /\ GoOn(r)
    /\ UNCHANGED graph

KeyTaken(r) ==
    /\ At(r, "write") /\ run[r].target # NoNode /\ ~Overwrites(graph, run[r].target, run[r].offer)
    /\ GoOn(r)
    /\ UNCHANGED <<graph, faults>>

Next ==
    \/ \E r \in Runs :
         \/ Schedule(r) \/ Request(r) \/ NextProduct(r)
         \/ Finish(r) \/ Recheck(r)
         \/ Find(r) \/ Write(r) \/ Store(r) \/ Link(r) \/ Entry(r) \/ Raise(r) \/ KeyTaken(r)
         \/ \E listing \in Listings : Take(r, listing)
         \/ \E listing \in Previews :
              Ingest(r, listing) \/ PageRefused(r, listing) \/ PageUnchanged(r, listing) \/ PageChanged(r, listing)

Spec == Init /\ [][Next]_vars

-----------------------------------------------------------------------------
Phases == {"idle", "next", "records", "page", "find", "write", "store", "link", "entry"}
RunKinds == {"none", "products", "query", "ingest", "recheck"}
Offers == {Offer(region, listing) : region \in Regions, listing \in Listings \cup Pages}
Keys == {NoKey} \cup {listing.key : listing \in Listings \cup Pages}
Names == {"", SeedName} \cup {listing.name : listing \in Listings \cup Pages}
Prices == {0} \cup {listing.price : listing \in Listings \cup Pages}
ProductNode == [here : BOOLEAN, key : Keys, name : Names, stale : BOOLEAN, best : Nat, taken : BOOLEAN]
Snapshot == [node : Ids, offer : Offers, by : RunKinds]
RunState == [kind : RunKinds, at : Phases, region : Regions, todo : Seq(Ids), about : Ids \cup {NoNode},
             offer : Offers \cup {NoOffer}, target : Ids \cup {NoNode}, byName : BOOLEAN, accepted : BOOLEAN,
             seen : Prices, stored : BOOLEAN, broke : BOOLEAN, alone : BOOLEAN]

TypeOK ==
    /\ graph \in [node : [Ids -> ProductNode], snaps : Seq(Snapshot)]
    /\ \A n \in DOMAIN graph.snaps : graph.node[graph.snaps[n].node].here
    /\ url \in [listed : BOOLEAN, price : Prices, region : Regions, failed : BOOLEAN, torn : BOOLEAN]
    /\ run \in [Runs -> RunState]
    /\ \A r \in Runs :
         /\ Range(run[r].todo) \cup {run[r].about, run[r].target} \subseteq Here(graph) \cup {NoNode}
         /\ Len(run[r].todo) <= WindowLimit
         /\ run[r].at \in {"find", "write", "store", "link", "entry"} => run[r].offer \in Offers
    /\ faults \in 0..MaxFaults

(* README.md: if sources are unavailable, the previous valid snapshot stays  *)
(* active and the product is marked stale.  A refresh of a product marks it  *)
(* exactly if it stored nothing, whatever other runs do to the product       *)
(* meanwhile; only a query that raised after its snapshot was stored makes   *)
(* a refreshed product stale.                                                *)
StaleEarned ==
    \A r \in Runs : run[r].about # NoNode /\ run[r].at = "records" /\ run'[r].at = "next" =>
        LET i == run[r].about
        IN  IF ~run[r].stored THEN graph'.node[i].stale
            ELSE run[r].broke \/ graph'.node[i].stale = graph.node[i].stale
StaleIsEarned == [][StaleEarned]_vars

(* The best price of a product survives what is stored later: it is lost     *)
(* only to an offer of another region, for the view is of one region and     *)
(* whoever stored last decides of which.                                     *)
LostAbroad ==
    \A i \in Ids : graph.node[i].best # 0 /\ graph'.node[i].best = 0 =>
        Last(graph'.snaps).offer.region # graph.snaps[graph.node[i].best].offer.region
BestLostOnlyAbroad == [][LostAbroad]_vars

(* README.md: one Product node per canonical identity.  Two runs that find   *)
(* no node end up with one; snapshots of one key lie on two nodes, and of    *)
(* two keys on one, only where a run that found the node by its name gave it *)
(* another key than it had.  The best price of a node is one of its own.     *)
OneNodePerIdentity ==
    /\ \A i, j \in Here(graph) : graph.node[i].key = graph.node[j].key /\ graph.node[i].key # NoKey => i = j
    /\ \A m, n \in DOMAIN graph.snaps :
          LET s == graph.snaps[m]
              t == graph.snaps[n]
          IN  (s.offer.key = t.offer.key) # (s.node = t.node) => graph.node[s.node].taken \/ graph.node[t.node].taken
    /\ \A i \in Ids : graph.node[i].best # 0 =>
          graph.node[i].best \in DOMAIN graph.snaps /\ graph.snaps[graph.node[i].best].node = i

PageSnaps == {n \in DOMAIN graph.snaps : graph.snaps[n].by \in {"ingest", "recheck"}}
PriceOf(n) == graph.snaps[n].offer.price

(* The price hash of a known page is that of its newest snapshot, so that an *)
(* unchanged price is not stored a second time by a recheck, unless two runs *)
(* had the page at once or one broke off between snapshot and entry.         *)
PageStoredOnce ==
    ~url.torn /\ (\A r \in Runs : OnPage(r) => run[r].at \notin {"link", "entry"}) =>
        /\ \A n \in PageSnaps : (\A m \in PageSnaps : m <= n) => PriceOf(n) = url.price
        /\ \A m, n \in PageSnaps :
              graph.snaps[n].by = "recheck" /\ m < n /\ (\A k \in PageSnaps : k <= m \/ n <= k) => PriceOf(m) # PriceOf(n)

(* What the graph holds of identities and pages, whichever runs overlapped.  *)
IdentitiesHold == TypeOK /\ OneNodePerIdentity
=============================================================================
