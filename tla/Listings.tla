------------------------------- MODULE Listings -------------------------------
(***************************************************************************)
(* How an offer that a source lists becomes a stored snapshot and advice to *)
(* buy: pricing_classification.py (what the title sells, who sells it),     *)
(* region_config.py and _apply_region_context (what it costs here, and what *)
(* is not known of that), pricing_quality.py (is the price possible) and    *)
(* the listing decision of pricing_repository.py.  A title is the set of    *)
(* marks that the patterns find in it; scores are in hundredths, rounded    *)
(* down; a price is its place among the windows of its family.  A sale is   *)
(* one product's two listings, taken through the same steps.                *)
(***************************************************************************)
EXTENDS Integers, FiniteSets, FiniteSetsExt, Sequences, TLC

CONSTANTS
    Lists,        \* names of what the sources may list,
    OffersOf(_),  \* the listings of each
    Beside(_)     \* and what may be listed of the same product with one

VARIABLE sale
-----------------------------------------------------------------------------
(* What the title sells: the first mark in this order, or the part itself.  *)
\* The order of the checks, with the type that each gives.
GpuOrder == <<"accessory", "laptop", "prebuilt", "soft_system", "bundle">>
StorageOrder == <<"prebuilt", "external", "bundle", "wrong_kind", "used">>
RamOrder == <<"laptop", "prebuilt", "bundle", "accessory", "used">>
PsuOrder == <<"ups", "charger", "cable", "bundle", "used">>
CaseOrder == <<"prebuilt", "accessory", "bundle">>
CoolerOrder == <<"accessory", "bundle">>
BoardOrder == <<"bundle", "accessory", "wrong_kind">>
TypeOf(mark) ==
    CASE mark \in {"prebuilt", "soft_system"} -> "prebuilt_pc"
      [] mark \in {"external", "accessory", "ups", "charger", "cable"} -> "accessory"
      [] mark \in {"laptop", "bundle", "motherboard", "cooler"} -> mark
      [] OTHER -> "unknown_low_confidence"
Sold(order, marks, evident, part) ==
    LET hits == {i \in DOMAIN order : order[i] \in marks}
    IN  IF hits # {} THEN TypeOf(order[Min(hits)]) ELSE IF evident THEN part ELSE "unknown_low_confidence"

\* A bracket or a "tower" in the title of a "graphics card" is forgiven.
SoldGpu(m) ==
    Sold(GpuOrder, IF "phrase" \in m THEN m \ {"accessory", "soft_system"} ELSE m, m \cap {"signal", "phrase"} # {}, "standalone_gpu")
\* A cooler that comes with the processor is forgiven, and evidence of one.
SoldCpu(m, condition) ==
    LET kind == IF "cooler_note" \in m /\ "liquid" \notin m THEN m \ {"cooler"} ELSE m
        noted == "cooler" \in m \ kind
    IN  CASE "prebuilt" \in m -> "prebuilt_pc"
          [] "bundle" \in m /\ kind \cap {"combo", "two_parts", "motherboard", "cooler"} # {} -> "bundle"
          [] kind \cap {"motherboard"} # {} -> "motherboard"
          [] "cooler" \in kind -> "cooler"
          [] "tray" \in m /\ condition = "unknown" -> "unknown_low_confidence"
          [] "signal" \in m \/ noted -> "standalone_cpu"
          [] OTHER -> "unknown_low_confidence"
SoldStorage(m) == Sold(StorageOrder, m, "signal" \in m, "standalone_storage")
SoldRam(m) == Sold(RamOrder, m, "ddr5" \in m, "standalone_ram")
SoldPsu(m) == Sold(PsuOrder, m, "signal" \in m, "standalone_psu")
SoldCase(m) == Sold(CaseOrder, m, "signal" \in m, "standalone_case")
SoldCooler(m) == Sold(CoolerOrder, m, "signal" \in m, "standalone_cooler")
SoldBoard(m) ==
    Sold(BoardOrder, m, "b650" \in m /\ ("model" \in m \/ {"am5", "ddr5"} \subseteq m), "standalone_motherboard")
ProductType(category, m, condition) ==
    CASE category = "GPU" -> SoldGpu(m)
      [] category = "CPU" -> SoldCpu(m, condition)
      [] category = "Storage" -> SoldStorage(m)
      [] category = "RAM" -> SoldRam(m)
      [] category = "PSU" -> SoldPsu(m)
      [] category = "Case" -> SoldCase(m)
      [] category = "Cooler" -> SoldCooler(m)
      [] category = "Motherboard" -> SoldBoard(m)
      [] OTHER -> "hardware_product"
Part == [GPU |-> "standalone_gpu", CPU |-> "standalone_cpu", Storage |-> "standalone_storage", RAM |-> "standalone_ram",
         PSU |-> "standalone_psu", Case |-> "standalone_case", Cooler |-> "standalone_cooler",
         Motherboard |-> "standalone_motherboard"]
AcceptedTypes == {Part[c] : c \in DOMAIN Part} \cup {"hardware_product"}
-----------------------------------------------------------------------------
(* Who sells it, and at what risk.                                          *)
\* "named": a seller other than the shop itself is given.
SellerType(o) ==
    CASE o.vendor \in {"ebay", "swappa"} -> "marketplace"
      [] o.seller = "named" -> "third_party"
      [] o.vendor \in {"amazon", "newegg"} -> "retailer"
      [] o.vendor = "maker" -> "manufacturer"
      [] OTHER -> "unknown"
UnknownIsNew(condition) == CASE condition = "used" -> 10 [] condition = "refurbished" -> 6 [] OTHER -> -8
ConditionRisk(condition) ==
    CASE condition = "unknown" -> 12 [] condition = "used" -> 10 [] condition = "refurbished" -> 6 [] OTHER -> -8
Risk(o, sellerType) ==
    Max({0, Min({100,
        (CASE sellerType = "manufacturer" -> 8 [] sellerType = "retailer" -> 16 [] sellerType = "unknown" -> 48
           [] sellerType = "third_party" -> 62 [] OTHER -> 72)
        + ConditionRisk(o.condition)
        + (IF o.vendor \in {"ebay", "swappa"} THEN 8 ELSE 0)
        + (IF o.seller = "none" THEN 0 ELSE 4)})})
Market(o) ==
    LET s == SellerType(o)
        r == Risk(o, s)
    IN  [sellerType |-> s, risk |-> r, review |-> o.condition = "unknown" \/ r >= 65]

\* vendor_trust_profile, with the region's type of vendor.
Profile(type, tier, stock, warranty, shipping) ==
    [type |-> type, tier |-> tier, stock |-> stock, warranty |-> warranty, shipping |-> shipping]
TrustProfile(vendor, region) ==
    CASE region = "SA" /\ vendor \in {"jarir", "amazon"} -> Profile("local_saudi_vendor", "high", 92, 78, 78)
      [] region = "SA" /\ vendor \in {"noon", "infiniarc"} -> Profile("local_saudi_vendor", "medium", 82, 64, 62)
      [] region = "SA" /\ vendor = "microless" -> Profile("gcc_vendor", "medium", 72, 56, 58)
      [] region = "SA" /\ vendor = "ebay" -> Profile("international_vendor", "low", 18, 28, 24)
      [] region = "SA" /\ vendor = "newegg" -> Profile("international_vendor", "low", 24, 34, 32)
      [] region = "US" /\ vendor \in {"amazon", "newegg"} -> Profile("local", "medium", 74, 58, 58)
      [] vendor = "infiniarc" -> Profile("local_saudi_vendor", "medium", 74, 58, 58)
      [] vendor = "swappa" -> Profile("marketplace_vendor", "low", 25, 30, 30)
      [] vendor = "ebay" -> Profile("international_vendor", "low", 25, 30, 30)
      [] OTHER -> Profile("unknown_vendor", "unknown", 25, 24, 22)
HomeCurrency == [SA |-> "SAR", US |-> "USD"]

Cut(x) == Max({0, Min({100, x})})
\* What the listing's words say of the warranty, or where it comes from.
WarrantyStatus(o, type, isLocal) ==
    CASE o.warranty # "none" -> o.warranty
      [] type = "marketplace_vendor" -> "seller_warranty"
      [] isLocal \/ type = "gcc_vendor" -> "local_warranty"
      [] OTHER -> "unknown_warranty"
Completeness(o, hasPrice, warrantyStatus, imported, risk) ==
    Max({0, 100 - (IF hasPrice THEN 0 ELSE 28) - (IF o.vat = "vat_unknown" THEN 16 ELSE 0)
            - (IF o.shipping = "unknown_shipping" THEN 20 ELSE 0) - (IF warrantyStatus = "unknown_warranty" THEN 14 ELSE 0)
            - (IF imported THEN 14 ELSE 0) - (IF o.condition = "unknown" THEN 10 ELSE 0) - Min({16, (risk * 12) \div 100})})
\* _apply_region_context.
Placed(o, market) ==
    LET t == TrustProfile(o.vendor, o.region)
        isLocal == t.type \in {"local", "local_saudi_vendor"} \/ (o.region = "US" /\ o.currency = "USD" /\ t.type = "unknown_vendor")
        imported == t.type \in {"international_vendor", "marketplace_vendor"} \/ (o.region # "US" /\ o.currency # HomeCurrency[o.region])
        warranted == WarrantyStatus(o, t.type, isLocal)
        inSar == o.region = "SA" /\ o.currency = "SAR"
        incomplete == o.region = "SA" /\ (~inSar \/ o.vat = "vat_unknown" \/ o.shipping = "unknown_shipping")
        best(x, y) == Max({x, y})
    IN  [type |-> t.type, tier |-> t.tier, isLocal |-> isLocal, imported |-> imported,
         warranty |-> warranted, sar |-> inSar, incomplete |-> incomplete,
         completeness |-> Completeness(o, inSar, warranted, imported, market.risk),
         candidate |-> /\ inSar /\ t.type # "marketplace_vendor" /\ ~imported /\ o.shipping # "unknown_shipping"
                       /\ o.vat # "vat_unknown" /\ warranted # "unknown_warranty" /\ market.risk < 65,
         rank |-> Cut(42 + (IF isLocal THEN 25 ELSE 0) + (IF t.type = "gcc_vendor" THEN 14 ELSE 0)
                  + (IF o.currency = HomeCurrency[o.region] THEN 10 ELSE 0) + (IF o.vat # "vat_unknown" THEN 8 ELSE 0)
                  + (IF o.shipping # "unknown_shipping" THEN 8 ELSE 0) + (IF warranted = "local_warranty" THEN 6 ELSE 0)
                  + ((best(t.stock, IF isLocal THEN 92 ELSE IF t.type = "gcc_vendor" THEN 76 ELSE IF imported THEN 35 ELSE 25)
                      + best(t.warranty, CASE warranted = "local_warranty" -> 78 [] warranted = "manufacturer_warranty" -> 68
                                           [] warranted = "seller_warranty" -> 46 [] OTHER -> 24)
                      + best(t.shipping, CASE o.shipping = "paid_shipping" -> 82 [] o.shipping = "pickup_only" -> 62 [] OTHER -> 22)) * 3) \div 100
                  - (IF incomplete THEN 10 ELSE 0) - Min({22, (market.risk * 18) \div 100}))]
-----------------------------------------------------------------------------
(* Is it possible, and is it what was asked for?                            *)
\* The families with a price window, in the currencies that have one.
Windowed(o) == o.family /\ o.currency \in {"USD", "SAR"} /\ o.category \in {"GPU", "CPU", "Storage", "RAM", "PSU"}
Suspicious(o) == Windowed(o) /\ o.price # "normal"
SkipsRam(o, type) == o.category \in DOMAIN Part \ {"Motherboard", "RAM"} /\ type # Part[o.category]
NotThePart(o, type) == o.category \in DOMAIN Part \ {"Motherboard"} /\ type # Part[o.category]
\* validate_offer: a price before this one only adds a flag.
Impossible(o, type) ==
    \/ o.category = "Accessories" /\ o.trust < 80
    \/ NotThePart(o, type)
    \/ o.currency = "USD" /\ o.price \in {"floor", "ceiling"}
    \/ Windowed(o) /\ o.price \in {"floor", "hard_low", "hard_high", "ceiling"}
    \/ ~o.sane
\* _target_model_rejections, by the category that was asked for.
Mismatched(o) == o.requested \in DOMAIN Part /\ o.other
-----------------------------------------------------------------------------
(* What it is advised: _with_listing_decision.                              *)
TierScore == [high |-> 92, medium |-> 74, unknown |-> 48, low |-> 28]
Confident(o, m, p) ==
    Cut(Min({100, (o.trust * 28 + (o.fresh + 100 - m.risk + TierScore[p.tier] + p.completeness) * 18) \div 100 + (IF p.isLocal THEN 4 ELSE 0)})
        - (IF o.vat = "vat_unknown" THEN 5 ELSE 0)
        - (IF o.shipping = "unknown_shipping" THEN 6 ELSE 0) - (IF p.warranty = "unknown_warranty" THEN 4 ELSE 0))
Levels == <<"recommended", "good_if_price_matters", "acceptable_with_risk", "insufficient_data", "not_recommended">>
LevelRank(l) == CHOOSE i \in DOMAIN Levels : Levels[i] = l

Foreign(m, p) == p.imported \/ m.sellerType \in {"marketplace", "third_party"} \/ m.risk >= 65
                 \/ p.type \in {"international_vendor", "marketplace_vendor"}
Nearby(p) == p.type \in {"local_saudi_vendor", "local", "gcc_vendor"} \/ p.isLocal
Trusted(m, p) == p.tier \in {"high", "medium"} \/ m.sellerType \in {"retailer", "manufacturer"}
Clean(o, p) == /\ o.vat # "vat_unknown" /\ o.shipping # "unknown_shipping"
               /\ p.warranty \in {"local_warranty", "manufacturer_warranty"} /\ o.condition = "new"
RiskyEarly(m) == m.risk >= 55
TooRisky(m) == m.risk >= 72
Level(o, m, p, confidence) ==
    CASE ~o.available \/ Suspicious(o) -> "not_recommended"
      [] o.region = "SA" /\ o.currency # "SAR" -> "insufficient_data"
      [] Foreign(m, p) -> IF TooRisky(m) THEN "not_recommended" ELSE "acceptable_with_risk"
      [] Nearby(p) /\ Trusted(m, p) ->
            CASE Clean(o, p) /\ confidence >= 72 -> "recommended"
              [] confidence >= 55 -> "acceptable_with_risk"
              [] OTHER -> "insufficient_data"
      [] Trusted(m, p) /\ confidence >= 60 -> "good_if_price_matters"
      [] OTHER -> "insufficient_data"
Advised(o, m, p) ==
    LET c == Confident(o, m, p) IN [confidence |-> c, level |-> Level(o, m, p, c)]

\* _best_recommended: who may be recommended, and the order among them.
MayRecommend(o, m, p, advice) ==
    IF o.region = "SA" THEN LevelRank(advice.level) <= 3 ELSE ~m.review
No(b) == IF b THEN 0 ELSE 1
StockRank(p) == IF p.isLocal THEN 0 ELSE IF p.type = "gcc_vendor" THEN 1 ELSE IF p.imported THEN 3 ELSE 2
TypeRank == [local_saudi_vendor |-> 0, local |-> 0, gcc_vendor |-> 1, unknown_vendor |-> 2, international_vendor |-> 3,
             marketplace_vendor |-> 4]
TierRank == [high |-> 0, medium |-> 1, unknown |-> 2, low |-> 3]
Preference(o, m, p, advice) ==
    <<LevelRank(advice.level), No(p.candidate), StockRank(p), TypeRank[p.type], TierRank[p.tier], No(o.vat # "vat_unknown"),
      No(o.shipping # "unknown_shipping"), No(p.warranty = "local_warranty"), No(p.isLocal),
      No(o.currency = HomeCurrency[o.region]), No(o.condition = "new"), No(m.sellerType \in {"retailer", "manufacturer"}),
      m.risk, -advice.confidence, -p.completeness, -p.rank, -o.trust, -o.fresh>>
LastFirst(a, b) == \E i \in DOMAIN a : a[i] > b[i] /\ \A j \in 1..(i - 1) : a[j] = b[j]
Precedes(a, b) == \E i \in DOMAIN a : a[i] < b[i] /\ \A j \in 1..(i - 1) : a[j] = b[j]
-----------------------------------------------------------------------------
Both == 1..2
ListingsInit ==
    \E l \in Lists : \E o \in OffersOf(l) : \E b \in Beside(o) : sale = [stage |-> "listed", o |-> <<o, b>>]
Apply(from, to, field, value(_)) ==
    /\ sale.stage = from
    /\ sale' = [sale EXCEPT !.stage = to] @@ (field :> [i \in Both |-> value(i)])

\* sync_query: the title by the category that was asked for ...
Classify ==
    LET asked(i) == [type |-> ProductType(sale.o[i].requested, sale.o[i].marks, sale.o[i].condition)]
    IN  Apply("listed", "classified", "asked", asked)
\* ... and, in normalize_record, by the one that the title tells.
Normalize ==
    LET made(i) == Market(sale.o[i]) @@ [type |-> ProductType(sale.o[i].category, sale.o[i].marks, sale.o[i].condition)]
    IN  Apply("classified", "normalized", "m", made)
ApplyRegion ==
    LET placed(i) == Placed(sale.o[i], sale.m[i]) IN Apply("normalized", "placed", "p", placed)
Persist ==
    LET stored(i) == /\ sale.asked[i].type \in AcceptedTypes
                     /\ ~Impossible(sale.o[i], sale.m[i].type)
                     /\ ~Mismatched(sale.o[i])
    IN  Apply("placed", "stored", "stored", stored)
Advise ==
    LET advice(i) == Advised(sale.o[i], sale.m[i], sale.p[i]) IN Apply("stored", "advised", "advice", advice)
\* _price_rollups over what was stored.
Eligible == {i \in Both : /\ sale.stored[i] /\ sale.o[i].available
                         /\ MayRecommend(sale.o[i], sale.m[i], sale.p[i], sale.advice[i])}
Rollup ==
    /\ sale.stage = "advised"
    /\ LET key(i) == Preference(sale.o[i], sale.m[i], sale.p[i], sale.advice[i])
           best == {i \in Eligible : \A j \in Eligible : ~Precedes(key(j), key(i)) /\ (j < i => key(j) # key(i))}
       IN  sale' = [sale EXCEPT !.stage = "shown"] @@ ("best" :> best)
Shown2 == sale.stage = "shown" /\ UNCHANGED sale
ListingsNext == Classify \/ Normalize \/ ApplyRegion \/ Persist \/ Advise \/ Rollup \/ Shown2
-----------------------------------------------------------------------------
\* What is stored as a part is that part by its own title, whatever category was
\* asked for: no mark of a bundle, a system or an accessory is left in it.  (Nobody
\* asks this of a motherboard: validate_offer has no check for one.)
StoredStandsAlone ==
    sale.stage = "shown" =>
        \A i \in Both : (sale.stored[i] /\ sale.o[i].category \in DOMAIN Part \ {"Motherboard"}) =>
            /\ sale.o[i].marks \cap {"laptop", "prebuilt", "external", "ups", "charger", "used"} = {}
            /\ sale.o[i].category # "CPU" => "bundle" \notin sale.o[i].marks

\* What ingestion called a candidate for the Saudi price is never advised against
\* when it is read, unless it is out of stock or its price is outside its window.
CandidateIsNotAdvisedAgainst ==
    sale.stage = "shown" =>
        \A i \in Both : (sale.p[i].candidate /\ sale.o[i].available /\ ~Suspicious(sale.o[i])) =>
            sale.advice[i].level # "not_recommended"

\* A listing that says less (of its VAT, its shipping, its warranty or its
\* condition) than one that is otherwise the same is neither advised more nor put
\* before it; but a vendor nearby that is silent of the warranty is taken to give one.
Silent(a, b) == \/ a = [b EXCEPT !.vat = "vat_unknown"] \/ a = [b EXCEPT !.shipping = "unknown_shipping"]
                \/ a = [b EXCEPT !.condition = "unknown"]
                \/ a = [b EXCEPT !.warranty = "none"]
SilenceNeverHelps ==
    sale.stage = "shown" =>
        \A i, j \in Both : (/\ i # j /\ sale.stored[i] /\ Silent(sale.o[j], sale.o[i])
                        /\ sale.p[j].warranty \in {"unknown_warranty", sale.p[i].warranty}) =>
            /\ LevelRank(sale.advice[i].level) <= LevelRank(sale.advice[j].level)
            /\ j \in sale.best => sale.o[j] = sale.o[i]

\* A listing in the local currency of a trusted vendor nearby that says everything,
\* of a source that is trusted, is not passed over for a riskier one
\* (docs/FOUNDER_OPERATIONS_PLAYBOOK.md:83).
Proven(i) ==
    /\ sale.stored[i] /\ sale.o[i].available /\ ~Suspicious(sale.o[i]) /\ sale.o[i].trust >= 70
    /\ sale.o[i].currency = "SAR" /\ Clean(sale.o[i], sale.p[i]) /\ Nearby(sale.p[i]) /\ ~Foreign(sale.m[i], sale.p[i])
ProvenLocalIsPreferred ==
    (sale.stage = "shown" /\ sale.o[1].region = "SA") =>
        \A i \in Both : Proven(i) => \A j \in sale.best : ~Foreign(sale.m[j], sale.p[j])

\* The advice follows what is known, and what is not known is never in its favour.
AdviceIsEarned == CandidateIsNotAdvisedAgainst /\ SilenceNeverHelps /\ ProvenLocalIsPreferred
\* What is stored is the product itself and what is advised of it is earned.
SoldIsAsJudged == StoredStandsAlone /\ AdviceIsEarned
=============================================================================
