---------------------------- MODULE RegionalBuilds ----------------------------
(***************************************************************************)
(* POST /build/generate-local (saudi_build_generator.py): is there enough   *)
(* of every category to build from Saudi prices, the part that each of four *)
(* modes picks, and what is answered of the builds; and the validation that *)
(* a client may ask for of such a build.  Confidence and risk are in        *)
(* hundredths; NoField is a field that a product does not have.             *)
(***************************************************************************)
EXTENDS Integers, FiniteSetsExt, SequencesExt

CONSTANTS
    NoField,
    Categories,   \* REQUIRED_BUILD_CATEGORIES,
    Markets,      \* names of what the graph may hold,
    Pools,        \* of each: by category, the products that a search returns,
    Orders        \* and what is asked: records [budget, strict, resolution, priority, brands]

\* What a score reads of a product; a price is above zero (PriceOffer).
Scored == {"category", "recommended", "lowest", "risk", "lowestRisk", "confidence", "brand", "warned", "exact", "family"}
ASSUME NoFieldAssumption == NoField \notin Int
ASSUME PoolsAssumption ==
    \A m \in Markets, c \in Categories :
        /\ Pools[m][c] \in Seq(Range(Pools[m][c]))
        /\ \A p \in Range(Pools[m][c]) :
              /\ Scored \subseteq DOMAIN p /\ p.warned \in BOOLEAN
              /\ \A f \in {"recommended", "lowest"} : p[f] = NoField \/ p[f] \in Nat \ {0}
              /\ \A f \in {"risk", "lowestRisk", "confidence"} : p[f] = NoField \/ p[f] \in Nat

VARIABLE local

Modes == <<"balanced", "budget", "value", "risk">>
Either(x, y) == IF x # NoField /\ x # 0 THEN x ELSE y
AskedPrice(p) == Either(p.recommended, p.lowest)
-----------------------------------------------------------------------------
(* _coverage_for_category: what there is of a category.                     *)
ValidPrice(p) == (p.recommended # NoField \/ p.lowest # NoField) /\ p.sar
Graded(category) == category \in {"RAM", "Storage", "Motherboard"}
Identified(category, p) == Graded(category) => p.identity
KnownRisk(p) == IF p.risk # NoField THEN p.risk ELSE IF p.lowestRisk # NoField THEN p.lowestRisk ELSE 50
Usable(category, p) ==
    /\ Graded(category) /\ p.identity /\ ~p.severe /\ ValidPrice(p)
    /\ KnownRisk(p) <= (IF category = "Motherboard" /\ p.near THEN 78 ELSE 72)
    /\ (IF p.confidence = NoField THEN 35 ELSE p.confidence) >= 30
TrustedUnpriced(category, p) == p.level \in {"recommended", "good_if_price_matters", "acceptable_with_risk"} /\ ~p.severe
TrustedHere(category, p) ==
    /\ p.recommended # NoField
    /\ p.level \in {"recommended", "good_if_price_matters", "acceptable_with_risk"}
    /\ ~p.severe
Coverage(category, pool) ==
    LET valid == {i \in DOMAIN pool : /\ pool[i].shown \in {"active", "stale"}
                                      /\ ValidPrice(pool[i]) /\ Identified(category, pool[i])}
        trusted == {i \in valid : TrustedHere(category, pool[i])}
        usable == {i \in valid \ trusted : Usable(category, pool[i])}
        level == CASE trusted # {} -> "ready"
                   [] usable # {} /\ (category = "RAM" => Cardinality(valid) >= 2) -> "usable_with_warnings"
                   [] OTHER -> "not_ready"
    IN  [level |-> level, stale |-> \E p \in Range(pool) : p.shown = "stale"]
Points(level) == CASE level = "ready" -> 100 [] level = "usable_with_warnings" -> 75 [] OTHER -> 0
Readiness(coverage) == MapThenSumSet(LAMBDA c : Points(coverage[c].level), Categories) \div Cardinality(Categories)
Enough(coverage) == \A c \in Categories : coverage[c].level # "not_ready"
-----------------------------------------------------------------------------
(* _best_product.                                                           *)
Weights == [CPU |-> 17, GPU |-> 33, Motherboard |-> 8, RAM |-> 10, Storage |-> 7, PSU |-> 8, Case |-> 7, Cooler |-> 10]
Weight(order, c) ==
    Weights[c]
    + (IF order.resolution # "1080p" THEN (CASE c = "GPU" -> 6 [] c = "CPU" -> -3 [] OTHER -> 0) ELSE 0)
    + (IF order.priority = "upgrade_path" THEN (CASE c = "Motherboard" -> 4 [] c = "PSU" -> 3 [] OTHER -> 0) ELSE 0)
    + (IF order.priority = "quiet_build" THEN (CASE c = "Cooler" -> 4 [] c = "Case" -> 3 [] OTHER -> 0) ELSE 0)
Target(order, c) ==
    (order.budget * Weight(order, c)) \div MapThenSumSet(LAMBDA d : Weight(order, d), DOMAIN Weights)
\* The budget is above zero (SaudiBuildRequest), and none of its shares is below one.
ASSUME OrdersAssumption ==
    \A o \in Orders : o.budget \in Nat \ {0} /\ \A c \in Categories : Target(o, c) \in Nat \ {0}
If(condition, x) == IF condition THEN x ELSE 0
RiskPays(risk, target) == -22 * risk * target
RiskCosts(risk, target) == 22 * risk * target
\* In units of 1 / (10000 * target).
MarketScore(p, order, mode, target) ==
    LET price == AskedPrice(p)
        confidence == Either(p.confidence, 30)
        risk == IF p.risk # NoField THEN p.risk ELSE Either(p.lowestRisk, 50)
        isLocal == p.recommended # NoField
        under == Max({0, target - price})
        over == Max({0, price - target})
    IN  100 * confidence * target + If(isLocal, 1200 * target) + If(p.brand \in order.brands, 800 * target)
        + 1600 * under - 3500 * over - RiskCosts(risk, target) - If(p.warned, 800 * target)
        + If(p.category = "GPU", If(p.exact, 800 * target) - If(p.family /\ ~p.exact, 700 * target))
        + CASE mode = "value" -> (3000 * target * target) \div Max({price, 1})
            [] mode = "budget" -> If(price <= target, 4200 * target) + 2800 * under - 8500 * over - 8 * risk * target
            [] mode = "risk" -> 25 * confidence * target + If(isLocal, 600 * target) - 25 * risk * target
            [] OTHER -> If(isLocal, 240 * target)
Candidates(pool, category, mode) ==
    {i \in DOMAIN pool : /\ ValidPrice(pool[i])
                         /\ mode = "risk" => pool[i].recommended # NoField \/ Usable(category, pool[i])}
\* The index, in the pool, of the first of the best; 0 if there is none.
Best(pool, category, order, mode) ==
    LET target == Target(order, category)
        rate(i) == MarketScore(pool[i], order, mode, target)
        able == Candidates(pool, category, mode)
    IN  IF able = {} THEN 0
        ELSE Min({i \in able : \A j \in able : rate(i) >= rate(j)})
-----------------------------------------------------------------------------
LowestFirst(p) == Either(p.lowest, p.recommended)
\* What is paid for a part.
Paid(p) == Either(p.recommended, p.lowest)
TotalOf(parts) == SumFunction([c \in DOMAIN parts |-> Paid(parts[c])])
BudgetStatus(total, budget) ==
    CASE total <= budget -> "under_budget"
      [] 100 * (total - budget) <= 8 * Max({budget, 1}) -> "slightly_over_budget"
      [] OTHER -> "over_budget"
Option(order, coverage, parts, mode) ==
    [mode |-> mode, total |-> TotalOf(parts), status |-> BudgetStatus(TotalOf(parts), order.budget),
     confidence |-> LET known == {c \in Categories : parts[c].confidence # NoField}
                    IN  IF known = {} THEN 0
                        ELSE (Readiness(coverage) * MapThenSumSet(LAMBDA c : parts[c].confidence, known)) \div (100 * Cardinality(known)),
     uncertain |-> {c \in Categories : parts[c].recommended = NoField \/ Usable(c, parts[c]) \/ parts[c].warned
                                       \/ (parts[c].risk # NoField /\ parts[c].risk > 72)}]
\* The least that a set of parts of the right identity costs.
Cheapest(pools) ==
    LET valid(c) == {p \in Range(pools[c]) : ValidPrice(p) /\ Identified(c, p) /\ ~p.severe}
    IN  IF \E c \in Categories : valid(c) = {} THEN NoField
        ELSE MapThenSumSet(LAMBDA c : Min({AskedPrice(p) : p \in valid(c)}), Categories)
-----------------------------------------------------------------------------
LocalInit ==
    \E m \in Markets, o \in Orders :
        local = [stage |-> "asked", market |-> m, order |-> o, coverage |-> <<>>, picked |-> <<>>, options |-> <<>>,
                 builds |-> <<>>, status |-> "none", reason |-> "none", valid |-> {}]
Pool(c) == Pools[local.market][c]

DataCompleteness ==
    /\ local.stage = "asked"
    /\ local' = [local EXCEPT !.stage = "covered", !.coverage = [c \in Categories |-> Coverage(c, Pool(c))]]
NotEnough ==
    /\ local.stage = "covered" /\ ~Enough(local.coverage)
    /\ local' = [local EXCEPT !.stage = "answered", !.status = "incomplete_data"]
SelectComponents ==
    /\ local.stage = "covered" /\ Enough(local.coverage)
    /\ local' = [local EXCEPT !.stage = "picked",
                    !.picked = [k \in DOMAIN Modes |-> [c \in Categories |-> Best(Pool(c), c, local.order, Modes[k])]]]
\* The parts that a mode picks.
Picked(k) == [c \in Categories |-> Pool(c)[local.picked[k][c]]]
\* A mode that lacks a part of one category gives no build.
Whole(pick) == \A c \in Categories : pick[c] # 0
BuildOptions ==
    /\ local.stage = "picked"
    /\ local' = [local EXCEPT !.stage = "built",
                    !.options = [k \in {m \in DOMAIN Modes : Whole(local.picked[m])} |->
                                    Option(local.order, local.coverage, Picked(k), k)]]
AnswerLocal ==
    LET o == local.order
        within == {k \in DOMAIN local.options : o.strict => local.options[k].total <= o.budget}
        least == Cheapest(Pools[local.market])
    IN  /\ local.stage = "built"
        /\ local' = [local EXCEPT !.stage = "answered",
                !.builds = [k \in within |-> local.options[k]],
                !.status = IF within # {} THEN "ready" ELSE IF o.strict THEN "no_budget_fit" ELSE "no_valid_build",
                !.reason = CASE within # {} -> "none" [] within = {} /\ ~o.strict -> "not_assembled"
                             [] within = {} /\ o.strict /\ least # NoField /\ least > o.budget -> "cheapest_over_budget"
                             [] OTHER -> "none_fits"]
\* validate_local_build, for each build answered and while the prices stand.
LocallyValid(order, parts) ==
    /\ DOMAIN parts = Categories
    /\ \A c \in Categories : parts[c].recommended # NoField /\ (c = "PSU" => parts[c].watts # NoField /\ parts[c].watts >= 650)
    /\ SumFunction([c \in DOMAIN parts |-> parts[c].recommended]) <= order.budget
ValidateLocal ==
    /\ local.stage = "answered"
    /\ local' = [local EXCEPT !.stage = "validated",
                    !.valid = {k \in DOMAIN local.builds : LocallyValid(local.order, Picked(local.builds[k].mode))}]
LocalDone == local.stage = "validated" /\ UNCHANGED local
LocalNext ==
    DataCompleteness \/ NotEnough \/ SelectComponents \/ BuildOptions \/ AnswerLocal \/ ValidateLocal \/ LocalDone
LocalSpec == LocalInit /\ [][LocalNext]_local
-----------------------------------------------------------------------------
\* What is called enough data is enough: every mode assembles a whole build from it,
\* so that only a strict budget leaves a client without one.
EnoughIsEnough ==
    /\ local.stage = "built" => DOMAIN local.options = DOMAIN Modes
    /\ local.stage \in {"answered", "validated"} => local.status # "no_valid_build"

\* Of two products that differ in one respect, the worse one (dearer, riskier, less
\* sure, with a warning) is in no mode preferred.  Zero is taken as not known.
Better(p, q) ==
    \/ q = [p EXCEPT !.recommended = q.recommended] /\ p.recommended # NoField /\ q.recommended # NoField /\ p.recommended < q.recommended
    \/ q = [p EXCEPT !.risk = q.risk] /\ p.risk # NoField /\ q.risk # NoField /\ p.risk < q.risk
    \/ q = [p EXCEPT !.confidence = q.confidence] /\ p.confidence \notin {NoField, 0} /\ q.confidence \notin {NoField, 0} /\ p.confidence > q.confidence
    \/ q = [p EXCEPT !.warned = TRUE] /\ ~p.warned
BetterNeverLoses ==
    local.stage = "built" =>
        \A k \in DOMAIN Modes, c \in Categories :
            LET pool == Pool(c)
                pick == local.picked[k][c]
            IN  \A i \in DOMAIN pool : (pick # 0 /\ Better(pool[i], pool[pick])) => i \notin Candidates(pool, c, Modes[k])

\* A build answered within the budget, of parts that all have a recommended price and
\* with a power supply that is known to suffice, is found valid when it is sent back.
OfferedValidates ==
    local.stage = "validated" =>
        \A i \in DOMAIN local.builds :
            LET b == local.builds[i]
            IN  (/\ b.status = "under_budget"
                 /\ \A c \in Categories : Picked(b.mode)[c].recommended # NoField
                 /\ "PSU" \in Categories => Picked(b.mode)["PSU"].watts # NoField /\ Picked(b.mode)["PSU"].watts >= 650) => i \in local.valid

\* A region's answer: enough data gives a whole build, of the best there is, that
\* still validates.
RegionServesWhole == EnoughIsEnough /\ BetterNeverLoses /\ OfferedValidates
=============================================================================
