-------------------------------- MODULE MCBuilds --------------------------------
(***************************************************************************)
(* What is sold, what is built of it and what is kept of builds: listings   *)
(* and what they are listings of, the solver, the builds of a region, the   *)
(* workspace and the limiter its saves pass.  They share no state but the   *)
(* refusals, which the workspace takes for failures: one of them runs.      *)
(***************************************************************************)
EXTENDS MCListings, BuildSolver, RegionalBuilds, UserBuilds, RateLimiter

VARIABLE part

-----------------------------------------------------------------------------
\* One component of each kind that fit together, and what there may be beside it.
NoPorts == [p \in Ports |-> 0]
Some == [NoPorts EXCEPT !["usb20"] = 1, !["gen1"] = 1]
Many == [NoPorts EXCEPT !["gen2x2"] = 1]
Cpu == [kind |-> "CPU", id |-> "cpu", price |-> 3, draw |-> 10, blocks |-> {}, volume |-> {}, requires |-> "AM5", socket |-> "AM5", lanes |-> 20, speed |-> 30]
Board == [kind |-> "Motherboard", id |-> "board", price |-> 2, draw |-> Unknown, blocks |-> {}, volume |-> {}, socket |-> "AM5", memory |-> "DDR5", form |-> "ATX",
          lanes |-> 4, headers |-> Some, gbps |-> 10]
Ram == [kind |-> "RAM", id |-> "ram", price |-> 1, draw |-> 1, blocks |-> {}, volume |-> {}, memory |-> "DDR5", qvl |-> {"board", "open", "small"}]
Gpu == [kind |-> "GPU", id |-> "gpu", price |-> 4, draw |-> 20, blocks |-> {}, volume |-> {1}, length |-> 30, need |-> 16, speed |-> 30]
Ssd == [kind |-> "Storage", id |-> "ssd", price |-> 1, draw |-> 1, blocks |-> {}, volume |-> {}, need |-> 4]
Fan == [kind |-> "Cooler", id |-> "fan", price |-> 1, draw |-> 1, blocks |-> {}, volume |-> {}, height |-> 15, capacity |-> 12, sockets |-> {"AM5"}]
Box == [kind |-> "Case", id |-> "box", price |-> 1, draw |-> Unknown, blocks |-> {}, volume |-> {}, forms |-> {"ATX", "ITX"}, clearance |-> 30, tall |-> 15,
        ports |-> Some]
Psu == [kind |-> "PSU", id |-> "psu", price |-> 1, draw |-> Unknown, blocks |-> {}, volume |-> {}, watts |-> 53]
Usual == [k \in Range(Order) |->
            CASE k = "CPU" -> Cpu [] k = "Motherboard" -> Board [] k = "RAM" -> Ram [] k = "GPU" -> Gpu
              [] k = "Storage" -> Ssd [] k = "Cooler" -> Fan [] k = "Case" -> Box [] OTHER -> Psu]
Others == [k \in Range(Order) |->
    CASE k = "CPU" -> {[Cpu EXCEPT !.id = "intel", !.requires = "LGA", !.socket = "LGA"], [Cpu EXCEPT !.id = "hot", !.draw = 11, !.price = 2, !.speed = 40],
                       [Cpu EXCEPT !.id = "bare", !.requires = Unknown]}
      [] k = "Motherboard" -> {[Board EXCEPT !.id = "open", !.form = Unknown], [Board EXCEPT !.id = "small", !.form = "ITX", !.price = Unknown],
                               [Board EXCEPT !.id = "lga", !.socket = "LGA"]}
      [] k = "RAM" -> {[Ram EXCEPT !.id = "new", !.qvl = {}], [Ram EXCEPT !.id = "old", !.memory = "DDR4"], [Ram EXCEPT !.id = "gold", !.price = 12]}
      [] k = "GPU" -> {[Gpu EXCEPT !.id = "long", !.length = 31, !.speed = 60], [Gpu EXCEPT !.id = "odd", !.length = Unknown, !.price = 3], [Gpu EXCEPT !.id = "slow", !.price = 3, !.speed = 20],
                       [Gpu EXCEPT !.id = "big", !.draw = 24, !.price = 9, !.speed = 50]}
      [] k = "Storage" -> {[Ssd EXCEPT !.id = "two", !.need = 8], [Ssd EXCEPT !.id = "dear", !.price = 6]}
      [] k = "Cooler" -> {[Fan EXCEPT !.id = "lgafan", !.sockets = {"LGA"}, !.price = 0], [Fan EXCEPT !.id = "wide", !.volume = {1}, !.price = 0],
                          [Fan EXCEPT !.id = "water", !.capacity = 20, !.blocks = {"box"}]}
      [] k = "Case" -> {[Box EXCEPT !.id = "vague", !.forms = {}], [Box EXCEPT !.id = "roomy", !.clearance = Unknown], [Box EXCEPT !.id = "fast", !.ports = Many],
                        [Box EXCEPT !.id = "flat", !.tall = 14]}
      [] OTHER -> {[Psu EXCEPT !.id = "weak", !.watts = 52], [Psu EXCEPT !.id = "strong", !.watts = 80, !.price = 5]}]
Kinds == Range(Order)
MCComponent == LET all == {Usual[k] : k \in Kinds} \cup UNION {Others[k] : k \in Kinds}
               IN  [id \in {c.id : c \in all} |-> CHOOSE c \in all : c.id = id]
\* Of two kinds, none, the usual one or another one; of the first also both, in one of
\* two orders.
Single(k) == {<<Usual[k].id>>} \cup {<<o.id>> : o \in Others[k]}
Couple(k) == {<<Usual[k].id, o.id>> : o \in Others[k]} \cup {<<o.id, Usual[k].id>> : o \in Others[k]}
Rich == {<<"GPU", "Storage">>, <<"Case", "Cooler">>, <<"PSU", "Motherboard">>}
MCShelves == {row \in Kinds \X Kinds : row[1] # row[2]}
MCStock(a, b) == {[[k \in Kinds |-> <<Usual[k].id>>] EXCEPT ![a] = x, ![b] = y] : x \in {<<>>} \cup Couple(a), y \in Single(b) \cup (IF <<a, b>> \in Rich THEN Couple(b) ELSE {})}
MCWishes == {[budget |-> b, noise |-> "balanced", size |-> Unknown] : b \in {10, 14}}
            \cup {[budget |-> 16, noise |-> "quiet", size |-> Unknown], [budget |-> 16, noise |-> "performance", size |-> "ITX"]}
MCSpeed(parts) == Min({The(parts, "CPU").speed, The(parts, "GPU").speed})
MCImbalance(parts) == Max({The(parts, "CPU").speed - The(parts, "GPU").speed, The(parts, "GPU").speed - The(parts, "CPU").speed})

-----------------------------------------------------------------------------
\* Markets of one category.
Good(c) ==
    [category |-> c, recommended |-> 12, lowest |-> 10, sar |-> TRUE, identity |-> TRUE, severe |-> FALSE, risk |-> 30, lowestRisk |-> 60,
     confidence |-> 80, level |-> "recommended", shown |-> "active", near |-> FALSE, brand |-> "known", warned |-> FALSE,
     exact |-> FALSE, family |-> TRUE, watts |-> 750]
\* A listing of the category is one of three bases, with at most one of the changes.
Bases(c) ==
    <<Good(c), [Good(c) EXCEPT !.recommended = NoField, !.risk = NoField, !.level = "insufficient_data"], [Good(c) EXCEPT !.warned = TRUE]>>
Changes ==
    << <<"recommended", NoField>>, <<"recommended", 6>>, <<"recommended", 20>>, <<"lowest", NoField>>, <<"lowest", 6>>, <<"lowest", 30>>,
       <<"sar", FALSE>>, <<"identity", FALSE>>, <<"severe", TRUE>>, <<"risk", 0>>, <<"risk", 75>>, <<"risk", 90>>,
       <<"lowestRisk", NoField>>, <<"lowestRisk", 75>>, <<"confidence", NoField>>, <<"confidence", 0>>, <<"confidence", 20>>, <<"confidence", 90>>,
       <<"level", "acceptable_with_risk">>, <<"shown", "stale">>, <<"shown", "unavailable">>, <<"near", TRUE>>, <<"brand", "liked">>,
       <<"warned", TRUE>>, <<"exact", TRUE>>, <<"watts", NoField>>, <<"watts", 550>> >>
Listing(c, code) ==
    LET base == Bases(c)[code[1]]
    IN  IF code[2] = 0 THEN base ELSE [base EXCEPT ![Changes[code[2]][1]] = Changes[code[2]][2]]
\* Each market differs from a good one in one category, of at most two listings.
Codes == (1..2) \X (0..Len(Changes))
Bare == {<<1, 0>>, <<2, 0>>, <<3, 0>>}
Pairs(S, T) == {<<p, q>> : p \in S, q \in T} \cup {<<q, p>> : p \in S, q \in T}
Few == {<<1, v>> : v \in {2, 3, 11, 18, 25}}
MCMarkets == Categories \X ({<<>>} \cup {<<p>> : p \in Codes} \cup Pairs(Bare, Codes) \cup Pairs(Few, Few))
MCPools ==
    [m \in MCMarkets |-> [c \in Categories |-> IF c = m[1] THEN [i \in DOMAIN m[2] |-> Listing(c, m[2][i])] ELSE <<Good(c)>>]]
MCOrders ==
    [budget : {20, 52}, strict : BOOLEAN, resolution : {"1080p"}, priority : {"upgrade_path"}, brands : {{}}]
    \cup [budget : {52}, strict : {TRUE}, resolution : {"1440p"}, priority : {"quiet_build"}, brands : {{"liked"}}]

-----------------------------------------------------------------------------
Names == Permutations(Pages) \cup Permutations(Calls)
Off == [stage |-> "off"]
Init ==
    /\ BuildsInit /\ LimiterInit
    /\ \/ part \in {"builds", "limiter"} /\ sale = Off /\ search = Off /\ local = Off /\ pair = Off
       \/ part = "listings" /\ ListingsInit /\ search = Off /\ local = Off /\ pair = Off
       \/ part = "solver" /\ SolverInit /\ sale = Off /\ local = Off /\ pair = Off
       \/ part = "region" /\ LocalInit /\ sale = Off /\ search = Off /\ pair = Off
       \/ part = "identity" /\ IdentityInit /\ sale = Off /\ search = Off /\ local = Off
Next ==
    /\ UNCHANGED part
    /\ \/ part = "builds" /\ BuildsNext /\ UNCHANGED <<limiterVars, sale, search, local, pair>>
       \/ part = "limiter" /\ LimiterNext /\ UNCHANGED <<buildVars, sale, search, local, pair>>
       \/ part = "listings" /\ ListingsNext /\ UNCHANGED <<buildVars, limiterVars, search, local, pair>>
       \/ part = "solver" /\ SolverNext /\ UNCHANGED <<buildVars, limiterVars, sale, local, pair>>
       \/ part = "region" /\ LocalNext /\ UNCHANGED <<buildVars, limiterVars, sale, search, pair>>
       \/ part = "identity" /\ IdentityNext /\ UNCHANGED <<buildVars, limiterVars, sale, search, local>>
Spec == Init /\ [][Next]_<<part, buildVars, limiterVars, sale, search, local, pair>>
=============================================================================
