------------------------------ MODULE BuildSolver ------------------------------
(***************************************************************************)
(* POST /build/generate: build_solver.py searches the components of the     *)
(* graph depth first, kind by kind, with checks of its own, and returns the *)
(* best of what compatibility.py then accepts.  The two judge apart from    *)
(* each other: the solver by properties and options, the engine by the      *)
(* relationships of the graph.  Prices are in hundreds, power in tens of    *)
(* watts; Unknown is a property that a component does not have.             *)
(***************************************************************************)
EXTENDS Integers, FiniteSetsExt, SequencesExt

CONSTANTS
    Unknown,
    Component,    \* what the graph has of each id,
    Wishes,       \* what may be asked: records [budget, noise, size],
    Shelves,      \* what the graph may hold: for two kinds of each row,
    Stock(_, _),  \* the catalogs that differ there, as the ids of each kind in order of priority,
    MaxValid,     \* MAX_VALID_SOLVER_BUILDS,
    Speed(_),     \* the frames that performance.py expects of a build,
    Imbalance(_)  \* and its penalty for a bottleneck

VARIABLE search

Order == <<"CPU", "Motherboard", "RAM", "GPU", "Storage", "Cooler", "Case", "PSU">>
Place(kind) == CHOOSE i \in DOMAIN Order : Order[i] = kind
Known(x) == x # Unknown
OrZero(x) == IF Known(x) THEN x ELSE 0
Has(parts, kind) == Len(parts) >= Place(kind)
The(parts, kind) == Component[parts[Place(kind)]]
Pair(parts, a, b) == Has(parts, a) /\ Has(parts, b)

Total(parts, value(_)) == FoldLeft(LAMBDA sum, id : sum + value(Component[id]), 0, parts)
Price(part) == OrZero(part.price)
Cost(parts) == Total(parts, Price)
Draw(parts) == LET draw(part) == OrZero(part.draw) IN Total(parts, draw)
Ports == {"usb20", "gen1", "gen2x2"}
Asked(case) == (48 * case.ports["usb20"] + 500 * case.ports["gen1"] + 2000 * case.ports["gen2x2"]) \div 100
-----------------------------------------------------------------------------
(* compatibility.py, on a complete selection: what fails in the graph.      *)
SocketMatches(cpu, board) == cpu.requires = board.socket
MemorySupported(ram, board) == ram.memory = board.memory
Validated(ram, board) == board.id \in ram.qvl
\* The query counts the socket of the processor, which it has found before it
\* looks for the cooler's: any row says that it is supported.
CoolerSupports(cooler, cpu) == cpu.requires # Unknown
FormFits(board, case) == case.forms = {} \/ board.form = Unknown \/ board.form \in case.forms
Fits(size, room) == (Known(size) /\ Known(room)) => size <= room
ThermalOk(cooler, cpu, percent) ==
    (Known(cooler.capacity) /\ Known(cpu.draw)) => 100 * cooler.capacity >= percent * cpu.draw
\* ceil((draw + 60) * 1.35)
RequiredWatts(parts) == ((Draw(parts) + 6) * 135 + 9) \div 10
PowerOk(parts, psu) == Known(psu.watts) => 10 * psu.watts >= RequiredWatts(parts)
LanesFit(cpu, board, users) ==
    (Known(cpu.lanes) /\ Known(board.lanes)) => Total(users, LAMBDA part : part.need) <= cpu.lanes + board.lanes
HeadersFit(board, case) == \A p \in Ports : case.ports[p] <= board.headers[p]
BandwidthFits(board, case) == Known(board.gbps) => Asked(case) <= board.gbps
Blocked(parts) == \E a, b \in Range(parts) : b \in Component[a].blocks
\* A volume is the set of cells that its box covers.
Collide(parts) == \E a, b \in Range(parts) : a # b /\ Component[a].volume \cap Component[b].volume # {}
Compatible(parts) ==
    LET cpu == The(parts, "CPU")
        board == The(parts, "Motherboard")
        ram == The(parts, "RAM")
        gpu == The(parts, "GPU")
        cooler == The(parts, "Cooler")
        case == The(parts, "Case")
    IN  /\ SocketMatches(cpu, board)
        /\ MemorySupported(ram, board) /\ Validated(ram, board)
        /\ FormFits(board, case) /\ Fits(gpu.length, case.clearance) /\ Fits(cooler.height, case.tall)
        /\ CoolerSupports(cooler, cpu) /\ ThermalOk(cooler, cpu, 115)
        /\ PowerOk(parts, The(parts, "PSU"))
        /\ LanesFit(cpu, board, <<parts[Place("GPU")], parts[Place("Storage")]>>)
        /\ HeadersFit(board, case) /\ BandwidthFits(board, case)
        /\ ~Blocked(parts) /\ ~Collide(parts)
-----------------------------------------------------------------------------
(* The solver's own judgement of a partial build.                           *)
Headroom(noise) == CASE noise = "quiet" -> 130 [] noise = "performance" -> 110 [] OTHER -> 115
PossiblePower(parts, psu) == Known(psu.watts) => 1000 * psu.watts >= (Draw(parts) + 6) * 1350
Possible(parts, noise) ==
    /\ Pair(parts, "CPU", "Motherboard") => The(parts, "CPU").socket = The(parts, "Motherboard").socket
    /\ Pair(parts, "RAM", "Motherboard") => The(parts, "RAM").memory = The(parts, "Motherboard").memory
    /\ Pair(parts, "Motherboard", "Case") => The(parts, "Motherboard").form \in The(parts, "Case").forms
    /\ Pair(parts, "GPU", "Case") => Fits(The(parts, "GPU").length, The(parts, "Case").clearance)
    /\ Pair(parts, "Cooler", "Case") => Fits(The(parts, "Cooler").height, The(parts, "Case").tall)
    /\ Pair(parts, "CPU", "Cooler") => ThermalOk(The(parts, "Cooler"), The(parts, "CPU"), Headroom(noise))
    /\ Pair(parts, "Motherboard", "Case") =>
          HeadersFit(The(parts, "Motherboard"), The(parts, "Case")) /\ BandwidthFits(The(parts, "Motherboard"), The(parts, "Case"))
    /\ Pair(parts, "CPU", "Motherboard") =>
          LanesFit(The(parts, "CPU"), The(parts, "Motherboard"), SelectSeq(parts, LAMBDA id : Component[id].kind \in {"GPU", "Storage"}))
    /\ Has(parts, "PSU") => PossiblePower(parts, The(parts, "PSU"))

\* _filtered_candidates: what the graph offers next to the parts chosen.
Offered(part, parts, size) ==
    CASE part.kind = "Motherboard" -> The(parts, "CPU").requires = part.socket /\ (size = Unknown \/ part.form = size)
      [] part.kind = "RAM" -> MemorySupported(part, The(parts, "Motherboard")) /\ Validated(part, The(parts, "Motherboard"))
      [] part.kind = "Case" -> /\ The(parts, "Motherboard").form # Unknown => The(parts, "Motherboard").form \in part.forms
                               /\ Known(The(parts, "GPU").length) => Known(part.clearance) /\ The(parts, "GPU").length <= part.clearance
                               /\ size # Unknown => size \in part.forms
      [] OTHER -> TRUE
Filtered(request, parts) ==
    SelectSeq(request.catalog[Order[Len(parts) + 1]], LAMBDA id : Offered(Component[id], parts, request.wish.size))

DearestFloor(catalog, d) ==
    FoldLeft(LAMBDA sum, kind : IF catalog[kind] = <<>> THEN sum ELSE sum + Max({Price(Component[id]) : id \in Range(catalog[kind])}),
             0, SubSeq(Order, d + 1, Len(Order)))
\* The least that the kinds after the first d can cost.
CostFloor(catalog, d) ==
    FoldLeft(LAMBDA sum, kind : IF catalog[kind] = <<>> THEN sum ELSE sum + Min({Price(Component[id]) : id \in Range(catalog[kind])}),
             0, SubSeq(Order, d + 1, Len(Order)))
Affordable(request, parts) ==
    100 * (Cost(parts) + CostFloor(request.catalog, Len(parts))) <= 145 * request.wish.budget
-----------------------------------------------------------------------------
(* _evaluate, in units of 1 / budget, without noise and longevity.          *)
Over(budget, cost) == Max({0, cost - budget})
Performance(request, parts) ==
    Speed(parts) * request.wish.budget - 900 * Over(request.wish.budget, Cost(parts)) - 24 * Cost(parts)
Score(request, parts) == Performance(request, parts) - Imbalance(parts) * request.wish.budget
Balanced(request, parts) ==
    2 * Score(request, parts) + 100 * Max({0, request.wish.budget - Cost(parts)}) - 3 * Imbalance(parts) * request.wish.budget
Value(request, parts) == (Speed(parts) * 1000) \div Max({1, Cost(parts)})
Leads(build, pool, rate) == \A other \in pool : rate[build] >= rate[other]
ChosenAgain(found, used, rate) ==
    LET pool == {b \in Range(found) : Compatible(b)}
        first == SelectSeq(found, LAMBDA b : b \in pool /\ Leads(b, pool, rate))
    IN  IF first = <<>> THEN {} ELSE {first[1]}
\* The first of them, in the order found, that the engine accepts and no label has.
Chosen(found, used, rate) ==
    LET pool == {b \in Range(found) : b \notin used /\ Compatible(b)}
        first == SelectSeq(found, LAMBDA b : b \in pool /\ Leads(b, pool, rate))
    IN  IF first = <<>> THEN {} ELSE {first[1]}
-----------------------------------------------------------------------------
SolverInit ==
    \E row \in Shelves, wish \in Wishes : \E catalog \in Stock(row[1], row[2]) :
        search = [stage |-> "search", request |-> [catalog |-> catalog, wish |-> wish],
                  parts |-> <<>>, todo |-> <<catalog["CPU"]>>, valid |-> <<>>, closest |-> <<>>, status |-> "none", builds |-> <<>>]

Depth == Len(search.parts)
Full == Len(search.valid) >= MaxValid
Searching == search.stage = "search" /\ ~Full
Retreat(s) == [s EXCEPT !.parts = Front(@), !.todo = Front(@)]

Try ==
    /\ Searching /\ Depth < Len(Order) /\ Last(search.todo) # <<>>
    /\ LET parts == Append(search.parts, Head(Last(search.todo)))
           rest == [search EXCEPT !.todo = Append(Front(@), Tail(Last(@)))]
       IN  search' = IF Possible(parts, search.request.wish.noise) /\ Affordable(search.request, parts)
                     THEN [rest EXCEPT !.parts = parts,
                                       !.todo = Append(@, IF Len(parts) < Len(Order) THEN Filtered(search.request, parts) ELSE <<>>)]
                     ELSE rest
Evaluate ==
    /\ Searching /\ Depth = Len(Order)
    /\ search' = Retreat(IF Cost(search.parts) <= search.request.wish.budget
                         THEN [search EXCEPT !.valid = Append(@, search.parts)]
                         ELSE [search EXCEPT !.closest = Append(@, search.parts)])
Back ==
    /\ Searching /\ Depth \in 1..(Len(Order) - 1) /\ Last(search.todo) = <<>>
    /\ search' = Retreat(search)

Labelled(label, found) == SetToSeq({[label |-> label, parts |-> b] : b \in found})
\* _select_multi_solution over the valid builds.
Selected ==
    LET r == search.request
        fast == Chosen(search.valid, {}, [b \in Range(search.valid) |-> Performance(r, b)])
        cheap == Chosen(search.valid, fast, [b \in Range(search.valid) |-> Value(r, b)])
        even == Chosen(search.valid, fast \cup cheap, [b \in Range(search.valid) |-> Balanced(r, b)])
    IN  Labelled("best_performance", fast) \o Labelled("best_value", cheap) \o Labelled("balanced", even)
Nearest == Labelled("closest_valid", Chosen(search.closest, {}, [b \in Range(search.closest) |-> -Cost(b)]))
Answer ==
    /\ search.stage = "search"
    /\ Full \/ (Depth = 0 /\ search.todo[1] = <<>>)
    /\ LET builds == IF search.valid # <<>> THEN Selected ELSE Nearest
       IN  search' = [search EXCEPT !.stage = "answered", !.builds = builds,
                                    !.status = IF builds = <<>> THEN "no_solution"
                                               ELSE IF search.valid # <<>> THEN "valid" ELSE "closest_valid"]
Answered == search.stage = "answered" /\ UNCHANGED search
SolverNext == Try \/ Evaluate \/ Back \/ Answer \/ Answered
-----------------------------------------------------------------------------
\* Every complete build of the catalog.
AllBuilds(catalog) ==
    {[i \in DOMAIN Order |-> catalog[Order[i]][pick[i]]] :
        pick \in {p \in [DOMAIN Order -> 1..2] : \A i \in DOMAIN Order : p[i] <= Len(catalog[Order[i]])}}
Complete(request, b) ==
    /\ The(b, "Motherboard").form # Unknown /\ The(b, "Case").forms # {}
    /\ Known(The(b, "Case").clearance) /\ request.wish.noise # "quiet" /\ request.wish.size = Unknown
    /\ The(b, "CPU").socket = The(b, "CPU").requires

\* The solver's checks are hints and the engine decides: a build that the engine
\* accepts and that is within the budget is found, whatever was pruned on the way,
\* unless enough were found before, its dimensions are not known, or a quieter
\* cooler or a size was asked for.
LosesNothing ==
    (search.stage = "answered" /\ ~Full) =>
        \A b \in AllBuilds(search.request.catalog) :
            (Complete(search.request, b) /\ Compatible(b) /\ Cost(b) <= search.request.wish.budget) => b \in Range(search.valid)

\* What is answered is worth what it is called: a build called valid is within the
\* budget and its power supply carries what the parts draw; the nearest is only
\* answered when nothing within the budget was found; three labels are three builds.
AnswerHoldsWater ==
    search.stage = "answered" =>
        /\ \A i \in DOMAIN search.builds :
              LET b == search.builds[i]
              IN  /\ search.status = "valid" => Cost(b.parts) <= search.request.wish.budget
                  /\ search.status = "closest_valid" => Cost(b.parts) > search.request.wish.budget
                  /\ Known(The(b.parts, "PSU").watts) => 100 * (The(b.parts, "PSU").watts - 6) >= 135 * Draw(b.parts)
                  /\ \A j \in DOMAIN search.builds : i # j => search.builds[j].parts # b.parts
        /\ search.status = "closest_valid" => search.valid = <<>>

\* No build found and accepted is faster for the money than the one called so, and
\* none but that one gives more for each coin than the one called best value.
LabelsRank ==
    search.stage = "answered" =>
        LET r == search.request
            accepted == {b \in Range(search.valid) : Compatible(b)}
            called(label) == {search.builds[i].parts : i \in {j \in DOMAIN search.builds : search.builds[j].label = label}}
        IN  \A b \in accepted :
              /\ \A f \in called("best_performance") : Performance(r, f) >= Performance(r, b)
              /\ \A v \in called("best_value") : b \in called("best_performance") \/ Value(r, v) >= Value(r, b)
              /\ (accepted # {} => called("best_performance") # {})

\* The cooler of every build returned supports the socket of its processor
\* (compatibility.py:247 "Cooler supports CPU socket").
CoolerFits ==
    search.stage = "answered" =>
        \A i \in DOMAIN search.builds :
            The(search.builds[i].parts, "CPU").requires \in The(search.builds[i].parts, "Cooler").sockets

\* An answer is what it is called, and no build within the budget is missed on the way to it.
AnswersAreAsCalled == AnswerHoldsWater /\ LabelsRank /\ LosesNothing
=============================================================================
