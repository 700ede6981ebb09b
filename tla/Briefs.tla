--------------------------------- MODULE Briefs ---------------------------------
(***************************************************************************)
(* The founder's daily brief (OpsService.daily_report): it asks whether the *)
(* database answers and then reads it query by query while jobs move,       *)
(* approvals come and go, workers stop and the database goes away.  A read  *)
(* that raises leaves the brief with nothing instead (the _safe_ methods).  *)
(***************************************************************************)
EXTENDS Naturals, Sequences, FiniteSets, SequencesExt

CONSTANTS
    Mornings,     \* the situations a brief may begin in
    Sources,      \* the external sources that have a key
    Unset,        \* those of them whose key is not configured
    Activities,   \* what source_activity may find
    Offers,       \* Saudi offers ingested meanwhile
    JobWindow,    \* recent_jobs(30)
    AlertWindow,  \* approvals[:5]
    MaxEvents     \* bound: what happens while a brief is made

VARIABLE desk     \* the world and the brief that is made of it

Closed == [brief |-> [at |-> "none"]]
Levels == {"level_2", "level_3"}
Newest(s, n) == SubSeq(s, 1, IF Len(s) < n THEN Len(s) ELSE n)

KnownStatus(status) ==
    IF status = "completed" THEN "succeeded"
    ELSE IF status = "stale" THEN "cancelled" ELSE status
\* recent_jobs: the words of the two queues in the one the brief uses.
Normal(status) ==
    CASE status = "completed" -> "succeeded"
      [] status \in {"queued", "running", "succeeded", "failed", "retrying", "cancelled", "requires_approval"} -> status
      [] OTHER -> "failed"
RecentJobs(jobs) == [i \in DOMAIN Newest(jobs, JobWindow) |-> [jobs[i] EXCEPT !.status = Normal(@)]]
Failed(jobs) == {j \in ToSet(jobs) : j.status \in {"failed", "retrying", "requires_approval"}}

\* graph_health over graph_counts.
GraphIsFresh(w) == IF w.stale > 3 /\ w.stale * 5 > w.products THEN "watch" ELSE "healthy"
GraphStatus(w) ==
    IF w.pending # <<>> \/ (w.stale > 3 /\ w.stale * 5 > w.products) THEN "watch" ELSE "healthy"

\* saudi_market_quality_summary and saudi_build_readiness_summary.
Local(o) == o.vendor \in {"local_saudi_vendor", "local", "gcc_vendor"}
SafeOffer(o) == Local(o) /\ o.risk < 65 /\ o.priced /\ ~o.unusual
RiskyOffer(o) == o.imported \/ o.risk >= 65 \/ ~o.priced
Quality(market) ==
    LET of(p) == {o \in market : o.product = p}
        products == {o.product : o \in market}
        safe == {p \in products : \E o \in of(p) : SafeOffer(o)}
    IN  [recommended |-> safe, suspicious |-> {o \in market : o.unusual},
         risky |-> {p \in products \ safe : \E o \in of(p) : RiskyOffer(o)}]
NoQuality == [recommended |-> {}, suspicious |-> {}, risky |-> {}]
TrustedAnyRisk(o) == Local(o) /\ o.available
Trusted(o) == Local(o) /\ o.risk < 65 /\ o.priced /\ o.available
BuildReady(market) == {o.category : o \in {m \in market : Trusted(m)}}

(* The alerts, newest approvals first, and what is recommended.               *)
LevelSeverity(level) == IF level = "level_2" THEN "warning" ELSE "critical"
Alert(severity, reason) == [severity |-> severity, reason |-> reason]
Alerts(b) ==
    (IF b.connected THEN {} ELSE {Alert("critical", "Neo4j unavailable")})
    \cup {Alert(LevelSeverity(b.approvals[i].level), "Approval required") : i \in DOMAIN Newest(b.approvals, AlertWindow)}
    \cup {Alert("warning", "Worker stopped") : x \in b.stopped}
    \cup {Alert("warning", "Failed jobs need review") : j \in {k \in ToSet(b.jobs) : k.status = "failed"}}
    \cup {Alert("info", "Optional sources are not configured") : s \in Unset}
Recommended(b) ==
    {a \in {"Failed autonomous job", "Neo4j unavailable", "Saudi products have only risky options"} :
        \/ a = "Failed autonomous job" /\ Failed(b.jobs) # {}
        \/ a = "Neo4j unavailable" /\ ~b.connected
        \/ a = "Saudi products have only risky options" /\ b.quality.risky # {}}

HealthOfAlerts(b) ==
    IF \E a \in Alerts(b) : a.severity = "critical" THEN "critical" ELSE IF Alerts(b) # {} THEN "watch" ELSE "healthy"
SystemHealth(b) ==
    CASE ~b.connected \/ (\E a \in Alerts(b) : a.severity = "critical") -> "critical"
      [] Alerts(b) # {} -> "watch"
      [] Failed(b.jobs) # {} -> "degraded"
      [] OTHER -> "healthy"
WorkerStatus(b) == IF b.stopped # {} THEN "watch" ELSE "healthy"

(* What is wrong in the world, as far as a brief could tell.                   *)
Stopped(w) == {x \in DOMAIN w.workers : w.workers[x] = "stopped"}
Fine == {"queued", "running", "completed", "succeeded", "cancelled"}
Troubles(w) ==
    {<<"approval", a>> : a \in ToSet(w.pending)}
    \cup {<<"job", j.id>> : j \in {k \in ToSet(Newest(w.jobs, JobWindow)) : k.status \notin Fine}}
    \cup {<<"worker", x>> : x \in Stopped(w)}

NoBrief == [at |-> "graph", connected |-> FALSE, graph |-> "unavailable", stopped |-> {}, jobs |-> <<>>,
            approvals |-> <<>>, quality |-> NoQuality, ready |-> {}, saved |-> FALSE, lost |-> {}]

\* manager.verify(), before anything is read.
BriefsInit ==
    \E w \in Mornings :
        desk = [world |-> w, events |-> 0, stood |-> Troubles(w), ever |-> Troubles(w), fresh |-> {},
                brief |-> [NoBrief EXCEPT !.connected = w.up]]

(* The world goes on. stood, ever and fresh are history that only properties   *)
(* read: what was wrong all the time, at some time, and which offers came in.  *)
WorldGoesOn(w) ==
    /\ desk.events < MaxEvents
    /\ desk.brief.at # "out"
    /\ desk' = [desk EXCEPT !.world = w, !.events = @ + 1, !.stood = @ \cap Troubles(w), !.ever = @ \cup Troubles(w)]

\* A job's status changes and it becomes the one that was updated last.
JobMoves ==
    LET w == desk.world IN
    \E i \in DOMAIN w.jobs, status \in {"completed", "failed", "retrying", "stale", "odd"} :
        WorldGoesOn([w EXCEPT !.jobs = <<[w.jobs[i] EXCEPT !.status = status]>> \o RemoveAt(w.jobs, i)])
ApprovalStaged ==
    LET w == desk.world IN
    \E level \in Levels :
        WorldGoesOn([w EXCEPT !.pending = <<[id |-> w.next, level |-> level]>> \o @, !.next = @ + 1])
ApprovalResolved ==
    LET w == desk.world IN
    \E i \in DOMAIN w.pending : WorldGoesOn([w EXCEPT !.pending = RemoveAt(@, i)])
WorkerStops ==
    LET w == desk.world IN
    \E x \in DOMAIN w.workers : w.workers[x] = "running" /\ WorldGoesOn([w EXCEPT !.workers[x] = "stopped"])
DatabaseGoesOrReturns == WorldGoesOn([desk.world EXCEPT !.up = ~@])
OfferIngested ==
    \E o \in Offers \ desk.world.market :
        /\ desk.brief.at # "out" /\ desk.events < MaxEvents /\ desk.world.up
        /\ desk' = [desk EXCEPT !.world.market = @ \cup {o}, !.events = @ + 1, !.fresh = @ \cup {o}]

(* The reads, in their order; a query raises when the database is away.        *)
Answers == desk.brief.connected /\ desk.world.up
Lost(what) == IF desk.brief.connected /\ ~desk.world.up THEN {what} ELSE {}
CountGraph ==
    /\ desk.brief.at = "graph"
    /\ desk' = [desk EXCEPT !.brief.at = "workers", !.brief.lost = @ \cup Lost("graph"),
                 !.brief.graph = IF Answers THEN GraphStatus(desk.world)
                                 ELSE IF desk.brief.connected THEN "degraded" ELSE "unavailable"]
LookAtWorkers ==
    /\ desk.brief.at = "workers"
    /\ desk' = [desk EXCEPT !.brief.at = "jobs", !.brief.stopped = Stopped(desk.world)]
ReadJobs ==
    /\ desk.brief.at = "jobs"
    /\ desk' = [desk EXCEPT !.brief.at = "approvals", !.brief.lost = @ \cup Lost("job"),
                 !.brief.jobs = IF Answers THEN RecentJobs(desk.world.jobs) ELSE <<>>]
ReadApprovals ==
    /\ desk.brief.at = "approvals"
    /\ desk' = [desk EXCEPT !.brief.at = "quality", !.brief.lost = @ \cup Lost("approval"),
                 !.brief.approvals = IF Answers THEN desk.world.pending ELSE <<>>]
ReadQuality ==
    /\ desk.brief.at = "quality"
    /\ desk' = [desk EXCEPT !.brief.at = "readiness", !.brief.lost = @ \cup Lost("quality"), !.fresh = {},
                 !.brief.quality = IF Answers THEN Quality(desk.world.market) ELSE NoQuality]
ReadReadiness ==
    /\ desk.brief.at = "readiness"
    /\ desk' = [desk EXCEPT !.brief.at = "save",
                 !.brief.ready = IF Answers THEN BuildReady(desk.world.market) ELSE {}]
\* upsert_daily_report, whose failure nobody sees.
Deliver ==
    /\ desk.brief.at = "save"
    /\ desk' = [desk EXCEPT !.brief.at = "out", !.brief.saved = Answers]
\* The founder has read it.
Read == desk.brief.at = "out" /\ UNCHANGED desk

BriefsNext ==
    \/ JobMoves \/ ApprovalStaged \/ ApprovalResolved \/ WorkerStops \/ DatabaseGoesOrReturns \/ OfferIngested
    \/ CountGraph \/ LookAtWorkers \/ ReadJobs \/ ReadApprovals \/ ReadQuality \/ ReadReadiness \/ Deliver \/ Read

(* source_activity and source_config: stored are the sources with prices, an   *)
(* error is the sources its text names; each says when, the newest error first. *)
ErrorSources == <<"SerpAPI", "eBay", "BestBuy", "Amazon">>
BlamesAll(error, s) == s \in error.names
Blames(error, s) ==
    \E i \in DOMAIN ErrorSources :
        ErrorSources[i] = s /\ s \in error.names /\ \A k \in 1..(i - 1) : ErrorSources[k] \notin error.names
\* _activity_for_source: the keys of stored prices come before those of errors,
\* and the first key that fits is taken alone.
ActivityOf(c, s) ==
    LET errors == SelectSeq(c.errors, LAMBDA e : Blames(e, s))
    IN  CASE s \in DOMAIN c.stored -> [success |-> c.stored[s], failure |-> 0]
          [] errors # <<>> -> [success |-> 0, failure |-> errors[1].when]
          [] OTHER -> [success |-> 0, failure |-> 0]
SourceShown(c, s) ==
    LET a == ActivityOf(c, s) IN
    CASE s \in Unset -> "not_configured"
      [] a.failure > 0 /\ a.success = 0 -> "failed"
      [] a.failure > a.success /\ a.success > 0 -> "degraded"
      [] a.success > 0 -> "healthy"
      [] OTHER -> "configured"

-----------------------------------------------------------------------------
\* What was wrong all the while, and was read, is not in a healthy brief.
StandingIsTold(b) ==
    \A t \in desk.stood : t[1] \notin b.lost => SystemHealth(b) # "healthy"
\* A critical approval that waited all the while makes the brief critical, unless
\* newer ones fill the alerts; and nothing else does but an absent database.
CriticalIsCritical(b) ==
    LET waiting(ts) == {t \in ts : t[1] = "approval"} IN
    /\ \A t \in waiting(desk.stood) :
          (/\ t[2].level = "level_3" /\ b.connected /\ "approval" \notin b.lost
           /\ Cardinality({u \in waiting(desk.ever) : u[2].id > t[2].id}) < AlertWindow)
          => SystemHealth(b) = "critical"
    /\ SystemHealth(b) = "critical" /\ b.connected => \E t \in waiting(desk.ever) : t[2].level = "level_3"
    /\ ~b.connected => SystemHealth(b) = "critical" /\ "Neo4j unavailable" \in Recommended(b) /\ ~b.saved
\* The parts of one brief, read one after the other, agree on what stood.
PartsAgree(b) ==
    /\ b.graph = "healthy" => ~\E t \in desk.stood : t[1] = "approval"
    /\ WorkerStatus(b) = "healthy" => ~\E t \in desk.stood : t[1] = "worker"
    /\ SystemHealth(b) = "degraded" => Recommended(b) # {}
\* What the build generator would use, the market's summary counts as safe or as
\* suspicious, unless an offer came in between the two queries.
ReadyIsCounted(b) ==
    b.ready # {} /\ desk.fresh = {} /\ "quality" \notin b.lost
        => b.quality.recommended # {} \/ b.quality.suspicious # {}
\* One failure is one source's, that its text names, and a source is shown as
\* failed only if it never brought a price.
FailureHasOneSource ==
    \A c \in Activities :
        /\ \A e \in ToSet(c.errors) : Cardinality({s \in Sources : Blames(e, s)}) <= 1
        /\ \A s \in Sources : SourceShown(c, s) = "failed" =>
              s \notin DOMAIN c.stored /\ \E e \in ToSet(c.errors) : s \in e.names
        /\ \A s \in Sources \ Unset : c.errors # <<>> /\ c.errors[1].names = {s} /\ s \notin DOMAIN c.stored
              => SourceShown(c, s) = "failed" /\ ActivityOf(c, s).failure = c.errors[1].when

\* The brief tells the founder what is wrong, although it is read piece by piece.
BriefTells ==
    /\ desk.brief.at = "out" =>
          StandingIsTold(desk.brief) /\ CriticalIsCritical(desk.brief) /\ PartsAgree(desk.brief) /\ ReadyIsCounted(desk.brief)
    /\ FailureHasOneSource
=============================================================================
