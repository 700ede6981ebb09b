-------------------------------- MODULE Pruning --------------------------------
(***************************************************************************)
(* The operator's cleaning of the graph (ops_repository.py): a prune is     *)
(* previewed, signed and executed in batches, and old price snapshots are   *)
(* given their regional label.  Every query is a step of its own: the rest  *)
(* of the program writes and ingests between them.         A signed preview *)
(* says which labels and how many days, not which nodes.                    *)
(***************************************************************************)
EXTENDS Integers, FiniteSets, FiniteSetsExt

CONSTANTS
    Nodes,
    LabelsOf,      \* the labels of each node
    ProductionCritical,      \* PRODUCTION_CRITICAL_LABELS
    SafeByDefault, \* DEFAULT_SAFE_PRUNE_LABELS
    Undated,       \* labels whose nodes have none of the five fields that tell an age
    Present,       \* the nodes written before the first request
    Beside,        \* nodes that are written with a link to a product, a price or a saved build
    Asked,         \* include_labels of the requests
    Retention,     \* retention_days
    BatchSize,
    Cleaners,      \* requests of the operator, one each: a bound
    Gone, NoCount,
    Old,           \* price snapshots from before the regional label
    MaxTime, MaxSnapshots  \* bounds: the clock, the price snapshots

ASSUME CleaningAssumption ==
    /\ ProductionCritical \cap SafeByDefault = {} /\ Retention \in Nat \ {0} /\ BatchSize \in Nat \ {0}
    /\ MaxSnapshots \in Nat /\ Old \in 0..MaxSnapshots
    /\ IsFiniteSet(Nodes) /\ Present \cup Beside \subseteq Nodes

VARIABLES
    born,      \* when each node was written (0 for those that keep no date), or Gone
    snapshots, \* [all, bare]: price snapshots, and those without the regional label
    now,
    cleaning   \* where each request is
cleaningVars == <<born, snapshots, now, cleaning>>

Unasked == [at |-> "idle", quiet |-> FALSE]
Closed == [at |-> "over", quiet |-> FALSE]
InGraph == {n \in Nodes : born[n] # Gone}
Total == Cardinality(InGraph) + snapshots.all

\* _safe_prune_labels
SafeLabels(asked) == (IF asked = {} THEN SafeByDefault ELSE asked) \ ProductionCritical

Younger(n, cutoff) == LabelsOf[n] \cap Undated # {} \/ born[n] >= cutoff
OldEnough(n, cutoff) == LabelsOf[n] \cap Undated # {} \/ born[n] < cutoff
PrunableIfAsked(labels, cutoff) ==
    {n \in InGraph \ Beside : LabelsOf[n] \cap labels # {} /\ OldEnough(n, cutoff)}
PrunableBeside(labels, cutoff) ==
    {n \in InGraph : LabelsOf[n] \cap labels # {} /\ LabelsOf[n] \cap ProductionCritical = {} /\ OldEnough(n, cutoff)}
\* The nodes that the preview counts and that a batch takes from.
Prunable(labels, cutoff) ==
    {n \in InGraph \ Beside : LabelsOf[n] \cap labels # {} /\ LabelsOf[n] \cap ProductionCritical = {} /\ OldEnough(n, cutoff)}

Noticed == [k \in Cleaners |-> [cleaning[k] EXCEPT !.quiet = FALSE]]
\* The step of c: the others no longer find the graph as they saw it.
Acts(c, record) == cleaning' = [Noticed EXCEPT ![c] = record]
Looks(c, record) == cleaning' = [cleaning EXCEPT ![c] = record]
CleaningInit ==
    /\ born = [n \in Nodes |-> IF n \in Present THEN 0 ELSE Gone] /\ now = 0
    /\ snapshots = [all |-> Old, bare |-> Old]
    /\ cleaning = [c \in Cleaners |-> Unasked]

-----------------------------------------------------------------------------
\* The rest of the program.  A second write of a node keeps what it was created with.
WriteNode(n) ==
    /\ born[n] = Gone
    /\ born' = [born EXCEPT ![n] = IF LabelsOf[n] \cap Undated = {} THEN now ELSE 0]
    /\ cleaning' = Noticed /\ UNCHANGED <<snapshots, now>>

\* An ingested snapshot is created with both labels.
IngestBare ==
    /\ snapshots.all < MaxSnapshots
    /\ snapshots' = [all |-> snapshots.all + 1, bare |-> snapshots.bare + 1]
    /\ cleaning' = Noticed /\ UNCHANGED <<born, now>>
IngestSnapshot ==
    /\ snapshots.all < MaxSnapshots
    /\ snapshots' = [snapshots EXCEPT !.all = @ + 1]
    /\ cleaning' = Noticed /\ UNCHANGED <<born, now>>

DayPasses ==
    /\ now < MaxTime /\ now' = now + 1
    /\ cleaning' = Noticed /\ UNCHANGED <<born, snapshots>>

-----------------------------------------------------------------------------
\* neo4j_prune_preview: the total first, then the nodes that match.
CountNodes(c, asked) ==
    /\ cleaning[c].at = "idle"
    /\ Looks(c, [at |-> "counted", quiet |-> TRUE, labels |-> SafeLabels(asked), total |-> Total])
    /\ UNCHANGED <<born, snapshots, now>>

SignPreview(c) ==
    /\ cleaning[c].at = "counted"
    /\ LET would == Cardinality(Prunable(cleaning[c].labels, now - Retention))
       IN  Looks(c, [at |-> "previewed", quiet |-> cleaning[c].quiet, labels |-> cleaning[c].labels,
                     would |-> would, remaining |-> Max({cleaning[c].total - would, 0})])
    /\ UNCHANGED <<born, snapshots, now>>

\* neo4j_prune_execute with approved=true: the scope is what was signed, the day is
\* today's, and the nodes are counted again.
ApprovePrune(c) ==
    /\ cleaning[c].at \in {"previewed", "pruned"}
    /\ LET p == cleaning[c]
           cutoff == now - Retention
       IN  Looks(c, IF p.labels = {} \/ p.labels \cap ProductionCritical # {} THEN Closed
                    ELSE [at |-> "pruning", quiet |-> p.quiet, labels |-> p.labels, cutoff |-> cutoff, deleted |-> 0,
                          would |-> p.would, remaining |-> p.remaining,
                          promised |-> Cardinality(Prunable(p.labels, cutoff))])
    /\ UNCHANGED <<born, snapshots, now>>

EndsWhenEmpty(p, size) == size = 0
\* When the loop breaks.
Ends(p, size) == size = 0 \/ p.deleted + size >= p.promised

\* A batch: as many as there are, in no order, with their relationships.
DeleteBatch(c) ==
    /\ cleaning[c].at = "pruning"
    /\ LET p == cleaning[c]
           found == Prunable(p.labels, p.cutoff)
           size == Min({BatchSize, Cardinality(found)})
       IN  \E batch \in kSubset(size, found) :
              /\ born' = [n \in Nodes |-> IF n \in batch THEN Gone ELSE born[n]]
              /\ LET q == IF Ends(p, size) THEN [at |-> "pruned", quiet |-> FALSE, labels |-> p.labels, would |-> 0, remaining |-> 0]
                          ELSE [p EXCEPT !.deleted = @ + size]
                 IN  IF batch = {} THEN Looks(c, q) ELSE Acts(c, q)
    /\ UNCHANGED <<snapshots, now>>

\* A query raises: what earlier batches deleted stays deleted; the preview may be lost to the operator.
GiveUp(c) ==
    /\ cleaning[c].at \notin {"idle", "over"} /\ Looks(c, Closed)
    /\ UNCHANGED <<born, snapshots, now>>

-----------------------------------------------------------------------------
\* regional_price_snapshot_label_preview and _execute; the count that was seen may be sent along.
PreviewLabels(c) ==
    /\ cleaning[c].at = "idle"
    /\ \E count \in {snapshots.bare, NoCount} : Looks(c, [at |-> "labelling", quiet |-> TRUE, confirmed |-> count])
    /\ UNCHANGED <<born, snapshots, now>>

ConfirmCount(c) ==
    /\ cleaning[c].at = "labelling"
    /\ Looks(c, IF cleaning[c].confirmed \in {snapshots.bare, NoCount} THEN [cleaning[c] EXCEPT !.at = "confirmed"] ELSE Closed)
    /\ UNCHANGED <<born, snapshots, now>>

\* _price_snapshot_totals before: the sums of prices move only with the number of snapshots.
TotalBefore(c) ==
    /\ cleaning[c].at = "confirmed"
    /\ Looks(c, [at |-> "totalled", quiet |-> TRUE, confirmed |-> cleaning[c].confirmed, before |-> snapshots.all])
    /\ UNCHANGED <<born, snapshots, now>>

SetLabels(c) ==
    /\ cleaning[c].at = "totalled"
    /\ snapshots' = [snapshots EXCEPT !.bare = 0]
    /\ Looks(c, [at |-> "labelled", quiet |-> cleaning[c].quiet, confirmed |-> cleaning[c].confirmed,
                 before |-> cleaning[c].before, labelled |-> snapshots.bare])
    /\ UNCHANGED <<born, now>>

TotalAfter(c) ==
    /\ cleaning[c].at = "labelled"
    /\ Looks(c, [at |-> "answered", quiet |-> cleaning[c].quiet, confirmed |-> cleaning[c].confirmed,
                 labelled |-> cleaning[c].labelled, left |-> snapshots.bare,
                 unchanged |-> cleaning[c].before = snapshots.all])
    /\ UNCHANGED <<born, snapshots, now>>

CleaningDone == (\A c \in Cleaners : cleaning[c].at \in {"over", "answered"}) /\ UNCHANGED cleaningVars

CleaningNext ==
    \/ CleaningDone
    \/ \E n \in Nodes : WriteNode(n)
    \/ IngestSnapshot \/ DayPasses
    \/ \E c \in Cleaners :
          \/ \E asked \in Asked : CountNodes(c, asked)
          \/ SignPreview(c) \/ ApprovePrune(c) \/ DeleteBatch(c) \/ GiveUp(c)
          \/ PreviewLabels(c) \/ ConfirmCount(c) \/ TotalBefore(c) \/ SetLabels(c) \/ TotalAfter(c)
CleaningSpec == CleaningInit /\ [][CleaningNext]_cleaningVars

-----------------------------------------------------------------------------
Deleted == {n \in InGraph : born'[n] = Gone}

\* Whoever executes which preview, however late and beside whom: no production node,
\* no node beside a product, a price or a build, and no dated node that is younger
\* than the retention is deleted.
KeepsWhatMatters ==
    \A n \in Deleted :
        /\ LabelsOf[n] \cap ProductionCritical = {} /\ n \notin Beside
        /\ LabelsOf[n] \cap Undated # {} \/ born[n] < now - Retention

\* A prune takes less than a batch over what its own count promised, ends short of it
\* only when nothing is left to take, and does exactly what the preview said when
\* nothing happened in the meantime.
DoesWhatItCounted ==
    \A c \in Cleaners : cleaning[c].at = "pruning" /\ cleaning'[c].at = "pruned" =>
        LET p == cleaning[c]
            deleted == p.deleted + Cardinality(Deleted)
        IN  /\ deleted < Max({p.promised, 1}) + BatchSize
            /\ deleted < p.promised => Prunable(p.labels, p.cutoff) = {}
            /\ p.quiet => deleted = p.would /\ Total' = p.remaining

\* Labels go to what was confirmed or, when another request was first, to nothing;
\* none is left without one; the totals differ only because prices were ingested.
LabelsAsConfirmed ==
    \A c \in Cleaners : cleaning[c].at = "answered" =>
        LET a == cleaning[c]
        IN  /\ a.confirmed = NoCount \/ a.labelled \in {0, a.confirmed}
            /\ a.left = 0
            /\ a.quiet => a.unchanged

\* Cleaning the graph does what the operator was shown and approved.
CleansWhatWasShown == [][KeepsWhatMatters /\ DoesWhatItCounted /\ LabelsAsConfirmed']_cleaningVars
=============================================================================
