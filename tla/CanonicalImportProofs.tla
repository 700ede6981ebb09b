------------------------ MODULE CanonicalImportProofs ------------------------
(***************************************************************************)
(* For any keys, specs, datasets and requests: what the canonical import    *)
(* keeps of products, staged records and marks.                             *)
(***************************************************************************)
EXTENDS CanonicalImport, FiniteSetTheorems, SequenceTheorems, WellFoundedInduction, TLAPS

-----------------------------------------------------------------------------
(* The inductive invariant: the ranges, with what a request has in hand.    *)
Kinds == {"import", "confirmed", "audit"}
Tellings == [kind : Kinds \cup {"fixture"}, specs : Specs]
StageItems == [key : Keys, record : StagedRecords]
EnrichItems == [key : Keys, record : StagedRecords, confirmed : Specs]
AuditItems == [key : Keys, specs : Specs, told : SUBSET Tellings]

OpFields == {"kind", "at", "todo", "done", "source", "approval", "rewritten", "restaged"}
CommitStages == {"next", "ask", "upsert", "evidence", "skipped", "conflict", "imported"}

StageOp(r) ==
    /\ r.kind = "stage" /\ r.source \in Sources /\ r.done \in Seq(StageItems)
    /\ \/ r.at = "judge" /\ r.todo \in Seq(Rows)
       \/ r.at = "write" /\ r.todo \in Seq(StageItems)
CommitOp(r) ==
    /\ r.kind = "commit" /\ r.approval \in BOOLEAN
    /\ r.todo \in Seq(StageItems) /\ r.at \in CommitStages
    /\ r.at # "next" => r.todo # <<>>
EnrichOp(r) ==
    /\ r.kind \in {"enrich", "enrichCpu"} /\ r.at \in {"write", "attach"}
    /\ r.todo \in Seq(EnrichItems)
    /\ r.at # "write" => r.todo # <<>>
AuditOp(r) ==
    /\ r.kind = "audit" /\ r.at \in {"next", "fix", "fixed", "conflict"}
    /\ r.todo \in Seq(AuditItems)
    /\ r.at # "next" => r.todo # <<>>

OpType(r) ==
    /\ DOMAIN r = OpFields
    /\ r.rewritten \subseteq Keys /\ r.restaged \subseteq Keys
    /\ StageOp(r) \/ CommitOp(r) \/ EnrichOp(r) \/ AuditOp(r)

TypeInv ==
    /\ staged \in [Keys -> StagedRecords \cup {NoRecord}]
    /\ product \in [Keys -> [here : BOOLEAN, specs : Specs, flawed : BOOLEAN]]
    /\ evidence \in [Keys -> SUBSET [kind : Kinds, specs : Specs]]
    /\ pending \in [Keys -> 0..MaxPending]
    /\ DOMAIN op = Ops

(* The queue of staged records holds each once.                             *)
OrderInv ==
    /\ order \in Seq(Keys) /\ ToSet(order) = Staged
    /\ \A i, j \in DOMAIN order : order[i] = order[j] => i = j

(* A product that is absent has no specs, and none comes of a rejected      *)
(* record.                                                                  *)
ProductInv == \A k \in Keys : ~product[k].flawed /\ (~product[k].here => product[k].specs = Nothing)

(* What the flags of a record say of its specs.                             *)
Ready(r) ==
    IF r.gpu THEN (r.exact => Has(r.specs, ExactFields)) /\ (r.family => Has(r.specs, FamilyFields))
             ELSE Has(r.specs, Required) /\ r.ready \in {"yes", "no"}
Sound(r) ==
    /\ r.status = "rejected" \/ ~r.flawed \/ r.confirmed
    /\ r.torn => r.moved
    /\ r.status = "valid" => ~r.rejected
    /\ r.status = "valid" /\ ~r.torn => Ready(r)
Known(p, specs) == IF p.here THEN Conflicts(p.specs, specs) ELSE {}

RecordInv ==
    \A k \in Keys : staged[k] # NoRecord =>
        /\ Sound(staged[k])
        /\ ~staged[k].moved => staged[k].conflicts = Known(product[k], staged[k].specs)

(* What a staging request has judged and not yet written.                   *)
Fresh(r) == Sound(r) /\ r.mark = "pending" /\ ~r.confirmed /\ ~r.moved /\ ~r.torn /\ ~r.raced
Judged(o, x) ==
    /\ Fresh(x.record)
    /\ x.key \notin op[o].rewritten => x.record.conflicts = Known(product[x.key], x.record.specs)
StageWell(o) == op[o].kind = "stage" =>
    /\ \A i \in DOMAIN op[o].done : Judged(o, op[o].done[i])
    /\ op[o].at = "write" => \A i \in DOMAIN op[o].todo : Judged(o, op[o].todo[i])

(* What a request read and has not yet written over itself.                 *)
Ahead(o) == IF op[o].at \in {"attach", "fixed"} THEN Tail(op[o].todo) ELSE op[o].todo
Distinct(s) == \A i, j \in DOMAIN s : s[i].key = s[j].key => i = j
AsRead(o, x) ==
    x.key \notin op[o].restaged =>
        /\ staged[x.key] # NoRecord
        /\ staged[x.key].specs = x.record.specs /\ staged[x.key].gpu = x.record.gpu
ReadWell(o) == op[o].kind \in {"commit", "enrich", "enrichCpu"} =>
    /\ op[o].kind # "commit" => Distinct(op[o].todo)
    /\ \A i \in DOMAIN Ahead(o) : AsRead(o, Ahead(o)[i])

(* A commit brings in valid records, asks before it marks a conflict and    *)
(* stores evidence before it marks an import.                               *)
Importable(r) == r.status = "valid" /\ (r.flawed => r.confirmed)
CommitWell(o) == op[o].kind = "commit" =>
    /\ \A i \in DOMAIN op[o].todo : Importable(op[o].todo[i].record)
    /\ op[o].at = "upsert" /\ op[o].approval /\ Key(o) \notin op[o].rewritten =>
         Known(product[Key(o)], Item(o).record.specs) = {}
    /\ op[o].at = "imported" =>
         \E e \in evidence[Key(o)] : e.kind = "import" /\ e.specs = Item(o).record.specs
    /\ op[o].at = "conflict" => pending[Key(o)] > 0

(* An audit works on products that are there, each once.                    *)
Audited(o, x) ==
    /\ product[x.key].here
    /\ x.key \notin op[o].rewritten => product[x.key].specs = x.specs
AuditWell(o) == op[o].kind = "audit" =>
    /\ Distinct(op[o].todo)
    /\ \A i \in DOMAIN Ahead(o) : Audited(o, Ahead(o)[i])

Well(o) == OpType(op[o]) /\ StageWell(o) /\ ReadWell(o) /\ CommitWell(o) /\ AuditWell(o)
OpInv == \A o \in Ops : Busy(o) => Well(o)

MarkInv == ImportedWasApplied /\ ConflictIsAsked

Inv == TypeInv /\ OrderInv /\ ProductInv /\ RecordInv /\ OpInv /\ MarkInv

-----------------------------------------------------------------------------
(* Every set of natural numbers that holds 0 and with each number the next  *)
(* holds them all, up to any bound.                                         *)
LEMMA UpTo ==
    ASSUME NEW N \in Nat, NEW S, 0 \in S, \A n \in 1..N : n - 1 \in S => n \in S
    PROVE  \A n \in 0..N : n \in S
<1> DEFINE bad == {n \in 0..N : n \notin S}
           T == {1..n : n \in bad}
<1> SUFFICES ASSUME bad # {} PROVE FALSE
  OBVIOUS
<1>1. T \subseteq FiniteSubsetsOf(Nat) /\ T # {}
  <2>1. \A n \in bad : IsFiniteSet(1..n) /\ 1..n \in SUBSET Nat
    BY FS_Interval
  <2> QED
    BY <2>1 DEF FiniteSubsetsOf
<1>2. PICK x \in T : \A y \in T : ~(<<y, x>> \in StrictSubsetOrdering(Nat))
  <2>1. IsWellFoundedOn(StrictSubsetOrdering(Nat), FiniteSubsetsOf(Nat))
    BY FS_StrictSubsetOrderingWellFounded
  <2> HIDE DEF T
  <2> QED
    BY <1>1, <2>1, WFMin
<1>3. PICK n \in bad : x = 1..n
  OBVIOUS
<1>4. n \in 1..N /\ n - 1 \in bad
  OBVIOUS
<1>5. 1..(n - 1) \in T /\ 1..(n - 1) \subseteq x /\ n \in x /\ n \notin 1..(n - 1)
  BY <1>3, <1>4
<1>6. <<1..(n - 1), x>> \in StrictSubsetOrdering(Nat)
  BY <1>3, <1>4, <1>5 DEF StrictSubsetOrdering
<1> QED
  BY <1>2, <1>5, <1>6

(* The first of a queue, and the others.                                    *)
LEMMA HeadAndTail ==
    ASSUME NEW S, NEW s \in Seq(S), s # <<>>
    PROVE  /\ Head(s) \in S /\ Head(s) = s[1] /\ 1 \in DOMAIN s
           /\ Tail(s) \in Seq(S)
           /\ \A i \in DOMAIN Tail(s) : i + 1 \in DOMAIN s /\ Tail(s)[i] = s[i + 1] /\ i + 1 # 1
           /\ \A i, j \in DOMAIN Tail(s) : i + 1 = j + 1 => i = j
  OBVIOUS

LEMMA Members == \A S : \A s \in Seq(S) : \A i \in DOMAIN s : s[i] \in S
  OBVIOUS

(* The oldest records first, each once.                                     *)
LEMMA AmongFollows ==
    ASSUME NEW G, order \in Seq(Keys)
    PROVE  \E kept : /\ kept = [i \in 0..Len(order) |->
                                  IF i = 0 THEN <<>> ELSE IF order[i] \in G THEN Append(kept[i - 1], order[i])
                                                          ELSE kept[i - 1]]
                     /\ Among(G) = kept[Len(order)]
<1> DEFINE step(s, i) == IF order[i] \in G THEN Append(s, order[i]) ELSE s
           is(g, m) == g = [i \in 0..m |-> IF i = 0 THEN <<>> ELSE step(g[i - 1], i)]
           reach == {m \in Nat : \E g : is(g, m)}
<1>1. 0 \in reach
  <2>1. is([i \in 0..0 |-> <<>>], 0)
    <3> HIDE DEF step
    <3> QED
      OBVIOUS
  <2> QED
    BY <2>1
<1>2. ASSUME NEW m \in Nat \ {0}, NEW g, is(g, m - 1)
      PROVE  \E h : is(h, m)
  <2> HIDE DEF step
  <2> DEFINE h == [i \in 0..m |-> IF i = m THEN step(g[m - 1], m) ELSE g[i]]
  <2>1. ASSUME NEW i \in 0..m PROVE h[i] = IF i = 0 THEN <<>> ELSE step(h[i - 1], i)
    <3>1. CASE i = m
      <4>1. i # 0 /\ i - 1 \in 0..m /\ i - 1 # m
        BY <3>1
      <4> QED
        BY <3>1, <4>1
    <3>2. CASE i # m /\ i # 0
      <4>1. i \in 0..(m - 1) /\ i - 1 \in 0..m /\ i - 1 # m
        BY <3>2
      <4>2. h[i] = g[i] /\ h[i - 1] = g[i - 1]
        BY <3>2, <4>1
      <4>3. g[i] = step(g[i - 1], i)
        BY <1>2, <3>2, <4>1
      <4> QED
        BY <3>2, <4>2, <4>3
    <3>3. CASE i # m /\ i = 0
      <4>1. 0 \in 0..(m - 1)
        OBVIOUS
      <4> QED
        BY <1>2, <3>3, <4>1
    <3> QED
      BY <3>1, <3>2, <3>3
  <2> QED
    BY <2>1
<1>3. Len(order) \in reach
  <2>1. \A m \in 1..Len(order) : m - 1 \in reach => m \in reach
    <3> HIDE DEF is
    <3> QED
      BY <1>2
  <2>2. Len(order) \in Nat /\ Len(order) \in 0..Len(order)
    OBVIOUS
  <2> HIDE DEF reach
  <2>3. \A m \in 0..Len(order) : m \in reach
    BY <1>1, <2>1, <2>2, UpTo
  <2> QED
    BY <2>2, <2>3
<1> DEFINE kept == CHOOSE g : is(g, Len(order))
<1>4. is(kept, Len(order))
  <2> HIDE DEF is
  <2> QED
    BY <1>3
<1>5. Among(G) = kept[Len(order)]
  BY DEF Among
<1> HIDE DEF kept
<1> QED
  BY <1>4, <1>5

LEMMA AmongFacts ==
    ASSUME NEW G, OrderInv
    PROVE  /\ Among(G) \in Seq(Keys) /\ ToSet(Among(G)) = Staged \cap G
           /\ \A i, j \in DOMAIN Among(G) : Among(G)[i] = Among(G)[j] => i = j
<1>1. order \in Seq(Keys) /\ ToSet(order) = Staged /\ \A i, j \in DOMAIN order : order[i] = order[j] => i = j
  BY DEF OrderInv
<1>2. PICK kept : /\ kept = [i \in 0..Len(order) |->
                             IF i = 0 THEN <<>> ELSE IF order[i] \in G THEN Append(kept[i - 1], order[i])
                                                     ELSE kept[i - 1]]
                  /\ Among(G) = kept[Len(order)]
  BY <1>1, AmongFollows
<1> DEFINE good(s, n) == /\ s \in Seq(Keys)
                         /\ \A k : (\E i \in DOMAIN s : s[i] = k) <=> (\E i \in 1..n : order[i] = k /\ k \in G)
                         /\ \A i, j \in DOMAIN s : s[i] = s[j] => i = j
           S == {n \in 0..Len(order) : good(kept[n], n)}
<1>3. Len(order) \in Nat /\ DOMAIN order = 1..Len(order)
  BY <1>1
<1>4. 0 \in S
  <2>1. kept[0] = <<>>
    BY <1>2, <1>3
  <2>2. \A k \in {} : FALSE
    OBVIOUS
  <2>3. 1..0 = {} /\ DOMAIN <<>> = {} /\ <<>> \in Seq(Keys) /\ 0 \in 0..Len(order)
    BY <1>3
  <2>4. good(<<>>, 0)
    BY <2>3
  <2> QED
    BY <2>1, <2>3, <2>4
<1>5. ASSUME NEW n \in 1..Len(order), n - 1 \in S PROVE n \in S
  <2> DEFINE s == kept[n - 1]
             t == kept[n]
             k == order[n]
  <2>1. good(s, n - 1) /\ n \in 0..Len(order) /\ n # 0 /\ n \in DOMAIN order /\ k \in Keys
    BY <1>1, <1>3, <1>5
  <2>2. t = IF k \in G THEN Append(s, k) ELSE s
    BY <1>2, <2>1
  <2> HIDE DEF s, t
  <2>3. \A i \in 1..n : i = n \/ i \in 1..(n - 1)
    OBVIOUS
  <2>4. 1..(n - 1) \subseteq DOMAIN order /\ n \notin 1..(n - 1)
    BY <1>3
  <2>5. CASE k \notin G
    <3>1. t = s
      BY <2>2, <2>5
    <3>2. \A j : (\E i \in 1..(n - 1) : order[i] = j /\ j \in G) <=> (\E i \in 1..n : order[i] = j /\ j \in G)
      BY <2>3, <2>5
    <3> QED
      BY <2>1, <3>1, <3>2 DEF t
  <2>6. CASE k \in G
    <3>1. t = Append(s, k) /\ s \in Seq(Keys)
      BY <2>1, <2>2, <2>6
    <3>2. /\ t \in Seq(Keys) /\ Len(s) \in Nat /\ DOMAIN s = 1..Len(s) /\ DOMAIN t = 1..(Len(s) + 1)
          /\ t[Len(s) + 1] = k /\ \A i \in DOMAIN s : t[i] = s[i]
      BY <2>1, <3>1
    <3>3. \A i \in DOMAIN t : i = Len(s) + 1 \/ i \in DOMAIN s
      BY <3>2
    <3>4. \A i \in DOMAIN s : s[i] # k
      <4> SUFFICES ASSUME NEW i \in DOMAIN s, s[i] = k PROVE FALSE
        OBVIOUS
      <4>1. PICK j \in 1..(n - 1) : order[j] = k
        BY <2>1
      <4> QED
        BY <1>1, <2>1, <2>4, <4>1
    <3>5. \A i, j \in DOMAIN t : t[i] = t[j] => i = j
      BY <2>1, <3>2, <3>3, <3>4
    <3>6. ASSUME NEW j
          PROVE  (\E i \in DOMAIN t : t[i] = j) <=> (\E i \in 1..n : order[i] = j /\ j \in G)
      <4>1. (\E i \in DOMAIN t : t[i] = j) <=> (j = k \/ \E i \in DOMAIN s : s[i] = j)
        BY <3>2, <3>3
      <4>2. (\E i \in DOMAIN s : s[i] = j) <=> (\E i \in 1..(n - 1) : order[i] = j /\ j \in G)
        BY <2>1
      <4>3. (\E i \in 1..n : order[i] = j /\ j \in G) <=> (j = k \/ \E i \in 1..(n - 1) : order[i] = j /\ j \in G)
        BY <2>3, <2>4, <2>6
      <4> QED
        BY <4>1, <4>2, <4>3
    <3> QED
      BY <2>1, <3>2, <3>5, <3>6 DEF t
  <2> QED
    BY <2>5, <2>6
<1>6. Len(order) \in S
  <2> HIDE DEF S
  <2>1. \A n \in 1..Len(order) : n - 1 \in S => n \in S
    BY <1>5
  <2>2. \A n \in 0..Len(order) : n \in S
    BY <1>3, <1>4, <2>1, UpTo
  <2> QED
    BY <1>3, <2>2
<1>7. good(Among(G), Len(order))
  BY <1>2, <1>6
<1>8. \A k : k \in ToSet(Among(G)) <=> k \in Staged \cap G
  <2>1. \A k : k \in Staged <=> \E i \in 1..Len(order) : order[i] = k
    BY <1>1, <1>3 DEF ToSet
  <2> QED
    BY <1>7, <2>1 DEF ToSet
<1> QED
  BY <1>7, <1>8

-----------------------------------------------------------------------------
(* What is decided about one record.                                        *)
Products == [here : BOOLEAN, specs : Specs, flawed : BOOLEAN]

RecordFields ==
    {"source", "gpu", "adapted", "specs", "inferred", "sure", "exact", "family", "ready", "status", "rejected",
     "conflicts", "mark", "confirmed", "flawed", "moved", "raced", "torn"}

LEMMA MergedType == ASSUME NEW s \in Specs, NEW c \in Specs PROVE Merged(s, c) \in Specs
  BY DEF Merged, Specs

LEMMA NothingType == Nothing \in Specs
  BY SpecsAssumption DEF Nothing, Specs

LEMMA ConflictsType == ASSUME NEW s, NEW c PROVE Conflicts(s, c) \in SUBSET Fields
  BY SpecsAssumption DEF Conflicts

LEMMA AnnotatedFacts ==
    ASSUME NEW row \in Rows
    PROVE  /\ Annotated(row).ready \in Readiness
           /\ row.target = "match" /\ Annotated(row).required = TRUE =>
                /\ Has(row.specs, IF row.gpu THEN TargetFields ELSE Required)
                /\ Annotated(row).ready \in {"yes", "no"}
<1>1. row.ready \in Readiness /\ TargetGaps(row) = Missing(row.specs, IF row.gpu THEN TargetFields ELSE Required)
  BY DEF Rows, TargetGaps
<1>2. Annotated(row).required = TRUE <=>
        ~(row.target = "match" /\ TargetGaps(row) # {}) /\
        ((row.target = "match" /\ row.ready = "unstated") \/ Complete(row.gpu, row.specs))
  BY DEF Annotated, Complete, Has
<1>3. Annotated(row).ready = IF row.target = "match" /\ TargetGaps(row) # {} THEN "no"
                             ELSE IF row.target = "match" /\ row.ready = "unstated" THEN "yes" ELSE row.ready
  BY DEF Annotated
<1> QED
  BY <1>1, <1>2, <1>3 DEF Readiness, Has

LEMMA StatusFacts ==
    ASSUME NEW row \in Rows
    PROVE  /\ Status(row) \in {"valid", "deferred", "rejected"}
           /\ Status(row) = "rejected" \/ Reasons(row) = {}
           /\ Status(row) = "valid" /\ ~row.gpu =>
                Has(row.specs, Required) /\ Annotated(row).ready \in {"yes", "no"}
<1>1. /\ Status(row) \in {"valid", "deferred", "rejected"}
      /\ Status(row) = "rejected" \/ Reasons(row) = {}
  BY DEF Status
<1>2. ASSUME Status(row) = "valid", ~row.gpu
      PROVE  Has(row.specs, Required) /\ Annotated(row).ready \in {"yes", "no"}
  <2>1. Annotated(row).required = TRUE
    <3>1. Reasons(row) = {} /\ Annotated(row).required
      BY <1>2 DEF Status
    <3>2. Annotated(row).required \in BOOLEAN
      BY DEF Annotated, Complete, Has
    <3> QED
      BY <3>1, <3>2
  <2>2. row.target = "match"
    <3>1. "outside" \notin Reasons(row)
      BY <1>1, <1>2
    <3> QED
      BY <3>1 DEF Reasons
  <2> QED
    BY <1>2, <2>1, <2>2, AnnotatedFacts
<1> QED
  BY <1>1, <1>2

LEMMA StagedRecordFacts ==
    ASSUME NEW row \in Rows, NEW source \in Sources, NEW p \in Products
    PROVE  LET r == StagedRecord(row, source, p)
           IN  r \in StagedRecords /\ Fresh(r) /\ r.conflicts = Known(p, r.specs)
<1> DEFINE r == StagedRecord(row, source, p)
<1>1. /\ r.source = source /\ r.gpu = row.gpu /\ r.adapted = row.adapted /\ r.specs = row.specs
      /\ r.inferred = row.inferred /\ r.sure = Sure(row) /\ r.exact = ExactReady(row) /\ r.family = FamilyReady(row)
      /\ r.ready = Annotated(row).ready /\ r.status = Status(row) /\ r.rejected = (Reasons(row) # {})
      /\ r.conflicts = Known(p, row.specs) /\ r.mark = "pending" /\ r.confirmed = FALSE
      /\ r.flawed = (Reasons(row) # {}) /\ r.moved = FALSE /\ r.raced = FALSE /\ r.torn = FALSE
  BY DEF StagedRecord, Known
<1>2. r \in StagedRecords
  <2>1. /\ row.gpu \in BOOLEAN /\ row.adapted \in BOOLEAN /\ row.specs \in Specs /\ row.inferred \in SUBSET Fields
        /\ row.branded \in BOOLEAN
    BY DEF Rows
  <2>2. Sure(row) \in BOOLEAN /\ ExactReady(row) \in BOOLEAN /\ FamilyReady(row) \in BOOLEAN
    BY <2>1 DEF Sure, ExactReady, FamilyReady
  <2>3. Known(p, row.specs) \in SUBSET Fields
    BY ConflictsType DEF Known
  <2>4. Annotated(row).ready \in Readiness /\ Status(row) \in {"valid", "deferred", "rejected"}
    BY AnnotatedFacts, StatusFacts
  <2>5. r = [x \in RecordFields |-> r[x]]
    BY DEF StagedRecord, RecordFields
  <2>6. r.rejected \in BOOLEAN /\ r.flawed \in BOOLEAN
    BY <1>1
  <2>7. r.sure \in BOOLEAN /\ r.exact \in BOOLEAN /\ r.family \in BOOLEAN
    BY <1>1, <2>2
  <2> HIDE DEF r
  <2> QED
    BY <1>1, <2>1, <2>3, <2>4, <2>5, <2>6, <2>7 DEF StagedRecords, RecordFields
<1>3. Sound(r)
  <2>1. r.status = "rejected" \/ ~r.flawed
    BY <1>1, StatusFacts
  <2>2. r.status = "valid" => ~r.rejected
    BY <1>1, StatusFacts
  <2>3. ASSUME r.status = "valid", r.gpu
        PROVE  (r.exact => Has(r.specs, ExactFields)) /\ (r.family => Has(r.specs, FamilyFields))
    BY <1>1, Zenon DEF ExactReady, FamilyReady
  <2>4. ASSUME r.status = "valid", ~r.gpu
        PROVE  Has(r.specs, Required) /\ r.ready \in {"yes", "no"}
    <3>1. Status(row) = "valid" /\ ~row.gpu
      BY <1>1, <2>4
    <3> QED
      BY <1>1, <3>1, StatusFacts
  <2>5. ~r.torn
    BY <1>1
  <2> HIDE DEF r
  <2> QED
    BY <2>1, <2>2, <2>3, <2>4, <2>5 DEF Sound, Ready
<1> HIDE DEF r
<1>4. Fresh(r)
  BY <1>1, <1>3 DEF Fresh
<1> QED
  BY <1>1, <1>2, <1>4 DEF r

\* A record some fields of which are replaced, field by field.
LEMMA WithFacts ==
    ASSUME NEW r, NEW f
    PROVE  /\ DOMAIN With(r, f) = DOMAIN r /\ With(r, f) = [x \in DOMAIN r |-> With(r, f)[x]]
           /\ \A x \in DOMAIN r : With(r, f)[x] = IF x \in DOMAIN f THEN f[x] ELSE r[x]
  BY DEF With

LEMMA FieldsOf ==
    ASSUME NEW r \in StagedRecords
    PROVE  DOMAIN r = RecordFields /\ r = [x \in RecordFields |-> r[x]]
  BY DEF StagedRecords, RecordFields

LEMMA MovedFacts ==
    ASSUME NEW r \in StagedRecords
    PROVE  LET s == With(r, [moved |-> TRUE])
           IN  /\ s \in StagedRecords /\ s.moved = TRUE
               /\ \A x \in RecordFields \ {"moved"} : s[x] = r[x]
<1>1. With(r, [moved |-> TRUE]) \in StagedRecords
  <2>1. \A b \in BOOLEAN : With(r, [moved |-> b]) \in StagedRecords
    BY DEF With, StagedRecords
  <2> QED
    BY <2>1
<1> QED
  BY <1>1, WithFacts, FieldsOf DEF RecordFields

LEMMA MarkedFacts ==
    ASSUME NEW r \in StagedRecords, NEW mark \in {"skipped", "conflict", "imported"}, NEW raced \in BOOLEAN
    PROVE  LET s == With(r, [mark |-> mark, raced |-> raced])
           IN  /\ s \in StagedRecords /\ s.mark = mark /\ s.raced = raced
               /\ \A x \in RecordFields \ {"mark", "raced"} : s[x] = r[x]
<1>1. With(r, [mark |-> mark, raced |-> raced]) \in StagedRecords
  BY DEF With, StagedRecords
<1> QED
  BY <1>1, WithFacts, FieldsOf DEF RecordFields

LEMMA RestagedFacts ==
    ASSUME NEW k \in Keys, staged[k] \in StagedRecords \cup {NoRecord},
           NEW r \in StagedRecords, Fresh(r), NEW moved \in BOOLEAN
    PROVE  LET s == With(Restaged(k, r), [moved |-> moved])
           IN  s \in StagedRecords /\ Sound(s) /\ s.moved = moved /\ s.conflicts = r.conflicts /\ s.specs = r.specs
               /\ s.mark = "pending"
<1> DEFINE t == Restaged(k, r)
           s == With(t, [moved |-> moved])
<1>1. t \in StagedRecords /\ \A x \in RecordFields \ {"confirmed", "inferred", "ready"} : t[x] = r[x]
  <2>1. CASE staged[k] = NoRecord
    BY <2>1 DEF Restaged
  <2>2. CASE staged[k] # NoRecord
    <3> DEFINE f == [confirmed |-> staged[k].confirmed,
                     inferred |-> IF r.adapted THEN r.inferred ELSE staged[k].inferred,
                     ready |-> IF r.ready = "unstated" THEN staged[k].ready ELSE r.ready]
    <3>1. t = With(r, f)
      BY <2>2 DEF Restaged
    <3>2. f.confirmed \in BOOLEAN /\ f.inferred \in SUBSET Fields /\ f.ready \in Readiness
      <4>1. staged[k].confirmed \in BOOLEAN /\ staged[k].inferred \in SUBSET Fields /\ staged[k].ready \in Readiness
        BY <2>2 DEF StagedRecords
      <4>2. r.inferred \in SUBSET Fields /\ r.ready \in Readiness
        BY DEF StagedRecords
      <4> QED
        BY <4>1, <4>2
    <3>3. DOMAIN f = {"confirmed", "inferred", "ready"}
      OBVIOUS
    <3> HIDE DEF f
    <3>4. With(r, f) \in StagedRecords
      BY <3>2, <3>3 DEF With, StagedRecords
    <3> QED
      BY <3>1, <3>3, <3>4, WithFacts, FieldsOf DEF RecordFields
  <2> QED
    BY <2>1, <2>2
<1>2. Fresh(r) /\ (r.status = "valid" /\ ~r.gpu => r.ready \in {"yes", "no"})
  BY DEF Fresh, Sound, Ready
<1>3. r.ready \in {"yes", "no"} => t.ready = r.ready
  <2>1. CASE staged[k] = NoRecord
    BY <2>1 DEF Restaged
  <2>2. CASE staged[k] # NoRecord
    BY <2>2, FieldsOf DEF Restaged, With, RecordFields
  <2> QED
    BY <2>1, <2>2
<1> HIDE DEF t
<1>4. s \in StagedRecords
  BY <1>1 DEF With, StagedRecords
<1>5. s.moved = moved /\ \A x \in RecordFields \ {"moved"} : s[x] = t[x]
  BY <1>1, WithFacts, FieldsOf DEF RecordFields
<1> HIDE DEF s
<1>6. /\ s.conflicts = r.conflicts /\ s.specs = r.specs /\ s.mark = r.mark /\ s.status = r.status
      /\ s.flawed = r.flawed /\ s.torn = r.torn /\ s.rejected = r.rejected /\ s.gpu = r.gpu
      /\ s.exact = r.exact /\ s.family = r.family /\ (r.ready \in {"yes", "no"} => s.ready = r.ready)
  BY <1>1, <1>3, <1>5 DEF RecordFields
<1>7. Sound(s)
  <2>1. s.status = "rejected" \/ ~s.flawed
    BY <1>2, <1>6 DEF Fresh, Sound
  <2>2. ~s.torn /\ (s.status = "valid" => ~s.rejected)
    BY <1>2, <1>6 DEF Fresh, Sound
  <2>3. s.status = "valid" => Ready(s)
    <3>1. r.status = "valid" => Ready(r)
      BY <1>2 DEF Fresh, Sound
    <3> QED
      BY <1>2, <1>6, <3>1 DEF Ready
  <2> QED
    BY <2>1, <2>2, <2>3 DEF Sound
<1> QED
  BY <1>2, <1>4, <1>5, <1>6, <1>7 DEF s, t, Fresh

LEMMA CpuFieldsFit ==
    ASSUME NEW r \in StagedRecords, NEW f, DOMAIN f = {"specs", "ready", "mark", "confirmed", "moved"},
           f.specs \in Specs, f.ready \in Readiness, f.mark = "pending", f.confirmed \in BOOLEAN, f.moved \in BOOLEAN
    PROVE  With(r, f) \in StagedRecords
  BY DEF With, StagedRecords

LEMMA CardFieldsFit ==
    ASSUME NEW r \in StagedRecords, NEW f,
           DOMAIN f = {"specs", "exact", "family", "ready", "status", "sure", "rejected", "mark", "confirmed",
                       "moved", "torn"},
           f.specs \in Specs, f.ready \in Readiness, f.mark = "pending", f.confirmed \in BOOLEAN,
           f.moved \in BOOLEAN, f.status = "valid", f.torn \in BOOLEAN,
           f.exact \in BOOLEAN, f.family \in BOOLEAN, f.sure \in BOOLEAN, f.rejected \in BOOLEAN
    PROVE  With(r, f) \in StagedRecords
  BY DEF With, StagedRecords

\* Written by an enrichment, of the specs that were read or torn.
WrittenOver(what, now, old, confirmed, who, those) ==
    LET specs == Merged(old.specs, confirmed)
        e == IF what = "enrichCpu" THEN CpuEnriched(now, specs) ELSE Enriched(now, specs)
    IN  With(e, [torn |-> who \in those \/ e.torn])

Writable(what, now, old, confirmed, who, those) ==
    /\ now \in StagedRecords /\ Sound(now) /\ old \in StagedRecords /\ confirmed \in Specs
    /\ what \in {"enrich", "enrichCpu"}
    /\ who \notin those => now.specs = old.specs /\ now.gpu = old.gpu
    /\ what = "enrichCpu" \/ Enrichable(old, confirmed)

LEMMA EnrichedFacts ==
    ASSUME NEW what, NEW r, NEW old, NEW confirmed, NEW who, NEW those,
           Writable(what, r, old, confirmed, who, those)
    PROVE  LET s == WrittenOver(what, r, old, confirmed, who, those)
           IN  s \in StagedRecords /\ Sound(s) /\ s.moved = TRUE /\ s.mark = "pending"
<1>0. r \in StagedRecords /\ Sound(r) /\ old \in StagedRecords /\ confirmed \in Specs
  BY DEF Writable
<1> DEFINE cpu == what = "enrichCpu"
           stale == who \in those
           specs == Merged(old.specs, confirmed)
           e == IF cpu THEN CpuEnriched(r, specs) ELSE Enriched(r, specs)
           s == With(e, [torn |-> stale \/ e.torn])
<1>1. old.specs \in Specs /\ specs \in Specs
  BY <1>0, MergedType DEF StagedRecords
<1>2. ASSUME NEW F \in SUBSET Fields, Has(old.specs, F) PROVE Has(specs, F)
  BY <1>2, SpecsAssumption DEF Has, Missing, Merged
<1>5. /\ ~stale => r.specs = old.specs /\ r.gpu = old.gpu
      /\ cpu \/ Enrichable(old, confirmed)
  BY DEF Writable
<1> HIDE DEF specs, cpu, stale
<1>3. CASE cpu
  <2> DEFINE f == [specs |-> specs, ready |-> "yes", mark |-> "pending", confirmed |-> TRUE, moved |-> TRUE]
  <2>1. e = With(r, f)
    BY <1>3 DEF CpuEnriched, e
  <2>2. e \in StagedRecords
    <3>1. DOMAIN f = {"specs", "ready", "mark", "confirmed", "moved"}
      OBVIOUS
    <3>2. f.specs \in Specs /\ f.ready \in Readiness /\ f.mark = "pending" /\ f.confirmed \in BOOLEAN /\ f.moved \in BOOLEAN
      BY <1>1 DEF Readiness
    <3> HIDE DEF f
    <3> QED
      BY <2>1, <3>1, <3>2, <1>0, CpuFieldsFit
  <2>3. /\ e.specs = specs /\ e.ready = "yes" /\ e.mark = "pending" /\ e.confirmed = TRUE /\ e.moved = TRUE
        /\ e.gpu = r.gpu /\ e.exact = r.exact /\ e.family = r.family /\ e.status = r.status
        /\ e.rejected = r.rejected /\ e.torn = r.torn
    BY <1>0, <2>1, FieldsOf DEF With, RecordFields
  <2> HIDE DEF e
  <2>4. s \in StagedRecords /\ s.torn = (stale \/ e.torn) /\ \A x \in RecordFields \ {"torn"} : s[x] = e[x]
    <3>1. (stale \/ e.torn) \in BOOLEAN
      OBVIOUS
    <3>2. \A b \in BOOLEAN : With(e, [torn |-> b]) \in StagedRecords
      BY <2>2 DEF With, StagedRecords
    <3>3. \A b : With(e, [torn |-> b]).torn = b /\ \A x \in RecordFields \ {"torn"} : With(e, [torn |-> b])[x] = e[x]
      BY <2>2, FieldsOf DEF With, RecordFields
    <3> QED
      BY <3>1, <3>2, <3>3
  <2>5. Sound(s)
    <3>1. /\ s.specs = specs /\ s.ready = "yes" /\ s.mark = "pending" /\ s.confirmed = TRUE /\ s.moved = TRUE
          /\ s.gpu = r.gpu /\ s.exact = r.exact /\ s.family = r.family /\ s.status = r.status
          /\ s.rejected = r.rejected
      BY <2>3, <2>4 DEF RecordFields
    <3> HIDE DEF s
    <3>2. ASSUME s.status = "valid", ~s.torn PROVE Ready(s)
      <4>1. ~stale /\ ~r.torn
        BY <2>3, <2>4, <3>2
      <4>2. Ready(r)
        BY <1>0, <3>1, <3>2, <4>1 DEF Sound
      <4>3. Required \subseteq Fields /\ ExactFields \subseteq Fields /\ FamilyFields \subseteq Fields
        BY SpecsAssumption
      <4>4. r.specs = old.specs
        BY <1>5, <4>1
      <4> QED
        BY <1>2, <3>1, <4>2, <4>3, <4>4 DEF Ready
    <3>3. s.status = "valid" => ~s.rejected
      BY <1>0, <3>1 DEF Sound
    <3> QED
      BY <3>1, <3>2, <3>3 DEF Sound
  <2> QED
    BY <2>3, <2>4, <2>5 DEF RecordFields, specs, e, s, cpu, stale, WrittenOver
<1>4. CASE ~cpu
  <2> DEFINE f == [specs |-> specs, exact |-> ~r.gpu \/ Has(specs, ExactFields),
                   family |-> r.gpu /\ Has(specs, FamilyFields),
                   ready |-> IF ~r.gpu \/ Has(specs, ExactFields) THEN "yes" ELSE "no",
                   status |-> "valid", sure |-> TRUE, rejected |-> FALSE,
                   mark |-> "pending", confirmed |-> TRUE, moved |-> TRUE, torn |-> FALSE]
  <2>1. e = With(r, f)
    BY <1>4 DEF Enriched, e
  <2>2. e \in StagedRecords
    <3>1. DOMAIN f = {"specs", "exact", "family", "ready", "status", "sure", "rejected", "mark", "confirmed",
                      "moved", "torn"}
      OBVIOUS
    <3>2. /\ f.specs \in Specs /\ f.ready \in Readiness /\ f.mark = "pending" /\ f.confirmed \in BOOLEAN
          /\ f.moved \in BOOLEAN /\ f.status = "valid" /\ f.torn \in BOOLEAN
      BY <1>1 DEF Readiness
    <3>3. f.exact \in BOOLEAN /\ f.family \in BOOLEAN /\ f.sure \in BOOLEAN /\ f.rejected \in BOOLEAN
      OBVIOUS
    <3> HIDE DEF f
    <3> QED
      BY <2>1, <3>1, <3>2, <3>3, <1>0, CardFieldsFit
  <2>3. /\ e.specs = specs /\ e.ready \in {"yes", "no"} /\ e.mark = "pending" /\ e.confirmed = TRUE /\ e.moved = TRUE
        /\ e.gpu = r.gpu /\ e.exact = (~r.gpu \/ Has(specs, ExactFields))
        /\ e.family = (r.gpu /\ Has(specs, FamilyFields)) /\ e.status = "valid" /\ e.rejected = FALSE
    BY <1>0, <2>1, FieldsOf DEF With, RecordFields
  <2> HIDE DEF e
  <2>4. s \in StagedRecords /\ s.torn = (stale \/ e.torn) /\ \A x \in RecordFields \ {"torn"} : s[x] = e[x]
    <3>1. (stale \/ e.torn) \in BOOLEAN
      OBVIOUS
    <3>2. \A b \in BOOLEAN : With(e, [torn |-> b]) \in StagedRecords
      BY <2>2 DEF With, StagedRecords
    <3>3. \A b : With(e, [torn |-> b]).torn = b /\ \A x \in RecordFields \ {"torn"} : With(e, [torn |-> b])[x] = e[x]
      BY <2>2, FieldsOf DEF With, RecordFields
    <3> QED
      BY <3>1, <3>2, <3>3
  <2>5. Sound(s)
    <3>1. /\ s.specs = specs /\ s.ready \in {"yes", "no"} /\ s.mark = "pending" /\ s.confirmed = TRUE /\ s.moved = TRUE
          /\ s.gpu = r.gpu /\ s.exact = (~r.gpu \/ Has(specs, ExactFields))
          /\ s.family = (r.gpu /\ Has(specs, FamilyFields)) /\ s.status = "valid" /\ s.rejected = FALSE
      BY <2>3, <2>4 DEF RecordFields
    <3> HIDE DEF s
    <3>2. ASSUME ~s.torn PROVE Ready(s)
      <4>1. ~stale
        BY <2>4, <3>2 DEF s
      <4>2. ~r.gpu => Has(specs, Required)
        BY <1>4, <1>5, <4>1 DEF Enrichable, specs
      <4> QED
        BY <3>1, <4>2 DEF Ready
    <3> QED
      BY <3>1, <3>2 DEF Sound
  <2> QED
    BY <2>3, <2>4, <2>5 DEF RecordFields, specs, e, s, cpu, stale, WrittenOver
<1> QED
  BY <1>3, <1>4

LEMMA EnrichedSpecs ==
    ASSUME NEW what, NEW r, NEW old, NEW confirmed, NEW who, NEW those,
           Writable(what, r, old, confirmed, who, those)
    PROVE  WrittenOver(what, r, old, confirmed, who, those).specs = Merged(old.specs, confirmed)
<1> DEFINE specs == Merged(old.specs, confirmed)
           e == IF what = "enrichCpu" THEN CpuEnriched(r, specs) ELSE Enriched(r, specs)
           torn == who \in those \/ e.torn
<1>1. "specs" \in DOMAIN r
  BY FieldsOf DEF Writable, RecordFields
<1> HIDE DEF specs
<1>2. e.specs = specs /\ "specs" \in DOMAIN e
  BY <1>1 DEF CpuEnriched, Enriched, With
<1>3. WrittenOver(what, r, old, confirmed, who, those) = With(e, [torn |-> torn])
  BY DEF WrittenOver, specs
<1> HIDE DEF e, torn
<1>4. With(e, [torn |-> torn]).specs = e.specs
  BY <1>2 DEF With
<1> QED
  BY <1>2, <1>3, <1>4 DEF specs

-----------------------------------------------------------------------------
(* The review against the commit, for one record.                           *)
LEMMA ReviewAgrees ==
    ASSUME NEW r \in StagedRecords, Sound(r), r.sure, r.status = "valid", r.mark # "imported"
    PROVE  /\ ~r.torn => (IsExact(r) \/ IsFamily(r) <=> ~Skipped(r))
           /\ Review(r) = "eligible" <=> r.conflicts = {} /\ (IsExact(r) \/ IsFamily(r))
<1>1. ~r.rejected
  BY DEF Sound
<1>2. Review(r) = "eligible" <=> r.conflicts = {} /\ (IsExact(r) \/ IsFamily(r))
  BY <1>1 DEF Review
<1>3. ASSUME ~r.torn PROVE IsExact(r) \/ IsFamily(r) <=> ~Skipped(r)
  <2>1. Ready(r)
    BY <1>3 DEF Sound
  <2>2. CASE r.gpu
    <3>1. IsExact(r) => Has(r.specs, ExactFields)
      BY <2>1, <2>2 DEF IsExact, Ready
    <3>2. IsFamily(r) => Has(r.specs, FamilyFields)
      BY <2>1, <2>2 DEF IsFamily, Ready
    <3> QED
      BY <2>2, <3>1, <3>2 DEF Skipped
  <2>3. CASE ~r.gpu
    <3>1. Has(r.specs, Required) /\ r.ready \in {"yes", "no"}
      BY <2>1, <2>3 DEF Ready
    <3>2. IsExact(r) <=> r.ready = "yes"
      BY <2>3 DEF IsExact
    <3>3. ~IsFamily(r)
      BY <2>3 DEF IsFamily
    <3> QED
      BY <2>3, <3>1, <3>2, <3>3 DEF Skipped
  <2> QED
    BY <2>2, <2>3
<1> QED
  BY <1>2, <1>3

LEMMA DecisionFacts ==
    ASSUME NEW r, NEW p, NEW approval
    PROVE  Decision(r, p, approval) = "import" <=> ~Skipped(r) /\ ~(approval /\ Known(p, r.specs) # {})
  BY DEF Decision, Known

LEMMA ReviewFollows == TypeInv /\ RecordInv => ReviewPredicts
<1> SUFFICES ASSUME TypeInv, RecordInv, NEW k \in Staged,
                    staged[k].sure, staged[k].status = "valid", staged[k].mark # "imported"
             PROVE  LET r == staged[k]
                        eligible == Review(r) = "eligible"
                    IN  /\ eligible /\ ~r.torn => ~Skipped(r)
                        /\ ~r.moved => (eligible <=> Decision(r, product[k], TRUE) = "import")
  BY DEF ReviewPredicts
<1> DEFINE r == staged[k]
<1>1. k \in Keys /\ r \in StagedRecords /\ Sound(r) /\ (~r.moved => r.conflicts = Known(product[k], r.specs))
  BY DEF TypeInv, RecordInv, Staged
<1>2. r.torn => r.moved
  BY <1>1 DEF Sound
<1> HIDE DEF r
<1>3. r.sure /\ r.status = "valid" /\ r.mark # "imported"
  BY DEF r
<1>4. /\ ~r.torn => (IsExact(r) \/ IsFamily(r) <=> ~Skipped(r))
      /\ Review(r) = "eligible" <=> r.conflicts = {} /\ (IsExact(r) \/ IsFamily(r))
  BY <1>1, <1>3, ReviewAgrees
<1>5. Decision(r, product[k], TRUE) = "import" <=> ~Skipped(r) /\ ~(TRUE /\ Known(product[k], r.specs) # {})
  BY DecisionFacts
<1>6. Review(r) = "eligible" /\ ~r.torn => ~Skipped(r)
  BY <1>4
<1>7. ~r.moved => (Review(r) = "eligible" <=> Decision(r, product[k], TRUE) = "import")
  BY <1>1, <1>2, <1>4, <1>5
<1> QED
  BY <1>6, <1>7 DEF r

-----------------------------------------------------------------------------
(* A request that stands by while another one takes a step notes what that  *)
(* one writes, and what it has in hand stays true.                          *)
Respecified(k) ==
    staged[k] # NoRecord /\ ~(/\ staged'[k] # NoRecord
                              /\ staged'[k].specs = staged[k].specs /\ staged'[k].gpu = staged[k].gpu)
Tracks(p) ==
    \A k \in Keys : /\ k \notin op'[p].rewritten => product'[k] = product[k]
                    /\ k \notin op'[p].restaged => ~Respecified(k)
SameTask(p) ==
    /\ DOMAIN op'[p] = OpFields
    /\ op'[p].kind = op[p].kind /\ op'[p].at = op[p].at /\ op'[p].todo = op[p].todo /\ op'[p].done = op[p].done
    /\ op'[p].source = op[p].source /\ op'[p].approval = op[p].approval
    /\ op[p].rewritten \subseteq op'[p].rewritten /\ op'[p].rewritten \subseteq Keys
    /\ op[p].restaged \subseteq op'[p].restaged /\ op'[p].restaged \subseteq Keys
Bystands(p) == IF Busy(p) THEN SameTask(p) /\ Tracks(p) ELSE op'[p] = op[p]
Grows ==
    \A k \in Keys : /\ evidence[k] \subseteq evidence'[k] /\ pending'[k] \in Nat /\ pending[k] <= pending'[k]
                    /\ product[k].here => product'[k].here

LEMMA ItemTypes ==
    ASSUME NEW r, OpType(r)
    PROVE  /\ r.kind = "stage" => /\ \A i \in DOMAIN r.done : r.done[i] \in StageItems
                                  /\ r.at = "write" => \A i \in DOMAIN r.todo : r.todo[i] \in StageItems
           /\ r.kind = "commit" => r.todo \in Seq(StageItems)
           /\ r.kind \in {"enrich", "enrichCpu"} => r.todo \in Seq(EnrichItems)
           /\ r.kind = "audit" => r.todo \in Seq(AuditItems)
<1>1. \A S : \A s \in Seq(S) : \A i \in DOMAIN s : s[i] \in S
  OBVIOUS
<1>2. r.kind = "stage" => StageOp(r)
  BY DEF OpType, CommitOp, EnrichOp, AuditOp
<1>3. r.kind = "commit" => CommitOp(r)
  BY DEF OpType, StageOp, EnrichOp, AuditOp
<1>4. r.kind \in {"enrich", "enrichCpu"} => EnrichOp(r)
  BY DEF OpType, StageOp, CommitOp, AuditOp
<1>5. r.kind = "audit" => AuditOp(r)
  BY DEF OpType, StageOp, CommitOp, EnrichOp
<1> QED
  BY <1>1, <1>2, <1>3, <1>4, <1>5 DEF StageOp, CommitOp, EnrichOp, AuditOp

LEMMA AheadFacts ==
    ASSUME NEW o, Busy(o), OpType(op[o]), op[o].kind # "stage"
    PROVE  \A i \in DOMAIN Ahead(o) : \E j \in DOMAIN op[o].todo :
              Ahead(o)[i] = op[o].todo[j] /\ (op[o].at \in {"attach", "fixed"} => j = i + 1)
<1>1. \E S : op[o].todo \in Seq(S)
  BY DEF OpType, StageOp, CommitOp, EnrichOp, AuditOp
<1>2. op[o].at \in {"attach", "fixed"} => op[o].todo # <<>>
  BY DEF OpType, StageOp, CommitOp, EnrichOp, AuditOp, CommitStages
<1> QED
  BY <1>1, <1>2, HeadAndTail DEF Ahead

LEMMA KeyTypes ==
    ASSUME NEW o, Busy(o), OpType(op[o]), op[o].kind # "stage"
    PROVE  /\ \A i \in DOMAIN Ahead(o) : Ahead(o)[i].key \in Keys
           /\ op[o].todo # <<>> => Key(o) \in Keys
<1>1. \E S : op[o].todo \in Seq(S) /\ \A x \in S : x.key \in Keys
  <2>1. \A x \in StageItems \cup EnrichItems \cup AuditItems : x.key \in Keys
    BY DEF StageItems, EnrichItems, AuditItems
  <2>2. op[o].todo \in Seq(StageItems) \/ op[o].todo \in Seq(EnrichItems) \/ op[o].todo \in Seq(AuditItems)
    BY DEF OpType, StageOp, CommitOp, EnrichOp, AuditOp
  <2> QED
    BY <2>1, <2>2
<1>2. PICK S : op[o].todo \in Seq(S) /\ \A x \in S : x.key \in Keys
  BY <1>1
<1>3. \A i \in DOMAIN op[o].todo : op[o].todo[i].key \in Keys
  BY <1>2
<1>4. op[o].todo # <<>> => Head(op[o].todo) \in S
  BY <1>2, HeadAndTail
<1> QED
  BY <1>2, <1>3, <1>4, AheadFacts DEF Key, Item

LEMMA Bystanders ==
    ASSUME NEW p \in Ops, Busy(p) => Well(p), Bystands(p), Grows, TypeInv
    PROVE  Busy(p)' => Well(p)'
<1> SUFFICES ASSUME Busy(p), Busy(p)' PROVE Well(p)'
  BY DEF Bystands, Busy
<1>1. SameTask(p) /\ Tracks(p) /\ Well(p)
  BY DEF Bystands
<1>2. OpType(op[p])'
  BY <1>1 DEF Well, OpType, SameTask, StageOp, CommitOp, EnrichOp, AuditOp
<1>3. /\ op'[p].kind = op[p].kind /\ op'[p].at = op[p].at /\ op'[p].todo = op[p].todo /\ op'[p].done = op[p].done
      /\ op'[p].approval = op[p].approval
      /\ Ahead(p)' = Ahead(p) /\ Key(p)' = Key(p) /\ Item(p)' = Item(p)
  BY <1>1 DEF SameTask, Ahead, Key, Item
<1>4. StageWell(p)'
  <2> SUFFICES ASSUME op[p].kind = "stage"
               PROVE  /\ \A i \in DOMAIN op[p].done : Judged(p, op[p].done[i])'
                      /\ op[p].at = "write" => \A i \in DOMAIN op[p].todo : Judged(p, op[p].todo[i])'
    BY <1>3 DEF StageWell
  <2>1. ASSUME NEW x \in StageItems, Judged(p, x) PROVE Judged(p, x)'
    <3>1. x.key \in Keys
      BY DEF StageItems
    <3>2. x.key \notin op'[p].rewritten => product'[x.key] = product[x.key] /\ x.key \notin op[p].rewritten
      BY <1>1, <3>1 DEF Tracks, SameTask
    <3> QED
      BY <2>1, <3>2 DEF Judged
  <2>2. /\ \A i \in DOMAIN op[p].done : op[p].done[i] \in StageItems
        /\ op[p].at = "write" => \A i \in DOMAIN op[p].todo : op[p].todo[i] \in StageItems
    BY <1>1, ItemTypes DEF Well
  <2>3. /\ \A i \in DOMAIN op[p].done : Judged(p, op[p].done[i])
        /\ op[p].at = "write" => \A i \in DOMAIN op[p].todo : Judged(p, op[p].todo[i])
    BY <1>1 DEF Well, StageWell
  <2> QED
    BY <1>3, <2>1, <2>2, <2>3
<1>5. ReadWell(p)'
  <2> SUFFICES ASSUME op[p].kind \in {"commit", "enrich", "enrichCpu"}
               PROVE  /\ op[p].kind # "commit" => Distinct(op[p].todo)
                      /\ \A i \in DOMAIN Ahead(p) : AsRead(p, Ahead(p)[i])'
    BY <1>3 DEF ReadWell, Distinct
  <2>1. /\ op[p].kind # "commit" => Distinct(op[p].todo)
        /\ \A i \in DOMAIN Ahead(p) : AsRead(p, Ahead(p)[i])
    BY <1>1 DEF Well, ReadWell
  <2>2. \A i \in DOMAIN Ahead(p) : Ahead(p)[i].key \in Keys
    BY <1>1, KeyTypes DEF Well
  <2>3. ASSUME NEW x, x.key \in Keys, AsRead(p, x) PROVE AsRead(p, x)'
    <3> SUFFICES ASSUME x.key \notin op'[p].restaged
                 PROVE  /\ staged'[x.key] # NoRecord
                        /\ staged'[x.key].specs = x.record.specs /\ staged'[x.key].gpu = x.record.gpu
      BY DEF AsRead
    <3>1. x.key \notin op[p].restaged /\ ~Respecified(x.key)
      BY <1>1, <2>3 DEF Tracks, SameTask
    <3> QED
      BY <2>3, <3>1 DEF AsRead, Respecified
  <2> QED
    BY <1>3, <2>1, <2>2, <2>3
<1>6. CommitWell(p)'
  <2> SUFFICES ASSUME op[p].kind = "commit" PROVE CommitWell(p)'
    BY <1>3 DEF CommitWell
  <2>1. CommitWell(p) /\ OpType(op[p])
    BY <1>1 DEF Well
  <2>2. op[p].at # "next" => Key(p) \in Keys
    BY <2>1, KeyTypes DEF OpType, StageOp, CommitOp, EnrichOp, AuditOp
  <2>3. op[p].at # "next" => /\ evidence[Key(p)] \subseteq evidence'[Key(p)]
                             /\ pending[Key(p)] <= pending'[Key(p)]
                             /\ pending[Key(p)] \in Nat /\ pending'[Key(p)] \in Nat
    BY <2>2, ImportAssumption DEF Grows, TypeInv
  <2>4. op[p].at # "next" /\ Key(p) \notin op'[p].rewritten =>
            product'[Key(p)] = product[Key(p)] /\ Key(p) \notin op[p].rewritten
    BY <1>1, <2>2 DEF Tracks, SameTask
  <2>5. \A i \in DOMAIN op[p].todo : Importable(op[p].todo[i].record)
    BY <2>1 DEF CommitWell
  <2>6. op[p].at = "upsert" /\ op[p].approval /\ Key(p) \notin op'[p].rewritten =>
            Known(product'[Key(p)], Item(p).record.specs) = {}
    BY <2>1, <2>4 DEF CommitWell
  <2>7. op[p].at = "imported" =>
            \E e \in evidence'[Key(p)] : e.kind = "import" /\ e.specs = Item(p).record.specs
    BY <2>1, <2>3 DEF CommitWell
  <2>8. op[p].at = "conflict" => pending'[Key(p)] > 0
    <3> SUFFICES ASSUME op[p].at = "conflict" PROVE pending'[Key(p)] > 0
      OBVIOUS
    <3>1. pending[Key(p)] > 0
      BY <2>1 DEF CommitWell
    <3> QED
      BY <2>3, <3>1
  <2> QED
    BY <1>3, <2>5, <2>6, <2>7, <2>8 DEF CommitWell
<1>7. AuditWell(p)'
  <2> SUFFICES ASSUME op[p].kind = "audit"
               PROVE  Distinct(op[p].todo) /\ \A i \in DOMAIN Ahead(p) : Audited(p, Ahead(p)[i])'
    BY <1>3 DEF AuditWell, Distinct
  <2>1. Distinct(op[p].todo) /\ \A i \in DOMAIN Ahead(p) : Audited(p, Ahead(p)[i])
    BY <1>1 DEF Well, AuditWell
  <2>2. \A i \in DOMAIN Ahead(p) : Ahead(p)[i].key \in Keys
    BY <1>1, KeyTypes DEF Well
  <2>3. ASSUME NEW x, x.key \in Keys, Audited(p, x) PROVE Audited(p, x)'
    BY <1>1, <2>3 DEF Tracks, SameTask, Audited, Grows
  <2> QED
    BY <1>3, <2>1, <2>2, <2>3
<1> QED
  BY <1>2, <1>4, <1>5, <1>6, <1>7 DEF Well

-----------------------------------------------------------------------------
(* The steps of a request: what each writes, and who else sees it.          *)
StateInv == TypeInv /\ OrderInv /\ ProductInv /\ RecordInv /\ MarkInv

LEMMA Together ==
    ASSUME Inv, NEW o \in Ops, StateInv', Grows,
           \A p \in Ops \ {o} : Bystands(p), Busy(o)' => Well(o)'
    PROVE  Inv'
<1>1. ASSUME NEW p \in Ops PROVE Busy(p)' => Well(p)'
  <2>1. CASE p = o
    BY <2>1
  <2>2. CASE p # o
    <3>1. Busy(p) => Well(p)
      BY DEF Inv, OpInv
    <3>2. Bystands(p) /\ TypeInv
      BY <2>2 DEF Inv
    <3> QED
      BY <3>1, <3>2, Bystanders
  <2> QED
    BY <2>1, <2>2
<1>2. OpInv'
  BY <1>1 DEF OpInv
<1> QED
  BY <1>2 DEF Inv, StateInv

\* Nothing but the request itself changes.
LEMMA Alone ==
    ASSUME Inv, NEW o \in Ops, NEW v, op' = [op EXCEPT ![o] = v], product' = product,
           \A k \in Keys : ~Respecified(k)
    PROVE  DOMAIN op' = Ops /\ op'[o] = v /\ \A p \in Ops \ {o} : Bystands(p)
<1>1. DOMAIN op = Ops
  BY DEF Inv, TypeInv
<1>2. ASSUME NEW p \in Ops \ {o} PROVE Bystands(p)
  <2>1. op'[p] = op[p]
    BY <1>1
  <2>2. Busy(p) => DOMAIN op[p] = OpFields /\ op[p].rewritten \subseteq Keys /\ op[p].restaged \subseteq Keys
    BY DEF Inv, OpInv, Well, OpType
  <2> QED
    BY <2>1, <2>2 DEF Bystands, SameTask, Tracks
<1> QED
  BY <1>1, <1>2

LEMMA OnlyTheRequest ==
    ASSUME Inv, NEW o \in Ops, NEW v, op' = [op EXCEPT ![o] = v],
           UNCHANGED <<staged, order, product, evidence, pending>>,
           v # NoOp => Well(o)'
    PROVE  Inv'
<1>1. \A k \in Keys : ~Respecified(k)
  BY DEF Respecified
<1>2. DOMAIN op' = Ops /\ op'[o] = v /\ \A p \in Ops \ {o} : Bystands(p)
  BY <1>1, Alone
<1>3. StateInv'
  <2>1. TypeInv'
    BY <1>2 DEF Inv, TypeInv
  <2>2. OrderInv' /\ ProductInv' /\ RecordInv'
    BY DEF Inv, OrderInv, Staged, ProductInv, RecordInv
  <2>3. MarkInv'
    BY DEF Inv, MarkInv, ImportedWasApplied, ConflictIsAsked, Staged
  <2> QED
    BY <2>1, <2>2, <2>3 DEF StateInv
<1>4. Grows
  <2>1. pending \in [Keys -> 0..MaxPending] /\ MaxPending \in Nat
    BY ImportAssumption DEF Inv, TypeInv
  <2>2. \A k \in Keys : pending[k] \in Nat /\ pending[k] <= pending[k]
    BY <2>1
  <2> QED
    BY <2>2 DEF Grows
<1>5. Busy(o)' => Well(o)'
  BY <1>2 DEF Busy
<1> QED
  BY <1>2, <1>3, <1>4, <1>5, Together

\* Others under way note the key that is written.
LEMMA NotedRewritten ==
    ASSUME Inv, NEW o \in Ops, NEW k \in Keys, NEW v, op' = [Noted(o, "rewritten", k) EXCEPT ![o] = v],
           \A j \in Keys : ~Respecified(j), \A j \in Keys \ {k} : product'[j] = product[j]
    PROVE  DOMAIN op' = Ops /\ op'[o] = v /\ \A p \in Ops \ {o} : Bystands(p)
<1>1. DOMAIN op' = Ops /\ op'[o] = v
  BY DEF Noted
<1>2. ASSUME NEW p \in Ops \ {o} PROVE Bystands(p)
  <2>1. CASE ~Busy(p)
    BY <2>1 DEF Noted, Bystands
  <2>2. CASE Busy(p)
    <3>1. op'[p] = [op[p] EXCEPT !["rewritten"] = op[p]["rewritten"] \cup {k}]
      BY <2>2 DEF Noted
    <3>2. DOMAIN op[p] = OpFields /\ op[p].rewritten \subseteq Keys /\ op[p].restaged \subseteq Keys
      BY <2>2 DEF Inv, OpInv, Well, OpType
    <3>3. /\ op'[p].kind = op[p].kind /\ op'[p].at = op[p].at /\ op'[p].todo = op[p].todo /\ op'[p].done = op[p].done
          /\ op'[p].source = op[p].source /\ op'[p].approval = op[p].approval /\ op'[p].restaged = op[p].restaged
          /\ op'[p].rewritten = op[p].rewritten \cup {k} /\ DOMAIN op'[p] = OpFields
      BY <3>1, <3>2 DEF OpFields
    <3>4. SameTask(p)
      BY <3>2, <3>3 DEF SameTask
    <3>5. Tracks(p)
      BY <3>3 DEF Tracks
    <3> QED
      BY <2>2, <3>4, <3>5 DEF Bystands
  <2> QED
    BY <2>1, <2>2
<1> QED
  BY <1>1, <1>2

LEMMA NotedRestaged ==
    ASSUME Inv, NEW o \in Ops, NEW k \in Keys, NEW v, op' = [Noted(o, "restaged", k) EXCEPT ![o] = v],
           \A j \in Keys \ {k} : ~Respecified(j), product' = product
    PROVE  DOMAIN op' = Ops /\ op'[o] = v /\ \A p \in Ops \ {o} : Bystands(p)
<1>1. DOMAIN op' = Ops /\ op'[o] = v
  BY DEF Noted
<1>2. ASSUME NEW p \in Ops \ {o} PROVE Bystands(p)
  <2>1. CASE ~Busy(p)
    BY <2>1 DEF Noted, Bystands
  <2>2. CASE Busy(p)
    <3>1. op'[p] = [op[p] EXCEPT !["restaged"] = op[p]["restaged"] \cup {k}]
      BY <2>2 DEF Noted
    <3>2. DOMAIN op[p] = OpFields /\ op[p].rewritten \subseteq Keys /\ op[p].restaged \subseteq Keys
      BY <2>2 DEF Inv, OpInv, Well, OpType
    <3>3. /\ op'[p].kind = op[p].kind /\ op'[p].at = op[p].at /\ op'[p].todo = op[p].todo /\ op'[p].done = op[p].done
          /\ op'[p].source = op[p].source /\ op'[p].approval = op[p].approval /\ op'[p].rewritten = op[p].rewritten
          /\ op'[p].restaged = op[p].restaged \cup {k} /\ DOMAIN op'[p] = OpFields
      BY <3>1, <3>2 DEF OpFields
    <3>4. SameTask(p)
      BY <3>2, <3>3 DEF SameTask
    <3>5. Tracks(p)
      BY <3>3 DEF Tracks
    <3> QED
      BY <2>2, <3>4, <3>5 DEF Bystands
  <2> QED
    BY <2>1, <2>2
<1> QED
  BY <1>1, <1>2

\* A product is written.
LEMMA ProductWritten ==
    ASSUME Inv, NEW k \in Keys, NEW value \in Products, value.here, ~value.flawed, Rewrite(k, value),
           UNCHANGED <<order, evidence, pending>>, DOMAIN op' = Ops
    PROVE  /\ StateInv' /\ Grows
           /\ \A j \in Keys : ~Respecified(j)
           /\ product'[k] = value /\ \A j \in Keys \ {k} : product'[j] = product[j]
<1>1. /\ staged \in [Keys -> StagedRecords \cup {NoRecord}] /\ product \in [Keys -> Products]
      /\ NoRecord \notin StagedRecords
  BY ImportAssumption DEF Inv, TypeInv, Products
<1>2. product' = [product EXCEPT ![k] = value]
  BY DEF Rewrite
<1>3. staged' = [staged EXCEPT ![k] = IF staged[k] = NoRecord THEN NoRecord ELSE With(staged[k], [moved |-> TRUE])]
  BY DEF Rewrite
<1>4. ASSUME NEW j \in Keys
      PROVE  \/ staged'[j] = staged[j] /\ (j = k => staged[j] = NoRecord)
             \/ /\ staged[j] \in StagedRecords /\ staged'[j] \in StagedRecords /\ staged'[j].moved = TRUE
                /\ \A x \in RecordFields \ {"moved"} : staged'[j][x] = staged[j][x]
  <2>1. CASE j # k
    BY <1>1, <1>3, <2>1
  <2>2. CASE j = k /\ staged[k] = NoRecord
    BY <1>1, <1>3, <2>2
  <2>3. CASE j = k /\ staged[k] # NoRecord
    <3>1. staged[j] \in StagedRecords
      BY <1>1, <2>3
    <3>2. staged'[j] = With(staged[j], [moved |-> TRUE])
      BY <1>1, <1>3, <2>3
    <3> QED
      BY <3>1, <3>2, MovedFacts
  <2> QED
    BY <2>1, <2>2, <2>3
<1>5. \A j \in Keys : staged'[j] \in StagedRecords \cup {NoRecord} /\ (staged'[j] = NoRecord <=> staged[j] = NoRecord)
  BY <1>1, <1>4
<1>6. ASSUME NEW j \in Keys, staged[j] # NoRecord
      PROVE  /\ staged'[j].specs = staged[j].specs /\ staged'[j].gpu = staged[j].gpu
             /\ staged'[j].mark = staged[j].mark /\ staged'[j].raced = staged[j].raced
             /\ Sound(staged'[j])
             /\ ~staged'[j].moved => staged'[j] = staged[j] /\ j # k
  <2>1. Sound(staged[j])
    BY <1>6 DEF Inv, RecordInv
  <2>2. CASE staged'[j] = staged[j] /\ j # k
    BY <2>1, <2>2
  <2>3. CASE /\ staged'[j] \in StagedRecords /\ staged'[j].moved = TRUE
             /\ \A x \in RecordFields \ {"moved"} : staged'[j][x] = staged[j][x]
    <3>1. /\ staged'[j].specs = staged[j].specs /\ staged'[j].gpu = staged[j].gpu
          /\ staged'[j].mark = staged[j].mark /\ staged'[j].raced = staged[j].raced
          /\ staged'[j].status = staged[j].status /\ staged'[j].flawed = staged[j].flawed
          /\ staged'[j].confirmed = staged[j].confirmed /\ staged'[j].torn = staged[j].torn
          /\ staged'[j].rejected = staged[j].rejected /\ staged'[j].exact = staged[j].exact
          /\ staged'[j].family = staged[j].family /\ staged'[j].ready = staged[j].ready
      BY <2>3 DEF RecordFields
    <3>2. Sound(staged'[j])
      BY <2>1, <2>3, <3>1 DEF Sound, Ready
    <3> QED
      BY <2>3, <3>1, <3>2
  <2> QED
    BY <1>4, <1>6, <2>2, <2>3
<1>7. Staged' = Staged
  BY <1>5 DEF Staged
<1>8. \A j \in Keys : ~Respecified(j)
  BY <1>5, <1>6 DEF Respecified
<1>9. product'[k] = value /\ \A j \in Keys \ {k} : product'[j] = product[j]
  BY <1>1, <1>2
<1>10. TypeInv'
  <2>1. staged' \in [Keys -> StagedRecords \cup {NoRecord}]
    BY <1>1, <1>3, <1>5
  <2>2. product' \in [Keys -> Products]
    BY <1>1, <1>2
  <2> QED
    BY <2>1, <2>2 DEF Inv, TypeInv, Products
<1>11. OrderInv'
  BY <1>7 DEF Inv, OrderInv
<1>12. ProductInv'
  BY <1>9 DEF Inv, ProductInv
<1>13. RecordInv'
  <2> SUFFICES ASSUME NEW j \in Keys, staged'[j] # NoRecord
               PROVE  /\ Sound(staged'[j])
                      /\ ~staged'[j].moved => staged'[j].conflicts = Known(product'[j], staged'[j].specs)
    BY DEF RecordInv
  <2>1. staged[j] # NoRecord
    BY <1>5
  <2>2. ~staged[j].moved => staged[j].conflicts = Known(product[j], staged[j].specs)
    BY <2>1 DEF Inv, RecordInv
  <2> QED
    BY <1>6, <1>9, <2>1, <2>2
<1>14. MarkInv'
  BY <1>6, <1>7 DEF Inv, MarkInv, ImportedWasApplied, ConflictIsAsked, Staged
<1>15. Grows
  <2>1. pending \in [Keys -> 0..MaxPending] /\ MaxPending \in Nat
    BY ImportAssumption DEF Inv, TypeInv
  <2>2. \A j \in Keys : pending[j] \in Nat /\ pending[j] <= pending[j]
    BY <2>1
  <2>3. \A j \in Keys : product[j].here => product'[j].here
    BY <1>9
  <2> QED
    BY <2>2, <2>3 DEF Grows
<1> QED
  BY <1>8, <1>9, <1>10, <1>11, <1>12, <1>13, <1>14, <1>15 DEF StateInv

\* A record is staged or enriched.
LEMMA RecordWritten ==
    ASSUME Inv, NEW k \in Keys, NEW value \in StagedRecords, Sound(value), value.mark = "pending",
           ~value.moved => value.conflicts = Known(product[k], value.specs),
           staged' = [staged EXCEPT ![k] = value],
           order' = Arrived(k),
           UNCHANGED <<product, evidence, pending>>, DOMAIN op' = Ops
    PROVE  /\ StateInv' /\ Grows
           /\ \A j \in Keys \ {k} : ~Respecified(j)
           /\ staged'[k] = value
<1>1. staged \in [Keys -> StagedRecords \cup {NoRecord}] /\ NoRecord \notin StagedRecords
  BY ImportAssumption DEF Inv, TypeInv
<1>2. staged'[k] = value /\ value # NoRecord /\ \A j \in Keys \ {k} : staged'[j] = staged[j]
  BY <1>1
<1>3. \A j \in Keys \ {k} : ~Respecified(j)
  BY <1>2 DEF Respecified
<1>4. TypeInv'
  <2>1. staged' \in [Keys -> StagedRecords \cup {NoRecord}]
    BY <1>1
  <2> QED
    BY <2>1 DEF Inv, TypeInv
<1>5. Staged' = Staged \cup {k}
  BY <1>2 DEF Staged
<1>6. OrderInv'
  <2>1. order \in Seq(Keys) /\ ToSet(order) = Staged /\ \A i, j \in DOMAIN order : order[i] = order[j] => i = j
    BY DEF Inv, OrderInv
  <2>2. CASE staged[k] # NoRecord
    <3>1. order' = order /\ k \in Staged
      BY <2>2 DEF Arrived, Staged
    <3> QED
      BY <1>5, <2>1, <3>1 DEF OrderInv
  <2>3. CASE staged[k] = NoRecord
    <3>1. order' = Append(order, k) /\ k \notin Staged
      BY <2>3 DEF Arrived, Staged
    <3>2. /\ order' \in Seq(Keys) /\ Len(order) \in Nat /\ DOMAIN order = 1..Len(order)
          /\ DOMAIN order' = 1..(Len(order) + 1) /\ order'[Len(order) + 1] = k
          /\ \A i \in DOMAIN order : order'[i] = order[i]
      BY <2>1, <3>1
    <3>3. \A i \in DOMAIN order' : i = Len(order) + 1 \/ i \in DOMAIN order
      BY <3>2
    <3>4. \A i \in DOMAIN order : order[i] # k
      BY <2>1, <3>1 DEF ToSet
    <3>5. \A i, j \in DOMAIN order' : order'[i] = order'[j] => i = j
      BY <2>1, <3>2, <3>3, <3>4
    <3>6. \A x : x \in ToSet(order') <=> x \in Staged \cup {k}
      <4>1. \A x : (\E i \in DOMAIN order' : order'[i] = x) <=> x = k \/ \E i \in DOMAIN order : order[i] = x
        BY <3>2, <3>3
      <4>2. \A x : x \in Staged <=> \E i \in DOMAIN order : order[i] = x
        BY <2>1 DEF ToSet
      <4> QED
        BY <4>1, <4>2 DEF ToSet
    <3> QED
      BY <1>5, <3>2, <3>5, <3>6 DEF OrderInv
  <2> QED
    BY <2>2, <2>3
<1>7. ProductInv'
  BY DEF Inv, ProductInv
<1>8. RecordInv'
  <2> SUFFICES ASSUME NEW j \in Keys, staged'[j] # NoRecord
               PROVE  /\ Sound(staged'[j])
                      /\ ~staged'[j].moved => staged'[j].conflicts = Known(product[j], staged'[j].specs)
    BY DEF RecordInv
  <2>1. CASE j = k
    BY <1>2, <2>1
  <2>2. CASE j # k
    BY <1>2, <2>2 DEF Inv, RecordInv
  <2> QED
    BY <2>1, <2>2
<1>9. MarkInv'
  <2>1. ASSUME NEW j \in Staged' PROVE staged'[j].mark = "pending" \/ (j \in Staged /\ staged'[j] = staged[j])
    <3>1. j = k \/ (j \in Staged /\ j \in Keys \ {k})
      BY <1>5 DEF Staged
    <3> QED
      BY <1>2, <3>1
  <2>2. ImportedWasApplied /\ ConflictIsAsked
    BY DEF Inv, MarkInv
  <2>3. ConflictIsAsked'
    <3> SUFFICES ASSUME NEW j \in Staged', staged'[j].mark = "conflict" PROVE pending[j] > 0
      BY DEF ConflictIsAsked
    <3> QED
      BY <2>1, <2>2 DEF ConflictIsAsked
  <2>4. ImportedWasApplied'
    <3> SUFFICES ASSUME NEW j \in Staged', staged'[j].mark = "imported", ~staged'[j].raced
                 PROVE  \E e \in evidence[j] : e.kind = "import" /\ e.specs = staged'[j].specs
      BY DEF ImportedWasApplied
    <3> QED
      BY <2>1, <2>2 DEF ImportedWasApplied
  <2> QED
    BY <2>3, <2>4 DEF MarkInv
<1>10. Grows
  <2>1. pending \in [Keys -> 0..MaxPending] /\ MaxPending \in Nat
    BY ImportAssumption DEF Inv, TypeInv
  <2>2. \A j \in Keys : pending[j] \in Nat /\ pending[j] <= pending[j]
    BY <2>1
  <2> QED
    BY <2>2 DEF Grows
<1> QED
  BY <1>2, <1>3, <1>4, <1>6, <1>7, <1>8, <1>9, <1>10 DEF StateInv

\* A record is marked.
LEMMA RecordMarked ==
    ASSUME Inv, NEW k \in Keys, NEW mark \in {"skipped", "conflict", "imported"}, NEW raced \in BOOLEAN,
           staged[k] # NoRecord,
           mark = "imported" /\ ~raced => \E e \in evidence[k] : e.kind = "import" /\ e.specs = staged[k].specs,
           mark = "conflict" => pending[k] > 0,
           staged' = [staged EXCEPT ![k] = With(staged[k], [mark |-> mark, raced |-> raced])],
           UNCHANGED <<order, product, evidence, pending>>, DOMAIN op' = Ops
    PROVE  /\ StateInv' /\ Grows
           /\ \A j \in Keys : ~Respecified(j)
<1>1. staged \in [Keys -> StagedRecords \cup {NoRecord}] /\ NoRecord \notin StagedRecords
  BY ImportAssumption DEF Inv, TypeInv
<1>2. staged[k] \in StagedRecords
  BY <1>1
<1> DEFINE s == With(staged[k], [mark |-> mark, raced |-> raced])
<1>3. /\ s \in StagedRecords /\ s.mark = mark /\ s.raced = raced
      /\ \A x \in RecordFields \ {"mark", "raced"} : s[x] = staged[k][x]
  BY <1>2, MarkedFacts
<1>4. staged'[k] = s /\ \A j \in Keys \ {k} : staged'[j] = staged[j]
  BY <1>1
<1> HIDE DEF s
<1>5. /\ s.specs = staged[k].specs /\ s.gpu = staged[k].gpu
      /\ s.status = staged[k].status /\ s.flawed = staged[k].flawed /\ s.conflicts = staged[k].conflicts
      /\ s.confirmed = staged[k].confirmed /\ s.torn = staged[k].torn /\ s.moved = staged[k].moved
      /\ s.rejected = staged[k].rejected /\ s.exact = staged[k].exact
      /\ s.family = staged[k].family /\ s.ready = staged[k].ready /\ s # NoRecord
  BY <1>1, <1>3 DEF RecordFields
<1>6. \A j \in Keys : ~Respecified(j)
  BY <1>4, <1>5 DEF Respecified
<1>7. Staged' = Staged
  BY <1>4, <1>5 DEF Staged
<1>8. TypeInv'
  <2>1. staged' \in [Keys -> StagedRecords \cup {NoRecord}]
    BY <1>1, <1>3 DEF s
  <2> QED
    BY <2>1 DEF Inv, TypeInv
<1>9. OrderInv' /\ ProductInv'
  BY <1>7 DEF Inv, OrderInv, ProductInv
<1>10. RecordInv'
  <2> SUFFICES ASSUME NEW j \in Keys, staged'[j] # NoRecord
               PROVE  /\ Sound(staged'[j])
                      /\ ~staged'[j].moved => staged'[j].conflicts = Known(product[j], staged'[j].specs)
    BY DEF RecordInv
  <2>1. CASE j = k
    <3>1. Sound(staged[k]) /\ (~staged[k].moved => staged[k].conflicts = Known(product[k], staged[k].specs))
      BY DEF Inv, RecordInv
    <3>2. Sound(s)
      BY <1>5, <3>1 DEF Sound, Ready
    <3> QED
      BY <1>4, <1>5, <2>1, <3>1, <3>2
  <2>2. CASE j # k
    BY <1>4, <2>2 DEF Inv, RecordInv
  <2> QED
    BY <2>1, <2>2
<1>11. MarkInv'
  <2>1. ImportedWasApplied /\ ConflictIsAsked
    BY DEF Inv, MarkInv
  <2>2. \A j \in Staged : j = k \/ staged'[j] = staged[j]
    BY <1>4 DEF Staged
  <2>3. ConflictIsAsked'
    <3> SUFFICES ASSUME NEW j \in Staged, staged'[j].mark = "conflict" PROVE pending[j] > 0
      BY <1>7 DEF ConflictIsAsked
    <3> QED
      BY <1>3, <1>4, <2>1, <2>2 DEF ConflictIsAsked
  <2>4. ImportedWasApplied'
    <3> SUFFICES ASSUME NEW j \in Staged, staged'[j].mark = "imported", ~staged'[j].raced
                 PROVE  \E e \in evidence[j] : e.kind = "import" /\ e.specs = staged'[j].specs
      BY <1>7 DEF ImportedWasApplied
    <3>1. CASE j = k
      BY <1>3, <1>4, <1>5, <3>1
    <3>2. CASE j # k
      BY <2>1, <2>2, <3>2 DEF ImportedWasApplied
    <3> QED
      BY <3>1, <3>2
  <2> QED
    BY <2>3, <2>4 DEF MarkInv
<1>12. Grows
  <2>1. pending \in [Keys -> 0..MaxPending] /\ MaxPending \in Nat
    BY ImportAssumption DEF Inv, TypeInv
  <2>2. \A j \in Keys : pending[j] \in Nat /\ pending[j] <= pending[j]
    BY <2>1
  <2> QED
    BY <2>2 DEF Grows
<1> QED
  BY <1>6, <1>8, <1>9, <1>10, <1>11, <1>12 DEF StateInv

\* Evidence or an approval is added.
LEMMA Noticed ==
    ASSUME Inv, evidence' \in [Keys -> SUBSET [kind : Kinds, specs : Specs]], pending' \in [Keys -> 0..MaxPending],
           \A k \in Keys : evidence[k] \subseteq evidence'[k] /\ pending[k] <= pending'[k],
           UNCHANGED <<staged, order, product>>, DOMAIN op' = Ops
    PROVE  StateInv' /\ Grows /\ \A j \in Keys : ~Respecified(j)
<1>1. TypeInv'
  BY DEF Inv, TypeInv
<1>2. OrderInv' /\ ProductInv' /\ RecordInv'
  BY DEF Inv, OrderInv, Staged, ProductInv, RecordInv
<1>3. \A k \in Keys : pending[k] \in Nat /\ pending'[k] \in Nat
  <2>1. pending \in [Keys -> 0..MaxPending] /\ MaxPending \in Nat
    BY ImportAssumption DEF Inv, TypeInv
  <2> QED
    BY <2>1
<1>4. MarkInv'
  <2>1. ImportedWasApplied /\ ConflictIsAsked /\ Staged \subseteq Keys /\ Staged' = Staged
    BY DEF Inv, MarkInv, Staged
  <2>2. ConflictIsAsked'
    <3> SUFFICES ASSUME NEW j \in Staged, staged[j].mark = "conflict" PROVE pending'[j] > 0
      BY <2>1 DEF ConflictIsAsked
    <3>1. pending[j] > 0 /\ j \in Keys
      BY <2>1 DEF ConflictIsAsked
    <3>2. pending[j] \in Nat /\ pending'[j] \in Nat /\ pending[j] <= pending'[j]
      BY <1>3, <3>1
    <3> QED
      BY <3>1, <3>2
  <2>3. ImportedWasApplied'
    BY <2>1 DEF ImportedWasApplied
  <2> QED
    BY <2>2, <2>3 DEF MarkInv
<1>5. Grows
  BY <1>3 DEF Grows
<1> QED
  BY <1>1, <1>2, <1>4, <1>5 DEF StateInv, Respecified

-----------------------------------------------------------------------------
(* Every action of a request keeps the invariant.                           *)
LEMMA InHand ==
    ASSUME Inv, NEW o \in Ops, NEW kind, NEW at, Does(o, kind, at)
    PROVE  /\ Busy(o) /\ Well(o) /\ DOMAIN op = Ops /\ DOMAIN op[o] = OpFields
           /\ op[o].kind = kind /\ op[o].at = at /\ op[o].rewritten \subseteq Keys /\ op[o].restaged \subseteq Keys
  BY DEF Inv, OpInv, TypeInv, Does, Well, OpType

LEMMA StageBeginKeeps ==
    ASSUME Inv, NEW o \in Ops, NEW source \in Sources, NEW rows \in Datasets, StageBegin(o, source, rows)
    PROVE  Inv'
<1> DEFINE v == With(Blank, [kind |-> "stage", at |-> "judge", source |-> source, todo |-> rows])
<1>1. op' = [op EXCEPT ![o] = v] /\ UNCHANGED <<staged, order, product, evidence, pending>>
  BY DEF StageBegin, Begin
<1>2. /\ DOMAIN v = OpFields /\ v.kind = "stage" /\ v.at = "judge" /\ v.source = source /\ v.todo = rows
      /\ v.done = <<>> /\ v.rewritten = {} /\ v.restaged = {}
  BY DEF With, Blank, OpFields
<1> HIDE DEF v
<1>3. op'[o] = v
  BY <1>1 DEF Inv, TypeInv
<1>4. rows \in Seq(Rows) /\ <<>> \in Seq(StageItems)
  BY ImportAssumption
<1>5. OpType(v)
  BY <1>2, <1>4 DEF OpType, StageOp
<1>6. Well(o)'
  <2>1. StageWell(o)'
    BY <1>2, <1>3 DEF StageWell
  <2>2. ReadWell(o)' /\ CommitWell(o)' /\ AuditWell(o)'
    BY <1>2, <1>3 DEF ReadWell, CommitWell, AuditWell
  <2> QED
    BY <1>3, <1>5, <2>1, <2>2 DEF Well
<1> QED
  BY <1>1, <1>6, OnlyTheRequest

LEMMA StageJudgeKeeps ==
    ASSUME Inv, NEW o \in Ops, StageJudge(o)
    PROVE  Inv'
<1>1. /\ Busy(o) /\ Well(o) /\ DOMAIN op = Ops /\ DOMAIN op[o] = OpFields
      /\ op[o].kind = "stage" /\ op[o].at = "judge" /\ op[o].rewritten \subseteq Keys /\ op[o].restaged \subseteq Keys
  BY InHand DEF StageJudge
<1>2. op[o].source \in Sources /\ op[o].done \in Seq(StageItems) /\ op[o].todo \in Seq(Rows)
  BY <1>1 DEF Well, OpType, StageOp, CommitOp, EnrichOp, AuditOp
<1>3. \A i \in DOMAIN op[o].done : Judged(o, op[o].done[i])
  BY <1>1 DEF Well, StageWell
<1>4. UNCHANGED <<staged, order, product, evidence, pending>>
  BY DEF StageJudge
<1>5. CASE op[o].todo = <<>>
  <2> DEFINE v == With(op[o], [at |-> "write", todo |-> op[o].done])
  <2>1. op' = [op EXCEPT ![o] = v]
    BY <1>5 DEF StageJudge, Step
  <2>2. /\ DOMAIN v = OpFields /\ v.kind = "stage" /\ v.at = "write" /\ v.source = op[o].source
        /\ v.todo = op[o].done /\ v.done = op[o].done /\ v.rewritten = op[o].rewritten /\ v.restaged = op[o].restaged
    BY <1>1 DEF With, OpFields
  <2> HIDE DEF v
  <2>3. op'[o] = v
    BY <1>1, <2>1
  <2>4. OpType(v)
    BY <1>1, <1>2, <2>2 DEF OpType, StageOp
  <2>5. \A i \in DOMAIN op[o].done : Judged(o, op[o].done[i])'
    BY <1>3, <1>4, <2>2, <2>3 DEF Judged
  <2>6. Well(o)'
    BY <2>2, <2>3, <2>4, <2>5 DEF Well, StageWell, ReadWell, CommitWell, AuditWell
  <2> QED
    BY <1>4, <2>1, <2>6, OnlyTheRequest
<1>6. CASE op[o].todo # <<>>
  <2> DEFINE item == [key |-> Key(o), record |-> StagedRecord(Item(o), op[o].source, product[Key(o)])]
             kept == op[o].rewritten \ ({Key(o)} \ {x.key : x \in ToSet(op[o].done)})
             done == Append(op[o].done, item)
             rest == Tail(op[o].todo)
             v == With(op[o], [todo |-> rest, rewritten |-> kept, done |-> done])
  <2>1. op' = [op EXCEPT ![o] = v]
    BY <1>6 DEF StageJudge, Step
  <2>2. Item(o) \in Rows /\ Key(o) \in Keys /\ rest \in Seq(Rows)
    <3>1. Item(o) \in Rows /\ rest \in Seq(Rows)
      BY <1>2, <1>6, HeadAndTail DEF Item
    <3> QED
      BY <3>1 DEF Key, Rows
  <2>3. product[Key(o)] \in Products
    BY <2>2 DEF Inv, TypeInv, Products
  <2>4. /\ item.record \in StagedRecords /\ Fresh(item.record) /\ item.key = Key(o)
        /\ item.record.conflicts = Known(product[Key(o)], item.record.specs)
    BY <1>2, <2>2, <2>3, StagedRecordFacts
  <2>5. item \in StageItems
    BY <2>2, <2>4 DEF StageItems
  <2> HIDE DEF item
  <2>6. /\ done \in Seq(StageItems)
        /\ \A i \in DOMAIN done : done[i] = item \/ \E j \in DOMAIN op[o].done : done[i] = op[o].done[j]
    BY <1>2, <2>5
  <2>7. kept \subseteq Keys
    BY <1>1
  <2>8. ASSUME NEW i \in DOMAIN op[o].done
        PROVE  op[o].done[i].key \notin kept => op[o].done[i].key \notin op[o].rewritten
    <3>1. op[o].done[i].key \in {x.key : x \in ToSet(op[o].done)}
      BY DEF ToSet
    <3> QED
      BY <3>1
  <2> HIDE DEF kept, done, rest
  <2>9. /\ DOMAIN v = OpFields /\ v.kind = "stage" /\ v.at = "judge" /\ v.source = op[o].source
        /\ v.todo = rest /\ v.done = done /\ v.rewritten = kept /\ v.restaged = op[o].restaged
    BY <1>1 DEF With, OpFields
  <2> HIDE DEF v
  <2>10. op'[o] = v
    BY <1>1, <2>1
  <2>11. OpType(v)
    BY <1>1, <1>2, <2>2, <2>6, <2>7, <2>9 DEF OpType, StageOp
  <2>12. ASSUME NEW i, i \in DOMAIN done, NEW x, x = done[i] PROVE Judged(o, x)'
    <3>1. CASE x = item
      BY <1>4, <2>4, <3>1 DEF Judged
    <3>2. ASSUME NEW j \in DOMAIN op[o].done, x = op[o].done[j] PROVE Judged(o, x)'
      <4>1. Judged(o, x) /\ (x.key \notin kept => x.key \notin op[o].rewritten)
        BY <1>3, <2>8, <3>2
      <4> QED
        BY <1>4, <2>9, <2>10, <4>1 DEF Judged
    <3> QED
      BY <2>6, <2>12, <3>1, <3>2
  <2>13. StageWell(o)'
    <3>1. \A x : (\E i \in DOMAIN done : x = done[i]) => Judged(o, x)'
      BY <2>12
    <3>2. op'[o].at # "write" /\ op'[o].done = done
      BY <2>9, <2>10
    <3> QED
      BY <3>1, <3>2 DEF StageWell
  <2>14. Well(o)'
    BY <2>9, <2>10, <2>11, <2>13 DEF Well, ReadWell, CommitWell, AuditWell
  <2> QED
    BY <1>4, <2>1, <2>14, OnlyTheRequest
<1> QED
  BY <1>5, <1>6

LEMMA StageWriteKeeps ==
    ASSUME Inv, NEW o \in Ops, StageWrite(o)
    PROVE  Inv'
<1>1. /\ Busy(o) /\ Well(o) /\ DOMAIN op = Ops /\ DOMAIN op[o] = OpFields
      /\ op[o].kind = "stage" /\ op[o].at = "write" /\ op[o].rewritten \subseteq Keys /\ op[o].restaged \subseteq Keys
  BY InHand DEF StageWrite
<1>2. op[o].source \in Sources /\ op[o].done \in Seq(StageItems) /\ op[o].todo \in Seq(StageItems)
  BY <1>1 DEF Well, OpType, StageOp, CommitOp, EnrichOp, AuditOp
<1>3. /\ \A i \in DOMAIN op[o].done : Judged(o, op[o].done[i])
      /\ \A i \in DOMAIN op[o].todo : Judged(o, op[o].todo[i])
  BY <1>1 DEF Well, StageWell
<1>4. UNCHANGED <<product, evidence, pending>>
  BY DEF StageWrite
<1>5. CASE op[o].todo = <<>>
  <2>1. op' = [op EXCEPT ![o] = NoOp] /\ UNCHANGED <<staged, order>>
    BY <1>5 DEF StageWrite, End
  <2> QED
    BY <1>4, <2>1, OnlyTheRequest
<1>6. CASE op[o].todo # <<>>
  <2> DEFINE k == Key(o)
             r == Item(o).record
             value == With(Restaged(k, r), [moved |-> k \in op[o].rewritten])
             rest == Tail(op[o].todo)
             v == With(op[o], [todo |-> rest])
  <2>1. /\ staged' = [staged EXCEPT ![k] = value] /\ op' = [Noted(o, "restaged", k) EXCEPT ![o] = v]
        /\ order' = Arrived(k)
    BY <1>6 DEF StageWrite, WriteStaged
  <2>2. /\ Item(o) \in StageItems /\ Judged(o, Item(o)) /\ rest \in Seq(StageItems)
        /\ \A i \in DOMAIN rest : i + 1 \in DOMAIN op[o].todo /\ rest[i] = op[o].todo[i + 1]
    BY <1>2, <1>3, <1>6, HeadAndTail DEF Item
  <2>3. k \in Keys /\ r \in StagedRecords /\ Fresh(r) /\ staged[k] \in StagedRecords \cup {NoRecord}
    BY <2>2 DEF StageItems, Key, Judged, Inv, TypeInv
  <2>4. k \notin op[o].rewritten => r.conflicts = Known(product[k], r.specs)
    BY <2>2 DEF Judged, Key
  <2>5. (k \in op[o].rewritten) \in BOOLEAN
    OBVIOUS
  <2>6. /\ value \in StagedRecords /\ Sound(value) /\ value.moved = (k \in op[o].rewritten)
        /\ value.conflicts = r.conflicts /\ value.specs = r.specs /\ value.mark = "pending"
    <3> DEFINE moved == k \in op[o].rewritten
    <3>1. moved \in BOOLEAN
      BY <2>5
    <3> HIDE DEF k, r, moved
    <3>2. LET s == With(Restaged(k, r), [moved |-> moved])
          IN  s \in StagedRecords /\ Sound(s) /\ s.moved = moved /\ s.conflicts = r.conflicts /\ s.specs = r.specs
              /\ s.mark = "pending"
      BY <2>3, <3>1, RestagedFacts
    <3> QED
      BY <3>2 DEF moved
  <2>7. ~value.moved => value.conflicts = Known(product[k], value.specs)
    <3> HIDE DEF value, k, r
    <3> QED
      BY <2>4, <2>6
  <2> HIDE DEF k, value, v
  <2>8. DOMAIN op' = Ops
    BY <2>1 DEF Noted
  <2>9. StateInv' /\ Grows /\ (\A j \in Keys \ {k} : ~Respecified(j)) /\ staged'[k] = value
    BY <1>4, <2>1, <2>3, <2>6, <2>7, <2>8, RecordWritten
  <2>10. op'[o] = v /\ \A p \in Ops \ {o} : Bystands(p)
    BY <1>4, <2>1, <2>3, <2>9, NotedRestaged
  <2> HIDE DEF rest
  <2>11. /\ DOMAIN v = OpFields /\ v.kind = "stage" /\ v.at = "write" /\ v.source = op[o].source
         /\ v.todo = rest /\ v.done = op[o].done /\ v.rewritten = op[o].rewritten /\ v.restaged = op[o].restaged
    BY <1>1 DEF With, OpFields, v
  <2>12. OpType(v)
    BY <1>1, <1>2, <2>2, <2>11 DEF OpType, StageOp
  <2>13. StageWell(o)'
    <3>1. ASSUME NEW x, Judged(o, x) PROVE Judged(o, x)'
      BY <1>4, <2>10, <2>11, <3>1 DEF Judged
    <3>2. /\ \A x : (\E i \in DOMAIN op[o].done : x = op[o].done[i]) => Judged(o, x)'
          /\ \A x : (\E i \in DOMAIN rest : x = rest[i]) => Judged(o, x)'
      BY <1>3, <2>2, <3>1 DEF rest
    <3>3. op'[o].done = op[o].done /\ op'[o].todo = rest
      BY <2>10, <2>11
    <3> QED
      BY <3>2, <3>3 DEF StageWell
  <2>14. Well(o)'
    BY <2>10, <2>11, <2>12, <2>13 DEF Well, ReadWell, CommitWell, AuditWell
  <2> QED
    BY <2>9, <2>10, <2>14, Together
<1> QED
  BY <1>5, <1>6

LEMMA WindowFacts ==
    ASSUME Inv, NEW source, NEW card
    PROVE  /\ WindowOf(source, card) \in Seq(StageItems)
           /\ \A i \in DOMAIN WindowOf(source, card) :
                LET x == WindowOf(source, card)[i]
                IN  staged[x.key] # NoRecord /\ x.record = staged[x.key] /\ Importable(x.record)
<1> DEFINE C == {k \in Staged : Committable(k, source, card)}
           all == Among(C)
           n == IF Len(all) < BatchLimit THEN Len(all) ELSE BatchLimit
           window == SubSeq(all, 1, n)
           w == [i \in 1..Len(window) |-> [key |-> window[i], record |-> staged[window[i]]]]
<1>1. WindowOf(source, card) = w
  BY DEF WindowOf
<1>2. all \in Seq(Keys) /\ ToSet(all) = Staged \cap C
  BY AmongFacts DEF Inv
<1> HIDE DEF all
<1>3. n \in Nat /\ n <= Len(all) /\ Len(all) \in Nat /\ DOMAIN all = 1..Len(all)
  BY <1>2, ImportAssumption
<1>4. Len(window) = n /\ \A i \in 1..n : window[i] = all[i]
  <2> HIDE DEF n
  <2> QED
    BY <1>2, <1>3
<1> HIDE DEF n, window, C
<1>5. \A i \in 1..n : window[i] \in C /\ window[i] \in Keys /\ window[i] \in Staged
  <2>1. \A i \in 1..n : i \in DOMAIN all
    BY <1>3
  <2>2. \A i \in DOMAIN all : all[i] \in C /\ all[i] \in Staged
    BY <1>2 DEF ToSet
  <2> QED
    BY <1>4, <2>1, <2>2 DEF Staged
<1>6. ASSUME NEW k \in C, k \in Keys, k \in Staged
      PROVE  staged[k] \in StagedRecords /\ staged[k] # NoRecord /\ Importable(staged[k])
  <2>1. staged[k] \in StagedRecords /\ staged[k] # NoRecord
    BY <1>6 DEF Staged, Inv, TypeInv
  <2>2. staged[k].status = "valid"
    BY <1>6 DEF C, Committable
  <2>3. Sound(staged[k])
    BY <1>6, <2>1 DEF Inv, RecordInv
  <2> QED
    BY <2>1, <2>2, <2>3 DEF Sound, Importable
<1>7. \A i \in 1..n : /\ w[i] = [key |-> window[i], record |-> staged[window[i]]]
                      /\ w[i] \in StageItems /\ staged[w[i].key] # NoRecord /\ w[i].record = staged[w[i].key]
                      /\ Importable(w[i].record)
  BY <1>4, <1>5, <1>6 DEF StageItems
<1>8. DOMAIN w = 1..n /\ w \in Seq(StageItems)
  <2>1. w = [i \in 1..n |-> w[i]] /\ DOMAIN w = 1..n
    BY <1>4
  <2> HIDE DEF w
  <2> QED
    BY <1>3, <1>7, <2>1
<1> HIDE DEF w
<1> QED
  BY <1>1, <1>7, <1>8

LEMMA CommitBeginKeeps ==
    ASSUME Inv, NEW o \in Ops, NEW source \in Sources, NEW card \in BOOLEAN, NEW approval \in Approvals,
           CommitBegin(o, source, card, approval)
    PROVE  Inv'
<1> DEFINE w == WindowOf(source, card)
           v == With(Blank, [kind |-> "commit", source |-> source, todo |-> w, approval |-> approval])
<1>1. op' = [op EXCEPT ![o] = v] /\ UNCHANGED <<staged, order, product, evidence, pending>>
  BY DEF CommitBegin, Begin
<1>2. /\ w \in Seq(StageItems)
      /\ \A i \in DOMAIN w : staged[w[i].key] # NoRecord /\ w[i].record = staged[w[i].key] /\ Importable(w[i].record)
  BY WindowFacts
<1> HIDE DEF w
<1>3. /\ DOMAIN v = OpFields /\ v.kind = "commit" /\ v.at = "next" /\ v.approval = approval /\ v.todo = w
      /\ v.rewritten = {} /\ v.restaged = {}
  BY DEF With, Blank, OpFields
<1> HIDE DEF v
<1>4. op'[o] = v
  BY <1>1 DEF Inv, TypeInv
<1>5. OpType(v)
  BY <1>2, <1>3, ImportAssumption DEF OpType, CommitOp, CommitStages
<1>6. ReadWell(o)'
  <2>1. \A x : (\E i \in DOMAIN w : x = w[i]) => AsRead(o, x)'
    BY <1>1, <1>2 DEF AsRead
  <2>2. Ahead(o)' = w
    BY <1>3, <1>4 DEF Ahead
  <2>3. op'[o].kind = "commit"
    BY <1>3, <1>4
  <2> QED
    BY <2>1, <2>2, <2>3 DEF ReadWell
<1>7. CommitWell(o)'
  BY <1>2, <1>3, <1>4 DEF CommitWell
<1>8. Well(o)'
  BY <1>3, <1>4, <1>5, <1>6, <1>7 DEF Well, StageWell, AuditWell
<1> QED
  BY <1>1, <1>8, OnlyTheRequest

\* A commit goes on: the records it has in hand stay what they were read as.
LEMMA CommitGoesOn ==
    ASSUME Inv, NEW o \in Ops, Busy(o), op[o].kind = "commit",
           DOMAIN op'[o] = OpFields, op'[o].kind = "commit", op'[o].approval = op[o].approval,
           op'[o].restaged = op[o].restaged, op'[o].rewritten \subseteq Keys,
           op'[o].at \in CommitStages, op'[o].at # "next" => op'[o].todo # <<>>,
           \/ op'[o].todo = op[o].todo
           \/ op[o].todo # <<>> /\ op'[o].todo = Tail(op[o].todo),
           \A k \in Keys : ~Respecified(k),
           op'[o].at = "upsert" /\ op'[o].approval /\ Key(o)' \notin op'[o].rewritten =>
             Known(product'[Key(o)'], Item(o)'.record.specs) = {},
           op'[o].at = "imported" =>
             \E e \in evidence'[Key(o)'] : e.kind = "import" /\ e.specs = Item(o)'.record.specs,
           op'[o].at = "conflict" => pending'[Key(o)'] > 0
    PROVE  Well(o)'
<1>1. Well(o) /\ OpType(op[o])
  BY DEF Inv, OpInv, Well
<1>2. op[o].todo \in Seq(StageItems) /\ op[o].approval \in BOOLEAN /\ op[o].restaged \subseteq Keys /\ op[o].at \in CommitStages
  BY <1>1 DEF OpType, StageOp, CommitOp, EnrichOp, AuditOp
<1>3. /\ op'[o].todo \in Seq(StageItems)
      /\ \A i \in DOMAIN op'[o].todo : \E j \in DOMAIN op[o].todo : op'[o].todo[i] = op[o].todo[j]
  <2>1. CASE op'[o].todo = op[o].todo
    BY <1>2, <2>1
  <2>2. CASE op[o].todo # <<>> /\ op'[o].todo = Tail(op[o].todo)
    BY <1>2, <2>2, HeadAndTail
  <2> QED
    BY <2>1, <2>2
<1>4. OpType(op[o])'
  BY <1>2, <1>3 DEF OpType, CommitOp
<1>5. Ahead(o) = op[o].todo /\ Ahead(o)' = op'[o].todo
  BY <1>2 DEF Ahead, CommitStages
<1>6. ReadWell(o)'
  <2>1. \A i \in DOMAIN op[o].todo : AsRead(o, op[o].todo[i]) /\ op[o].todo[i].key \in Keys
    <3>1. \A i \in DOMAIN op[o].todo : AsRead(o, op[o].todo[i])
      BY <1>1, <1>5 DEF Well, ReadWell
    <3>2. \A i \in DOMAIN op[o].todo : op[o].todo[i].key \in Keys
      BY <1>1, <1>5, KeyTypes
    <3> QED
      BY <3>1, <3>2
  <2>2. ASSUME NEW x, x.key \in Keys, AsRead(o, x) PROVE AsRead(o, x)'
    BY <2>2 DEF AsRead, Respecified
  <2>3. \A x : (\E i \in DOMAIN op'[o].todo : x = op'[o].todo[i]) => AsRead(o, x)'
    BY <1>3, <2>1, <2>2
  <2> QED
    BY <1>5, <2>3 DEF ReadWell
<1>7. CommitWell(o)'
  <2>1. \A i \in DOMAIN op'[o].todo : Importable(op'[o].todo[i].record)
    BY <1>1, <1>3 DEF Well, CommitWell
  <2> QED
    BY <2>1 DEF CommitWell
<1> QED
  BY <1>4, <1>6, <1>7 DEF Well, StageWell, AuditWell

LEMMA CommitNextKeeps ==
    ASSUME Inv, NEW o \in Ops, CommitNext(o)
    PROVE  Inv'
<1>1. /\ Busy(o) /\ Well(o) /\ DOMAIN op = Ops /\ DOMAIN op[o] = OpFields
      /\ op[o].kind = "commit" /\ op[o].at = "next" /\ op[o].rewritten \subseteq Keys /\ op[o].restaged \subseteq Keys
  BY InHand DEF CommitNext
<1>2. UNCHANGED <<staged, order, product, evidence, pending>>
  BY DEF CommitNext
<1>3. CASE op[o].todo = <<>>
  <2>1. op' = [op EXCEPT ![o] = NoOp]
    BY <1>3 DEF CommitNext, End
  <2> QED
    BY <1>2, <2>1, OnlyTheRequest
<1>4. CASE op[o].todo # <<>>
  <2> DEFINE k == Key(o)
             r == Item(o).record
             decision == Decision(r, product[k], op[o].approval)
             kept == op[o].rewritten \ {k}
             at == Follows(decision)
             v == With(op[o], [rewritten |-> kept, at |-> at])
  <2>1. op' = [op EXCEPT ![o] = v]
    BY <1>4 DEF CommitNext, Step
  <2>2. decision \in {"skip", "conflict", "import"}
    BY DEF Decision
  <2>3. decision = "import" => ~(op[o].approval /\ Known(product[k], r.specs) # {})
    BY DecisionFacts
  <2> HIDE DEF decision
  <2>4. at \in {"skipped", "ask", "upsert"} /\ (at = "upsert" => decision = "import")
    <3>1. decision = "skip" => at = "skipped"
      BY DEF Follows
    <3>2. decision = "conflict" => at = "ask"
      BY DEF Follows
    <3>3. decision = "import" => at = "upsert"
      BY DEF Follows
    <3> QED
      BY <2>2, <3>1, <3>2, <3>3
  <2>5. kept \subseteq Keys
    BY <1>1
  <2> HIDE DEF at, kept
  <2>6. /\ DOMAIN v = OpFields /\ v.kind = "commit" /\ v.at = at /\ v.approval = op[o].approval /\ v.todo = op[o].todo
        /\ v.rewritten = kept /\ v.restaged = op[o].restaged
    BY <1>1 DEF With, OpFields
  <2> HIDE DEF v
  <2>7. op'[o] = v
    BY <1>1, <2>1
  <2>8. Key(o)' = k /\ Item(o)'.record = r
    BY <2>6, <2>7 DEF Key, Item
  <2>9. \A j \in Keys : ~Respecified(j)
    BY <1>2 DEF Respecified
  <2>10. Well(o)'
    <3>1. op'[o].at = "upsert" /\ op'[o].approval => Known(product'[Key(o)'], Item(o)'.record.specs) = {}
      BY <1>2, <2>3, <2>4, <2>6, <2>7, <2>8
    <3>2. op'[o].at \in CommitStages /\ op'[o].at # "imported" /\ op'[o].at # "conflict"
      BY <2>4, <2>6, <2>7 DEF CommitStages
    <3> HIDE DEF k, r
    <3> QED
      BY <1>1, <1>4, <2>5, <2>6, <2>7, <2>9, <3>1, <3>2, CommitGoesOn
  <2> QED
    BY <1>2, <2>1, <2>10, OnlyTheRequest
<1> QED
  BY <1>3, <1>4

LEMMA CommitAskKeeps ==
    ASSUME Inv, NEW o \in Ops, CommitAsk(o)
    PROVE  Inv'
<1>1. /\ Busy(o) /\ Well(o) /\ DOMAIN op = Ops /\ DOMAIN op[o] = OpFields
      /\ op[o].kind = "commit" /\ op[o].at = "ask" /\ op[o].rewritten \subseteq Keys /\ op[o].restaged \subseteq Keys
  BY InHand DEF CommitAsk
<1>2. op[o].todo # <<>> /\ Key(o) \in Keys
  BY <1>1, KeyTypes DEF Well, OpType, StageOp, CommitOp, EnrichOp, AuditOp
<1> DEFINE k == Key(o)
           v == With(op[o], [at |-> "conflict"])
<1>3. /\ pending' = [pending EXCEPT ![k] = IF pending[k] < MaxPending THEN pending[k] + 1 ELSE pending[k]]
      /\ op' = [op EXCEPT ![o] = v] /\ UNCHANGED <<staged, order, product, evidence>>
  BY DEF CommitAsk, Step
<1>4. /\ DOMAIN v = OpFields /\ v.kind = "commit" /\ v.at = "conflict" /\ v.approval = op[o].approval
      /\ v.todo = op[o].todo /\ v.rewritten = op[o].rewritten /\ v.restaged = op[o].restaged
  BY <1>1 DEF With, OpFields
<1> HIDE DEF k, v
<1>5. pending \in [Keys -> 0..MaxPending] /\ MaxPending \in Nat /\ MaxPending > 0 /\ k \in Keys
  BY <1>2, ImportAssumption DEF Inv, TypeInv, k
<1>6. /\ pending' \in [Keys -> 0..MaxPending] /\ pending'[k] > 0
      /\ \A j \in Keys : pending[j] <= pending'[j]
  BY <1>3, <1>5
<1>7. evidence' \in [Keys -> SUBSET [kind : Kinds, specs : Specs]] /\ \A j \in Keys : evidence[j] \subseteq evidence'[j]
  BY <1>3 DEF Inv, TypeInv
<1>8. DOMAIN op' = Ops /\ op'[o] = v
  BY <1>1, <1>3
<1>9. StateInv' /\ Grows /\ \A j \in Keys : ~Respecified(j)
  BY <1>3, <1>6, <1>7, <1>8, Noticed
<1>10. \A p \in Ops \ {o} : Bystands(p)
  BY <1>3, <1>9, Alone
<1>11. Key(o)' = k
  BY <1>4, <1>8 DEF Key, Item, k
<1>12. Well(o)'
  BY <1>1, <1>2, <1>4, <1>6, <1>8, <1>9, <1>11, CommitGoesOn DEF CommitStages
<1> QED
  BY <1>9, <1>10, <1>12, Together

LEMMA CommitUpsertKeeps ==
    ASSUME Inv, NEW o \in Ops, CommitUpsert(o)
    PROVE  Inv'
<1>1. /\ Busy(o) /\ Well(o) /\ DOMAIN op = Ops /\ DOMAIN op[o] = OpFields
      /\ op[o].kind = "commit" /\ op[o].at = "upsert" /\ op[o].rewritten \subseteq Keys /\ op[o].restaged \subseteq Keys
  BY InHand DEF CommitUpsert
<1>2. op[o].todo # <<>> /\ Key(o) \in Keys /\ op[o].todo \in Seq(StageItems)
  BY <1>1, KeyTypes DEF Well, OpType, StageOp, CommitOp, EnrichOp, AuditOp
<1> DEFINE k == Key(o)
           r == Item(o).record
           value == [here |-> TRUE, specs |-> Merged(product[k].specs, r.specs), flawed |-> r.flawed /\ ~r.confirmed]
           v == With(op[o], [at |-> "evidence"])
<1>3. /\ Rewrite(k, value) /\ op' = [Noted(o, "rewritten", k) EXCEPT ![o] = v]
      /\ UNCHANGED <<order, evidence, pending>>
  BY DEF CommitUpsert, WriteProduct
<1>4. value \in Products /\ value.here /\ ~value.flawed
  <2>1. r \in StagedRecords /\ Importable(r)
    <3>1. Item(o) \in StageItems /\ Item(o) = op[o].todo[1] /\ 1 \in DOMAIN op[o].todo
      BY <1>2, HeadAndTail DEF Item
    <3> QED
      BY <1>1, <3>1 DEF Well, CommitWell, StageItems
  <2>2. r.specs \in Specs /\ r.flawed \in BOOLEAN /\ r.confirmed \in BOOLEAN
    BY <2>1 DEF StagedRecords
  <2>3. product[k].specs \in Specs
    BY <1>2 DEF Inv, TypeInv
  <2>4. Merged(product[k].specs, r.specs) \in Specs
    BY <2>2, <2>3, MergedType
  <2>5. (r.flawed /\ ~r.confirmed) = FALSE
    BY <2>1, <2>2 DEF Importable
  <2> HIDE DEF r, k
  <2> QED
    BY <2>4, <2>5 DEF Products
<1>5. /\ DOMAIN v = OpFields /\ v.kind = "commit" /\ v.at = "evidence" /\ v.approval = op[o].approval
      /\ v.todo = op[o].todo /\ v.rewritten = op[o].rewritten /\ v.restaged = op[o].restaged
  BY <1>1 DEF With, OpFields
<1> HIDE DEF k, r, value, v
<1>6. DOMAIN op' = Ops /\ k \in Keys
  BY <1>2, <1>3 DEF Noted, k
<1>7. StateInv' /\ Grows /\ (\A j \in Keys : ~Respecified(j)) /\ \A j \in Keys \ {k} : product'[j] = product[j]
  BY <1>3, <1>4, <1>6, ProductWritten
<1>8. op'[o] = v /\ \A p \in Ops \ {o} : Bystands(p)
  BY <1>3, <1>6, <1>7, NotedRewritten
<1>9. Well(o)'
  BY <1>1, <1>2, <1>5, <1>7, <1>8, CommitGoesOn DEF CommitStages
<1> QED
  BY <1>7, <1>8, <1>9, Together

LEMMA CommitEvidenceKeeps ==
    ASSUME Inv, NEW o \in Ops, CommitEvidence(o)
    PROVE  Inv'
<1>1. /\ Busy(o) /\ Well(o) /\ DOMAIN op = Ops /\ DOMAIN op[o] = OpFields
      /\ op[o].kind = "commit" /\ op[o].at = "evidence" /\ op[o].rewritten \subseteq Keys /\ op[o].restaged \subseteq Keys
  BY InHand DEF CommitEvidence
<1>2. op[o].todo # <<>> /\ Key(o) \in Keys /\ op[o].todo \in Seq(StageItems)
  BY <1>1, KeyTypes DEF Well, OpType, StageOp, CommitOp, EnrichOp, AuditOp
<1> DEFINE k == Key(o)
           r == Item(o).record
           imported == [kind |-> "import", specs |-> r.specs]
           confirmed == [kind |-> "confirmed", specs |-> r.specs]
           told == IF r.confirmed /\ \A e \in evidence[k] : e.kind # "confirmed"
                   THEN evidence[k] \cup {imported, confirmed} ELSE evidence[k] \cup {imported}
           v == With(op[o], [at |-> "imported"])
<1>3. /\ evidence' = [evidence EXCEPT ![k] = told]
      /\ op' = [op EXCEPT ![o] = v]
      /\ UNCHANGED <<staged, order, product, pending>>
  BY DEF CommitEvidence, Step
<1>4. /\ imported \in told /\ evidence[k] \subseteq told /\ told \subseteq [kind : Kinds, specs : Specs]
      /\ imported.kind = "import" /\ imported.specs = r.specs
  <2>1. r.specs \in Specs
    <3>1. Item(o) \in StageItems
      BY <1>2, HeadAndTail DEF Item
    <3> QED
      BY <3>1 DEF StageItems, StagedRecords
  <2>2. evidence[k] \subseteq [kind : Kinds, specs : Specs]
    BY <1>2 DEF Inv, TypeInv
  <2>3. {imported, confirmed} \subseteq [kind : Kinds, specs : Specs]
    BY <2>1 DEF Kinds
  <2> QED
    BY <2>2, <2>3
<1>5. /\ DOMAIN v = OpFields /\ v.kind = "commit" /\ v.at = "imported" /\ v.approval = op[o].approval
      /\ v.todo = op[o].todo /\ v.rewritten = op[o].rewritten /\ v.restaged = op[o].restaged
  BY <1>1 DEF With, OpFields
<1> HIDE DEF told, v, imported
<1>6. DOMAIN op' = Ops /\ op'[o] = v
  BY <1>1, <1>3
<1>7. /\ evidence' \in [Keys -> SUBSET [kind : Kinds, specs : Specs]] /\ evidence'[k] = told
      /\ \A j \in Keys : evidence[j] \subseteq evidence'[j]
  <2>1. evidence \in [Keys -> SUBSET [kind : Kinds, specs : Specs]]
    BY DEF Inv, TypeInv
  <2> QED
    BY <1>2, <1>3, <1>4, <2>1
<1>8. pending' \in [Keys -> 0..MaxPending] /\ \A j \in Keys : pending[j] <= pending'[j]
  <2>1. pending \in [Keys -> 0..MaxPending] /\ MaxPending \in Nat
    BY ImportAssumption DEF Inv, TypeInv
  <2>2. \A j \in Keys : pending[j] <= pending[j]
    BY <2>1
  <2> QED
    BY <1>3, <2>1, <2>2
<1>9. StateInv' /\ Grows /\ \A j \in Keys : ~Respecified(j)
  BY <1>3, <1>6, <1>7, <1>8, Noticed
<1>10. \A p \in Ops \ {o} : Bystands(p)
  BY <1>3, <1>9, Alone
<1>11. Key(o)' = k /\ Item(o)'.record = r
  BY <1>5, <1>6 DEF Key, Item
<1>12. Well(o)'
  <2>1. \E e \in evidence'[Key(o)'] : e.kind = "import" /\ e.specs = Item(o)'.record.specs
    BY <1>4, <1>7, <1>11
  <2> QED
    BY <1>1, <1>2, <1>5, <1>6, <1>9, <2>1, CommitGoesOn DEF CommitStages
<1> QED
  BY <1>9, <1>10, <1>12, Together

LEMMA CommitMarkKeeps ==
    ASSUME Inv, NEW o \in Ops, NEW mark \in {"skipped", "conflict", "imported"}, CommitMark(o, mark)
    PROVE  Inv'
<1>1. /\ Busy(o) /\ Well(o) /\ DOMAIN op = Ops /\ DOMAIN op[o] = OpFields
      /\ op[o].kind = "commit" /\ op[o].at = mark /\ op[o].rewritten \subseteq Keys /\ op[o].restaged \subseteq Keys
  BY InHand DEF CommitMark
<1>2. op[o].todo # <<>> /\ Key(o) \in Keys /\ op[o].todo \in Seq(StageItems)
  BY <1>1, KeyTypes DEF Well, OpType, StageOp, CommitOp, EnrichOp, AuditOp
<1> DEFINE k == Key(o)
           r == Item(o).record
           found == k \in Staged /\ staged[k].source = r.source
           raced == k \in op[o].restaged
           rest == Tail(op[o].todo)
           v == With(op[o], [at |-> "next", todo |-> rest])
<1>3. /\ staged' = IF found THEN [staged EXCEPT ![k] = With(staged[k], [mark |-> mark, raced |-> raced])] ELSE staged
      /\ op' = [op EXCEPT ![o] = v]
      /\ UNCHANGED <<order, product, evidence, pending>>
  BY DEF CommitMark, NextItem, Step
<1>4. /\ DOMAIN v = OpFields /\ v.kind = "commit" /\ v.at = "next" /\ v.approval = op[o].approval
      /\ v.todo = rest /\ v.rewritten = op[o].rewritten /\ v.restaged = op[o].restaged
  BY <1>1 DEF With, OpFields
<1> HIDE DEF v, found
<1>5. DOMAIN op' = Ops /\ op'[o] = v
  BY <1>1, <1>3
<1>6. ASSUME \A j \in Keys : ~Respecified(j) PROVE Well(o)'
  <2> HIDE DEF k, r, raced
  <2>1. op'[o].todo = Tail(op[o].todo) /\ op'[o].at = "next"
    BY <1>4, <1>5
  <2>2. op'[o].kind = "commit" /\ DOMAIN op'[o] = OpFields /\ op'[o].approval = op[o].approval
    BY <1>4, <1>5
  <2>3. op'[o].restaged = op[o].restaged /\ op'[o].rewritten \subseteq Keys
    BY <1>1, <1>4, <1>5
  <2> HIDE DEF rest
  <2> QED
    BY <1>1, <1>2, <1>6, <2>1, <2>2, <2>3, CommitGoesOn DEF CommitStages
<1>7. CASE ~found
  <2>1. UNCHANGED <<staged, order, product, evidence, pending>>
    BY <1>3, <1>7
  <2>2. \A j \in Keys : ~Respecified(j)
    BY <2>1 DEF Respecified
  <2> HIDE DEF k, r, raced, rest
  <2> QED
    BY <1>3, <1>6, <2>1, <2>2, OnlyTheRequest
<1>8. CASE found
  <2>1. staged[k] # NoRecord /\ raced \in BOOLEAN
    BY <1>8 DEF found, Staged
  <2>2. mark = "conflict" => pending[k] > 0
    BY <1>1 DEF Well, CommitWell
  <2>3. mark = "imported" /\ ~raced => \E e \in evidence[k] : e.kind = "import" /\ e.specs = staged[k].specs
    <3> SUFFICES ASSUME mark = "imported", ~raced
                 PROVE  \E e \in evidence[k] : e.kind = "import" /\ e.specs = staged[k].specs
      OBVIOUS
    <3>1. \E e \in evidence[k] : e.kind = "import" /\ e.specs = r.specs
      BY <1>1 DEF Well, CommitWell
    <3>2. AsRead(o, Item(o))
      <4>1. Item(o) = op[o].todo[1] /\ 1 \in DOMAIN op[o].todo
        BY <1>2, HeadAndTail DEF Item
      <4>2. Ahead(o) = op[o].todo
        BY <1>1 DEF Ahead
      <4> QED
        BY <1>1, <4>1, <4>2 DEF Well, ReadWell
    <3>3. staged[k].specs = r.specs
      BY <3>2 DEF AsRead, Key
    <3> QED
      BY <3>1, <3>3
  <2>4. staged' = [staged EXCEPT ![k] = With(staged[k], [mark |-> mark, raced |-> raced])]
    BY <1>3, <1>8
  <2> HIDE DEF k, r, raced, rest
  <2>5. k \in Keys
    BY <1>2 DEF k
  <2>6. StateInv' /\ Grows /\ \A j \in Keys : ~Respecified(j)
    BY <1>3, <1>5, <2>1, <2>2, <2>3, <2>4, <2>5, RecordMarked
  <2>7. \A p \in Ops \ {o} : Bystands(p)
    BY <1>3, <2>6, Alone
  <2> QED
    BY <1>6, <2>6, <2>7, Together
<1> QED
  BY <1>7, <1>8

\* Approvals stay what they are.
LEMMA NothingAsked ==
    ASSUME Inv, pending' = pending
    PROVE  pending' \in [Keys -> 0..MaxPending] /\ \A j \in Keys : pending[j] <= pending'[j]
<1>1. pending \in [Keys -> 0..MaxPending] /\ MaxPending \in Nat
  BY ImportAssumption DEF Inv, TypeInv
<1>2. \A j \in Keys : pending[j] <= pending[j]
  BY <1>1
<1> QED
  BY <1>1, <1>2

LEMMA EnrichBeginKeeps ==
    ASSUME Inv, NEW o \in Ops, NEW keys, NEW confirmed \in Confirmed, NEW cpu \in BOOLEAN,
           EnrichBegin(o, keys, confirmed, cpu)
    PROVE  Inv'
<1> DEFINE found == Among(keys)
           kind == IF cpu THEN "enrichCpu" ELSE "enrich"
           items == [i \in 1..Len(found) |->
                       [key |-> found[i], record |-> staged[found[i]], confirmed |-> confirmed]]
           v == With(Blank, [kind |-> kind, at |-> "write", todo |-> items])
<1>1. op' = [op EXCEPT ![o] = v] /\ UNCHANGED <<staged, order, product, evidence, pending>>
  BY DEF EnrichBegin, Begin
<1>2. /\ found \in Seq(Keys) /\ ToSet(found) = Staged \cap keys
      /\ \A i, j \in DOMAIN found : found[i] = found[j] => i = j
  BY AmongFacts DEF Inv
<1> HIDE DEF found
<1>3. DOMAIN found = 1..Len(found) /\ Len(found) \in Nat
  BY <1>2
<1>4. \A i \in 1..Len(found) : found[i] \in Keys /\ staged[found[i]] # NoRecord /\ staged[found[i]] \in StagedRecords
  <2>1. \A i \in DOMAIN found : found[i] \in Staged
    BY <1>2 DEF ToSet
  <2>2. \A k \in Staged : k \in Keys /\ staged[k] # NoRecord /\ staged[k] \in StagedRecords
    BY DEF Staged, Inv, TypeInv
  <2> QED
    BY <1>3, <2>1, <2>2
<1>5. \A i \in 1..Len(found) : /\ items[i].key = found[i] /\ items[i].record = staged[found[i]]
                               /\ items[i] \in EnrichItems
  <2>1. confirmed \in Specs
    BY ImportAssumption
  <2> QED
    BY <1>4, <2>1 DEF EnrichItems
<1>6. DOMAIN items = 1..Len(found) /\ items \in Seq(EnrichItems)
  <2>1. items = [i \in 1..Len(found) |-> items[i]] /\ DOMAIN items = 1..Len(found)
    OBVIOUS
  <2> HIDE DEF items
  <2> QED
    BY <1>3, <1>5, <2>1
<1>7. kind \in {"enrich", "enrichCpu"}
  OBVIOUS
<1> HIDE DEF items, kind
<1>8. /\ DOMAIN v = OpFields /\ v.kind = kind /\ v.at = "write" /\ v.todo = items
      /\ v.rewritten = {} /\ v.restaged = {}
  BY DEF With, Blank, OpFields
<1> HIDE DEF v
<1>9. op'[o] = v
  BY <1>1 DEF Inv, TypeInv
<1>10. OpType(v)
  BY <1>6, <1>7, <1>8 DEF OpType, EnrichOp
<1>11. ReadWell(o)'
  <2>1. Distinct(items)
    BY <1>2, <1>3, <1>5, <1>6 DEF Distinct
  <2>2. \A i \in DOMAIN items : staged[items[i].key] # NoRecord /\ items[i].record = staged[items[i].key]
    BY <1>4, <1>5, <1>6
  <2>3. \A x : (\E i \in DOMAIN items : x = items[i]) => AsRead(o, x)'
    BY <1>1, <2>2 DEF AsRead
  <2>4. Ahead(o)' = items /\ op'[o].todo = items
    BY <1>8, <1>9 DEF Ahead
  <2> QED
    BY <2>1, <2>3, <2>4 DEF ReadWell, Distinct
<1>12. Well(o)'
  <2>1. StageWell(o)' /\ CommitWell(o)' /\ AuditWell(o)'
    BY <1>7, <1>8, <1>9 DEF StageWell, CommitWell, AuditWell
  <2> QED
    BY <1>9, <1>10, <1>11, <2>1 DEF Well
<1> QED
  BY <1>1, <1>12, OnlyTheRequest

\* The items behind the first have other keys.
LEMMA OthersBehind ==
    ASSUME NEW S, NEW s \in Seq(S), s # <<>>, Distinct(s)
    PROVE  /\ Tail(s) \in Seq(S) /\ Distinct(Tail(s))
           /\ \A i \in DOMAIN Tail(s) : Tail(s)[i].key # Head(s).key
<1>1. /\ Head(s) = s[1] /\ 1 \in DOMAIN s /\ Tail(s) \in Seq(S)
      /\ \A i \in DOMAIN Tail(s) : i + 1 \in DOMAIN s /\ Tail(s)[i] = s[i + 1] /\ i + 1 # 1
      /\ \A i, j \in DOMAIN Tail(s) : i + 1 = j + 1 => i = j
  BY HeadAndTail
<1> DEFINE t == Tail(s)
<1> HIDE DEF t
<1>2. \A i, j \in DOMAIN t : t[i].key = t[j].key => i = j
  <2> SUFFICES ASSUME NEW i \in DOMAIN t, NEW j \in DOMAIN t, t[i].key = t[j].key PROVE i = j
    OBVIOUS
  <2>1. i + 1 \in DOMAIN s /\ j + 1 \in DOMAIN s /\ s[i + 1].key = s[j + 1].key
    BY <1>1 DEF t
  <2>2. i + 1 = j + 1
    BY <2>1 DEF Distinct
  <2> QED
    BY <1>1, <2>2 DEF t
<1>3. \A i \in DOMAIN t : t[i].key # Head(s).key
  <2> SUFFICES ASSUME NEW i \in DOMAIN t, t[i].key = Head(s).key PROVE FALSE
    OBVIOUS
  <2>1. i + 1 \in DOMAIN s /\ 1 \in DOMAIN s /\ s[i + 1].key = s[1].key /\ i + 1 # 1
    BY <1>1 DEF t
  <2> QED
    BY <2>1 DEF Distinct
<1> QED
  BY <1>1, <1>2, <1>3 DEF t, Distinct

\* An enrichment goes on: it works on the first record and leaves the others.
LEMMA EnrichGoesOn ==
    ASSUME Inv, NEW o \in Ops, Busy(o), op[o].kind \in {"enrich", "enrichCpu"}, op[o].todo # <<>>,
           DOMAIN op'[o] = OpFields, op'[o].kind = op[o].kind,
           op'[o].restaged = op[o].restaged, op'[o].rewritten \subseteq Keys,
           \/ op'[o].at = "attach" /\ op'[o].todo = op[o].todo
           \/ op'[o].at = "write" /\ op'[o].todo = Tail(op[o].todo),
           \A k \in Keys : k = Key(o) \/ ~Respecified(k)
    PROVE  Well(o)'
<1> DEFINE rest == Tail(op[o].todo)
<1>1. Well(o) /\ OpType(op[o])
  BY DEF Inv, OpInv, Well
<1>2. op[o].todo \in Seq(EnrichItems) /\ op[o].restaged \subseteq Keys /\ op[o].at \in {"write", "attach"}
  BY <1>1 DEF OpType, StageOp, CommitOp, EnrichOp, AuditOp
<1>3. Distinct(op[o].todo) /\ \A i \in DOMAIN Ahead(o) : AsRead(o, Ahead(o)[i])
  BY <1>1 DEF Well, ReadWell
<1>4. rest \in Seq(EnrichItems) /\ Distinct(rest) /\ \A i \in DOMAIN rest : rest[i].key # Key(o)
  BY <1>2, <1>3, OthersBehind DEF Key, Item
<1>5. \A i \in DOMAIN rest : i + 1 \in DOMAIN op[o].todo /\ rest[i] = op[o].todo[i + 1]
  BY <1>2, HeadAndTail
<1>6. \A i \in DOMAIN rest : AsRead(o, rest[i])
  <2>1. CASE op[o].at = "write"
    <3>1. Ahead(o) = op[o].todo
      BY <2>1 DEF Ahead
    <3> HIDE DEF rest
    <3> QED
      BY <1>3, <1>5, <3>1
  <2>2. CASE op[o].at = "attach"
    <3>1. Ahead(o) = rest
      BY <2>2 DEF Ahead
    <3> QED
      BY <1>3, <3>1
  <2> QED
    BY <1>2, <2>1, <2>2
<1>7. \A i \in DOMAIN rest : rest[i].key \in Keys
  <2>1. \A x \in EnrichItems : x.key \in Keys
    BY DEF EnrichItems
  <2>2. rest \in Seq(EnrichItems)
    BY <1>4
  <2> HIDE DEF rest
  <2>4. \A i \in DOMAIN rest : rest[i] \in EnrichItems
    BY <2>2, Members
  <2> QED
    BY <2>1, <2>4
<1>8. Ahead(o)' = rest
  BY DEF Ahead
<1> HIDE DEF rest
<1>9. op'[o].todo \in Seq(EnrichItems) /\ Distinct(op'[o].todo) /\ (op'[o].at # "write" => op'[o].todo # <<>>)
  BY <1>2, <1>3, <1>4 DEF rest
<1>10. OpType(op[o])'
  BY <1>2, <1>9 DEF OpType, EnrichOp
<1>11. ReadWell(o)'
  <2>1. ASSUME NEW x, x.key \in Keys, x.key # Key(o), AsRead(o, x) PROVE AsRead(o, x)'
    BY <2>1 DEF AsRead, Respecified
  <2>2. \A x : (\E i \in DOMAIN rest : x = rest[i]) => AsRead(o, x)'
    BY <1>4, <1>6, <1>7, <2>1
  <2> QED
    BY <1>8, <1>9, <2>2 DEF ReadWell, Distinct
<1> QED
  BY <1>10, <1>11 DEF Well, StageWell, CommitWell, AuditWell

LEMMA EnrichInHand ==
    ASSUME Inv, NEW o \in Ops, NEW at, Does(o, "enrich", at) \/ Does(o, "enrichCpu", at)
    PROVE  /\ Busy(o) /\ Well(o) /\ DOMAIN op = Ops /\ DOMAIN op[o] = OpFields
           /\ op[o].kind \in {"enrich", "enrichCpu"} /\ op[o].at = at
           /\ op[o].rewritten \subseteq Keys /\ op[o].restaged \subseteq Keys
           /\ op[o].todo \in Seq(EnrichItems) /\ (at # "write" => op[o].todo # <<>>)
           /\ op[o].todo # <<>> =>
                Item(o) \in EnrichItems /\ Key(o) \in Keys /\ (at = "write" => AsRead(o, Item(o)))
<1>1. /\ Busy(o) /\ Well(o) /\ DOMAIN op = Ops /\ DOMAIN op[o] = OpFields
      /\ op[o].kind \in {"enrich", "enrichCpu"} /\ op[o].at = at
      /\ op[o].rewritten \subseteq Keys /\ op[o].restaged \subseteq Keys
  <2>1. CASE Does(o, "enrich", at)
    BY <2>1, InHand
  <2>2. CASE Does(o, "enrichCpu", at)
    BY <2>2, InHand
  <2> QED
    BY <2>1, <2>2
<1>2. op[o].todo \in Seq(EnrichItems) /\ (at # "write" => op[o].todo # <<>>)
  BY <1>1 DEF Well, OpType, StageOp, CommitOp, EnrichOp, AuditOp
<1>3. ASSUME op[o].todo # <<>>
      PROVE  Item(o) \in EnrichItems /\ Key(o) \in Keys /\ (at = "write" => AsRead(o, Item(o)))
  <2>1. Item(o) \in EnrichItems /\ Item(o) = op[o].todo[1] /\ 1 \in DOMAIN op[o].todo
    BY <1>2, <1>3, HeadAndTail DEF Item
  <2>2. at = "write" => Ahead(o) = op[o].todo
    BY <1>1 DEF Ahead
  <2>3. at = "write" => AsRead(o, Item(o))
    BY <1>1, <2>1, <2>2 DEF Well, ReadWell
  <2> QED
    BY <2>1, <2>3 DEF Key, EnrichItems
<1> QED
  BY <1>1, <1>2, <1>3

LEMMA EnrichWriteKeeps ==
    ASSUME Inv, NEW o \in Ops, EnrichWrite(o)
    PROVE  Inv'
<1>1. /\ Busy(o) /\ Well(o) /\ DOMAIN op = Ops /\ DOMAIN op[o] = OpFields
      /\ op[o].kind \in {"enrich", "enrichCpu"} /\ op[o].at = "write"
      /\ op[o].rewritten \subseteq Keys /\ op[o].restaged \subseteq Keys
      /\ op[o].todo # <<>> => Item(o) \in EnrichItems /\ Key(o) \in Keys /\ AsRead(o, Item(o))
  BY EnrichInHand DEF EnrichWrite
<1>2. UNCHANGED <<order, product, evidence, pending>>
  BY DEF EnrichWrite
<1> DEFINE k == Key(o)
           r == Item(o).record
           confirmed == Item(o).confirmed
           specs == Merged(r.specs, confirmed)
           cpu == op[o].kind = "enrichCpu"
           e == IF cpu THEN CpuEnriched(staged[k], specs) ELSE Enriched(staged[k], specs)
           stale == k \in op[o].restaged
           value == With(e, [torn |-> stale \/ e.torn])
           rest == Tail(op[o].todo)
           v == With(op[o], [at |-> "attach"])
           u == With(op[o], [todo |-> rest])
<1>3. CASE op[o].todo = <<>>
  <2>1. op' = [op EXCEPT ![o] = NoOp] /\ UNCHANGED staged
    BY <1>3 DEF EnrichWrite, End
  <2> QED
    BY <1>2, <2>1, OnlyTheRequest
<1>4. CASE op[o].todo # <<>> /\ ~cpu /\ ~Enrichable(r, confirmed)
  <2>1. op' = [op EXCEPT ![o] = u] /\ UNCHANGED staged
    BY <1>4 DEF EnrichWrite, Step
  <2>2. /\ DOMAIN u = OpFields /\ u.kind = op[o].kind /\ u.at = "write" /\ u.todo = rest
        /\ u.rewritten = op[o].rewritten /\ u.restaged = op[o].restaged
    BY <1>1 DEF With, OpFields
  <2> HIDE DEF u
  <2>3. op'[o] = u
    BY <1>1, <2>1
  <2>4. \A j \in Keys : ~Respecified(j)
    BY <2>1 DEF Respecified
  <2>5. Well(o)'
    BY <1>1, <1>4, <2>2, <2>3, <2>4, EnrichGoesOn
  <2> QED
    BY <1>2, <2>1, <2>5, OnlyTheRequest
<1>5. CASE op[o].todo # <<>> /\ (cpu \/ Enrichable(r, confirmed))
  <2>1. /\ k \in Staged /\ staged' = [staged EXCEPT ![k] = value]
        /\ op' = [Noted(o, "restaged", k) EXCEPT ![o] = v]
    BY <1>5 DEF EnrichWrite, WriteStaged
  <2>2. /\ DOMAIN v = OpFields /\ v.kind = op[o].kind /\ v.at = "attach" /\ v.todo = op[o].todo
        /\ v.rewritten = op[o].rewritten /\ v.restaged = op[o].restaged
    BY <1>1 DEF With, OpFields
  <2>3. k \in Keys /\ r \in StagedRecords /\ confirmed \in Specs /\ staged[k] \in StagedRecords /\ Sound(staged[k])
    <3>1. k \in Keys /\ Item(o) \in EnrichItems /\ staged[k] # NoRecord
      BY <1>1, <1>5, <2>1 DEF Staged
    <3> QED
      BY <3>1 DEF EnrichItems, Inv, TypeInv, RecordInv
  <2>4. ~stale => staged[k].specs = r.specs /\ staged[k].gpu = r.gpu
    BY <1>1, <1>5 DEF AsRead, Key
  <2>5. cpu \in BOOLEAN /\ stale \in BOOLEAN
    OBVIOUS
  <2>6. value \in StagedRecords /\ Sound(value) /\ value.moved = TRUE /\ value.mark = "pending"
    <3>1. cpu \/ Enrichable(r, confirmed)
      BY <1>5
    <3> DEFINE now == staged[k]
    <3>2. now \in StagedRecords /\ Sound(now) /\ (~stale => now.specs = r.specs /\ now.gpu = r.gpu)
      BY <2>3, <2>4
    <3> DEFINE what == op[o].kind
               those == op[o].restaged
    <3> HIDE DEF now, k, r, confirmed, what, those
    <3>4. (k \notin those => now.specs = r.specs /\ now.gpu = r.gpu) /\ (what = "enrichCpu" \/ Enrichable(r, confirmed))
      BY <3>1, <3>2 DEF what, those
    <3>3. LET s == WrittenOver(what, now, r, confirmed, k, those)
          IN  s \in StagedRecords /\ Sound(s) /\ s.moved = TRUE /\ s.mark = "pending"
      <4>1. what \in {"enrich", "enrichCpu"}
        BY <1>1 DEF what
      <4> QED
        <5>1. /\ now \in StagedRecords /\ Sound(now) /\ r \in StagedRecords /\ confirmed \in Specs
              /\ what \in {"enrich", "enrichCpu"}
          BY <2>3, <3>2, <4>1
        <5>2. k \notin those => now.specs = r.specs /\ now.gpu = r.gpu
          BY <3>4
        <5>3. what = "enrichCpu" \/ Enrichable(r, confirmed)
          BY <3>4
        <5>4. Writable(what, now, r, confirmed, k, those)
          BY <5>1, <5>2, <5>3 DEF Writable
        <5> QED
          BY <5>4, EnrichedFacts
    <3> QED
      BY <3>3 DEF now, what, those, WrittenOver, value, e, cpu, stale
  <2>7. order' = Arrived(k) /\ DOMAIN op' = Ops
    BY <1>2, <2>1 DEF Arrived, Staged, Noted
  <2> HIDE DEF value, v, stale
  <2>8. StateInv' /\ Grows /\ (\A j \in Keys \ {k} : ~Respecified(j))
    <3> HIDE DEF k
    <3> QED
      BY <1>2, <2>1, <2>3, <2>6, <2>7, RecordWritten
  <2>9. op'[o] = v /\ \A p \in Ops \ {o} : Bystands(p)
    <3> HIDE DEF k
    <3> QED
      BY <1>2, <2>1, <2>3, <2>8, NotedRestaged
  <2>10. Well(o)'
    BY <1>1, <1>5, <2>2, <2>8, <2>9, EnrichGoesOn DEF v
  <2> QED
    BY <2>8, <2>9, <2>10, Together
<1> QED
  BY <1>3, <1>4, <1>5

LEMMA EnrichAttachKeeps ==
    ASSUME Inv, NEW o \in Ops, EnrichAttach(o)
    PROVE  Inv'
<1>1. /\ Busy(o) /\ Well(o) /\ DOMAIN op = Ops /\ DOMAIN op[o] = OpFields
      /\ op[o].kind \in {"enrich", "enrichCpu"} /\ op[o].at = "attach"
      /\ op[o].rewritten \subseteq Keys /\ op[o].restaged \subseteq Keys
      /\ op[o].todo # <<>> /\ Item(o) \in EnrichItems /\ Key(o) \in Keys
  <2>1. Does(o, "enrich", "attach") \/ Does(o, "enrichCpu", "attach")
    BY DEF EnrichAttach
  <2>2. "attach" # "write"
    OBVIOUS
  <2> QED
    BY <2>1, <2>2, EnrichInHand, Zenon
<1> DEFINE k == Key(o)
           told == IF /\ product[k].here
                      /\ op[o].kind = "enrichCpu" \/ \A e \in evidence[k] : e.kind # "confirmed"
                   THEN evidence[k] \cup {[kind |-> "confirmed", specs |-> Item(o).confirmed]} ELSE evidence[k]
           rest == Tail(op[o].todo)
           v == With(op[o], [at |-> "write", todo |-> rest])
<1>2. evidence' = [evidence EXCEPT ![k] = told] /\ op' = [op EXCEPT ![o] = v]
      /\ UNCHANGED <<staged, order, product, pending>>
  BY DEF EnrichAttach, Step
<1>3. /\ DOMAIN v = OpFields /\ v.kind = op[o].kind /\ v.at = "write" /\ v.todo = rest
      /\ v.rewritten = op[o].rewritten /\ v.restaged = op[o].restaged
  BY <1>1 DEF With, OpFields
<1>4. evidence[k] \subseteq told /\ told \subseteq [kind : Kinds, specs : Specs]
  <2>1. Item(o).confirmed \in Specs
    BY <1>1 DEF EnrichItems
  <2>2. evidence[k] \subseteq [kind : Kinds, specs : Specs]
    BY <1>1 DEF Inv, TypeInv
  <2>3. [kind |-> "confirmed", specs |-> Item(o).confirmed] \in [kind : Kinds, specs : Specs]
    BY <2>1 DEF Kinds
  <2> QED
    BY <2>2, <2>3
<1> HIDE DEF told, v
<1>5. DOMAIN op' = Ops /\ op'[o] = v
  BY <1>1, <1>2
<1>6. /\ evidence' \in [Keys -> SUBSET [kind : Kinds, specs : Specs]]
      /\ \A j \in Keys : evidence[j] \subseteq evidence'[j]
  <2>1. evidence \in [Keys -> SUBSET [kind : Kinds, specs : Specs]]
    BY DEF Inv, TypeInv
  <2> QED
    BY <1>1, <1>2, <1>4, <2>1
<1>7. StateInv' /\ Grows /\ \A j \in Keys : ~Respecified(j)
  <2>1. pending' \in [Keys -> 0..MaxPending] /\ \A j \in Keys : pending[j] <= pending'[j]
    BY <1>2, NothingAsked
  <2> QED
    BY <1>2, <1>5, <1>6, <2>1, Noticed
<1>8. \A p \in Ops \ {o} : Bystands(p)
  BY <1>2, <1>7, Alone
<1>9. Well(o)'
  BY <1>1, <1>3, <1>5, <1>7, EnrichGoesOn
<1> QED
  BY <1>7, <1>8, <1>9, Together

LEMMA FeedKeeps ==
    ASSUME Inv, NEW o \in Ops, NEW k \in Keys, NEW specs \in Confirmed, Feed(o, k, specs)
    PROVE  Inv'
<1> DEFINE value == [here |-> TRUE, specs |-> Merged(product[k].specs, specs), flawed |-> FALSE]
           n == Noted(o, "rewritten", k)
<1>1. /\ op[o] = NoOp /\ Rewrite(k, value) /\ op' = n
      /\ UNCHANGED <<order, evidence, pending>>
  BY DEF Feed, Busy
<1>2. n = [n EXCEPT ![o] = NoOp] /\ DOMAIN n = Ops
  BY <1>1 DEF Noted
<1>3. value \in Products /\ value.here /\ ~value.flawed
  <2>1. specs \in Specs /\ product[k].specs \in Specs
    BY ImportAssumption DEF Inv, TypeInv
  <2>2. Merged(product[k].specs, specs) \in Specs
    BY <2>1, MergedType
  <2> QED
    BY <2>2 DEF Products
<1> HIDE DEF value
<1>4. op' = [Noted(o, "rewritten", k) EXCEPT ![o] = NoOp] /\ DOMAIN op' = Ops
  BY <1>1, <1>2
<1>5. StateInv' /\ Grows /\ (\A j \in Keys : ~Respecified(j)) /\ \A j \in Keys \ {k} : product'[j] = product[j]
  BY <1>1, <1>3, <1>4, ProductWritten
<1>6. op'[o] = NoOp /\ \A p \in Ops \ {o} : Bystands(p)
  BY <1>4, <1>5, NotedRewritten
<1> QED
  BY <1>5, <1>6, Together DEF Busy

-----------------------------------------------------------------------------
(* The audit.                                                               *)
LEMMA Listed ==
    ASSUME NEW S, IsFiniteSet(S)
    PROVE  /\ SetToSeq(S) \in Seq(S)
           /\ \A i, j \in DOMAIN SetToSeq(S) : SetToSeq(S)[i] = SetToSeq(S)[j] => i = j
<1> DEFINE n == Cardinality(S)
           good(f) == f \in [1..n -> S] /\ IsInjective(f)
<1>1. n \in Nat
  BY FS_CardinalityType
<1>2. \E f : good(f)
  <2>1. IsFiniteSet(1..n) /\ Cardinality(1..n) = n
    BY <1>1, FS_Interval
  <2>2. ExistsBijection(1..n, S)
    BY <2>1, FS_SameCardinalityBij
  <2> QED
    BY <2>2 DEF ExistsBijection, Bijection, Injection
<1>3. SetToSeq(S) = CHOOSE f \in [1..n -> S] : IsInjective(f)
  BY DEF SetToSeq
<1>4. good(SetToSeq(S))
  <2> DEFINE F == [1..n -> S]
  <2> HIDE DEF n, F
  <2>1. \E f \in F : IsInjective(f)
    BY <1>2 DEF F
  <2>2. (CHOOSE f \in F : IsInjective(f)) \in F /\ IsInjective(CHOOSE f \in F : IsInjective(f))
    BY <2>1
  <2> QED
    BY <1>3, <2>2 DEF F
<1> HIDE DEF n
<1>5. SetToSeq(S) \in Seq(S)
  BY <1>1, <1>4
<1> QED
  BY <1>4, <1>5 DEF IsInjective

LEMMA ToldType ==
    ASSUME Inv, NEW k \in Keys
    PROVE  Told(k) \in SUBSET Tellings
<1>1. evidence[k] \subseteq [kind : Kinds, specs : Specs] /\ Fixture[k] \in Specs
  BY ImportAssumption DEF Inv, TypeInv
<1>2. [kind : Kinds, specs : Specs] \subseteq Tellings
  BY DEF Tellings
<1>3. [kind |-> "fixture", specs |-> Fixture[k]] \in Tellings
  BY <1>1 DEF Tellings
<1> QED
  BY <1>1, <1>2, <1>3 DEF Told

LEMMA AuditBeginKeeps ==
    ASSUME Inv, NEW o \in Ops, AuditBegin(o)
    PROVE  Inv'
<1> DEFINE S == {j \in Keys : product[j].here}
           f == [k \in S |-> [key |-> k, specs |-> product[k].specs, told |-> Told(k)]]
           rows == {[key |-> k, specs |-> product[k].specs, told |-> Told(k)] : k \in S}
           items == SetToSeq(rows)
           v == With(Blank, [kind |-> "audit", todo |-> items])
<1>1. op' = [op EXCEPT ![o] = v] /\ UNCHANGED <<staged, order, product, evidence, pending>>
  BY DEF AuditBegin, Begin
<1>2. \A x \in rows : /\ x \in AuditItems /\ x.key \in Keys /\ product[x.key].here /\ product[x.key].specs = x.specs
                      /\ x = [key |-> x.key, specs |-> product[x.key].specs, told |-> Told(x.key)]
  <2> SUFFICES ASSUME NEW k \in S, NEW x, x = [key |-> k, specs |-> product[k].specs, told |-> Told(k)]
               PROVE  /\ x \in AuditItems /\ x.key \in Keys /\ product[x.key].here /\ product[x.key].specs = x.specs
                      /\ x = [key |-> x.key, specs |-> product[x.key].specs, told |-> Told(x.key)]
    OBVIOUS
  <2>1. Told(k) \in SUBSET Tellings /\ product[k].specs \in Specs /\ k \in Keys
    BY ToldType DEF Inv, TypeInv
  <2>2. x.key = k /\ x.specs = product[k].specs
    OBVIOUS
  <2>3. x \in AuditItems
    BY <2>1 DEF AuditItems
  <2> QED
    BY <2>1, <2>2, <2>3
<1>3. IsFiniteSet(rows)
  <2>1. IsFiniteSet(S)
    BY ImportAssumption, FS_Subset
  <2>2. f \in Surjection(S, rows)
    <3>1. f \in [S -> rows]
      OBVIOUS
    <3>2. \A x \in rows : \E k \in S : f[k] = x
      OBVIOUS
    <3> QED
      BY <3>1, <3>2 DEF Surjection
  <2> HIDE DEF S, f, rows
  <2> QED
    BY <2>1, <2>2, FS_Surjection
<1> HIDE DEF rows, S
<1>4. items \in Seq(rows) /\ \A i, j \in DOMAIN items : items[i] = items[j] => i = j
  BY <1>3, Listed
<1> HIDE DEF items
<1>5. \A i \in DOMAIN items : items[i] \in rows
  BY <1>4, Members
<1>6. Distinct(items)
  <2> SUFFICES ASSUME NEW i \in DOMAIN items, NEW j \in DOMAIN items, items[i].key = items[j].key PROVE i = j
    BY DEF Distinct
  <2>1. items[i] = items[j]
    BY <1>2, <1>5
  <2> QED
    BY <1>4, <2>1
<1>7. items \in Seq(AuditItems)
  <2>1. rows \subseteq AuditItems
    BY <1>2
  <2> QED
    BY <1>4, <2>1
<1>8. /\ DOMAIN v = OpFields /\ v.kind = "audit" /\ v.at = "next" /\ v.todo = items
      /\ v.rewritten = {} /\ v.restaged = {}
  BY DEF With, Blank, OpFields
<1> HIDE DEF v
<1>9. op'[o] = v
  BY <1>1 DEF Inv, TypeInv
<1>10. OpType(v)
  BY <1>7, <1>8 DEF OpType, AuditOp
<1>11. AuditWell(o)'
  <2>1. \A x : (\E i \in DOMAIN items : x = items[i]) => Audited(o, x)'
    BY <1>1, <1>2, <1>5 DEF Audited
  <2>2. Ahead(o)' = items /\ op'[o].todo = items
    BY <1>8, <1>9 DEF Ahead
  <2> QED
    BY <1>6, <2>1, <2>2 DEF AuditWell, Distinct
<1>12. Well(o)'
  BY <1>8, <1>9, <1>10, <1>11 DEF Well, StageWell, ReadWell, CommitWell
<1> QED
  BY <1>1, <1>12, OnlyTheRequest

LEMMA AuditInHand ==
    ASSUME Inv, NEW o \in Ops, NEW at, Does(o, "audit", at)
    PROVE  /\ Busy(o) /\ Well(o) /\ DOMAIN op = Ops /\ DOMAIN op[o] = OpFields
           /\ op[o].kind = "audit" /\ op[o].at = at
           /\ op[o].rewritten \subseteq Keys /\ op[o].restaged \subseteq Keys
           /\ op[o].todo \in Seq(AuditItems) /\ (at # "next" => op[o].todo # <<>>)
           /\ op[o].todo # <<>> =>
                Item(o) \in AuditItems /\ Key(o) \in Keys /\ (at = "fix" => Audited(o, Item(o)))
<1>1. /\ Busy(o) /\ Well(o) /\ DOMAIN op = Ops /\ DOMAIN op[o] = OpFields
      /\ op[o].kind = "audit" /\ op[o].at = at
      /\ op[o].rewritten \subseteq Keys /\ op[o].restaged \subseteq Keys
  BY InHand
<1>2. op[o].todo \in Seq(AuditItems) /\ (at # "next" => op[o].todo # <<>>)
  BY <1>1 DEF Well, OpType, StageOp, CommitOp, EnrichOp, AuditOp
<1>3. ASSUME op[o].todo # <<>>
      PROVE  Item(o) \in AuditItems /\ Key(o) \in Keys /\ (at = "fix" => Audited(o, Item(o)))
  <2>1. Item(o) \in AuditItems /\ Item(o) = op[o].todo[1] /\ 1 \in DOMAIN op[o].todo
    BY <1>2, <1>3, HeadAndTail DEF Item
  <2>2. at = "fix" => Ahead(o) = op[o].todo
    BY <1>1 DEF Ahead
  <2>3. at = "fix" => Audited(o, Item(o))
    BY <1>1, <2>1, <2>2 DEF Well, AuditWell
  <2> QED
    BY <2>1, <2>3 DEF Key, AuditItems
<1> QED
  BY <1>1, <1>2, <1>3

\* An audit goes on: it writes the first product and leaves the others.
LEMMA AuditGoesOn ==
    ASSUME Inv, NEW o \in Ops, Busy(o), op[o].kind = "audit", op[o].todo # <<>>,
           DOMAIN op'[o] = OpFields, op'[o].kind = "audit",
           op'[o].rewritten = op[o].rewritten, op'[o].restaged = op[o].restaged,
           \/ op'[o].at = "fixed" /\ op[o].at = "fix" /\ op'[o].todo = op[o].todo
           \/ op'[o].at \in {"fix", "conflict"} /\ op[o].at = "next" /\ op'[o].todo = op[o].todo
           \/ op'[o].at = "next" /\ op'[o].todo = Tail(op[o].todo),
           \A k \in Keys : (k = Key(o) /\ op'[o].at = "fixed") \/ product'[k] = product[k]
    PROVE  Well(o)'
<1> DEFINE rest == Tail(op[o].todo)
<1>1. Well(o) /\ OpType(op[o])
  BY DEF Inv, OpInv, Well
<1>2. /\ op[o].todo \in Seq(AuditItems) /\ op[o].restaged \subseteq Keys /\ op[o].rewritten \subseteq Keys
      /\ op[o].at \in {"next", "fix", "fixed", "conflict"}
  BY <1>1 DEF OpType, StageOp, CommitOp, EnrichOp, AuditOp
<1>3. Distinct(op[o].todo) /\ \A i \in DOMAIN Ahead(o) : Audited(o, Ahead(o)[i])
  BY <1>1 DEF Well, AuditWell
<1>4. rest \in Seq(AuditItems) /\ Distinct(rest) /\ \A i \in DOMAIN rest : rest[i].key # Key(o)
  BY <1>2, <1>3, OthersBehind DEF Key, Item
<1>5. \A i \in DOMAIN rest : i + 1 \in DOMAIN op[o].todo /\ rest[i] = op[o].todo[i + 1]
  BY <1>2, HeadAndTail
<1>6. \A i \in DOMAIN rest : Audited(o, rest[i])
  <2>1. CASE op[o].at # "fixed"
    <3>1. Ahead(o) = op[o].todo
      BY <1>2, <2>1 DEF Ahead
    <3> HIDE DEF rest
    <3> QED
      BY <1>3, <1>5, <3>1
  <2>2. CASE op[o].at = "fixed"
    <3>1. Ahead(o) = rest
      BY <2>2 DEF Ahead
    <3> QED
      BY <1>3, <3>1
  <2> QED
    BY <2>1, <2>2
<1>7. /\ \A i \in DOMAIN rest : rest[i].key \in Keys
      /\ \A i \in DOMAIN op[o].todo : op[o].todo[i].key \in Keys
  <2>1. \A x \in AuditItems : x.key \in Keys
    BY DEF AuditItems
  <2>2. rest \in Seq(AuditItems)
    BY <1>4
  <2> HIDE DEF rest
  <2>3. \A i \in DOMAIN rest : rest[i] \in AuditItems
    BY <2>2, Members
  <2>4. \A i \in DOMAIN op[o].todo : op[o].todo[i] \in AuditItems
    BY <1>2, Members
  <2> QED
    BY <2>1, <2>3, <2>4
<1>8. ASSUME NEW x, x.key \in Keys, x.key # Key(o) \/ op'[o].at # "fixed", Audited(o, x) PROVE Audited(o, x)'
  BY <1>8 DEF Audited
<1>9. \/ Ahead(o)' = rest
      \/ Ahead(o)' = op[o].todo /\ Ahead(o) = op[o].todo /\ op'[o].at # "fixed"
  BY DEF Ahead
<1> HIDE DEF rest
<1>10. op'[o].todo \in Seq(AuditItems) /\ Distinct(op'[o].todo) /\ (op'[o].at # "next" => op'[o].todo # <<>>)
  BY <1>2, <1>3, <1>4 DEF rest
<1>11. OpType(op[o])'
  BY <1>2, <1>10 DEF OpType, AuditOp
<1>12. AuditWell(o)'
  <2>1. \A x : (\E i \in DOMAIN rest : x = rest[i]) => Audited(o, x)'
    BY <1>4, <1>6, <1>7, <1>8
  <2>2. Ahead(o) = op[o].todo /\ op'[o].at # "fixed" =>
          \A x : (\E i \in DOMAIN op[o].todo : x = op[o].todo[i]) => Audited(o, x)'
    BY <1>3, <1>7, <1>8
  <2>3. \A x : (\E i \in DOMAIN Ahead(o)' : x = Ahead(o)'[i]) => Audited(o, x)'
    BY <1>9, <2>1, <2>2
  <2> QED
    BY <1>10, <2>3 DEF AuditWell, Distinct
<1> QED
  BY <1>11, <1>12 DEF Well, StageWell, ReadWell, CommitWell

LEMMA AuditNextKeeps ==
    ASSUME Inv, NEW o \in Ops, AuditNext(o)
    PROVE  Inv'
<1>1. /\ Busy(o) /\ Well(o) /\ DOMAIN op = Ops /\ DOMAIN op[o] = OpFields /\ op[o].kind = "audit" /\ op[o].at = "next"
  BY AuditInHand DEF AuditNext
<1>2. UNCHANGED <<staged, order, product, evidence, pending>>
  BY DEF AuditNext
<1> DEFINE status == AuditStatus(Item(o).specs, IsCard[Key(o)], Item(o).told)
           rest == Tail(op[o].todo)
           v == With(op[o], [at |-> status])
           u == With(op[o], [at |-> "next", todo |-> rest])
<1>3. CASE op[o].todo = <<>>
  <2>1. op' = [op EXCEPT ![o] = NoOp]
    BY <1>3 DEF AuditNext, End
  <2> QED
    BY <1>2, <2>1, OnlyTheRequest
<1>4. CASE op[o].todo # <<>> /\ status \in {"fix", "conflict"}
  <2>1. op' = [op EXCEPT ![o] = v]
    BY <1>4 DEF AuditNext, Step
  <2> HIDE DEF status
  <2>2. /\ DOMAIN v = OpFields /\ v.kind = "audit" /\ v.at = status /\ v.todo = op[o].todo
        /\ v.rewritten = op[o].rewritten /\ v.restaged = op[o].restaged
    BY <1>1 DEF With, OpFields
  <2> HIDE DEF v
  <2>3. op'[o] = v
    BY <1>1, <2>1
  <2>4. Well(o)'
    BY <1>1, <1>2, <1>4, <2>2, <2>3, AuditGoesOn
  <2> QED
    BY <1>2, <2>1, <2>4, OnlyTheRequest
<1>5. CASE op[o].todo # <<>> /\ status \notin {"fix", "conflict"}
  <2>1. op' = [op EXCEPT ![o] = u]
    BY <1>5 DEF AuditNext, NextItem, Step
  <2> HIDE DEF status
  <2>2. /\ DOMAIN u = OpFields /\ u.kind = "audit" /\ u.at = "next" /\ u.todo = rest
        /\ u.rewritten = op[o].rewritten /\ u.restaged = op[o].restaged
    BY <1>1 DEF With, OpFields
  <2> HIDE DEF u
  <2>3. op'[o] = u
    BY <1>1, <2>1
  <2>4. Well(o)'
    BY <1>1, <1>2, <1>5, <2>2, <2>3, AuditGoesOn
  <2> QED
    BY <1>2, <2>1, <2>4, OnlyTheRequest
<1> QED
  BY <1>3, <1>4, <1>5

LEMMA FixType ==
    ASSUME NEW o, Item(o) \in AuditItems
    PROVE  Fix(o) \in Specs
<1> DEFINE told == Item(o).told
           fixes == SafeFixes(Item(o).specs, IsCard[Key(o)], told)
<1>1. told \subseteq Tellings /\ 0 \in Values
  BY SpecsAssumption DEF AuditItems
<1>2. ASSUME NEW f \in Fields PROVE EvidenceOf(told, f) \subseteq Values
  <2>1. \A e \in told : e.specs[f] \in Values
    BY <1>1 DEF Tellings, Specs
  <2> HIDE DEF told
  <2> QED
    BY <2>1 DEF EvidenceOf
<1>3. \A f \in fixes : EvidenceOf(told, f) # {}
  BY DEF SafeFixes
<1> HIDE DEF fixes, told
<1>4. \A f \in Fields : f \in fixes => (CHOOSE v \in EvidenceOf(told, f) : TRUE) \in Values
  <2> SUFFICES ASSUME NEW f \in Fields, f \in fixes
               PROVE  (CHOOSE v \in EvidenceOf(told, f) : TRUE) \in Values
    OBVIOUS
  <2> DEFINE E == EvidenceOf(told, f)
  <2>1. E # {} /\ E \subseteq Values
    BY <1>2, <1>3
  <2> HIDE DEF E
  <2>2. (CHOOSE v \in E : TRUE) \in E
    BY <2>1
  <2> QED
    BY <2>1, <2>2 DEF E
<1>5. Fix(o) = [f \in Fields |-> IF f \in fixes THEN CHOOSE v \in EvidenceOf(told, f) : TRUE ELSE 0]
  BY DEF Fix, fixes, told
<1> QED
  BY <1>1, <1>4, <1>5 DEF Specs

LEMMA AuditFixKeeps ==
    ASSUME Inv, NEW o \in Ops, AuditFix(o)
    PROVE  Inv'
<1>1. /\ Busy(o) /\ Well(o) /\ DOMAIN op = Ops /\ DOMAIN op[o] = OpFields /\ op[o].kind = "audit" /\ op[o].at = "fix"
      /\ op[o].todo # <<>> /\ Item(o) \in AuditItems /\ Key(o) \in Keys /\ Audited(o, Item(o))
  BY AuditInHand DEF AuditFix
<1> DEFINE k == Key(o)
           value == [product[k] EXCEPT !.specs = Merged(product[k].specs, Fix(o))]
           v == With(op[o], [at |-> "fixed"])
<1>2. /\ Rewrite(k, value) /\ op' = [Noted(o, "rewritten", k) EXCEPT ![o] = v]
      /\ UNCHANGED <<order, evidence, pending>>
  BY DEF AuditFix, WriteProduct
<1>3. value \in Products /\ value.here /\ ~value.flawed
  <2>1. product[k] \in Products /\ product[k].here /\ ~product[k].flawed
    BY <1>1 DEF Inv, TypeInv, ProductInv, Products, Audited, Key
  <2>2. product[k].specs \in Specs
    BY <2>1 DEF Products
  <2>3. Merged(product[k].specs, Fix(o)) \in Specs
    BY <1>1, <2>2, FixType, MergedType
  <2> DEFINE merged == Merged(product[k].specs, Fix(o))
  <2> HIDE DEF k, merged
  <2>4. merged \in Specs
    BY <2>3 DEF merged
  <2>5. LET w == [product[k] EXCEPT !.specs = merged] IN w \in Products /\ w.here /\ ~w.flawed
    BY <2>1, <2>4 DEF Products
  <2> QED
    BY <2>5 DEF merged
<1>4. /\ DOMAIN v = OpFields /\ v.kind = "audit" /\ v.at = "fixed" /\ v.todo = op[o].todo
      /\ v.rewritten = op[o].rewritten /\ v.restaged = op[o].restaged
  BY <1>1 DEF With, OpFields
<1> HIDE DEF k, value, v
<1>5. DOMAIN op' = Ops /\ k \in Keys
  BY <1>1, <1>2 DEF Noted, k
<1>6. StateInv' /\ Grows /\ (\A j \in Keys : ~Respecified(j)) /\ \A j \in Keys \ {k} : product'[j] = product[j]
  BY <1>2, <1>3, <1>5, ProductWritten
<1>7. op'[o] = v /\ \A p \in Ops \ {o} : Bystands(p)
  BY <1>2, <1>5, <1>6, NotedRewritten
<1>8. Well(o)'
  BY <1>1, <1>4, <1>6, <1>7, AuditGoesOn DEF k
<1> QED
  BY <1>6, <1>7, <1>8, Together

LEMMA AuditEvidenceKeeps ==
    ASSUME Inv, NEW o \in Ops, AuditEvidence(o)
    PROVE  Inv'
<1>1. /\ Busy(o) /\ Well(o) /\ DOMAIN op = Ops /\ DOMAIN op[o] = OpFields /\ op[o].kind = "audit" /\ op[o].at = "fixed"
      /\ op[o].todo # <<>> /\ Item(o) \in AuditItems /\ Key(o) \in Keys
  BY AuditInHand DEF AuditEvidence
<1> DEFINE k == Key(o)
           told == evidence[k] \cup {[kind |-> "audit", specs |-> Fix(o)]}
           rest == Tail(op[o].todo)
           v == With(op[o], [at |-> "next", todo |-> rest])
<1>2. /\ evidence' = [evidence EXCEPT ![k] = told] /\ op' = [op EXCEPT ![o] = v]
      /\ UNCHANGED <<staged, order, product, pending>>
  BY DEF AuditEvidence, NextItem, Step
<1>3. /\ DOMAIN v = OpFields /\ v.kind = "audit" /\ v.at = "next" /\ v.todo = rest
      /\ v.rewritten = op[o].rewritten /\ v.restaged = op[o].restaged
  BY <1>1 DEF With, OpFields
<1>4. evidence[k] \subseteq told /\ told \subseteq [kind : Kinds, specs : Specs]
  <2>1. Fix(o) \in Specs
    BY <1>1, FixType
  <2>2. evidence[k] \subseteq [kind : Kinds, specs : Specs]
    BY <1>1 DEF Inv, TypeInv
  <2>3. [kind |-> "audit", specs |-> Fix(o)] \in [kind : Kinds, specs : Specs]
    BY <2>1 DEF Kinds
  <2> QED
    BY <2>2, <2>3
<1> HIDE DEF told, v
<1>5. DOMAIN op' = Ops /\ op'[o] = v
  BY <1>1, <1>2
<1>6. /\ evidence' \in [Keys -> SUBSET [kind : Kinds, specs : Specs]]
      /\ \A j \in Keys : evidence[j] \subseteq evidence'[j]
  <2>1. evidence \in [Keys -> SUBSET [kind : Kinds, specs : Specs]]
    BY DEF Inv, TypeInv
  <2> QED
    BY <1>1, <1>2, <1>4, <2>1
<1>7. StateInv' /\ Grows /\ \A j \in Keys : ~Respecified(j)
  <2>1. pending' \in [Keys -> 0..MaxPending] /\ \A j \in Keys : pending[j] <= pending'[j]
    BY <1>2, NothingAsked
  <2> QED
    BY <1>2, <1>5, <1>6, <2>1, Noticed
<1>8. \A p \in Ops \ {o} : Bystands(p)
  BY <1>2, <1>7, Alone
<1>9. Well(o)'
  BY <1>1, <1>2, <1>3, <1>5, AuditGoesOn
<1> QED
  BY <1>7, <1>8, <1>9, Together

LEMMA AuditReviewKeeps ==
    ASSUME Inv, NEW o \in Ops, AuditReview(o)
    PROVE  Inv'
<1>1. /\ Busy(o) /\ Well(o) /\ DOMAIN op = Ops /\ DOMAIN op[o] = OpFields /\ op[o].kind = "audit" /\ op[o].at = "conflict"
      /\ op[o].todo # <<>> /\ Key(o) \in Keys
  BY AuditInHand DEF AuditReview
<1> DEFINE k == Key(o)
           rest == Tail(op[o].todo)
           v == With(op[o], [at |-> "next", todo |-> rest])
<1>2. /\ pending' = [pending EXCEPT ![k] = IF pending[k] < MaxPending THEN pending[k] + 1 ELSE pending[k]]
      /\ op' = [op EXCEPT ![o] = v] /\ UNCHANGED <<staged, order, product, evidence>>
  BY DEF AuditReview, NextItem, Step
<1>3. /\ DOMAIN v = OpFields /\ v.kind = "audit" /\ v.at = "next" /\ v.todo = rest
      /\ v.rewritten = op[o].rewritten /\ v.restaged = op[o].restaged
  BY <1>1 DEF With, OpFields
<1> HIDE DEF k, v
<1>4. pending \in [Keys -> 0..MaxPending] /\ MaxPending \in Nat /\ k \in Keys
  BY <1>1, ImportAssumption DEF Inv, TypeInv, k
<1>5. pending' \in [Keys -> 0..MaxPending] /\ \A j \in Keys : pending[j] <= pending'[j]
  BY <1>2, <1>4
<1>6. evidence' \in [Keys -> SUBSET [kind : Kinds, specs : Specs]] /\ \A j \in Keys : evidence[j] \subseteq evidence'[j]
  BY <1>2 DEF Inv, TypeInv
<1>7. DOMAIN op' = Ops /\ op'[o] = v
  BY <1>1, <1>2
<1>8. StateInv' /\ Grows /\ \A j \in Keys : ~Respecified(j)
  BY <1>2, <1>5, <1>6, <1>7, Noticed
<1>9. \A p \in Ops \ {o} : Bystands(p)
  BY <1>2, <1>8, Alone
<1>10. Well(o)'
  BY <1>1, <1>2, <1>3, <1>7, AuditGoesOn
<1> QED
  BY <1>8, <1>9, <1>10, Together

-----------------------------------------------------------------------------
(* A request that ends, and the removal of records.                         *)
LEMMA RaiseKeeps ==
    ASSUME Inv, NEW o \in Ops, Raise(o) \/ RaiseGone(o)
    PROVE  Inv'
<1>1. op' = [op EXCEPT ![o] = NoOp] /\ UNCHANGED <<staged, order, product, evidence, pending>>
  BY DEF Raise, RaiseGone, End
<1> QED
  BY <1>1, OnlyTheRequest

LEMMA ClearKeeps ==
    ASSUME Inv, NEW source, NEW card, Clear(source, card)
    PROVE  Inv'
<1> DEFINE gone == {k \in Staged : Of(k, source, card)}
<1>1. /\ staged' = [k \in Keys |-> IF k \in gone THEN NoRecord ELSE staged[k]]
      /\ order' = Among(Staged \ gone)
      /\ op' = [o \in Ops |-> IF Busy(o) THEN [op[o] EXCEPT !.restaged = op[o].restaged \cup gone] ELSE op[o]]
      /\ UNCHANGED <<product, evidence, pending>>
  BY DEF Clear
<1>2. gone \subseteq Keys /\ gone \subseteq Staged
  BY DEF Staged
<1> HIDE DEF gone
<1>3. \A k \in Keys : staged'[k] = NoRecord \/ (staged'[k] = staged[k] /\ k \notin gone)
  BY <1>1
<1>4. Staged' = Staged \ gone
  BY <1>1 DEF Staged
<1>5. TypeInv'
  <2>1. staged' \in [Keys -> StagedRecords \cup {NoRecord}]
    BY <1>1 DEF Inv, TypeInv
  <2> QED
    BY <1>1, <2>1 DEF Inv, TypeInv
<1>6. OrderInv'
  <2>1. /\ Among(Staged \ gone) \in Seq(Keys) /\ ToSet(Among(Staged \ gone)) = Staged \cap (Staged \ gone)
        /\ \A i, j \in DOMAIN Among(Staged \ gone) : Among(Staged \ gone)[i] = Among(Staged \ gone)[j] => i = j
    BY AmongFacts DEF Inv
  <2> DEFINE left == Among(Staged \ gone)
  <2> HIDE DEF left
  <2>2. left \in Seq(Keys) /\ ToSet(left) = Staged \ gone /\ \A i, j \in DOMAIN left : left[i] = left[j] => i = j
    BY <2>1 DEF left
  <2>3. order' = left
    BY <1>1 DEF left
  <2> QED
    BY <1>4, <2>2, <2>3 DEF OrderInv
<1>7. ProductInv'
  BY <1>1 DEF Inv, ProductInv
<1>8. RecordInv'
  BY <1>1, <1>3 DEF Inv, RecordInv
<1>9. MarkInv'
  <2>1. \A k \in Staged' : k \in Staged /\ staged'[k] = staged[k]
    BY <1>3, <1>4 DEF Staged
  <2>2. ImportedWasApplied /\ ConflictIsAsked
    BY DEF Inv, MarkInv
  <2>3. ImportedWasApplied'
    BY <1>1, <2>1, <2>2 DEF ImportedWasApplied
  <2>4. ConflictIsAsked'
    BY <1>1, <2>1, <2>2 DEF ConflictIsAsked
  <2> QED
    BY <2>3, <2>4 DEF MarkInv
<1>10. Grows
  <2>1. pending' \in [Keys -> 0..MaxPending] /\ \A j \in Keys : pending[j] <= pending'[j]
    BY <1>1, NothingAsked
  <2>2. MaxPending \in Nat
    BY ImportAssumption
  <2> QED
    BY <1>1, <2>1, <2>2 DEF Grows
<1>11. ASSUME NEW p \in Ops PROVE Bystands(p)
  <2>1. CASE ~Busy(p)
    BY <1>1, <2>1 DEF Bystands
  <2>2. CASE Busy(p)
    <3>1. op'[p] = [op[p] EXCEPT !.restaged = op[p].restaged \cup gone]
      BY <1>1, <2>2
    <3>2. DOMAIN op[p] = OpFields /\ op[p].rewritten \subseteq Keys /\ op[p].restaged \subseteq Keys
      BY <2>2 DEF Inv, OpInv, Well, OpType
    <3>3. /\ op'[p].kind = op[p].kind /\ op'[p].at = op[p].at /\ op'[p].todo = op[p].todo /\ op'[p].done = op[p].done
          /\ op'[p].source = op[p].source /\ op'[p].approval = op[p].approval /\ op'[p].rewritten = op[p].rewritten
          /\ op'[p].restaged = op[p].restaged \cup gone /\ DOMAIN op'[p] = OpFields
      BY <3>1, <3>2 DEF OpFields
    <3>4. SameTask(p)
      BY <1>2, <3>2, <3>3 DEF SameTask
    <3>5. Tracks(p)
      BY <1>1, <3>3 DEF Tracks, Respecified
    <3> QED
      BY <2>2, <3>4, <3>5 DEF Bystands
  <2> QED
    BY <2>1, <2>2
<1>12. OpInv'
  <2> SUFFICES ASSUME NEW p \in Ops PROVE Busy(p)' => Well(p)'
    BY DEF OpInv
  <2>1. (Busy(p) => Well(p)) /\ Bystands(p) /\ TypeInv
    BY <1>11 DEF Inv, OpInv
  <2> QED
    BY <1>10, <2>1, Bystanders
<1> QED
  BY <1>5, <1>6, <1>7, <1>8, <1>9, <1>12 DEF Inv

LEMMA StandingStill ==
    ASSUME Inv, UNCHANGED vars
    PROVE  Inv'
<1>1. UNCHANGED <<staged, order, product, evidence, pending, op>>
  BY DEF vars
<1>2. TypeInv' /\ OrderInv' /\ ProductInv' /\ RecordInv' /\ MarkInv'
  BY <1>1 DEF Inv, TypeInv, OrderInv, ProductInv, RecordInv, MarkInv, Staged, ImportedWasApplied, ConflictIsAsked
<1>3. OpInv'
  <2> SUFFICES ASSUME NEW o \in Ops, Busy(o)' PROVE Well(o)'
    BY DEF OpInv
  <2>1. Busy(o) /\ Well(o)
    BY <1>1 DEF Inv, OpInv, Busy
  <2> QED
    BY <1>1, <2>1 DEF Well, StageWell, ReadWell, CommitWell, AuditWell, Judged, AsRead, Audited, Ahead, Key, Item
<1> QED
  BY <1>2, <1>3 DEF Inv

LEMMA InitFollows == Init => Inv
<1> SUFFICES ASSUME Init PROVE Inv
  OBVIOUS
<1>1. TypeInv
  <2>1. NoProduct \in [here : BOOLEAN, specs : Specs, flawed : BOOLEAN]
    BY NothingType DEF NoProduct
  <2> QED
    BY <2>1, ImportAssumption DEF Init, TypeInv
<1>2. Staged = {} /\ order = <<>>
  BY DEF Init, Staged
<1>3. OrderInv
  <2>1. ToSet(<<>>) = {} /\ <<>> \in Seq(Keys) /\ DOMAIN <<>> = {}
    BY DEF ToSet
  <2> QED
    BY <1>2, <2>1 DEF OrderInv
<1>4. ProductInv /\ RecordInv
  BY DEF Init, ProductInv, RecordInv, NoProduct
<1>5. OpInv
  BY DEF Init, OpInv, Busy
<1>6. MarkInv
  BY <1>2 DEF MarkInv, ImportedWasApplied, ConflictIsAsked
<1> QED
  BY <1>1, <1>3, <1>4, <1>5, <1>6 DEF Inv

LEMMA StepKeeps ==
    ASSUME Inv, [Next]_vars
    PROVE  Inv'
<1>1. CASE UNCHANGED vars
  BY <1>1, StandingStill
<1>2. CASE \E o \in Ops : StageStep(o) \/ CommitStep(o) \/ EnrichStep(o) \/ AuditStep(o) \/ FeedStep(o) \/ Raise(o)
  <2>1. PICK o \in Ops : StageStep(o) \/ CommitStep(o) \/ EnrichStep(o) \/ AuditStep(o) \/ FeedStep(o) \/ Raise(o)
    BY <1>2
  <2>2. CASE StageStep(o)
    BY <2>2, StageBeginKeeps, StageJudgeKeeps, StageWriteKeeps DEF StageStep
  <2>3. CASE CommitStep(o)
    BY <2>3, CommitBeginKeeps, CommitNextKeeps, CommitAskKeeps, CommitUpsertKeeps, CommitEvidenceKeeps,
       CommitMarkKeeps DEF CommitStep
  <2>4. CASE EnrichStep(o)
    <3>1. ASSUME NEW confirmed \in Confirmed, NEW keys,
                 EnrichBegin(o, keys, confirmed, FALSE) \/ EnrichBegin(o, keys, confirmed, TRUE)
          PROVE  Inv'
      BY <3>1, EnrichBeginKeeps
    <3>2. CASE EnrichWrite(o) \/ EnrichAttach(o) \/ RaiseGone(o)
      BY <3>2, EnrichWriteKeeps, EnrichAttachKeeps, RaiseKeeps
    <3>3. ASSUME NEW confirmed \in Confirmed,
                 \/ \E k \in Keys : EnrichBegin(o, {k}, confirmed, FALSE)
                 \/ EnrichBegin(o, {k \in Staged : staged[k].gpu}, confirmed, FALSE)
                 \/ \E k \in Staged : ~staged[k].gpu /\ EnrichBegin(o, {k}, confirmed, TRUE)
          PROVE  Inv'
      <4>1. CASE \E k \in Keys : EnrichBegin(o, {k}, confirmed, FALSE)
        BY <3>1, <4>1
      <4>2. CASE EnrichBegin(o, {k \in Staged : staged[k].gpu}, confirmed, FALSE)
        BY <3>1, <4>2
      <4>3. CASE \E k \in Staged : ~staged[k].gpu /\ EnrichBegin(o, {k}, confirmed, TRUE)
        BY <3>1, <4>3
      <4> QED
        BY <3>3, <4>1, <4>2, <4>3
    <3> QED
      BY <2>4, <3>2, <3>3 DEF EnrichStep
  <2>5. CASE AuditStep(o)
    BY <2>5, AuditBeginKeeps, AuditNextKeeps, AuditFixKeeps, AuditEvidenceKeeps, AuditReviewKeeps DEF AuditStep
  <2>6. CASE FeedStep(o)
    BY <2>6, FeedKeeps DEF FeedStep
  <2>7. CASE Raise(o)
    BY <2>7, RaiseKeeps
  <2> QED
    BY <2>1, <2>2, <2>3, <2>4, <2>5, <2>6, <2>7
<1>3. CASE \E source \in Sources, card \in BOOLEAN : Clear(source, card)
  BY <1>3, ClearKeeps
<1>4. CASE Done
  BY <1>4, StandingStill DEF Done
<1> QED
  BY <1>1, <1>2, <1>3, <1>4 DEF Next

-----------------------------------------------------------------------------
\* The inductive invariant holds of every run of the import: products, staged records,
\* marks and what every request under way has read and not yet written.
THEOREM ImportsKeep == Spec => []Inv
<1>1. Init => Inv
  BY InitFollows
<1>2. Inv /\ [Next]_vars => Inv'
  BY StepKeeps
<1> QED
  BY <1>1, <1>2, PTL DEF Spec

\* However requests interleave and fail: what the review calls eligible is not skipped,
\* unless an enrichment tore the record, and until its specs or the product change it is
\* exactly what a commit imports.
THEOREM ReviewsPredict == Spec => []ReviewPredicts
<1>1. Inv => ReviewPredicts
  BY ReviewFollows DEF Inv
<1> QED
  BY <1>1, ImportsKeep, PTL

\* A record marked imported has evidence of its specs, unless it was staged again while a
\* commit had it in hand; nothing that was rejected is in the catalog unconfirmed.
THEOREM MarksTellTrue == Spec => []MarksTellTheTruth
<1>1. Inv => MarksTellTheTruth
  <2> SUFFICES ASSUME Inv PROVE MarksTellTheTruth
    OBVIOUS
  <2>1. Len(order) = Cardinality(Staged)
    <3>1. order \in Seq(Keys) /\ ToSet(order) = Staged /\ \A i, j \in DOMAIN order : order[i] = order[j] => i = j
      BY DEF Inv, OrderInv
    <3>2. Len(order) \in Nat /\ DOMAIN order = 1..Len(order)
      BY <3>1
    <3> DEFINE n == Len(order)
    <3>3. order \in Bijection(1..n, Staged)
      <4>1. \A x : x \in Staged <=> \E i \in 1..n : order[i] = x
        BY <3>1, <3>2 DEF ToSet
      <4>2. order \in [1..n -> Staged]
        BY <3>1, <3>2, <4>1
      <4> QED
        BY <3>1, <3>2, <4>1, <4>2 DEF Bijection, Injection, Surjection, IsInjective
    <3>4. IsFiniteSet(1..n) /\ Cardinality(1..n) = n
      <4>1. n \in Nat
        BY <3>2
      <4> HIDE DEF n
      <4> QED
        BY <4>1, FS_Interval
    <3>5. ExistsBijection(1..n, Staged)
      BY <3>3 DEF ExistsBijection
    <3> HIDE DEF n
    <3>6. Cardinality(Staged) = n
      BY <3>4, <3>5, FS_Bijection
    <3> QED
      BY <3>6 DEF n
  <2>2. \A o \in Ops : Busy(o) => op[o].rewritten \cup op[o].restaged \subseteq Keys
    BY DEF Inv, OpInv, Well, OpType
  <2>3. TypeOK
    BY <2>1, <2>2 DEF Inv, TypeInv, OrderInv, TypeOK, Kinds
  <2>4. ImportedWasApplied /\ RejectedStaysOut
    BY DEF Inv, MarkInv, ProductInv, RejectedStaysOut
  <2> QED
    BY <2>3, <2>4 DEF MarksTellTheTruth
<1> QED
  BY <1>1, ImportsKeep, PTL

\* A record marked as a conflict has an approval that waits, also after a commit that
\* broke off between its queries.
THEOREM ConflictsAreAsked == Spec => []ConflictIsAsked
<1>1. Inv => ConflictIsAsked
  BY DEF Inv, MarkInv
<1> QED
  BY <1>1, ImportsKeep, PTL

-----------------------------------------------------------------------------
(* Who takes a step: only the request itself goes on to another stage.      *)
Elsewhere(p) == \A o \in Ops \ {p} : Busy(o) => op'[o].at = op[o].at
Moves(p) ==
    \/ \E v : op' = [op EXCEPT ![p] = v]
    \/ \E k, v : op' = [Noted(p, "rewritten", k) EXCEPT ![p] = v]
    \/ \E k, v : op' = [Noted(p, "restaged", k) EXCEPT ![p] = v]
    \/ \E k : op' = Noted(p, "rewritten", k)

LEMMA OthersWait ==
    ASSUME Inv, NEW p \in Ops, Moves(p)
    PROVE  Elsewhere(p)
<1> SUFFICES ASSUME NEW o \in Ops \ {p}, Busy(o) PROVE op'[o].at = op[o].at
  BY DEF Elsewhere
<1>1. DOMAIN op = Ops /\ DOMAIN op[o] = OpFields
  BY DEF Inv, TypeInv, OpInv, Well, OpType
<1>2. CASE \E v : op' = [op EXCEPT ![p] = v]
  BY <1>1, <1>2
<1>3. CASE \E k, v : op' = [Noted(p, "rewritten", k) EXCEPT ![p] = v]
  <2>1. PICK k, v : op' = [Noted(p, "rewritten", k) EXCEPT ![p] = v]
    BY <1>3
  <2>2. op'[o] = [op[o] EXCEPT !["rewritten"] = op[o]["rewritten"] \cup {k}]
    BY <2>1 DEF Noted
  <2> QED
    BY <1>1, <2>2 DEF OpFields
<1>4. CASE \E k, v : op' = [Noted(p, "restaged", k) EXCEPT ![p] = v]
  <2>1. PICK k, v : op' = [Noted(p, "restaged", k) EXCEPT ![p] = v]
    BY <1>4
  <2>2. op'[o] = [op[o] EXCEPT !["restaged"] = op[o]["restaged"] \cup {k}]
    BY <2>1 DEF Noted
  <2> QED
    BY <1>1, <2>2 DEF OpFields
<1>5. CASE \E k : op' = Noted(p, "rewritten", k)
  <2>1. PICK k : op' = Noted(p, "rewritten", k)
    BY <1>5
  <2>2. op'[o] = [op[o] EXCEPT !["rewritten"] = op[o]["rewritten"] \cup {k}]
    BY <2>1 DEF Noted
  <2> QED
    BY <1>1, <2>2 DEF OpFields
<1> QED
  BY <1>2, <1>3, <1>4, <1>5 DEF Moves

Steps(o) == StageStep(o) \/ CommitStep(o) \/ EnrichStep(o) \/ AuditStep(o) \/ FeedStep(o) \/ Raise(o)

LEMMA StepsMove ==
    ASSUME NEW p \in Ops, Steps(p)
    PROVE  Moves(p)
<1>1. CASE StageStep(p)
  <2>1. \A source, rows : StageBegin(p, source, rows) => Moves(p)
    BY DEF StageBegin, Begin, Moves
  <2>2. StageJudge(p) => Moves(p)
    BY DEF StageJudge, Step, Moves
  <2>3. StageWrite(p) => Moves(p)
    BY DEF StageWrite, End, WriteStaged, Moves
  <2> QED
    BY <1>1, <2>1, <2>2, <2>3 DEF StageStep
<1>2. CASE CommitStep(p)
  <2>1. \A source, card, approval : CommitBegin(p, source, card, approval) => Moves(p)
    BY DEF CommitBegin, Begin, Moves
  <2>2. CommitNext(p) => Moves(p)
    BY DEF CommitNext, Step, End, Moves
  <2>3. CommitAsk(p) => Moves(p)
    BY DEF CommitAsk, Step, Moves
  <2>4. CommitUpsert(p) => Moves(p)
    BY DEF CommitUpsert, WriteProduct, Moves
  <2>5. CommitEvidence(p) => Moves(p)
    BY DEF CommitEvidence, Step, Moves
  <2>6. \A mark : CommitMark(p, mark) => Moves(p)
    BY DEF CommitMark, NextItem, Step, Moves
  <2> QED
    BY <1>2, <2>1, <2>2, <2>3, <2>4, <2>5, <2>6 DEF CommitStep
<1>3. CASE EnrichStep(p)
  <2>1. \A keys, confirmed, cpu : EnrichBegin(p, keys, confirmed, cpu) => Moves(p)
    BY DEF EnrichBegin, Begin, Moves
  <2>2. EnrichWrite(p) => Moves(p)
    BY DEF EnrichWrite, End, Step, WriteStaged, Moves
  <2>3. EnrichAttach(p) => Moves(p)
    BY DEF EnrichAttach, Step, Moves
  <2>4. RaiseGone(p) => Moves(p)
    BY DEF RaiseGone, End, Moves
  <2> QED
    BY <1>3, <2>1, <2>2, <2>3, <2>4 DEF EnrichStep
<1>4. CASE AuditStep(p)
  <2>1. AuditBegin(p) => Moves(p)
    BY DEF AuditBegin, Begin, Moves
  <2>2. AuditNext(p) => Moves(p)
    BY DEF AuditNext, Step, NextItem, End, Moves
  <2>3. AuditFix(p) => Moves(p)
    BY DEF AuditFix, WriteProduct, Moves
  <2>4. AuditEvidence(p) => Moves(p)
    BY DEF AuditEvidence, NextItem, Step, Moves
  <2>5. AuditReview(p) => Moves(p)
    BY DEF AuditReview, NextItem, Step, Moves
  <2> QED
    BY <1>4, <2>1, <2>2, <2>3, <2>4, <2>5 DEF AuditStep
<1>5. CASE FeedStep(p)
  BY <1>5 DEF FeedStep, Feed, Moves
<1>6. CASE Raise(p)
  BY <1>6 DEF Raise, End, Moves
<1> QED
  BY <1>1, <1>2, <1>3, <1>4, <1>5, <1>6 DEF Steps

LEMMA Acting ==
    ASSUME Inv, [Next]_vars, NEW o \in Ops, Acts(o)
    PROVE  Steps(o)
<1>1. Busy(o) /\ op'[o].at # op[o].at
  BY DEF Acts, Busy
<1>2. CASE UNCHANGED vars \/ Done
  BY <1>1, <1>2 DEF vars, Done
<1>3. CASE \E source \in Sources, card \in BOOLEAN : Clear(source, card)
  <2>1. PICK source \in Sources, card \in BOOLEAN : Clear(source, card)
    BY <1>3
  <2> DEFINE gone == {k \in Staged : Of(k, source, card)}
  <2>2. op'[o] = [op[o] EXCEPT !.restaged = op[o].restaged \cup gone]
    BY <1>1, <2>1 DEF Clear
  <2>3. DOMAIN op[o] = OpFields
    BY <1>1 DEF Inv, OpInv, Well, OpType
  <2> HIDE DEF gone
  <2> QED
    BY <1>1, <2>2, <2>3 DEF OpFields
<1>4. CASE \E p \in Ops : Steps(p)
  <2>1. PICK p \in Ops : Steps(p)
    BY <1>4
  <2>2. Elsewhere(p)
    BY <2>1, StepsMove, OthersWait
  <2> QED
    BY <1>1, <2>1, <2>2 DEF Elsewhere
<1> QED
  BY <1>2, <1>3, <1>4 DEF Next, Steps

\* The stages at which a request writes, and the action that does.
LEMMA ActsAs ==
    ASSUME Inv, [Next]_vars, NEW o \in Ops, Acts(o)
    PROVE  /\ op[o].at = "upsert" => CommitUpsert(o)
           /\ op[o].at = "fix" => AuditFix(o)
           /\ op[o].kind \in {"enrich", "enrichCpu"} /\ op[o].at = "write" => EnrichWrite(o)
<1>1. Busy(o) /\ Busy(o)' /\ op'[o] # NoOp /\ Steps(o) /\ OpType(op[o]) /\ DOMAIN op = Ops
  BY Acting DEF Acts, Busy, Inv, TypeInv, OpInv, Well
<1>2. op' # [op EXCEPT ![o] = NoOp]
  BY <1>1
<1>3. CASE StageStep(o)
  <2>1. op[o].kind = "stage" /\ (op[o].at = "judge" \/ op[o].at = "write")
    BY <1>1, <1>3 DEF StageStep, StageBegin, Begin, StageJudge, StageWrite, Does
  <2> QED
    BY <2>1
<1>4. CASE CommitStep(o)
  <2>1. CommitUpsert(o) \/ (op[o].kind = "commit" /\ op[o].at \in CommitStages \ {"upsert"})
    <3>1. \A source, card, approval : ~CommitBegin(o, source, card, approval)
      BY <1>1 DEF CommitBegin, Begin
    <3>2. CommitNext(o) \/ CommitAsk(o) \/ CommitEvidence(o) =>
              op[o].kind = "commit" /\ op[o].at \in CommitStages \ {"upsert"}
      BY DEF CommitNext, CommitAsk, CommitEvidence, Does, CommitStages
    <3>3. \A mark \in {"skipped", "conflict", "imported"} : CommitMark(o, mark) =>
              op[o].kind = "commit" /\ op[o].at \in CommitStages \ {"upsert"}
      BY DEF CommitMark, Does, CommitStages
    <3> QED
      BY <1>4, <3>1, <3>2, <3>3 DEF CommitStep
  <2>2. CommitUpsert(o) => op[o].kind = "commit" /\ op[o].at = "upsert"
    BY DEF CommitUpsert, Does
  <2> QED
    BY <2>1, <2>2 DEF CommitStages
<1>5. CASE EnrichStep(o)
  <2>1. EnrichWrite(o) \/ EnrichAttach(o)
    BY <1>1, <1>2, <1>5 DEF EnrichStep, EnrichBegin, Begin, RaiseGone, End
  <2>2. op[o].kind \in {"enrich", "enrichCpu"} /\ ((EnrichWrite(o) /\ op[o].at = "write") \/ op[o].at = "attach")
    BY <2>1 DEF EnrichWrite, EnrichAttach, Does
  <2> QED
    BY <2>2
<1>6. CASE AuditStep(o)
  <2>1. op[o].kind = "audit" /\ (AuditFix(o) \/ op[o].at \in {"next", "fixed", "conflict"})
    BY <1>1, <1>6 DEF AuditStep, AuditBegin, Begin, AuditNext, AuditFix, AuditEvidence, AuditReview, Does
  <2>2. AuditFix(o) => op[o].at = "fix"
    BY DEF AuditFix, Does
  <2> QED
    BY <2>1, <2>2
<1>7. CASE FeedStep(o)
  BY <1>1, <1>7 DEF FeedStep, Feed
<1>8. CASE Raise(o)
  BY <1>2, <1>8 DEF Raise, End
<1> QED
  BY <1>1, <1>3, <1>4, <1>5, <1>6, <1>7, <1>8 DEF Steps

-----------------------------------------------------------------------------
\* A commit that asks for approvals replaces no guarded spec, and an audit none at all, unless
\* the product was written after the request had read it.
THEOREM PresentIsKept == Spec => PresentKept
<1> DEFINE keeps(k, o) ==
        Acts(o) /\ op[o].todo # <<>> /\ Key(o) = k /\ k \notin op[o].rewritten =>
          /\ op[o].at = "upsert" /\ op[o].approval => ~Replaced(k, Guarded)
          /\ op[o].at = "fix" => ~Replaced(k, Fields)
<1>1. ASSUME Inv, [Next]_vars, NEW k \in Keys, NEW o \in Ops PROVE keeps(k, o)
  <2> SUFFICES ASSUME Acts(o), op[o].todo # <<>>, Key(o) = k, k \notin op[o].rewritten
               PROVE  /\ op[o].at = "upsert" /\ op[o].approval => ~Replaced(k, Guarded)
                      /\ op[o].at = "fix" => ~Replaced(k, Fields)
    OBVIOUS
  <2>1. product[k].specs \in Specs /\ (~product[k].here => product[k].specs = Nothing) /\ k \in DOMAIN product
    BY <1>1 DEF Inv, TypeInv, ProductInv
  <2>2. ASSUME op[o].at = "upsert", op[o].approval, NEW f \in Guarded,
               product[k].specs[f] # 0, product'[k].specs[f] # product[k].specs[f]
        PROVE  FALSE
    <3>1. CommitUpsert(o)
      BY <1>1, <2>2, ActsAs
    <3>2. Known(product[k], Item(o).record.specs) = {}
      <4>1. Well(o) /\ op[o].kind = "commit"
        BY <1>1, <3>1, InHand DEF CommitUpsert
      <4> QED
        BY <2>2, <4>1 DEF Well, CommitWell
    <3>3. product'[k].specs = Merged(product[k].specs, Item(o).record.specs)
      BY <2>1, <3>1 DEF CommitUpsert, WriteProduct, Rewrite
    <3>4. f \in Fields
      BY SpecsAssumption
    <3>5. Item(o).record.specs[f] # 0 /\ Item(o).record.specs[f] # product[k].specs[f]
      BY <2>2, <3>3, <3>4 DEF Merged
    <3>6. f \in Conflicts(product[k].specs, Item(o).record.specs)
      BY <2>2, <3>5 DEF Conflicts
    <3>7. product[k].here
      BY <2>1, <2>2, <3>4 DEF Nothing
    <3> QED
      BY <3>2, <3>6, <3>7 DEF Known
  <2>3. ASSUME op[o].at = "fix", NEW f \in Fields,
               product[k].specs[f] # 0, product'[k].specs[f] # product[k].specs[f]
        PROVE  FALSE
    <3>1. AuditFix(o)
      BY <1>1, <2>3, ActsAs
    <3>2. product[k].specs = Item(o).specs
      <4>1. Audited(o, Item(o))
        BY <1>1, <3>1, AuditInHand DEF AuditFix
      <4> QED
        BY <4>1 DEF Audited, Key
    <3>3. product'[k].specs = Merged(product[k].specs, Fix(o))
      <4>1. product' = [product EXCEPT ![k] = [product[k] EXCEPT !.specs = Merged(product[k].specs, Fix(o))]]
        BY <3>1 DEF AuditFix, WriteProduct, Rewrite
      <4>2. "specs" \in DOMAIN product[k]
        BY <1>1 DEF Inv, TypeInv
      <4> QED
        BY <2>1, <4>1, <4>2
    <3>4. Fix(o)[f] # 0
      BY <2>3, <3>3 DEF Merged
    <3>5. f \in SafeFixes(Item(o).specs, IsCard[Key(o)], Item(o).told)
      BY <3>4 DEF Fix
    <3>6. Item(o).specs[f] = 0
      BY <3>5 DEF SafeFixes
    <3> QED
      BY <2>3, <3>2, <3>6
  <2> QED
    BY <2>2, <2>3 DEF Replaced
<1>2. Inv /\ [Next]_vars => [\A k \in Keys : \A o \in Ops : keeps(k, o)]_vars
  BY <1>1
<1> QED
  BY <1>2, ImportsKeep, PTL DEF Spec, PresentKept

\* What a founder does not confirm stays in the record, unless it was staged again after
\* the enrichment had read it.
THEOREM EnrichmentsKeep == Spec => EnrichmentKeeps
<1> DEFINE keeps(o) ==
        Acts(o) /\ op[o].kind \in {"enrich", "enrichCpu"} /\ op[o].at = "write" /\ Key(o) \notin op[o].restaged =>
          \A f \in Fields : Item(o).confirmed[f] = 0 => staged'[Key(o)].specs[f] = staged[Key(o)].specs[f]
<1>1. ASSUME Inv, [Next]_vars, NEW o \in Ops PROVE keeps(o)
  <2> SUFFICES ASSUME Acts(o), op[o].kind \in {"enrich", "enrichCpu"}, op[o].at = "write",
                      Key(o) \notin op[o].restaged, NEW f \in Fields, Item(o).confirmed[f] = 0
               PROVE  staged'[Key(o)].specs[f] = staged[Key(o)].specs[f]
    OBVIOUS
  <2> DEFINE k == Key(o)
             r == Item(o).record
             confirmed == Item(o).confirmed
             value == WrittenOver(op[o].kind, staged[k], r, confirmed, k, op[o].restaged)
  <2>1. EnrichWrite(o)
    BY <1>1, ActsAs
  <2>2. op[o] # NoOp /\ op'[o] # NoOp /\ op'[o].at # op[o].at /\ DOMAIN op = Ops /\ DOMAIN op[o] = OpFields
    BY <1>1 DEF Acts, Inv, TypeInv, OpInv, Busy, Well, OpType
  <2>3. op[o].todo # <<>>
    BY <2>1, <2>2 DEF EnrichWrite, End
  <2>4. op[o].kind = "enrichCpu" \/ Enrichable(r, confirmed)
    <3> SUFFICES ASSUME op[o].kind # "enrichCpu", ~Enrichable(r, confirmed) PROVE FALSE
      OBVIOUS
    <3> DEFINE rest == Tail(op[o].todo)
               u == With(op[o], [todo |-> rest])
    <3>1. op' = [op EXCEPT ![o] = u]
      BY <2>1, <2>3 DEF EnrichWrite, Step
    <3>2. u.at = op[o].at
      BY <2>2 DEF With, OpFields
    <3> QED
      BY <2>2, <3>1, <3>2
  <2>5. k \in Staged /\ staged' = [staged EXCEPT ![k] = value]
    BY <2>1, <2>3, <2>4 DEF EnrichWrite, WriteStaged, WrittenOver
  <2>6. Item(o) \in EnrichItems /\ k \in Keys /\ AsRead(o, Item(o))
    <3>1. Does(o, "enrich", "write") \/ Does(o, "enrichCpu", "write")
      BY <2>1 DEF EnrichWrite
    <3> QED
      BY <1>1, <2>3, <3>1, EnrichInHand
  <2>7. staged[k].specs = r.specs /\ staged[k].gpu = r.gpu
    BY <2>6 DEF AsRead, Key
  <2>8. Writable(op[o].kind, staged[k], r, confirmed, k, op[o].restaged)
    <3>1. r \in StagedRecords /\ confirmed \in Specs
      BY <2>6 DEF EnrichItems
    <3>2. staged[k] \in StagedRecords /\ Sound(staged[k])
      BY <1>1, <2>5, <2>6 DEF Inv, TypeInv, RecordInv, Staged
    <3> QED
      BY <2>4, <2>7, <3>1, <3>2 DEF Writable
  <2>9. value.specs = Merged(r.specs, confirmed)
    <3> DEFINE now == staged[k]
               what == op[o].kind
               those == op[o].restaged
               written == WrittenOver(what, now, r, confirmed, k, those)
    <3>1. Writable(what, now, r, confirmed, k, those)
      BY <2>8
    <3> HIDE DEF now, what, those, r, confirmed, k
    <3>2. written.specs = Merged(r.specs, confirmed)
      BY <3>1, EnrichedSpecs
    <3> QED
      BY <3>2 DEF now, what, those
  <2>10. staged'[k] = value
    BY <1>1, <2>5, <2>6 DEF Inv, TypeInv
  <2> HIDE DEF value
  <2> QED
    BY <2>7, <2>9, <2>10 DEF Merged
<1>2. Inv /\ [Next]_vars => [\A o \in Ops : keeps(o)]_vars
  BY <1>1
<1> QED
  BY <1>2, ImportsKeep, PTL DEF Spec, EnrichmentKeeps
=============================================================================
